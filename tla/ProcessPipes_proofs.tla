------------------------ MODULE ProcessPipes_proofs ------------------------
(***************************************************************************)
(* Proofs about ProcessPipes for every frame size, every budget of the     *)
(* output queue, every number of frames and every output of the child.     *)
(***************************************************************************)
EXTENDS ProcessPipes, FiniteSetTheorems, SequenceTheorems, WellFoundedInduction, TLAPS

(* The inductive invariant, one part per thread and table.                 *)

Value == [line : Seq(Bytes), ok : BOOLEAN]

\* The types TypeOK leaves out.
StreamTypes ==
    /\ load \in Loads
    /\ item \in Value /\ hand \in Value
    /\ queue \in Seq(Value) /\ received \in Seq(Value)
    /\ used \in Nat

\* A line that is too long is the last the reader looks at.
LineBounded ==
    reader = "read" \/ (reader \in {"reserve", "enqueue"} /\ ~last) =>
        Len(partial) <= MaxLineBytes

\* Where the writer thread may be while the caller is where.
WriterInv ==
    /\ worker \in {"check", "io"} => pc \in {"await", "join_writer"} /\ result = "none"
    /\ worker \in {"check", "io"} \/ pc \in {"send", "await"} =>
          frame > 0 /\ size \in 1..MaxFrameSize
    /\ worker \in {"check", "io"} \/ pc \in {"send", "await"} => returned[frame] = "none"
    /\ pc = "send" => offset = 0 /\ result = "none"
    /\ pc = "join_writer" /\ verdict # "closed" => frame > 0 /\ returned[frame] = "none"
    /\ verdict # "ok"
    /\ poisoned \/ ~sender => pc = "join_writer" \/ worker = "exited"
    /\ result = "ok" => offset = size /\ size > 0
    /\ \A f \in Frames : f > frame => returned[f] = "none"

\* What the pipe holds: frame after frame, each begun once the one before was
\* answered with Ok, the last one cut at offset.
ChunksFollow ==
    \A i \in 1..Len(wire) - 1 :
        \/ wire[i + 1] = <<wire[i][1], wire[i][2] + 1>>
        \/ /\ returned[wire[i][1]] = "ok"
           /\ wire[i + 1][2] = 1 /\ wire[i + 1][1] > wire[i][1]

LastChunk ==
    /\ offset > 0 => /\ frame > 0 /\ Len(wire) > 0 /\ wire[Len(wire)] = <<frame, offset>>
                     /\ \E i \in 1..Len(wire) : wire[i] = <<frame, 1>>
    /\ offset = 0 /\ Len(wire) > 0 /\ worker # "exited" =>
          returned[wire[Len(wire)][1]] = "ok" /\ wire[Len(wire)][1] < frame

AnsweredFrames ==
    /\ offset > 0 /\ pc \notin {"await", "join_writer"} =>
          worker = "exited" \/ returned[frame] = "ok"
    /\ frame > 0 /\ returned[frame] = "ok" => offset = size /\ offset > 0
    /\ \A f \in Frames : returned[f] = "ok" => \E i \in 1..Len(wire) : wire[i] = <<f, 1>>

WireInv == ChunksFollow /\ LastChunk /\ AnsweredFrames /\ NothingAfterFailure

\* The bytes the queue has reserved.
BudgetInv ==
    /\ used = Charged(queue) + (IF reader = "enqueue" THEN WireBytes(item) ELSE 0)
                + WireBytes(hand)
    /\ used <= QueueBytes
    /\ pc # "recheck" => hand = Failure

\* The handle, the process and what shutdown has said of them.
CleanupInv ==
    /\ pc \in {"grace", "kill"} => owned
    /\ owned => cleanup = "none" /\ ~cleanupFailed
    /\ ~owned => cleanup = IF cleanupFailed THEN "failed" ELSE "ok"
    /\ ~owned /\ ~cleanupFailed => leader = "reaped" /\ descendant # "group"

PipesInv ==
    TypeOK /\ StreamTypes /\ LineBounded /\ WriterInv /\ WireInv /\ BudgetInv /\ CleanupInv

-----------------------------------------------------------------------------
(* What each thread leaves alone.                                          *)

\* The writer thread touches its own state, the reply and the pipe.
LEMMA WorkerFrame ==
  Worker => UNCHANGED <<call, output, child, poisoned, sender, inStopped, stdin, frame, size,
                        returned>>
<1>1. WorkerHangup \/ WorkerCheck =>
        UNCHANGED <<call, output, child, poisoned, sender, inStopped, stdin, frame, size, returned>>
  BY DEF WorkerHangup, WorkerCheck
<1>2. WorkerWrite \/ WorkerLoop =>
        UNCHANGED <<call, output, child, poisoned, sender, inStopped, stdin, frame, size, returned>>
  BY DEF WorkerWrite, WorkerLoop
<1>3. QED
  BY <1>1, <1>2 DEF Worker

\* The reader thread touches its own state and the sending half of the queue.
LEMMA ReaderFrame ==
  Reader => UNCHANGED <<call, input, child, emitted, outStopped, hand, received, ended>>
<1>1. ReaderStop \/ ReaderPush \/ ReaderFinish =>
        UNCHANGED <<call, input, child, emitted, outStopped, hand, received, ended>>
  BY DEF ReaderStop, ReaderPush, ReaderFinish
<1>2. ReaderError \/ Reserve \/ Enqueue =>
        UNCHANGED <<call, input, child, emitted, outStopped, hand, received, ended>>
  BY DEF ReaderError, Reserve, Enqueue
<1>3. QED
  BY <1>1, <1>2 DEF Reader

\* write_frame_cancellable and close of the input, without the writer thread.
InputCall == WriteFrame \/ TrySend \/ AwaitResult \/ JoinWriter \/ CloseInput

\* recv_timeout and close of the output.
OutputCall == Recv \/ RecvTake \/ RecvRecheck \/ CloseReader \/ JoinReader

\* shutdown
ChildCall == Shutdown \/ GraceLoop \/ KillGroup

ChildMoves == ChildFork \/ ChildExit \/ ForeignReap

InputPc == {"idle", "send", "await", "join_writer"}

\* The calls on the input leave the output and the child alone.
LEMMA InputCallFrame ==
  InputCall => UNCHANGED <<output, child>> /\ pc \in InputPc /\ pc' \in InputPc
<1>1. WriteFrame => UNCHANGED <<output, child>> /\ pc \in InputPc /\ pc' \in InputPc
  BY DEF WriteFrame, Poison, BeginClose, InputPc
<1>2. TrySend => UNCHANGED <<output, child>> /\ pc \in InputPc /\ pc' \in InputPc
  BY DEF TrySend, Poison, BeginClose, InputPc
<1>3. AwaitResult => UNCHANGED <<output, child>> /\ pc \in InputPc /\ pc' \in InputPc
  BY DEF AwaitResult, Poison, BeginClose, InputPc
<1>4. JoinWriter \/ CloseInput =>
        UNCHANGED <<output, child>> /\ pc \in InputPc /\ pc' \in InputPc
  BY DEF JoinWriter, CloseInput, BeginClose, InputPc
<1>5. QED
  BY <1>1, <1>2, <1>3, <1>4 DEF InputCall

\* The calls on the output leave the input, the child and the decoder alone.
LEMMA OutputCallFrame ==
  OutputCall => /\ UNCHANGED <<verdict, cancelled, expired, input, child, emitted, taken, partial,
                               reader, item, last, failed>>
                /\ pc \in {"idle", "recv", "recheck", "join_reader"}
                /\ pc' \in {"idle", "recv", "recheck", "join_reader"}
<1>1. Recv \/ RecvTake =>
        /\ UNCHANGED <<verdict, cancelled, expired, input, child, emitted, taken, partial,
                       reader, item, last, failed>>
        /\ pc \in {"idle", "recv", "recheck", "join_reader"}
        /\ pc' \in {"idle", "recv", "recheck", "join_reader"}
  BY DEF Recv, RecvTake
<1>2. RecvRecheck \/ CloseReader =>
        /\ UNCHANGED <<verdict, cancelled, expired, input, child, emitted, taken, partial,
                       reader, item, last, failed>>
        /\ pc \in {"idle", "recv", "recheck", "join_reader"}
        /\ pc' \in {"idle", "recv", "recheck", "join_reader"}
  BY DEF RecvRecheck, CloseReader
<1>3. JoinReader =>
        /\ UNCHANGED <<verdict, cancelled, expired, input, child, emitted, taken, partial,
                       reader, item, last, failed>>
        /\ pc \in {"idle", "recv", "recheck", "join_reader"}
        /\ pc' \in {"idle", "recv", "recheck", "join_reader"}
  BY DEF JoinReader, output
<1>4. QED
  BY <1>1, <1>2, <1>3 DEF OutputCall

\* shutdown leaves both pipes alone.
LEMMA ChildCallFrame ==
  ChildCall => /\ UNCHANGED <<verdict, cancelled, input, output>>
               /\ pc \in {"idle", "grace", "kill"} /\ pc' \in {"idle", "grace", "kill"}
  BY DEF ChildCall, Shutdown, GraceLoop, KillGroup

\* What the child, the token and the clock leave alone.
LEMMA EnvironmentFrame ==
  /\ ChildWrite => UNCHANGED <<call, input, child, taken, partial, reader, item, last, outStopped,
                               queue, used, failed, hand, received, ended>>
  /\ ChildMoves => UNCHANGED <<call, input, output, owned, cleanupFailed, cleanup>>
  /\ Cancel => UNCHANGED <<pc, verdict, expired, input, output, child>>
  /\ Expire => UNCHANGED <<pc, verdict, cancelled, input, output, child>>
  BY DEF ChildWrite, ChildMoves, ChildFork, ChildExit, ForeignReap, Cancel, Expire

\* The parts of a step.
LEMMA NextParts ==
  Next => \/ InputCall \/ OutputCall \/ ChildCall \/ Worker \/ Reader
          \/ ChildWrite \/ ChildMoves \/ Cancel \/ Expire
  BY DEF Next, Caller, Environment, InputCall, OutputCall, ChildCall, ChildMoves

-----------------------------------------------------------------------------
(* OwnedAdapterChild.                                                      *)

\* No step makes shutdown say something that is not so.
LEMMA CleanupStep ==
  ASSUME TypeOK, CleanupInv, Next
  PROVE  CleanupInv'
<1>0. cleanupFailed \in BOOLEAN /\ owned \in BOOLEAN
  BY DEF TypeOK
<1>1. CASE InputCall \/ OutputCall
  <2>1. UNCHANGED child /\ pc' \notin {"grace", "kill"}
    BY <1>1, InputCallFrame, OutputCallFrame DEF InputPc
  <2>2. QED
    BY <2>1 DEF CleanupInv, child
<1>2. CASE Shutdown
  BY <1>2 DEF Shutdown, CleanupInv
<1>3. CASE GraceLoop
  <2>1. owned = TRUE /\ cleanupFailed = FALSE /\ cleanup = "none"
    BY <1>0, <1>3 DEF GraceLoop, CleanupInv
  <2>2. CASE pc' = "kill" /\ UNCHANGED <<owned, cleanupFailed, cleanup>>
    BY <2>1, <2>2 DEF CleanupInv
  <2>3. CASE owned' = FALSE /\ cleanupFailed' = TRUE /\ cleanup' = "failed" /\ pc' = "idle"
    BY <2>3 DEF CleanupInv
  <2>4. QED
    BY <1>3, <2>2, <2>3 DEF GraceLoop
<1>4. CASE KillGroup
  BY <1>4 DEF KillGroup, CleanupInv, TypeOK
<1>5. CASE Worker \/ Reader \/ ChildWrite \/ Cancel \/ Expire
  <2>1. UNCHANGED <<pc, child>>
    BY <1>5, WorkerFrame, ReaderFrame, EnvironmentFrame DEF call
  <2>2. QED
    BY <2>1 DEF CleanupInv, child
<1>6. CASE ChildMoves
  <2>1. UNCHANGED <<pc, owned, cleanupFailed, cleanup>>
    BY <1>6, EnvironmentFrame DEF call
  <2>2. leader = "reaped" => UNCHANGED <<leader, descendant>>
    BY <1>6 DEF ChildMoves, ChildFork, ChildExit, ForeignReap
  <2>3. QED
    BY <2>1, <2>2 DEF CleanupInv
<1>7. QED
  BY <1>1, <1>2, <1>3, <1>4, <1>5, <1>6, NextParts DEF ChildCall

-----------------------------------------------------------------------------
(* ProcessInputWriter.                                                     *)

\* Calls that do not write.
NotWriting == {"idle", "recv", "recheck", "join_reader", "grace", "kill"}

\* A step outside ProcessInputWriter keeps what is said of it.
LEMMA InputFrame ==
  ASSUME WriterInv, WireInv, UNCHANGED <<input, verdict>>,
         pc' = pc \/ (pc \in NotWriting /\ pc' \in NotWriting)
  PROVE  WriterInv' /\ WireInv'
<1>1. WriterInv'
  BY DEF WriterInv, input, NotWriting
<1>2. WireInv'
  BY DEF WireInv, ChunksFollow, LastChunk, AnsweredFrames, NothingAfterFailure, input, NotWriting
<1>3. QED
  BY <1>1, <1>2

\* The facts about the types that the proofs below use.
InputTypes ==
    /\ frame \in Nat /\ size \in Nat /\ offset \in 0..size /\ frame <= MaxFrames
    /\ wire \in Seq(Frames \X (1..MaxFrameSize)) /\ returned \in [Frames -> Returns]
    /\ expired \in BOOLEAN /\ result \in Returns /\ verdict \in Returns \cup {"closed"}
    /\ pc \in NotWriting \cup {"send", "await", "join_writer"}
    /\ worker \in {"recv", "check", "io", "loop", "exited"}

\* They follow from the type invariant.
LEMMA InputHasTypes ==
  ASSUME TypeOK
  PROVE  InputTypes
  BY PipesAssumption DEF TypeOK, InputTypes, NotWriting

\* The caller's steps.
LEMMA WriterInvCaller ==
  ASSUME InputTypes, load \in Loads, WriterInv, InputCall
  PROVE  WriterInv'
<1>0. MaxFrames \in Nat /\ load.frames \in 0..MaxFrames
  BY PipesAssumption
<1>1. CASE WriteFrame
  <2>1. /\ frame' = frame + 1 /\ frame' \in Frames /\ offset' = 0 /\ result' = "none"
        /\ worker' = worker /\ worker \notin {"check", "io"} /\ size' \in 1..MaxFrameSize + 1
    BY <1>0, <1>1 DEF WriteFrame, WriterInv, InputTypes, Frames
  <2>2. returned[frame'] = "none"
    BY <2>1 DEF WriterInv, InputTypes
  <2>3. CASE /\ poisoned \/ ~sender
             /\ returned' = [returned EXCEPT ![frame'] = "unusable"]
             /\ UNCHANGED <<pc, verdict, poisoned, sender, inStopped>>
    BY <1>1, <2>1, <2>2, <2>3 DEF WriteFrame, WriterInv, InputTypes, Frames
  <2>4. CASE /\ returned' = [returned EXCEPT ![frame'] = "oversized"]
             /\ UNCHANGED <<pc, verdict, poisoned, sender, inStopped>>
    BY <1>1, <2>1, <2>2, <2>4 DEF WriteFrame, WriterInv, InputTypes, Frames
  <2>5. CASE Poison("interrupted") /\ UNCHANGED returned
    BY <1>1, <2>1, <2>2, <2>5 DEF Poison, BeginClose, WriterInv, InputTypes, Frames
  <2>6. CASE Poison("timed_out") /\ UNCHANGED returned
    BY <1>1, <2>1, <2>2, <2>6 DEF Poison, BeginClose, WriterInv, InputTypes, Frames
  <2>7. CASE /\ Fits(size') /\ pc' = "send"
             /\ UNCHANGED <<verdict, poisoned, sender, inStopped, returned>>
    <3>1. size' \in 1..MaxFrameSize /\ pc = "idle"
      BY <1>1, <2>1, <2>7, PipesAssumption DEF Fits, WriteFrame
    <3>2. QED
      BY <2>1, <2>2, <2>7, <3>1 DEF WriterInv, InputTypes, Frames
  <2>8. QED
    BY <1>1, <2>3, <2>4, <2>5, <2>6, <2>7 DEF WriteFrame
<1>2. CASE TrySend
  BY <1>2 DEF TrySend, Poison, BeginClose, WriterInv, InputTypes, Frames
<1>3. CASE AwaitResult
  <2>1. frame \in Frames /\ returned[frame] = "none"
    BY <1>0, <1>3 DEF AwaitResult, WriterInv, InputTypes, Frames
  <2>2. CASE \E why \in {"interrupted", "timed_out", result} :
                Poison(why) /\ why # "ok" /\ UNCHANGED returned
    BY <1>3, <2>1, <2>2 DEF AwaitResult, Poison, BeginClose, WriterInv, InputTypes
  <2>3. CASE /\ result = "ok" /\ pc' = "idle" /\ returned' = [returned EXCEPT ![frame] = "ok"]
             /\ UNCHANGED <<verdict, poisoned, sender, inStopped>>
    BY <1>3, <2>1, <2>3 DEF AwaitResult, WriterInv, InputTypes, Frames
  <2>4. QED
    BY <1>3, <2>2, <2>3 DEF AwaitResult
<1>4. CASE JoinWriter
  <2>1. verdict # "closed" => frame \in Frames
    BY <1>0, <1>4 DEF JoinWriter, WriterInv, InputTypes, Frames
  <2>2. QED
    BY <1>4, <2>1 DEF JoinWriter, WriterInv, InputTypes, Frames
<1>5. CASE CloseInput
  BY <1>5 DEF CloseInput, BeginClose, WriterInv, InputTypes
<1>6. QED
  BY <1>1, <1>2, <1>3, <1>4, <1>5 DEF InputCall

\* The writer thread's steps.
LEMMA WriterInvWorker ==
  ASSUME InputTypes, WriterInv, Worker
  PROVE  WriterInv'
<1>0. UNCHANGED <<pc, verdict, poisoned, sender, frame, size, returned>>
  BY WorkerFrame DEF call
<1>1. CASE WorkerHangup \/ WorkerLoop
  <2>1. worker' \in {"recv", "exited"} /\ worker # "exited" /\ UNCHANGED <<offset, result>>
    BY <1>1 DEF WorkerHangup, WorkerLoop
  <2>2. QED
    BY <1>0, <2>1 DEF WriterInv
<1>2. CASE WorkerCheck
  <2>1. /\ worker = "check" /\ worker' \in {"exited", "loop", "io"} /\ offset' = offset
        /\ worker' = "io" => result' = result
        /\ result' = "ok" => result = "ok" \/ offset = size
    BY <1>2 DEF WorkerCheck
  <2>2. QED
    BY <1>0, <2>1 DEF WriterInv, InputTypes
<1>3. CASE WorkerWrite
  <2>1. /\ worker = "io" /\ worker' \in {"check", "exited"}
        /\ worker' = "check" => result' = result
        /\ worker' = "exited" => result' = "io" /\ offset' = offset
    BY <1>3 DEF WorkerWrite
  <2>2. QED
    BY <1>0, <2>1 DEF WriterInv
<1>4. QED
  BY <1>1, <1>2, <1>3 DEF Worker

\* A call changes the answer of the latest frame only, and never takes an Ok back.
LEMMA WireInvCaller ==
  ASSUME InputTypes, load \in Loads, WriterInv, WireInv, InputCall
  PROVE  WireInv'
<1>0. MaxFrames \in Nat /\ load.frames \in 0..MaxFrames
  BY PipesAssumption
<1>1. wire' = wire
  BY DEF InputCall, WriteFrame, TrySend, AwaitResult, JoinWriter, CloseInput
<1>2. \A i \in 1..Len(wire) : wire[i][1] \in Frames
  <2>1. \A i \in 1..Len(wire) : wire[i] \in Frames \X (1..MaxFrameSize)
    BY ElementOfSeq DEF InputTypes
  <2>2. QED
    BY <2>1
<1>3. Len(wire) \in Nat
  BY LenProperties DEF InputTypes
<1>4. CASE WriteFrame
  <2>1. /\ frame' = frame + 1 /\ frame' \in Frames /\ offset' = 0 /\ pc = "idle"
        /\ worker' = worker /\ returned[frame'] = "none"
    BY <1>0, <1>4 DEF WriteFrame, WriterInv, InputTypes, Frames
  <2>2. \/ returned' = returned
        \/ \E s \in {"unusable", "oversized"} : returned' = [returned EXCEPT ![frame'] = s]
    BY <1>4 DEF WriteFrame
  <2>3. /\ \A f \in Frames : returned'[f] = "ok" <=> returned[f] = "ok"
        /\ returned'[frame'] # "ok"
    BY <2>1, <2>2 DEF InputTypes
  <2>4. Len(wire) > 0 /\ worker # "exited" =>
           returned[wire[Len(wire)][1]] = "ok" /\ wire[Len(wire)][1] <= frame
    BY <1>2, <1>3, <2>1, SMTT(30) DEF WireInv, LastChunk, AnsweredFrames, InputTypes, Frames
  <2>5. NothingAfterFailure'
    <3>1. SUFFICES ASSUME worker # "exited"
                   PROVE  \A f \in Frames :
                            returned'[f] \notin {"interrupted", "timed_out", "unusable", "io"}
      BY <2>1 DEF NothingAfterFailure
    <3>2. ~poisoned /\ sender
      BY <2>1, <3>1 DEF WriterInv
    <3>3. returned' = returned \/ returned' = [returned EXCEPT ![frame'] = "oversized"]
      BY <1>4, <3>2 DEF WriteFrame
    <3>4. \A f \in Frames : returned[f] \notin {"interrupted", "timed_out", "unusable", "io"}
      BY <3>1 DEF WireInv, NothingAfterFailure
    <3>5. QED
      BY <3>3, <3>4 DEF InputTypes
  <2>6. ChunksFollow'
    BY <1>1, <1>2, <1>3, <2>3 DEF WireInv, ChunksFollow
  <2>7. LastChunk'
    <3>1. Len(wire) > 0 => wire[Len(wire)][1] \in Frames
      BY <1>2, <1>3
    <3>2. Len(wire) > 0 /\ worker # "exited" =>
             returned'[wire[Len(wire)][1]] = "ok" /\ wire[Len(wire)][1] < frame'
      BY <2>1, <2>3, <2>4, <3>1 DEF InputTypes, Frames
    <3>3. QED
      BY <1>1, <2>1, <3>2 DEF LastChunk
  <2>8. AnsweredFrames'
    <3>1. \A f \in Frames : returned[f] = "ok" => \E i \in 1..Len(wire) : wire[i] = <<f, 1>>
      BY DEF WireInv, AnsweredFrames
    <3>2. \A f \in Frames : returned'[f] = "ok" => \E i \in 1..Len(wire') : wire'[i] = <<f, 1>>
      BY <1>1, <2>3, <3>1
    <3>3. ~(offset' > 0) /\ ~(returned'[frame'] = "ok")
      BY <2>1, <2>3
    <3>4. QED
      BY <3>2, <3>3 DEF AnsweredFrames
  <2>9. QED
    BY <2>5, <2>6, <2>7, <2>8 DEF WireInv
<1>5. CASE TrySend \/ CloseInput
  <2>1. /\ UNCHANGED <<frame, size, offset, returned>>
        /\ worker' = worker \/ (worker = "recv" /\ worker' = "check")
        /\ pc' \in {"await", "join_writer"}
    BY <1>5 DEF TrySend, CloseInput, Poison, BeginClose
  <2>2. QED
    BY <1>1, <2>1 DEF WireInv, ChunksFollow, LastChunk, AnsweredFrames, NothingAfterFailure
<1>6. CASE AwaitResult
  <2>1. UNCHANGED <<frame, size, offset, worker>> /\ frame \in Frames /\ returned[frame] = "none"
    BY <1>0, <1>6 DEF AwaitResult, WriterInv, InputTypes, Frames
  <2>2. CASE UNCHANGED returned /\ pc' = "join_writer"
    BY <1>1, <2>1, <2>2
    DEF WireInv, ChunksFollow, LastChunk, AnsweredFrames, NothingAfterFailure
  <2>3. CASE result = "ok" /\ pc' = "idle" /\ returned' = [returned EXCEPT ![frame] = "ok"]
    <3>1. offset = size /\ offset > 0
      BY <2>3 DEF WriterInv, InputTypes
    <3>2. /\ returned'[frame] = "ok" /\ \A f \in Frames : f # frame => returned'[f] = returned[f]
      BY <2>1, <2>3 DEF InputTypes
    <3>3. NothingAfterFailure'
      BY <2>1, <3>2 DEF WireInv, NothingAfterFailure
    <3>4. ChunksFollow'
      <4>1. \A f \in Frames : returned[f] = "ok" => returned'[f] = "ok"
        BY <3>2
      <4>2. QED
        BY <1>1, <1>2, <1>3, <4>1 DEF WireInv, ChunksFollow
    <3>5. LastChunk'
      BY <1>1, <2>1, <3>1 DEF WireInv, LastChunk
    <3>6. AnsweredFrames'
      <4>1. \A f \in Frames : returned'[f] = "ok" => \E i \in 1..Len(wire) : wire[i] = <<f, 1>>
        BY <3>1, <3>2 DEF WireInv, LastChunk, AnsweredFrames
      <4>2. QED
        BY <1>1, <2>1, <3>1, <3>2, <4>1 DEF AnsweredFrames
    <3>7. QED
      BY <3>3, <3>4, <3>5, <3>6 DEF WireInv
  <2>4. QED
    BY <1>6, <2>2, <2>3 DEF AwaitResult, Poison, BeginClose
<1>7. CASE JoinWriter
  <2>1. UNCHANGED <<frame, size, offset, worker>> /\ worker = "exited" /\ pc' = "idle"
    BY <1>7 DEF JoinWriter
  <2>2. \A f \in Frames : returned'[f] = "ok" <=> returned[f] = "ok"
    <3>1. verdict # "closed" => frame \in Frames /\ returned[frame] = "none" /\ verdict # "ok"
      BY <1>0, <1>7 DEF JoinWriter, WriterInv, InputTypes, Frames
    <3>2. QED
      BY <1>7, <3>1 DEF JoinWriter, InputTypes
  <2>3. ChunksFollow'
    BY <1>1, <1>2, <1>3, <2>2 DEF WireInv, ChunksFollow
  <2>4. LastChunk'
    BY <1>1, <2>1 DEF WireInv, LastChunk
  <2>5. AnsweredFrames'
    <3>1. frame > 0 => frame \in Frames
      BY <1>0 DEF InputTypes, Frames
    <3>2. QED
      BY <1>1, <2>1, <2>2, <3>1 DEF WireInv, AnsweredFrames
  <2>6. QED
    BY <2>1, <2>3, <2>4, <2>5 DEF WireInv, NothingAfterFailure
<1>8. QED
  BY <1>4, <1>5, <1>6, <1>7 DEF InputCall

\* What a write of k chunks appends.
LEMMA WireGrows ==
  ASSUME InputTypes, NEW k \in 1..(size - offset), frame \in Frames, size <= MaxFrameSize
  PROVE  LET W == wire \o [i \in 1..k |-> <<frame, offset + i>>]
         IN  /\ W \in Seq(Frames \X (1..MaxFrameSize))
             /\ Len(W) = Len(wire) + k
             /\ \A i \in 1..Len(wire) : W[i] = wire[i]
             /\ \A i \in 1..k : W[Len(wire) + i] = <<frame, offset + i>>
<1> DEFINE S == [i \in 1..k |-> <<frame, offset + i>>]
           W == wire \o S
<1>1. k \in Nat /\ offset \in Nat /\ size \in Nat
  BY DEF InputTypes
<1>2. \A i \in 1..k : <<frame, offset + i>> \in Frames \X (1..MaxFrameSize)
  BY <1>1, PipesAssumption
<1>3. S \in Seq(Frames \X (1..MaxFrameSize)) /\ Len(S) = k
  <2>1. S \in [1..k -> Frames \X (1..MaxFrameSize)]
    BY <1>2
  <2>2. QED
    BY <1>1, <2>1 DEF Seq
<1>4. \A i \in 1..k : S[i] = <<frame, offset + i>>
  OBVIOUS
<1> HIDE DEF S
<1>5. /\ W \in Seq(Frames \X (1..MaxFrameSize)) /\ Len(W) = Len(wire) + Len(S)
      /\ \A i \in 1..(Len(wire) + Len(S)) : W[i] = IF i <= Len(wire) THEN wire[i]
                                                    ELSE S[i - Len(wire)]
  BY <1>3, ConcatProperties DEF InputTypes
<1>6. Len(wire) \in Nat
  BY LenProperties DEF InputTypes
<1>7. /\ \A i \in 1..Len(wire) : W[i] = wire[i]
      /\ \A i \in 1..k : W[Len(wire) + i] = <<frame, offset + i>>
  <2> HIDE DEF W
  <2>1. \A i \in 1..Len(wire) : W[i] = wire[i]
    BY <1>1, <1>3, <1>5, <1>6
  <2>2. ASSUME NEW i \in 1..k PROVE W[Len(wire) + i] = <<frame, offset + i>>
    <3>1. Len(wire) + i \in 1..(Len(wire) + Len(S)) /\ ~(Len(wire) + i <= Len(wire))
          /\ (Len(wire) + i) - Len(wire) = i
      BY <1>1, <1>3, <1>6
    <3>2. QED
      BY <1>4, <1>5, <3>1
  <2>3. QED
    BY <2>1, <2>2
<1>8. QED
  BY <1>3, <1>5, <1>7 DEF S

\* The writer thread appends the next chunks of the frame it was handed.
LEMMA WireInvWorker ==
  ASSUME InputTypes, WriterInv, WireInv, Worker
  PROVE  WireInv'
<1>0. UNCHANGED <<pc, verdict, frame, size, returned>>
  BY WorkerFrame DEF call
<1>1. worker # "exited"
  BY DEF Worker, WorkerHangup, WorkerCheck, WorkerWrite, WorkerLoop
<1>2. NothingAfterFailure'
  BY <1>0, <1>1 DEF WireInv, NothingAfterFailure
<1>3. CASE UNCHANGED <<wire, offset>>
  <2>1. ChunksFollow'
    BY <1>0, <1>3 DEF WireInv, ChunksFollow
  <2>2. LastChunk'
    BY <1>0, <1>1, <1>3 DEF WireInv, LastChunk
  <2>3. AnsweredFrames'
    BY <1>0, <1>1, <1>3 DEF WireInv, AnsweredFrames
  <2>4. QED
    BY <1>2, <2>1, <2>2, <2>3 DEF WireInv
<1>4. ASSUME worker = "io", NEW k \in 1..(size - offset),
             wire' = wire \o [i \in 1..k |-> <<frame, offset + i>>], offset' = offset + k
      PROVE  WireInv'
  <2>1. /\ pc \in {"await", "join_writer"} /\ frame \in Frames /\ size \in 1..MaxFrameSize
        /\ returned[frame] = "none"
    BY <1>4, PipesAssumption DEF WriterInv, InputTypes, Frames
  <2>2. /\ Len(wire') = Len(wire) + k
        /\ \A i \in 1..Len(wire) : wire'[i] = wire[i]
        /\ \A i \in 1..k : wire'[Len(wire) + i] = <<frame, offset + i>>
    BY <1>4, <2>1, WireGrows
  <2>3. Len(wire) \in Nat /\ k \in Nat /\ k > 0 /\ offset \in Nat /\ frame \in Nat
    BY LenProperties DEF InputTypes
  <2>4. wire'[Len(wire')] = <<frame, offset + k>>
    BY <2>2, <2>3
  <2>5. /\ offset > 0 => Len(wire) > 0 /\ wire[Len(wire)] = <<frame, offset>>
        /\ offset = 0 /\ Len(wire) > 0 =>
              returned[wire[Len(wire)][1]] = "ok" /\ wire[Len(wire)][1] < frame
    BY <1>1 DEF WireInv, LastChunk
  <2>6. ChunksFollow'
    <3>1. SUFFICES ASSUME NEW i \in 1..(Len(wire) + k) - 1
                   PROVE  \/ wire'[i + 1] = <<wire'[i][1], wire'[i][2] + 1>>
                          \/ /\ returned[wire'[i][1]] = "ok"
                             /\ wire'[i + 1][2] = 1 /\ wire'[i + 1][1] > wire'[i][1]
      BY <1>0, <2>2 DEF ChunksFollow
    <3>2. CASE i \in 1..Len(wire) - 1
      <4>1. wire'[i] = wire[i] /\ wire'[i + 1] = wire[i + 1]
        BY <2>2, <2>3, <3>2
      <4>2. QED
        BY <3>2, <4>1 DEF WireInv, ChunksFollow
    <3>3. CASE i = Len(wire)
      <4>1. wire'[i] = wire[Len(wire)] /\ wire'[i + 1] = <<frame, offset + 1>> /\ Len(wire) > 0
        BY <2>2, <2>3, <3>3
      <4>2. CASE offset > 0
        BY <2>5, <4>1, <4>2
      <4>3. CASE offset = 0
        <5>1. wire'[i + 1][2] = 1 /\ wire'[i + 1][1] = frame
          BY <4>1, <4>3
        <5>2. QED
          BY <2>3, <2>5, <4>1, <4>3, <5>1
      <4>4. QED
        BY <2>3, <4>2, <4>3
    <3>4. CASE i \in (Len(wire) + 1)..(Len(wire) + k) - 1
      <4>1. PICK j \in 1..k : i = Len(wire) + j /\ j + 1 \in 1..k
        <5>1. i - Len(wire) \in 1..k /\ i = Len(wire) + (i - Len(wire))
              /\ (i - Len(wire)) + 1 \in 1..k
          BY <2>3, <3>4
        <5>2. QED
          BY <5>1
      <4>2. i + 1 = Len(wire) + (j + 1)
        BY <2>3, <4>1
      <4>3. wire'[i] = <<frame, offset + j>> /\ wire'[i + 1] = <<frame, offset + (j + 1)>>
        BY <2>2, <4>1, <4>2
      <4>4. QED
        BY <2>3, <4>3
    <3>5. QED
      BY <2>3, <3>2, <3>3, <3>4
  <2>7. LastChunk'
    <3>1. \E i \in 1..Len(wire') : wire'[i] = <<frame, 1>>
      <4>1. CASE offset > 0
        <5>1. PICK i \in 1..Len(wire) : wire[i] = <<frame, 1>>
          BY <4>1 DEF WireInv, LastChunk
        <5>2. i \in 1..Len(wire') /\ wire'[i] = <<frame, 1>>
          BY <2>2, <2>3, <5>1
        <5>3. QED
          BY <5>2
      <4>2. CASE offset = 0
        <5>1. Len(wire) + 1 \in 1..Len(wire') /\ wire'[Len(wire) + 1] = <<frame, 1>>
          BY <2>2, <2>3, <4>2
        <5>2. QED
          BY <5>1
      <4>3. QED
        BY <2>3, <4>1, <4>2
    <3>2. offset' > 0 /\ Len(wire') > 0 /\ frame > 0 /\ wire'[Len(wire')] = <<frame, offset'>>
      BY <1>4, <2>1, <2>2, <2>3, <2>4 DEF Frames
    <3>3. QED
      BY <1>0, <2>3, <3>1, <3>2 DEF LastChunk
  <2>8. AnsweredFrames'
    <3>1. ASSUME NEW f \in Frames, returned[f] = "ok"
          PROVE  \E i \in 1..Len(wire') : wire'[i] = <<f, 1>>
      <4>1. PICK i \in 1..Len(wire) : wire[i] = <<f, 1>>
        BY <3>1 DEF WireInv, AnsweredFrames
      <4>2. i \in 1..Len(wire') /\ wire'[i] = <<f, 1>>
        BY <2>2, <2>3, <4>1
      <4>3. QED
        BY <4>2
    <3>2. QED
      BY <1>0, <2>1, <3>1 DEF AnsweredFrames
  <2>9. QED
    BY <1>2, <2>6, <2>7, <2>8 DEF WireInv
<1>5. QED
  BY <1>3, <1>4 DEF Worker, WorkerHangup, WorkerCheck, WorkerWrite, WorkerLoop

-----------------------------------------------------------------------------
(* The byte budget: what Charged adds up, by induction on the length.      *)

\* Induction over the naturals, from the well-foundedness of <.
LEMMA SetInduction ==
  ASSUME NEW S, 0 \in S, \A n \in Nat : n \in S => n + 1 \in S
  PROVE  \A n \in Nat : n \in S
<1> SUFFICES ASSUME NEW m \in Nat, m \notin S PROVE FALSE
  OBVIOUS
<1> DEFINE T == {n \in Nat : n \notin S}
<1>1. T \subseteq Nat /\ T # {}
  OBVIOUS
<1>2. PICK x \in T : \A y \in T : ~(<<y, x>> \in OpToRel(<, Nat))
  BY <1>1, NatLessThanWellFounded, WFMin
<1>3. \A y \in T : ~(y < x)
  BY <1>2 DEF OpToRel
<1>4. x # 0 /\ x - 1 \in Nat /\ x - 1 < x
  OBVIOUS
<1>5. x - 1 \in S
  BY <1>3, <1>4
<1>6. QED
  BY <1>4, <1>5

\* f adds up the first n values of q.
IsSums(q, n, f) == f = [i \in 0..n |-> IF i = 0 THEN 0 ELSE f[i - 1] + WireBytes(q[i])]

\* The recursive definition has a solution.
LEMMA SumsExist ==
  ASSUME NEW q
  PROVE  \A n \in Nat : \E f : IsSums(q, n, f)
<1> DEFINE S == {n \in Nat : \E f : IsSums(q, n, f)}
<1>1. 0 \in S
  <2>1. IsSums(q, 0, [i \in 0..0 |-> 0])
    BY DEF IsSums
  <2>2. QED
    BY <2>1
<1>2. ASSUME NEW n \in Nat, n \in S PROVE n + 1 \in S
  <2>1. PICK f : IsSums(q, n, f)
    BY <1>2
  <2> DEFINE g == [i \in 0..(n + 1) |-> IF i <= n THEN f[i] ELSE f[n] + WireBytes(q[n + 1])]
  <2>2. \A i \in 0..n : f[i] = IF i = 0 THEN 0 ELSE f[i - 1] + WireBytes(q[i])
    BY <2>1 DEF IsSums
  <2>3. ASSUME NEW i \in 0..(n + 1)
        PROVE  g[i] = IF i = 0 THEN 0 ELSE g[i - 1] + WireBytes(q[i])
    <3>1. CASE i = 0
      BY <2>2, <3>1
    <3>2. CASE i \in 1..n
      BY <2>2, <3>2
    <3>3. CASE i = n + 1
      BY <3>3
    <3>4. QED
      BY <3>1, <3>2, <3>3
  <2>4. IsSums(q, n + 1, g)
    BY <2>3 DEF IsSums
  <2> HIDE DEF g
  <2>5. QED
    BY <2>4
<1> HIDE DEF S
<1>3. \A n \in Nat : n \in S
  BY <1>1, <1>2, SetInduction
<1>4. QED
  BY <1>3 DEF S

\* ... and ChargeSums is one.
LEMMA SumsFacts ==
  ASSUME NEW q \in Seq(Value)
  PROVE  /\ ChargeSums(q)[0] = 0
         /\ \A i \in 1..Len(q) : ChargeSums(q)[i] = ChargeSums(q)[i - 1] + WireBytes(q[i])
<1>1. \E f : IsSums(q, Len(q), f)
  BY SumsExist, LenProperties
<1>2. ChargeSums(q) = CHOOSE f : IsSums(q, Len(q), f)
  BY DEF ChargeSums, IsSums
<1>3. IsSums(q, Len(q), ChargeSums(q))
  BY <1>1, <1>2
<1>4. QED
  BY <1>3, LenProperties DEF IsSums

\* A value is charged a natural number of bytes.
LEMMA WireBytesNat ==
  ASSUME NEW v \in Value
  PROVE  WireBytes(v) \in Nat
<1>1. v.line \in Seq(Bytes)
  BY DEF Value
<1>2. Len(v.line) \in Nat
  BY <1>1, LenProperties
<1>3. QED
  BY <1>2 DEF WireBytes

\* So is every sum.
LEMMA SumsAreNat ==
  ASSUME NEW q \in Seq(Value)
  PROVE  \A i \in 0..Len(q) : ChargeSums(q)[i] \in Nat
<1> DEFINE S == {n \in Nat : n <= Len(q) => ChargeSums(q)[n] \in Nat}
<1>0. Len(q) \in Nat
  BY LenProperties
<1>1. 0 \in S
  BY SumsFacts
<1>2. ASSUME NEW n \in Nat, n \in S PROVE n + 1 \in S
  <2>1. SUFFICES ASSUME n + 1 <= Len(q) PROVE ChargeSums(q)[n + 1] \in Nat
    OBVIOUS
  <2>2. n + 1 \in 1..Len(q) /\ ChargeSums(q)[n] \in Nat /\ (n + 1) - 1 = n
    BY <1>0, <1>2, <2>1
  <2>3. WireBytes(q[n + 1]) \in Nat
    BY <2>2, ElementOfSeq, WireBytesNat
  <2>4. ChargeSums(q)[n + 1] = ChargeSums(q)[(n + 1) - 1] + WireBytes(q[n + 1])
    BY <2>2, SumsFacts
  <2>5. QED
    BY <2>2, <2>3, <2>4
<1> HIDE DEF S
<1>3. \A n \in Nat : n \in S
  BY <1>1, <1>2, SetInduction
<1>4. QED
  BY <1>0, <1>3 DEF S

\* Two sequences that agree up to a shift have sums that differ by a constant.
LEMMA SumsShift ==
  ASSUME NEW p \in Seq(Value), NEW q \in Seq(Value), NEW d \in Nat, NEW m \in Nat,
         m <= Len(p), m + d <= Len(q),
         \A i \in 1..m : p[i] = q[i + d]
  PROVE  \A i \in 0..m : ChargeSums(q)[i + d] = ChargeSums(p)[i] + ChargeSums(q)[d]
<1> DEFINE S == {n \in Nat : n <= m =>
                   ChargeSums(q)[n + d] = ChargeSums(p)[n] + ChargeSums(q)[d]}
<1>0. Len(p) \in Nat /\ Len(q) \in Nat
  BY LenProperties
<1>1. 0 \in S
  <2>1. d \in 0..Len(q) /\ 0 + d = d
    BY <1>0
  <2>2. ChargeSums(q)[d] \in Nat /\ ChargeSums(p)[0] = 0
    BY <2>1, SumsAreNat, SumsFacts
  <2>3. QED
    BY <2>1, <2>2
<1>2. ASSUME NEW n \in Nat, n \in S PROVE n + 1 \in S
  <2>1. SUFFICES ASSUME n + 1 <= m
                 PROVE  ChargeSums(q)[(n + 1) + d] = ChargeSums(p)[n + 1] + ChargeSums(q)[d]
    OBVIOUS
  <2>2. /\ n + 1 \in 1..m /\ n + 1 \in 1..Len(p) /\ (n + 1) + d \in 1..Len(q)
        /\ (n + 1) - 1 = n /\ ((n + 1) + d) - 1 = n + d
        /\ n \in 0..Len(p) /\ d \in 0..Len(q)
    BY <1>0, <2>1
  <2>3. ChargeSums(q)[n + d] = ChargeSums(p)[n] + ChargeSums(q)[d]
    BY <1>2, <2>1
  <2>4. /\ ChargeSums(p)[n + 1] = ChargeSums(p)[(n + 1) - 1] + WireBytes(p[n + 1])
        /\ ChargeSums(q)[(n + 1) + d] =
             ChargeSums(q)[((n + 1) + d) - 1] + WireBytes(q[(n + 1) + d])
    BY <2>2, SumsFacts
  <2>5. p[n + 1] = q[(n + 1) + d]
    BY <2>2
  <2>6. ChargeSums(p)[n] \in Nat /\ ChargeSums(q)[d] \in Nat
    BY <2>2, SumsAreNat
  <2>7. WireBytes(p[n + 1]) \in Nat
    BY <2>2, ElementOfSeq, WireBytesNat
  <2> HIDE DEF S
  <2>8. QED
    BY <2>2, <2>3, <2>4, <2>5, <2>6, <2>7
<1> HIDE DEF S
<1>3. \A n \in Nat : n \in S
  BY <1>1, <1>2, SetInduction
<1>4. QED
  BY <1>3 DEF S

\* What the queue operations do to the charge.
LEMMA ChargeOfQueue ==
  ASSUME NEW q \in Seq(Value)
  PROVE  /\ Charged(q) \in Nat /\ (q = <<>> => Charged(q) = 0)
         /\ \A v \in Value : Charged(Append(q, v)) = Charged(q) + WireBytes(v)
         /\ q # <<>> => Charged(q) = WireBytes(Head(q)) + Charged(Tail(q))
<1>0. Len(q) \in Nat
  BY LenProperties
<1>1. Charged(q) \in Nat
  BY <1>0, SumsAreNat DEF Charged
<1>2. q = <<>> => Charged(q) = 0
  BY SumsFacts DEF Charged
<1>3. ASSUME NEW v \in Value PROVE Charged(Append(q, v)) = Charged(q) + WireBytes(v)
  <2> DEFINE a == Append(q, v)
  <2>1. /\ a \in Seq(Value) /\ Len(a) = Len(q) + 1 /\ a[Len(q) + 1] = v
        /\ \A i \in 1..Len(q) : q[i] = a[i + 0]
    BY <1>0, AppendProperties
  <2> HIDE DEF a
  <2>2. ChargeSums(a)[Len(q) + 0] = ChargeSums(q)[Len(q)] + ChargeSums(a)[0]
    <3>1. 0 \in Nat /\ Len(q) <= Len(q) /\ Len(q) + 0 <= Len(a) /\ Len(q) \in 0..Len(q)
      BY <1>0, <2>1
    <3>2. \A i \in 0..Len(q) : ChargeSums(a)[i + 0] = ChargeSums(q)[i] + ChargeSums(a)[0]
      BY <1>0, <2>1, <3>1, SumsShift
    <3>3. QED
      BY <3>1, <3>2
  <2>3. ChargeSums(a)[0] = 0 /\ ChargeSums(a)[Len(q) + 1] =
           ChargeSums(a)[(Len(q) + 1) - 1] + WireBytes(a[Len(q) + 1])
    BY <1>0, <2>1, SumsFacts
  <2>4. Len(q) + 0 = Len(q) /\ (Len(q) + 1) - 1 = Len(q)
    BY <1>0
  <2>5. QED
    BY <1>1, <2>1, <2>2, <2>3, <2>4 DEF Charged, a
<1>4. ASSUME q # <<>> PROVE Charged(q) = WireBytes(Head(q)) + Charged(Tail(q))
  <2> DEFINE t == Tail(q)
  <2>1. /\ t \in Seq(Value) /\ Len(t) = Len(q) - 1 /\ Head(q) = q[1] /\ Len(q) > 0
        /\ \A i \in 1..Len(t) : t[i] = q[i + 1]
    BY <1>0, <1>4, HeadTailProperties, EmptySeq
  <2> HIDE DEF t
  <2>2. Len(t) \in Nat /\ Len(t) + 1 = Len(q) /\ 1 \in 1..Len(q) /\ 1 - 1 = 0
    BY <1>0, <2>1
  <2>3. ChargeSums(q)[Len(t) + 1] = ChargeSums(t)[Len(t)] + ChargeSums(q)[1]
    <3>1. 1 \in Nat /\ Len(t) <= Len(t) /\ Len(t) + 1 <= Len(q) /\ Len(t) \in 0..Len(t)
      BY <1>0, <2>2
    <3>2. \A i \in 0..Len(t) : ChargeSums(q)[i + 1] = ChargeSums(t)[i] + ChargeSums(q)[1]
      BY <2>1, <2>2, <3>1, SumsShift
    <3>3. QED
      BY <3>1, <3>2
  <2>4. ChargeSums(q)[0] = 0 /\ ChargeSums(q)[1] = ChargeSums(q)[1 - 1] + WireBytes(q[1])
    BY <2>2, SumsFacts
  <2>5. WireBytes(q[1]) \in Nat /\ ChargeSums(t)[Len(t)] \in Nat
    BY <2>1, <2>2, ElementOfSeq, WireBytesNat, SumsAreNat
  <2>6. ChargeSums(q)[1] = WireBytes(q[1])
    BY <2>2, <2>4, <2>5
  <2>7. QED
    BY <2>1, <2>2, <2>3, <2>5, <2>6 DEF Charged, t
<1>5. QED
  BY <1>1, <1>2, <1>3, <1>4

-----------------------------------------------------------------------------
(* Types.                                                                  *)

CallTypes ==
    /\ pc \in {"idle", "send", "await", "join_writer", "recv", "recheck",
               "join_reader", "grace", "kill"}
    /\ verdict \in Returns \cup {"closed"}
    /\ cancelled \in BOOLEAN /\ expired \in BOOLEAN

WriterTypes ==
    /\ poisoned \in BOOLEAN /\ sender \in BOOLEAN /\ inStopped \in BOOLEAN /\ stdin \in BOOLEAN
    /\ worker \in {"recv", "check", "io", "loop", "exited"}
    /\ frame \in 0..MaxFrames /\ size \in 0..MaxFrameSize + 1
    /\ offset \in 0..size /\ result \in Returns
    /\ wire \in Seq(Frames \X (1..MaxFrameSize))
    /\ returned \in [Frames -> Returns]

ReaderTypes ==
    /\ last \in BOOLEAN /\ outStopped \in BOOLEAN /\ failed \in BOOLEAN /\ ended \in BOOLEAN
    /\ emitted \in Seq(Bytes) /\ taken \in 0..Len(emitted)
    /\ partial \in Seq(Bytes \ {"nl"}) /\ Len(partial) <= MaxLineBytes + 1
    /\ reader \in {"read", "reserve", "enqueue", "exited"}
    /\ Len(queue) <= QueueItems

ChildTypes ==
    /\ owned \in BOOLEAN /\ cleanupFailed \in BOOLEAN
    /\ cleanup \in {"none", "ok", "failed"}
    /\ leader \in {"running", "exited", "reaped", "stolen"}
    /\ descendant \in {"none", "group", "escaped"}

\* The types, component by component.
LEMMA TypeParts == TypeOK <=> CallTypes /\ WriterTypes /\ ReaderTypes /\ ChildTypes
  BY DEF TypeOK, CallTypes, WriterTypes, ReaderTypes, ChildTypes

\* The same after a step.
LEMMA TypePartsNext == TypeOK' <=> CallTypes' /\ WriterTypes' /\ ReaderTypes' /\ ChildTypes'
  BY DEF TypeOK, CallTypes, WriterTypes, ReaderTypes, ChildTypes

\* The values of a step of the caller.
LEMMA CallTypesStep ==
  ASSUME TypeOK, Next
  PROVE  CallTypes'
<1>0. CallTypes /\ result \in Returns
  BY TypeParts DEF WriterTypes
<1>1. CASE InputCall
  <2>1. pc' \in InputPc
    BY <1>1, InputCallFrame
  <2>2. cancelled' = cancelled /\ expired' \in BOOLEAN
    BY <1>0, <1>1 DEF InputCall, WriteFrame, TrySend, AwaitResult, JoinWriter, CloseInput, CallTypes
  <2>3. verdict' \in Returns \cup {"closed"}
    BY <1>0, <1>1 DEF InputCall, WriteFrame, TrySend, AwaitResult, JoinWriter, CloseInput,
                      Poison, BeginClose, CallTypes, Returns
  <2>4. QED
    BY <1>0, <2>1, <2>2, <2>3 DEF CallTypes, InputPc
<1>2. CASE OutputCall
  BY <1>0, <1>2, OutputCallFrame DEF CallTypes
<1>3. CASE ChildCall
  <2>1. expired' \in BOOLEAN
    BY <1>0, <1>3 DEF ChildCall, Shutdown, GraceLoop, KillGroup, CallTypes
  <2>2. QED
    BY <1>0, <1>3, <2>1, ChildCallFrame DEF CallTypes
<1>4. CASE Worker \/ Reader \/ ChildWrite \/ ChildMoves
  BY <1>0, <1>4, WorkerFrame, ReaderFrame, EnvironmentFrame DEF CallTypes, call
<1>5. CASE Cancel \/ Expire
  BY <1>0, <1>5 DEF Cancel, Expire, CallTypes
<1>6. QED
  BY <1>1, <1>2, <1>3, <1>4, <1>5, NextParts

\* The values of a step on the input.
LEMMA WriterTypesStep ==
  ASSUME TypeOK, load \in Loads, WriterInv, Next
  PROVE  WriterTypes'
<1>0. /\ WriterTypes /\ CallTypes /\ InputTypes
      /\ MaxFrames \in Nat /\ MaxFrameSize \in Nat /\ load.frames \in 0..MaxFrames
  BY TypeParts, InputHasTypes, PipesAssumption
<1>1. CASE WriteFrame
  <2>1. /\ frame' = frame + 1 /\ frame' \in Frames /\ size' \in 1..MaxFrameSize + 1
        /\ offset' = 0 /\ result' = "none" /\ UNCHANGED <<stdin, worker, wire>>
    BY <1>0, <1>1 DEF WriteFrame, WriterTypes, Frames
  <2>2. returned' \in [Frames -> Returns]
    BY <1>0, <1>1, <2>1 DEF WriteFrame, WriterTypes, Returns
  <2>3. poisoned' \in BOOLEAN /\ sender' \in BOOLEAN /\ inStopped' \in BOOLEAN
    BY <1>0, <1>1 DEF WriteFrame, WriterTypes, Poison, BeginClose
  <2>4. QED
    BY <1>0, <2>1, <2>2, <2>3 DEF WriterTypes, Returns, Frames
<1>2. CASE TrySend
  BY <1>0, <1>2 DEF TrySend, WriterTypes, Poison, BeginClose
<1>3. CASE AwaitResult
  BY <1>0, <1>3 DEF AwaitResult, WriterTypes, Poison, BeginClose, Returns
<1>4. CASE JoinWriter
  BY <1>0, <1>4 DEF JoinWriter, WriterTypes, CallTypes
<1>5. CASE CloseInput
  BY <1>0, <1>5 DEF CloseInput, WriterTypes, BeginClose
<1>6. CASE Worker
  <2>1. UNCHANGED <<poisoned, sender, inStopped, stdin, frame, size, returned>>
    BY <1>6, WorkerFrame
  <2>2. worker' \in {"recv", "check", "io", "loop", "exited"} /\ result' \in Returns
    BY <1>0, <1>6 DEF Worker, WorkerHangup, WorkerCheck, WorkerWrite, WorkerLoop, WriterTypes,
                      Returns
  <2>3. /\ offset' \in 0..size
        /\ wire' \in Seq(Frames \X (1..MaxFrameSize))
    <3>1. CASE UNCHANGED <<offset, wire>>
      BY <1>0, <3>1 DEF WriterTypes
    <3>2. ASSUME worker = "io", NEW k \in 1..(size - offset),
                 wire' = wire \o [i \in 1..k |-> <<frame, offset + i>>], offset' = offset + k
          PROVE  /\ offset' \in 0..size
                 /\ wire' \in Seq(Frames \X (1..MaxFrameSize))
      <4>1. frame \in Frames /\ size <= MaxFrameSize
        BY <1>0, <3>2 DEF WriterInv, WriterTypes, Frames
      <4>2. wire' \in Seq(Frames \X (1..MaxFrameSize))
        BY <1>0, <3>2, <4>1, WireGrows
      <4>3. offset' \in 0..size
        BY <1>0, <3>2 DEF WriterTypes
      <4>4. QED
        BY <4>2, <4>3
    <3>3. QED
      BY <1>6, <3>1, <3>2 DEF Worker, WorkerHangup, WorkerCheck, WorkerWrite, WorkerLoop
  <2>4. QED
    BY <1>0, <2>1, <2>2, <2>3 DEF WriterTypes
<1>7. CASE OutputCall \/ ChildCall \/ Reader \/ ChildWrite \/ ChildMoves \/ Cancel \/ Expire
  <2>1. UNCHANGED input
    BY <1>7, OutputCallFrame, ChildCallFrame, ReaderFrame, EnvironmentFrame
  <2>2. QED
    BY <1>0, <2>1 DEF WriterTypes, input
<1>8. QED
  BY <1>1, <1>2, <1>3, <1>4, <1>5, <1>6, <1>7, NextParts DEF InputCall

\* The values of a step on the child.
LEMMA ChildTypesStep ==
  ASSUME TypeOK, Next
  PROVE  ChildTypes'
<1>0. ChildTypes
  BY TypeParts
<1>1. CASE ChildCall
  BY <1>0, <1>1 DEF ChildCall, Shutdown, GraceLoop, KillGroup, ChildTypes
<1>2. CASE ChildMoves
  BY <1>0, <1>2 DEF ChildMoves, ChildFork, ChildExit, ForeignReap, ChildTypes
<1>3. CASE InputCall \/ OutputCall \/ Worker \/ Reader \/ ChildWrite \/ Cancel \/ Expire
  <2>1. UNCHANGED child
    BY <1>3, InputCallFrame, OutputCallFrame, WorkerFrame, ReaderFrame, EnvironmentFrame
  <2>2. QED
    BY <1>0, <2>1 DEF ChildTypes, child
<1>4. QED
  BY <1>1, <1>2, <1>3, NextParts

-----------------------------------------------------------------------------
(* ProcessOutputReader and the queue.                                      *)

StreamInv == ReaderTypes /\ StreamTypes /\ LineBounded /\ BudgetInv

\* What the decoder makes of the bytes of a line.
LEMMA EmitType ==
  ASSUME NEW b \in Seq(Bytes \ {"nl"}), NEW nl \in BOOLEAN
  PROVE  Emit(b, nl) \in Value /\ Failure \in Value /\ WireBytes(Failure) = 0
<1>0. Failure \in Value
  <2>1. <<>> \in Seq(Bytes)
    OBVIOUS
  <2>2. QED
    BY <2>1 DEF Failure, Value
<1>1. b \in Seq(Bytes)
  BY DEF Bytes
<1>2. Len(b) > 0 => SubSeq(b, 1, Len(b) - 1) \in Seq(Bytes)
  BY <1>1, LenProperties, SubSeqProperties
<1>3. \A l \in Seq(Bytes) : Line(l) \in Value
  BY DEF Line, Value
<1>4. QED
  BY <1>0, <1>1, <1>2, <1>3 DEF Emit, Failure, WireBytes

\* A step that leaves the output alone.
LEMMA StreamFrame ==
  ASSUME StreamInv, UNCHANGED <<load, output>>, pc' # "recheck" => pc # "recheck"
  PROVE  StreamInv'
  BY DEF StreamInv, ReaderTypes, StreamTypes, LineBounded, BudgetInv, output

\* Giving back the bytes of one envelope leaves those of the others reserved.
LEMMA Refund ==
  ASSUME NEW u \in Nat, NEW q \in Nat, NEW a \in Nat, NEW b \in Nat, u = q + a + b,
         NEW limit \in Nat, u <= limit
  PROVE  /\ u - a \in Nat /\ u - a = q + 0 + b /\ u - a <= limit
         /\ u - b \in Nat /\ u - b = q + a + 0 /\ u - b <= limit
OBVIOUS

\* The reader thread's steps.
LEMMA StreamReader ==
  ASSUME StreamInv, UNCHANGED load, Reader
  PROVE  StreamInv'
<1>0. /\ StreamTypes /\ ReaderTypes /\ LineBounded /\ BudgetInv
      /\ UNCHANGED <<pc, emitted, outStopped, hand, received, ended>>
  BY ReaderFrame DEF StreamInv, call
<1>1. /\ Len(emitted) \in Nat /\ Len(partial) \in Nat /\ MaxLineBytes \in Nat
      /\ QueueItems \in Nat /\ QueueItems > 0 /\ Len(queue) \in Nat /\ QueueBytes \in Nat
  BY <1>0, LenProperties, PipesAssumption DEF ReaderTypes, StreamTypes
<1>2. /\ WireBytes(item) \in Nat /\ WireBytes(hand) \in Nat /\ Charged(queue) \in Nat
      /\ \A v \in Value : Charged(Append(queue, v)) = Charged(queue) + WireBytes(v)
  BY <1>0, WireBytesNat, ChargeOfQueue DEF StreamTypes
<1>3. Failure \in Value /\ ~Failure.ok
  BY EmitType, <1>0 DEF ReaderTypes, Failure
<1>4. CASE ReaderStop
  <2>1. reader' = "exited" /\ reader = "read"
        /\ UNCHANGED <<taken, partial, item, last, queue, used, failed>>
    BY <1>4 DEF ReaderStop
  <2>2. QED
    BY <1>0, <2>1 DEF StreamInv, ReaderTypes, StreamTypes, LineBounded, BudgetInv
<1>5. CASE ReaderPush
  <2> DEFINE byte == emitted[taken + 1]
  <2>1. /\ taken' = taken + 1 /\ taken < Len(emitted) /\ reader = "read"
        /\ UNCHANGED <<queue, used, failed>>
    BY <1>5 DEF ReaderPush
  <2>2. byte \in Bytes /\ taken' \in 0..Len(emitted)
    <3>1. taken + 1 \in 1..Len(emitted)
      BY <1>0, <1>1, <2>1 DEF ReaderTypes
    <3>2. QED
      BY <1>0, <1>1, <2>1, <3>1, ElementOfSeq DEF ReaderTypes
  <2>3. partial \in Seq(Bytes \ {"nl"}) /\ Len(partial) <= MaxLineBytes
    BY <1>0, <2>1 DEF ReaderTypes, LineBounded
  <2>4. CASE byte = "nl"
    <3>1. /\ partial' = <<>> /\ item' = Emit(partial, TRUE) /\ last' = (FALSE \/ ~item'.ok)
          /\ reader' = "reserve"
      BY <1>5, <2>4 DEF ReaderPush, Sink
    <3>2. item' \in Value
      BY <2>3, <3>1, EmitType
    <3>3. last' \in BOOLEAN /\ partial' \in Seq(Bytes \ {"nl"}) /\ Len(partial') = 0
      BY <3>1
    <3>4. LineBounded'
      BY <1>1, <3>3 DEF LineBounded
    <3>5. BudgetInv'
      BY <1>0, <2>1, <3>1 DEF BudgetInv
    <3>6. ReaderTypes'
      BY <1>0, <1>1, <2>1, <2>2, <3>1, <3>3 DEF ReaderTypes
    <3>7. QED
      BY <1>0, <2>1, <3>2, <3>4, <3>5, <3>6 DEF StreamInv, StreamTypes
  <2>5. CASE byte # "nl"
    <3>1. partial' = Append(partial, byte)
      BY <1>5, <2>5 DEF ReaderPush
    <3>2. partial' \in Seq(Bytes \ {"nl"}) /\ Len(partial') = Len(partial) + 1
      BY <2>2, <2>3, <2>5, <3>1, AppendProperties
    <3>3. CASE Len(partial) + 1 > MaxLineBytes
      <4>1. item' = Failure /\ last' = TRUE /\ reader' = "reserve"
        BY <1>3, <1>5, <2>5, <3>3 DEF ReaderPush, Sink
      <4>2. QED
        BY <1>0, <1>1, <1>3, <2>1, <2>2, <2>3, <3>2, <4>1
        DEF StreamInv, ReaderTypes, StreamTypes, LineBounded, BudgetInv
    <3>4. CASE ~(Len(partial) + 1 > MaxLineBytes)
      <4>1. UNCHANGED <<item, last, reader>>
        BY <1>5, <2>5, <3>4 DEF ReaderPush
      <4>2. QED
        BY <1>0, <1>1, <2>1, <2>2, <2>3, <3>2, <3>4, <4>1
        DEF StreamInv, ReaderTypes, StreamTypes, LineBounded, BudgetInv
    <3>5. QED
      BY <3>3, <3>4
  <2>6. QED
    BY <2>4, <2>5
<1>6. CASE ReaderFinish
  <2>1. reader = "read" /\ UNCHANGED <<taken, queue, used, failed>>
    BY <1>6 DEF ReaderFinish
  <2>2. CASE partial = <<>>
    <3>1. reader' = "exited" /\ UNCHANGED <<partial, item, last>>
      BY <1>6, <2>2 DEF ReaderFinish
    <3>2. QED
      BY <1>0, <2>1, <3>1 DEF StreamInv, ReaderTypes, StreamTypes, LineBounded, BudgetInv
  <2>3. CASE partial # <<>>
    <3>1. partial' = <<>> /\ item' = Emit(partial, FALSE) /\ last' = TRUE /\ reader' = "reserve"
      BY <1>6, <2>3 DEF ReaderFinish, Sink
    <3>2. item' \in Value
      BY <1>0, <3>1, EmitType DEF ReaderTypes
    <3>3. last' \in BOOLEAN /\ partial' \in Seq(Bytes \ {"nl"}) /\ Len(partial') = 0
      BY <3>1
    <3>4. LineBounded'
      BY <1>1, <3>3 DEF LineBounded
    <3>5. BudgetInv'
      BY <1>0, <2>1, <3>1 DEF BudgetInv
    <3>6. ReaderTypes'
      BY <1>0, <1>1, <2>1, <3>1, <3>3 DEF ReaderTypes
    <3>7. QED
      BY <1>0, <2>1, <3>2, <3>4, <3>5, <3>6 DEF StreamInv, StreamTypes
  <2>4. QED
    BY <2>2, <2>3
<1>7. CASE ReaderError
  <2>1. /\ reader = "read" /\ item' = Failure /\ last' = TRUE /\ reader' = "reserve"
        /\ UNCHANGED <<taken, partial, queue, used, failed>>
    BY <1>3, <1>7 DEF ReaderError, Sink
  <2>2. QED
    BY <1>0, <1>3, <2>1 DEF StreamInv, ReaderTypes, StreamTypes, LineBounded, BudgetInv
<1>8. CASE Reserve
  <2>1. reader = "reserve" /\ UNCHANGED <<taken, partial, item, last, queue>>
    BY <1>8 DEF Reserve
  <2>2. CASE failed \/ used + WireBytes(item) > QueueBytes
    <3>1. failed' = TRUE /\ reader' = "exited" /\ used' = used
      BY <1>8, <2>2 DEF Reserve
    <3>2. QED
      BY <1>0, <2>1, <3>1 DEF StreamInv, ReaderTypes, StreamTypes, LineBounded, BudgetInv
  <2>3. CASE ~(failed \/ used + WireBytes(item) > QueueBytes)
    <3>1. used' = used + WireBytes(item) /\ reader' = "enqueue" /\ failed' = failed
      BY <1>8, <2>3 DEF Reserve
    <3>2. used' \in Nat /\ used' <= QueueBytes
          /\ used' = Charged(queue) + WireBytes(item) + WireBytes(hand)
      BY <1>0, <1>1, <1>2, <2>1, <2>3, <3>1 DEF StreamTypes, BudgetInv
    <3>3. QED
      BY <1>0, <2>1, <3>1, <3>2 DEF StreamInv, ReaderTypes, StreamTypes, LineBounded, BudgetInv
  <2>4. QED
    BY <2>2, <2>3
<1>9. CASE Enqueue
  <2>1. reader = "enqueue" /\ UNCHANGED <<taken, partial, item, last>>
    BY <1>9 DEF Enqueue
  <2>2. used = Charged(queue) + WireBytes(item) + WireBytes(hand)
    BY <1>0, <2>1 DEF BudgetInv
  <2>3. CASE Len(queue) < QueueItems
    <3>1. /\ queue' = Append(queue, item) /\ reader' = (IF last THEN "exited" ELSE "read")
          /\ UNCHANGED <<used, failed>>
      BY <1>9, <2>3 DEF Enqueue
    <3>2. queue' \in Seq(Value) /\ Len(queue') <= QueueItems
      BY <1>0, <1>1, <2>3, <3>1, AppendProperties DEF StreamTypes
    <3>3. used = Charged(queue') + 0 + WireBytes(hand)
      BY <1>0, <1>2, <2>2, <3>1 DEF StreamTypes
    <3>4. LineBounded'
      BY <1>0, <2>1, <3>1 DEF LineBounded
    <3>5. BudgetInv'
      BY <1>0, <3>1, <3>3 DEF BudgetInv
    <3>6. QED
      BY <1>0, <2>1, <3>1, <3>2, <3>4, <3>5 DEF StreamInv, ReaderTypes, StreamTypes
  <2>4. CASE ~(Len(queue) < QueueItems)
    <3>1. /\ used' = used - WireBytes(item) /\ failed' = TRUE /\ reader' = "exited"
          /\ queue' = queue
      BY <1>9, <2>4 DEF Enqueue
    <3>2. used' \in Nat /\ used' = Charged(queue) + 0 + WireBytes(hand) /\ used' <= QueueBytes
      <4>1. used \in Nat /\ used <= QueueBytes
        BY <1>0 DEF StreamTypes, BudgetInv
      <4>2. QED
        BY <4>1, <1>1, <1>2, <2>2, <3>1, Refund
    <3>3. QED
      BY <1>0, <2>1, <3>1, <3>2 DEF StreamInv, ReaderTypes, StreamTypes, LineBounded, BudgetInv
  <2>5. QED
    BY <2>3, <2>4
<1>10. QED
  BY <1>4, <1>5, <1>6, <1>7, <1>8, <1>9 DEF Reader

\* recv_timeout and close: the bytes of a value follow it from the queue into the
\* receiver's hands and are given back when it is dropped.
LEMMA StreamOutput ==
  ASSUME StreamInv, UNCHANGED load, OutputCall
  PROVE  StreamInv'
<1>0. /\ StreamTypes /\ ReaderTypes /\ LineBounded /\ BudgetInv
      /\ UNCHANGED <<emitted, taken, partial, reader, item, last, failed>>
  BY OutputCallFrame DEF StreamInv
<1>1. /\ Failure \in Value /\ WireBytes(Failure) = 0
      /\ WireBytes(item) \in Nat /\ WireBytes(hand) \in Nat /\ Charged(queue) \in Nat
      /\ QueueBytes \in Nat /\ QueueItems \in Nat /\ Len(queue) \in Nat
  <2>1. Failure \in Value /\ WireBytes(Failure) = 0
    BY <1>0, EmitType DEF ReaderTypes
  <2>2. WireBytes(item) \in Nat /\ WireBytes(hand) \in Nat /\ Charged(queue) \in Nat
    BY <1>0, WireBytesNat, ChargeOfQueue DEF StreamTypes
  <2>3. QED
    BY <1>0, <2>1, <2>2, LenProperties, PipesAssumption DEF StreamTypes
<1>2. LineBounded'
  BY <1>0 DEF LineBounded
<1>3. CASE Recv \/ CloseReader \/ JoinReader
  <2>1. /\ UNCHANGED <<queue, used, hand, received>> /\ pc # "recheck" /\ pc' # "recheck"
        /\ ended' \in BOOLEAN /\ outStopped' \in BOOLEAN
    BY <1>0, <1>3 DEF Recv, CloseReader, JoinReader, output, ReaderTypes
  <2>2. QED
    BY <1>0, <1>2, <2>1 DEF StreamInv, ReaderTypes, StreamTypes, BudgetInv
<1>4. CASE RecvTake
  <2>1. /\ UNCHANGED <<used, received, outStopped>> /\ pc = "recv" /\ hand = Failure
        /\ ended' \in BOOLEAN
    BY <1>0, <1>4 DEF RecvTake, ReaderTypes, BudgetInv
  <2>2. CASE queue = <<>>
    <3>1. UNCHANGED <<queue, hand>> /\ pc' = "idle"
      BY <1>4, <2>2 DEF RecvTake
    <3>2. QED
      BY <1>0, <1>2, <2>1, <3>1 DEF StreamInv, ReaderTypes, StreamTypes, BudgetInv
  <2>3. CASE queue # <<>>
    <3>1. hand' = Head(queue) /\ queue' = Tail(queue) /\ pc' = "recheck"
      BY <1>4, <2>3 DEF RecvTake
    <3>2. /\ hand' \in Value /\ queue' \in Seq(Value) /\ Len(queue') <= QueueItems
      BY <1>0, <1>1, <2>3, <3>1, HeadTailProperties DEF StreamTypes, ReaderTypes
    <3>3. Charged(queue) = WireBytes(hand') + Charged(queue')
      BY <1>0, <2>3, <3>1, ChargeOfQueue DEF StreamTypes
    <3>4. WireBytes(hand') \in Nat /\ Charged(queue') \in Nat
      BY <3>2, WireBytesNat, ChargeOfQueue
    <3>5. BudgetInv'
      <4>1. CASE reader = "enqueue"
        BY <1>0, <1>1, <2>1, <3>1, <3>3, <3>4, <4>1 DEF BudgetInv
      <4>2. CASE reader # "enqueue"
        BY <1>0, <1>1, <2>1, <3>1, <3>3, <3>4, <4>2 DEF BudgetInv
      <4>3. QED
        BY <4>1, <4>2
    <3>6. QED
      BY <1>0, <1>2, <2>1, <3>2, <3>5 DEF StreamInv, ReaderTypes, StreamTypes
  <2>4. QED
    BY <2>2, <2>3
<1>5. CASE RecvRecheck
  <2>1. /\ used' = used - WireBytes(hand) /\ hand' = Failure
        /\ UNCHANGED <<queue, outStopped>> /\ pc' = "idle"
    BY <1>5 DEF RecvRecheck
  <2>2. ended' \in BOOLEAN /\ received' \in Seq(Value)
    <3>1. CASE failed
      BY <1>0, <1>5, <3>1 DEF RecvRecheck, ReaderTypes, StreamTypes
    <3>2. CASE ~failed
      <4>1. received' = Append(received, hand) /\ ended' = ended
        BY <1>5, <3>2 DEF RecvRecheck
      <4>2. received \in Seq(Value) /\ hand \in Value /\ ended \in BOOLEAN
        BY <1>0 DEF StreamTypes, ReaderTypes
      <4>3. QED
        BY <4>1, <4>2, AppendProperties
    <3>3. QED
      BY <3>1, <3>2
  <2>3. BudgetInv' /\ used' \in Nat
    <3> DEFINE sending == IF reader = "enqueue" THEN WireBytes(item) ELSE 0
    <3>1. used \in Nat /\ used <= QueueBytes /\ used = Charged(queue) + sending + WireBytes(hand)
      BY <1>0 DEF BudgetInv, StreamTypes
    <3>2. sending \in Nat /\ sending' = sending
      BY <1>0, <1>1
    <3>3. /\ used' \in Nat /\ used' <= QueueBytes
          /\ used' = Charged(queue') + sending' + 0
      <4> HIDE DEF sending
      <4>1. /\ used - WireBytes(hand) \in Nat /\ used - WireBytes(hand) <= QueueBytes
            /\ used - WireBytes(hand) = Charged(queue) + sending + 0
        BY <1>1, <3>1, <3>2, Refund
      <4>2. Charged(queue') = Charged(queue)
        BY <2>1
      <4>3. QED
        BY <2>1, <3>2, <4>1, <4>2
    <3>4. QED
      BY <1>0, <1>1, <2>1, <3>3 DEF BudgetInv
  <2>4. QED
    BY <1>0, <1>1, <1>2, <2>1, <2>2, <2>3 DEF StreamInv, ReaderTypes, StreamTypes
<1>6. QED
  BY <1>3, <1>4, <1>5 DEF OutputCall

\* A byte of the child leaves everything that was read as it was.
LEMMA StreamChild ==
  ASSUME StreamInv, UNCHANGED load, ChildWrite
  PROVE  StreamInv'
<1>0. /\ StreamTypes /\ ReaderTypes /\ LineBounded /\ BudgetInv
      /\ UNCHANGED <<pc, taken, partial, reader, item, last, outStopped,
                     queue, used, failed, hand, received, ended>>
  BY EnvironmentFrame DEF StreamInv, call
<1>1. PICK b \in Bytes : emitted' = Append(emitted, b)
  BY DEF ChildWrite
<1>2. emitted' \in Seq(Bytes) /\ Len(emitted') = Len(emitted) + 1 /\ Len(emitted) \in Nat
  BY <1>0, <1>1, AppendProperties, LenProperties DEF ReaderTypes
<1>3. taken' \in 0..Len(emitted')
  BY <1>0, <1>2 DEF ReaderTypes
<1>4. QED
  BY <1>0, <1>2, <1>3 DEF StreamInv, ReaderTypes, StreamTypes, LineBounded, BudgetInv

\* Every step keeps the stream's accounts.
LEMMA StreamStep ==
  ASSUME StreamInv, Next
  PROVE  StreamInv'
<1>0. UNCHANGED load
  BY DEF Next
<1>1. CASE InputCall \/ ChildCall
  <2>1. UNCHANGED output /\ pc # "recheck" /\ pc' # "recheck"
    BY <1>1, InputCallFrame, ChildCallFrame DEF InputPc
  <2>2. QED
    BY <1>0, <2>1, StreamFrame
<1>2. CASE Worker \/ ChildMoves \/ Cancel \/ Expire
  <2>1. UNCHANGED output /\ pc' = pc
    BY <1>2, WorkerFrame, EnvironmentFrame DEF call
  <2>2. QED
    BY <1>0, <2>1, StreamFrame
<1>3. QED
  BY <1>0, <1>1, <1>2, NextParts, StreamReader, StreamOutput, StreamChild

-----------------------------------------------------------------------------
(* The invariant.                                                          *)

\* The threads have just been started.
LEMMA InitPipes == Init => PipesInv
<1> SUFFICES ASSUME Init PROVE PipesInv
  OBVIOUS
<1>0. Failure \in Value /\ WireBytes(Failure) = 0 /\ <<>> \in Seq(Bytes \ {"nl"})
  <2>1. <<>> \in Seq(Bytes \ {"nl"}) /\ TRUE \in BOOLEAN
    OBVIOUS
  <2>2. QED
    BY <2>1, EmitType
<1>1. Charged(queue) = 0 /\ queue = <<>> /\ queue \in Seq(Value)
  <2>1. queue = <<>> /\ queue \in Seq(Value)
    BY DEF Init
  <2>2. QED
    BY <2>1, ChargeOfQueue
<1>2. /\ MaxFrames \in Nat /\ MaxFrameSize \in Nat /\ MaxLineBytes \in Nat
      /\ QueueItems \in Nat /\ QueueBytes \in Nat
  BY PipesAssumption
<1>3. TypeOK
  <2>1. CallTypes
    BY DEF Init, CallTypes, Returns
  <2>2. WriterTypes
    <3>1. wire = <<>> /\ returned = [f \in Frames |-> "none"] /\ frame = 0 /\ size = 0
          /\ offset = 0 /\ result = "none" /\ worker = "recv"
          /\ {poisoned, sender, inStopped, stdin} \subseteq BOOLEAN
      BY DEF Init
    <3>2. wire \in Seq(Frames \X (1..MaxFrameSize))
      BY <3>1
    <3>3. returned \in [Frames -> Returns]
      BY <3>1 DEF Returns
    <3>4. frame \in 0..MaxFrames /\ size \in 0..MaxFrameSize + 1 /\ offset \in 0..size
      BY <1>2, <3>1
    <3>5. QED
      BY <3>1, <3>2, <3>3, <3>4 DEF WriterTypes, Returns
  <2>3. ReaderTypes
    <3>1. emitted = <<>> /\ taken = 0 /\ partial = <<>> /\ reader = "read" /\ queue = <<>>
          /\ {last, outStopped, failed, ended} \subseteq BOOLEAN
      BY DEF Init
    <3>2. emitted \in Seq(Bytes) /\ Len(emitted) = 0 /\ Len(queue) = 0
      BY <3>1
    <3>3. partial \in Seq(Bytes \ {"nl"}) /\ Len(partial) = 0
      BY <1>0, <3>1
    <3>4. taken \in 0..Len(emitted) /\ Len(partial) <= MaxLineBytes + 1 /\ Len(queue) <= QueueItems
      BY <1>2, <3>1, <3>2, <3>3
    <3>5. QED
      BY <3>1, <3>2, <3>3, <3>4 DEF ReaderTypes
  <2>4. ChildTypes
    BY DEF Init, ChildTypes
  <2>5. QED
    BY <2>1, <2>2, <2>3, <2>4, TypeParts
<1>4. StreamTypes
  BY <1>0, <1>1 DEF Init, StreamTypes
<1>5. LineBounded
  BY <1>2 DEF Init, LineBounded
<1>6. WriterInv
  BY DEF Init, WriterInv
<1>7. WireInv
  <2>1. Len(wire) = 0 /\ offset = 0 /\ frame = 0 /\ \A f \in Frames : returned[f] = "none"
    BY DEF Init
  <2>2. ChunksFollow /\ LastChunk
    BY <2>1 DEF ChunksFollow, LastChunk
  <2>3. AnsweredFrames /\ NothingAfterFailure
    BY <2>1 DEF AnsweredFrames, NothingAfterFailure
  <2>4. QED
    BY <2>2, <2>3 DEF WireInv
<1>8. BudgetInv
  BY <1>0, <1>1, <1>2 DEF Init, BudgetInv
<1>9. CleanupInv
  BY DEF Init, CleanupInv
<1>10. QED
  BY <1>3, <1>4, <1>5, <1>6, <1>7, <1>8, <1>9 DEF PipesInv

\* One step of any thread, of the child or of the clock.
LEMMA StepPipes == PipesInv /\ [Next]_vars => PipesInv'
<1> SUFFICES ASSUME PipesInv, [Next]_vars PROVE PipesInv'
  OBVIOUS
<1>1. CASE Next
  <2>1. /\ TypeOK /\ StreamInv /\ WriterInv /\ WireInv /\ CleanupInv /\ InputTypes
        /\ load \in Loads
    BY TypeParts, InputHasTypes DEF PipesInv, StreamInv, StreamTypes
  <2>2. StreamInv'
    BY <1>1, <2>1, StreamStep
  <2>3. TypeOK'
    BY <1>1, <2>1, <2>2, CallTypesStep, WriterTypesStep, ChildTypesStep, TypePartsNext DEF StreamInv
  <2>4. WriterInv' /\ WireInv'
    <3>1. CASE InputCall
      BY <2>1, <3>1, WriterInvCaller, WireInvCaller
    <3>2. CASE Worker
      BY <2>1, <3>2, WriterInvWorker, WireInvWorker
    <3>3. CASE OutputCall \/ ChildCall
      <4>1. UNCHANGED <<input, verdict>> /\ pc \in NotWriting /\ pc' \in NotWriting
        BY <3>3, OutputCallFrame, ChildCallFrame DEF NotWriting
      <4>2. QED
        BY <2>1, <4>1, InputFrame
    <3>4. CASE Reader \/ ChildWrite \/ ChildMoves \/ Cancel \/ Expire
      <4>1. UNCHANGED <<input, verdict>> /\ pc' = pc
        BY <3>4, ReaderFrame, EnvironmentFrame DEF call
      <4>2. QED
        BY <2>1, <4>1, InputFrame
    <3>5. QED
      BY <1>1, <3>1, <3>2, <3>3, <3>4, NextParts
  <2>5. CleanupInv'
    BY <1>1, <2>1, CleanupStep
  <2>6. QED
    BY <2>2, <2>3, <2>4, <2>5 DEF PipesInv, StreamInv
<1>2. CASE UNCHANGED vars
  <2>1. UNCHANGED <<load, output>> /\ UNCHANGED <<input, verdict>> /\ pc' = pc
    BY <1>2 DEF vars, call
  <2>2. TypeOK /\ StreamInv /\ WriterInv /\ WireInv /\ CleanupInv
    BY TypeParts DEF PipesInv, StreamInv
  <2>3. StreamInv'
    BY <2>1, <2>2, StreamFrame
  <2>4. WriterInv' /\ WireInv'
    BY <2>1, <2>2, InputFrame
  <2>5. TypeOK'
    BY <1>2, <2>2 DEF TypeOK, vars, call, input, output, child
  <2>6. CleanupInv'
    BY <1>2, <2>2 DEF CleanupInv, vars, call, child
  <2>7. QED
    BY <2>3, <2>4, <2>5, <2>6 DEF PipesInv, StreamInv
<1>3. QED
  BY <1>1, <1>2

\* Whatever the three threads and the child do in whatever order, the caller, the
\* writer thread and the reader thread are where PipesInv says (process_input.rs,
\* process_output.rs, process_queue.rs, process_child.rs).
THEOREM PipesInvariant == Spec => []PipesInv
  BY InitPipes, StepPipes, PTL DEF Spec

\* Every byte reserved belongs to exactly one envelope that is alive, and the
\* budget is never exceeded, for every budget and every stream (process_queue.rs:
\* fetch_update, Envelope::drop).
THEOREM BytesAlwaysAccounted == Spec => []BytesAccounted
<1>1. PipesInv => BytesAccounted
  BY DEF PipesInv, BudgetInv, BytesAccounted
<1>2. QED
  BY <1>1, PipesInvariant, PTL

\* The pipe holds whole frames in order, cut at most at the end; Ok is returned only
\* for a frame that is there in full, and after a failure nothing is written any more
\* (process_input.rs: write_one, write_frame_cancellable).
THEOREM WireAlwaysFramed == Spec => []WireIsFramed
<1>1. PipesInv => WireIsFramed
  <2> SUFFICES ASSUME PipesInv PROVE WireIsFramed
    OBVIOUS
  <2>0. InputTypes /\ WireInv
    BY InputHasTypes DEF PipesInv
  <2>1. \A f \in Frames : returned[f] = "ok" =>
           \E i \in {j \in 1..Len(wire) : wire[j][2] = 1} : wire[i][1] = f
    BY <2>0 DEF WireInv, AnsweredFrames
  <2>2. \A f \in Frames : returned[f] = "ok" /\ f = frame =>
           Len(wire) > 0 /\ wire[Len(wire)] = <<f, size>>
    BY <2>0 DEF WireInv, AnsweredFrames, LastChunk, Frames, InputTypes
  <2>3. QED
    BY <2>0, <2>1, <2>2 DEF WireIsFramed, WireInv, ChunksFollow
<1>2. QED
  BY <1>1, PipesInvariant, PTL

\* shutdown says Ok only of a leader it reaped and a group it emptied, and never
\* again once it has failed (process_child.rs).
THEOREM CleanupAlwaysTrue == Spec => []CleanupIsTrue
<1>1. PipesInv => CleanupIsTrue
  BY DEF PipesInv, TypeOK, CleanupInv, CleanupIsTrue
<1>2. QED
  BY <1>1, PipesInvariant, PTL

\* After an overflow recv_timeout returns no value any more, not even the one it
\* already holds (process_queue.rs: recv_timeout).
THEOREM OverflowStaysSticky == Spec => OverflowIsSticky
<1>1. [Next]_vars => [failed => received' = received]_vars
  <2> SUFFICES ASSUME Next, failed PROVE received' = received
    OBVIOUS
  <2>1. CASE InputCall \/ ChildCall \/ Worker \/ ChildMoves \/ Cancel \/ Expire
    BY <2>1, InputCallFrame, ChildCallFrame, WorkerFrame, EnvironmentFrame DEF output
  <2>2. CASE Reader \/ ChildWrite
    BY <2>2, ReaderFrame, EnvironmentFrame
  <2>3. CASE OutputCall
    BY <2>3 DEF OutputCall, Recv, RecvTake, RecvRecheck, CloseReader, JoinReader, output
  <2>4. QED
    BY <2>1, <2>2, <2>3, NextParts
<1>2. QED
  BY <1>1, PTL DEF Spec, OverflowIsSticky

-----------------------------------------------------------------------------
(* The lines recv_timeout returns: the invariant.                           *)

\* The line that ends before e begins at s: behind a newline, and with none inside.
Cut(bytes, e, s) ==
    /\ s \in 1..e /\ (s = 1 \/ bytes[s - 1] = "nl")
    /\ \A j \in s..e - 1 : bytes[j] # "nl"

\* What is handed over of a line from s that a newline, or the end of file, ends at e.
LineFrom(bytes, e, s) ==
    LET raw == SubSeq(bytes, s, e - 1)
    IN  IF e <= Len(bytes) /\ raw # <<>> /\ raw[Len(raw)] = "cr"
        THEN SubSeq(raw, 1, Len(raw) - 1) ELSE raw

NewlinesTo(bytes, t) == {i \in 1..t : bytes[i] = "nl"}

\* v is line k of the first t bytes; a line without a newline counts if `final'.
LineOf(v, k, bytes, t, final) ==
    \E e \in 1..t + 1, s \in 1..t + 1 :
        /\ Cut(bytes, e, s) /\ v.line = LineFrom(bytes, e, s)
        /\ \/ e <= t /\ bytes[e] = "nl" /\ Cardinality(NewlinesTo(bytes, e)) = k
           \/ e = t + 1 /\ final /\ Cardinality(NewlinesTo(bytes, t)) + 1 = k

\* Values on their way: returned, in the caller's hand, queued, at the sink.
InHand == IF pc = "recheck" THEN <<hand>> ELSE <<>>
AtSink == IF reader \in {"reserve", "enqueue"} THEN <<item>> ELSE <<>>
Stream == (received \o InHand) \o (queue \o AtSink)

\* The decoder will be asked for another byte; or it is at the end of the output.
Reading == reader = "read" \/ (reader \in {"reserve", "enqueue"} /\ ~last)
AtEnd == ~Alive /\ taken = Len(emitted)

\* What the caller was given are the first lines, and an Err(()) was the last.
ReturnedInv ==
    \A k \in 1..Len(received) :
        /\ ~received[k].ok => k = Len(received)
        /\ received[k].ok => LineOf(received[k], k, emitted, taken, AtEnd /\ reader = "exited")

\* The same of all values on their way, until an overflow tears the stream.
StreamLines(strm, bytes, t, reading, final) ==
    \A k \in 1..Len(strm) :
        /\ ~strm[k].ok => k = Len(strm) /\ ~reading
        /\ strm[k].ok => LineOf(strm[k], k, bytes, t, final /\ ~reading /\ k = Len(strm))

\* There is a value for each newline read, and the decoder holds the line begun.
DecoderInv ==
    /\ Reading /\ ~failed => Len(Stream) = Cardinality(NewlinesTo(emitted, taken))
    /\ Reading => \E s \in 1..taken + 1 :
                     Cut(emitted, taken + 1, s) /\ partial = SubSeq(emitted, s, taken)

\* Why the reader gave up, if nobody stopped it.
Complete(strm, bytes, t, final) ==
    \/ \E k \in 1..Len(strm) : ~strm[k].ok
    \/ /\ final
       /\ \/ Len(strm) = Cardinality(NewlinesTo(bytes, t)) + 1
          \/ Len(strm) = Cardinality(NewlinesTo(bytes, t)) /\ (t = 0 \/ bytes[t] = "nl")

EndInv ==
    /\ failed => reader = "exited"
    /\ ended /\ ~failed => reader = "exited" /\ queue = <<>> /\ pc # "recheck"
    /\ ~Reading /\ ~failed /\ ~outStopped => Complete(Stream, emitted, taken, AtEnd)

LinesInv ==
    /\ ReturnedInv
    /\ ~failed => StreamLines(Stream, emitted, taken, Reading, AtEnd)
    /\ DecoderInv /\ EndInv

-----------------------------------------------------------------------------
(* Lines and their ends.                                                   *)

\* The newlines up to t are finitely many; the next byte adds itself or nothing.
LEMMA CountNewlines ==
  ASSUME NEW bytes, NEW t \in Nat
  PROVE  /\ IsFiniteSet(NewlinesTo(bytes, t))
         /\ Cardinality(NewlinesTo(bytes, t)) \in Nat
         /\ Cardinality(NewlinesTo(bytes, 0)) = 0
         /\ Cardinality(NewlinesTo(bytes, t + 1)) =
              Cardinality(NewlinesTo(bytes, t)) + (IF bytes[t + 1] = "nl" THEN 1 ELSE 0)
<1>1. IsFiniteSet(1..t) /\ NewlinesTo(bytes, t) \in SUBSET (1..t)
  BY FS_Interval DEF NewlinesTo
<1>2. IsFiniteSet(NewlinesTo(bytes, t))
  BY <1>1, FS_Subset
<1>3. Cardinality(NewlinesTo(bytes, t)) \in Nat
  BY <1>2, FS_CardinalityType
<1>4. NewlinesTo(bytes, 0) = {}
  BY DEF NewlinesTo
<1>5. Cardinality(NewlinesTo(bytes, 0)) = 0
  BY <1>4, FS_EmptySet
<1>6. CASE bytes[t + 1] = "nl"
  <2>1. NewlinesTo(bytes, t + 1) = NewlinesTo(bytes, t) \cup {t + 1} /\ t + 1 \notin NewlinesTo(bytes, t)
    BY <1>6 DEF NewlinesTo
  <2>2. Cardinality(NewlinesTo(bytes, t + 1)) = Cardinality(NewlinesTo(bytes, t)) + 1
    BY <1>2, <2>1, FS_AddElement
  <2>3. QED
    BY <1>2, <1>3, <1>5, <1>6, <2>2
<1>7. CASE bytes[t + 1] # "nl"
  <2>1. NewlinesTo(bytes, t + 1) = NewlinesTo(bytes, t)
    BY <1>7 DEF NewlinesTo
  <2>2. QED
    BY <1>2, <1>3, <1>5, <1>7, <2>1
<1>8. QED
  BY <1>6, <1>7

\* Fewer bytes have no more newlines.
LEMMA CountGrows ==
  ASSUME NEW bytes, NEW t \in Nat, NEW e \in Nat, e <= t
  PROVE  Cardinality(NewlinesTo(bytes, e)) <= Cardinality(NewlinesTo(bytes, t))
<1>1. NewlinesTo(bytes, e) \in SUBSET NewlinesTo(bytes, t)
  BY DEF NewlinesTo
<1>2. QED
  BY <1>1, CountNewlines, FS_Subset

\* The reference definition finds the beginning of a line that Cut describes.
LEMMA LineOfCut ==
  ASSUME NEW bytes \in Seq(Bytes), NEW e \in 1..Len(bytes) + 1, NEW s \in Nat,
         Cut(bytes, e, s)
  PROVE  LineBefore(bytes, e) = LineFrom(bytes, e, s)
<1> DEFINE before == {i \in NewlineAt(bytes) : i < e}
           start == IF before = {} THEN 1
                    ELSE (CHOOSE i \in before : \A j \in before : j <= i) + 1
<1>1. start = s
  <2>1. CASE s = 1
    <3>1. before = {}
      BY <2>1 DEF Cut, NewlineAt
    <3>2. QED
      BY <2>1, <3>1
  <2>2. CASE s # 1
    <3>1. s - 1 \in before /\ \A j \in before : j <= s - 1
      BY <2>2 DEF Cut, NewlineAt
    <3>2. \A i \in before : (\A j \in before : j <= i) => i = s - 1
      BY <3>1 DEF NewlineAt
    <3>3. (CHOOSE i \in before : \A j \in before : j <= i) = s - 1
      BY <3>1, <3>2
    <3>4. before # {} /\ s \in Nat /\ (s - 1) + 1 = s
      BY <3>1
    <3>5. start = (CHOOSE i \in before : \A j \in before : j <= i) + 1
      BY <3>4
    <3> HIDE DEF before
    <3>6. QED
      BY <3>3, <3>4, <3>5
  <2>3. QED
    BY <2>1, <2>2
<1>2. LineBefore(bytes, e) =
        LET raw == SubSeq(bytes, start, e - 1)
        IN  IF e <= Len(bytes) /\ raw # <<>> /\ raw[Len(raw)] = "cr"
            THEN SubSeq(raw, 1, Len(raw) - 1) ELSE raw
  BY DEF LineBefore
<1> HIDE DEF start
<1>3. QED
  BY <1>1, <1>2 DEF LineFrom

\* A stretch of the output stays what it is when more is written.
LEMMA StretchStays ==
  ASSUME NEW bytes \in Seq(Bytes), NEW b \in Bytes, NEW s \in Nat \ {0}, NEW e \in Nat,
         e <= Len(bytes)
  PROVE  SubSeq(Append(bytes, b), s, e) = SubSeq(bytes, s, e)
<1> DEFINE more == Append(bytes, b)
<1>1. more \in Seq(Bytes) /\ Len(more) = Len(bytes) + 1 /\ \A i \in 1..Len(bytes) : more[i] = bytes[i]
  OBVIOUS
<1>2. SubSeq(bytes, s, e) = [i \in 1..e - s + 1 |-> bytes[s + i - 1]]
  OBVIOUS
<1>3. SubSeq(more, s, e) = [i \in 1..e - s + 1 |-> more[s + i - 1]]
  OBVIOUS
<1>4. \A i \in 1..e - s + 1 : more[s + i - 1] = bytes[s + i - 1]
  BY <1>1
<1> HIDE DEF more
<1>5. SubSeq(more, s, e) = SubSeq(bytes, s, e)
  BY <1>2, <1>3, <1>4
<1> USE DEF more
<1>6. QED
  BY <1>5

\* More output changes no line that a newline has ended, and no count.
LEMMA LineStays ==
  ASSUME NEW bytes \in Seq(Bytes), NEW b \in Bytes, NEW t \in 0..Len(bytes), NEW k, NEW v,
         LineOf(v, k, bytes, t, FALSE)
  PROVE  LineOf(v, k, Append(bytes, b), t, FALSE)
<1> DEFINE more == Append(bytes, b)
<1>0. Len(bytes) \in Nat /\ Len(more) = Len(bytes) + 1 /\ \A i \in 1..Len(bytes) : more[i] = bytes[i]
  OBVIOUS
<1>1. PICK e \in 1..t + 1, s \in 1..t + 1 :
        /\ Cut(bytes, e, s) /\ v.line = LineFrom(bytes, e, s)
        /\ e <= t /\ bytes[e] = "nl" /\ Cardinality(NewlinesTo(bytes, e)) = k
  BY DEF LineOf
<1>2. e \in 1..Len(bytes) /\ s \in Nat \ {0} /\ s <= e
  BY <1>1 DEF Cut
<1>3. Cut(more, e, s)
  BY <1>0, <1>1, <1>2 DEF Cut
<1>4. SubSeq(more, s, e - 1) = SubSeq(bytes, s, e - 1)
  BY <1>2, StretchStays
<1>5. LineFrom(more, e, s) = LineFrom(bytes, e, s)
  <2>1. PICK raw : raw = SubSeq(bytes, s, e - 1) /\ raw = SubSeq(more, s, e - 1)
    BY <1>4
  <2>2. PICK m : m = Len(bytes) /\ m + 1 = Len(more) /\ m \in Nat /\ e \in 1..m
    BY <1>0, <1>2
  <2>3. e <= m /\ e <= m + 1
    BY <2>2
  <2>4. LineFrom(bytes, e, s) = IF raw # <<>> /\ raw[Len(raw)] = "cr"
                                THEN SubSeq(raw, 1, Len(raw) - 1) ELSE raw
    BY <2>1, <2>2, <2>3, Zenon DEF LineFrom
  <2> HIDE DEF more
  <2>5. LineFrom(more, e, s) = IF raw # <<>> /\ raw[Len(raw)] = "cr"
                               THEN SubSeq(raw, 1, Len(raw) - 1) ELSE raw
    BY <2>1, <2>2, <2>3, Zenon DEF LineFrom
  <2>6. QED
    BY <2>4, <2>5
<1>6. NewlinesTo(more, e) = NewlinesTo(bytes, e)
  BY <1>0, <1>2 DEF NewlinesTo
<1>7. QED
  BY <1>0, <1>1, <1>2, <1>3, <1>5, <1>6 DEF LineOf

\* Reading on keeps every line, also a last one that no newline ends.
LEMMA LineKept ==
  ASSUME NEW bytes, NEW t \in Nat, NEW u \in Nat, t <= u, NEW k, NEW v,
         NEW f \in BOOLEAN, NEW g \in BOOLEAN, f => g /\ u = t,
         LineOf(v, k, bytes, t, f)
  PROVE  LineOf(v, k, bytes, u, g)
<1>1. PICK e \in 1..t + 1, s \in 1..t + 1 :
        /\ Cut(bytes, e, s) /\ v.line = LineFrom(bytes, e, s)
        /\ \/ e <= t /\ bytes[e] = "nl" /\ Cardinality(NewlinesTo(bytes, e)) = k
           \/ e = t + 1 /\ f /\ Cardinality(NewlinesTo(bytes, t)) + 1 = k
  BY DEF LineOf
<1>2. e \in 1..u + 1 /\ s \in 1..u + 1
  OBVIOUS
<1>3. CASE e <= t /\ bytes[e] = "nl" /\ Cardinality(NewlinesTo(bytes, e)) = k
  <2>1. e <= u
    BY <1>3
  <2>2. QED
    BY <1>1, <1>2, <1>3, <2>1 DEF LineOf
<1>4. CASE e = t + 1 /\ f /\ Cardinality(NewlinesTo(bytes, t)) + 1 = k
  BY <1>1, <1>2, <1>4 DEF LineOf
<1>5. QED
  BY <1>1, <1>3, <1>4

\* emit hands over the line the reference definition finds, or an Err(()).
LEMMA EmitIsLine ==
  ASSUME NEW bytes \in Seq(Bytes), NEW t \in 0..Len(bytes), NEW s \in 1..t + 1, NEW newline \in BOOLEAN,
         newline <=> t + 1 <= Len(bytes),
         Emit(SubSeq(bytes, s, t), newline).ok
  PROVE  Emit(SubSeq(bytes, s, t), newline).line = LineFrom(bytes, t + 1, s)
<1>1. \A i \in s..t : bytes[i] \in Bytes
  OBVIOUS
<1>2. SubSeq(bytes, s, t) \in Seq(Bytes)
  BY <1>1, SubSeqProperties
<1>3. PICK raw \in Seq(Bytes) : raw = SubSeq(bytes, s, t)
  BY <1>2
<1>4. Len(raw) \in Nat /\ (raw # <<>> <=> Len(raw) > 0)
  OBVIOUS
<1>5. t \in Nat /\ (t + 1) - 1 = t
  OBVIOUS
<1>6. LineFrom(bytes, t + 1, s) = IF newline /\ raw # <<>> /\ raw[Len(raw)] = "cr"
                                  THEN SubSeq(raw, 1, Len(raw) - 1) ELSE raw
  <2>1. PICK m : m = Len(bytes)
    OBVIOUS
  <2>2. QED
    BY <1>3, <1>5, Zenon DEF LineFrom
<1>7. Emit(raw, newline).ok => Emit(raw, newline).line =
        IF newline /\ Len(raw) > 0 /\ raw[Len(raw)] = "cr" THEN SubSeq(raw, 1, Len(raw) - 1) ELSE raw
  BY DEF Emit, Failure, Line
<1>8. QED
  BY <1>3, <1>4, <1>6, <1>7

\* Stages of the stream: the values move on and keep their order.
LEMMA StreamMoves ==
  ASSUME NEW r \in Seq(Value), NEW q \in Seq(Value), NEW a \in Seq(Value), NEW x \in Value
  PROVE  /\ q # <<>> => (r \o <<>>) \o (q \o a) = (r \o <<Head(q)>>) \o (Tail(q) \o a)
         /\ (r \o <<x>>) \o (q \o a) = (Append(r, x) \o <<>>) \o (q \o a)
         /\ q \o <<x>> = Append(q, x) \o <<>>
         /\ r \o (q \o <<x>>) = Append(r \o (q \o <<>>), x)
<1> HIDE DEF Value
<1>0. <<>> \in Seq(Value) /\ <<x>> \in Seq(Value)
  OBVIOUS
<1>1. Append(r, x) = r \o <<x>> /\ Append(q, x) = q \o <<x>>
  OBVIOUS
<1>2. ASSUME q # <<>> PROVE (r \o <<>>) \o (q \o a) = (r \o <<Head(q)>>) \o (Tail(q) \o a)
  <2>1. q = <<Head(q)>> \o Tail(q) /\ Head(q) \in Value /\ Tail(q) \in Seq(Value)
    BY <1>2
  <2>2. PICK h \in Value, w \in Seq(Value) : h = Head(q) /\ w = Tail(q)
    BY <2>1
  <2>3. <<h>> \in Seq(Value) /\ w \o a \in Seq(Value)
    OBVIOUS
  <2>4. q \o a = <<h>> \o (w \o a)
    BY <2>1, <2>2, <2>3, ConcatAssociative
  <2>5. (r \o <<h>>) \o (w \o a) = r \o (<<h>> \o (w \o a))
    BY <2>3, ConcatAssociative
  <2>6. r \o <<>> = r
    BY ConcatEmptySeq
  <2>7. QED
    BY <2>2, <2>4, <2>5, <2>6
<1>3. Append(r, x) \o <<>> = r \o <<x>> /\ Append(q, x) \o <<>> = q \o <<x>> /\ q \o <<>> = q
  BY <1>0, <1>1, ConcatEmptySeq
<1>4. r \o (q \o <<x>>) = Append(r \o (q \o <<>>), x)
  <2>1. r \o q \in Seq(Value)
    OBVIOUS
  <2>2. Append(r \o q, x) = (r \o q) \o <<x>>
    BY <2>1
  <2>3. QED
    BY <1>0, <1>3, <2>2, ConcatAssociative
<1>5. QED
  BY <1>2, <1>3, <1>4

\* The next value of a stream that is still read: line number Len(strm) + 1, or an Err(()).
LEMMA StreamGrows ==
  ASSUME NEW strm \in Seq(Value), NEW bytes, NEW t \in Nat, NEW u \in {t, t + 1},
         NEW v \in Value, NEW f \in BOOLEAN, NEW g \in BOOLEAN, NEW on \in BOOLEAN,
         StreamLines(strm, bytes, t, TRUE, f),
         ~v.ok => ~on,
         v.ok => LineOf(v, Len(strm) + 1, bytes, u, g /\ ~on)
  PROVE  StreamLines(Append(strm, v), bytes, u, on, g)
<1> DEFINE more == Append(strm, v)
<1>1. /\ Len(strm) \in Nat /\ Len(more) = Len(strm) + 1 /\ more[Len(strm) + 1] = v
      /\ \A k \in 1..Len(strm) : more[k] = strm[k]
  OBVIOUS
<1> HIDE DEF more
<1> SUFFICES ASSUME NEW k \in 1..Len(more)
             PROVE  /\ ~more[k].ok => k = Len(more) /\ ~on
                    /\ more[k].ok => LineOf(more[k], k, bytes, u, g /\ ~on /\ k = Len(more))
  BY DEF StreamLines, more
<1>2. CASE k = Len(more)
  <2>1. more[k] = v /\ k = Len(strm) + 1
    BY <1>1, <1>2
  <2>2. (g /\ ~on /\ k = Len(more)) = (g /\ ~on)
    BY <1>2
  <2>3. QED
    BY <1>2, <2>1, <2>2
<1>3. CASE k # Len(more)
  <2>1. k \in 1..Len(strm) /\ more[k] = strm[k]
    BY <1>1, <1>3
  <2>2. strm[k].ok /\ LineOf(strm[k], k, bytes, t, f /\ ~TRUE /\ k = Len(strm))
    BY <2>1 DEF StreamLines
  <2>3. LineOf(strm[k], k, bytes, t, FALSE)
    BY <2>2
  <2>4. LineOf(strm[k], k, bytes, u, g /\ ~on /\ k = Len(more))
    <3>1. u \in Nat /\ t <= u
      OBVIOUS
    <3>2. PICK final \in BOOLEAN : final = (g /\ ~on /\ k = Len(more))
      OBVIOUS
    <3>3. LineOf(strm[k], k, bytes, u, final)
      BY <2>3, <3>1, LineKept, Zenon
    <3>4. QED
      BY <3>2, <3>3, Zenon
  <2>5. QED
    BY <2>1, <2>2, <2>4
<1>4. QED
  BY <1>2, <1>3

\* A stream to which nothing is added, while the decoder reads on or stops.
LEMMA StreamKept ==
  ASSUME NEW strm \in Seq(Value), NEW bytes, NEW t \in Nat, NEW u \in {t, t + 1},
         NEW f \in BOOLEAN, NEW g \in BOOLEAN, NEW on \in BOOLEAN, NEW more \in BOOLEAN,
         StreamLines(strm, bytes, t, on, f), more => on, f /\ ~on => g /\ u = t
  PROVE  StreamLines(strm, bytes, u, more, g)
<1> SUFFICES ASSUME NEW k \in 1..Len(strm)
             PROVE  /\ ~strm[k].ok => k = Len(strm) /\ ~more
                    /\ strm[k].ok => LineOf(strm[k], k, bytes, u, g /\ ~more /\ k = Len(strm))
  BY DEF StreamLines
<1>1. ~strm[k].ok => k = Len(strm) /\ ~more
  BY DEF StreamLines
<1>2. ASSUME strm[k].ok PROVE LineOf(strm[k], k, bytes, u, g /\ ~more /\ k = Len(strm))
  <2>1. LineOf(strm[k], k, bytes, t, f /\ ~on /\ k = Len(strm))
    BY <1>2 DEF StreamLines
  <2>2. u \in Nat /\ t <= u
    OBVIOUS
  <2>3. QED
    BY <2>1, <2>2, LineKept
<1>3. QED
  BY <1>1, <1>2

-----------------------------------------------------------------------------
(* The stream of values, step by step.                                     *)

LineTypes ==
    /\ emitted \in Seq(Bytes) /\ taken \in 0..Len(emitted) /\ partial \in Seq(Bytes \ {"nl"})
    /\ item \in Value /\ hand \in Value /\ queue \in Seq(Value) /\ received \in Seq(Value)
    /\ last \in BOOLEAN /\ failed \in BOOLEAN /\ outStopped \in BOOLEAN /\ ended \in BOOLEAN
    /\ reader \in {"read", "reserve", "enqueue", "exited"}

LEMMA LinesHaveTypes == PipesInv => LineTypes
  BY DEF PipesInv, TypeOK, StreamTypes, LineTypes

\* The stream is a sequence of values; the values returned are its first.
LEMMA StreamShape ==
  ASSUME LineTypes
  PROVE  /\ InHand \in Seq(Value) /\ AtSink \in Seq(Value) /\ Stream \in Seq(Value)
         /\ received \o InHand \in Seq(Value) /\ queue \o AtSink \in Seq(Value)
         /\ Len(Stream) \in Nat /\ Len(received) <= Len(Stream)
         /\ reader \in {"reserve", "enqueue"} =>
              Len(received) < Len(Stream) /\ Stream[Len(Stream)] = item
         /\ \A k \in 1..Len(received) : Stream[k] = received[k]
<1> HIDE DEF Value
<1>1. InHand \in Seq(Value) /\ AtSink \in Seq(Value)
  BY DEF LineTypes, InHand, AtSink
<1>2. PICK r \in Seq(Value), h \in Seq(Value), q \in Seq(Value), a \in Seq(Value) :
        r = received /\ h = InHand /\ q = queue /\ a = AtSink
  BY <1>1 DEF LineTypes
<1>3. PICK x \in Seq(Value), y \in Seq(Value) : x = r \o h /\ y = q \o a
  <2>1. r \o h \in Seq(Value) /\ q \o a \in Seq(Value)
    OBVIOUS
  <2>2. QED
    BY <2>1
<1>4. Stream = x \o y
  BY <1>2, <1>3 DEF Stream
<1>5. /\ Len(x) = Len(r) + Len(h) /\ Len(y) = Len(q) + Len(a)
      /\ \A k \in 1..Len(r) : x[k] = r[k]
      /\ \A k \in 1..Len(a) : y[Len(q) + k] = a[k]
  BY <1>3
<1>6. /\ x \o y \in Seq(Value) /\ Len(x \o y) = Len(x) + Len(y)
      /\ \A k \in 1..Len(x) : (x \o y)[k] = x[k]
      /\ \A k \in 1..Len(y) : (x \o y)[Len(x) + k] = y[k]
  <2>1. /\ x \o y \in Seq(Value) /\ Len(x \o y) = Len(x) + Len(y)
        /\ \A i \in 1..Len(x) + Len(y) : (x \o y)[i] = IF i <= Len(x) THEN x[i] ELSE y[i - Len(x)]
    BY ConcatProperties
  <2>2. Len(x) \in Nat /\ Len(y) \in Nat
    OBVIOUS
  <2>3. ASSUME NEW k \in 1..Len(y) PROVE (x \o y)[Len(x) + k] = y[k]
    <3>1. Len(x) + k \in 1..Len(x) + Len(y) /\ ~(Len(x) + k <= Len(x)) /\ (Len(x) + k) - Len(x) = k
      BY <2>2
    <3>2. QED
      BY <2>1, <3>1
  <2>4. \A k \in 1..Len(x) : (x \o y)[k] = x[k]
    BY <2>1, <2>2
  <2>5. QED
    BY <2>1, <2>3, <2>4
<1>7. Len(r) \in Nat /\ Len(h) \in Nat /\ Len(q) \in Nat /\ Len(a) \in Nat
  OBVIOUS
<1>8. Len(x \o y) \in Nat /\ Len(r) <= Len(x \o y) /\ \A k \in 1..Len(r) : (x \o y)[k] = r[k]
  BY <1>5, <1>6, <1>7
<1>9. ASSUME reader \in {"reserve", "enqueue"}
      PROVE  Len(r) < Len(x \o y) /\ (x \o y)[Len(x \o y)] = item
  <2>1. a = <<item>>
    BY <1>2, <1>9 DEF AtSink
  <2>2. Len(a) = 1 /\ a[1] = item
    BY <2>1
  <2>3. Len(y) = Len(q) + 1 /\ y[Len(q) + 1] = item /\ Len(x \o y) = Len(x) + Len(y)
    BY <1>5, <1>6, <1>7, <2>2
  <2>4. Len(y) \in 1..Len(y)
    BY <1>7, <2>3
  <2>5. (x \o y)[Len(x) + Len(y)] = y[Len(y)]
    BY <1>6, <2>4
  <2>6. QED
    BY <1>5, <1>7, <2>3, <2>5
<1>10. QED
  BY <1>1, <1>2, <1>3, <1>4, <1>6, <1>8, <1>9

\* Only a stream of lines up to an Err(()) is returned.
LEMMA ReturnedFromStream ==
  ASSUME LineTypes, StreamLines(Stream, emitted, taken, Reading, AtEnd)
  PROVE  ReturnedInv
<1> SUFFICES ASSUME NEW k \in 1..Len(received)
             PROVE  /\ ~received[k].ok => k = Len(received)
                    /\ received[k].ok =>
                         LineOf(received[k], k, emitted, taken, AtEnd /\ reader = "exited")
  BY DEF ReturnedInv
<1>1. /\ k \in 1..Len(Stream) /\ Stream[k] = received[k] /\ Len(received) <= Len(Stream)
      /\ Len(received) \in Nat /\ Len(Stream) \in Nat
  BY StreamShape DEF LineTypes
<1>2. ASSUME ~received[k].ok PROVE k = Len(received)
  BY <1>1, <1>2 DEF StreamLines
<1>3. ASSUME received[k].ok PROVE LineOf(received[k], k, emitted, taken, AtEnd /\ reader = "exited")
  <2>1. LineOf(received[k], k, emitted, taken, AtEnd /\ ~Reading /\ k = Len(Stream))
    BY <1>1, <1>3 DEF StreamLines
  <2>2. AtEnd /\ ~Reading /\ k = Len(Stream) => AtEnd /\ reader = "exited"
    BY <1>1, StreamShape DEF LineTypes, Reading
  <2>3. taken \in Nat /\ taken <= taken
    BY DEF LineTypes
  <2>4. PICK f \in BOOLEAN, g \in BOOLEAN : /\ f = (AtEnd /\ ~Reading /\ k = Len(Stream))
                                            /\ g = (AtEnd /\ reader = "exited")
    OBVIOUS
  <2>5. LineOf(received[k], k, emitted, taken, g)
    BY <2>1, <2>2, <2>3, <2>4, LineKept
  <2>6. QED
    BY <2>4, <2>5
<1>4. QED
  BY <1>2, <1>3

\* LinesInv says of every state what the reference definition asks.
LEMMA LinesAreInOrder == PipesInv /\ LinesInv => LinesInOrder
<1> SUFFICES ASSUME PipesInv, LinesInv PROVE LinesInOrder
  OBVIOUS
<1> DEFINE lines == {i \in 1..Len(received) : received[i].ok}
           closed == reader = "exited" /\ ~Alive /\ taken = Len(emitted)
           ends == LineEnds(emitted, closed)
           rank(e) == Cardinality({d \in ends : d <= e})
<1>0. LineTypes
  BY LinesHaveTypes
<1>1. /\ Len(emitted) \in Nat /\ taken \in Nat /\ taken <= Len(emitted) /\ Len(received) \in Nat
      /\ emitted \in Seq(Bytes)
  BY <1>0 DEF LineTypes
<1>2. ASSUME NEW e \in 1..Len(emitted), emitted[e] = "nl"
      PROVE  e \in ends /\ rank(e) = Cardinality(NewlinesTo(emitted, e))
  <2>1. {d \in ends : d <= e} = NewlinesTo(emitted, e)
    BY <1>1 DEF LineEnds, NewlineAt, NewlinesTo
  <2>2. e \in ends
    BY <1>1, <1>2 DEF LineEnds, NewlineAt
  <2>3. QED
    BY <2>1, <2>2
<1>3. ASSUME closed
      PROVE  /\ Len(emitted) + 1 \in ends
             /\ rank(Len(emitted) + 1) = Cardinality(NewlinesTo(emitted, taken)) + 1
  <2>1. {d \in ends : d <= Len(emitted) + 1} = NewlinesTo(emitted, taken) \cup {Len(emitted) + 1}
    BY <1>1, <1>3 DEF LineEnds, NewlineAt, NewlinesTo
  <2>2. Len(emitted) + 1 \in ends
    BY <1>3 DEF LineEnds
  <2>3. Len(emitted) + 1 \notin NewlinesTo(emitted, taken)
    BY <1>1 DEF NewlinesTo
  <2>4. QED
    BY <1>1, <2>1, <2>2, <2>3, CountNewlines, FS_AddElement
<1>4. \A i \in 1..Len(received) : ~received[i].ok => i = Len(received)
  BY DEF LinesInv, ReturnedInv
<1>5. ASSUME NEW i \in lines
      PROVE  \E e \in ends : rank(e) = i /\ received[i].line = LineBefore(emitted, e)
  <2>1. LineOf(received[i], i, emitted, taken, AtEnd /\ reader = "exited")
    BY DEF LinesInv, ReturnedInv
  <2>2. PICK e \in 1..taken + 1, s \in 1..taken + 1 :
          /\ Cut(emitted, e, s) /\ received[i].line = LineFrom(emitted, e, s)
          /\ \/ e <= taken /\ emitted[e] = "nl" /\ Cardinality(NewlinesTo(emitted, e)) = i
             \/ /\ e = taken + 1 /\ AtEnd /\ reader = "exited"
                /\ Cardinality(NewlinesTo(emitted, taken)) + 1 = i
    BY <2>1 DEF LineOf
  <2>3. e \in 1..Len(emitted) + 1 /\ s \in Nat
    BY <1>1
  <2>4. LineFrom(emitted, e, s) = LineBefore(emitted, e)
    BY <1>1, <2>2, <2>3, LineOfCut
  <2>5. CASE e <= taken /\ emitted[e] = "nl" /\ Cardinality(NewlinesTo(emitted, e)) = i
    <3>1. e \in 1..Len(emitted)
      BY <1>1, <2>5
    <3>2. e \in ends /\ rank(e) = i
      BY <1>2, <2>5, <3>1
    <3> HIDE DEF ends, rank
    <3>3. QED
      BY <2>2, <2>4, <3>2
  <2>6. CASE /\ e = taken + 1 /\ AtEnd /\ reader = "exited"
             /\ Cardinality(NewlinesTo(emitted, taken)) + 1 = i
    <3>1. closed /\ e = Len(emitted) + 1
      BY <2>6 DEF AtEnd
    <3>2. e \in ends /\ rank(e) = i
      BY <1>3, <2>6, <3>1
    <3> HIDE DEF ends, rank
    <3>3. QED
      BY <2>2, <2>4, <3>2
  <2>7. QED
    BY <2>2, <2>5, <2>6
<1>6. ASSUME ended, ~failed, ~outStopped, Cardinality(lines) = Len(received), NEW e \in ends,
             LineBefore(emitted, e) # <<>> \/ e <= Len(emitted)
      PROVE  rank(e) <= Len(received)
  <2>1. \A k \in 1..Len(received) : received[k].ok
    <3>1. IsFiniteSet(1..Len(received)) /\ Cardinality(1..Len(received)) = Len(received)
      <4>1. PICK n \in Nat : n = Len(received)
        BY <1>1
      <4>2. IsFiniteSet(1..n) /\ Cardinality(1..n) = IF 1 > n THEN 0 ELSE n - 1 + 1
        BY FS_Interval
      <4>3. Cardinality(1..n) = n
        BY <4>2
      <4>4. QED
        BY <4>1, <4>2, <4>3
    <3>2. lines \in SUBSET (1..Len(received))
      OBVIOUS
    <3>3. lines = 1..Len(received)
      BY <1>6, <3>1, <3>2, FS_Subset
    <3>4. QED
      BY <3>3
  <2>2. reader = "exited" /\ Stream = received
    <3>1. reader = "exited" /\ queue = <<>> /\ pc # "recheck"
      BY <1>6 DEF LinesInv, EndInv
    <3>2. Stream = (received \o <<>>) \o (<<>> \o <<>>)
      BY <3>1 DEF Stream, InHand, AtSink
    <3>3. QED
      BY <1>0, <3>1, <3>2 DEF LineTypes
  <2>3. Complete(received, emitted, taken, AtEnd)
    BY <1>6, <2>2 DEF LinesInv, EndInv, Reading
  <2>4. /\ AtEnd
        /\ \/ Len(received) = Cardinality(NewlinesTo(emitted, taken)) + 1
           \/ /\ Len(received) = Cardinality(NewlinesTo(emitted, taken))
              /\ taken = 0 \/ emitted[taken] = "nl"
    BY <2>1, <2>3 DEF Complete
  <2>5. Cardinality(NewlinesTo(emitted, taken)) \in Nat
    BY <1>1, CountNewlines
  <2>6. CASE e \in 1..Len(emitted) /\ emitted[e] = "nl"
    <3>1. rank(e) = Cardinality(NewlinesTo(emitted, e)) /\ e \in Nat /\ e <= taken
      BY <1>2, <2>4, <2>6 DEF AtEnd
    <3>2. Cardinality(NewlinesTo(emitted, e)) <= Cardinality(NewlinesTo(emitted, taken))
      BY <1>1, <3>1, CountGrows
    <3>3. Cardinality(NewlinesTo(emitted, e)) \in Nat
      BY <3>1, CountNewlines
    <3> HIDE DEF rank
    <3>4. QED
      BY <2>4, <2>5, <3>1, <3>2, <3>3
  <2>7. CASE e = Len(emitted) + 1
    <3>1. rank(e) = Cardinality(NewlinesTo(emitted, taken)) + 1
      BY <1>3, <2>2, <2>4, <2>7 DEF AtEnd
    <3>2. ASSUME taken = 0 \/ emitted[taken] = "nl" PROVE FALSE
      <4>1. Cut(emitted, e, e) /\ e \in 1..Len(emitted) + 1 /\ e \in Nat
        BY <1>1, <2>4, <2>7, <3>2 DEF AtEnd, Cut
      <4>2. LineBefore(emitted, e) = LineFrom(emitted, e, e)
        BY <1>1, <4>1, LineOfCut
      <4>3. SubSeq(emitted, e, e - 1) = <<>>
        BY <4>1, SubSeqEmpty
      <4>4. LineFrom(emitted, e, e) = <<>>
        BY <4>3, Zenon DEF LineFrom
      <4>5. ~(e <= Len(emitted))
        BY <1>1, <2>7
      <4>6. LineBefore(emitted, e) = <<>>
        BY <4>2, <4>4
      <4>7. QED
        BY <1>6, <4>5, <4>6, Zenon
    <3> HIDE DEF rank
    <3>3. QED
      BY <1>1, <2>4, <2>5, <3>1, <3>2
  <2>8. QED
    BY <2>6, <2>7 DEF LineEnds, NewlineAt
<1>7. QED
  BY <1>4, <1>5, <1>6 DEF LinesInOrder

\* Nobody comes back to write to stdout.
LEMMA EndStays ==
  ASSUME ~Alive => ~Alive', UNCHANGED <<emitted, taken>>, AtEnd
  PROVE  AtEnd'
  BY DEF AtEnd

\* What was returned stays in order, whatever is read after it.
LEMMA ReturnedStays ==
  ASSUME LineTypes, LineTypes', ReturnedInv, received' = received, emitted' = emitted,
         taken' \in {taken, taken + 1},
         AtEnd /\ reader = "exited" => AtEnd' /\ reader' = "exited" /\ taken' = taken
  PROVE  ReturnedInv'
<1> SUFFICES ASSUME NEW k \in 1..Len(received)
             PROVE  /\ ~received[k].ok => k = Len(received)
                    /\ received[k].ok =>
                         LineOf(received[k], k, emitted, taken', AtEnd' /\ reader' = "exited")
  BY DEF ReturnedInv
<1>1. ~received[k].ok => k = Len(received)
  BY DEF ReturnedInv
<1>2. ASSUME received[k].ok
      PROVE  LineOf(received[k], k, emitted, taken', AtEnd' /\ reader' = "exited")
  <2>1. LineOf(received[k], k, emitted, taken, AtEnd /\ reader = "exited")
    BY <1>2 DEF ReturnedInv
  <2>2. PICK t \in Nat, u \in Nat : t = taken /\ u = taken' /\ t <= u
    BY DEF LineTypes
  <2>3. PICK f \in BOOLEAN, g \in BOOLEAN : /\ f = (AtEnd /\ reader = "exited")
                                            /\ g = (AtEnd' /\ reader' = "exited")
    OBVIOUS
  <2>4. LineOf(received[k], k, emitted, t, f) /\ (f => g /\ u = t)
    BY <2>1, <2>2, <2>3, Zenon
  <2>5. LineOf(received[k], k, emitted, u, g)
    BY <2>2, <2>4, LineKept
  <2>6. QED
    BY <2>2, <2>3, <2>5, Zenon
<1>3. QED
  BY <1>1, <1>2

\* After an overflow only what was returned counts.
LEMMA FailedLines ==
  ASSUME LineTypes, LineTypes', LinesInv, failed', reader' = "exited",
         UNCHANGED <<received, emitted, taken>>, ~Alive => ~Alive'
  PROVE  LinesInv'
<1>1. ReturnedInv'
  BY EndStays, ReturnedStays DEF LinesInv
<1>2. ~Reading'
  BY DEF Reading
<1>3. DecoderInv' /\ EndInv'
  BY <1>2 DEF DecoderInv, EndInv
<1>4. QED
  BY <1>1, <1>3 DEF LinesInv

\* A value that moves from one stage to the next.
LEMMA MovedLines ==
  ASSUME LineTypes, LineTypes', LinesInv, ~failed, ~failed', Stream' = Stream,
         UNCHANGED <<emitted, taken, partial>>, ~Alive => ~Alive', Reading' = Reading,
         outStopped => outStopped',
         ended' => reader' = "exited" /\ queue' = <<>> /\ pc' # "recheck"
  PROVE  LinesInv'
<1>1. StreamLines(Stream, emitted, taken, Reading, AtEnd)
  BY DEF LinesInv
<1>2. PICK strm \in Seq(Value), t \in Nat, on \in BOOLEAN, f \in BOOLEAN, g \in BOOLEAN :
        /\ strm = Stream /\ t = taken /\ on = Reading /\ f = AtEnd /\ g = AtEnd'
  <2>1. Stream \in Seq(Value) /\ taken \in Nat
    BY StreamShape DEF LineTypes
  <2>2. Reading \in BOOLEAN /\ AtEnd \in BOOLEAN /\ AtEnd' \in BOOLEAN
    BY DEF Reading, AtEnd
  <2>3. QED
    BY <2>1, <2>2, Zenon
<1>3. f => g
  BY <1>2, EndStays
<1>4. StreamLines(strm, emitted, t, on, g)
  <2>1. StreamLines(strm, emitted, t, on, f) /\ t \in {t, t + 1}
    BY <1>1, <1>2, Zenon
  <2>2. QED
    BY <1>3, <2>1, StreamKept, ZenonT(60)
<1>5. StreamLines(Stream, emitted, taken, Reading, AtEnd)'
  BY <1>2, <1>4
<1>6. ReturnedInv'
  BY <1>5, ReturnedFromStream, PTL
<1>7. DecoderInv'
  BY DEF LinesInv, DecoderInv
<1>8. EndInv'
  <2>1. Complete(Stream, emitted, taken, AtEnd) => Complete(Stream, emitted, taken, AtEnd)'
    BY <1>2, <1>3 DEF Complete
  <2>2. QED
    BY <2>1 DEF LinesInv, EndInv
<1>9. QED
  BY <1>5, <1>6, <1>7, <1>8 DEF LinesInv

\* Steps of the input and of the child.
LEMMA LinesFrame ==
  ASSUME LineTypes, LineTypes', LinesInv, UNCHANGED output, ~Alive => ~Alive',
         (pc' = "recheck") = (pc = "recheck")
  PROVE  LinesInv'
<1>1. CASE failed
  <2>1. reader = "exited" /\ failed' /\ reader' = "exited"
    BY <1>1 DEF LinesInv, EndInv, output
  <2>2. QED
    BY <2>1, FailedLines DEF output
<1>2. CASE ~failed
  <2>1. Stream' = Stream /\ Reading' = Reading
    BY DEF Stream, InHand, AtSink, Reading, output
  <2>2. ended' => reader' = "exited" /\ queue' = <<>> /\ pc' # "recheck"
    BY <1>2 DEF LinesInv, EndInv, output
  <2>3. ~failed' /\ UNCHANGED <<emitted, taken, partial, outStopped>>
    BY <1>2 DEF output
  <2>4. QED
    BY <1>2, <2>1, <2>2, <2>3, MovedLines
<1>3. QED
  BY <1>1, <1>2

\* The sink is called with v while the decoder reads: v joins the stream.
LEMMA SinkLines ==
  ASSUME LineTypes, LineTypes', LinesInv, NEW v \in Value, NEW final \in BOOLEAN,
         reader = "read", Sink(v, final), ~Alive => ~Alive',
         UNCHANGED <<pc, hand, received, emitted, outStopped, ended, queue, failed>>,
         taken' \in {taken, taken + 1},
         v.ok => LineOf(v, Len(Stream) + 1, emitted, taken', AtEnd' /\ final),
         v.ok /\ final => AtEnd' /\ taken' = taken,
         v.ok /\ ~final =>
            /\ Len(Stream) + 1 = Cardinality(NewlinesTo(emitted, taken'))
            /\ \E s \in 1..taken' + 1 :
                  Cut(emitted, taken' + 1, s) /\ partial' = SubSeq(emitted, s, taken')
  PROVE  LinesInv'
<1>1. ~failed /\ ~ended /\ Reading
  BY DEF LinesInv, EndInv, Reading
<1>2. ~failed' /\ ~ended' /\ reader' = "reserve" /\ item' = v /\ Reading' = (~final /\ v.ok)
  BY <1>1 DEF Sink, Reading, LineTypes
<1>3. Stream' = Append(Stream, v)
  <2>1. Stream' = (received \o InHand) \o (queue \o <<v>>)
    BY <1>2 DEF Stream, InHand, AtSink
  <2>2. Stream = (received \o InHand) \o (queue \o <<>>)
    BY DEF Stream, AtSink
  <2>3. received \o InHand \in Seq(Value) /\ queue \in Seq(Value)
    BY StreamShape DEF LineTypes
  <2>4. QED
    BY <2>1, <2>2, <2>3, StreamMoves
<1>4. PICK strm \in Seq(Value), t \in Nat, u \in Nat, f \in BOOLEAN, g \in BOOLEAN,
           on \in BOOLEAN :
        /\ u \in {t, t + 1} /\ strm = Stream /\ t = taken /\ u = taken' /\ f = AtEnd /\ g = AtEnd'
        /\ on = (~final /\ v.ok)
  <2>1. Stream \in Seq(Value) /\ taken \in Nat /\ taken' \in Nat
    BY StreamShape DEF LineTypes
  <2>2. (~final /\ v.ok) \in BOOLEAN /\ AtEnd \in BOOLEAN /\ AtEnd' \in BOOLEAN
    BY DEF AtEnd
  <2>3. QED
    BY <2>1, <2>2, Zenon
<1>5. StreamLines(strm, emitted, t, TRUE, f)
  BY <1>1, <1>4 DEF LinesInv
<1>6. v.ok => LineOf(v, Len(strm) + 1, emitted, u, g /\ ~on)
  <2>1. v.ok => (g /\ ~on) = (AtEnd' /\ final)
    BY <1>4
  <2>2. QED
    BY <1>4, <2>1, Zenon
<1>7. StreamLines(Append(strm, v), emitted, u, on, g)
  <2>1. u \in {t, t + 1} /\ (~v.ok => ~on)
    BY <1>4
  <2>2. QED
    BY <1>5, <1>6, <2>1, StreamGrows, ZenonT(60)
<1>8. StreamLines(Stream, emitted, taken, Reading, AtEnd)'
  BY <1>2, <1>3, <1>4, <1>7
<1>9. ReturnedInv'
  BY <1>8, ReturnedFromStream, PTL
<1>10. Len(Stream') = Len(Stream) + 1 /\ Len(Stream) \in Nat /\ Stream'[Len(Stream) + 1] = v
  BY <1>3, <1>4
<1>11. DecoderInv'
  BY <1>2, <1>10 DEF DecoderInv
<1>12. EndInv'
  <2>1. ASSUME ~Reading' PROVE Complete(Stream, emitted, taken, AtEnd)'
    <3>1. CASE ~v.ok
      <4>1. Len(Stream) + 1 \in 1..Len(Stream') /\ ~Stream'[Len(Stream) + 1].ok
        BY <1>10, <3>1
      <4>2. \E k \in 1..Len(Stream') : ~Stream'[k].ok
        BY <4>1
      <4>3. QED
        BY <4>2 DEF Complete
    <3>2. CASE v.ok
      <4>1. AtEnd' /\ taken' = taken
        BY <1>2, <2>1, <3>2
      <4>2. Len(Stream) = Cardinality(NewlinesTo(emitted, taken))
        BY <1>1 DEF LinesInv, DecoderInv
      <4>3. Len(Stream') = Cardinality(NewlinesTo(emitted, taken)) + 1
        BY <1>10, <4>2
      <4>4. QED
        BY <4>1, <4>3 DEF Complete
    <3>3. QED
      BY <3>1, <3>2
  <2>2. QED
    BY <1>2, <2>1 DEF EndInv
<1>13. QED
  BY <1>8, <1>9, <1>11, <1>12 DEF LinesInv

\* The reader stops, or takes a byte that ends no line: no value is added.
LEMMA QuietLines ==
  ASSUME LineTypes, LineTypes', LinesInv, reader = "read", reader' \in {"read", "exited"},
         ~Alive => ~Alive',
         UNCHANGED <<pc, hand, received, emitted, outStopped, ended, queue, failed>>,
         taken' \in {taken, taken + 1},
         reader' = "read" =>
            /\ Len(Stream) = Cardinality(NewlinesTo(emitted, taken'))
            /\ \E s \in 1..taken' + 1 :
                  Cut(emitted, taken' + 1, s) /\ partial' = SubSeq(emitted, s, taken'),
         reader' = "exited" =>
            \/ outStopped
            \/ AtEnd' /\ taken' = taken /\ (taken = 0 \/ emitted[taken] = "nl")
  PROVE  LinesInv'
<1>1. ~failed /\ ~ended /\ Reading
  BY DEF LinesInv, EndInv, Reading
<1>2. ~failed' /\ ~ended' /\ Reading' = (reader' = "read") /\ Stream' = Stream
  BY <1>1 DEF Stream, InHand, AtSink, Reading
<1>3. PICK strm \in Seq(Value), t \in Nat, u \in Nat, f \in BOOLEAN, g \in BOOLEAN,
           on \in BOOLEAN :
        /\ u \in {t, t + 1} /\ strm = Stream /\ t = taken /\ u = taken' /\ f = AtEnd /\ g = AtEnd'
        /\ on = (reader' = "read")
  <2>1. Stream \in Seq(Value) /\ taken \in Nat /\ taken' \in Nat
    BY StreamShape DEF LineTypes
  <2>2. (reader' = "read") \in BOOLEAN /\ AtEnd \in BOOLEAN /\ AtEnd' \in BOOLEAN
    BY DEF AtEnd
  <2>3. QED
    BY <2>1, <2>2, Zenon
<1>4. StreamLines(strm, emitted, t, TRUE, f)
  BY <1>1, <1>3 DEF LinesInv
<1>5. StreamLines(strm, emitted, u, on, g)
  <2>1. u \in {t, t + 1} /\ (on => TRUE) /\ (f /\ ~TRUE => g /\ u = t) /\ TRUE \in BOOLEAN
    BY <1>3
  <2>2. QED
    BY <1>4, <2>1, StreamKept, ZenonT(60)
<1>6. StreamLines(Stream, emitted, taken, Reading, AtEnd)'
  BY <1>2, <1>3, <1>5
<1>7. ReturnedInv'
  BY <1>6, ReturnedFromStream, PTL
<1>8. DecoderInv'
  BY <1>2 DEF DecoderInv
<1>9. EndInv'
  <2>1. Len(Stream) = Cardinality(NewlinesTo(emitted, taken))
    BY <1>1 DEF LinesInv, DecoderInv
  <2>2. ~Reading' /\ ~outStopped' => Complete(Stream, emitted, taken, AtEnd)'
    BY <1>2, <2>1 DEF Complete
  <2>3. QED
    BY <1>2, <2>2 DEF EndInv
<1>10. QED
  BY <1>6, <1>7, <1>8, <1>9 DEF LinesInv

\* The steps of the reader thread.
LEMMA ReaderLines ==
  ASSUME LineTypes, LineTypes', LinesInv, Reader PROVE LinesInv'
<1>1. /\ UNCHANGED <<pc, hand, received, emitted, outStopped, ended>>
      /\ Alive' = Alive
  BY ReaderFrame DEF call, child, Alive
<1>2. Failure \in Value /\ ~Failure.ok
  BY DEF Failure, Value
<1>3. reader = "read" => /\ ~failed
                         /\ Len(Stream) = Cardinality(NewlinesTo(emitted, taken))
                         /\ \E s \in 1..taken + 1 : /\ Cut(emitted, taken + 1, s)
                                                    /\ partial = SubSeq(emitted, s, taken)
  BY DEF LinesInv, DecoderInv, EndInv, Reading
<1>4. CASE ReaderStop
  BY <1>1, <1>4, QuietLines DEF ReaderStop
<1>5. CASE ReaderPush
  <2>1. PICK t \in Nat, b \in Bytes :
          /\ t = taken /\ t + 1 = taken' /\ t + 1 <= Len(emitted) /\ b = emitted[t + 1]
    BY <1>5 DEF ReaderPush, LineTypes
  <2>2. PICK s \in 1..t + 1 : Cut(emitted, t + 1, s) /\ partial = SubSeq(emitted, s, t)
    BY <1>3, <1>5, <2>1 DEF ReaderPush
  <2>3. /\ Cardinality(NewlinesTo(emitted, t)) \in Nat
        /\ Cardinality(NewlinesTo(emitted, t + 1)) =
             Cardinality(NewlinesTo(emitted, t)) + (IF b = "nl" THEN 1 ELSE 0)
    BY <2>1, CountNewlines
  <2>4. CASE b = "nl"
    <3>1. partial' = <<>> /\ Sink(Emit(partial, TRUE), FALSE) /\ reader = "read"
      BY <1>5, <2>1, <2>4 DEF ReaderPush
    <3>2. PICK v \in Value : v = Emit(partial, TRUE)
      BY EmitType DEF LineTypes
    <3>3. t \in 0..Len(emitted) /\ emitted \in Seq(Bytes)
      BY <2>1 DEF LineTypes
    <3>4. v.ok => v.line = LineFrom(emitted, t + 1, s)
      BY <2>1, <2>2, <3>2, <3>3, EmitIsLine
    <3>5. Len(Stream) + 1 = Cardinality(NewlinesTo(emitted, t + 1))
      BY <1>3, <2>1, <2>3, <2>4, <3>1
    <3>6. v.ok => LineOf(v, Len(Stream) + 1, emitted, taken', AtEnd' /\ FALSE)
      <4>1. t + 1 \in 1..taken' + 1 /\ s \in 1..taken' + 1 /\ t + 1 <= taken'
        BY <2>1
      <4>2. QED
        BY <2>1, <2>2, <2>4, <3>4, <3>5, <4>1 DEF LineOf
    <3>7. \E z \in 1..taken' + 1 :
            Cut(emitted, taken' + 1, z) /\ partial' = SubSeq(emitted, z, taken')
      <4>1. t + 2 \in 1..taken' + 1 /\ Cut(emitted, taken' + 1, t + 2)
        <5>1. t + 2 \in 1..t + 2 /\ (t + 2) - 1 = t + 1 /\ taken' + 1 = t + 2
          BY <2>1
        <5>2. emitted[(t + 2) - 1] = "nl"
          <6>1. emitted[t + 1] = "nl"
            BY <2>1, <2>4, Zenon
          <6>2. QED
            BY <5>1, <6>1, Zenon
        <5>3. \A j \in t + 2..(t + 2) - 1 : FALSE
          OBVIOUS
        <5>4. Cut(emitted, t + 2, t + 2)
          BY <5>1, <5>2, <5>3, Zenon DEF Cut
        <5>5. QED
          BY <5>1, <5>4
      <4>2. SubSeq(emitted, t + 2, taken') = <<>>
        BY <2>1, SubSeqEmpty
      <4>3. QED
        BY <3>1, <4>1, <4>2
    <3>8. UNCHANGED <<queue, failed>> /\ taken' \in {taken, taken + 1}
      BY <1>5 DEF ReaderPush
    <3>9. QED
      BY <1>1, <2>1, <3>1, <3>2, <3>5, <3>6, <3>7, <3>8, SinkLines
  <2>5. CASE b # "nl"
    <3>1. /\ partial' = Append(partial, b) /\ reader = "read"
          /\ IF Len(partial) + 1 > MaxLineBytes THEN Sink(Failure, FALSE)
             ELSE UNCHANGED <<item, last, reader>>
      BY <1>5, <2>1, <2>5 DEF ReaderPush
    <3>2. UNCHANGED <<queue, failed>> /\ taken' \in {taken, taken + 1}
      BY <1>5 DEF ReaderPush
    <3>3. CASE Len(partial) + 1 > MaxLineBytes
      BY <1>1, <1>2, <3>1, <3>2, <3>3, SinkLines
    <3>4. CASE ~(Len(partial) + 1 > MaxLineBytes)
      <4>1. Len(Stream) = Cardinality(NewlinesTo(emitted, taken'))
        BY <1>3, <2>1, <2>3, <2>5, <3>1
      <4>2. s \in 1..taken' + 1 /\ Cut(emitted, taken' + 1, s)
        BY <2>1, <2>2, <2>5 DEF Cut
      <4>3. partial' = SubSeq(emitted, s, taken')
        <5>1. SubSeq(emitted, s, t + 1) = SubSeq(emitted, s, t) \o <<b>>
          <6>1. s \in 1..Len(emitted) /\ t + 1 \in s..Len(emitted) /\ (t + 1) - 1 = t
            BY <2>1 DEF LineTypes
          <6>2. QED
            BY <2>1, <6>1, SubSeqRecursiveSecond DEF LineTypes
        <5>2. Append(partial, b) = partial \o <<b>>
          BY DEF LineTypes
        <5>3. QED
          BY <2>1, <2>2, <3>1, <5>1, <5>2
      <4>4. \E z \in 1..taken' + 1 :
              Cut(emitted, taken' + 1, z) /\ partial' = SubSeq(emitted, z, taken')
        BY <4>2, <4>3
      <4>5. reader' = "read"
        BY <3>1, <3>4
      <4>6. QED
        BY <1>1, <3>1, <3>2, <4>1, <4>4, <4>5, QuietLines
    <3>5. QED
      BY <3>3, <3>4
  <2>6. QED
    BY <2>4, <2>5
<1>6. CASE ReaderFinish
  <2>1. /\ reader = "read" /\ taken = Len(emitted) /\ ~Alive /\ taken' = taken /\ AtEnd'
        /\ UNCHANGED <<queue, failed>>
    BY <1>1, <1>6 DEF ReaderFinish, AtEnd
  <2>2. PICK s \in 1..taken + 1 : Cut(emitted, taken + 1, s) /\ partial = SubSeq(emitted, s, taken)
    BY <1>3, <2>1
  <2>3. CASE partial = <<>>
    <3>1. reader' = "exited"
      BY <1>6, <2>3 DEF ReaderFinish
    <3>2. taken = 0 \/ emitted[taken] = "nl"
      <4>1. s = taken + 1
        <5>1. s \in Int /\ taken \in Int /\ \A i \in s..taken : emitted[i] \in Bytes
          BY <2>1 DEF LineTypes
        <5>2. Len(partial) = IF s <= taken THEN taken - s + 1 ELSE 0
          BY <2>2, <5>1, SubSeqProperties
        <5>3. Len(partial) = 0
          BY <2>3
        <5>4. QED
          BY <5>1, <5>2, <5>3
      <4>2. QED
        BY <2>2, <4>1 DEF Cut, LineTypes
    <3>3. QED
      BY <1>1, <2>1, <3>1, <3>2, QuietLines
  <2>4. CASE partial # <<>>
    <3>1. Sink(Emit(partial, FALSE), TRUE)
      BY <1>6, <2>4 DEF ReaderFinish
    <3>2. PICK v \in Value : v = Emit(partial, FALSE)
      BY EmitType DEF LineTypes
    <3>3. PICK t \in Nat : t = taken /\ t \in 0..Len(emitted) /\ t = Len(emitted)
      BY <2>1 DEF LineTypes
    <3>4. v.ok => v.line = LineFrom(emitted, t + 1, s)
      <4>1. /\ emitted \in Seq(Bytes) /\ s \in 1..t + 1 /\ FALSE \in BOOLEAN
            /\ (FALSE <=> t + 1 <= Len(emitted)) /\ v = Emit(SubSeq(emitted, s, t), FALSE)
        BY <2>2, <3>2, <3>3 DEF LineTypes
      <4>2. QED
        BY <3>3, <4>1, EmitIsLine, Zenon
    <3>5. Cardinality(NewlinesTo(emitted, t)) + 1 = Len(Stream) + 1
      BY <1>3, <2>1, <3>3
    <3>6. v.ok => LineOf(v, Len(Stream) + 1, emitted, taken', AtEnd' /\ TRUE)
      <4>1. t + 1 \in 1..taken' + 1 /\ s \in 1..taken' + 1
        BY <2>1, <3>3
      <4>2. QED
        BY <2>1, <2>2, <3>3, <3>4, <3>5, <4>1 DEF LineOf
    <3>7. QED
      BY <1>1, <2>1, <3>1, <3>2, <3>6, SinkLines
  <2>5. QED
    BY <2>3, <2>4
<1>7. CASE ReaderError
  <2>1. /\ reader = "read" /\ Sink(Failure, TRUE) /\ taken' = taken
        /\ UNCHANGED <<queue, failed>>
    BY <1>7 DEF ReaderError
  <2>2. QED
    BY <1>1, <1>2, <2>1, SinkLines
<1>8. CASE Reserve
  <2>1. reader = "reserve" /\ UNCHANGED <<taken, partial, item, last, queue>>
    BY <1>8 DEF Reserve
  <2>2. ~failed
    BY <2>1 DEF LinesInv, EndInv
  <2>3. CASE failed'
    BY <1>1, <1>8, <2>1, <2>2, <2>3, FailedLines DEF Reserve
  <2>4. CASE ~failed'
    <3>1. reader' = "enqueue"
      BY <1>8, <2>4 DEF Reserve
    <3>2. Stream' = Stream /\ Reading' = Reading /\ ~ended'
      BY <1>1, <2>1, <2>2, <3>1 DEF Stream, InHand, AtSink, Reading, LinesInv, EndInv
    <3>3. QED
      BY <1>1, <2>1, <2>2, <2>4, <3>2, MovedLines
  <2>5. QED
    BY <2>3, <2>4
<1>9. CASE Enqueue
  <2>1. reader = "enqueue" /\ UNCHANGED <<taken, partial, item, last>>
    BY <1>9 DEF Enqueue
  <2>2. ~failed /\ ~ended
    BY <2>1 DEF LinesInv, EndInv
  <2>3. CASE failed'
    BY <1>1, <1>9, <2>1, <2>2, <2>3, FailedLines DEF Enqueue
  <2>4. CASE ~failed'
    <3>1. queue' = Append(queue, item) /\ reader' = IF last THEN "exited" ELSE "read"
      BY <1>9, <2>4 DEF Enqueue
    <3>2. Stream' = Stream
      <4>1. Stream = (received \o InHand) \o (queue \o <<item>>)
        BY <2>1 DEF Stream, AtSink
      <4>2. Stream' = (received \o InHand) \o (Append(queue, item) \o <<>>)
        BY <1>1, <3>1 DEF Stream, InHand, AtSink
      <4>3. queue \in Seq(Value) /\ item \in Value
        BY DEF LineTypes
      <4>4. queue \o <<item>> = Append(queue, item) \o <<>>
        BY <4>3, StreamMoves
      <4>5. QED
        BY <4>1, <4>2, <4>4
    <3>3. Reading' = Reading
      BY <2>1, <3>1 DEF Reading, LineTypes
    <3>4. QED
      BY <1>1, <2>1, <2>2, <2>4, <3>2, <3>3, MovedLines
  <2>5. QED
    BY <2>3, <2>4
<1>10. QED
  BY <1>4, <1>5, <1>6, <1>7, <1>8, <1>9 DEF Reader

\* recv_timeout and close of the reader move values on, and lose none unless the
\* stream has failed.
LEMMA OutputLines ==
  ASSUME LineTypes, LineTypes', LinesInv, OutputCall PROVE LinesInv'
<1>1. UNCHANGED <<emitted, taken, partial, reader, item, last, failed>> /\ Alive' = Alive
  BY OutputCallFrame DEF child, Alive
<1>2. Reading' = Reading /\ AtSink' = AtSink
  BY <1>1 DEF Reading, AtSink
<1>3. CASE failed
  <2>1. received' = received
    BY <1>3 DEF OutputCall, Recv, RecvTake, RecvRecheck, CloseReader, JoinReader, output
  <2>2. reader' = "exited" /\ failed'
    BY <1>1, <1>3 DEF LinesInv, EndInv
  <2>3. QED
    BY <1>1, <2>1, <2>2, FailedLines
<1>4. CASE ~failed
  <2>1. ended => reader = "exited" /\ queue = <<>> /\ pc # "recheck"
    BY <1>4 DEF LinesInv, EndInv
  <2>2. CASE Recv \/ CloseReader \/ JoinReader
    <3>1. /\ UNCHANGED <<queue, hand, received, ended>> /\ (outStopped => outStopped')
          /\ pc # "recheck" /\ pc' # "recheck"
      BY <1>4, <2>2 DEF Recv, CloseReader, JoinReader, output
    <3>2. Stream' = Stream
      BY <1>2, <3>1 DEF Stream, InHand
    <3>3. QED
      BY <1>1, <1>2, <1>4, <2>1, <3>1, <3>2, MovedLines
  <2>3. CASE RecvTake /\ queue # <<>>
    <3>1. /\ hand' = Head(queue) /\ queue' = Tail(queue) /\ pc = "recv" /\ pc' = "recheck"
          /\ UNCHANGED <<received, ended, outStopped>>
      BY <2>3 DEF RecvTake
    <3>2. Stream = (received \o <<>>) \o (queue \o AtSink)
      BY <3>1 DEF Stream, InHand
    <3>3. Stream' = (received \o <<Head(queue)>>) \o (Tail(queue) \o AtSink)
      BY <1>2, <3>1 DEF Stream, InHand
    <3>4. received \in Seq(Value) /\ queue \in Seq(Value) /\ AtSink \in Seq(Value) /\ hand \in Value
      BY StreamShape DEF LineTypes
    <3>5. (received \o <<>>) \o (queue \o AtSink)
            = (received \o <<Head(queue)>>) \o (Tail(queue) \o AtSink)
      BY <2>3, <3>4, StreamMoves
    <3>6. ~ended' /\ Stream' = Stream
      BY <2>1, <2>3, <3>1, <3>2, <3>3, <3>5
    <3>7. QED
      BY <1>1, <1>2, <1>4, <3>1, <3>6, MovedLines
  <2>4. CASE RecvTake /\ queue = <<>>
    <3>1. /\ UNCHANGED <<queue, hand, received, outStopped>> /\ pc = "recv" /\ pc' = "idle"
          /\ (ended' => ended \/ reader = "exited")
      BY <2>4 DEF RecvTake
    <3>2. Stream' = Stream
      BY <1>2, <3>1 DEF Stream, InHand
    <3>3. QED
      BY <1>1, <1>2, <1>4, <2>1, <2>4, <3>1, <3>2, MovedLines
  <2>5. CASE RecvRecheck
    <3>1. /\ pc = "recheck" /\ pc' = "idle" /\ received' = Append(received, hand)
          /\ UNCHANGED <<queue, ended, outStopped>>
      BY <1>4, <2>5 DEF RecvRecheck
    <3>2. Stream = (received \o <<hand>>) \o (queue \o AtSink)
      BY <3>1 DEF Stream, InHand
    <3>3. Stream' = (Append(received, hand) \o <<>>) \o (queue \o AtSink)
      BY <1>2, <3>1 DEF Stream, InHand
    <3>4. received \in Seq(Value) /\ queue \in Seq(Value) /\ AtSink \in Seq(Value) /\ hand \in Value
      BY StreamShape DEF LineTypes
    <3>5. (received \o <<hand>>) \o (queue \o AtSink)
            = (Append(received, hand) \o <<>>) \o (queue \o AtSink)
      BY <3>4, StreamMoves
    <3>6. Stream' = Stream /\ ~ended'
      BY <2>1, <3>1, <3>2, <3>3, <3>5
    <3>7. QED
      BY <1>1, <1>2, <1>4, <3>1, <3>6, MovedLines
  <2>6. QED
    BY <2>2, <2>3, <2>4, <2>5 DEF OutputCall
<1>5. QED
  BY <1>3, <1>4

\* What the child writes is behind everything that was read.
LEMMA WrittenLines ==
  ASSUME LineTypes, LineTypes', LinesInv, ChildWrite PROVE LinesInv'
<1>1. /\ UNCHANGED <<pc, taken, partial, reader, item, last, outStopped, queue, failed, hand,
                     received, ended>>
      /\ Alive /\ Alive' = Alive
  BY EnvironmentFrame DEF call, child, Alive, ChildWrite
<1>2. ~AtEnd /\ ~AtEnd'
  BY <1>1 DEF AtEnd
<1>3. PICK b \in Bytes : emitted' = Append(emitted, b)
  BY DEF ChildWrite
<1>4. PICK bytes \in Seq(Bytes), t \in 0..Len(emitted) : bytes = emitted /\ t = taken
  BY DEF LineTypes
<1>5. /\ Len(bytes) \in Nat /\ t \in 0..Len(bytes) /\ Len(Append(bytes, b)) = Len(bytes) + 1
      /\ \A i \in 1..Len(bytes) : Append(bytes, b)[i] = bytes[i]
  BY <1>4
<1>6. Stream' = Stream /\ Reading' = Reading
  BY <1>1 DEF Stream, InHand, AtSink, Reading
<1>7. NewlinesTo(emitted', taken') = NewlinesTo(emitted, taken)
  <2>1. NewlinesTo(Append(bytes, b), t) = NewlinesTo(bytes, t)
    BY <1>5 DEF NewlinesTo
  <2>2. QED
    BY <1>1, <1>3, <1>4, <2>1
<1>8. ASSUME NEW v, NEW k, NEW f, LineOf(v, k, emitted, taken, AtEnd /\ f), NEW g
      PROVE  LineOf(v, k, emitted', taken', AtEnd' /\ g)
  <2>1. (AtEnd /\ f) = FALSE /\ (AtEnd' /\ g) = FALSE
    BY <1>2
  <2>2. LineOf(v, k, bytes, t, FALSE)
    BY <1>4, <1>8, <2>1, Zenon
  <2>3. LineOf(v, k, Append(bytes, b), t, FALSE)
    BY <1>5, <2>2, LineStays
  <2>4. QED
    BY <1>1, <1>3, <1>4, <2>1, <2>3, Zenon
<1>9. ReturnedInv'
  BY <1>1, <1>8 DEF LinesInv, ReturnedInv
<1>10. ~failed' => StreamLines(Stream, emitted, taken, Reading, AtEnd)'
  <2> SUFFICES ASSUME ~failed, NEW k \in 1..Len(Stream)
               PROVE  /\ ~Stream[k].ok => k = Len(Stream) /\ ~Reading
                      /\ Stream[k].ok => LineOf(Stream[k], k, emitted', taken',
                                                AtEnd' /\ (~Reading /\ k = Len(Stream)))
    BY <1>1, <1>6 DEF StreamLines
  <2>1. /\ ~Stream[k].ok => k = Len(Stream) /\ ~Reading
        /\ Stream[k].ok => LineOf(Stream[k], k, emitted, taken,
                                  AtEnd /\ (~Reading /\ k = Len(Stream)))
    BY DEF LinesInv, StreamLines
  <2>2. QED
    BY <1>8, <2>1
<1>11. DecoderInv'
  <2>1. ASSUME Reading
        PROVE  \E s \in 1..taken + 1 : /\ Cut(emitted', taken' + 1, s)
                                       /\ partial' = SubSeq(emitted', s, taken')
    <3>1. PICK s \in 1..t + 1 : Cut(bytes, t + 1, s) /\ partial = SubSeq(bytes, s, t)
      BY <1>4, <2>1 DEF LinesInv, DecoderInv
    <3>2. Cut(Append(bytes, b), t + 1, s)
      BY <1>5, <3>1 DEF Cut
    <3>3. SubSeq(Append(bytes, b), s, t) = SubSeq(bytes, s, t)
      <4>1. s \in Nat \ {0} /\ t \in Nat /\ t <= Len(bytes)
        BY <1>5
      <4>2. QED
        BY <4>1, StretchStays
    <3>4. QED
      BY <1>1, <1>3, <1>4, <3>1, <3>2, <3>3
  <2>2. QED
    BY <1>1, <1>6, <1>7, <2>1 DEF LinesInv, DecoderInv
<1>12. EndInv'
  <2>1. Complete(Stream, emitted, taken, AtEnd) => Complete(Stream, emitted, taken, AtEnd)'
    BY <1>2, <1>6 DEF Complete
  <2>2. QED
    BY <1>1, <1>6, <2>1 DEF LinesInv, EndInv
<1>13. QED
  BY <1>9, <1>10, <1>11, <1>12 DEF LinesInv

\* Before the child has written there is nothing to be in order.
LEMMA InitLines == Init => LinesInv
<1> SUFFICES ASSUME Init PROVE LinesInv
  OBVIOUS
<1>1. /\ received = <<>> /\ queue = <<>> /\ pc = "idle" /\ reader = "read" /\ emitted = <<>>
      /\ taken = 0 /\ partial = <<>> /\ ~failed /\ ~ended
  BY DEF Init
<1>2. Stream = (<<>> \o <<>>) \o (<<>> \o <<>>)
  BY <1>1 DEF Stream, InHand, AtSink
<1>3. Stream = <<>> /\ Len(Stream) = 0 /\ Reading
  BY <1>1, <1>2 DEF Reading
<1>4. Cardinality(NewlinesTo(emitted, taken)) = 0
  BY <1>1, CountNewlines
<1>5. Cut(emitted, taken + 1, 1) /\ 1 \in 1..taken + 1 /\ SubSeq(emitted, 1, taken) = <<>>
  <2>1. SubSeq(emitted, 1, 0) = <<>>
    BY SubSeqEmpty
  <2>2. QED
    BY <1>1, <2>1 DEF Cut
<1>6. DecoderInv
  BY <1>1, <1>3, <1>4, <1>5 DEF DecoderInv
<1>7. EndInv
  BY <1>1, <1>3 DEF EndInv
<1>8. ReturnedInv /\ StreamLines(Stream, emitted, taken, Reading, AtEnd)
  BY <1>1, <1>3 DEF ReturnedInv, StreamLines
<1>9. QED
  BY <1>6, <1>7, <1>8 DEF LinesInv

LEMMA StepLines == PipesInv /\ PipesInv' /\ LinesInv /\ [Next]_vars => LinesInv'
<1> SUFFICES ASSUME PipesInv, PipesInv', LinesInv, [Next]_vars PROVE LinesInv'
  OBVIOUS
<1>1. LineTypes /\ LineTypes'
  BY LinesHaveTypes, PTL
<1>2. CASE InputCall \/ Worker \/ Cancel \/ Expire
  <2>1. UNCHANGED <<output, child>> /\ (pc' = "recheck") = (pc = "recheck")
    <3>1. CASE InputCall
      BY <3>1, InputCallFrame DEF InputPc
    <3>2. CASE Worker \/ Cancel \/ Expire
      BY <3>2, WorkerFrame, EnvironmentFrame DEF call
    <3>3. QED
      BY <1>2, <3>1, <3>2
  <2>2. Alive' = Alive
    BY <2>1 DEF child, Alive
  <2>3. QED
    BY <1>1, <2>1, <2>2, LinesFrame
<1>3. CASE ChildCall \/ ChildMoves
  <2>1. UNCHANGED output /\ (pc' = "recheck") = (pc = "recheck")
    BY <1>3, ChildCallFrame, EnvironmentFrame DEF call
  <2>2. ~Alive => ~Alive'
    BY <1>3 DEF ChildCall, ChildMoves, Shutdown, GraceLoop, KillGroup, ChildFork, ChildExit,
               ForeignReap, Alive
  <2>3. QED
    BY <1>1, <2>1, <2>2, LinesFrame
<1>4. CASE OutputCall
  BY <1>1, <1>4, OutputLines
<1>5. CASE Reader
  BY <1>1, <1>5, ReaderLines
<1>6. CASE ChildWrite
  BY <1>1, <1>6, WrittenLines
<1>7. CASE UNCHANGED vars
  <2>1. UNCHANGED output /\ pc' = pc /\ Alive' = Alive
    BY <1>7 DEF vars, call, child, Alive
  <2>2. QED
    BY <1>1, <2>1, LinesFrame
<1>8. QED
  BY <1>2, <1>3, <1>4, <1>5, <1>6, <1>7, NextParts

\* For every output of the child, every line limit and every budget of the queue,
\* recv_timeout returns the child's lines in order and without a gap, an Err(()) is
\* the last value, and a stream that ended by itself was returned to its last line
\* (process_output.rs: LineDecoder, read_stdout; process_queue.rs: send, recv_timeout).
THEOREM LinesStayInOrder == Spec => []LinesInOrder
<1>1. Spec => [](PipesInv /\ LinesInv)
  <2>1. Init => PipesInv /\ LinesInv
    BY InitPipes, InitLines
  <2>2. PipesInv /\ LinesInv /\ [Next]_vars => (PipesInv /\ LinesInv)'
    BY StepPipes, StepLines
  <2>3. QED
    BY <2>1, <2>2, PTL DEF Spec
<1>2. QED
  BY <1>1, LinesAreInOrder, PTL
=============================================================================
