---------------------------- MODULE ProcessPipes ----------------------------
(***************************************************************************)
(* The owned child process of an adapter and the two threads that serve    *)
(* its pipes (crates/bastet-core: process_input.rs, process_output.rs,     *)
(* process_queue.rs, process_child.rs, built for Unix).                    *)
(*                                                                         *)
(*   adapter thread  --zero-capacity channel-->  writer thread --> stdin   *)
(*   adapter thread  <--bounded output queue--   reader thread <-- stdout  *)
(*                                                                         *)
(* The adapter thread runs one call at a time: ProcessInputWriter's        *)
(* write_frame_cancellable and close, OutputReceiver's recv_timeout,       *)
(* ProcessOutputReader's close and OwnedAdapterChild's shutdown.  `pc'     *)
(* says where in a call it is; the loads and stores of the shared flags    *)
(* are steps of their own, so every interleaving of the three threads and  *)
(* the child is explored.  Deadlines are Booleans that the clock raises.   *)
(***************************************************************************)
EXTENDS Integers, Sequences, FiniteSets

CONSTANTS
    Loads,          \* bounds: [frames, bytes], the calls of write_frame and the
                    \* bytes the child writes to stdout, in one behaviour
    MaxFrames,      \* the largest of the former
    MaxFrameSize,   \* MAX_INPUT_FRAME_BYTES, in chunks the pipe may take apart
    MaxLineBytes,   \* MAX_LINE_BYTES
    QueueItems,     \* OUTPUT_QUEUE_ITEMS
    QueueBytes      \* OUTPUT_QUEUE_BYTES

ASSUME PipesAssumption ==
    /\ MaxFrames \in Nat \ {0} /\ MaxFrameSize \in Nat \ {0}
    /\ Loads \subseteq [frames : 0..MaxFrames, bytes : Nat]
    /\ MaxLineBytes \in Nat
    /\ QueueItems \in Nat \ {0} /\ QueueBytes \in Nat

VARIABLES
    load,        \* the bounds this behaviour keeps to
    \* the adapter thread
    pc,          \* the call it is in, "idle" between calls
    verdict,     \* what the call in progress will return once its joins are done
    cancelled,   \* the run's CancellationToken
    expired,     \* the deadline of the write (or the grace of the shutdown) passed
    \* ProcessInputWriter
    poisoned,
    sender,      \* the request channel's sending half is still held
    inStopped,   \* the flag shared with the writer thread
    stdin,       \* our end of the pipe is open
    worker,      \* the writer thread: recv, check, io, loop, exited
    frame,       \* the frame of the latest call, 0 before the first
    size,        \* its length in chunks
    offset,      \* chunks of it written
    result,      \* the reply channel of that request
    wire,        \* history: the chunks in the pipe, <<frame, chunk>>
    returned,    \* history: what each call of write_frame returned
    \* ProcessOutputReader and the output queue
    emitted,     \* history: every byte written to stdout
    taken,       \* how many of them the reader has read
    partial,     \* LineDecoder.partial
    reader,      \* the reader thread: read, reserve, enqueue, exited
    item,        \* the value the sink is called with
    last,        \* the reader returns after this sink call
    outStopped,  \* the flag shared with the reader thread
    queue, used, failed,
    hand,        \* the envelope recv_timeout has taken
    received,    \* history: the values recv_timeout returned
    ended,       \* history: recv_timeout has returned Disconnected
    \* OwnedAdapterChild
    leader,      \* running, exited (a zombie), reaped or stolen (by another)
    descendant,  \* a process the leader forked: none, group (the group's signal
                 \* reaches it) or escaped (it left, or this user may not signal it)
    owned,       \* the Child handle is held
    cleanupFailed,
    cleanup      \* what the latest shutdown returned

call == <<pc, verdict, cancelled, expired>>
input == <<poisoned, sender, inStopped, stdin, worker, frame, size, offset,
           result, wire, returned>>
output == <<emitted, taken, partial, reader, item, last, outStopped,
            queue, used, failed, hand, received, ended>>
child == <<leader, descendant, owned, cleanupFailed, cleanup>>
vars == <<load, call, input, output, child>>

Frames == 1..MaxFrames

\* What encode_json_line makes of a value, newline included, and what the writer
\* takes: a frame within the budget.
Fits(n) == n <= MaxFrameSize

\* What write_frame may return.
Returns == {"none", "ok", "oversized", "interrupted", "timed_out", "unusable", "io"}

\* Stdout as the decoder tells its bytes apart.
Bytes == {"x", "cr", "nl", "bad"}

\* An Err(()) handed to the sink.
Failure == [line |-> <<>>, ok |-> FALSE]
Line(l) == [line |-> l, ok |-> TRUE]

\* The wire bytes a value is charged for: a line its length, an Err(()) nothing.
WireBytes(v) == IF v.ok THEN Len(v.line) ELSE 0

Init ==
    /\ load \in Loads
    /\ pc = "idle" /\ verdict = "none" /\ cancelled = FALSE /\ expired = FALSE
    /\ poisoned = FALSE /\ sender = TRUE /\ inStopped = FALSE /\ stdin = TRUE
    /\ worker = "recv" /\ frame = 0 /\ size = 0 /\ offset = 0 /\ result = "none"
    /\ wire = <<>> /\ returned = [f \in Frames |-> "none"]
    /\ emitted = <<>> /\ taken = 0 /\ partial = <<>> /\ reader = "read"
    /\ item = Failure /\ last = FALSE /\ outStopped = FALSE
    /\ queue = <<>> /\ used = 0 /\ failed = FALSE /\ hand = Failure
    /\ received = <<>> /\ ended = FALSE
    /\ leader = "running" /\ descendant = "none" /\ owned = TRUE
    /\ cleanupFailed = FALSE /\ cleanup = "none"

\* Some process still holds the child's ends of both pipes.
Alive == leader = "running" \/ descendant # "none"

-----------------------------------------------------------------------------
(* ProcessInputWriter: the caller's side.                                  *)

\* close: raise the flag, drop the sender, then wait for the writer thread.
BeginClose(why) ==
    /\ inStopped' = TRUE
    /\ sender' = FALSE
    /\ verdict' = why
    /\ pc' = "join_writer"

\* poison_and_close.
Poison(why) == poisoned' = TRUE /\ BeginClose(why)

\* The checks write_frame_cancellable makes before it hands the frame over.
WriteFrame ==
    /\ pc = "idle" /\ frame < load.frames
    /\ \E n \in 1..MaxFrameSize + 1, late \in BOOLEAN :
        /\ frame' = frame + 1 /\ size' = n /\ offset' = 0 /\ result' = "none"
        /\ expired' = late
        /\ \/ /\ poisoned \/ ~sender
              /\ returned' = [returned EXCEPT ![frame'] = "unusable"]
              /\ UNCHANGED <<pc, verdict, poisoned, sender, inStopped>>
           \/ /\ ~poisoned /\ sender /\ ~Fits(n)
              /\ returned' = [returned EXCEPT ![frame'] = "oversized"]
              /\ UNCHANGED <<pc, verdict, poisoned, sender, inStopped>>
           \/ /\ ~poisoned /\ sender /\ Fits(n) /\ cancelled
              /\ Poison("interrupted") /\ UNCHANGED returned
           \/ /\ ~poisoned /\ sender /\ Fits(n) /\ ~cancelled /\ late
              /\ Poison("timed_out") /\ UNCHANGED returned
           \/ /\ ~poisoned /\ sender /\ Fits(n) /\ ~cancelled /\ ~late
              /\ pc' = "send"
              /\ UNCHANGED <<verdict, poisoned, sender, inStopped, returned>>
    /\ UNCHANGED <<cancelled, stdin, worker, wire, output, child>>

\* One round of the try_send loop: the channel holds nothing, so the request
\* is taken only by a writer thread that is waiting in recv.
TrySend ==
    /\ pc = "send"
    /\ \/ cancelled /\ Poison("interrupted") /\ UNCHANGED worker
       \/ ~cancelled /\ expired /\ Poison("timed_out") /\ UNCHANGED worker
       \/ /\ ~cancelled /\ ~expired /\ worker = "recv"
          /\ worker' = "check" /\ pc' = "await"
          /\ UNCHANGED <<verdict, poisoned, sender, inStopped>>
    /\ UNCHANGED <<cancelled, expired, stdin, frame, size, offset, result, wire,
                   returned, output, child>>

\* One round of the wait for the reply.  Cancellation is looked at first; a
\* reply that is there is taken even when the deadline has passed.
AwaitResult ==
    /\ pc = "await"
    /\ \/ cancelled /\ Poison("interrupted") /\ UNCHANGED returned
       \/ /\ ~cancelled /\ result = "ok"
          /\ pc' = "idle" /\ returned' = [returned EXCEPT ![frame] = "ok"]
          /\ UNCHANGED <<verdict, poisoned, sender, inStopped>>
       \/ /\ ~cancelled /\ result \notin {"none", "ok"}
          /\ Poison(result) /\ UNCHANGED returned
       \/ /\ ~cancelled /\ result = "none" /\ expired
          /\ Poison("timed_out") /\ UNCHANGED returned
    /\ UNCHANGED <<cancelled, expired, stdin, worker, frame, size, offset, result,
                   wire, output, child>>

\* MUTANT: the call returns without waiting for the writer thread.
JoinSkipped ==
    /\ pc = "join_writer"
    /\ stdin' = FALSE /\ pc' = "idle"
    /\ returned' = IF verdict = "closed" THEN returned
                   ELSE [returned EXCEPT ![frame] = verdict]
    /\ UNCHANGED <<verdict, cancelled, expired, poisoned, sender, inStopped, worker,
                   frame, size, offset, result, wire, output, child>>

\* The writer thread is joined, stdin is closed and the call returns.
JoinWriter ==
    /\ pc = "join_writer" /\ worker = "exited"
    /\ stdin' = FALSE /\ pc' = "idle"
    /\ returned' = IF verdict = "closed" THEN returned
                   ELSE [returned EXCEPT ![frame] = verdict]
    /\ UNCHANGED <<verdict, cancelled, expired, poisoned, sender, inStopped, worker,
                   frame, size, offset, result, wire, output, child>>

\* ProcessInputWriter::close, also run by its Drop.
CloseInput ==
    /\ pc = "idle" /\ stdin
    /\ BeginClose("closed")
    /\ UNCHANGED <<cancelled, expired, poisoned, stdin, worker, frame, size, offset,
                   result, wire, returned, output, child>>

(* ProcessInputWriter: the writer thread.                                  *)

\* recv fails once the sender is gone.
WorkerHangup ==
    /\ worker = "recv" /\ ~sender
    /\ worker' = "exited"
    /\ UNCHANGED <<call, poisoned, sender, inStopped, stdin, frame, size, offset,
                   result, wire, returned, output, child>>

\* MUTANT: a pipe that takes nothing is retried without looking at the clock or
\* at the stop flag.
WorkerDeaf ==
    /\ worker = "check"
    /\ \/ /\ offset = size
          /\ result' = (IF expired THEN "timed_out" ELSE "ok")
          /\ worker' = (IF expired THEN "exited" ELSE "loop")
       \/ /\ offset < size
          /\ worker' = "io" /\ UNCHANGED result
    /\ UNCHANGED <<call, poisoned, sender, inStopped, stdin, frame, size, offset, wire,
                   returned, output, child>>

\* write_one's loop head: done, stopped, too late, or go on to the write.  A
\* frame completed after its deadline still counts as timed out.
WorkerCheck ==
    /\ worker = "check"
    /\ \/ /\ offset = size
          /\ result' = (IF expired THEN "timed_out" ELSE "ok")
          /\ worker' = (IF expired THEN "exited" ELSE "loop")
       \/ /\ offset < size /\ inStopped
          /\ result' = "unusable" /\ worker' = "exited"
       \/ /\ offset < size /\ ~inStopped /\ expired
          /\ result' = "timed_out" /\ worker' = "exited"
       \/ /\ offset < size /\ ~inStopped /\ ~expired
          /\ worker' = "io" /\ UNCHANGED result
    /\ UNCHANGED <<call, poisoned, sender, inStopped, stdin, frame, size, offset, wire,
                   returned, output, child>>

\* stdin.write: some chunks are taken, the pipe is full (WouldBlock), or the
\* write fails (no reader any more, or nothing accepted).
WorkerWrite ==
    /\ worker = "io"
    /\ \/ \E k \in 1..(size - offset) :
            /\ Alive
            /\ wire' = wire \o [i \in 1..k |-> <<frame, offset + i>>]
            /\ offset' = offset + k /\ worker' = "check" /\ UNCHANGED result
       \/ worker' = "check" /\ UNCHANGED <<wire, offset, result>>
       \/ worker' = "exited" /\ result' = "io" /\ UNCHANGED <<wire, offset>>
    /\ UNCHANGED <<call, poisoned, sender, inStopped, stdin, frame, size, returned,
                   output, child>>

\* After the reply to a frame written in time the stop flag is read once more;
\* after an error the thread has returned.
WorkerLoop ==
    /\ worker = "loop"
    /\ worker' = IF inStopped THEN "exited" ELSE "recv"
    /\ UNCHANGED <<call, poisoned, sender, inStopped, stdin, frame, size, offset,
                   result, wire, returned, output, child>>

-----------------------------------------------------------------------------
(* ProcessOutputReader: the reader thread.                                 *)

\* MUTANT: the final line is trimmed as if a newline ended it.
EmitTrimmed(bytes, newline) ==
    LET n == Len(bytes)
        line == IF n > 0 /\ bytes[n] = "cr" THEN SubSeq(bytes, 1, n - 1) ELSE bytes
    IN IF \E i \in 1..Len(line) : line[i] = "bad" THEN Failure ELSE Line(line)

\* LineDecoder::emit: a carriage return before the newline goes, invalid
\* UTF-8 is an error.
Emit(bytes, newline) ==
    LET n == Len(bytes)
        line == IF newline /\ n > 0 /\ bytes[n] = "cr" THEN SubSeq(bytes, 1, n - 1)
                ELSE bytes
    IN IF \E i \in 1..Len(line) : line[i] = "bad" THEN Failure ELSE Line(line)

\* Call the sink with v; `final' when the reader returns after it whatever it says.
Sink(v, final) ==
    /\ item' = v /\ last' = (final \/ ~v.ok) /\ reader' = "reserve"

\* read_stdout sees the stop flag.
ReaderStop ==
    /\ reader = "read" /\ outStopped
    /\ reader' = "exited"
    /\ UNCHANGED <<call, input, child, emitted, taken, partial, item, last, outStopped,
                   queue, used, failed, hand, received, ended>>

\* LineDecoder::push, one byte of the chunk at a time.
ReaderPush ==
    /\ reader = "read" /\ ~outStopped /\ taken < Len(emitted)
    /\ taken' = taken + 1
    /\ LET byte == emitted[taken + 1] IN
       IF byte = "nl"
       THEN partial' = <<>> /\ Sink(Emit(partial, TRUE), FALSE)
       ELSE /\ partial' = Append(partial, byte)
            /\ IF Len(partial) + 1 > MaxLineBytes THEN Sink(Failure, FALSE)
               ELSE UNCHANGED <<item, last, reader>>
    /\ UNCHANGED <<call, input, child, emitted, outStopped, queue, used, failed, hand,
                   received, ended>>

\* End of file: a partial line is handed over, then the thread returns.
ReaderFinish ==
    /\ reader = "read" /\ ~outStopped /\ taken = Len(emitted) /\ ~Alive
    /\ IF partial = <<>>
       THEN reader' = "exited" /\ UNCHANGED <<partial, item, last>>
       ELSE partial' = <<>> /\ Sink(Emit(partial, FALSE), TRUE)
    /\ UNCHANGED <<call, input, child, emitted, taken, outStopped, queue, used, failed,
                   hand, received, ended>>

\* The read fails: an Err(()) is handed over and the thread returns.
ReaderError ==
    /\ load.bytes > 0 /\ reader = "read" /\ ~outStopped
    /\ Sink(Failure, TRUE)
    /\ UNCHANGED <<call, input, child, emitted, taken, partial, outStopped, queue, used,
                   failed, hand, received, ended>>

\* OutputSender::send up to the byte budget.
Reserve ==
    /\ reader = "reserve"
    /\ IF failed \/ used + WireBytes(item) > QueueBytes
       THEN failed' = TRUE /\ reader' = "exited" /\ UNCHANGED used
       ELSE /\ used' = used + WireBytes(item) /\ reader' = "enqueue"
            /\ UNCHANGED failed
    /\ UNCHANGED <<call, input, child, emitted, taken, partial, item, last, outStopped,
                   queue, hand, received, ended>>

\* MUTANT: the bytes of a refused envelope stay reserved.
EnqueueLeaking ==
    /\ reader = "enqueue"
    /\ IF Len(queue) < QueueItems
       THEN /\ queue' = Append(queue, item)
            /\ reader' = (IF last THEN "exited" ELSE "read")
            /\ UNCHANGED failed
       ELSE failed' = TRUE /\ reader' = "exited" /\ UNCHANGED queue
    /\ UNCHANGED <<call, input, child, emitted, taken, partial, item, last, outStopped,
                   used, hand, received, ended>>

\* OutputSender::send's try_send; a full queue drops the envelope, which gives
\* its bytes back.
Enqueue ==
    /\ reader = "enqueue"
    /\ IF Len(queue) < QueueItems
       THEN /\ queue' = Append(queue, item)
            /\ reader' = IF last THEN "exited" ELSE "read"
            /\ UNCHANGED <<used, failed>>
       ELSE /\ used' = used - WireBytes(item)
            /\ failed' = TRUE /\ reader' = "exited" /\ UNCHANGED queue
    /\ UNCHANGED <<call, input, child, emitted, taken, partial, item, last, outStopped,
                   hand, received, ended>>

(* OutputReceiver and ProcessOutputReader::close: the adapter thread.      *)

\* recv_timeout's first look at the sticky flag.
Recv ==
    /\ pc = "idle"
    /\ IF failed THEN ended' = TRUE /\ UNCHANGED pc
       ELSE pc' = "recv" /\ UNCHANGED ended
    /\ UNCHANGED <<verdict, cancelled, expired, input, child, emitted, taken, partial,
                   reader, item, last, outStopped, queue, used, failed, hand, received>>

\* The channel's recv: a value, nothing in time, or no sender any more.
RecvTake ==
    /\ pc = "recv"
    /\ \/ /\ queue # <<>>
          /\ hand' = Head(queue) /\ queue' = Tail(queue)
          /\ pc' = "recheck" /\ UNCHANGED ended
       \/ /\ queue = <<>> /\ reader # "exited"
          /\ pc' = "idle" /\ UNCHANGED <<queue, hand, ended>>
       \/ /\ queue = <<>> /\ reader = "exited"
          /\ pc' = "idle" /\ ended' = TRUE /\ UNCHANGED <<queue, hand>>
    /\ UNCHANGED <<verdict, cancelled, expired, input, child, emitted, taken, partial,
                   reader, item, last, outStopped, used, failed, received>>

\* MUTANT: the value in hand is returned although the stream has failed.
RecvUnchecked ==
    /\ pc = "recheck"
    /\ pc' = "idle" /\ used' = used - WireBytes(hand)
    /\ received' = Append(received, hand) /\ UNCHANGED ended
    /\ hand' = Failure
    /\ UNCHANGED <<verdict, cancelled, expired, input, child, emitted, taken, partial,
                   reader, item, last, outStopped, queue, failed>>

\* The second look: a stream that failed meanwhile is discarded.  Dropping the
\* envelope gives its bytes back either way.
RecvRecheck ==
    /\ pc = "recheck"
    /\ pc' = "idle" /\ used' = used - WireBytes(hand)
    /\ IF failed THEN ended' = TRUE /\ UNCHANGED received
       ELSE received' = Append(received, hand) /\ UNCHANGED ended
    /\ hand' = Failure
    /\ UNCHANGED <<verdict, cancelled, expired, input, child, emitted, taken, partial,
                   reader, item, last, outStopped, queue, failed>>

\* ProcessOutputReader::close.
CloseReader ==
    /\ pc = "idle" /\ ~outStopped
    /\ outStopped' = TRUE /\ pc' = "join_reader"
    /\ UNCHANGED <<verdict, cancelled, expired, input, child, emitted, taken, partial,
                   reader, item, last, queue, used, failed, hand, received, ended>>

JoinReader ==
    /\ pc = "join_reader" /\ reader = "exited"
    /\ pc' = "idle"
    /\ UNCHANGED <<verdict, cancelled, expired, input, output, child>>

-----------------------------------------------------------------------------
(* OwnedAdapterChild.                                                      *)

\* MUTANT: the failure is not remembered.
ShutdownForgetful ==
    /\ pc = "idle"
    /\ IF ~owned
       THEN cleanup' = "ok" /\ UNCHANGED <<pc, expired>>
       ELSE pc' = "grace" /\ expired' = FALSE /\ UNCHANGED cleanup
    /\ UNCHANGED <<verdict, cancelled, input, output, leader, descendant, owned,
                   cleanupFailed>>

\* shutdown: a failure is remembered; a handle already given up is a success.
Shutdown ==
    /\ pc = "idle"
    /\ IF cleanupFailed \/ ~owned
       THEN /\ cleanup' = (IF cleanupFailed THEN "failed" ELSE "ok")
            /\ UNCHANGED <<pc, expired>>
       ELSE /\ pc' = "grace" /\ expired' = FALSE
            /\ UNCHANGED cleanup
    /\ UNCHANGED <<verdict, cancelled, input, output, leader, descendant, owned,
                   cleanupFailed>>

\* The grace loop: the leader has exited, the grace is over, or another reaper
\* took the process, whose id is then never used again (ECHILD).
GraceLoop ==
    /\ pc = "grace"
    /\ \/ /\ leader = "exited" \/ (leader = "running" /\ expired)
          /\ pc' = "kill" /\ UNCHANGED <<owned, cleanupFailed, cleanup>>
       \/ /\ leader = "stolen"
          /\ owned' = FALSE /\ cleanupFailed' = TRUE /\ cleanup' = "failed"
          /\ pc' = "idle"
    /\ UNCHANGED <<verdict, cancelled, expired, input, output, leader, descendant>>

\* The group is signalled while the unreaped leader still reserves its id, then
\* the leader is killed and reaped.  The group signal may be refused; it counts
\* as delivered when it reached any member, and an escaped one survives it.
KillGroup ==
    /\ pc = "kill"
    /\ \E refused \in BOOLEAN :
        /\ descendant' = IF descendant = "group" /\ ~refused THEN "none" ELSE descendant
        /\ cleanupFailed' = refused
        /\ cleanup' = IF refused THEN "failed" ELSE "ok"
    /\ leader' = "reaped" /\ owned' = FALSE /\ pc' = "idle"
    /\ UNCHANGED <<verdict, cancelled, expired, input, output>>

-----------------------------------------------------------------------------
(* The environment: the child and its descendants, the clock, the token.   *)

\* A process that holds stdout writes a byte.
ChildWrite ==
    /\ Alive /\ Len(emitted) < load.bytes
    /\ \E b \in Bytes : emitted' = Append(emitted, b)
    /\ UNCHANGED <<call, input, child, taken, partial, reader, item, last, outStopped,
                   queue, used, failed, hand, received, ended>>

ChildFork ==
    /\ leader = "running" /\ descendant = "none"
    /\ descendant' \in {"group", "escaped"}
    /\ UNCHANGED <<call, input, output, leader, owned, cleanupFailed, cleanup>>

ChildExit ==
    /\ leader = "running" /\ leader' = "exited"
    /\ UNCHANGED <<call, input, output, descendant, owned, cleanupFailed, cleanup>>

\* A foreign reaper in the host.  The code promises nothing for one that strikes
\* between the check of the grace loop and the signal.
ForeignReap ==
    /\ leader = "exited" /\ pc # "kill" /\ leader' = "stolen"
    /\ UNCHANGED <<call, input, output, descendant, owned, cleanupFailed, cleanup>>

\* The token is raised; only write_frame_cancellable reads it.
Cancel ==
    /\ load.frames > 0 /\ ~cancelled /\ cancelled' = TRUE
    /\ UNCHANGED <<pc, verdict, expired, input, output, child>>

\* The deadline of a write, or the end of the grace, passes.
Expire ==
    /\ ~expired /\ pc \in {"send", "await", "grace"} /\ expired' = TRUE
    /\ UNCHANGED <<pc, verdict, cancelled, input, output, child>>

Caller == WriteFrame \/ TrySend \/ AwaitResult \/ JoinWriter \/ CloseInput
            \/ Recv \/ RecvTake \/ RecvRecheck \/ CloseReader \/ JoinReader
            \/ Shutdown \/ GraceLoop \/ KillGroup
Worker == WorkerHangup \/ WorkerCheck \/ WorkerWrite \/ WorkerLoop
Reader == ReaderStop \/ ReaderPush \/ ReaderFinish \/ ReaderError \/ Reserve \/ Enqueue
Environment == ChildWrite \/ ChildFork \/ ChildExit \/ ForeignReap \/ Cancel \/ Expire

Next == (Caller \/ Worker \/ Reader \/ Environment) /\ UNCHANGED load

\* The three threads are scheduled and time passes; the child promises nothing.
\* A pipe that blocks for ever is allowed: a write that makes no progress is
\* a step of the writer thread.
Fairness ==
    /\ WF_vars(UNCHANGED load /\ (TrySend \/ AwaitResult \/ JoinWriter \/ RecvTake
                  \/ RecvRecheck \/ JoinReader \/ GraceLoop \/ KillGroup))
    /\ WF_vars(UNCHANGED load /\ Worker)
    /\ WF_vars(UNCHANGED load /\ (ReaderStop \/ Reserve \/ Enqueue))
    /\ WF_vars(UNCHANGED load /\ Expire)

Spec == Init /\ [][Next]_vars /\ Fairness

-----------------------------------------------------------------------------
(* Properties.                                                             *)

\* Every variable has its type.
TypeOK ==
    /\ pc \in {"idle", "send", "await", "join_writer", "recv", "recheck",
               "join_reader", "grace", "kill"}
    /\ verdict \in Returns \cup {"closed"}
    /\ {cancelled, expired, poisoned, sender, inStopped, stdin, last, outStopped,
        failed, ended, owned, cleanupFailed} \subseteq BOOLEAN
    /\ worker \in {"recv", "check", "io", "loop", "exited"}
    /\ frame \in 0..MaxFrames /\ size \in 0..MaxFrameSize + 1
    /\ offset \in 0..size /\ result \in Returns
    /\ wire \in Seq(Frames \X (1..MaxFrameSize))
    /\ returned \in [Frames -> Returns]
    /\ emitted \in Seq(Bytes) /\ taken \in 0..Len(emitted)
    /\ partial \in Seq(Bytes \ {"nl"}) /\ Len(partial) <= MaxLineBytes + 1
    /\ reader \in {"read", "reserve", "enqueue", "exited"}
    /\ Len(queue) <= QueueItems
    /\ cleanup \in {"none", "ok", "failed"}
    /\ leader \in {"running", "exited", "reaped", "stolen"}
    /\ descendant \in {"none", "group", "escaped"}

\* The bytes charged for the first values of a sequence, and for all of them.
ChargeSums(q) ==
    LET sum[i \in 0..Len(q)] == IF i = 0 THEN 0 ELSE sum[i - 1] + WireBytes(q[i])
    IN sum

Charged(q) == ChargeSums(q)[Len(q)]

\* The reserved bytes are exactly those of the envelopes alive: in the queue, in
\* the sender's hands and in the receiver's; the budget is never exceeded
\* (process_queue.rs: fetch_update, Envelope::drop).
BytesAccounted ==
    /\ TypeOK
    /\ used = Charged(queue) + (IF reader = "enqueue" THEN WireBytes(item) ELSE 0)
                + WireBytes(hand)
    /\ used <= QueueBytes

\* Once a call has failed with anything but an oversized frame, not one more byte
\* enters the pipe: the writer thread is gone before the error is returned
\* (process_input.rs:44, "the pipe may contain an indeterminate prefix").
NothingAfterFailure ==
    (\E f \in Frames : returned[f] \in {"interrupted", "timed_out", "unusable", "io"})
        => worker = "exited"

\* The child's stdin holds whole frames in the order they were written; only the
\* last may be cut short, and then the writer is poisoned or being closed unless
\* the frame is still on its way; write_frame returns Ok only for a frame that is
\* there in full, and nothing follows a failure (process_input.rs: write_one,
\* write_frame_cancellable).
WireIsFramed ==
    LET starts == {i \in 1..Len(wire) : wire[i][2] = 1}
        complete(f) == returned[f] = "ok"
    IN /\ \A i \in 1..Len(wire) - 1 :
            \/ wire[i + 1] = <<wire[i][1], wire[i][2] + 1>>
            \/ complete(wire[i][1]) /\ wire[i + 1][2] = 1 /\ wire[i + 1][1] > wire[i][1]
       /\ \A f \in Frames : complete(f) =>
            \E i \in starts : wire[i][1] = f
       /\ \A f \in Frames : (complete(f) /\ f = frame) =>
            Len(wire) > 0 /\ wire[Len(wire)] = <<f, size>>
       /\ NothingAfterFailure

\* The values the sink must see for a byte sequence, defined on the whole stream
\* at once: the stretches between newlines, the first bad one being the last.
NewlineAt(bytes) == {i \in 1..Len(bytes) : bytes[i] = "nl"}
LineEnds(bytes, closed) ==
    NewlineAt(bytes) \cup (IF closed THEN {Len(bytes) + 1} ELSE {})
LineBefore(bytes, e) ==
    LET before == {i \in NewlineAt(bytes) : i < e}
        s == IF before = {} THEN 1 ELSE (CHOOSE i \in before : \A j \in before : j <= i) + 1
        raw == SubSeq(bytes, s, e - 1)
    IN IF e <= Len(bytes) /\ raw # <<>> /\ raw[Len(raw)] = "cr"
       THEN SubSeq(raw, 1, Len(raw) - 1) ELSE raw

\* What recv_timeout returns is, in order and without a gap, a prefix of the lines
\* the child wrote; an Err(()) is the last value; and a receiver that is told
\* Disconnected by a stream that neither failed nor was stopped has had every line
\* (process_output.rs: LineDecoder; process_queue.rs: overflow "discards the stream
\* rather than silently losing events").
LinesInOrder ==
    LET lines == {i \in 1..Len(received) : received[i].ok}
        ends == LineEnds(emitted, reader = "exited" /\ ~Alive /\ taken = Len(emitted))
        rank(e) == Cardinality({d \in ends : d <= e})
    IN /\ \A i \in 1..Len(received) : ~received[i].ok => i = Len(received)
       /\ \A i \in lines : \E e \in ends :
             rank(e) = i /\ received[i].line = LineBefore(emitted, e)
       /\ (ended /\ ~failed /\ ~outStopped /\ Cardinality(lines) = Len(received)) =>
             \A e \in ends : LineBefore(emitted, e) # <<>> \/ e <= Len(emitted)
                               => rank(e) <= Len(received)

\* Overflow is sticky: after it no value is returned any more, not even one that
\* had been taken from the channel before (process_queue.rs, recv_timeout).
OverflowIsSticky == [][failed => received' = received]_vars

\* shutdown says Ok only when the leader was reaped by us and no member of its
\* group is alive, and once it has failed it never says Ok again
\* (process_child.rs: "Failure is sticky").
CleanupIsTrue ==
    /\ cleanup = "ok" => leader = "reaped" /\ descendant # "group" /\ ~cleanupFailed
    /\ cleanupFailed => cleanup = "failed"

\* Every call returns, whatever the child does with its pipes: a blocked write
\* ends at its deadline, a close at the next look at the flag, a shutdown with
\* the grace (process_input.rs, process_output.rs, process_child.rs).
CallsReturn == pc # "idle" ~> pc = "idle"

=============================================================================
