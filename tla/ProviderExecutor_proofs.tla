---------------------- MODULE ProviderExecutor_proofs ----------------------
(***************************************************************************)
(* Proofs about ProviderExecutor for every finite set of runs and every    *)
(* number of clients, requests, edits and crashes.                         *)
(***************************************************************************)
EXTENDS ProviderExecutor, FiniteSetTheorems, TLAPS

(* The inductive invariant.  What does not depend on the routes clients    *)
(* use comes first.                                                        *)

\* Phases with a thread between its start and its outcome, ...
Busy == {"launching", "preflight", "validating", "connecting", "streaming", "reported"}

\* ... with an outcome to write, ...
Writing == {"persisting", "finishing"}

\* ... with a controller in the registry for certain, ...
Enrolled == Busy \cup {"registered", "unspawned", "draining", "leaving"}

\* ... with a place in ProviderExecutor.active for certain, ...
Seated == Busy \cup {"draining", "leaving", "released"}

\* ... with somebody who will still write the outcome, and with nobody.
AtWork == Busy \cup Writing \cup {"begun", "registered", "unspawned", "draining"}
Left == {"leaving", "released", "done"}

RunTypes ==
    /\ run \in [Run -> {"Absent"} \cup LiveState \cup EndState]
    /\ open \subseteq Run /\ accepted \subseteq Run /\ bound \subseteq Run
    /\ lifecycle \in {"ready", "stopping", "down"}
    /\ signalled \in BOOLEAN /\ valid \in BOOLEAN
    /\ requests \in 0..MaxRequests /\ edits \in 0..MaxEdits /\ crashes \in 0..MaxCrashes

ThreadTypes ==
    /\ worker \in [Run -> Phase]
    /\ outcome \in [Run -> Outcome \cup {None}]
    /\ fresh \subseteq Run /\ refused \subseteq Run
    /\ token \subseteq Run /\ registry \subseteq Run
    /\ inbox \in [Run -> Client \cup {None, "dropped"}]

Request == [pc : {"idle", "checked", "sent", "waiting", "accepted", "halting"},
            run : Run \cup {None}]

ControlTypes ==
    /\ client \in [Client -> Request]
    /\ ack \in [Client -> {None, "accepted", "rejected"}]

\* A worker that writes an outcome has one.
OutcomeInv == \A r \in Run : worker[r] \in Writing \cup {"draining"} => outcome[r] \in Outcome

\* The registry has the controllers of the runs with a thread, or about to get
\* one; a handler that persists a start failure has none.
RegistryInv ==
    /\ \A r \in Run : worker[r] \in Enrolled => r \in registry
    /\ \A r \in registry : worker[r] \in Enrolled \cup Writing

\* The runs that hold a place, and their number.
Places == {r \in Run : worker[r] \in Seated \/ (worker[r] \in Writing /\ r \in registry)}
CountInv == active = Cardinality(Places)

\* Where a run's worker may be, given the run and the daemon.
PhaseInv ==
    /\ \A r \in Run : run[r] = "Absent" <=> worker[r] = "idle"
    /\ \A r \in Run : worker[r] = "gone" /\ Up => run[r] \notin LiveState
    /\ lifecycle = "down" => /\ \A r \in Run : worker[r] \in {"idle", "gone"}
                             /\ \A c \in Client : client[c] = Idle

\* A cancel request is for a run this process began; one in a channel belongs to
\* a client that waits for its answer, and an answer to a client that waits.
MailInv ==
    /\ \A c \in Client : client[c].pc \in {"checked", "sent", "waiting", "accepted"} =>
          client[c].run \in Run /\ worker[client[c].run] \notin {"idle", "gone"}
    /\ \A c \in Client, r \in Run : inbox[r] = c =>
          client[c].run = r /\ client[c].pc \in {"sent", "waiting"} /\ ack[c] = None
    /\ \A c \in Client : ack[c] # None => client[c].pc \in {"sent", "waiting"}

ExecutorInv ==
    /\ RunTypes /\ ThreadTypes /\ ControlTypes
    /\ OutcomeInv /\ RegistryInv /\ CountInv /\ PhaseInv /\ MailInv

\* Without the finish route only the worker ends its run.
OwnedInv == \A r \in Run : worker[r] \in AtWork => run[r] \in LiveState

StopInv == lifecycle = "stopping" => \A r \in Run : run[r] \notin LiveState

\* The worker of r has the outcome Cancelled, or has written it, or has failed to.
Promised(r) ==
    \/ worker[r] \in Writing \cup {"draining"} /\ outcome[r].state = "Cancelled"
    \/ worker[r] \in Left /\ run[r] \in LiveState \cup {"Cancelled"}

PromiseInv ==
    /\ \A c \in Client : ack[c] = "accepted" \/ client[c].pc = "accepted" =>
          Promised(client[c].run)
    /\ \A r \in accepted : Promised(r) \/ worker[r] = "gone"

\* Without the finish route.
SoleOwnerInv == OwnedInv /\ StopInv /\ PromiseInv

\* Without the complete route and without blank output.
HeldInv ==
    Up => \A r \in Run : run[r] \in LiveState =>
        r \in open /\ (worker[r] \in AtWork \/ r \in refused)

-----------------------------------------------------------------------------

(* The steps, sorted by what they change.                                  *)

\* A thread that gets on with its provider, or is done with it.
Advance(r) ==
    /\ worker[r] \in Busy
    /\ \/ \E p \in Busy : worker' = [worker EXCEPT ![r] = p] /\ UNCHANGED outcome
       \/ \E o \in Outcome :
            /\ worker' = [worker EXCEPT ![r] = "draining"]
            /\ outcome' = [outcome EXCEPT ![r] = o]
    /\ Stays

\* Every return of an adapter call is such a step.
LEMMA ThreadAdvances ==
  ASSUME NEW r \in Run,
         \/ CheckToken(r) \/ PreflightLaunch(r)
         \/ \E allowed \in BOOLEAN : ValidateOnline(r, allowed)
         \/ Connect(r)
         \/ \E cleaned \in BOOLEAN : Interrupt(r, cleaned)
         \/ \E s \in EndState, text \in Text : ProviderEnds(r, s, text)
         \/ ProviderLost(r)
  PROVE  Advance(r)
<1>1. \A s \in EndState : [state |-> s, text |-> "none"] \in Outcome
  BY DEF Outcome
<1>2. \A s \in EndState, text \in Text :
         [state |-> ProviderOutcome(s, text).state, text |-> ProviderOutcome(s, text).text]
            \in Outcome
  BY DEF Outcome, ProviderOutcome, EndState
<1>3. {"Cancelled", "Uncertain", "Blocked"} \subseteq EndState
  BY DEF EndState
<1>4. CASE CheckToken(r)
  BY <1>1, <1>3, <1>4 DEF CheckToken, Advance, Ends, Proceeds, Goto, Busy
<1>5. CASE PreflightLaunch(r)
  BY <1>1, <1>3, <1>5 DEF PreflightLaunch, Advance, Ends, Proceeds, Goto, Busy
<1>6. CASE \E allowed \in BOOLEAN : ValidateOnline(r, allowed)
  BY <1>1, <1>3, <1>6 DEF ValidateOnline, Advance, Ends, Proceeds, Goto, Busy
<1>7. CASE Connect(r)
  BY <1>1, <1>3, <1>7 DEF Connect, Advance, Ends, Proceeds, Goto, Busy
<1>8. CASE \E cleaned \in BOOLEAN : Interrupt(r, cleaned)
  BY <1>1, <1>3, <1>8 DEF Interrupt, Streaming, Advance, Ends, Goto, Busy
<1>9. CASE \E s \in EndState, text \in Text : ProviderEnds(r, s, text)
  BY <1>2, <1>9 DEF ProviderEnds, Streaming, Advance, Ends, Goto, Busy
<1>10. CASE ProviderLost(r)
  BY <1>1, <1>3, <1>10 DEF ProviderLost, Streaming, Advance, Ends, Goto, Busy
<1>11. QED
  BY <1>4, <1>5, <1>6, <1>7, <1>8, <1>9, <1>10

\* The handler of a begin and the worker thread.
Thread(r) ==
    \/ Begin(r) \/ Register(r) \/ Spawn(r) \/ SpawnFails(r) \/ AbandonStart(r) \/ Advance(r)
    \/ ReportRunning(r) \/ Drain(r) \/ ReadRevisions(r) \/ Finish(r) \/ Unregister(r)
    \/ Release(r)

\* The handler of a cancel request.
Cancelling(c) ==
    \/ \E r \in Run : PreflightCancel(c, r)
    \/ SendCancel(c) \/ SetToken(c) \/ ReceiveAck(c) \/ AckTimeout(c) \/ RecordCancel(c)

\* Requests and signals that touch no thread.
Others ==
    \/ \E r \in Run : ClientComplete(r)
    \/ \E r \in Run, s \in EndState : ClientFinish(r, s)
    \/ \E R \in SUBSET Run, v \in BOOLEAN : EditCatalog(R, v)
    \/ CreateGraphExecution
    \/ \E c \in Client : CheckActive(c) \/ Halt(c)
    \/ Signal \/ SignalShutdown

\* Every step is one of these.
LEMMA NextCases ==
  Next => \/ \E r \in Run : Thread(r)
          \/ \E c \in Client : Cancelling(c)
          \/ Others \/ Exit \/ Crash \/ Open
<1>1. ASSUME NEW r \in Run, Worker(r) PROVE Thread(r)
  BY <1>1, ThreadAdvances DEF Worker, Thread
<1>2. ASSUME NEW r \in Run, Begin(r) \/ Locked(r) \/ ReportRunning(r) PROVE Thread(r)
  BY <1>2 DEF Locked, Thread
<1>3. ASSUME NEW c \in Client, Handler(c) \/ CheckActive(c) \/ \E r \in Run : PreflightCancel(c, r)
      PROVE  Cancelling(c) \/ Others
  BY <1>3 DEF Handler, Cancelling, Others
<1>4. QED
  BY <1>1, <1>2, <1>3 DEF Next, Others

-----------------------------------------------------------------------------
(* Types.                                                                  *)

\* The types of the durable tables and of the bounds.
LEMMA RunTypesStep ==
  ASSUME RunTypes, ThreadTypes, ControlTypes, OutcomeInv, MailInv, Next
  PROVE  RunTypes'
<1>0. /\ \A r \in Run : worker[r] = "finishing" => outcome[r].state \in EndState
      /\ MaxRequests \in Nat /\ MaxEdits \in Nat /\ MaxCrashes \in Nat
  BY ProviderAssumption DEF OutcomeInv, Outcome, Writing
<1>1. ASSUME NEW r \in Run, Thread(r) PROVE RunTypes'
  <2>1. CASE Begin(r)
    BY <2>1 DEF Begin, RunTypes, LiveState, bounds
  <2>2. CASE ReportRunning(r)
    BY <2>2 DEF ReportRunning, RunTypes, LiveState, bounds
  <2>3. CASE Finish(r)
    BY <1>0, <2>3 DEF Finish, RunTypes, bounds
  <2>4. CASE Register(r) \/ Spawn(r) \/ SpawnFails(r) \/ AbandonStart(r)
    BY <2>4 DEF Register, Spawn, SpawnFails, AbandonStart, RunTypes, durable, bounds
  <2>5. CASE Advance(r) \/ Drain(r) \/ ReadRevisions(r) \/ Unregister(r) \/ Release(r)
    BY <2>5 DEF Advance, Stays, Drain, ReadRevisions, Unregister, Release, RunTypes, durable, bounds
  <2>6. QED
    BY <1>1, <2>1, <2>2, <2>3, <2>4, <2>5 DEF Thread
<1>2. ASSUME NEW c \in Client, Cancelling(c) PROVE RunTypes'
  <2>1. CASE \E r \in Run : PreflightCancel(c, r)
    BY <1>0, <2>1 DEF PreflightCancel, NewRequest, RunTypes, durable
  <2>2. CASE SendCancel(c) \/ SetToken(c) \/ ReceiveAck(c) \/ AckTimeout(c)
    BY <2>2 DEF SendCancel, SetToken, ReceiveAck, AckTimeout, RunTypes, durable, bounds
  <2>3. CASE RecordCancel(c)
    BY <2>3 DEF RecordCancel, RunTypes, LiveState, MailInv, bounds
  <2>4. QED
    BY <1>2, <2>1, <2>2, <2>3 DEF Cancelling
<1>3. CASE Others
  <2>1. CASE \E r \in Run : ClientComplete(r)
    BY <2>1 DEF ClientComplete, RunTypes, bounds
  <2>2. CASE \E r \in Run, s \in EndState : ClientFinish(r, s)
    BY <2>2 DEF ClientFinish, RunTypes, bounds
  <2>3. CASE \E R \in SUBSET Run, v \in BOOLEAN : EditCatalog(R, v)
    BY <1>0, <2>3 DEF EditCatalog, RunTypes
  <2>4. CASE CreateGraphExecution
    BY <1>0, <2>4 DEF CreateGraphExecution, RunTypes
  <2>5. CASE \E c \in Client : CheckActive(c) \/ Halt(c)
    BY <1>0, <2>5 DEF CheckActive, NewRequest, Halt, RunTypes, durable, bounds
  <2>6. CASE Signal \/ SignalShutdown
    BY <2>6 DEF Signal, SignalShutdown, RunTypes, durable, bounds
  <2>7. QED
    BY <1>3, <2>1, <2>2, <2>3, <2>4, <2>5, <2>6 DEF Others
<1>4. CASE Exit \/ Crash
  <2>1. lifecycle' = "down" /\ signalled' = FALSE /\ UNCHANGED durable
    BY <1>4 DEF Exit, Crash, ProcessEnds
  <2>2. requests' = requests /\ edits' = edits /\ crashes' \in 0..MaxCrashes
    BY <1>0, <1>4 DEF Exit, Crash, RunTypes, bounds
  <2>3. QED
    BY <2>1, <2>2 DEF RunTypes, durable
<1>5. CASE Open
  <2>1. run' \in [Run -> {"Absent"} \cup LiveState \cup EndState]
    BY <1>5 DEF Open, RunTypes, EndState
  <2>2. QED
    BY <1>5, <2>1 DEF Open, RunTypes, bounds
<1>6. QED
  BY <1>1, <1>2, <1>3, <1>4, <1>5, NextCases

\* What the three kinds of steps leave alone.
LEMMA OthersFrame ==
  Others => /\ UNCHANGED <<accepted, worker, outcome, refused, token, inbox, registry, active, ack>>
            /\ fresh' \in {fresh, {}}
<1>1. ASSUME NEW r \in Run, ClientComplete(r) \/ \E s \in EndState : ClientFinish(r, s)
      PROVE  /\ UNCHANGED <<accepted, worker, outcome, refused, token, inbox, registry, active, ack>>
             /\ fresh' \in {fresh, {}}
  BY <1>1 DEF ClientComplete, ClientFinish, control
<1>2. ASSUME NEW c \in Client, CheckActive(c) \/ Halt(c)
      PROVE  /\ UNCHANGED <<accepted, worker, outcome, refused, token, inbox, registry, active, ack>>
             /\ fresh' \in {fresh, {}}
  BY <1>2 DEF CheckActive, Halt, durable, threads
<1>3. ASSUME \/ Signal \/ SignalShutdown \/ CreateGraphExecution
             \/ \E R \in SUBSET Run, v \in BOOLEAN : EditCatalog(R, v)
      PROVE  /\ UNCHANGED <<accepted, worker, outcome, refused, token, inbox, registry, active, ack>>
             /\ fresh' \in {fresh, {}}
  BY <1>3 DEF Signal, SignalShutdown, EditCatalog, CreateGraphExecution, durable, threads, control
<1>4. QED
  BY <1>1, <1>2, <1>3 DEF Others

\* A cancel request moves no thread.
LEMMA CancellingFrame ==
  ASSUME NEW c \in Client, Cancelling(c)
  PROVE  /\ UNCHANGED <<open, bound, lifecycle, worker, outcome, refused, registry, active, signalled>>
         /\ fresh' \in {fresh, {}}
<1>1. ASSUME NEW r \in Run, PreflightCancel(c, r)
      PROVE  UNCHANGED <<open, bound, lifecycle, worker, outcome, refused, registry, active, signalled, fresh>>
  BY <1>1 DEF PreflightCancel, durable, threads
<1>2. ASSUME SendCancel(c) \/ SetToken(c) \/ AckTimeout(c)
      PROVE  UNCHANGED <<open, bound, lifecycle, worker, outcome, refused, registry, active, signalled, fresh>>
  BY <1>2 DEF SendCancel, SetToken, AckTimeout, durable
<1>3. ASSUME ReceiveAck(c)
      PROVE  UNCHANGED <<open, bound, lifecycle, worker, outcome, refused, registry, active, signalled, fresh>>
  BY <1>3 DEF ReceiveAck, durable, threads
<1>4. ASSUME RecordCancel(c)
      PROVE  /\ UNCHANGED <<open, bound, lifecycle, worker, outcome, refused, registry, active, signalled>>
             /\ fresh' \in {fresh, {}}
  BY <1>4 DEF RecordCancel
<1>5. QED
  BY <1>1, <1>2, <1>3, <1>4 DEF Cancelling

\* A thread moves nobody else.
LEMMA ThreadFrame ==
  ASSUME ThreadTypes, NEW r \in Run, Thread(r)
  PROVE  /\ UNCHANGED <<lifecycle, signalled, client, accepted>>
         /\ worker'[r] \in Phase /\ worker' = [worker EXCEPT ![r] = worker'[r]]
         /\ \A s \in Run : s # r => worker'[s] = worker[s]
         /\ \A s \in Run : s # r => outcome'[s] = outcome[s]
<1> DEFINE Frame == /\ UNCHANGED <<lifecycle, signalled, client, accepted>>
                    /\ worker'[r] \in Phase /\ worker' = [worker EXCEPT ![r] = worker'[r]]
                    /\ \A s \in Run : s # r => worker'[s] = worker[s]
                    /\ \A s \in Run : s # r => outcome'[s] = outcome[s]
<1>1. CASE Begin(r) \/ Register(r) \/ Spawn(r)
  BY <1>1 DEF Begin, Register, Spawn, Goto, ThreadTypes, Phase, durable, control
<1>2. CASE SpawnFails(r) \/ AbandonStart(r)
  BY <1>2 DEF SpawnFails, AbandonStart, Goto, ThreadTypes, Phase, durable, control
<1>3. CASE Advance(r)
  BY <1>3 DEF Advance, Stays, ThreadTypes, Phase, Busy, durable, control
<1>4. CASE ReportRunning(r)
  BY <1>4 DEF ReportRunning, Proceeds, Ends, Goto, ThreadTypes, Phase, control
<1>5. CASE Drain(r) \/ ReadRevisions(r)
  BY <1>5 DEF Drain, ReadRevisions, Goto, ThreadTypes, Phase, durable, control
<1>6. CASE Finish(r)
  BY <1>6 DEF Finish, Goto, ThreadTypes, Phase, control
<1>7. CASE Unregister(r) \/ Release(r)
  BY <1>7 DEF Unregister, Release, Goto, ThreadTypes, Phase, durable, control
<1>8. QED
  BY <1>1, <1>2, <1>3, <1>4, <1>5, <1>6, <1>7 DEF Thread

\* The types of what the threads share.
LEMMA ThreadTypesStep ==
  ASSUME ThreadTypes, ControlTypes, MailInv, Next
  PROVE  ThreadTypes'
<1>0. None \in Client \cup {None, "dropped"} /\ "dropped" \in Client \cup {None, "dropped"}
  OBVIOUS
<1>1. ASSUME NEW r \in Run, Thread(r) PROVE ThreadTypes'
  <2>1. worker' \in [Run -> Phase]
    BY <1>1, ThreadFrame DEF ThreadTypes
  <2>2. CASE Begin(r) \/ Register(r) \/ Spawn(r) \/ ReadRevisions(r) \/ Unregister(r) \/ Release(r)
    BY <2>1, <2>2 DEF Begin, Register, Spawn, ReadRevisions, Unregister, Release, ThreadTypes
  <2>3. CASE SpawnFails(r)
    BY <2>1, <2>3 DEF SpawnFails, ThreadTypes
  <2>4. CASE AbandonStart(r)
    <3>1. [state |-> "Uncertain", text |-> "none"] \in Outcome
      BY DEF Outcome, EndState
    <3>2. QED
      BY <2>1, <2>4, <3>1 DEF AbandonStart, ThreadTypes
  <2>5. CASE Advance(r)
    BY <2>1, <2>5 DEF Advance, Stays, ThreadTypes
  <2>6. CASE ReportRunning(r)
    <3>1. [state |-> "Uncertain", text |-> "none"] \in Outcome
      BY DEF Outcome, EndState
    <3>2. QED
      BY <2>1, <2>6, <3>1 DEF ReportRunning, Ends, Proceeds, ThreadTypes
  <2>7. CASE Drain(r)
    BY <2>1, <2>7 DEF Drain, ThreadTypes
  <2>8. CASE Finish(r)
    BY <2>1, <2>8 DEF Finish, RefusedWith, ThreadTypes
  <2>9. QED
    BY <1>1, <2>2, <2>3, <2>4, <2>5, <2>6, <2>7, <2>8 DEF Thread
<1>2. ASSUME NEW c \in Client, Cancelling(c) PROVE ThreadTypes'
  <2>0. UNCHANGED <<worker, outcome, refused, registry>> /\ fresh' \subseteq Run
    BY <1>2, CancellingFrame DEF ThreadTypes
  <2>1. CASE \E r \in Run : PreflightCancel(c, r)
    BY <2>0, <2>1 DEF PreflightCancel, ThreadTypes, threads
  <2>2. CASE SendCancel(c)
    BY <2>0, <2>2 DEF SendCancel, ThreadTypes
  <2>3. CASE SetToken(c)
    <3>1. client[c].run \in Run
      BY <2>3 DEF SetToken, MailInv
    <3>2. QED
      BY <2>0, <2>3, <3>1 DEF SetToken, ThreadTypes
  <2>4. CASE ReceiveAck(c) \/ RecordCancel(c)
    BY <2>0, <2>4 DEF ReceiveAck, RecordCancel, ThreadTypes, threads
  <2>5. CASE AckTimeout(c)
    BY <2>0, <2>5 DEF AckTimeout, ThreadTypes
  <2>6. QED
    BY <1>2, <2>1, <2>2, <2>3, <2>4, <2>5 DEF Cancelling
<1>3. CASE Others
  BY <1>3, OthersFrame DEF ThreadTypes
<1>4. CASE Exit \/ Crash
  <2>1. ProcessEnds
    BY <1>4 DEF Exit, Crash
  <2>2. QED
    BY <2>1 DEF ProcessEnds, ThreadTypes, Phase
<1>5. CASE Open
  BY <1>5 DEF Open, ThreadTypes, threads
<1>6. QED
  BY <1>1, <1>2, <1>3, <1>4, <1>5, NextCases

\* The types of what the requests keep.
LEMMA ControlTypesStep ==
  ASSUME ThreadTypes, ControlTypes, MailInv, Next
  PROVE  ControlTypes'
<1>0. Idle \in Request
  BY DEF Idle, Request
<1>1. ASSUME NEW r \in Run, Thread(r) PROVE ControlTypes'
  <2>0. client' = client
    BY <1>1, ThreadFrame
  <2>1. CASE SpawnFails(r)
    BY <2>0, <2>1 DEF SpawnFails, ControlTypes
  <2>2. CASE Drain(r)
    BY <2>0, <2>2 DEF Drain, Answer, ControlTypes
  <2>3. CASE Begin(r) \/ Register(r) \/ Spawn(r) \/ AbandonStart(r) \/ Advance(r)
    BY <2>0, <2>3 DEF Begin, Register, Spawn, AbandonStart, Advance, Stays, control, ControlTypes
  <2>4. CASE ReportRunning(r) \/ ReadRevisions(r) \/ Finish(r) \/ Unregister(r) \/ Release(r)
    BY <2>0, <2>4 DEF ReportRunning, ReadRevisions, Finish, Unregister, Release, control, ControlTypes
  <2>5. QED
    BY <1>1, <2>1, <2>2, <2>3, <2>4 DEF Thread
<1>2. ASSUME NEW c \in Client, Cancelling(c) PROVE ControlTypes'
  <2>1. CASE \E r \in Run : PreflightCancel(c, r)
    BY <2>1 DEF PreflightCancel, At, ControlTypes, Request
  <2>2. CASE SendCancel(c)
    BY <1>0, <2>2 DEF SendCancel, At, ControlTypes, Request
  <2>3. CASE SetToken(c)
    BY <2>3 DEF SetToken, At, ControlTypes, Request
  <2>4. CASE ReceiveAck(c)
    BY <1>0, <2>4 DEF ReceiveAck, At, ControlTypes, Request
  <2>5. CASE AckTimeout(c) \/ RecordCancel(c)
    BY <1>0, <2>5 DEF AckTimeout, RecordCancel, ControlTypes
  <2>6. QED
    BY <1>2, <2>1, <2>2, <2>3, <2>4, <2>5 DEF Cancelling
<1>3. CASE Others
  <2>1. CASE \E c \in Client : CheckActive(c)
    BY <2>1 DEF CheckActive, At, ControlTypes, Request
  <2>2. CASE \E c \in Client : Halt(c)
    BY <1>0, <2>2 DEF Halt, ControlTypes
  <2>3. CASE UNCHANGED control
    BY <2>3 DEF control, ControlTypes
  <2>4. QED
    BY <1>3, <2>1, <2>2, <2>3
    DEF Others, ClientComplete, ClientFinish, EditCatalog, CreateGraphExecution, Signal, SignalShutdown
<1>4. CASE Exit \/ Crash
  <2>1. ProcessEnds
    BY <1>4 DEF Exit, Crash
  <2>2. QED
    BY <1>0, <2>1 DEF ProcessEnds, ControlTypes
<1>5. CASE Open
  BY <1>5 DEF Open, ControlTypes, control
<1>6. QED
  BY <1>1, <1>2, <1>3, <1>4, <1>5, NextCases

-----------------------------------------------------------------------------
(* Workers, their registry and their number.                               *)

\* A worker gets to writing only with an outcome.
LEMMA OutcomeStep ==
  ASSUME ThreadTypes, OutcomeInv, Next
  PROVE  OutcomeInv'
<1>1. ASSUME NEW r \in Run, Thread(r) PROVE OutcomeInv'
  <2>1. ASSUME worker'[r] \in Writing \cup {"draining"} PROVE outcome'[r] \in Outcome
    <3>0. [state |-> "Uncertain", text |-> "none"] \in Outcome
      BY DEF Outcome, EndState
    <3>1. CASE AbandonStart(r)
      BY <3>0, <3>1 DEF AbandonStart, ThreadTypes
    <3>2. CASE ReportRunning(r)
      BY <2>1, <3>0, <3>2 DEF ReportRunning, Ends, Proceeds, Goto, ThreadTypes, Writing
    <3>3. CASE Advance(r)
      BY <2>1, <3>3 DEF Advance, ThreadTypes, Writing, Busy
    <3>4. CASE Drain(r) \/ ReadRevisions(r)
      BY <3>4 DEF Drain, ReadRevisions, OutcomeInv, Writing
    <3>5. CASE Finish(r)
      BY <2>1, <3>5 DEF Finish, Goto, ThreadTypes, OutcomeInv, Writing
    <3>6. CASE Begin(r) \/ Register(r) \/ Spawn(r) \/ SpawnFails(r) \/ Unregister(r) \/ Release(r)
      BY <2>1, <3>6 DEF Begin, Register, Spawn, SpawnFails, Unregister, Release, Goto, ThreadTypes,
                        Writing
    <3>7. QED
      BY <1>1, <3>1, <3>2, <3>3, <3>4, <3>5, <3>6 DEF Thread
  <2>2. QED
    BY <1>1, <2>1, ThreadFrame DEF OutcomeInv
<1>2. CASE Others \/ \E c \in Client : Cancelling(c)
  BY <1>2, OthersFrame, CancellingFrame DEF OutcomeInv
<1>3. CASE Exit \/ Crash
  BY <1>3 DEF Exit, Crash, ProcessEnds, OutcomeInv, Writing
<1>4. CASE Open
  BY <1>4 DEF Open, threads, OutcomeInv
<1>5. QED
  BY <1>1, <1>2, <1>3, <1>4, NextCases

\* Who enters and leaves the registry, and how the phase of r moves with it.
LEMMA RegistryMoves ==
  ASSUME ThreadTypes, RegistryInv, PhaseInv, NEW r \in Run, Thread(r)
  PROVE  /\ \/ registry' = registry
            \/ registry' = registry \cup {r}
            \/ registry' = registry \ {r}
         /\ worker'[r] \in Enrolled => r \in registry'
         /\ r \in registry' => worker'[r] \in Enrolled \cup Writing
<1>0. /\ worker[r] \in Enrolled => r \in registry
      /\ r \in registry => worker[r] \in Enrolled \cup Writing
  BY DEF RegistryInv
<1>1. CASE Begin(r)
  <2>1. worker'[r] = "begun" /\ registry' = registry
    BY <1>1 DEF Begin, Goto, ThreadTypes
  <2>2. worker[r] = "idle"
    BY <1>1 DEF Begin, PhaseInv
  <2>3. QED
    BY <1>0, <2>1, <2>2 DEF Enrolled, Busy, Writing
<1>2. CASE Register(r) \/ Spawn(r) \/ SpawnFails(r)
  BY <1>0, <1>2 DEF Register, Spawn, SpawnFails, Goto, ThreadTypes, Enrolled, Busy, Writing
<1>3. CASE AbandonStart(r) \/ Unregister(r)
  BY <1>3 DEF AbandonStart, Unregister, Goto, ThreadTypes, Enrolled, Busy, Writing
<1>4. CASE Advance(r)
  BY <1>0, <1>4 DEF Advance, Stays, ThreadTypes, Enrolled, Busy, Writing
<1>5. CASE ReportRunning(r)
  BY <1>0, <1>5 DEF ReportRunning, Ends, Proceeds, Goto, ThreadTypes, Enrolled, Busy, Writing
<1>6. CASE Drain(r) \/ ReadRevisions(r)
  BY <1>0, <1>6 DEF Drain, ReadRevisions, Goto, ThreadTypes, Enrolled, Busy, Writing
<1>7. CASE Finish(r) \/ Release(r)
  BY <1>0, <1>7 DEF Finish, Release, Goto, ThreadTypes, Enrolled, Busy, Writing
<1>8. QED
  BY <1>1, <1>2, <1>3, <1>4, <1>5, <1>6, <1>7 DEF Thread

\* The registry follows the phases.
LEMMA RegistryStep ==
  ASSUME ThreadTypes, RegistryInv, PhaseInv, Next
  PROVE  RegistryInv'
<1>1. ASSUME NEW r \in Run, Thread(r) PROVE RegistryInv'
  <2>1. \A s \in Run : s # r => worker'[s] = worker[s] /\ (s \in registry' <=> s \in registry)
    BY <1>1, ThreadFrame, RegistryMoves
  <2>2. /\ worker'[r] \in Enrolled => r \in registry'
        /\ r \in registry' => worker'[r] \in Enrolled \cup Writing
        /\ registry' \subseteq Run
    BY <1>1, RegistryMoves DEF ThreadTypes
  <2>3. QED
    BY <2>1, <2>2 DEF RegistryInv
<1>2. CASE Others \/ \E c \in Client : Cancelling(c)
  BY <1>2, OthersFrame, CancellingFrame DEF RegistryInv
<1>3. CASE Exit \/ Crash
  BY <1>3 DEF Exit, Crash, ProcessEnds, RegistryInv, Enrolled, Busy
<1>4. CASE Open
  BY <1>4 DEF Open, threads, RegistryInv
<1>5. QED
  BY <1>1, <1>2, <1>3, <1>4, NextCases

\* A run takes its place with its thread and gives it back after it has left
\* the registry.
LEMMA PlacesMove ==
  ASSUME ThreadTypes, RegistryInv, PhaseInv, NEW r \in Run, Thread(r)
  PROVE  \/ Spawn(r) /\ r \notin Places /\ Places' = Places \cup {r}
         \/ Release(r) /\ r \in Places /\ Places' = Places \ {r}
         \/ active' = active /\ Places' = Places
<1> DEFINE Has == worker[r] \in Seated \/ (worker[r] \in Writing /\ r \in registry)
           Gets == worker'[r] \in Seated \/ (worker'[r] \in Writing /\ r \in registry')
<1>1. \A s \in Run : s # r => (s \in Places' <=> s \in Places)
  <2>1. \A s \in Run : s # r => worker'[s] = worker[s] /\ (s \in registry' <=> s \in registry)
    BY ThreadFrame, RegistryMoves
  <2>2. QED
    BY <2>1 DEF Places
<1>2. (r \in Places <=> Has) /\ (r \in Places' <=> Gets) /\ Places \subseteq Run /\ Places' \subseteq Run
  BY DEF Places
<1>3. CASE Spawn(r)
  <2>1. ~Has /\ Gets
    BY <1>3 DEF Spawn, Goto, ThreadTypes, Seated, Busy, Writing
  <2>2. QED
    BY <1>1, <1>2, <1>3, <2>1
<1>4. CASE Release(r)
  <2>1. Has /\ ~Gets
    BY <1>4 DEF Release, Goto, ThreadTypes, Seated, Busy, Writing
  <2>2. QED
    BY <1>1, <1>2, <1>4, <2>1
<1>5. ASSUME ~Spawn(r), ~Release(r) PROVE active' = active /\ Places' = Places
  <2>1. (Has <=> Gets) /\ active' = active
    <3>1. CASE Begin(r)
      BY <3>1 DEF Begin, PhaseInv, Goto, ThreadTypes, Seated, Busy, Writing
    <3>2. CASE Register(r) \/ SpawnFails(r)
      BY <3>2 DEF Register, SpawnFails, Goto, ThreadTypes, Seated, Busy, Writing
    <3>3. CASE AbandonStart(r)
      BY <3>3 DEF AbandonStart, Goto, ThreadTypes, Seated, Busy, Writing
    <3>4. CASE Unregister(r)
      BY <3>4 DEF Unregister, Goto, ThreadTypes, Seated, Busy, Writing
    <3>5. CASE Advance(r)
      BY <3>5 DEF Advance, Stays, ThreadTypes, Seated, Busy, Writing
    <3>6. CASE ReportRunning(r)
      BY <3>6 DEF ReportRunning, Ends, Proceeds, Goto, ThreadTypes, Seated, Busy, Writing
    <3>7. CASE Drain(r)
      <4>1. r \in registry
        BY <3>7 DEF Drain, RegistryInv, Enrolled
      <4>2. QED
        BY <3>7, <4>1 DEF Drain, Goto, ThreadTypes, Seated, Busy, Writing
    <3>8. CASE ReadRevisions(r)
      BY <3>8 DEF ReadRevisions, Goto, ThreadTypes, Seated, Busy, Writing
    <3>9. CASE Finish(r)
      BY <3>9 DEF Finish, Goto, ThreadTypes, Seated, Busy, Writing
    <3>10. QED
      BY <1>5, <3>1, <3>2, <3>3, <3>4, <3>5, <3>6, <3>7, <3>8, <3>9 DEF Thread
  <2>2. QED
    BY <1>1, <1>2, <2>1
<1>6. QED
  BY <1>3, <1>4, <1>5

\* The places are never more than the runs.
LEMMA PlacesFinite ==
  IsFiniteSet(Places) /\ Cardinality(Places) \in 0..Cardinality(Run)
<1>1. Places \subseteq Run
  BY DEF Places
<1>2. IsFiniteSet(Run)
  BY ProviderAssumption
<1>3. IsFiniteSet(Places) /\ Cardinality(Places) <= Cardinality(Run)
  BY <1>1, <1>2, FS_Subset
<1>4. Cardinality(Places) \in Nat /\ Cardinality(Run) \in Nat
  BY <1>2, <1>3, FS_CardinalityType
<1>5. QED
  BY <1>3, <1>4

\* The counter is the number of places taken.
LEMMA CountStep ==
  ASSUME ThreadTypes, RegistryInv, PhaseInv, CountInv, Next
  PROVE  CountInv'
<1>0. IsFiniteSet(Places) /\ Cardinality(Places) \in Nat
  BY PlacesFinite
<1>1. ASSUME NEW r \in Run, Thread(r) PROVE CountInv'
  <2>1. CASE Spawn(r) /\ r \notin Places /\ Places' = Places \cup {r}
    <3>1. Cardinality(Places \cup {r}) = Cardinality(Places) + 1
      BY <1>0, <2>1, FS_AddElement
    <3>2. QED
      BY <2>1, <3>1 DEF Spawn, CountInv
  <2>2. CASE Release(r) /\ r \in Places /\ Places' = Places \ {r}
    <3>1. Cardinality(Places \ {r}) = Cardinality(Places) - 1
      BY <1>0, <2>2, FS_RemoveElement
    <3>2. QED
      BY <2>2, <3>1 DEF Release, CountInv
  <2>3. CASE active' = active /\ Places' = Places
    BY <2>3 DEF CountInv
  <2>4. QED
    BY <1>1, <2>1, <2>2, <2>3, PlacesMove
<1>2. CASE Others \/ \E c \in Client : Cancelling(c)
  <2>1. UNCHANGED <<worker, registry, active>>
    BY <1>2, OthersFrame, CancellingFrame
  <2>2. QED
    BY <2>1 DEF CountInv, Places
<1>3. CASE Exit \/ Crash
  <2>1. active' = 0 /\ \A r \in Run : worker'[r] \in {"idle", "gone"}
    BY <1>3 DEF Exit, Crash, ProcessEnds
  <2>2. Places' = {}
    BY <2>1 DEF Places, Seated, Busy, Writing
  <2>3. QED
    BY <2>1, <2>2, FS_EmptySet DEF CountInv
<1>4. CASE Open
  BY <1>4 DEF Open, threads, CountInv, Places
<1>5. QED
  BY <1>1, <1>2, <1>3, <1>4, NextCases

-----------------------------------------------------------------------------
(* Runs, the process and the requests.                                     *)

\* What a thread does to its run: nothing to any other, and never back to Absent.
LEMMA ThreadRuns ==
  ASSUME RunTypes, ThreadTypes, OutcomeInv, PhaseInv, NEW r \in Run, Thread(r)
  PROVE  /\ \A s \in Run : s # r => run'[s] = run[s]
         /\ run'[r] # "Absent" /\ worker'[r] \notin {"idle", "gone"}
         /\ lifecycle # "down"
<1>0. /\ lifecycle = "down" => worker[r] \in {"idle", "gone"}
      /\ run[r] = "Absent" <=> worker[r] = "idle"
      /\ worker[r] = "finishing" => outcome[r].state \in EndState
  BY DEF PhaseInv, OutcomeInv, Outcome, Writing
<1>1. CASE Begin(r)
  BY <1>0, <1>1 DEF Begin, Goto, RunTypes, ThreadTypes
<1>2. CASE Register(r) \/ Spawn(r) \/ SpawnFails(r) \/ AbandonStart(r)
  BY <1>0, <1>2 DEF Register, Spawn, SpawnFails, AbandonStart, Goto, ThreadTypes, durable
<1>3. CASE Advance(r)
  BY <1>0, <1>3 DEF Advance, Stays, ThreadTypes, Busy, durable
<1>4. CASE ReportRunning(r)
  BY <1>0, <1>4 DEF ReportRunning, Ends, Proceeds, Goto, RunTypes, ThreadTypes, LiveState
<1>5. CASE Drain(r) \/ ReadRevisions(r) \/ Unregister(r) \/ Release(r)
  BY <1>0, <1>5 DEF Drain, ReadRevisions, Unregister, Release, Goto, ThreadTypes, durable
<1>6. CASE Finish(r)
  BY <1>0, <1>6 DEF Finish, Goto, RunTypes, ThreadTypes, EndState
<1>7. QED
  BY <1>1, <1>2, <1>3, <1>4, <1>5, <1>6 DEF Thread

\* A step of a request or of a signal turns no run into a live one and begins none.
LEMMA OthersRuns ==
  ASSUME RunTypes, Others
  PROVE  \A s \in Run : /\ run'[s] = "Absent" <=> run[s] = "Absent"
                        /\ run'[s] \in LiveState => run'[s] = run[s]
<1>1. CASE UNCHANGED run
  BY <1>1
<1>2. ASSUME NEW r \in Run, NEW s \in EndState, ClientFinish(r, s)
      PROVE  \A t \in Run : /\ run'[t] = "Absent" <=> run[t] = "Absent"
                            /\ run'[t] \in LiveState => run'[t] = run[t]
  BY <1>2 DEF ClientFinish, RunTypes, LiveState, EndState
<1>3. QED
  BY <1>1, <1>2 DEF Others, ClientComplete, EditCatalog, CreateGraphExecution, CheckActive, Halt, Signal, SignalShutdown,
                    durable

\* A run that began has a worker, and a dead process has none.
LEMMA PhaseStep ==
  ASSUME RunTypes, ThreadTypes, ControlTypes, OutcomeInv, PhaseInv, MailInv, Next
  PROVE  PhaseInv'
<1>1. ASSUME NEW r \in Run, Thread(r) PROVE PhaseInv'
  <2>1. /\ lifecycle # "down" /\ lifecycle' = lifecycle
        /\ run'[r] # "Absent" /\ worker'[r] \notin {"idle", "gone"}
        /\ \A s \in Run : s # r => run'[s] = run[s] /\ worker'[s] = worker[s]
    BY <1>1, ThreadFrame, ThreadRuns
  <2>2. QED
    BY <2>1 DEF PhaseInv, Up
<1>2. ASSUME NEW c \in Client, Cancelling(c) PROVE PhaseInv'
  <2>1. worker' = worker /\ lifecycle' = lifecycle
    BY <1>2, CancellingFrame
  <2>2. lifecycle # "down"
    <3>1. lifecycle = "down" => client[c] = Idle
      BY DEF PhaseInv
    <3>2. QED
      BY <1>2, <3>1 DEF Cancelling, PreflightCancel, NewRequest, SendCancel, SetToken, ReceiveAck,
                        AckTimeout, RecordCancel, Idle
  <2>3. CASE UNCHANGED run
    BY <2>1, <2>2, <2>3 DEF PhaseInv, Up
  <2>4. ASSUME RecordCancel(c) PROVE PhaseInv'
    <3>1. PICK r \in Run : r = client[c].run
      BY <2>4 DEF RecordCancel, MailInv
    <3>2. worker[r] \notin {"idle", "gone"}
      BY <2>4, <3>1 DEF RecordCancel, MailInv
    <3>3. run'[r] # "Absent" /\ \A s \in Run : s # r => run'[s] = run[s]
      BY <2>4, <3>1, <3>2 DEF RecordCancel, RunTypes, PhaseInv
    <3>4. QED
      BY <2>1, <2>2, <3>2, <3>3 DEF PhaseInv, Up
  <2>5. QED
    BY <1>2, <2>3, <2>4 DEF Cancelling, PreflightCancel, SendCancel, SetToken, ReceiveAck,
                            AckTimeout, durable
<1>3. CASE Others
  <2>1. worker' = worker
    BY <1>3, OthersFrame
  <2>2. lifecycle # "down" /\ lifecycle' \in {"ready", "stopping"} /\ (Up' => Up)
    <3>1. lifecycle = "down" => \A c \in Client : client[c] = Idle
      BY DEF PhaseInv
    <3>2. QED
      BY <1>3, <3>1 DEF Others, ClientComplete, ClientFinish, EditCatalog, CreateGraphExecution, CheckActive, NewRequest,
                        Halt, Signal, SignalShutdown, Idle, RunTypes, Up
  <2>3. QED
    BY <1>3, <2>1, <2>2, OthersRuns DEF PhaseInv, Up
<1>4. CASE Exit \/ Crash
  <2>1. ProcessEnds
    BY <1>4 DEF Exit, Crash
  <2>2. QED
    BY <2>1 DEF ProcessEnds, PhaseInv, Up, durable
<1>5. CASE Open
  <2>1. /\ lifecycle' = "ready" /\ worker' = worker
        /\ \A r \in Run : run'[r] = IF run[r] \in LiveState THEN "Uncertain" ELSE run[r]
    BY <1>5 DEF Open, threads
  <2>2. \A r \in Run : run'[r] \notin LiveState /\ (run'[r] = "Absent" <=> run[r] = "Absent")
    BY <2>1 DEF LiveState
  <2>3. QED
    BY <2>1, <2>2 DEF PhaseInv
<1>6. QED
  BY <1>1, <1>2, <1>3, <1>4, <1>5, NextCases

\* A request in a channel has a client that waits for it.
LEMMA MailStep ==
  ASSUME RunTypes, ThreadTypes, ControlTypes, OutcomeInv, PhaseInv, MailInv, Next
  PROVE  MailInv'
<1>0. None \notin Client /\ "dropped" \notin Client /\ None \notin {"accepted", "rejected"}
  BY ProviderAssumption
<1>1. ASSUME NEW r \in Run, Thread(r) PROVE MailInv'
  <2>1. client' = client /\ worker'[r] \notin {"idle", "gone"}
        /\ \A s \in Run : s # r => worker'[s] = worker[s]
    BY <1>1, ThreadFrame, ThreadRuns
  <2>2. \A c \in Client : client'[c].pc \in {"checked", "sent", "waiting", "accepted"} =>
          client'[c].run \in Run /\ worker'[client'[c].run] \notin {"idle", "gone"}
    BY <2>1 DEF MailInv
  <2>3. CASE UNCHANGED <<inbox, ack>>
    BY <2>1, <2>2, <2>3 DEF MailInv
  <2>4. CASE SpawnFails(r)
    <3>1. /\ inbox' = [inbox EXCEPT ![r] = "dropped"]
          /\ ack' = [c \in Client |-> IF inbox[r] = c THEN "rejected" ELSE ack[c]]
      BY <2>4 DEF SpawnFails
    <3>2. \A c \in Client, s \in Run : inbox'[s] = c =>
            client[c].run = s /\ client[c].pc \in {"sent", "waiting"} /\ ack'[c] = None
      BY <1>0, <3>1 DEF ThreadTypes, MailInv
    <3>3. \A c \in Client : ack'[c] # None => client[c].pc \in {"sent", "waiting"}
      BY <3>1 DEF MailInv
    <3>4. QED
      BY <2>1, <2>2, <3>2, <3>3 DEF MailInv
  <2>5. CASE Drain(r) /\ inbox[r] # None
    <3>1. /\ inbox' = [inbox EXCEPT ![r] = None]
          /\ ack' = [c \in Client |-> IF inbox[r] = c THEN Answer(r) ELSE ack[c]]
      BY <2>5 DEF Drain
    <3>2. \A c \in Client, s \in Run : inbox'[s] = c =>
            client[c].run = s /\ client[c].pc \in {"sent", "waiting"} /\ ack'[c] = None
      BY <1>0, <3>1 DEF ThreadTypes, MailInv
    <3>3. \A c \in Client : ack'[c] # None => client[c].pc \in {"sent", "waiting"}
      BY <3>1 DEF MailInv
    <3>4. QED
      BY <2>1, <2>2, <3>2, <3>3 DEF MailInv
  <2>6. CASE ack' = ack /\ inbox' = [inbox EXCEPT ![r] = None]
    <3>1. \A c \in Client, s \in Run : inbox'[s] = c => inbox[s] = c
      BY <1>0, <2>6 DEF ThreadTypes
    <3>2. QED
      BY <2>1, <2>2, <2>6, <3>1 DEF MailInv
  <2>7. Begin(r) \/ Register(r) \/ Spawn(r) \/ AbandonStart(r) \/ Advance(r) \/ Unregister(r) =>
          ack' = ack /\ (inbox' = inbox \/ inbox' = [inbox EXCEPT ![r] = None])
    BY DEF Begin, Register, Spawn, AbandonStart, Advance, Stays, Unregister, control
  <2>8. ReportRunning(r) \/ ReadRevisions(r) \/ Finish(r) \/ Release(r)
          \/ (Drain(r) /\ inbox[r] = None)
          => ack' = ack /\ (inbox' = inbox \/ inbox' = [inbox EXCEPT ![r] = None])
    BY DEF ReportRunning, ReadRevisions, Finish, Release, Drain, control
  <2>9. QED
    BY <1>1, <2>3, <2>4, <2>5, <2>6, <2>7, <2>8 DEF Thread
<1>2. ASSUME NEW c \in Client, Cancelling(c) PROVE MailInv'
  <2>0. worker' = worker
    BY <1>2, CancellingFrame
  <2>1. ASSUME NEW r \in Run, PreflightCancel(c, r) PROVE MailInv'
    <3>1. /\ client[c] = Idle /\ client' = [client EXCEPT ![c] = [pc |-> "checked", run |-> r]]
          /\ UNCHANGED <<inbox, ack>> /\ run[r] \in LiveState /\ Up
      BY <2>1 DEF PreflightCancel, NewRequest, At, threads, LiveState, Up
    <3>2. worker[r] \notin {"idle", "gone"}
      BY <3>1 DEF PhaseInv, LiveState
    <3>3. QED
      BY <2>0, <3>1, <3>2 DEF MailInv, ControlTypes, Idle
  <2>2. CASE SendCancel(c)
    <3>1. PICK r \in Run : r = client[c].run
      BY <2>2 DEF SendCancel, MailInv
    <3>2. client[c].pc = "checked" /\ ack' = ack /\ ack[c] = None
      BY <2>2 DEF SendCancel, MailInv
    <3>3. CASE /\ inbox[r] = None
               /\ client' = [client EXCEPT ![c] = [pc |-> "sent", run |-> r]]
               /\ inbox' = [inbox EXCEPT ![r] = c]
      BY <2>0, <3>1, <3>2, <3>3 DEF MailInv, ControlTypes, ThreadTypes
    <3>4. CASE client' = [client EXCEPT ![c] = Idle] /\ inbox' = inbox
      BY <2>0, <3>2, <3>4 DEF MailInv, ControlTypes, Idle
    <3>5. QED
      BY <2>2, <3>1, <3>3, <3>4 DEF SendCancel, At
  <2>3. CASE SetToken(c)
    BY <2>0, <2>3 DEF SetToken, At, MailInv, ControlTypes
  <2>4. CASE ReceiveAck(c)
    <3>1. /\ client[c].pc = "waiting" /\ ack[c] # None /\ ack' = [ack EXCEPT ![c] = None]
          /\ inbox' = inbox
          /\ \/ client' = [client EXCEPT ![c] = [pc |-> "accepted", run |-> client[c].run]]
             \/ client' = [client EXCEPT ![c] = Idle]
      BY <2>4 DEF ReceiveAck, At, threads
    <3>2. QED
      BY <2>0, <3>1 DEF MailInv, ControlTypes, Idle
  <2>5. CASE AckTimeout(c)
    <3>1. /\ client[c].pc = "waiting" /\ ack[c] = None /\ ack' = ack
          /\ client' = [client EXCEPT ![c] = Idle]
          /\ inbox' = [r \in Run |-> IF inbox[r] = c THEN "dropped" ELSE inbox[r]]
      BY <2>5 DEF AckTimeout
    <3>2. QED
      BY <1>0, <2>0, <3>1 DEF MailInv, ControlTypes, ThreadTypes, Idle
  <2>6. CASE RecordCancel(c)
    BY <2>0, <2>6 DEF RecordCancel, MailInv, ControlTypes, Idle
  <2>7. QED
    BY <1>2, <2>1, <2>2, <2>3, <2>4, <2>5, <2>6 DEF Cancelling
<1>3. CASE Others
  <2>0. UNCHANGED <<worker, inbox, ack>>
    BY <1>3, OthersFrame
  <2>1. ASSUME NEW c \in Client, CheckActive(c) PROVE MailInv'
    BY <2>0, <2>1 DEF CheckActive, NewRequest, At, MailInv, ControlTypes, Idle
  <2>2. ASSUME NEW c \in Client, Halt(c) PROVE MailInv'
    BY <2>0, <2>2 DEF Halt, MailInv, ControlTypes, Idle
  <2>3. CASE UNCHANGED client
    BY <2>0, <2>3 DEF MailInv
  <2>4. QED
    BY <1>3, <2>1, <2>2, <2>3
    DEF Others, ClientComplete, ClientFinish, EditCatalog, CreateGraphExecution, Signal, SignalShutdown, control
<1>4. CASE Exit \/ Crash
  <2>1. ProcessEnds
    BY <1>4 DEF Exit, Crash
  <2>2. QED
    BY <1>0, <2>1 DEF ProcessEnds, MailInv, Idle
<1>5. CASE Open
  BY <1>5 DEF Open, MailInv, control, threads
<1>6. QED
  BY <1>1, <1>2, <1>3, <1>4, <1>5, NextCases

-----------------------------------------------------------------------------
(* The invariant that needs no assumption on the routes.                   *)

\* The type invariant follows.
LEMMA TypesOfParts ==
  ASSUME ExecutorInv
  PROVE  TypeOK
<1>1. active \in 0..Cardinality(Run)
  BY PlacesFinite DEF ExecutorInv, CountInv
<1>2. QED
  BY <1>1 DEF ExecutorInv, RunTypes, ThreadTypes, ControlTypes, Request, TypeOK

\* A daemon that was just started.
LEMMA InitExecutor == Init => ExecutorInv
<1> SUFFICES ASSUME Init PROVE ExecutorInv
  OBVIOUS
<1>0. /\ None \notin Client /\ "dropped" \notin Client
      /\ MaxRequests \in Nat /\ MaxEdits \in Nat /\ MaxCrashes \in Nat
  BY ProviderAssumption
<1>1. RunTypes
  <2>1. run \in [Run -> {"Absent"} \cup LiveState \cup EndState]
    BY DEF Init
  <2>2. 0 \in 0..MaxRequests /\ 0 \in 0..MaxEdits /\ 0 \in 0..MaxCrashes
    BY <1>0
  <2>3. QED
    BY <2>1, <2>2 DEF Init, RunTypes
<1>2. ThreadTypes
  BY DEF Init, ThreadTypes, Phase
<1>3. ControlTypes
  BY DEF Init, ControlTypes, Request, Idle
<1>4. OutcomeInv /\ RegistryInv
  BY DEF Init, OutcomeInv, RegistryInv, Writing, Enrolled, Busy
<1>5. CountInv
  <2>1. Places = {} /\ active = 0
    BY DEF Init, Places, Seated, Busy, Writing
  <2>2. QED
    BY <2>1, FS_EmptySet DEF CountInv
<1>6. PhaseInv
  BY DEF Init, PhaseInv, LiveState
<1>7. MailInv
  BY <1>0 DEF Init, MailInv, Idle
<1>8. QED
  BY <1>1, <1>2, <1>3, <1>4, <1>5, <1>6, <1>7 DEF ExecutorInv

\* One step.
LEMMA StepExecutor == ExecutorInv /\ [Next]_vars => ExecutorInv'
<1> SUFFICES ASSUME ExecutorInv, [Next]_vars PROVE ExecutorInv'
  OBVIOUS
<1>0. /\ RunTypes /\ ThreadTypes /\ ControlTypes
      /\ OutcomeInv /\ RegistryInv /\ CountInv /\ PhaseInv /\ MailInv
  BY DEF ExecutorInv
<1>1. CASE Next
  <2>1. RunTypes' /\ ThreadTypes' /\ ControlTypes'
    BY <1>0, <1>1, RunTypesStep, ThreadTypesStep, ControlTypesStep
  <2>2. OutcomeInv' /\ RegistryInv' /\ CountInv' /\ PhaseInv' /\ MailInv'
    BY <1>0, <1>1, OutcomeStep, RegistryStep, CountStep, PhaseStep, MailStep
  <2>3. QED
    BY <2>1, <2>2 DEF ExecutorInv
<1>2. CASE UNCHANGED vars
  <2>1. UNCHANGED durable /\ UNCHANGED threads /\ UNCHANGED control /\ UNCHANGED bounds
        /\ UNCHANGED <<lifecycle, signalled>>
    BY <1>2 DEF vars
  <2>2. RunTypes' /\ ThreadTypes' /\ ControlTypes'
    BY <1>0, <2>1 DEF durable, threads, control, bounds, RunTypes, ThreadTypes, ControlTypes
  <2>3. OutcomeInv' /\ RegistryInv' /\ CountInv'
    BY <1>0, <2>1 DEF threads, OutcomeInv, RegistryInv, CountInv, Places
  <2>4. PhaseInv' /\ MailInv'
    BY <1>0, <2>1 DEF durable, threads, control, PhaseInv, MailInv, Up
  <2>5. QED
    BY <2>2, <2>3, <2>4 DEF ExecutorInv
<1>3. QED
  BY <1>1, <1>2

\* Whatever clients, threads and the process do, the registry, the counter of active
\* threads, the channels and the phases agree as ExecutorInv says
\* (provider_executor.rs: RunControllerRegistry, RegistrationGuard; lib.rs: cancel_run).
THEOREM ExecutorInvariant == Spec => []ExecutorInv
  BY InitExecutor, StepExecutor, PTL DEF Spec

-----------------------------------------------------------------------------
(* Terminal states.                                                        *)

\* A terminal state is final, whoever comes late, on every route
\* (provider_executor.rs: finish_graph_node_run; lib.rs: record_provider_cancel).
THEOREM TerminalStaysFinal == Spec => TerminalIsFinal
<1>1. ExecutorInv /\ [Next]_vars => [\A r \in Run : run[r] \in EndState => run'[r] = run[r]]_vars
  <2> SUFFICES ASSUME ExecutorInv, Next, NEW t \in Run, run[t] \in EndState PROVE run'[t] = run[t]
    OBVIOUS
  <2>0. /\ RunTypes /\ ThreadTypes /\ OutcomeInv /\ PhaseInv /\ MailInv
        /\ run[t] \notin LiveState /\ run[t] # "Absent"
    BY DEF ExecutorInv, EndState, LiveState
  <2>1. ASSUME NEW r \in Run, Thread(r) PROVE run'[t] = run[t]
    <3>1. CASE r # t
      BY <2>0, <2>1, <3>1, ThreadRuns
    <3>2. CASE r = t
      <4>1. Begin(t) \/ Register(t) \/ Spawn(t) \/ SpawnFails(t) \/ AbandonStart(t) \/ Advance(t) =>
              run' = run
        BY <2>0 DEF Begin, Register, Spawn, SpawnFails, AbandonStart, Advance, Stays, durable
      <4>2. ReportRunning(t) \/ Finish(t) => run' = run
        BY <2>0 DEF ReportRunning, Finish
      <4>3. Drain(t) \/ ReadRevisions(t) \/ Unregister(t) \/ Release(t) => run' = run
        BY DEF Drain, ReadRevisions, Unregister, Release, durable
      <4>4. QED
        BY <2>1, <3>2, <4>1, <4>2, <4>3 DEF Thread
    <3>3. QED
      BY <3>1, <3>2
  <2>2. ASSUME NEW c \in Client, Cancelling(c) PROVE run'[t] = run[t]
    BY <2>0, <2>2 DEF Cancelling, PreflightCancel, SendCancel, SetToken, ReceiveAck, AckTimeout,
                      RecordCancel, durable, RunTypes
  <2>3. CASE Others
    BY <2>0, <2>3 DEF Others, ClientComplete, ClientFinish, EditCatalog, CreateGraphExecution, CheckActive, Halt, Signal,
                      SignalShutdown, durable, RunTypes
  <2>4. CASE Exit \/ Crash
    BY <2>4 DEF Exit, Crash, ProcessEnds, durable
  <2>5. CASE Open
    BY <2>0, <2>5 DEF Open
  <2>6. QED
    BY <2>1, <2>2, <2>3, <2>4, <2>5, NextCases
<1>2. QED
  BY <1>1, ExecutorInvariant, PTL DEF Spec, TerminalIsFinal

-----------------------------------------------------------------------------
(* Without the finish route the worker alone ends its run.                 *)

\* While its worker is at work a run stays live, and leaves that state only with
\* the step that takes the worker out of it.
LEMMA OwnedStep ==
  ASSUME "finish" \notin Route, ExecutorInv, OwnedInv, Next
  PROVE  OwnedInv'
<1>0. RunTypes /\ ThreadTypes /\ ControlTypes /\ OutcomeInv /\ PhaseInv /\ MailInv
  BY DEF ExecutorInv
<1>1. ASSUME NEW r \in Run, Thread(r) PROVE OwnedInv'
  <2>1. \A s \in Run : s # r => run'[s] = run[s] /\ worker'[s] = worker[s]
    BY <1>0, <1>1, ThreadFrame, ThreadRuns
  <2>2. worker'[r] \in AtWork => run'[r] \in LiveState
    <3>0. worker[r] \in AtWork => run[r] \in LiveState
      BY DEF OwnedInv
    <3>1. CASE Begin(r)
      BY <1>0, <3>1 DEF Begin, RunTypes, LiveState
    <3>2. CASE Register(r) \/ Spawn(r) \/ SpawnFails(r) \/ AbandonStart(r)
      BY <3>0, <3>2 DEF Register, Spawn, SpawnFails, AbandonStart, durable, AtWork, Busy
    <3>3. CASE Advance(r)
      BY <3>0, <3>3 DEF Advance, Stays, durable, AtWork
    <3>4. CASE ReportRunning(r)
      BY <1>0, <3>0, <3>4 DEF ReportRunning, RunTypes, LiveState, AtWork, Busy
    <3>5. CASE Drain(r) \/ ReadRevisions(r)
      BY <3>0, <3>5 DEF Drain, ReadRevisions, durable, AtWork, Writing
    <3>6. CASE Finish(r)
      BY <1>0, <3>0, <3>6 DEF Finish, Goto, ThreadTypes, AtWork, Busy, Writing
    <3>7. CASE Unregister(r) \/ Release(r)
      BY <1>0, <3>7 DEF Unregister, Release, Goto, ThreadTypes, AtWork, Busy, Writing
    <3>8. QED
      BY <1>1, <3>1, <3>2, <3>3, <3>4, <3>5, <3>6, <3>7 DEF Thread
  <2>3. QED
    BY <2>1, <2>2 DEF OwnedInv
<1>2. ASSUME NEW c \in Client, Cancelling(c) PROVE OwnedInv'
  <2>1. worker' = worker
    BY <1>2, CancellingFrame
  <2>2. \A s \in Run : run[s] \in LiveState => run'[s] \in LiveState
    BY <1>0, <1>2 DEF Cancelling, PreflightCancel, SendCancel, SetToken, ReceiveAck, AckTimeout,
                      RecordCancel, durable, RunTypes, LiveState
  <2>3. QED
    BY <2>1, <2>2 DEF OwnedInv
<1>3. CASE Others
  <2>1. worker' = worker /\ run' = run
    BY <1>3, OthersFrame DEF Others, ClientComplete, ClientFinish, EditCatalog, CreateGraphExecution, CheckActive, Halt,
                             Signal, SignalShutdown, durable
  <2>2. QED
    BY <2>1 DEF OwnedInv
<1>4. CASE Exit \/ Crash
  BY <1>4 DEF Exit, Crash, ProcessEnds, OwnedInv, AtWork, Busy, Writing
<1>5. CASE Open
  BY <1>0, <1>5 DEF Open, threads, PhaseInv, OwnedInv, AtWork, Busy, Writing
<1>6. QED
  BY <1>1, <1>2, <1>3, <1>4, <1>5, NextCases

\* A daemon that is stopping begins nothing, and stops only when nothing is live.
LEMMA StopStep ==
  ASSUME ExecutorInv, StopInv, Next
  PROVE  StopInv'
<1>0. RunTypes /\ ThreadTypes /\ OutcomeInv /\ PhaseInv
  BY DEF ExecutorInv
<1>1. ASSUME NEW r \in Run, Thread(r) PROVE StopInv'
  <2>1. lifecycle' = lifecycle /\ \A s \in Run : s # r => run'[s] = run[s]
    BY <1>0, <1>1, ThreadFrame, ThreadRuns
  <2>2. lifecycle = "stopping" => run' = run
    <3>1. ASSUME lifecycle = "stopping" PROVE ~(run[r] \in LiveState)
      BY <3>1 DEF StopInv
    <3>2. Begin(r) \/ ReportRunning(r) \/ Finish(r) => (lifecycle = "stopping" => run' = run)
      BY <3>1 DEF Begin, ReportRunning, Finish
    <3>3. Register(r) \/ Spawn(r) \/ SpawnFails(r) \/ AbandonStart(r) \/ Advance(r) => run' = run
      BY DEF Register, Spawn, SpawnFails, AbandonStart, Advance, Stays, durable
    <3>4. Drain(r) \/ ReadRevisions(r) \/ Unregister(r) \/ Release(r) => run' = run
      BY DEF Drain, ReadRevisions, Unregister, Release, durable
    <3>5. QED
      BY <1>1, <3>2, <3>3, <3>4 DEF Thread
  <2>3. QED
    BY <2>1, <2>2 DEF StopInv
<1>2. ASSUME NEW c \in Client, Cancelling(c) PROVE StopInv'
  <2>1. lifecycle' = lifecycle
    BY <1>2, CancellingFrame
  <2>2. (run' = run) \/ \E s \in Run : run[s] \in LiveState
    <3>1. CASE RecordCancel(c)
      BY <3>1 DEF RecordCancel, ExecutorInv, MailInv
    <3>2. QED
      BY <1>2, <3>1 DEF Cancelling, PreflightCancel, SendCancel, SetToken, ReceiveAck, AckTimeout,
                        durable
  <2>3. QED
    BY <2>1, <2>2 DEF StopInv
<1>3. CASE Others
  <2>1. \A s \in Run : run'[s] \in LiveState => run[s] \in LiveState
    BY <1>0, <1>3, OthersRuns
  <2>2. lifecycle' = "stopping" => lifecycle = "stopping" \/ ~ProviderActive
    BY <1>3 DEF Others, ClientComplete, ClientFinish, EditCatalog, CreateGraphExecution, CheckActive, Halt, Signal,
                SignalShutdown
  <2>3. QED
    BY <2>1, <2>2 DEF StopInv, ProviderActive
<1>4. CASE Exit \/ Crash \/ Open
  BY <1>4 DEF Exit, Crash, ProcessEnds, Open, StopInv
<1>5. QED
  BY <1>1, <1>2, <1>3, <1>4, NextCases

\* A worker that has the outcome Cancelled writes it, or nobody writes another.
LEMMA PromiseKept ==
  ASSUME "finish" \notin Route, ExecutorInv, OwnedInv, Next, NEW r \in Run, Promised(r)
  PROVE  Promised(r)' \/ worker'[r] = "gone"
<1>0. RunTypes /\ ThreadTypes /\ ControlTypes /\ OutcomeInv /\ PhaseInv /\ MailInv
  BY DEF ExecutorInv
<1>1. ASSUME NEW s \in Run, Thread(s), s # r PROVE Promised(r)'
  <2>1. worker'[r] = worker[r] /\ outcome'[r] = outcome[r] /\ run'[r] = run[r]
    BY <1>0, <1>1, ThreadFrame, ThreadRuns
  <2>2. QED
    BY <2>1 DEF Promised
<1>2. ASSUME Thread(r) PROVE Promised(r)'
  <2>0. worker[r] \in Writing \cup {"draining"} \cup Left
    BY DEF Promised
  <2>1. CASE Begin(r)
    BY <1>0, <2>0, <2>1 DEF Begin, PhaseInv, Writing, Left
  <2>2. CASE Register(r) \/ Spawn(r) \/ SpawnFails(r) \/ AbandonStart(r) \/ Advance(r)
             \/ ReportRunning(r)
    BY <2>0, <2>2 DEF Register, Spawn, SpawnFails, AbandonStart, Advance, ReportRunning, Writing,
                      Left, Busy
  <2>3. CASE Drain(r) \/ ReadRevisions(r)
    BY <1>0, <2>3 DEF Drain, ReadRevisions, Goto, ThreadTypes, Promised, Writing, Left
  <2>4. CASE Finish(r)
    <3>1. worker[r] = "finishing" /\ outcome[r].state = "Cancelled" /\ run[r] \in LiveState
      BY <2>4 DEF Finish, Promised, Left, OwnedInv, AtWork, Writing
    <3>2. CASE r \notin fresh
      BY <1>0, <2>4, <3>1, <3>2 DEF Finish, Goto, ThreadTypes, Promised, Writing
    <3>3. CASE r \in fresh
      <4>1. worker'[r] \in {"leaving", "done"}
        BY <1>0, <2>4, <3>3 DEF Finish, Goto, ThreadTypes
      <4>2. run'[r] \in LiveState \cup {"Cancelled"}
        BY <1>0, <2>4, <3>1, <3>3 DEF Finish, RunTypes
      <4>3. QED
        BY <4>1, <4>2 DEF Promised, Left
    <3>4. QED
      BY <3>2, <3>3
  <2>5. CASE Unregister(r) \/ Release(r)
    <3>1. worker'[r] \in Left /\ run' = run /\ worker[r] \in {"leaving", "released"}
      BY <1>0, <2>5 DEF Unregister, Release, Goto, ThreadTypes, Left, durable
    <3>2. QED
      BY <3>1 DEF Promised, Writing
  <2>6. QED
    BY <1>2, <2>1, <2>2, <2>3, <2>4, <2>5 DEF Thread
<1>3. ASSUME NEW c \in Client, Cancelling(c) PROVE Promised(r)'
  <2>1. worker' = worker /\ outcome' = outcome
    BY <1>3, CancellingFrame
  <2>2. run'[r] = run[r] \/ (run[r] \in LiveState /\ run'[r] \in LiveState)
    BY <1>0, <1>3 DEF Cancelling, PreflightCancel, SendCancel, SetToken, ReceiveAck, AckTimeout,
                      RecordCancel, durable, RunTypes, LiveState
  <2>3. QED
    BY <2>1, <2>2 DEF Promised
<1>4. CASE Others
  <2>1. worker' = worker /\ outcome' = outcome /\ run' = run
    BY <1>4, OthersFrame DEF Others, ClientComplete, ClientFinish, EditCatalog, CreateGraphExecution, CheckActive, Halt,
                             Signal, SignalShutdown, durable
  <2>2. QED
    BY <2>1 DEF Promised
<1>5. CASE Exit \/ Crash
  <2>1. ProcessEnds
    BY <1>5 DEF Exit, Crash
  <2>2. run[r] # "Absent"
    BY <1>0 DEF Promised, PhaseInv, Writing, Left
  <2>3. QED
    BY <2>1, <2>2 DEF ProcessEnds
<1>6. CASE Open
  BY <1>0, <1>6 DEF Open, PhaseInv, Promised, Writing, Left
<1>7. QED
  BY <1>1, <1>2, <1>3, <1>4, <1>5, <1>6, NextCases

\* An acknowledgement is given only by a worker whose outcome is Cancelled, and a
\* cancellation is recorded only after one.
LEMMA PromiseStep ==
  ASSUME "finish" \notin Route, ExecutorInv, OwnedInv, PromiseInv, Next
  PROVE  PromiseInv'
<1>0. RunTypes /\ ThreadTypes /\ ControlTypes /\ OutcomeInv /\ PhaseInv /\ MailInv
  BY DEF ExecutorInv
<1> DEFINE Pledged(c) == ack[c] = "accepted" \/ client[c].pc = "accepted"
<1>1. \A c \in Client : Pledged(c) => client[c].run \in Run /\ Promised(client[c].run)
  <2>1. None # "accepted"
    BY ProviderAssumption
  <2>2. QED
    BY <1>0, <2>1 DEF PromiseInv, MailInv
<1>2. \A r \in accepted' : Promised(r)' \/ worker'[r] = "gone"
  <2>1. ASSUME NEW r \in accepted PROVE Promised(r)' \/ worker'[r] = "gone"
    <3>1. r \in Run
      BY <1>0 DEF RunTypes
    <3>2. CASE Promised(r)
      BY <3>1, <3>2, PromiseKept
    <3>3. CASE worker[r] = "gone"
      <4>1. ASSUME NEW s \in Run, Thread(s) PROVE worker'[r] = "gone"
        <5>1. run[r] # "Absent"
          BY <1>0, <3>1, <3>3 DEF PhaseInv
        <5>2. s # r
          BY <3>3, <4>1, <5>1 DEF Thread, Begin, Register, Spawn, SpawnFails, AbandonStart, Advance,
                 ReportRunning, Drain, ReadRevisions, Finish, Unregister, Release, Busy
        <5>3. QED
          BY <1>0, <3>1, <3>3, <4>1, <5>2, ThreadFrame
      <4>2. CASE Others \/ \E c \in Client : Cancelling(c)
        BY <3>3, <4>2, OthersFrame, CancellingFrame
      <4>3. CASE Exit \/ Crash
        <5>1. run[r] # "Absent"
          BY <1>0, <3>1, <3>3 DEF PhaseInv
        <5>2. QED
          BY <3>1, <4>3, <5>1 DEF Exit, Crash, ProcessEnds
      <4>4. CASE Open
        BY <3>3, <4>4 DEF Open, threads
      <4>5. QED
        BY <4>1, <4>2, <4>3, <4>4, NextCases
    <3>4. QED
      BY <3>2, <3>3 DEF PromiseInv
  <2>2. ASSUME NEW r \in accepted', r \notin accepted PROVE Promised(r)' \/ worker'[r] = "gone"
    <3>1. PICK c \in Client : RecordCancel(c)
      <4>1. ~Others
        BY <2>2, OthersFrame
      <4>2. \A s \in Run : ~Thread(s)
        BY <1>0, <2>2, ThreadFrame
      <4>3. ~Exit /\ ~Crash /\ ~Open
        BY <2>2 DEF Exit, Crash, Open, ProcessEnds, durable
      <4>4. PICK d \in Client : Cancelling(d)
        BY <4>1, <4>2, <4>3, NextCases
      <4>5. RecordCancel(d)
        BY <2>2, <4>4 DEF Cancelling, PreflightCancel, SendCancel, SetToken, ReceiveAck, AckTimeout,
                          durable
      <4>6. QED
        BY <4>5
    <3>2. r = client[c].run /\ Pledged(c)
      BY <2>2, <3>1 DEF RecordCancel
    <3>3. QED
      BY <1>1, <3>2, PromiseKept
  <2>3. QED
    BY <2>1, <2>2
<1>3. \A c \in Client : ack'[c] = "accepted" \/ client'[c].pc = "accepted" =>
        Promised(client[c].run)'
  <2> SUFFICES ASSUME NEW c \in Client, ack'[c] = "accepted" \/ client'[c].pc = "accepted"
               PROVE  Promised(client[c].run)'
    OBVIOUS
  <2>1. worker'[client'[c].run] \notin {"idle", "gone"} /\ client'[c].run \in Run
    <3>1. MailInv' /\ None # "accepted"
      BY <1>0, MailStep, ProviderAssumption
    <3>2. QED
      BY <3>1 DEF MailInv
  <2>2. CASE Pledged(c) /\ client'[c].run = client[c].run
    <3>1. PICK r \in Run : r = client[c].run /\ r = client'[c].run
      BY <2>1, <2>2
    <3>2. Promised(r)' \/ worker'[r] = "gone"
      BY <1>1, <2>2, <3>1, PromiseKept
    <3>3. QED
      BY <2>1, <3>1, <3>2 DEF Promised
  <2>3. ASSUME NEW r \in Run, Drain(r), inbox[r] = c
        PROVE  Promised(client[c].run)'
    <3>1. /\ ack' = [d \in Client |-> IF inbox[r] = d THEN Answer(r) ELSE ack[d]]
          /\ UNCHANGED <<worker, client, outcome>> /\ worker[r] = "draining"
      <4>1. inbox[r] # None
        BY <2>3, ProviderAssumption
      <4>2. QED
        BY <2>3, <4>1 DEF Drain
    <3>2. client[c].run = r /\ client[c].pc # "accepted"
      BY <1>0, <2>3 DEF MailInv
    <3>3. outcome[r].state = "Cancelled"
      BY <2>3, <3>1, <3>2 DEF Answer
    <3>4. QED
      BY <3>1, <3>2, <3>3 DEF Promised
  <2>4. ASSUME ~(Pledged(c) /\ client'[c].run = client[c].run)
        PROVE  \E r \in Run : Drain(r) /\ inbox[r] = c
    <3>1. ASSUME NEW r \in Run, Thread(r) PROVE Drain(r) /\ inbox[r] = c
      <4>1. client' = client
        BY <1>0, <3>1, ThreadFrame
      <4>2. ack'[c] = "accepted" /\ ack[c] # "accepted"
        BY <2>4, <4>1
      <4>3. Begin(r) \/ Register(r) \/ Spawn(r) \/ AbandonStart(r) \/ Advance(r) => ack' = ack
        BY DEF Begin, Register, Spawn, AbandonStart, Advance, Stays, control
      <4>4. ReportRunning(r) \/ ReadRevisions(r) \/ Finish(r) \/ Unregister(r) \/ Release(r) => ack' = ack
        BY DEF ReportRunning, ReadRevisions, Finish, Unregister, Release, control
      <4>5. ~SpawnFails(r)
        BY <4>2 DEF SpawnFails
      <4>6. Drain(r) => inbox[r] = c
        BY <4>2 DEF Drain
      <4>7. QED
        BY <3>1, <4>2, <4>3, <4>4, <4>5, <4>6 DEF Thread
    <3>2. ASSUME NEW d \in Client, Cancelling(d) PROVE FALSE
      <4>1. CASE \E r \in Run : PreflightCancel(d, r)
        BY <1>0, <2>4, <4>1, ProviderAssumption
        DEF PreflightCancel, NewRequest, At, MailInv, ControlTypes, Idle
      <4>2. CASE SendCancel(d)
        BY <1>0, <2>4, <4>2, ProviderAssumption DEF SendCancel, At, MailInv, ControlTypes, Idle
      <4>3. CASE SetToken(d)
        BY <1>0, <2>4, <4>3 DEF SetToken, At, MailInv, ControlTypes
      <4>4. CASE ReceiveAck(d)
        BY <1>0, <2>4, <4>4, ProviderAssumption DEF ReceiveAck, At, MailInv, ControlTypes, Idle
      <4>5. CASE AckTimeout(d)
        BY <1>0, <2>4, <4>5, ProviderAssumption DEF AckTimeout, MailInv, ControlTypes, Idle
      <4>6. CASE RecordCancel(d)
        BY <1>0, <2>4, <4>6, ProviderAssumption DEF RecordCancel, MailInv, ControlTypes, Idle
      <4>7. QED
        BY <3>2, <4>1, <4>2, <4>3, <4>4, <4>5, <4>6 DEF Cancelling
    <3>3. ~Others
      <4>1. ack' = ack \/ ~Others
        BY OthersFrame
      <4>2. \A d \in Client : ~CheckActive(d)
        BY <1>0, <2>4, <4>1, ProviderAssumption
        DEF CheckActive, NewRequest, At, MailInv, ControlTypes, Idle
      <4>3. \A d \in Client : ~Halt(d)
        BY <1>0, <2>4, <4>1, ProviderAssumption DEF Halt, MailInv, ControlTypes, Idle
      <4>4. Others => client' = client
        BY <4>2, <4>3 DEF Others, ClientComplete, ClientFinish, EditCatalog, CreateGraphExecution, Signal, SignalShutdown,
                          control
      <4>5. QED
        BY <2>4, <4>1, <4>4
    <3>4. ~Exit /\ ~Crash
      BY ProviderAssumption DEF Exit, Crash, ProcessEnds, Idle
    <3>5. ~Open
      BY <2>4 DEF Open, control
    <3>6. QED
      BY <3>1, <3>2, <3>3, <3>4, <3>5, NextCases
  <2>5. QED
    BY <2>2, <2>3, <2>4
<1>4. QED
  BY <1>2, <1>3 DEF PromiseInv

\* The rest holds from the start ...
LEMMA InitSoleOwner == Init => SoleOwnerInv /\ HeldInv
<1> SUFFICES ASSUME Init PROVE SoleOwnerInv /\ HeldInv
  OBVIOUS
<1>0. None # "accepted"
  BY ProviderAssumption
<1>1. OwnedInv /\ StopInv /\ HeldInv
  BY DEF Init, OwnedInv, StopInv, HeldInv, AtWork, Busy, Writing, LiveState
<1>2. PromiseInv
  BY <1>0 DEF Init, PromiseInv, Idle
<1>3. QED
  BY <1>1, <1>2 DEF SoleOwnerInv

\* ... and a step that changes nothing keeps it.
LEMMA StutterSoleOwner ==
  ASSUME UNCHANGED vars
  PROVE  (SoleOwnerInv => SoleOwnerInv') /\ (HeldInv => HeldInv')
<1>1. UNCHANGED <<run, open, accepted, lifecycle, worker, outcome, refused, client, ack>>
  BY DEF vars, durable, threads, control
<1>2. (OwnedInv => OwnedInv') /\ (StopInv => StopInv') /\ (HeldInv => HeldInv')
  BY <1>1 DEF OwnedInv, StopInv, HeldInv, Up
<1>3. PromiseInv => PromiseInv'
  BY <1>1 DEF PromiseInv, Promised
<1>4. QED
  BY <1>2, <1>3 DEF SoleOwnerInv

\* Where no client finishes runs it does not own, a run is live as long as its worker is
\* at work, and an acknowledged cancellation keeps its outcome
\* (provider_executor.rs: persist_outcome; lib.rs: cancel_run).
THEOREM WorkerOwnsRun ==
  ASSUME "finish" \notin Route
  PROVE  Spec => []SoleOwnerInv
<1>1. ExecutorInv /\ SoleOwnerInv /\ [Next]_vars => SoleOwnerInv'
  BY OwnedStep, StopStep, PromiseStep, StutterSoleOwner DEF SoleOwnerInv
<1>2. QED
  BY <1>1, InitSoleOwner, ExecutorInvariant, PTL DEF Spec

\* A daemon that is stopping has abandoned nobody, and the counter of active threads
\* stays between nought and the number of runs, for any number of runs and clients
\* (lib.rs: shutdown, persist_checkpoint; main.rs: checkpoint_for_signal).
THEOREM StoppingIsDrained ==
  ASSUME "finish" \notin Route
  PROVE  Spec => []StoppingMeansDrained
<1>1. ExecutorInv /\ SoleOwnerInv => StoppingMeansDrained
  <2> SUFFICES ASSUME ExecutorInv, SoleOwnerInv PROVE StoppingMeansDrained
    OBVIOUS
  <2>1. TypeOK
    BY TypesOfParts
  <2>2. ASSUME lifecycle = "stopping", NEW r \in Run
        PROVE  run[r] \notin LiveState /\ worker[r] \in {"idle", "leaving", "released", "done", "gone"}
    <3>1. run[r] \notin LiveState /\ worker[r] \notin AtWork
      BY <2>2 DEF SoleOwnerInv, StopInv, OwnedInv
    <3>2. worker[r] \in Phase
      BY DEF ExecutorInv, ThreadTypes
    <3>3. QED
      BY <3>1, <3>2 DEF Phase, AtWork, Busy, Writing
  <2>3. QED
    BY <2>1, <2>2 DEF StoppingMeansDrained
<1>2. QED
  BY <1>1, ExecutorInvariant, WorkerOwnsRun, PTL

-----------------------------------------------------------------------------
(* Refinement of RunLifecycle.                                             *)

\* Every step of a thread, a request or the process is a step of the promise, or
\* changes nothing it speaks of.
LEMMA LifecycleStep ==
  ASSUME "finish" \notin Route, ExecutorInv, SoleOwnerInv, Next
  PROVE  Lifecycle!Next \/ UNCHANGED <<run, accepted>>
<1>0. /\ RunTypes /\ ThreadTypes /\ ControlTypes /\ OutcomeInv /\ PhaseInv /\ MailInv
      /\ OwnedInv /\ PromiseInv
  BY DEF ExecutorInv, SoleOwnerInv
<1>1. ASSUME NEW r \in Run, Thread(r) PROVE Lifecycle!Next \/ UNCHANGED <<run, accepted>>
  <2>0. accepted' = accepted
    BY <1>0, <1>1, ThreadFrame
  <2>1. CASE Begin(r)
    <3>1. Lifecycle!Begin(r)
      BY <2>1 DEF Begin, Lifecycle!Begin
    <3>2. QED
      BY <3>1 DEF Lifecycle!Next
  <2>2. CASE ReportRunning(r)
    <3>1. CASE run[r] = "Starting"
      <4>1. Lifecycle!ReportRunning(r)
        BY <2>0, <2>2, <3>1 DEF ReportRunning, Lifecycle!ReportRunning, LiveState
      <4>2. QED
        BY <4>1 DEF Lifecycle!Next
    <3>2. CASE run[r] # "Starting"
      <4>1. run' = run
        BY <1>0, <2>2, <3>2 DEF ReportRunning, RunTypes
      <4>2. QED
        BY <2>0, <4>1
    <3>3. QED
      BY <3>1, <3>2
  <2>3. CASE Finish(r)
    <3>1. CASE run' = run
      BY <2>0, <3>1
    <3>2. CASE run' # run
      <4>1. /\ worker[r] = "finishing" /\ run[r] \in LiveState
            /\ run' = [run EXCEPT ![r] = outcome[r].state]
        BY <2>3, <3>2 DEF Finish
      <4>2. outcome[r].state \in EndState
        BY <1>0, <4>1 DEF OutcomeInv, Outcome, Writing
      <4>3. r \in accepted => outcome[r].state = "Cancelled"
        BY <1>0, <4>1 DEF PromiseInv, Promised, Left
      <4>4. Lifecycle!End(r, outcome[r].state)
        BY <2>0, <4>1, <4>3 DEF Lifecycle!End, Lifecycle!LiveState, LiveState
      <4>5. outcome[r].state \in Lifecycle!EndState
        BY <4>2 DEF Lifecycle!EndState, EndState
      <4>6. QED
        BY <4>4, <4>5 DEF Lifecycle!Next
    <3>3. QED
      BY <3>1, <3>2
  <2>4. Register(r) \/ Spawn(r) \/ SpawnFails(r) \/ AbandonStart(r) \/ Advance(r) => run' = run
    BY DEF Register, Spawn, SpawnFails, AbandonStart, Advance, Stays, durable
  <2>5. Drain(r) \/ ReadRevisions(r) \/ Unregister(r) \/ Release(r) => run' = run
    BY DEF Drain, ReadRevisions, Unregister, Release, durable
  <2>6. QED
    BY <1>1, <2>0, <2>1, <2>2, <2>3, <2>4, <2>5 DEF Thread
<1>2. ASSUME NEW c \in Client, Cancelling(c) PROVE Lifecycle!Next \/ UNCHANGED <<run, accepted>>
  <2>1. CASE RecordCancel(c)
    <3>1. PICK r \in Run : r = client[c].run
      BY <1>0, <2>1 DEF RecordCancel, MailInv
    <3>2. Promised(r)
      BY <1>0, <2>1, <3>1 DEF RecordCancel, PromiseInv
    <3>3. run[r] \in LiveState \/ run[r] = "Cancelled"
      BY <1>0, <3>2 DEF Promised, OwnedInv, AtWork, Writing
    <3>4. Lifecycle!AcceptCancel(r)
      BY <2>1, <3>1, <3>3 DEF RecordCancel, Lifecycle!AcceptCancel, Lifecycle!LiveState, LiveState
    <3>5. QED
      BY <3>4 DEF Lifecycle!Next
  <2>2. QED
    BY <1>2, <2>1 DEF Cancelling, PreflightCancel, SendCancel, SetToken, ReceiveAck, AckTimeout,
                      durable
<1>3. CASE Others
  BY <1>3 DEF Others, ClientComplete, ClientFinish, EditCatalog, CreateGraphExecution, CheckActive, Halt, Signal,
              SignalShutdown, durable
<1>4. CASE Exit \/ Crash
  BY <1>4 DEF Exit, Crash, ProcessEnds, durable
<1>5. CASE Open
  <2>1. Lifecycle!Recover
    BY <1>5 DEF Open, Lifecycle!Recover, Lifecycle!LiveState, LiveState
  <2>2. QED
    BY <2>1 DEF Lifecycle!Next
<1>6. QED
  BY <1>1, <1>2, <1>3, <1>4, <1>5, NextCases

\* The threads, handlers and restarts together keep the promise of RunLifecycle: a run
\* ends once, an acknowledged cancellation is neither regressed nor turned into another
\* outcome, and only a restart forgets (provider_executor.rs, lib.rs).
THEOREM ExecutorImplementsLifecycle ==
  ASSUME "finish" \notin Route
  PROVE  Spec => ImplementsLifecycle
<1>1. Init => Lifecycle!Init
  BY DEF Init, Lifecycle!Init
<1>2. ExecutorInv /\ SoleOwnerInv /\ [Next]_vars => [Lifecycle!Next]_<<run, accepted>>
  <2>1. UNCHANGED vars => UNCHANGED <<run, accepted>>
    BY DEF vars, durable
  <2>2. QED
    BY <2>1, LifecycleStep
<1>3. QED
  BY <1>1, <1>2, ExecutorInvariant, WorkerOwnsRun, PTL
  DEF Spec, ImplementsLifecycle, Lifecycle!Spec, Lifecycle!vars

-----------------------------------------------------------------------------
(* No run is orphaned.                                                     *)

\* While the daemon is up a live run has its node and its worker.
LEMMA HeldStep ==
  ASSUME "complete" \notin Route, "blank" \notin Text, ExecutorInv, HeldInv, Next
  PROVE  HeldInv'
<1>0. RunTypes /\ ThreadTypes /\ ControlTypes /\ OutcomeInv /\ PhaseInv /\ MailInv
  BY DEF ExecutorInv
<1>1. ASSUME NEW r \in Run, Thread(r) PROVE HeldInv'
  <2>1. /\ lifecycle' = lifecycle /\ Up
        /\ \A s \in Run : s # r => run'[s] = run[s] /\ worker'[s] = worker[s]
    BY <1>0, <1>1, ThreadFrame, ThreadRuns DEF RunTypes, Up
  <2>2. \A s \in Run : s # r => (s \in open' <=> s \in open)
    <3>1. Begin(r) \/ ReportRunning(r) \/ Finish(r) => open' \in {open, open \cup {r}, open \ {r}}
      BY DEF Begin, ReportRunning, Finish
    <3>2. Register(r) \/ Spawn(r) \/ SpawnFails(r) \/ AbandonStart(r) \/ Advance(r) => open' = open
      BY DEF Register, Spawn, SpawnFails, AbandonStart, Advance, Stays, durable
    <3>3. Drain(r) \/ ReadRevisions(r) \/ Unregister(r) \/ Release(r) => open' = open
      BY DEF Drain, ReadRevisions, Unregister, Release, durable
    <3>4. QED
      BY <1>1, <3>1, <3>2, <3>3 DEF Thread
  <2>3. refused \subseteq refused'
    <3>1. Begin(r) \/ ReportRunning(r) \/ Finish(r) => refused \subseteq refused'
      BY DEF Begin, ReportRunning, Finish
    <3>2. Register(r) \/ Spawn(r) \/ SpawnFails(r) \/ AbandonStart(r) \/ Advance(r) =>
             refused' = refused
      BY DEF Register, Spawn, SpawnFails, AbandonStart, Advance, Stays
    <3>3. Drain(r) \/ ReadRevisions(r) \/ Unregister(r) \/ Release(r) => refused' = refused
      BY DEF Drain, ReadRevisions, Unregister, Release
    <3>4. QED
      BY <1>1, <3>1, <3>2, <3>3 DEF Thread
  <2>4. run'[r] \in LiveState => r \in open' /\ (worker'[r] \in AtWork \/ r \in refused')
    <3>0. run[r] \in LiveState => r \in open /\ (worker[r] \in AtWork \/ r \in refused')
      BY <2>1, <2>3 DEF HeldInv
    <3>1. CASE Begin(r)
      BY <1>0, <3>1 DEF Begin, Goto, ThreadTypes, AtWork
    <3>2. CASE Register(r) \/ Spawn(r) \/ SpawnFails(r) \/ AbandonStart(r)
      BY <1>0, <3>0, <3>2 DEF Register, Spawn, SpawnFails, AbandonStart, Goto, ThreadTypes, durable,
                              AtWork, Busy, Writing
    <3>3. CASE Advance(r)
      BY <1>0, <3>0, <3>3 DEF Advance, Stays, ThreadTypes, durable, AtWork
    <3>4. CASE ReportRunning(r)
      BY <1>0, <3>0, <3>4 DEF ReportRunning, Ends, Proceeds, Goto, RunTypes, ThreadTypes, LiveState,
                              AtWork, Busy
    <3>5. CASE Drain(r) \/ ReadRevisions(r)
      BY <1>0, <3>0, <3>5 DEF Drain, ReadRevisions, Goto, ThreadTypes, durable, AtWork, Writing
    <3>6. CASE Finish(r)
      <4>1. outcome[r] \in Outcome /\ worker[r] = "finishing"
        BY <1>0, <3>6 DEF Finish, OutcomeInv, Writing
      <4>2. outcome[r].state \in EndState /\ outcome[r].text # "blank"
        BY <4>1 DEF Outcome
      <4>3. StoredText(outcome[r]) # "blank"
        BY <4>2 DEF StoredText
      <4>4. CASE r \notin fresh
        BY <1>0, <3>0, <3>6, <4>4 DEF Finish, Goto, ThreadTypes, AtWork, Writing
      <4>5. CASE r \in fresh
        <5>1. run[r] \in LiveState => Acceptable(r)
          BY <3>0, <4>3 DEF Acceptable
        <5>2. run[r] \in LiveState /\ valid => run' = [run EXCEPT ![r] = outcome[r].state]
          BY <3>6, <4>5, <5>1 DEF Finish, Can_finish
        <5>3. run[r] \in LiveState /\ ~valid => r \in refused' /\ open' = open
          BY <3>6, <4>5, <5>1 DEF Finish, Can_finish, RefusedWith
        <5>4. run[r] \notin LiveState => run' = run
          BY <3>6, <4>5 DEF Finish
        <5>5. run[r] \in LiveState /\ valid => run'[r] \notin LiveState
          BY <1>0, <4>2, <5>2 DEF RunTypes, LiveState, EndState
        <5>6. QED
          BY <3>0, <5>3, <5>4, <5>5
      <4>6. QED
        BY <4>4, <4>5
    <3>7. CASE Unregister(r) \/ Release(r)
      BY <3>0, <3>7 DEF Unregister, Release, durable, AtWork, Busy, Writing
    <3>8. QED
      BY <1>1, <3>1, <3>2, <3>3, <3>4, <3>5, <3>6, <3>7 DEF Thread
  <2>5. QED
    BY <2>1, <2>2, <2>3, <2>4 DEF HeldInv
<1>2. ASSUME NEW c \in Client, Cancelling(c) PROVE HeldInv'
  <2>1. UNCHANGED <<worker, open, refused, lifecycle>>
    BY <1>2, CancellingFrame
  <2>2. \A s \in Run : run'[s] \in LiveState => run[s] \in LiveState
    BY <1>0, <1>2 DEF Cancelling, PreflightCancel, SendCancel, SetToken, ReceiveAck, AckTimeout,
                      RecordCancel, durable, RunTypes, LiveState
  <2>3. QED
    BY <2>1, <2>2 DEF HeldInv, Up
<1>3. CASE Others
  <2>1. UNCHANGED <<worker, refused>> /\ \A s \in Run : run'[s] \in LiveState => run[s] \in LiveState
    BY <1>0, <1>3, OthersFrame, OthersRuns
  <2>2. \A s \in Run : s \in open /\ run'[s] \in LiveState => s \in open'
    <3>1. ASSUME NEW r \in Run, NEW e \in EndState, ClientFinish(r, e)
          PROVE  \A s \in Run : s \in open /\ run'[s] \in LiveState => s \in open'
      BY <1>0, <3>1 DEF ClientFinish, RunTypes, LiveState, EndState
    <3>2. QED
      BY <1>3, <3>1 DEF Others, ClientComplete, EditCatalog, CreateGraphExecution, CheckActive, Halt, Signal,
                        SignalShutdown, durable
  <2>3. Up' => Up
    BY <1>0, <1>3 DEF Others, ClientComplete, ClientFinish, EditCatalog, CreateGraphExecution, CheckActive, Halt, Signal,
                SignalShutdown, PhaseInv, Idle, NewRequest, RunTypes, Up
  <2>4. QED
    BY <2>1, <2>2, <2>3 DEF HeldInv
<1>4. CASE Exit \/ Crash
  BY <1>4 DEF Exit, Crash, ProcessEnds, HeldInv, Up
<1>5. CASE Open
  BY <1>5 DEF Open, HeldInv, LiveState
<1>6. QED
  BY <1>1, <1>2, <1>3, <1>4, <1>5, NextCases

\* While the daemon is up, a live run has a handler or a thread that will still write
\* its outcome, or the Store refused that outcome because a client had made the M3 state
\* invalid.  The two other reasons for which persist_outcome gives up are assumed away:
\* a client that completes the node of a run, and a provider that leaves blank output
\* (provider_executor.rs: persist_outcome).
THEOREM NoRunIsOrphaned ==
  ASSUME "complete" \notin Route, "blank" \notin Text
  PROVE  Spec => []NoOrphanedRun
<1>1. ExecutorInv /\ HeldInv /\ [Next]_vars => HeldInv'
  BY HeldStep, StutterSoleOwner
<1>2. HeldInv => NoOrphanedRun
  BY DEF HeldInv, NoOrphanedRun, AtWork, Busy, Writing
<1>3. QED
  BY <1>1, <1>2, InitSoleOwner, ExecutorInvariant, PTL DEF Spec
=============================================================================
