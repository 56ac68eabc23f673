-------------------------- MODULE Desktop_proofs --------------------------
(***************************************************************************)
(* Proofs about the desktop shell: Supervisor, and KnowledgeDelivery in    *)
(* the second half.                                                        *)
(*                                                                         *)
(* For any number of windows, processes, crashes, quits and sleeps: one    *)
(* daemon owns the database, it is the one clients reach, and the desktop  *)
(* never loses the handle of a process it spawned.  OneStoreOwner does not *)
(* follow from the processes alone: it is the lock that keeps them apart,  *)
(* so the invariant ties the lock, and the socket bound under it, to the   *)
(* program point of their holder.                                          *)
(*                                                                         *)
(* For any number of commands, deliveries, days, revisions and failures:   *)
(* what is Delivered is published, no published note is written again, and *)
(* repetition publishes nothing twice.                                     *)
(***************************************************************************)
EXTENDS Supervisor, KnowledgeDelivery, FiniteSetTheorems, TLAPS

Holding == {"locked", "binding", "bound", "migrating", "serving", "draining", "unlinked"}
Owning == {"binding", "bound", "migrating", "serving", "draining"}

\* The process between its flock and its exit is the one that has the lock.
LockIsHeld == \A p \in Proc : proc[p] \in Holding <=> lock = p

\* From bind to the drop of the guard the socket file is the holder's.
SocketIsHeld == \A p \in Proc : proc[p] \in Owning => socket = p

IInv == TypeOK /\ LockIsHeld /\ SocketIsHeld /\ NoLostChild /\ SchemaIsOwn

\* The initial state: no process, no lock, no child.
LEMMA InitEstablishes == Init => IInv
<1> SUFFICES ASSUME Init PROVE IInv
    OBVIOUS
<1>1. at \in [Caller \cup Task -> {"idle", "probe", "reap", "spawn", "poll",
                                  "snapshot", "send", "exit"}]
  BY DEF Init
<1>2. budget \in [fault : 0..MaxFaults, quit : 0..MaxQuits, sleep : 0..MaxSleeps]
  BY SupervisorAssumption DEF Init
<1>3. schema \in 0..SchemaVersion /\ current \in [Proc -> 0..SchemaVersion]
  BY SupervisorAssumption DEF Init
<1>5. TypeOK
  BY <1>1, <1>2, <1>3 DEF Init, TypeOK, Live
<1>4. LockIsHeld /\ SocketIsHeld /\ NoLostChild /\ SchemaIsOwn
  BY SupervisorAssumption
  DEF Init, LockIsHeld, SocketIsHeld, NoLostChild, SchemaIsOwn, Holding, Owning
<1> QED
  BY <1>4, <1>5 DEF IInv

\* What a dying process leaves has the types.
LEMMA AbandonType ==
    ASSUME TypeOK, NEW p \in Proc, Abandon(p)
    PROVE /\ proc' \in [Proc -> Live \cup {"dead"}]
          /\ lock' \in Proc \cup {None}
          /\ socket' \in Proc \cup {Stale, Denied, None}
<1>1. socket' \in {socket, Denied, Stale}
  BY DEF Abandon
<1> QED
  BY <1>1 DEF Abandon, TypeOK

\* Every step keeps the types.
LEMMA TypeStep == TypeOK /\ [Next]_vars => TypeOK'
<1> SUFFICES ASSUME TypeOK, [Next]_vars PROVE TypeOK'
    OBVIOUS
<1> USE SupervisorAssumption
    DEF TypeOK, Live, Caller, Task, Goto, Spend, Commit, endpoint, store, state, shell
<1>1. ASSUME NEW c \in Caller, EnsureRunning(c) PROVE TypeOK'
  BY <1>1 DEF EnsureRunning
<1>2. ASSUME NEW c \in Caller, Probe(c) PROVE TypeOK'
  BY <1>2 DEF Probe
<1>3. ASSUME NEW c \in Caller, RecordPreviousExit(c) PROVE TypeOK'
  BY <1>3 DEF RecordPreviousExit
<1>4. ASSUME NEW c \in Caller, Spawn(c) PROVE TypeOK'
  BY <1>4 DEF Spawn
<1>5. ASSUME NEW c \in Caller, Poll(c) PROVE TypeOK'
  BY <1>5 DEF Poll
<1>6. ASSUME NEW p \in Proc, ProcessStep(p) PROVE TypeOK'
  <2>4. Abandon(p) => /\ proc' \in [Proc -> Live \cup {"dead"}]
                      /\ lock' \in Proc \cup {None}
                      /\ socket' \in Proc \cup {Stale, Denied, None}
    BY AbandonType
  <2>1. CASE Lock(p) \/ Bind(p) \/ SetPermissions(p) \/ Open(p) \/ CloseEndpoint(p)
    <3>1. CASE Lock(p)
      BY <3>1 DEF Lock
    <3>2. CASE Bind(p)
      BY <2>4, <3>2 DEF Bind
    <3>5. CASE SetPermissions(p)
      BY <3>5 DEF SetPermissions
    <3>3. CASE Open(p)
      BY <3>3 DEF Open
    <3>4. CASE CloseEndpoint(p)
      BY <3>4 DEF CloseEndpoint
    <3> QED
      BY <2>1, <3>1, <3>2, <3>3, <3>4, <3>5
  <2>2. CASE ReadSchema(p)
    BY <2>2 DEF ReadSchema
  <2>3. CASE Migrate(p)
    <3>1. schema' \in 0..SchemaVersion /\ current' \in [Proc -> 0..SchemaVersion]
      BY <2>3 DEF Migrate
    <3>2. /\ proc' \in [Proc -> Live \cup {"dead"}]
          /\ lock' \in Proc \cup {None} /\ socket' \in Proc \cup {Stale, Denied, None}
      BY <2>3, <2>4 DEF Migrate
    <3> QED
      BY <2>3, <3>1, <3>2 DEF Migrate
  <2> QED
    BY <1>6, <2>1, <2>2, <2>3 DEF ProcessStep
<1>7. ASSUME NEW p \in Proc, Crash(p) PROVE TypeOK'
  BY <1>7, AbandonType DEF Crash
<1>8. ASSUME NEW p \in Proc, Terminate(p) PROVE TypeOK'
  BY <1>8 DEF Terminate, Stop
<1>9. ASSUME NEW p \in Proc, ManualStart(p) PROVE TypeOK'
  BY <1>9 DEF ManualStart
<1>10. CASE RequestQuit
  BY <1>10 DEF RequestQuit
<1>11. CASE QuitSnapshot
  BY <1>11 DEF QuitSnapshot, ReadRevision
<1>12. CASE QuitShutdown
  BY <1>12 DEF QuitShutdown, Stop
<1>13. CASE QuitFails
  <2>1. budget' \in [fault : 0..MaxFaults, quit : 0..MaxQuits, sleep : 0..MaxSleeps]
    BY <1>13 DEF QuitFails
  <2>2. at' \in [Caller \cup Task -> {"idle", "probe", "reap", "spawn", "poll",
                                     "snapshot", "send", "exit"}]
    BY <1>13 DEF QuitFails
  <2> QED
    BY <1>13, <2>1, <2>2 DEF QuitFails
<1>14. ASSUME NEW how \in {"quit", "crashed"}, Gone(how)
       PROVE /\ desktop' \in {"running", "quit", "crashed"}
             /\ child' \in Proc \cup {None} /\ mine' \subseteq Proc
             /\ shutting_down' \in BOOLEAN
             /\ at' \in [Caller \cup Task -> {"idle", "probe", "reap", "spawn", "poll",
                                              "snapshot", "send", "exit"}]
  <2>1. DOMAIN at = Caller \cup Task
    OBVIOUS
  <2>2. at' = [t \in Caller \cup Task |-> "idle"]
    BY <1>14, <2>1 DEF Gone
  <2>3. at' \in [Caller \cup Task -> {"idle", "probe", "reap", "spawn", "poll",
                                     "snapshot", "send", "exit"}]
    BY <2>2
  <2> QED
    BY <1>14, <2>3 DEF Gone
<1>15. CASE Exit
  BY <1>14, <1>15 DEF Exit
<1>16. CASE DesktopCrashes
  BY <1>14, <1>16 DEF DesktopCrashes
<1>17. CASE Launch
  BY <1>17 DEF Launch
<1>18. CASE WillSleep
  BY <1>18 DEF WillSleep
<1>19. CASE FallAsleep
  BY <1>19 DEF FallAsleep
<1>20. CASE Wake
  <2>1. CASE Goto("resume", "snapshot")
    BY <1>20, <2>1 DEF Wake
  <2>2. CASE UNCHANGED at
    BY <1>20, <2>2 DEF Wake
  <2> QED
    BY <1>20, <2>1, <2>2 DEF Wake
<1>21. ASSUME NEW t \in {"suspend", "resume"}, PowerSnapshot(t) PROVE TypeOK'
  BY <1>21 DEF PowerSnapshot, ReadRevision
<1>22. ASSUME NEW t \in {"suspend", "resume"}, PowerSend(t) PROVE TypeOK'
  BY <1>22 DEF PowerSend, Result
<1>23. ASSUME NEW t \in {"suspend", "resume"}, PowerFails(t) PROVE TypeOK'
  <2>1. CASE UNCHANGED budget
    BY <1>23, <2>1 DEF PowerFails
  <2>2. CASE Spend("fault")
    BY <1>23, <2>2 DEF PowerFails
  <2> QED
    BY <1>23, <2>1, <2>2 DEF PowerFails
<1>24. CASE UNCHANGED vars
  BY <1>24 DEF vars
<1> QED
  BY <1>1, <1>2, <1>3, <1>4, <1>5, <1>6, <1>7, <1>8, <1>9, <1>10, <1>11, <1>12, <1>13,
     <1>15, <1>16, <1>17, <1>18, <1>19, <1>20, <1>21, <1>22, <1>23, <1>24
  DEF Next, CallerStep, QuitStep, PowerStep

\* The lock, the socket and the child handle follow the processes.  Steps
\* that leave all of them alone preserve the three facts trivially.
LEMMA HoldingStep ==
    IInv /\ [Next]_vars => LockIsHeld' /\ SocketIsHeld' /\ NoLostChild' /\ SchemaIsOwn'
<1> SUFFICES ASSUME IInv, [Next]_vars
             PROVE LockIsHeld' /\ SocketIsHeld' /\ NoLostChild' /\ SchemaIsOwn'
    OBVIOUS
<1> DEFINE Held == LockIsHeld /\ SocketIsHeld /\ NoLostChild /\ SchemaIsOwn
<1> USE SupervisorAssumption
    DEF IInv, TypeOK, Live, LockIsHeld, SocketIsHeld, NoLostChild, SchemaIsOwn,
        Holding, Owning,
        endpoint, store, state, shell
<1>1. ASSUME UNCHANGED <<endpoint, store, child, mine>> PROVE Held'
  BY <1>1
<1>2. ASSUME NEW c \in Caller, EnsureRunning(c) \/ Probe(c) \/ Poll(c) PROVE Held'
  BY <1>2, <1>1 DEF EnsureRunning, Probe, Poll
<1>3. ASSUME NEW c \in Caller, RecordPreviousExit(c) PROVE Held'
  BY <1>3 DEF RecordPreviousExit, ChildEnded
<1>4. ASSUME NEW c \in Caller, Spawn(c) PROVE Held'
  BY <1>4 DEF Spawn, Free
<1>5. ASSUME NEW p \in Proc, Lock(p) PROVE Held'
  BY <1>5 DEF Lock
<1>18. ASSUME NEW p \in Proc, Abandon(p), UNCHANGED <<store, child, mine>> PROVE Held'
  <2>1. \A q \in Proc \ {p} : proc[q] \in Owning => socket # p
    BY DEF IInv
  <2> QED
    BY <1>18, <2>1 DEF Abandon
<1>6. ASSUME NEW p \in Proc, Bind(p) PROVE Held'
  BY <1>6, <1>18 DEF Bind
<1>19. ASSUME NEW p \in Proc, SetPermissions(p) PROVE Held'
  BY <1>19 DEF SetPermissions
<1>7. ASSUME NEW p \in Proc, ReadSchema(p) \/ Migrate(p) \/ Open(p) PROVE Held'
  BY <1>7, <1>18 DEF ReadSchema, Migrate, Open
<1>8. ASSUME NEW p \in Proc, CloseEndpoint(p) PROVE Held'
  BY <1>8 DEF CloseEndpoint
<1>9. ASSUME NEW p \in Proc, Crash(p) PROVE Held'
  BY <1>9, <1>18 DEF Crash
<1>10. ASSUME NEW p \in Proc, Terminate(p) PROVE Held'
  BY <1>10 DEF Terminate, Stop
<1>11. ASSUME NEW p \in Proc, ManualStart(p) PROVE Held'
  BY <1>11 DEF ManualStart, Free
<1>12. CASE QuitShutdown
  BY <1>12 DEF QuitShutdown, Answers, Stop
<1>13. CASE Exit \/ DesktopCrashes
  BY <1>13 DEF Exit, DesktopCrashes, Gone
<1>14. CASE RequestQuit \/ QuitSnapshot \/ QuitFails \/ Launch
  BY <1>14, <1>1 DEF RequestQuit, QuitSnapshot, ReadRevision, QuitFails, Launch
<1>15. CASE WillSleep \/ FallAsleep \/ Wake
  BY <1>15, <1>1 DEF WillSleep, FallAsleep, Wake
<1>16. ASSUME NEW t \in {"suspend", "resume"}, PowerStep(t) PROVE Held'
  BY <1>16, <1>1 DEF PowerStep, PowerSnapshot, ReadRevision, PowerSend, PowerFails
<1>17. CASE UNCHANGED vars
  BY <1>17, <1>1 DEF vars
<1> QED
  BY <1>2, <1>3, <1>4, <1>5, <1>6, <1>7, <1>8, <1>9, <1>10, <1>11, <1>12, <1>13, <1>14,
     <1>15, <1>16, <1>17, <1>19
  DEF Next, CallerStep, ProcessStep, QuitStep

\* The inductive invariant holds in every reachable state.
LEMMA SupervisorInvariant == Spec => []IInv
<1>1. IInv /\ [Next]_vars => IInv'
  BY TypeStep, HoldingStep DEF IInv
<1> QED
  BY InitEstablishes, <1>1, PTL DEF Spec

\* Two daemons never have the database open at the same time, and a leaving
\* one keeps it until its last connection is finished (main, unix::bind).
THEOREM OneStoreOwnerAlways == Spec => []OneStoreOwner
<1>1. IInv => OneStoreOwner
  <2> SUFFICES ASSUME IInv PROVE OneStoreOwner
      OBVIOUS
  <2> DEFINE Owners == {p \in Proc : proc[p] \in {"bound", "migrating", "serving", "draining"}}
  <2>1. \A p \in Owners : lock = p
    BY DEF IInv, LockIsHeld, Holding
  <2>2. CASE Owners = {}
    BY <2>2, FS_EmptySet DEF IInv, OneStoreOwner
  <2>3. CASE Owners # {}
    <3>1. Owners = {lock}
      BY <2>1, <2>3
    <3>2. Cardinality({lock}) = 1
      BY FS_Singleton
    <3> QED
      BY <3>1, <3>2 DEF IInv, OneStoreOwner
  <2> QED
    BY <2>2, <2>3
<1> QED
  BY SupervisorInvariant, <1>1, PTL

\* The endpoint always leads to the daemon that serves: no leaving daemon
\* and no recovery of a stale socket cuts it off (EndpointGuard::drop).
THEOREM ServingIsReachableAlways == Spec => []ServingIsReachable
<1>1. IInv => ServingIsReachable
  BY DEF IInv, SocketIsHeld, Owning, ServingIsReachable
<1> QED
  BY SupervisorInvariant, <1>1, PTL

\* However many callers run ensure_running at once, a process the desktop
\* spawned and that still lives is the one it has the handle of.
THEOREM NoLostChildAlways == Spec => []NoLostChild
<1>1. IInv => NoLostChild
  BY DEF IInv
<1> QED
  BY SupervisorInvariant, <1>1, PTL

-----------------------------------------------------------------------------
(* KnowledgeDelivery.                                                      *)

\* A call that has passed an effect finds it in place until it ends, however
\* many others work on the same delivery.
CallEvidence ==
    \A c \in Command :
        /\ At(c, "create_note") => Target(c) \in VaultDelivery
        /\ At(c, "write_note") => Target(c) \in VaultDelivery /\ note[Target(c)] = Partial
        /\ call[c].step \in {"check_index", "append_index", "check_log", "append_log"} =>
              Target(c) \in VaultDelivery /\ note[Target(c)] \in Day
        /\ call[c].step \in {"check_log", "append_log"} => index[Target(c)] > 0
        /\ call[c].step \in {"search", "add"} => Target(c) \notin VaultDelivery
        /\ At(c, "complete") => Published(Target(c))

\* Only the command that created a note writes it.
OneWriter ==
    \A c1, c2 \in Command :
        At(c1, "write_note") /\ At(c2, "write_note") /\ Target(c1) = Target(c2) => c1 = c2

\* The inductive invariant.
KnowledgeInv == KDTypeOK /\ CallEvidence /\ OneWriter /\ DeliveredIsPublished

\* Nothing is published and nobody is delivering.
LEMMA NothingPublished == KDInit => KnowledgeInv
  BY KnowledgeDeliveryAssumption
  DEF KDInit, KnowledgeInv, KDTypeOK, CallEvidence, OneWriter, DeliveredIsPublished, Call,
      Step, Idle, Day, At

\* What a step does to the destinations: nothing published is withdrawn.
PublishedGrows ==
    /\ \A d \in Delivery : note[d] \in Day => note'[d] = note[d]
    /\ \A d \in Delivery : index[d] > 0 => index'[d] > 0
    /\ \A d \in Delivery : log[d] > 0 => log'[d] > 0
    /\ \A d \in Delivery : memory[d] > 0 => memory'[d] > 0

\* Commands can be counted.
LEMMA CountIsNat ==
    ASSUME NEW A \in SUBSET Command
    PROVE IsFiniteSet(A) /\ Cardinality(A) \in Nat /\ Cardinality(A) <= Cardinality(Command)
            /\ Cardinality(Command) \in Nat
  BY KnowledgeDeliveryAssumption, FS_Subset, FS_CardinalityType

\* Every step keeps the types.
LEMMA KnowledgeTypes == KnowledgeInv /\ [KDNext]_KDvars => KDTypeOK'
<1> SUFFICES ASSUME KnowledgeInv, [KDNext]_KDvars PROVE KDTypeOK'
    OBVIOUS
<1> USE KnowledgeDeliveryAssumption DEF KnowledgeInv, KDTypeOK, Call, Step, Idle, Day, At,
    Target, Proceed, Return, ledger, vault, agent
<1>1. ASSUME NEW c \in Command, NEW d \in Delivery, Begin(c, d) PROVE KDTypeOK'
  BY <1>1 DEF Begin
<1>2. ASSUME NEW c \in Command, CreateNote(c) PROVE KDTypeOK'
  <2>1. /\ UNCHANGED <<ledger, index, log, agent, day, faults>>
        /\ \/ note' = [note EXCEPT ![Target(c)] = Partial] /\ Proceed(c, "write_note")
           \/ note' = note /\ Proceed(c, "check_index")
           \/ note' = note /\ Return(c)
        /\ At(c, "create_note")
    BY <1>2 DEF CreateNote
  <2>2. note' \in [Delivery -> {Absent, Partial} \cup Day]
    BY <2>1
  <2>3. /\ call' \in [Command -> Call]
        /\ \A b \in Command : call'[b].step # "idle" => call'[b].delivery \in Delivery
    BY <2>1
  <2> QED
    BY <2>1, <2>2, <2>3
<1>3. ASSUME NEW c \in Command, WriteNote(c) PROVE KDTypeOK'
  BY <1>3 DEF WriteNote
<1>4. ASSUME NEW c \in Command, CheckIndex(c) \/ CheckLog(c) \/ Search(c) PROVE KDTypeOK'
  BY <1>4 DEF CheckIndex, CheckLog, Search
<1>5. ASSUME NEW c \in Command, AppendIndex(c) PROVE KDTypeOK'
  BY <1>5 DEF AppendIndex
<1>6. ASSUME NEW c \in Command, AppendLog(c) PROVE KDTypeOK'
  BY <1>6 DEF AppendLog
<1>7. ASSUME NEW c \in Command, Add(c) PROVE KDTypeOK'
  BY <1>7 DEF Add
<1>8. ASSUME NEW c \in Command, Complete(c) PROVE KDTypeOK'
  BY <1>8 DEF Complete
<1>9. ASSUME NEW c \in Command, Fail(c) PROVE KDTypeOK'
  BY <1>9 DEF Fail
<1>10. CASE DesktopDies
  <2>1. PICK started \in SUBSET {c \in Command : At(c, "add")} :
           /\ strays' = [d \in Delivery |->
                 strays[d] + Cardinality({c \in started : Target(c) = d})]
           /\ orphaned' = [d \in Delivery |->
                 orphaned[d] + Cardinality({c \in started : Target(c) = d})]
    BY <1>10 DEF DesktopDies
  <2>2. \A d \in Delivery : Cardinality({c \in started : Target(c) = d}) \in Nat
    BY CountIsNat
  <2>3. strays' \in [Delivery -> Nat] /\ orphaned' \in [Delivery -> Nat]
    BY <2>1, <2>2
  <2> QED
    BY <1>10, <2>3 DEF DesktopDies
<1>14. ASSUME NEW d \in Delivery, StrayAdds(d) PROVE KDTypeOK'
  BY <1>14 DEF StrayAdds
<1>11. CASE OtherCommand \/ Midnight
  BY <1>11 DEF OtherCommand, Midnight
<1>12. CASE UNCHANGED KDvars
  BY <1>12 DEF KDvars
<1> QED
  BY <1>1, <1>2, <1>3, <1>4, <1>5, <1>6, <1>7, <1>8, <1>9, <1>10, <1>11, <1>12, <1>14
  DEF KDNext, Progress

\* What was published stays published.
LEMMA GrowthStep == KnowledgeInv /\ [KDNext]_KDvars => PublishedGrows
<1> SUFFICES ASSUME KnowledgeInv, [KDNext]_KDvars PROVE PublishedGrows
    OBVIOUS
<1> USE KnowledgeDeliveryAssumption
    DEF KnowledgeInv, KDTypeOK, CallEvidence, PublishedGrows, Call, Step, Day, At, Target,
        ledger, vault, agent
<1>1. ASSUME NEW c \in Command, NEW d \in Delivery, Begin(c, d) PROVE PublishedGrows
  BY <1>1 DEF Begin
<1>2. ASSUME NEW c \in Command, CreateNote(c) PROVE PublishedGrows
  BY <1>2 DEF CreateNote
<1>3. ASSUME NEW c \in Command, WriteNote(c) PROVE PublishedGrows
  BY <1>3 DEF WriteNote
<1>4. ASSUME NEW c \in Command, CheckIndex(c) \/ CheckLog(c) \/ Search(c) \/ Complete(c)
      PROVE PublishedGrows
  BY <1>4 DEF CheckIndex, CheckLog, Search, Complete
<1>5. ASSUME NEW c \in Command, AppendIndex(c) PROVE PublishedGrows
  BY <1>5 DEF AppendIndex
<1>6. ASSUME NEW c \in Command, AppendLog(c) PROVE PublishedGrows
  BY <1>6 DEF AppendLog
<1>7. ASSUME NEW c \in Command, Add(c) PROVE PublishedGrows
  BY <1>7 DEF Add
<1>8. ASSUME NEW c \in Command, Fail(c) PROVE PublishedGrows
  <2>1. CASE UNCHANGED <<index, log, memory>>
    BY <1>8, <2>1 DEF Fail
  <2>2. CASE index' = [index EXCEPT ![Target(c)] = @ + 1] /\ UNCHANGED <<log, memory>>
    BY <1>8, <2>2 DEF Fail
  <2>3. CASE log' = [log EXCEPT ![Target(c)] = @ + 1] /\ UNCHANGED <<index, memory>>
    BY <1>8, <2>3 DEF Fail
  <2>4. CASE memory' = [memory EXCEPT ![Target(c)] = @ + 1] /\ UNCHANGED <<index, log>>
    BY <1>8, <2>4 DEF Fail
  <2> QED
    BY <1>8, <2>1, <2>2, <2>3, <2>4 DEF Fail
<1>9. CASE DesktopDies \/ OtherCommand \/ Midnight \/ UNCHANGED KDvars
  BY <1>9 DEF DesktopDies, OtherCommand, Midnight, KDvars
<1>10. ASSUME NEW d \in Delivery, StrayAdds(d) PROVE PublishedGrows
  BY <1>10 DEF StrayAdds
<1> QED
  BY <1>1, <1>2, <1>3, <1>4, <1>5, <1>6, <1>7, <1>8, <1>9, <1>10 DEF KDNext, Progress

\* Calls other than c's are untouched and c itself moves to a step of which
\* the evidence is known.
LEMMA EvidenceStep ==
    KnowledgeInv /\ [KDNext]_KDvars => CallEvidence' /\ OneWriter' /\ DeliveredIsPublished'
<1> SUFFICES ASSUME KnowledgeInv, [KDNext]_KDvars
             PROVE  CallEvidence' /\ OneWriter' /\ DeliveredIsPublished'
    OBVIOUS
<1>g. PublishedGrows /\ KDTypeOK'
  BY GrowthStep, KnowledgeTypes
<1> USE KnowledgeDeliveryAssumption DEF KnowledgeInv, KDTypeOK, Call, Step, Idle, Day, At,
    Target
<1> USE <1>g
<1>p. \A d \in Delivery : Published(d) => Published(d)'
  BY DEF PublishedGrows, Published
<1>d. ASSUME UNCHANGED status PROVE DeliveredIsPublished'
  BY <1>d, <1>p DEF DeliveredIsPublished
<1>1. ASSUME NEW c \in Command, NEW d \in Delivery, Begin(c, d)
      PROVE CallEvidence' /\ OneWriter' /\ DeliveredIsPublished'
  <2>1. CallEvidence'
    BY <1>1, <1>p DEF Begin, CallEvidence, OneWriter, Published, PublishedGrows, ledger, vault, agent
  <2>2. OneWriter'
    BY <1>1 DEF Begin, CallEvidence, OneWriter, ledger, vault, agent
  <2> QED BY <2>1, <2>2, <1>1, <1>d DEF Begin, ledger
<1>2. ASSUME NEW c \in Command, CreateNote(c)
      PROVE CallEvidence' /\ OneWriter' /\ DeliveredIsPublished'
  <2>1. CallEvidence'
    BY <1>2, <1>p DEF CreateNote, Proceed, Return, CallEvidence, OneWriter, Published,
        PublishedGrows, ledger, vault, agent
  <2>2. OneWriter'
    BY <1>2 DEF CreateNote, Proceed, Return, CallEvidence, OneWriter, ledger, vault, agent
  <2> QED BY <2>1, <2>2, <1>2, <1>d DEF CreateNote, ledger
<1>3. ASSUME NEW c \in Command, WriteNote(c)
      PROVE CallEvidence' /\ OneWriter' /\ DeliveredIsPublished'
  <2>1. CallEvidence'
    BY <1>3, <1>p DEF WriteNote, Proceed, CallEvidence, OneWriter, Published,
        PublishedGrows, ledger, vault, agent
  <2>2. OneWriter'
    BY <1>3 DEF WriteNote, Proceed, CallEvidence, OneWriter, ledger, vault, agent
  <2> QED BY <2>1, <2>2, <1>3, <1>d DEF WriteNote, ledger
<1>4. ASSUME NEW c \in Command, CheckIndex(c)
      PROVE CallEvidence' /\ OneWriter' /\ DeliveredIsPublished'
  <2>1. CallEvidence'
    BY <1>4, <1>p DEF CheckIndex, Proceed, CallEvidence, OneWriter, Published,
        PublishedGrows, ledger, vault, agent
  <2>2. OneWriter'
    BY <1>4 DEF CheckIndex, Proceed, CallEvidence, OneWriter, ledger, vault, agent
  <2> QED BY <2>1, <2>2, <1>4, <1>d DEF CheckIndex, ledger
<1>5. ASSUME NEW c \in Command, CheckLog(c)
      PROVE CallEvidence' /\ OneWriter' /\ DeliveredIsPublished'
  <2>1. CallEvidence'
    BY <1>5, <1>p DEF CheckLog, Proceed, CallEvidence, OneWriter, Published,
        PublishedGrows, ledger, vault, agent
  <2>2. OneWriter'
    BY <1>5 DEF CheckLog, Proceed, CallEvidence, OneWriter, ledger, vault, agent
  <2> QED BY <2>1, <2>2, <1>5, <1>d DEF CheckLog, ledger
<1>6. ASSUME NEW c \in Command, Search(c)
      PROVE CallEvidence' /\ OneWriter' /\ DeliveredIsPublished'
  <2>1. CallEvidence'
    BY <1>6, <1>p DEF Search, Proceed, CallEvidence, OneWriter, Published, PublishedGrows,
        ledger, vault, agent
  <2>2. OneWriter'
    BY <1>6 DEF Search, Proceed, CallEvidence, OneWriter, ledger, vault, agent
  <2> QED BY <2>1, <2>2, <1>6, <1>d DEF Search, ledger
<1>7. ASSUME NEW c \in Command, AppendIndex(c)
      PROVE CallEvidence' /\ OneWriter' /\ DeliveredIsPublished'
  <2>1. CallEvidence'
    BY <1>7, <1>p DEF AppendIndex, Proceed, CallEvidence, OneWriter, Published,
        PublishedGrows, ledger, vault, agent
  <2>2. OneWriter'
    BY <1>7 DEF AppendIndex, Proceed, CallEvidence, OneWriter, ledger, vault, agent
  <2> QED BY <2>1, <2>2, <1>7, <1>d DEF AppendIndex, ledger
<1>8. ASSUME NEW c \in Command, AppendLog(c)
      PROVE CallEvidence' /\ OneWriter' /\ DeliveredIsPublished'
  <2>1. CallEvidence'
    BY <1>8, <1>p DEF AppendLog, Proceed, CallEvidence, OneWriter, Published,
        PublishedGrows, ledger, vault, agent
  <2>2. OneWriter'
    BY <1>8 DEF AppendLog, Proceed, CallEvidence, OneWriter, ledger, vault, agent
  <2> QED BY <2>1, <2>2, <1>8, <1>d DEF AppendLog, ledger
<1>9. ASSUME NEW c \in Command, Add(c)
      PROVE CallEvidence' /\ OneWriter' /\ DeliveredIsPublished'
  <2>1. CallEvidence'
    BY <1>9, <1>p DEF Add, Proceed, CallEvidence, OneWriter, Published, PublishedGrows,
        ledger, vault, agent
  <2>2. OneWriter'
    BY <1>9 DEF Add, Proceed, CallEvidence, OneWriter, ledger, vault, agent
  <2> QED BY <2>1, <2>2, <1>9, <1>d DEF Add, ledger
<1>10. ASSUME NEW c \in Command, Complete(c)
      PROVE CallEvidence' /\ OneWriter' /\ DeliveredIsPublished'
  <2>1. CallEvidence' /\ OneWriter'
    BY <1>10, <1>p DEF Complete, Return, CallEvidence, OneWriter, PublishedGrows, ledger, vault, agent
  <2>2. DeliveredIsPublished'
    BY <1>10, <1>p DEF Complete, Return, CallEvidence, DeliveredIsPublished, ledger
  <2> QED BY <2>1, <2>2
<1>11. ASSUME NEW c \in Command, Fail(c)
      PROVE CallEvidence' /\ OneWriter' /\ DeliveredIsPublished'
  <2>1. CallEvidence'
    BY <1>11, <1>p DEF Fail, Return, CallEvidence, OneWriter, Published, PublishedGrows,
        ledger, vault, agent
  <2>2. OneWriter'
    BY <1>11 DEF Fail, Return, CallEvidence, OneWriter, ledger, vault, agent
  <2> QED BY <2>1, <2>2, <1>11, <1>d DEF Fail, ledger
<1>12. CASE DesktopDies
  BY <1>12, <1>d DEF DesktopDies, CallEvidence, OneWriter, ledger, vault, agent
<1>14. ASSUME NEW d \in Delivery, StrayAdds(d)
      PROVE CallEvidence' /\ OneWriter' /\ DeliveredIsPublished'
  BY <1>14, <1>d, <1>p
  DEF StrayAdds, CallEvidence, OneWriter, PublishedGrows, ledger, vault
<1>13. CASE OtherCommand \/ Midnight \/ UNCHANGED KDvars
  BY <1>13, <1>d, <1>p
  DEF OtherCommand, Midnight, CallEvidence, OneWriter, PublishedGrows, KDvars, ledger, vault, agent
<1> QED
  BY <1>1, <1>2, <1>3, <1>4, <1>5, <1>6, <1>7, <1>8, <1>9, <1>10, <1>11, <1>12, <1>13, <1>14
  DEF KDNext, Progress

\* What the daemon calls Delivered is completely published, for any number
\* of concurrent deliver_knowledge commands, failures and restarts.
THEOREM DeliveredIsPublishedAlways == KDSpec => []DeliveredIsPublished
<1>1. KnowledgeInv /\ [KDNext]_KDvars => KnowledgeInv'
  BY KnowledgeTypes, EvidenceStep DEF KnowledgeInv
<1>2. KnowledgeInv => DeliveredIsPublished
  BY DEF KnowledgeInv
<1> QED
  BY NothingPublished, <1>1, <1>2, PTL DEF KDSpec

\* A note in the vault is written once: no call, on whatever day, touches a
\* note that was published.
THEOREM NotesAreKeptAlways == KDSpec => NotesAreKept
<1>1. KnowledgeInv /\ [KDNext]_KDvars => KnowledgeInv'
  BY KnowledgeTypes, EvidenceStep DEF KnowledgeInv
<1>2. KnowledgeInv /\ [KDNext]_KDvars => [\A d \in Delivery : note[d] \in Day => note'[d] = note[d]]_KDvars
  BY GrowthStep DEF PublishedGrows
<1> QED
  BY NothingPublished, <1>1, <1>2, PTL DEF KDSpec, NotesAreKept

-----------------------------------------------------------------------------
(* How often a marker is written.                                          *)

\* The commands that have looked for d's marker in vain and are about to
\* write it.
Ahead(step, d) == {c \in Command : At(c, step) /\ Target(c) = d}

\* What is written plus what may still be written is within the bound.
Room(entries, step) ==
    \A d \in Delivery : entries[d] + Cardinality(Ahead(step, d)) <= Cardinality(Command)

\* For memories the programs that outlived a desktop come on top.
MemoryRoom ==
    \A d \in Delivery :
        /\ strays[d] <= orphaned[d]
        /\ memory[d] + strays[d] + Cardinality(Ahead("add", d))
              <= Cardinality(Command) + orphaned[d]

RoomInv == Room(index, "append_index") /\ Room(log, "append_log") /\ MemoryRoom

\* The moves of one count x and of the set A of commands ahead of it: commands
\* leave, or join while nothing is written, or one of them writes.
CountMove(x, A, y, B) ==
    \/ y = x /\ B \subseteq A
    \/ y = 0
    \/ y = x + 1 /\ \E c \in A : B \subseteq A \ {c}

\* Such a move keeps the bound.
LEMMA RoomKept ==
    ASSUME NEW A \in SUBSET Command, NEW B \in SUBSET Command, NEW x \in Nat, NEW y \in Nat,
           x + Cardinality(A) <= Cardinality(Command), CountMove(x, A, y, B)
    PROVE y + Cardinality(B) <= Cardinality(Command)
<1>1. IsFiniteSet(Command) /\ IsFiniteSet(A) /\ IsFiniteSet(B)
  BY KnowledgeDeliveryAssumption, FS_Subset
<1>2. /\ Cardinality(A) \in Nat /\ Cardinality(B) \in Nat /\ Cardinality(Command) \in Nat
      /\ Cardinality(B) <= Cardinality(Command)
  BY <1>1, FS_CardinalityType, FS_Subset
<1>3. CASE y = x /\ B \subseteq A
  <2>1. Cardinality(B) <= Cardinality(A)
    BY <1>1, <1>3, FS_Subset
  <2> QED BY <1>2, <1>3, <2>1
<1>4. CASE y = 0
  BY <1>2, <1>4
<1>5. ASSUME NEW c \in A, y = x + 1, B \subseteq A \ {c}
      PROVE y + Cardinality(B) <= Cardinality(Command)
  <2>1. IsFiniteSet(A \ {c}) /\ Cardinality(A \ {c}) = Cardinality(A) - 1
    BY <1>1, FS_RemoveElement
  <2>2. Cardinality(B) <= Cardinality(A \ {c})
    BY <1>5, <2>1, FS_Subset
  <2> QED BY <1>2, <1>5, <2>1, <2>2
<1> QED
  BY <1>3, <1>4, <1>5 DEF CountMove

\* The moves of the memories x, with s strays of o in all: the same, or the
\* desktop dies and leaves some more, or a stray writes.
MemoryMove(x, s, o, A, y, t, p, B) ==
    \/ t = s /\ p = o /\ CountMove(x, A, y, B)
    \/ y = x /\ B = {} /\ \E k \in Nat : t = s + k /\ p = o + k
    \/ y = x + 1 /\ s > 0 /\ t = s - 1 /\ p = o /\ B = A

\* Such a move keeps the bound on memories.
LEMMA MemoryRoomKept ==
    ASSUME NEW A \in SUBSET Command, NEW B \in SUBSET Command,
           NEW x \in Nat, NEW y \in Nat, NEW s \in Nat, NEW t \in Nat, NEW o \in Nat, NEW p \in Nat,
           s <= o, x + s + Cardinality(A) <= Cardinality(Command) + o,
           MemoryMove(x, s, o, A, y, t, p, B)
    PROVE t <= p /\ y + t + Cardinality(B) <= Cardinality(Command) + p
<1>1. /\ IsFiniteSet(A) /\ IsFiniteSet(B)
      /\ Cardinality(A) \in Nat /\ Cardinality(B) \in Nat /\ Cardinality(Command) \in Nat
      /\ Cardinality(B) <= Cardinality(Command)
  BY CountIsNat
<1>2. CASE t = s /\ p = o /\ y = x /\ B \subseteq A
  <2>1. Cardinality(B) <= Cardinality(A)
    BY <1>1, <1>2, FS_Subset
  <2> QED BY <1>1, <1>2, <2>1
<1>3. CASE t = s /\ p = o /\ y = 0
  BY <1>1, <1>3
<1>4. ASSUME t = s, p = o, NEW c \in A, y = x + 1, B \subseteq A \ {c}
      PROVE t <= p /\ y + t + Cardinality(B) <= Cardinality(Command) + p
  <2>1. IsFiniteSet(A \ {c}) /\ Cardinality(A \ {c}) = Cardinality(A) - 1
    BY <1>1, FS_RemoveElement
  <2>2. Cardinality(B) <= Cardinality(A \ {c})
    BY <1>4, <2>1, FS_Subset
  <2> QED BY <1>1, <1>4, <2>1, <2>2
<1>5. ASSUME y = x, B = {}, NEW k \in Nat, t = s + k, p = o + k
      PROVE t <= p /\ y + t + Cardinality(B) <= Cardinality(Command) + p
  <2>1. Cardinality(B) = 0
    BY <1>5, FS_EmptySet
  <2> QED BY <1>1, <1>5, <2>1
<1>6. CASE y = x + 1 /\ s > 0 /\ t = s - 1 /\ p = o /\ B = A
  BY <1>1, <1>6
<1> QED
  BY <1>2, <1>3, <1>4, <1>5, <1>6 DEF MemoryMove, CountMove

\* Every step moves the three counts of every delivery like that.
CountsMove(d) ==
    /\ CountMove(index[d], Ahead("append_index", d), index'[d], Ahead("append_index", d)')
    /\ CountMove(log[d], Ahead("append_log", d), log'[d], Ahead("append_log", d)')
    /\ MemoryMove(memory[d], strays[d], orphaned[d], Ahead("add", d),
                  memory'[d], strays'[d], orphaned'[d], Ahead("add", d)')

\* A marker is written only by a command ahead of it, and commands get ahead
\* only while it is not there (append_once, deliver_agent_memory_with).
LEMMA CountStep ==
    ASSUME KnowledgeInv, [KDNext]_KDvars, NEW d \in Delivery PROVE CountsMove(d)
<1> USE KnowledgeDeliveryAssumption
    DEF KnowledgeInv, KDTypeOK, Call, Step, Idle, At, Target, Proceed, Return, CountsMove,
        CountMove, MemoryMove, Ahead, ledger, vault, agent
<1>1. ASSUME NEW c \in Command, NEW k \in Delivery, Begin(c, k) PROVE CountsMove(d)
  BY <1>1 DEF Begin
<1>2. ASSUME NEW c \in Command, CreateNote(c) PROVE CountsMove(d)
  BY SMTT(20), <1>2 DEF CreateNote
<1>3. ASSUME NEW c \in Command, WriteNote(c) PROVE CountsMove(d)
  BY <1>3 DEF WriteNote
<1>4. ASSUME NEW c \in Command, CheckIndex(c) PROVE CountsMove(d)
  BY <1>4 DEF CheckIndex
<1>5. ASSUME NEW c \in Command, CheckLog(c) PROVE CountsMove(d)
  BY <1>5 DEF CheckLog
<1>6. ASSUME NEW c \in Command, Search(c) PROVE CountsMove(d)
  BY <1>6 DEF Search
<1>7. ASSUME NEW c \in Command, AppendIndex(c) PROVE CountsMove(d)
  BY <1>7 DEF AppendIndex
<1>8. ASSUME NEW c \in Command, AppendLog(c) PROVE CountsMove(d)
  BY <1>8 DEF AppendLog
<1>9. ASSUME NEW c \in Command, Add(c) PROVE CountsMove(d)
  BY <1>9 DEF Add
<1>10. ASSUME NEW c \in Command, Complete(c) PROVE CountsMove(d)
  BY <1>10 DEF Complete
<1>11. ASSUME NEW c \in Command, Fail(c) PROVE CountsMove(d)
  BY <1>11 DEF Fail
<1>12. CASE DesktopDies
  <2>1. PICK started \in SUBSET {c \in Command : At(c, "add")} :
           /\ strays' = [k \in Delivery |->
                 strays[k] + Cardinality({c \in started : Target(c) = k})]
           /\ orphaned' = [k \in Delivery |->
                 orphaned[k] + Cardinality({c \in started : Target(c) = k})]
    BY <1>12 DEF DesktopDies
  <2> DEFINE left == Cardinality({c \in started : Target(c) = d})
  <2>2. left \in Nat
    BY CountIsNat
  <2>3. strays'[d] = strays[d] + left /\ orphaned'[d] = orphaned[d] + left
    BY <2>1
  <2> HIDE DEF left
  <2>4. /\ UNCHANGED <<index, log, memory>>
        /\ Ahead("append_index", d)' = {} /\ Ahead("append_log", d)' = {} /\ Ahead("add", d)' = {}
    BY <1>12 DEF DesktopDies
  <2> QED
    BY <2>2, <2>3, <2>4
<1>14. ASSUME NEW k \in Delivery, StrayAdds(k) PROVE CountsMove(d)
  <2>1. /\ UNCHANGED <<index, log, orphaned, call>>
        /\ \A step : Ahead(step, d)' = Ahead(step, d)
    BY <1>14 DEF StrayAdds
  <2>2. CASE k = d
    BY <1>14, <2>1, <2>2 DEF StrayAdds
  <2>3. CASE k # d
    BY <1>14, <2>1, <2>3 DEF StrayAdds
  <2> QED
    BY <2>2, <2>3
<1>13. CASE OtherCommand \/ Midnight \/ UNCHANGED KDvars
  BY <1>13 DEF OtherCommand, Midnight, KDvars
<1> QED
  BY <1>1, <1>2, <1>3, <1>4, <1>5, <1>6, <1>7, <1>8, <1>9, <1>10, <1>11, <1>12, <1>13, <1>14
  DEF KDNext, Progress

\* No delivery has more marked entries in index.md or in log.md than there are
\* concurrent commands, however often it fails and is repeated: with one
\* command, one at most.  In AgentMemoryOS there is at most one more for every
\* program that was still adding when the desktop died.
THEOREM PublishedOnceAlways == KDSpec => []PublishedOnce
<1>1. KnowledgeInv /\ [KDNext]_KDvars => KnowledgeInv'
  BY KnowledgeTypes, EvidenceStep DEF KnowledgeInv
<1>2. KDInit => RoomInv
  <2> SUFFICES ASSUME KDInit PROVE RoomInv
      OBVIOUS
  <2>1. \A s \in {"append_index", "append_log", "add"}, d \in Delivery : Ahead(s, d) = {}
    BY DEF KDInit, Ahead, At, Idle
  <2>2. Cardinality({}) = 0 /\ Cardinality(Command) \in Nat
    BY FS_EmptySet, FS_CardinalityType, KnowledgeDeliveryAssumption
  <2>3. \A d \in Delivery : /\ index[d] = 0 /\ log[d] = 0 /\ memory[d] = 0
                            /\ strays[d] = 0 /\ orphaned[d] = 0
    BY DEF KDInit
  <2>4. \A d \in Delivery : /\ Cardinality(Ahead("append_index", d)) = 0
                            /\ Cardinality(Ahead("append_log", d)) = 0
                            /\ Cardinality(Ahead("add", d)) = 0
    BY <2>1, <2>2
  <2> QED
    BY <2>2, <2>3, <2>4 DEF RoomInv, Room, MemoryRoom
<1>3. KnowledgeInv /\ RoomInv /\ [KDNext]_KDvars => RoomInv'
  <2> SUFFICES ASSUME KnowledgeInv, RoomInv, [KDNext]_KDvars, NEW d \in Delivery
               PROVE /\ index'[d] + Cardinality(Ahead("append_index", d)') <= Cardinality(Command)
                     /\ log'[d] + Cardinality(Ahead("append_log", d)') <= Cardinality(Command)
                     /\ strays'[d] <= orphaned'[d]
                     /\ memory'[d] + strays'[d] + Cardinality(Ahead("add", d)')
                           <= Cardinality(Command) + orphaned'[d]
      BY DEF RoomInv, Room, MemoryRoom
  <2>1. CountsMove(d)
    BY CountStep
  <2>2. \A s : Ahead(s, d) \in SUBSET Command /\ Ahead(s, d)' \in SUBSET Command
    BY DEF Ahead
  <2>3. /\ index[d] \in Nat /\ log[d] \in Nat /\ memory[d] \in Nat
        /\ index'[d] \in Nat /\ log'[d] \in Nat /\ memory'[d] \in Nat
        /\ strays[d] \in Nat /\ orphaned[d] \in Nat /\ strays'[d] \in Nat /\ orphaned'[d] \in Nat
    BY <1>1 DEF KnowledgeInv, KDTypeOK
  <2>4. index'[d] + Cardinality(Ahead("append_index", d)') <= Cardinality(Command)
    BY <2>1, <2>2, <2>3, RoomKept DEF CountsMove, RoomInv, Room
  <2>5. log'[d] + Cardinality(Ahead("append_log", d)') <= Cardinality(Command)
    BY <2>1, <2>2, <2>3, RoomKept DEF CountsMove, RoomInv, Room
  <2>6. /\ strays'[d] <= orphaned'[d]
        /\ memory'[d] + strays'[d] + Cardinality(Ahead("add", d)')
              <= Cardinality(Command) + orphaned'[d]
    <3>1. /\ strays[d] <= orphaned[d]
          /\ memory[d] + strays[d] + Cardinality(Ahead("add", d))
                <= Cardinality(Command) + orphaned[d]
      BY DEF RoomInv, MemoryRoom
    <3>2. MemoryMove(memory[d], strays[d], orphaned[d], Ahead("add", d),
                     memory'[d], strays'[d], orphaned'[d], Ahead("add", d)')
      BY <2>1 DEF CountsMove
    <3> QED
      BY <2>2, <2>3, <3>1, <3>2, MemoryRoomKept
  <2> QED
    BY <2>4, <2>5, <2>6
<1>4. KnowledgeInv /\ RoomInv => PublishedOnce
  <2> SUFFICES ASSUME KnowledgeInv, RoomInv, NEW d \in Delivery
               PROVE /\ index[d] <= Cardinality(Command)
                     /\ log[d] <= Cardinality(Command)
                     /\ memory[d] <= Cardinality(Command) + orphaned[d]
      BY DEF PublishedOnce
  <2>1. \A s : IsFiniteSet(Ahead(s, d))
    <3>1. \A s : Ahead(s, d) \in SUBSET Command
      BY DEF Ahead
    <3> QED
      BY <3>1, FS_Subset, KnowledgeDeliveryAssumption
  <2>2. \A s : Cardinality(Ahead(s, d)) \in Nat
    BY <2>1, FS_CardinalityType
  <2>3. /\ index[d] \in Nat /\ log[d] \in Nat /\ memory[d] \in Nat /\ Cardinality(Command) \in Nat
        /\ strays[d] \in Nat /\ orphaned[d] \in Nat
    BY FS_CardinalityType, KnowledgeDeliveryAssumption DEF KnowledgeInv, KDTypeOK
  <2> QED
    BY <2>2, <2>3 DEF RoomInv, Room, MemoryRoom
<1> QED
  BY NothingPublished, <1>1, <1>2, <1>3, <1>4, PTL DEF KDSpec
=============================================================================
