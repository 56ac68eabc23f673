------------------------- MODULE KnowledgeDelivery -------------------------
(***************************************************************************)
(* deliver_knowledge of apps/desktop/src-tauri/src/lib.rs: the second      *)
(* phase of a knowledge delivery.  The command reads the m3 catalog,       *)
(* checks that the delivery is Prepared, publishes it at its destination   *)
(* and only then asks the daemon to record it as Delivered, at the         *)
(* revision it read first.  Between any two steps the desktop may die, the *)
(* disk or the external program may fail, another command may write the m3 *)
(* catalog, another caller may deliver the same thing, and midnight may    *)
(* pass.                                                                   *)
(*                                                                         *)
(* Destinations.  A BastetMind vault receives a note (create_new, its text *)
(* holds the day of delivery), a line in index.md and an entry in log.md,  *)
(* both appended unless the delivery's marker is there.  AgentMemoryOS is  *)
(* an external program: it is searched for the marker, and the memory is   *)
(* added if it is not found.                                               *)
(*                                                                         *)
(* A note is Absent, Partial (created, its text not or not fully written)  *)
(* or the day in its text; index, log and memory count the entries that    *)
(* hold the marker.                                                        *)
(***************************************************************************)
EXTENDS Naturals, FiniteSets

CONSTANTS
    Command,      \* deliver_knowledge commands that may be in flight at once
    Delivery,     \* knowledge deliveries, all prepared
    VaultDelivery, \* those whose target is BastetMind; the others AgentMemoryOs
    MaxDay,       \* bound: days that pass
    MaxRevision,  \* bound: revisions of the m3 catalog
    MaxFailures,  \* bound: failed writes and program calls, deaths of the desktop
    Absent, Partial, NoDelivery

ASSUME KnowledgeDeliveryAssumption ==
    /\ IsFiniteSet(Command)
    /\ VaultDelivery \subseteq Delivery
    /\ MaxDay \in Nat /\ MaxRevision \in Nat /\ MaxFailures \in Nat
    /\ NoDelivery \notin Delivery
    /\ {Absent, Partial} \cap Nat = {} /\ Absent # Partial

VARIABLES
    status,    \* m3_catalog: DeliveryState of every delivery
    revision,  \* m3_catalog: its revision
    note,      \* the vault's note of every delivery
    index,     \* marked lines of index.md
    log,       \* marked entries of log.md
    memory,    \* marked memories in AgentMemoryOS
    strays,    \* running "add" programs whose desktop died
    orphaned,  \* how many of them there ever were (history)
    call,      \* what each command is doing
    day,       \* the date the frontend passes as delivered_on
    faults

ledger == <<status, revision>>
vault == <<note, index, log>>
agent == <<memory, strays, orphaned>>
KDvars == <<ledger, vault, agent, call, day, faults>>

Day == 0..MaxDay

\* Program points, named for the step that comes next.
Step == {"idle", "create_note", "write_note", "check_index", "append_index",
         "check_log", "append_log", "search", "add", "complete"}

Call == [step : Step, delivery : Delivery \cup {NoDelivery}, revision : Nat, day : Day]
Idle == [step |-> "idle", delivery |-> NoDelivery, revision |-> 0, day |-> 0]

KDTypeOK ==
    /\ status \in [Delivery -> {"Prepared", "Delivered"}]
    /\ revision \in 0..MaxRevision
    /\ note \in [Delivery -> {Absent, Partial} \cup Day]
    /\ index \in [Delivery -> Nat] /\ log \in [Delivery -> Nat] /\ memory \in [Delivery -> Nat]
    /\ strays \in [Delivery -> Nat] /\ orphaned \in [Delivery -> Nat]
    /\ call \in [Command -> Call]
    /\ \A c \in Command : call[c].step # "idle" => call[c].delivery \in Delivery
    /\ day \in Day
    /\ faults \in 0..MaxFailures

At(c, step) == call[c].step = step
Target(c) == call[c].delivery
Proceed(c, step) == call' = [call EXCEPT ![c].step = step]
Return(c) == call' = [call EXCEPT ![c] = Idle]

-----------------------------------------------------------------------------
\* deliver_knowledge up to the first effect.
Begin(c, d) ==
    /\ At(c, "idle")
    /\ status[d] = "Prepared"
    /\ call' = [call EXCEPT ![c] =
          [step |-> IF d \in VaultDelivery THEN "create_note" ELSE "search",
           delivery |-> d, revision |-> revision, day |-> day]]
    /\ UNCHANGED <<ledger, vault, agent, day, faults>>

CreateNote_Overwrites(c) ==
    /\ At(c, "create_note")
    /\ note' = [note EXCEPT ![Target(c)] = Partial]
    /\ Proceed(c, "write_note")
    /\ UNCHANGED <<ledger, index, log, agent, day, faults>>

\* create_new succeeds when there is no such file.  Otherwise the file must
\* hold exactly the text this call would write, or the command fails.
CreateNote(c) ==
    /\ At(c, "create_note")
    /\ \/ /\ note[Target(c)] = Absent
          /\ note' = [note EXCEPT ![Target(c)] = Partial]
          /\ Proceed(c, "write_note")
       \/ /\ note[Target(c)] = call[c].day
          /\ Proceed(c, "check_index")
          /\ UNCHANGED note
       \/ /\ note[Target(c)] \notin {Absent, call[c].day}
          /\ Return(c)
          /\ UNCHANGED note
    /\ UNCHANGED <<ledger, index, log, agent, day, faults>>

\* write_all of the text, which names the day of delivery.
WriteNote(c) ==
    /\ At(c, "write_note")
    /\ note' = [note EXCEPT ![Target(c)] = call[c].day]
    /\ Proceed(c, "check_index")
    /\ UNCHANGED <<ledger, index, log, agent, day, faults>>

CheckIndex_AsLog(c) ==
    /\ At(c, "check_index")
    /\ Proceed(c, IF log[Target(c)] > 0 THEN "check_log" ELSE "append_index")
    /\ UNCHANGED <<ledger, vault, agent, day, faults>>

\* append_once reads the whole file first, ...
CheckIndex(c) ==
    /\ At(c, "check_index")
    /\ Proceed(c, IF index[Target(c)] > 0 THEN "check_log" ELSE "append_index")
    /\ UNCHANGED <<ledger, vault, agent, day, faults>>

\* ... and appends in a second step.
AppendIndex(c) ==
    /\ At(c, "append_index")
    /\ index' = [index EXCEPT ![Target(c)] = @ + 1]
    /\ Proceed(c, "check_log")
    /\ UNCHANGED <<ledger, note, log, agent, day, faults>>

CheckLog_TrustsIndex(c) ==
    /\ At(c, "check_log")
    /\ Proceed(c, IF index[Target(c)] > 0 THEN "complete" ELSE "append_log")
    /\ UNCHANGED <<ledger, vault, agent, day, faults>>

CheckLog(c) ==
    /\ At(c, "check_log")
    /\ Proceed(c, IF log[Target(c)] > 0 THEN "complete" ELSE "append_log")
    /\ UNCHANGED <<ledger, vault, agent, day, faults>>

AppendLog(c) ==
    /\ At(c, "append_log")
    /\ log' = [log EXCEPT ![Target(c)] = @ + 1]
    /\ Proceed(c, "complete")
    /\ UNCHANGED <<ledger, note, index, agent, day, faults>>

\* External: the search reports a memory that holds the marker.
Search(c) ==
    /\ At(c, "search")
    /\ Proceed(c, IF memory[Target(c)] > 0 THEN "complete" ELSE "add")
    /\ UNCHANGED <<ledger, vault, agent, day, faults>>

\* External: the memory is stored and its identity is the receipt.
Add(c) ==
    /\ At(c, "add")
    /\ memory' = [memory EXCEPT ![Target(c)] = @ + 1]
    /\ Proceed(c, "complete")
    /\ UNCHANGED <<ledger, vault, strays, orphaned, day, faults>>

\* complete_knowledge_delivery at the revision read by Begin; the command
\* ends whether it is recorded or refused.
Complete(c) ==
    /\ At(c, "complete")
    /\ \/ /\ call[c].revision = revision
          /\ status[Target(c)] = "Prepared"
          /\ revision < MaxRevision
          /\ status' = [status EXCEPT ![Target(c)] = "Delivered"]
          /\ revision' = revision + 1
       \/ /\ call[c].revision # revision \/ status[Target(c)] # "Prepared"
          /\ UNCHANGED ledger
    /\ Return(c)
    /\ UNCHANGED <<vault, agent, day, faults>>

\* An I/O error or a failed program call ends the command with an error; an
\* append may fail just after the marker was written, and a memory may be
\* stored although its receipt is lost or malformed.
Fail(c) ==
    /\ ~At(c, "idle")
    /\ faults < MaxFailures
    /\ faults' = faults + 1
    /\ Return(c)
    /\ \/ UNCHANGED <<index, log, memory>>
       \/ /\ At(c, "append_index")
          /\ index' = [index EXCEPT ![Target(c)] = @ + 1]
          /\ UNCHANGED <<log, memory>>
       \/ /\ At(c, "append_log")
          /\ log' = [log EXCEPT ![Target(c)] = @ + 1]
          /\ UNCHANGED <<index, memory>>
       \/ /\ At(c, "add")
          /\ memory' = [memory EXCEPT ![Target(c)] = @ + 1]
          /\ UNCHANGED <<index, log>>
    /\ UNCHANGED <<ledger, note, strays, orphaned, day>>

\* The desktop process dies; the files and the daemon stay, and so do the
\* programs that were started to add a memory.
DesktopDies ==
    /\ faults < MaxFailures
    /\ \E c \in Command : ~At(c, "idle")
    /\ faults' = faults + 1
    /\ \E started \in SUBSET {c \in Command : At(c, "add")} :
          LET Left(d) == Cardinality({c \in started : Target(c) = d})
          IN /\ strays' = [d \in Delivery |-> strays[d] + Left(d)]
             /\ orphaned' = [d \in Delivery |-> orphaned[d] + Left(d)]
    /\ call' = [c \in Command |-> Idle]
    /\ UNCHANGED <<ledger, vault, memory, day>>

\* External: such a program does its work, whoever tries again meanwhile.
StrayAdds(d) ==
    /\ strays[d] > 0
    /\ strays' = [strays EXCEPT ![d] = @ - 1]
    /\ memory' = [memory EXCEPT ![d] = @ + 1]
    /\ UNCHANGED <<ledger, vault, orphaned, call, day, faults>>

\* Any other command writes the m3 catalog.
OtherCommand ==
    /\ revision < MaxRevision
    /\ revision' = revision + 1
    /\ UNCHANGED <<status, vault, agent, call, day, faults>>

Midnight ==
    /\ day < MaxDay
    /\ day' = day + 1
    /\ UNCHANGED <<ledger, vault, agent, call, faults>>

-----------------------------------------------------------------------------
KDInit ==
    /\ status = [d \in Delivery |-> "Prepared"]
    /\ revision = 0
    /\ note = [d \in Delivery |-> Absent]
    /\ index = [d \in Delivery |-> 0]
    /\ log = [d \in Delivery |-> 0]
    /\ memory = [d \in Delivery |-> 0]
    /\ strays = [d \in Delivery |-> 0]
    /\ orphaned = [d \in Delivery |-> 0]
    /\ call = [c \in Command |-> Idle]
    /\ day = 0
    /\ faults = 0

Progress(c) ==
    \/ CreateNote(c) \/ WriteNote(c)
    \/ CheckIndex(c) \/ AppendIndex(c)
    \/ CheckLog(c) \/ AppendLog(c)
    \/ Search(c) \/ Add(c)
    \/ Complete(c)

KDNext ==
    \/ \E c \in Command :
          \/ \E d \in Delivery : Begin(c, d)
          \/ Progress(c)
          \/ Fail(c)
    \/ DesktopDies
    \/ \E d \in Delivery : StrayAdds(d)
    \/ OtherCommand
    \/ Midnight

KDSpec == KDInit /\ [][KDNext]_KDvars

-----------------------------------------------------------------------------
(* Properties                                                              *)

Published(d) ==
    IF d \in VaultDelivery
    THEN note[d] \in Day /\ index[d] > 0 /\ log[d] > 0
    ELSE memory[d] > 0

\* "Only then does the daemon mark the prepared delivery Delivered": what
\* the ledger calls delivered is completely there, whatever failed and was
\* repeated on the way (deliver_knowledge, deliver_bastet_mind).
DeliveredIsPublished ==
    \A d \in Delivery : status[d] = "Delivered" => Published(d)

\* Repeating after failures and deaths publishes nothing again: only calls
\* that looked for the marker before any of them appended can double an
\* entry, so there is one per concurrent command at most, and exactly one
\* while the frontend keeps its button disabled during a call (append_once,
\* the marker search of deliver_agent_memory_with).  A memory may come once
\* more for every program that outlived its desktop.
PublishedOnce ==
    LET Bound == Cardinality(Command)
    IN  \A d \in Delivery :
            index[d] <= Bound /\ log[d] <= Bound /\ memory[d] <= Bound + orphaned[d]

\* A published note is never written again, by any command on any day
\* (create_new in deliver_bastet_mind).
NotesAreKept ==
    [][\A d \in Delivery : note[d] \in Day => note'[d] = note[d]]_KDvars

\* A delivery that is still Prepared can be tried again: when no command is
\* active, the next one does not stop at the note of an earlier attempt
\* (deliver_bastet_mind's comparison with the existing file).
RetryIsPossible ==
    (\A c \in Command : At(c, "idle")) =>
        \A d \in VaultDelivery : status[d] = "Prepared" => note[d] \in {Absent, day}
=============================================================================
