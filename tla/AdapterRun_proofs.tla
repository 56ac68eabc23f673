-------------------------- MODULE AdapterRun_proofs --------------------------
(***************************************************************************)
(* What the provider adapters report is what happened, whatever the bounds *)
(* on lines, notifications, faults, interrupts, queues and quarantine.     *)
(* Codex: the tracker sees the child's notifications in order and without  *)
(* a gap, an outcome has its cause, and every step is one AdapterRun       *)
(* allows.  Agy, in the second half: the reader never loses its place in   *)
(* the child's output, an outcome has its cause, and every step is one     *)
(* AdapterRun allows.                                                      *)
(***************************************************************************)
EXTENDS CodexRun, AgyOutcome, SequenceTheorems, TLAPS

-----------------------------------------------------------------------------
(* Messages and types.                                                     *)

Bodies == {"ok", "rejected", "bad"}
Messages ==
    {Note(n) : n \in Notes} \cup {Reply(i, b) : i \in Int, b \in Bodies} \cup {Garbage}

Points == {"spawn", "pipes", "send", "receive", "poll", "done"}
Methods == {"initialize", "initialized", "thread/start", "turn/start", "turn/interrupt",
            "turn/interrupt within", "none"}

ThreadTypes ==
    /\ pc \in Points /\ method \in Methods /\ nextId \in Nat
    /\ child \in {"none", "live", "clean", "lost"}
    /\ held \in Outcomes \cup {"none"} /\ text \in {"none", "some", "overflowed"}
    /\ outcome \in Outcomes \cup {"none"}

PipeTypes ==
    /\ pending \in Seq(Notes) /\ abandoned \in Seq(Int) /\ inbox \in Seq(Messages)
    /\ ingested \in Seq(Notes) /\ log \in Seq(Notes)
    /\ answered \subseteq Requested /\ faults \in Nat
    /\ overflowed \in BOOLEAN /\ evicted \in BOOLEAN

\* A notification carries its kind.
LEMMA NoteFacts ==
  ASSUME NEW n \in Notes
  PROVE  Note(n) \in Messages /\ Note(n).type = "note" /\ Note(n).note = n
BY DEF Messages, Note

\* A reply carries the id of its request and a body.
LEMMA ReplyFacts ==
  ASSUME NEW i \in Int, NEW b \in Bodies
  PROVE  /\ Reply(i, b) \in Messages /\ Reply(i, b).type = "reply"
         /\ Reply(i, b).id = i /\ Reply(i, b).body = b
<1>1. Reply(i, b) \in Messages
  BY DEF Messages
<1>2. QED
  BY <1>1 DEF Reply

\* Garbage carries nothing.
LEMMA GarbageFacts == Garbage \in Messages /\ Garbage.type = "garbage"
BY DEF Messages, Garbage

\* Conversely, the type tells what a message carries.
LEMMA MessageFacts ==
  ASSUME NEW m \in Messages
  PROVE  /\ m.type \in {"note", "reply", "garbage"}
         /\ m.type = "note" => m.note \in Notes
         /\ m.type = "reply" => m.id \in Int /\ m.body \in Bodies
<1>1. CASE \E n \in Notes : m = Note(n)
  BY <1>1, NoteFacts
<1>2. CASE \E i \in Int, b \in Bodies : m = Reply(i, b)
  BY <1>2, ReplyFacts
<1>3. CASE m = Garbage
  BY <1>3, GarbageFacts
<1>4. QED
  BY <1>1, <1>2, <1>3 DEF Messages

-----------------------------------------------------------------------------
(* Sequences.                                                              *)

\* The elements of a sequence are those at its positions.
LEMMA InRange ==
  ASSUME NEW S, NEW s \in Seq(S), NEW x
  PROVE  x \in Range(s) <=> \E k \in 1..Len(s) : s[k] = x
<1>1. DOMAIN s = 1..Len(s)
  BY LenProperties
<1>2. QED
  BY <1>1 DEF Range

\* Appending adds one element.
LEMMA RangeAppend ==
  ASSUME NEW S, NEW s \in Seq(S), NEW e \in S
  PROVE  \A x : x \in Range(Append(s, e)) <=> x \in Range(s) \/ x = e
<1> SUFFICES ASSUME NEW x
             PROVE  x \in Range(Append(s, e)) <=> x \in Range(s) \/ x = e
  OBVIOUS
<1>1. Append(s, e) \in Seq(S) /\ Len(Append(s, e)) = Len(s) + 1 /\ Len(s) \in Nat
  BY AppendProperties, LenProperties
<1>2. /\ Append(s, e)[Len(s) + 1] = e
      /\ \A k \in 1..Len(s) : Append(s, e)[k] = s[k]
  BY AppendProperties
<1>3. (\E k \in 1..Len(s) + 1 : Append(s, e)[k] = x)
        <=> (\E k \in 1..Len(s) : s[k] = x) \/ x = e
  BY <1>1, <1>2
<1>4. QED
  BY <1>1, <1>3, InRange

\* Taking one occurrence out leaves every other element.
LEMMA RangeRemoveAt ==
  ASSUME NEW S, NEW s \in Seq(S), NEW p \in 1..Len(s)
  PROVE  /\ RemoveAt(s, p) \in Seq(S)
         /\ \A x : x \in Range(s) /\ x # s[p] => x \in Range(RemoveAt(s, p))
<1> DEFINE left == SubSeq(s, 1, p - 1)
           right == SubSeq(s, p + 1, Len(s))
<1>1. Len(s) \in Nat
  BY LenProperties
<1>2. /\ left \in Seq(S) /\ Len(left) = p - 1
      /\ \A k \in 1..p - 1 : left[k] = s[k]
  BY <1>1
<1>3. /\ right \in Seq(S) /\ Len(right) = Len(s) - p
      /\ \A k \in 1..Len(s) - p : right[k] = s[p + k]
  BY <1>1
<1>4. RemoveAt(s, p) = left \o right
  BY DEF RemoveAt
<1> HIDE DEF left, right
<1>5. /\ left \o right \in Seq(S) /\ Len(left \o right) = Len(s) - 1
      /\ \A k \in 1..p - 1 : (left \o right)[k] = s[k]
      /\ \A k \in p..Len(s) - 1 : (left \o right)[k] = s[k + 1]
  <2>1. left \o right \in Seq(S) /\ Len(left \o right) = Len(left) + Len(right)
    BY <1>2, <1>3, ConcatProperties
  <2>2. \A k \in 1..p - 1 : (left \o right)[k] = s[k]
    BY <1>1, <1>2, <1>3, ConcatProperties
  <2>3. ASSUME NEW k \in p..Len(s) - 1 PROVE (left \o right)[k] = s[k + 1]
    <3>1. (left \o right)[k] = right[k - (p - 1)]
      <4>1. k \in 1..(Len(left) + Len(right)) /\ ~(k <= Len(left))
        BY <1>1, <1>2, <1>3
      <4>2. (left \o right)[k] = right[k - Len(left)]
        BY <4>1, <1>2, <1>3, ConcatProperties
      <4>3. QED
        BY <4>2, <1>2
    <3>2. right[k - (p - 1)] = s[p + (k - (p - 1))]
      BY <1>1, <1>3
    <3>3. QED
      BY <3>1, <3>2, <1>1
  <2>4. QED
    BY <2>1, <2>2, <2>3, <1>1, <1>2, <1>3
<1>6. ASSUME NEW x, x \in Range(s), x # s[p] PROVE x \in Range(left \o right)
  <2>1. PICK k \in 1..Len(s) : s[k] = x
    BY <1>6, InRange
  <2>2. CASE k < p
    <3>1. k \in 1..Len(s) - 1 /\ (left \o right)[k] = x
      BY <2>1, <2>2, <1>5, <1>1
    <3>2. QED
      BY <3>1, <1>5, InRange
  <2>3. CASE k > p
    <3>1. k - 1 \in 1..Len(s) - 1 /\ (left \o right)[k - 1] = x
      <4>1. k - 1 \in p..Len(s) - 1 /\ (k - 1) + 1 = k
        BY <2>3, <1>1
      <4>2. (left \o right)[k - 1] = s[(k - 1) + 1]
        BY <4>1, <1>5
      <4>3. QED
        BY <4>1, <4>2, <2>1, <1>1
    <3>2. QED
      BY <3>1, <1>5, InRange
  <2>4. QED
    BY <2>1, <2>2, <2>3, <1>6, <1>1
<1>7. QED
  BY <1>4, <1>5, <1>6

\* discard_abandoned_response forgets the id and nothing else.
LEMMA ForgetFacts ==
  ASSUME PipeTypes, NEW id, id \in Range(abandoned)
  PROVE  /\ Forget(id) \in Seq(Int)
         /\ \A x : x \in Range(abandoned) /\ x # id => x \in Range(Forget(id))
<1> DEFINE q == CHOOSE p \in DOMAIN abandoned : abandoned[p] = id
<1>1. abandoned \in Seq(Int) /\ DOMAIN abandoned = 1..Len(abandoned)
  BY LenProperties DEF PipeTypes
<1>2. \E p \in DOMAIN abandoned : abandoned[p] = id
  BY <1>1, InRange
<1>3. q \in 1..Len(abandoned) /\ abandoned[q] = id
  BY <1>1, <1>2
<1>4. Forget(id) = RemoveAt(abandoned, q)
  BY DEF Forget
<1> HIDE DEF q
<1>5. QED
  BY <1>1, <1>3, <1>4, RangeRemoveAt

-----------------------------------------------------------------------------
(* The invariant.                                                          *)

\* The notifications of `box' are those of `all' from `start' on: each message has
\* a place in the log, which a notification occupies.  Unless some were lost, the
\* box reaches to the end of the log.
Follows(start, box, all, lost) ==
    \E place \in [1..Len(box) + 1 -> Nat] :
        /\ place[1] = start
        /\ \A k \in 1..Len(box) :
              place[k + 1] = IF box[k].type = "note" THEN place[k] + 1 ELSE place[k]
        /\ \A k \in 1..Len(box) :
              box[k].type = "note" => place[k] \in 1..Len(all) /\ box[k].note = all[place[k]]
        /\ place[Len(box) + 1] <= Len(all) + 1
        /\ lost \/ place[Len(box) + 1] = Len(all) + 1

Handled == Len(ingested) + Len(pending)

\* What the tracker was given, what was put by and what waits in the pipe make up
\* the log, in this order.
OrderInv ==
    /\ Len(ingested) <= Len(log)
    /\ \A k \in 1..Len(ingested) : ingested[k] = log[k]
    /\ pc # "done" =>
         /\ Handled <= Len(log)
         /\ \A k \in 1..Len(pending) : pending[k] = log[Len(ingested) + k]
         /\ Follows(Handled + 1, inbox, log, overflowed)

IsReplyTo(m, i) == m.type = "reply" /\ m.id = i

\* A reply to request i is still to come: it was not sent or not taken.
Outstanding(i) == i \notin answered \/ \E k \in 1..Len(inbox) : IsReplyTo(inbox[k], i)

Awaited(i) == pc = "receive" /\ i = nextId - 1

\* While the child keeps to the protocol, each request is answered once and
\* every message decodes; and every reply still to come is awaited or
\* quarantined, unless the quarantine was too small.
ProperInv ==
    faults = 0 =>
        /\ \A k \in 1..Len(inbox) :
              /\ inbox[k].type # "garbage"
              /\ inbox[k].type = "note" => inbox[k].note # "malformed"
              /\ inbox[k].type = "reply" => inbox[k].id \in answered /\ inbox[k].body # "bad"
        /\ \A k, l \in 1..Len(inbox) :
              (inbox[k].type = "reply" /\ IsReplyTo(inbox[l], inbox[k].id)) => k = l
        /\ \A k \in 1..Len(pending) : pending[k] # "malformed"

QuarantineInv ==
    (faults = 0 /\ ~evicted) =>
        \A i \in Requested : Outstanding(i) => i \in Range(abandoned) \/ Awaited(i)

\* What was observed so far.
Told(n) == \E k \in 1..Len(ingested) : ingested[k] = n
Answered ==
    \E j, k \in 1..Len(ingested) :
        j < k /\ ingested[j] = "answer" /\ ingested[k] = "completed"

SeenInv ==
    /\ text = "some" => Told("answer")
    /\ (held = "Succeeded" /\ text = "some") \/ outcome = "Succeeded" => Answered
    /\ held = "Cancelled" => Told("interrupted")
    /\ outcome = "Cancelled" => cancelled \/ Told("interrupted")

\* One child, and an outcome exactly when the run is over.
PhaseInv ==
    /\ pc = "spawn" => child = "none"
    /\ outcome = "none" <=> pc # "done"

CodexInv ==
    /\ ThreadTypes /\ PipeTypes /\ PhaseInv /\ SeenInv /\ DriftHasCause
    /\ OrderInv
    /\ pc # "done" => ProperInv /\ QuarantineInv

-----------------------------------------------------------------------------
(* The pipe and the log.                                                   *)

\* The first message is the next notification of the log, or none.
LEMMA FollowsTail ==
  ASSUME NEW start \in Nat, NEW box \in Seq(Messages), NEW all \in Seq(Notes), NEW lost,
         Follows(start, box, all, lost), box # <<>>
  PROVE  /\ Head(box).type = "note" =>
              start \in 1..Len(all) /\ Head(box).note = all[start]
         /\ Follows(IF Head(box).type = "note" THEN start + 1 ELSE start, Tail(box), all, lost)
<1>1. PICK place \in [1..Len(box) + 1 -> Nat] :
        /\ place[1] = start
        /\ \A k \in 1..Len(box) :
              place[k + 1] = IF box[k].type = "note" THEN place[k] + 1 ELSE place[k]
        /\ \A k \in 1..Len(box) :
              box[k].type = "note" => place[k] \in 1..Len(all) /\ box[k].note = all[place[k]]
        /\ place[Len(box) + 1] <= Len(all) + 1
        /\ lost \/ place[Len(box) + 1] = Len(all) + 1
  BY DEF Follows
<1>2. /\ Len(box) \in Nat \ {0} /\ Len(all) \in Nat
      /\ Head(box) = box[1] /\ Tail(box) \in Seq(Messages) /\ Len(Tail(box)) = Len(box) - 1
      /\ \A k \in 1..Len(box) - 1 : Tail(box)[k] = box[k + 1]
  BY HeadTailProperties, EmptySeq, LenProperties
<1> DEFINE n == Len(box) - 1
           rest == Tail(box)
           moved == [k \in 1..n + 1 |-> place[k + 1]]
<1>3. n \in Nat /\ n + 1 = Len(box) /\ Len(rest) = n /\ \A k \in 1..n : rest[k] = box[k + 1]
  BY <1>2
<1>4. moved \in [1..n + 1 -> Nat]
  BY <1>1, <1>3
<1>5. moved[1] = IF Head(box).type = "note" THEN start + 1 ELSE start
  BY <1>1, <1>2, <1>3
<1>6. ASSUME NEW k \in 1..n
      PROVE  /\ moved[k + 1] = IF rest[k].type = "note" THEN moved[k] + 1 ELSE moved[k]
             /\ rest[k].type = "note" => moved[k] \in 1..Len(all) /\ rest[k].note = all[moved[k]]
  <2>1. k + 1 \in 1..Len(box) /\ moved[k] = place[k + 1] /\ moved[k + 1] = place[(k + 1) + 1]
        /\ rest[k] = box[k + 1]
    BY <1>3
  <2>2. QED
    BY <2>1, <1>1
<1>7. moved[n + 1] = place[Len(box) + 1]
  BY <1>3
<1>8. Follows(IF Head(box).type = "note" THEN start + 1 ELSE start, rest, all, lost)
  <2> HIDE DEF moved, n, rest
  <2>1. moved \in [1..Len(rest) + 1 -> Nat]
    BY <1>3, <1>4
  <2>2. QED
    BY <2>1, <1>1, <1>3, <1>5, <1>6, <1>7 DEF Follows
<1>9. Head(box).type = "note" => start \in 1..Len(all) /\ Head(box).note = all[start]
  BY <1>1, <1>2
<1>10. QED
  BY <1>8, <1>9

\* A message that is handed over comes after all the others.
LEMMA FollowsAppend ==
  ASSUME NEW start \in Nat, NEW box \in Seq(Messages), NEW all \in Seq(Notes),
         Follows(start, box, all, FALSE), NEW m \in Messages, NEW all2 \in Seq(Notes),
         IF m.type = "note" THEN all2 = Append(all, m.note) ELSE all2 = all
  PROVE  Follows(start, Append(box, m), all2, FALSE) /\ Follows(start, box, all2, TRUE)
<1>1. PICK place \in [1..Len(box) + 1 -> Nat] :
        /\ place[1] = start
        /\ \A k \in 1..Len(box) :
              place[k + 1] = IF box[k].type = "note" THEN place[k] + 1 ELSE place[k]
        /\ \A k \in 1..Len(box) :
              box[k].type = "note" => place[k] \in 1..Len(all) /\ box[k].note = all[place[k]]
        /\ place[Len(box) + 1] = Len(all) + 1
  BY DEF Follows
<1>2. /\ Len(box) \in Nat /\ Len(all) \in Nat /\ Len(Append(box, m)) = Len(box) + 1
      /\ Append(box, m)[Len(box) + 1] = m
      /\ \A k \in 1..Len(box) : Append(box, m)[k] = box[k]
  BY AppendProperties, LenProperties
<1>3. /\ Len(all2) = Len(all) + (IF m.type = "note" THEN 1 ELSE 0)
      /\ \A k \in 1..Len(all) : all2[k] = all[k]
      /\ m.type = "note" => all2[Len(all) + 1] = m.note
  <2>1. CASE m.type = "note"
    BY <2>1, MessageFacts, AppendProperties, LenProperties
  <2>2. CASE m.type # "note"
    BY <2>2, LenProperties
  <2>3. QED
    BY <2>1, <2>2
<1>4. Follows(start, box, all2, TRUE)
  <2>1. place[Len(box) + 1] <= Len(all2) + 1
    BY <1>1, <1>2, <1>3
  <2>2. ASSUME NEW k \in 1..Len(box), box[k].type = "note"
        PROVE  place[k] \in 1..Len(all2) /\ box[k].note = all2[place[k]]
    BY <2>2, <1>1, <1>2, <1>3
  <2>3. QED
    BY <1>1, <2>1, <2>2 DEF Follows
<1> DEFINE n == Len(box) + 1
           end == IF m.type = "note" THEN place[n] + 1 ELSE place[n]
           more == [k \in 1..n + 1 |-> IF k = n + 1 THEN end ELSE place[k]]
           long == Append(box, m)
<1>5. n \in Nat \ {0} /\ n - 1 = Len(box) /\ Len(long) = n /\ long[n] = m
      /\ \A k \in 1..n - 1 : long[k] = box[k]
  BY <1>2
<1>6. place[n] \in Nat /\ end \in Nat
  BY <1>1, <1>5
<1>7. more \in [1..n + 1 -> Nat] /\ more[n + 1] = end /\ \A k \in 1..n : more[k] = place[k]
  BY <1>1, <1>5, <1>6
<1>8. ASSUME NEW k \in 1..n
      PROVE  /\ more[k + 1] = IF long[k].type = "note" THEN more[k] + 1 ELSE more[k]
             /\ long[k].type = "note" =>
                    more[k] \in 1..Len(all2) /\ long[k].note = all2[more[k]]
  <2> HIDE DEF more, long, end
  <2>1. CASE k = n
    <3>1. more[k] = place[n] /\ more[k + 1] = end /\ long[k] = m
      BY <2>1, <1>5, <1>7
    <3>2. place[n] = Len(all) + 1
      BY <1>1
    <3>3. m.type = "note" => place[n] \in 1..Len(all2) /\ m.note = all2[place[n]]
      BY <1>2, <1>3, <3>2
    <3>4. QED
      BY <3>1, <3>3 DEF end
  <2>2. CASE k # n
    <3>1. k \in 1..Len(box) /\ k + 1 \in 1..n
      BY <2>2, <1>5
    <3>2. long[k] = box[k] /\ more[k] = place[k] /\ more[k + 1] = place[k + 1]
      BY <3>1, <1>5, <1>7
    <3>3. box[k].type = "note" => place[k] \in 1..Len(all2) /\ box[k].note = all2[place[k]]
      BY <3>1, <1>1, <1>2, <1>3
    <3>4. QED
      BY <3>1, <3>2, <3>3, <1>1
  <2>3. QED
    BY <2>1, <2>2
<1>9. more[n + 1] = Len(all2) + 1 /\ more[1] = start
  BY <1>1, <1>2, <1>3, <1>5, <1>7
<1>10. Follows(start, long, all2, FALSE)
  <2> HIDE DEF more, long, n, end
  <2>1. more \in [1..Len(long) + 1 -> Nat]
    BY <1>5, <1>7
  <2>2. more[n + 1] <= Len(all2) + 1
    BY <1>9, LenProperties
  <2>3. QED
    BY <2>1, <2>2, <1>5, <1>8, <1>9 DEF Follows
<1>11. QED
  BY <1>4, <1>10

-----------------------------------------------------------------------------
(* The run thread and the promise of AdapterRun.                           *)

promise == <<child, outcome>>

\* A step keeps the phase and is one AdapterRun allows.
Kept == ThreadTypes' /\ PhaseInv' /\ [Promise!Next]_promise

\* An error ends a run that has not ended.
LEMMA AbortFacts ==
  ASSUME ThreadTypes, PhaseInv, pc # "done", NEW e, Abort(e)
  PROVE  /\ pc' = "done" /\ why' = e
         /\ child' \in {"none", "live", "clean", "lost"}
         /\ outcome' \in Outcomes /\ outcome' # "Succeeded"
         /\ outcome' = "Cancelled" => e = "cancelled"
         /\ Promise!Report
<1>1. child' \in Promise!Closed(child) /\ child' \in {"none", "live", "clean", "lost"}
  BY DEF Abort, ThreadTypes, Promise!Closed
<1>2. /\ outcome' \in {"Cancelled", "Uncertain"} /\ pc' = "done" /\ why' = e
      /\ outcome' = "Cancelled" => e = "cancelled" /\ Promise!Confirmed(child')
  BY DEF Abort
<1>3. Promise!Report
  BY <1>1, <1>2 DEF Promise!Report, PhaseInv, Outcomes
<1>4. QED
  BY <1>1, <1>2, <1>3 DEF Outcomes

\* So does a terminal update.
LEMMA ConcludeFacts ==
  ASSUME ThreadTypes, PhaseInv, pc # "done", NEW s \in Outcomes, Conclude(s)
  PROVE  /\ pc' = "done" /\ why' \in {"none", "cleanup"} /\ held' = "none"
         /\ child' \in {"none", "live", "clean", "lost"}
         /\ outcome' \in Outcomes
         /\ outcome' = "Succeeded" => s = "Succeeded" /\ text = "some"
         /\ outcome' = "Cancelled" => s = "Cancelled"
         /\ Promise!Report
<1>1. child' \in Promise!Closed(child) /\ child' \in {"none", "live", "clean", "lost"}
  BY DEF Conclude, ThreadTypes, Promise!Closed
<1>2. /\ pc' = "done" /\ why' \in {"none", "cleanup"} /\ held' = "none"
      /\ outcome' \in {"Uncertain", Judge(s)}
      /\ outcome' # "Uncertain" => Promise!Confirmed(child')
  BY DEF Conclude
<1>3. /\ Judge(s) \in Outcomes
      /\ Judge(s) = "Succeeded" => s = "Succeeded" /\ text = "some"
      /\ Judge(s) = "Cancelled" => s = "Cancelled"
  BY DEF Judge, Outcomes
<1>4. outcome' \in Outcomes
  BY <1>2, <1>3 DEF Outcomes
<1>5. Promise!Report
  BY <1>1, <1>2, <1>4 DEF Promise!Report, PhaseInv
<1>6. QED
  BY <1>1, <1>2, <1>3, <1>4, <1>5

\* A terminal update ends the run, or is held back with a run that goes on.
LEMMA OrderTerminalFacts ==
  ASSUME ThreadTypes, PhaseInv, pc = "poll", NEW s \in Outcomes, NEW closing \in BOOLEAN,
         OrderTerminal(s, closing)
  PROVE  /\ child' \in {"none", "live", "clean", "lost"}
         /\ \/ Conclude(s)
            \/ Abort("workspace") /\ held' = held
            \/ /\ held' = s /\ UNCHANGED <<pc, outcome, why>>
               /\ child' = child \/ Promise!Close
<1>1. CASE Conclude(s)
  BY <1>1, ConcludeFacts
<1>2. CASE Abort("workspace") /\ UNCHANGED held
  BY <1>2, AbortFacts
<1>3. CASE /\ held' = s /\ child' \in (IF closing THEN Promise!Closed(child) ELSE {child})
           /\ UNCHANGED <<pc, outcome, why>>
  <2>1. child' = child \/ (child = "live" /\ child' \in Promise!Closed(child))
    BY <1>3 DEF Promise!Closed
  <2>2. child' \in {"none", "live", "clean", "lost"}
    BY <2>1 DEF Promise!Closed, ThreadTypes
  <2>3. QED
    BY <1>3, <2>1, <2>2 DEF Promise!Close
<1>4. QED
  BY <1>1, <1>2, <1>3 DEF OrderTerminal

\* The three ends of a turn.
LEMMA EndsFacts ==
  /\ DOMAIN Ends = {"completed", "interrupted", "failed"}
  /\ Ends["completed"] = "Succeeded" /\ Ends["interrupted"] = "Cancelled"
  /\ Ends["failed"] = "Failed"
BY DEF Ends

\* A step that reports the outcome.
LEMMA EndsKept ==
  ASSUME PhaseInv, Promise!Report, pc' = "done", outcome' \in Outcomes,
         child' \in {"none", "live", "clean", "lost"}, method' \in Methods, nextId' \in Nat,
         held' \in Outcomes \cup {"none"}, text' \in {"none", "some", "overflowed"}
  PROVE  Kept
BY DEF Kept, ThreadTypes, PhaseInv, Promise!Next, Points, Outcomes

\* A step after which the run goes on.
LEMMA GoesKept ==
  ASSUME ThreadTypes, PhaseInv, pc # "done", pc' \in {pc, "pipes", "send", "receive", "poll"},
         outcome' = outcome, child' = child \/ Promise!Close \/ (Promise!Start /\ pc' = "pipes"),
         child' \in {"none", "live", "clean", "lost"}, method' \in Methods, nextId' \in Nat,
         held' \in Outcomes \cup {"none"}, text' \in {"none", "some", "overflowed"}
  PROVE  Kept
<1>1. pc' \in Points /\ pc' # "done"
  BY DEF ThreadTypes, Points
<1>2. pc' = "spawn" => child' = "none"
  BY DEF PhaseInv, Promise!Close, Promise!Closed
<1>3. [Promise!Next]_promise
  BY DEF promise, Promise!Next
<1>4. QED
  BY <1>1, <1>2, <1>3 DEF Kept, ThreadTypes, PhaseInv

\* The steps up to the first poll.
LEMMA StartKept ==
  ASSUME ThreadTypes, PhaseInv,
         Spawn \/ OpenPipes \/ Send \/ Receive \/ ReceiveFails \/ ReceiveTimesOut
  PROVE  Kept
<1>0. /\ pc # "done" /\ method' \in Methods /\ nextId' \in Nat
      /\ held' = held /\ text' = text
      /\ held \in Outcomes \cup {"none"} /\ text \in {"none", "some", "overflowed"}
  <2>1. CASE Spawn \/ OpenPipes \/ ReceiveFails
    BY <2>1 DEF Spawn, OpenPipes, ReceiveFails, rpc, tracker, ThreadTypes
  <2>2. CASE Send
    <3>1. pc = "send" /\ held' = held /\ text' = text
      BY <2>2 DEF Send, tracker
    <3>2. nextId' \in {nextId, nextId + 1} /\ method' \in {method, "thread/start"}
      BY <2>2 DEF Send, rpc
    <3>3. method \in Methods /\ "thread/start" \in Methods /\ nextId \in Nat
      BY DEF ThreadTypes, Methods
    <3>4. nextId' \in Nat
      BY <3>2, <3>3
    <3>5. QED
      BY <3>1, <3>2, <3>3, <3>4 DEF ThreadTypes
  <2>3. CASE Receive
    <3>1. pc = "receive" /\ nextId' = nextId /\ held' = held /\ text' = text
      BY <2>3 DEF Receive, tracker
    <3>2. method' = method \/ Advance
      BY <2>3 DEF Receive, Route
    <3>3. method' \in Methods
      BY <3>2 DEF Advance, Initialized, ThreadStarted, TurnStarted, Interrupted,
                  ThreadTypes, Methods
    <3>4. QED
      BY <3>1, <3>3 DEF ThreadTypes
  <2>4. CASE ReceiveTimesOut
    BY <2>4 DEF ReceiveTimesOut, tracker, ThreadTypes, Methods
  <2>5. QED
    BY <2>1, <2>2, <2>3, <2>4
<1>1. \/ \E e : Abort(e)
      \/ /\ outcome' = outcome /\ pc' \in {pc, "pipes", "send", "receive", "poll"}
         /\ \/ child' = child
            \/ pc = "spawn" /\ child' = "live" /\ pc' = "pipes"
  <2>1. CASE Spawn
    BY <2>1 DEF Spawn
  <2>2. CASE OpenPipes \/ ReceiveFails
    BY <2>2 DEF OpenPipes, ReceiveFails
  <2>3. CASE Send
    BY <2>3 DEF Send
  <2>4. CASE Receive
    BY <2>4 DEF Receive, Route, Advance, Initialized, ThreadStarted, TurnStarted, Interrupted
  <2>5. CASE ReceiveTimesOut
    BY <2>5 DEF ReceiveTimesOut
  <2>6. QED
    BY <2>1, <2>2, <2>3, <2>4, <2>5
<1>2. CASE \E e : Abort(e)
  BY <1>0, <1>2, AbortFacts, EndsKept
<1>3. CASE /\ outcome' = outcome /\ pc' \in {pc, "pipes", "send", "receive", "poll"}
           /\ child' = child \/ (pc = "spawn" /\ child' = "live" /\ pc' = "pipes")
  <2>1. /\ child' = child \/ (Promise!Start /\ pc' = "pipes")
        /\ child' \in {"none", "live", "clean", "lost"}
    BY <1>0, <1>3 DEF Promise!Start, PhaseInv, ThreadTypes
  <2>2. QED
    BY <1>0, <1>3, <2>1, GoesKept
<1>4. QED
  BY <1>1, <1>2, <1>3

\* A round of the loop that ingests a notification.
LEMMA IngestKept ==
  ASSUME ThreadTypes, PhaseInv, pc = "poll", NEW n \in Notes, Ingest(n),
         method' = method, nextId' = nextId
  PROVE  Kept
<1>0. method' \in Methods /\ nextId' \in Nat /\ pc # "done"
      /\ child \in {"none", "live", "clean", "lost"}
      /\ held \in Outcomes \cup {"none"} /\ text \in {"none", "some", "overflowed"}
  BY DEF ThreadTypes
<1>1. CASE n \in DOMAIN Ends /\ IngestEnd(n)
  <2>1. Ends[n] \in Outcomes /\ OrderTerminal(Ends[n], FALSE) /\ text' = text
    BY <1>1, EndsFacts DEF IngestEnd, Outcomes
  <2>2. CASE Conclude(Ends[n])
    BY <1>0, <2>1, <2>2, ConcludeFacts, EndsKept
  <2>3. CASE Abort("workspace") /\ held' = held
    BY <1>0, <2>1, <2>3, AbortFacts, EndsKept
  <2>4. CASE /\ held' = Ends[n] /\ UNCHANGED <<pc, outcome, why>>
             /\ child' = child \/ Promise!Close
    BY <1>0, <2>1, <2>4, OrderTerminalFacts, GoesKept
  <2>5. QED
    BY <2>1, <2>2, <2>3, <2>4, OrderTerminalFacts
<1>2. CASE \/ n = "started" /\ IngestStarted
           \/ n = "answer" /\ IngestAnswer
           \/ n = "change" /\ IngestChange
           \/ n = "other" /\ UNCHANGED <<pc, child, outcome, why, tracker>>
           \/ n = "malformed" /\ IngestDrift
  <2>1. /\ held' = held /\ text' \in {"none", "some", "overflowed"}
        /\ (\E e : Abort(e)) \/ UNCHANGED <<pc, child, outcome>>
    BY <1>0, <1>2 DEF IngestStarted, IngestAnswer, IngestChange, IngestDrift, tracker
  <2>2. CASE \E e : Abort(e)
    BY <1>0, <2>1, <2>2, AbortFacts, EndsKept
  <2>3. CASE UNCHANGED <<pc, child, outcome>>
    BY <1>0, <2>1, <2>3, GoesKept
  <2>4. QED
    BY <2>1, <2>2, <2>3
<1>3. QED
  BY <1>1, <1>2 DEF Ingest

\* The steps of the polling loop.
LEMMA PollKept ==
  ASSUME ThreadTypes, PipeTypes, PhaseInv,
         PollPending \/ PollMessage \/ PollTimesOut \/ PollLost \/ PollHeld \/ PollCancelled
  PROVE  Kept
<1>0. method \in Methods /\ nextId \in Nat
      /\ child \in {"none", "live", "clean", "lost"}
      /\ held \in Outcomes \cup {"none"} /\ text \in {"none", "some", "overflowed"}
  BY DEF ThreadTypes
<1>1. pc = "poll" /\ pc # "done" /\ method' = method /\ nextId' = nextId
  BY DEF PollPending, PollMessage, PollTimesOut, PollLost, PollHeld, PollCancelled, rpc
<1>2. CASE PollPending
  <2>1. Head(pending) \in Notes /\ Ingest(Head(pending))
    BY <1>2, HeadTailProperties DEF PollPending, PipeTypes
  <2>2. QED
    BY <1>1, <2>1, IngestKept
<1>3. CASE PollMessage
  <2>1. Head(inbox) \in Messages
    BY <1>3, HeadTailProperties DEF PollMessage, PipeTypes
  <2>2. CASE Head(inbox).type = "note" /\ Ingest(Head(inbox).note)
    BY <1>1, <2>1, <2>2, MessageFacts, IngestKept
  <2>3. CASE UNCHANGED <<pc, child, outcome, why, tracker>>
    BY <1>0, <1>1, <2>3, GoesKept DEF tracker
  <2>4. CASE Abort("drift") /\ UNCHANGED tracker
    BY <1>0, <1>1, <2>4, AbortFacts, EndsKept DEF tracker
  <2>5. QED
    BY <1>3, <2>2, <2>3, <2>4 DEF PollMessage
<1>4. CASE PollTimesOut \/ PollLost
  <2>1. PICK s \in Outcomes, closing \in BOOLEAN : OrderTerminal(s, closing)
    BY <1>4 DEF PollTimesOut, PollLost, LocalTerminal, Outcomes
  <2>2. text' = text
    BY <1>4 DEF PollTimesOut, PollLost
  <2>3. CASE Conclude(s)
    BY <1>0, <1>1, <2>2, <2>3, ConcludeFacts, EndsKept
  <2>4. CASE Abort("workspace") /\ held' = held
    BY <1>0, <1>1, <2>2, <2>4, AbortFacts, EndsKept
  <2>5. CASE /\ held' = s /\ UNCHANGED <<pc, outcome, why>>
             /\ child' = child \/ Promise!Close
    BY <1>0, <1>1, <2>1, <2>2, <2>5, OrderTerminalFacts, GoesKept
  <2>6. QED
    BY <1>1, <2>1, <2>3, <2>4, <2>5, OrderTerminalFacts
<1>5. CASE PollHeld
  <2>1. held \in Outcomes /\ Conclude(held) /\ text' = text
    BY <1>0, <1>5 DEF PollHeld
  <2>2. QED
    BY <1>0, <1>1, <2>1, ConcludeFacts, EndsKept
<1>6. CASE PollCancelled
  <2>1. Abort("cancelled") /\ UNCHANGED tracker
    BY <1>6 DEF PollCancelled
  <2>2. QED
    BY <1>0, <1>1, <2>1, AbortFacts, EndsKept DEF tracker
<1>7. QED
  BY <1>2, <1>3, <1>4, <1>5, <1>6

\* What a message of the child leaves alone.
LEMMA DeliverFrame ==
  ASSUME NEW m, Deliver(m)
  PROVE  /\ pc \notin {"pipes", "done"} /\ ~overflowed
         /\ UNCHANGED <<pc, method, nextId, pending, abandoned, outputFailed, cancelled, child,
                        writes, terminal, receipt, held, text, running, outcome, ingested, why,
                        evicted>>
         /\ \/ inbox' = Append(inbox, m) /\ overflowed' = overflowed
            \/ inbox' = inbox /\ overflowed' = TRUE
BY DEF Deliver, rpc, transport, tracker

\* A message is sent by a correct child or is a fault.
LEMMA SentMessage ==
  ASSUME PipeTypes, ThreadTypes, SendReply \/ SendNote \/ SendFault
  PROVE  \E m \in Messages :
           /\ Deliver(m)
           /\ IF m.type = "note" THEN log' = Append(log, m.note) ELSE log' = log
           /\ \/ /\ m.type = "reply" /\ m.id \in Requested \ answered /\ m.body # "bad"
                 /\ answered' = answered \cup {m.id} /\ faults' = faults
              \/ /\ m.type = "note" /\ m.note # "malformed" /\ answered' = answered
                 /\ faults' = faults
              \/ answered' = answered /\ faults' = faults + 1
<1>0. Requested \subseteq Int /\ nextId \in Int /\ answered \subseteq Int
  BY DEF PipeTypes, ThreadTypes, Requested
<1>1. CASE SendReply
  <2>1. PICK i \in Requested \ answered, b \in {"ok", "rejected"} :
          Deliver(Reply(i, b)) /\ answered' = answered \cup {i}
    BY <1>1 DEF SendReply
  <2>2. log' = log /\ faults' = faults
    BY <1>1 DEF SendReply
  <2>3. i \in Int /\ b \in Bodies /\ b # "bad"
    BY <1>0, <2>1 DEF Bodies
  <2>4. QED
    BY <2>1, <2>2, <2>3, ReplyFacts
<1>2. CASE SendNote
  <2>1. PICK n \in Notes \ {"malformed"} : Deliver(Note(n)) /\ log' = Append(log, n)
    BY <1>2 DEF SendNote
  <2>2. answered' = answered /\ faults' = faults
    BY <1>2 DEF SendNote
  <2>3. QED
    BY <2>1, <2>2, NoteFacts
<1>3. CASE SendFault
  <2>1. answered' = answered /\ faults' = faults + 1
    BY <1>3 DEF SendFault
  <2>2. CASE Deliver(Garbage) /\ log' = log
    BY <2>1, <2>2, GarbageFacts
  <2>3. CASE \E i \in Int, b \in Bodies : Deliver(Reply(i, b)) /\ log' = log
    BY <2>1, <2>3, ReplyFacts
  <2>4. CASE \E n \in Notes : Deliver(Note(n)) /\ log' = Append(log, n)
    BY <2>1, <2>4, NoteFacts
  <2>5. nextId - 1 \in Int /\ nextId \in Int /\ {"malformed", "started"} \subseteq Notes
        /\ {"ok", "bad"} \subseteq Bodies
    BY <1>0 DEF Notes, Bodies
  <2>6. QED
    BY <1>0, <1>3, <2>2, <2>3, <2>4, <2>5 DEF SendFault
<1>4. QED
  BY <1>1, <1>2, <1>3

\* Every step of the Codex adapter keeps the phase and the promise.
LEMMA CodexKept ==
  ASSUME ThreadTypes, PipeTypes, PhaseInv, Next
  PROVE  Kept
<1>1. CASE Interrupt
  <2>1. /\ pc = "poll" /\ pc' = "send" /\ nextId' = nextId
        /\ method' \in {"turn/interrupt", "turn/interrupt within"}
        /\ UNCHANGED <<child, outcome, held, text>>
    BY <1>1 DEF Interrupt, tracker
  <2>2. method' \in Methods
    BY <2>1 DEF Methods
  <2>3. QED
    BY <2>1, <2>2, GoesKept DEF ThreadTypes
<1>2. CASE SendReply \/ SendNote \/ SendFault \/ ChildEnds \/ Cancel \/ Done
  <2>1. UNCHANGED <<pc, method, nextId, child, held, text, outcome>>
    <3>1. CASE SendReply \/ SendNote \/ SendFault
      BY <3>1, SentMessage, DeliverFrame
    <3>2. CASE ChildEnds \/ Cancel \/ Done
      BY <3>2 DEF ChildEnds, Cancel, Done, vars, rpc, tracker
    <3>3. QED
      BY <1>2, <3>1, <3>2
  <2>2. QED
    BY <2>1 DEF Kept, ThreadTypes, PhaseInv, promise
<1>3. QED
  BY <1>1, <1>2, StartKept, PollKept DEF Next, RunThread, Environment

-----------------------------------------------------------------------------
(* Notifications keep their order.                                         *)

\* Steps that leave the pipe and the tracker alone.
QuietStep ==
    Spawn \/ OpenPipes \/ Send \/ ReceiveFails \/ ReceiveTimesOut \/ PollTimesOut \/ PollLost
      \/ PollHeld \/ PollCancelled \/ Interrupt \/ ChildEnds \/ Cancel \/ Done

Abandon == Append(IF Len(abandoned) = MaxAbandoned THEN Tail(abandoned) ELSE abandoned, nextId - 1)

\* They leave the messages alone; at most a request is sent or given up.
LEMMA QuietFrame ==
  ASSUME ThreadTypes, QuietStep
  PROVE  /\ UNCHANGED <<pending, inbox, ingested, log, answered, faults, overflowed>>
         /\ nextId' \in {nextId, nextId + 1}
         /\ \/ abandoned' = abandoned /\ evicted' = evicted
            \/ /\ pc = "receive" /\ pc' = "poll" /\ abandoned' = Abandon
               /\ evicted' = (evicted \/ Len(abandoned) = MaxAbandoned)
<1>1. CASE Spawn \/ OpenPipes \/ Send \/ ReceiveFails
  BY <1>1 DEF Spawn, OpenPipes, Send, ReceiveFails, rpc, transport, pipe, provider
<1>2. CASE ReceiveTimesOut
  BY <1>2 DEF ReceiveTimesOut, pipe, provider, Abandon
<1>3. CASE PollTimesOut \/ PollLost \/ PollHeld \/ PollCancelled
  BY <1>3 DEF PollTimesOut, PollLost, PollHeld, PollCancelled, rpc, transport, pipe, provider
<1>4. CASE Interrupt \/ ChildEnds \/ Cancel \/ Done
  BY <1>4 DEF Interrupt, ChildEnds, Cancel, Done, vars, rpc, transport, pipe, provider
<1>5. QED
  BY <1>1, <1>2, <1>3, <1>4 DEF QuietStep

\* An abandoned id is remembered; the oldest makes room for it.
LEMMA AbandonFacts ==
  ASSUME ThreadTypes, PipeTypes
  PROVE  /\ Abandon \in Seq(Int)
         /\ Len(abandoned) # MaxAbandoned =>
              \A x : x \in Range(Abandon) <=> x \in Range(abandoned) \/ x = nextId - 1
<1>1. abandoned \in Seq(Int) /\ nextId - 1 \in Int /\ MaxAbandoned \in Nat \ {0}
  BY CodexAssumption DEF PipeTypes, ThreadTypes
<1>2. CASE Len(abandoned) = MaxAbandoned
  <2>1. Tail(abandoned) \in Seq(Int)
    BY <1>1, <1>2, HeadTailProperties, EmptySeq
  <2>2. QED
    BY <1>1, <1>2, <2>1, AppendProperties DEF Abandon
<1>3. CASE Len(abandoned) # MaxAbandoned
  <2>1. Abandon = Append(abandoned, nextId - 1)
    BY <1>3 DEF Abandon
  <2>2. QED
    BY <1>1, <2>1, AppendProperties, RangeAppend
<1>4. QED
  BY <1>2, <1>3

\* A longer interval from 0 holds the shorter one.
LEMMA BelowGrows ==
  ASSUME NEW a \in Nat, NEW b \in Nat, a <= b
  PROVE  0..a - 1 \subseteq 0..b - 1
OBVIOUS

\* More requests leave what was answered among them.
LEMMA RequestedGrows ==
  ASSUME ThreadTypes, PipeTypes, nextId' \in {nextId, nextId + 1}
  PROVE  Requested \subseteq Requested' /\ answered \subseteq Requested'
<1>1. nextId \in Nat /\ answered \subseteq Requested
  BY DEF ThreadTypes, PipeTypes
<1>2. nextId' \in Nat /\ nextId <= nextId'
  BY <1>1
<1>3. 0..nextId - 1 \subseteq 0..nextId' - 1
  BY <1>1, <1>2, BelowGrows
<1>4. QED
  BY <1>1, <1>3 DEF Requested

\* So the order is kept.
LEMMA QuietOrder ==
  ASSUME ThreadTypes, PipeTypes, OrderInv, QuietStep, pc' # "done" => pc # "done"
  PROVE  PipeTypes' /\ OrderInv'
<1>1. UNCHANGED <<pending, inbox, ingested, log, answered, faults, overflowed>>
  BY QuietFrame
<1>2. OrderInv'
  BY <1>1 DEF OrderInv, Handled
<1>3. abandoned' \in Seq(Int) /\ evicted' \in BOOLEAN
  BY QuietFrame, AbandonFacts DEF PipeTypes
<1>4. answered \subseteq Requested'
  BY QuietFrame, RequestedGrows
<1>5. QED
  BY <1>1, <1>2, <1>3, <1>4 DEF PipeTypes

\* Facts about a message that is taken from the pipe.
LEMMA TakenFacts ==
  ASSUME PipeTypes, OrderInv, pc # "done", inbox # <<>>
  PROVE  /\ Head(inbox) \in Messages /\ Tail(inbox) \in Seq(Messages)
         /\ Len(inbox) \in Nat \ {0} /\ Len(Tail(inbox)) = Len(inbox) - 1
         /\ Head(inbox) = inbox[1]
         /\ \A k \in 1..Len(inbox) - 1 : Tail(inbox)[k] = inbox[k + 1]
         /\ Handled \in Nat /\ Len(ingested) \in Nat /\ Len(pending) \in Nat /\ Len(log) \in Nat
         /\ Head(inbox).type = "note" =>
              /\ Handled + 1 \in 1..Len(log) /\ Head(inbox).note = log[Handled + 1]
              /\ Follows(Handled + 2, Tail(inbox), log, overflowed)
         /\ Head(inbox).type # "note" => Follows(Handled + 1, Tail(inbox), log, overflowed)
<1>1. inbox \in Seq(Messages) /\ log \in Seq(Notes)
      /\ Len(ingested) \in Nat /\ Len(pending) \in Nat /\ Len(log) \in Nat
  BY LenProperties DEF PipeTypes
<1>2. Handled \in Nat /\ Handled + 1 \in Nat /\ (Handled + 1) + 1 = Handled + 2
  BY <1>1 DEF Handled
<1>3. Follows(Handled + 1, inbox, log, overflowed)
  BY DEF OrderInv
<1>4. /\ Head(inbox) \in Messages /\ Tail(inbox) \in Seq(Messages)
      /\ Len(inbox) \in Nat \ {0} /\ Len(Tail(inbox)) = Len(inbox) - 1
      /\ Head(inbox) = inbox[1]
      /\ \A k \in 1..Len(inbox) - 1 : Tail(inbox)[k] = inbox[k + 1]
  BY <1>1, HeadTailProperties, EmptySeq, LenProperties
<1>5. /\ Head(inbox).type = "note" =>
           Handled + 1 \in 1..Len(log) /\ Head(inbox).note = log[Handled + 1]
      /\ Follows(IF Head(inbox).type = "note" THEN (Handled + 1) + 1 ELSE Handled + 1,
                 Tail(inbox), log, overflowed)
  BY <1>1, <1>2, <1>3, FollowsTail
<1>6. QED
  BY <1>1, <1>2, <1>4, <1>5

\* A round that receives: the message is dropped, put by, or ends the run.
LEMMA ReceiveShape ==
  ASSUME Receive
  PROVE  /\ pc = "receive" /\ inbox # <<>> /\ inbox' = Tail(inbox)
         /\ UNCHANGED <<nextId, ingested, log, answered, faults, overflowed, evicted>>
         /\ \/ pc' = "done" /\ pending' = pending /\ abandoned' = abandoned
            \/ /\ Head(inbox).type = "note" /\ pc' = "receive"
               /\ pending' = Append(pending, Head(inbox).note) /\ abandoned' = abandoned
            \/ /\ Head(inbox).type = "reply" /\ pending' = pending
               /\ \/ /\ Head(inbox).id \in Range(abandoned) /\ pc' = "receive"
                     /\ abandoned' = Forget(Head(inbox).id)
                  \/ /\ Head(inbox).id = nextId - 1 /\ pc' \in {"send", "poll"}
                     /\ abandoned' = abandoned
<1>1. /\ pc = "receive" /\ inbox # <<>> /\ inbox' = Tail(inbox)
      /\ UNCHANGED <<nextId, ingested, log, answered, faults, overflowed, evicted>>
  BY DEF Receive, provider
<1> DEFINE m == Head(inbox)
<1>2. \/ Abort("drift") /\ UNCHANGED transport
      \/ Quarantined(m) /\ abandoned' = Forget(m.id) /\ UNCHANGED <<pc, pending>>
      \/ Route(m) /\ UNCHANGED abandoned
  BY DEF Receive
<1>3. CASE Abort("drift") /\ UNCHANGED transport
  BY <1>1, <1>3 DEF Abort, transport
<1>4. CASE Quarantined(m) /\ abandoned' = Forget(m.id) /\ UNCHANGED <<pc, pending>>
  BY <1>1, <1>4 DEF Quarantined
<1>5. CASE Route(m) /\ UNCHANGED abandoned
  <2>1. \/ m.type = "note" /\ pending' = Append(pending, m.note) /\ pc' = pc
        \/ pc' = "done" /\ pending' = pending
        \/ /\ m.type = "reply" /\ m.id = nextId - 1 /\ Advance /\ pending' = pending
    BY <1>5 DEF Route, Abort
  <2>2. Advance => pc' \in {"send", "poll"}
    BY DEF Advance, Initialized, ThreadStarted, TurnStarted, Interrupted
  <2>3. QED
    BY <1>1, <1>5, <2>1, <2>2
<1>6. QED
  BY <1>2, <1>3, <1>4, <1>5

\* A notification that arrives during a request is the next to be put by.
LEMMA ReceiveOrder ==
  ASSUME ThreadTypes, PipeTypes, OrderInv, Receive
  PROVE  PipeTypes' /\ OrderInv'
<1>0. pc # "done" /\ inbox # <<>> /\ inbox' = Tail(inbox)
      /\ UNCHANGED <<nextId, ingested, log, answered, faults, overflowed, evicted>>
  BY ReceiveShape
<1>1. inbox' \in Seq(Messages) /\ Requested' = Requested
  BY <1>0, TakenFacts DEF Requested
<1>2. CASE pc' = "done" /\ pending' = pending /\ abandoned' = abandoned
  BY <1>0, <1>1, <1>2 DEF PipeTypes, OrderInv
<1>3. CASE /\ Head(inbox).type = "note" /\ pc' = "receive"
           /\ pending' = Append(pending, Head(inbox).note) /\ abandoned' = abandoned
  <2>1. Head(inbox).note \in Notes
    BY <1>0, <1>3, TakenFacts, MessageFacts
  <2>2. /\ pending' \in Seq(Notes) /\ Len(pending') = Len(pending) + 1
        /\ pending'[Len(pending) + 1] = Head(inbox).note
        /\ \A k \in 1..Len(pending) : pending'[k] = pending[k]
    BY <1>3, <2>1, AppendProperties DEF PipeTypes
  <2>3. /\ Handled' = Handled + 1 /\ Handled' + 1 = Handled + 2 /\ Handled' <= Len(log)
        /\ Len(ingested) + (Len(pending) + 1) = Handled + 1
    BY <1>0, <1>3, <2>2, TakenFacts DEF Handled
  <2>4. \A k \in 1..Len(pending') : pending'[k] = log[Len(ingested) + k]
    <3>1. Len(pending) \in Nat /\ Head(inbox).note = log[Handled + 1]
      BY <1>0, <1>3, TakenFacts
    <3>2. \A k \in 1..Len(pending) : pending[k] = log[Len(ingested) + k]
      BY <1>0 DEF OrderInv
    <3>3. pending'[Len(pending) + 1] = log[Len(ingested) + (Len(pending) + 1)]
      BY <2>2, <2>3, <3>1
    <3>4. \A k \in 1..Len(pending') : k \in 1..Len(pending) \/ k = Len(pending) + 1
      BY <2>2, <3>1
    <3>5. QED
      BY <2>2, <3>2, <3>3, <3>4
  <2>5. Follows(Handled' + 1, inbox', log, overflowed)
    BY <1>0, <1>3, <2>3, TakenFacts
  <2>6. OrderInv'
    BY <1>0, <2>3, <2>4, <2>5 DEF OrderInv
  <2>7. QED
    BY <1>0, <1>1, <1>3, <2>2, <2>6 DEF PipeTypes
<1>4. CASE /\ Head(inbox).type = "reply" /\ pending' = pending
           /\ \/ Head(inbox).id \in Range(abandoned) /\ abandoned' = Forget(Head(inbox).id)
              \/ abandoned' = abandoned
  <2>1. abandoned' \in Seq(Int)
    BY <1>4, ForgetFacts DEF PipeTypes
  <2>2. Follows(Handled + 1, inbox', log, overflowed) /\ Handled' = Handled
    BY <1>0, <1>4, TakenFacts DEF Handled
  <2>3. OrderInv'
    BY <1>0, <1>4, <2>2 DEF OrderInv
  <2>4. QED
    BY <1>0, <1>1, <1>4, <2>1, <2>3 DEF PipeTypes
<1>5. QED
  BY <1>2, <1>3, <1>4, ReceiveShape

\* A round that polls.
LEMMA PollMessageShape ==
  ASSUME PollMessage
  PROVE  /\ pc = "poll" /\ inbox # <<>> /\ inbox' = Tail(inbox) /\ pending = <<>>
         /\ UNCHANGED <<nextId, pending, log, answered, faults, overflowed, evicted>>
         /\ \/ /\ Head(inbox).type = "note" /\ abandoned' = abandoned
               /\ Ingest(Head(inbox).note)
            \/ /\ Head(inbox).type = "reply" /\ Head(inbox).id \in Range(abandoned)
               /\ ingested' = ingested /\ pc' = "poll" /\ abandoned' = Forget(Head(inbox).id)
            \/ /\ Head(inbox).type # "note" /\ ~Quarantined(Head(inbox))
               /\ Abort("drift") /\ abandoned' = abandoned /\ ingested' = ingested
BY DEF PollMessage, Quarantined, rpc, provider, Abort

\* The tracker is given the next notification of the log.
LEMMA IngestOrder ==
  ASSUME PipeTypes, OrderInv, pc # "done", log' = log, NEW n \in Notes,
         ingested' = Append(ingested, n), Len(ingested) + 1 <= Len(log),
         n = log[Len(ingested) + 1]
  PROVE  /\ ingested' \in Seq(Notes) /\ Len(ingested') = Len(ingested) + 1
         /\ Len(ingested') <= Len(log')
         /\ \A k \in 1..Len(ingested') : ingested'[k] = log'[k]
<1>1. ingested \in Seq(Notes) /\ Len(ingested) \in Nat
  BY LenProperties DEF PipeTypes
<1>2. /\ ingested' \in Seq(Notes) /\ Len(ingested') = Len(ingested) + 1
      /\ ingested'[Len(ingested) + 1] = n
      /\ \A k \in 1..Len(ingested) : ingested'[k] = ingested[k]
  BY <1>1, AppendProperties
<1>3. \A k \in 1..Len(ingested) + 1 : ingested'[k] = log'[k]
  BY <1>1, <1>2 DEF OrderInv
<1>4. QED
  BY <1>2, <1>3

\* With nothing put by, the next notification of the pipe is the tracker's next.
LEMMA PollMessageOrder ==
  ASSUME ThreadTypes, PipeTypes, OrderInv, PollMessage
  PROVE  PipeTypes' /\ OrderInv'
<1>0. /\ pc # "done" /\ inbox # <<>> /\ inbox' = Tail(inbox) /\ pending = <<>>
      /\ UNCHANGED <<nextId, pending, log, answered, faults, overflowed, evicted>>
  BY PollMessageShape
<1>1. inbox' \in Seq(Messages) /\ Requested' = Requested /\ Len(pending) = 0
  BY <1>0, TakenFacts DEF Requested
<1>2. CASE Head(inbox).type = "note" /\ abandoned' = abandoned /\ Ingest(Head(inbox).note)
  <2>1. Head(inbox).note \in Notes /\ ingested' = Append(ingested, Head(inbox).note)
    BY <1>0, <1>2, TakenFacts, MessageFacts DEF Ingest
  <2>2. Handled = Len(ingested) /\ Len(ingested) \in Nat
    BY <1>0, <1>1, TakenFacts DEF Handled
  <2>3. /\ Len(ingested) + 1 <= Len(log) /\ Head(inbox).note = log[Len(ingested) + 1]
        /\ Follows(Handled + 2, inbox', log, overflowed)
    BY <1>0, <1>2, <2>2, TakenFacts
  <2>4. /\ ingested' \in Seq(Notes) /\ Len(ingested') = Len(ingested) + 1
        /\ Len(ingested') <= Len(log')
        /\ \A k \in 1..Len(ingested') : ingested'[k] = log'[k]
    BY <1>0, <2>1, <2>3, IngestOrder
  <2>5. Handled' = Handled + 1 /\ Handled' + 1 = Handled + 2 /\ Handled' <= Len(log)
    BY <1>0, <1>1, <2>2, <2>3, <2>4 DEF Handled
  <2>6. OrderInv'
    BY <1>0, <1>1, <2>3, <2>4, <2>5 DEF OrderInv
  <2>7. QED
    BY <1>0, <1>1, <1>2, <2>4, <2>6 DEF PipeTypes
<1>3. CASE /\ Head(inbox).type = "reply" /\ Head(inbox).id \in Range(abandoned)
           /\ ingested' = ingested /\ abandoned' = Forget(Head(inbox).id)
  <2>1. abandoned' \in Seq(Int)
    BY <1>3, ForgetFacts
  <2>2. Follows(Handled + 1, inbox', log, overflowed) /\ Handled' = Handled
    BY <1>0, <1>3, TakenFacts DEF Handled
  <2>3. OrderInv'
    BY <1>0, <1>3, <2>2 DEF OrderInv
  <2>4. QED
    BY <1>0, <1>1, <1>3, <2>1, <2>3 DEF PipeTypes
<1>4. CASE Abort("drift") /\ abandoned' = abandoned /\ ingested' = ingested
  BY <1>0, <1>1, <1>4 DEF PipeTypes, OrderInv, Abort
<1>5. QED
  BY <1>2, <1>3, <1>4, PollMessageShape

\* What was put by comes before the pipe.
LEMMA PollPendingOrder ==
  ASSUME ThreadTypes, PipeTypes, OrderInv, PollPending
  PROVE  PipeTypes' /\ OrderInv'
<1>0. /\ pc # "done" /\ pending # <<>> /\ pending' = Tail(pending) /\ Ingest(Head(pending))
      /\ ingested' = Append(ingested, Head(pending))
      /\ UNCHANGED <<nextId, abandoned, inbox, log, answered, faults, overflowed, evicted>>
  BY DEF PollPending, Ingest, rpc, pipe, provider
<1>1. /\ Head(pending) \in Notes /\ pending' \in Seq(Notes) /\ Requested' = Requested
      /\ Len(pending) \in Nat \ {0} /\ Len(pending') = Len(pending) - 1
      /\ Head(pending) = pending[1]
      /\ \A k \in 1..Len(pending) - 1 : pending'[k] = pending[k + 1]
      /\ Len(ingested) \in Nat /\ Len(log) \in Nat
  BY <1>0, HeadTailProperties, EmptySeq, LenProperties DEF PipeTypes, Requested
<1>2. /\ Len(ingested) + 1 <= Len(log) /\ Head(pending) = log[Len(ingested) + 1]
  BY <1>0, <1>1 DEF OrderInv, Handled
<1>3. /\ ingested' \in Seq(Notes) /\ Len(ingested') = Len(ingested) + 1
      /\ Len(ingested') <= Len(log')
      /\ \A k \in 1..Len(ingested') : ingested'[k] = log'[k]
  BY <1>0, <1>1, <1>2, IngestOrder
<1>4. Handled' = Handled
  BY <1>1, <1>3 DEF Handled
<1>5. \A k \in 1..Len(pending') : pending'[k] = log[Len(ingested') + k]
  <2> SUFFICES ASSUME NEW k \in 1..Len(pending') PROVE pending'[k] = log[Len(ingested') + k]
    OBVIOUS
  <2>1. k + 1 \in 1..Len(pending) /\ pending'[k] = pending[k + 1]
        /\ Len(ingested) + (k + 1) = Len(ingested') + k
    BY <1>1, <1>3
  <2>2. pending[k + 1] = log[Len(ingested) + (k + 1)]
    BY <1>0, <2>1 DEF OrderInv
  <2>3. QED
    BY <2>1, <2>2
<1>6. OrderInv'
  BY <1>0, <1>3, <1>4, <1>5 DEF OrderInv
<1>7. QED
  BY <1>0, <1>1, <1>3, <1>6 DEF PipeTypes

\* A message of the child takes its place behind the others.
LEMMA SentOrder ==
  ASSUME ThreadTypes, PipeTypes, OrderInv, SendReply \/ SendNote \/ SendFault
  PROVE  PipeTypes' /\ OrderInv'
<1>1. PICK m \in Messages :
        /\ Deliver(m)
        /\ IF m.type = "note" THEN log' = Append(log, m.note) ELSE log' = log
        /\ \/ /\ m.id \in Requested \ answered /\ answered' = answered \cup {m.id}
              /\ faults' = faults
           \/ answered' = answered /\ faults' \in {faults, faults + 1}
  BY SentMessage
<1>2. /\ pc # "done" /\ ~overflowed
      /\ UNCHANGED <<pc, nextId, pending, abandoned, ingested, evicted>>
      /\ \/ inbox' = Append(inbox, m) /\ overflowed' = overflowed
         \/ inbox' = inbox /\ overflowed' = TRUE
  BY <1>1, DeliverFrame
<1>3. /\ inbox \in Seq(Messages) /\ log \in Seq(Notes) /\ Len(log) \in Nat
      /\ Len(ingested) \in Nat /\ Len(pending) \in Nat /\ Handled + 1 \in Nat
  BY LenProperties DEF PipeTypes, Handled
<1>4. /\ log' \in Seq(Notes) /\ Len(log') \in {Len(log), Len(log) + 1}
      /\ \A k \in 1..Len(log) : log'[k] = log[k]
  <2>1. CASE m.type = "note"
    <3>1. log' = Append(log, m.note) /\ m.note \in Notes
      BY <1>1, <2>1, MessageFacts
    <3>2. QED
      BY <1>3, <3>1, AppendProperties
  <2>2. CASE m.type # "note"
    BY <1>1, <1>3, <2>2
  <2>3. QED
    BY <2>1, <2>2
<1>5. Follows(Handled + 1, inbox, log, FALSE)
  BY <1>2 DEF OrderInv, Follows
<1>6. Follows(Handled + 1, Append(inbox, m), log', FALSE) /\ Follows(Handled + 1, inbox, log', TRUE)
  BY <1>1, <1>3, <1>4, <1>5, FollowsAppend
<1>7. Follows(Handled + 1, inbox', log', overflowed')
  <2>1. CASE inbox' = Append(inbox, m) /\ overflowed' = overflowed
    <3>1. overflowed' = FALSE
      BY <1>2, <2>1 DEF PipeTypes
    <3>2. QED
      BY <1>6, <2>1, <3>1
  <2>2. CASE inbox' = inbox /\ overflowed' = TRUE
    BY <1>6, <2>2
  <2>3. QED
    BY <1>2, <2>1, <2>2
<1>8. OrderInv'
  <2>1. Handled' = Handled /\ Handled <= Len(log) /\ Len(ingested) <= Len(log)
    BY <1>2 DEF OrderInv, Handled
  <2>2. Len(log) <= Len(log')
    BY <1>3, <1>4
  <2>3. Handled' <= Len(log') /\ Len(ingested') <= Len(log')
    BY <1>2, <1>3, <1>4, <2>1 DEF Handled
  <2>4. \A k \in 1..Len(ingested) : ingested[k] = log'[k]
    BY <1>3, <1>4, <2>1 DEF OrderInv
  <2>5. \A k \in 1..Len(pending) : pending[k] = log'[Len(ingested) + k]
    <3> SUFFICES ASSUME NEW k \in 1..Len(pending) PROVE pending[k] = log'[Len(ingested) + k]
      OBVIOUS
    <3>1. Len(ingested) + k \in 1..Len(log)
      BY <1>3, <2>1 DEF Handled
    <3>2. pending[k] = log[Len(ingested) + k]
      BY <1>2 DEF OrderInv
    <3>3. QED
      BY <1>4, <3>1, <3>2
  <2>6. QED
    BY <1>2, <1>7, <2>1, <2>3, <2>4, <2>5 DEF OrderInv
<1>9. /\ inbox' \in Seq(Messages) /\ overflowed' \in BOOLEAN
  <2>1. Append(inbox, m) \in Seq(Messages) /\ overflowed \in BOOLEAN
    BY <1>3, AppendProperties DEF PipeTypes
  <2>2. QED
    BY <1>2, <1>3, <2>1
<1>10. answered' \subseteq Requested' /\ faults' \in Nat
  <2>1. Requested' = Requested /\ answered \subseteq Requested /\ faults \in Nat
    BY <1>2 DEF PipeTypes, Requested
  <2>2. QED
    BY <1>1, <2>1
<1>11. QED
  BY <1>2, <1>4, <1>8, <1>9, <1>10 DEF PipeTypes

\* The run thread and the child keep the order of the notifications.
LEMMA CodexOrder ==
  ASSUME ThreadTypes, PipeTypes, PhaseInv, OrderInv, Next
  PROVE  PipeTypes' /\ OrderInv'
<1>1. pc = "done" => pc' = "done"
  <2>1. Kept
    BY CodexKept
  <2>2. outcome # "none" => outcome' = outcome
    BY <2>1 DEF Kept, Promise!Next, Promise!Start, Promise!Close, Promise!Report, promise
  <2>3. QED
    BY <2>1, <2>2 DEF Kept, PhaseInv
<1>2. QED
  BY <1>1, QuietOrder, ReceiveOrder, PollMessageOrder, PollPendingOrder, SentOrder
  DEF Next, RunThread, Environment, QuietStep

-----------------------------------------------------------------------------
(* What is reported was observed.                                          *)

\* A step that ingests nothing reports what was observed before.
LEMMA SeenKept ==
  ASSUME SeenInv, ingested' = ingested, text' = text,
         held' \in {held, "none", "Failed", "Uncertain"}, cancelled => cancelled',
         outcome' = "Succeeded" =>
            outcome = "Succeeded" \/ (held = "Succeeded" /\ text = "some"),
         outcome' = "Cancelled" => cancelled \/ outcome = "Cancelled" \/ held = "Cancelled"
  PROVE  SeenInv'
<1>1. (Answered' <=> Answered) /\ (Told("answer")' <=> Told("answer"))
      /\ (Told("interrupted")' <=> Told("interrupted"))
  BY DEF Answered, Told
<1>2. QED
  BY <1>1 DEF SeenInv

\* Nothing that was told is forgotten, and the new one comes last.
LEMMA ToldGrows ==
  ASSUME PipeTypes, NEW n \in Notes, ingested' = Append(ingested, n)
  PROVE  /\ Told(n)' /\ \A x : Told(x) => Told(x)'
         /\ Answered => Answered'
         /\ n = "completed" /\ Told("answer") => Answered'
<1>1. Len(ingested) \in Nat /\ ingested \in Seq(Notes)
  BY LenProperties DEF PipeTypes
<1>2. /\ Len(ingested') = Len(ingested) + 1 /\ ingested'[Len(ingested) + 1] = n
      /\ \A k \in 1..Len(ingested) : ingested'[k] = ingested[k]
  BY <1>1, AppendProperties
<1>3. Told(n)' /\ \A x : Told(x) => Told(x)'
  BY <1>1, <1>2 DEF Told
<1>4. Answered => Answered'
  BY <1>1, <1>2 DEF Answered
<1>5. ASSUME n = "completed", Told("answer") PROVE Answered'
  <2>1. PICK j \in 1..Len(ingested) : ingested[j] = "answer"
    BY <1>5 DEF Told
  <2>2. /\ j \in 1..Len(ingested') /\ Len(ingested) + 1 \in 1..Len(ingested')
        /\ j < Len(ingested) + 1 /\ ingested'[j] = "answer"
        /\ ingested'[Len(ingested) + 1] = "completed"
    BY <1>1, <1>2, <1>5, <2>1
  <2>3. QED
    BY <2>2 DEF Answered
<1>6. QED
  BY <1>3, <1>4, <1>5

\* A notification that is ingested is observed, and may end the run.
LEMMA IngestSeen ==
  ASSUME ThreadTypes, PipeTypes, PhaseInv, SeenInv, pc = "poll", held = "none",
         NEW n \in Notes, Ingest(n), cancelled' = cancelled
  PROVE  SeenInv'
<1>0. /\ ingested' = Append(ingested, n) /\ outcome = "none" /\ pc # "done"
  BY DEF Ingest, PhaseInv
<1>1. /\ Told(n)' /\ \A x : Told(x) => Told(x)'
      /\ Answered => Answered'
      /\ n = "completed" /\ Told("answer") => Answered'
  BY <1>0, ToldGrows
<1>2. CASE n \in DOMAIN Ends /\ IngestEnd(n)
  <2>1. /\ Ends[n] \in Outcomes /\ OrderTerminal(Ends[n], FALSE) /\ text' = text
        /\ Ends[n] = "Succeeded" => n = "completed"
        /\ Ends[n] = "Cancelled" => n = "interrupted"
    BY <1>2, EndsFacts DEF IngestEnd, Outcomes
  <2>2. /\ (Ends[n] = "Succeeded" /\ text = "some") => Answered'
        /\ Ends[n] = "Cancelled" => Told("interrupted")'
        /\ text' = "some" => Told("answer")'
    BY <1>1, <2>1 DEF SeenInv
  <2>3. CASE Conclude(Ends[n])
    <3>1. outcome' = "Succeeded" => Ends[n] = "Succeeded" /\ text = "some"
      BY <1>0, <2>1, <2>3, ConcludeFacts
    <3>2. held' = "none" /\ (outcome' = "Cancelled" => Ends[n] = "Cancelled")
      BY <1>0, <2>1, <2>3, ConcludeFacts
    <3>3. QED
      BY <2>2, <3>1, <3>2 DEF SeenInv
  <2>4. CASE Abort("workspace") /\ held' = held
    <3>1. outcome' # "Succeeded" /\ outcome' # "Cancelled"
      BY <1>0, <2>4, AbortFacts
    <3>2. QED
      BY <2>2, <2>4, <3>1 DEF SeenInv
  <2>5. CASE held' = Ends[n] /\ outcome' = outcome
    BY <1>0, <2>1, <2>2, <2>5 DEF SeenInv
  <2>6. QED
    BY <2>1, <2>3, <2>4, <2>5, OrderTerminalFacts
<1>3. CASE \/ n = "started" /\ IngestStarted
           \/ n = "answer" /\ IngestAnswer
           \/ n = "change" /\ IngestChange
           \/ n = "other" /\ UNCHANGED <<pc, child, outcome, why, tracker>>
           \/ n = "malformed" /\ IngestDrift
  <2>1. held' = held /\ (text' = text \/ n = "answer")
    BY <1>3 DEF IngestStarted, IngestAnswer, IngestChange, IngestDrift, tracker
  <2>2. \/ Abort("store") \/ Abort("drift") \/ outcome' = outcome
    BY <1>3 DEF IngestStarted, IngestAnswer, IngestChange, IngestDrift
  <2>3. outcome' # "Succeeded" /\ outcome' # "Cancelled"
    BY <1>0, <2>2, AbortFacts
  <2>4. held' = held /\ (text' = "some" => Told("answer")')
    BY <1>1, <1>3, <2>1 DEF SeenInv, IngestStarted, IngestAnswer, IngestChange, IngestDrift, tracker
  <2>5. QED
    BY <2>3, <2>4 DEF SeenInv
<1>4. QED
  BY <1>2, <1>3 DEF Ingest

\* Every outcome was observed, or asked for.
LEMMA CodexSeen ==
  ASSUME ThreadTypes, PipeTypes, PhaseInv, SeenInv, Next
  PROVE  SeenInv'
<1>1. CASE Spawn \/ OpenPipes \/ Send \/ Receive \/ ReceiveFails \/ ReceiveTimesOut
  <2>1. pc # "done" /\ UNCHANGED <<ingested, text, held, cancelled>>
    <3>1. CASE Spawn \/ OpenPipes \/ Send
      BY <3>1 DEF Spawn, OpenPipes, Send, tracker
    <3>2. CASE Receive \/ ReceiveFails \/ ReceiveTimesOut
      BY <3>2 DEF Receive, ReceiveFails, ReceiveTimesOut, tracker
    <3>3. QED
      BY <1>1, <3>1, <3>2
  <2>2. outcome' = outcome \/ \E e : Abort(e) /\ (e = "cancelled" => cancelled)
    <3>1. CASE Spawn \/ OpenPipes
      BY <3>1 DEF Spawn, OpenPipes
    <3>2. CASE Send
      BY <3>2 DEF Send
    <3>3. CASE Receive
      <4>1. \/ Abort("drift") \/ outcome' = outcome \/ Route(Head(inbox))
        BY <3>3 DEF Receive
      <4>2. Route(Head(inbox)) =>
              Abort("flood") \/ outcome' = outcome \/ Abort("rejected") \/ Abort("drift")
        BY DEF Route
      <4>3. QED
        BY <4>1, <4>2
    <3>4. CASE ReceiveFails \/ ReceiveTimesOut
      <4>1. ReceiveFails => Abort("unavailable") \/ (cancelled /\ Abort("cancelled"))
        BY DEF ReceiveFails
      <4>2. ReceiveTimesOut => Abort("timed_out") \/ outcome' = outcome
        BY DEF ReceiveTimesOut
      <4>3. QED
        BY <3>4, <4>1, <4>2
    <3>5. QED
      BY <1>1, <3>1, <3>2, <3>3, <3>4
  <2>3. (outcome' = "Succeeded" => outcome = "Succeeded")
        /\ (outcome' = "Cancelled" => cancelled \/ outcome = "Cancelled")
    BY <2>1, <2>2, AbortFacts
  <2>4. QED
    BY <2>1, <2>3, SeenKept
<1>2. CASE PollPending
  <2>1. Head(pending) \in Notes /\ Ingest(Head(pending)) /\ pc = "poll" /\ held = "none"
        /\ cancelled' = cancelled
    BY <1>2, HeadTailProperties DEF PollPending, PipeTypes
  <2>2. QED
    BY <2>1, IngestSeen
<1>3. CASE PollMessage
  <2>1. Head(inbox) \in Messages /\ pc = "poll" /\ pc # "done" /\ held = "none"
        /\ cancelled' = cancelled
    BY <1>3, HeadTailProperties DEF PollMessage, PipeTypes
  <2>2. CASE Head(inbox).type = "note" /\ Ingest(Head(inbox).note)
    BY <2>1, <2>2, MessageFacts, IngestSeen
  <2>3. CASE UNCHANGED <<tracker, ingested>> /\ (outcome' = outcome \/ Abort("drift"))
    BY <2>1, <2>3, AbortFacts, SeenKept DEF tracker
  <2>4. QED
    BY <1>3, <2>2, <2>3 DEF PollMessage
<1>4. CASE PollTimesOut \/ PollLost
  <2>1. PICK s \in {"Failed", "Uncertain"}, closing \in BOOLEAN : OrderTerminal(s, closing)
    BY <1>4 DEF PollTimesOut, PollLost, LocalTerminal
  <2>2. /\ pc = "poll" /\ pc # "done" /\ text' = text /\ ingested' = ingested
        /\ cancelled' = cancelled /\ s \in Outcomes
    BY <1>4 DEF PollTimesOut, PollLost, Outcomes
  <2>3. CASE Conclude(s)
    BY <2>1, <2>2, <2>3, ConcludeFacts, SeenKept
  <2>4. CASE Abort("workspace") /\ held' = held
    BY <2>2, <2>4, AbortFacts, SeenKept
  <2>5. CASE held' = s /\ outcome' = outcome
    BY <2>1, <2>2, <2>5, SeenKept
  <2>6. QED
    BY <2>1, <2>2, <2>3, <2>4, <2>5, OrderTerminalFacts
<1>5. CASE PollHeld
  <2>1. /\ pc # "done" /\ held \in Outcomes /\ Conclude(held) /\ UNCHANGED <<text, ingested>>
        /\ cancelled' = cancelled
    BY <1>5 DEF PollHeld, ThreadTypes
  <2>2. QED
    BY <2>1, ConcludeFacts, SeenKept
<1>6. CASE PollCancelled
  <2>1. /\ pc # "done" /\ cancelled /\ Abort("cancelled") /\ UNCHANGED <<tracker, ingested>>
        /\ cancelled' = cancelled
    BY <1>6 DEF PollCancelled
  <2>2. QED
    BY <2>1, AbortFacts, SeenKept DEF tracker
<1>7. CASE Interrupt \/ Environment \/ Done
  <2>1. UNCHANGED <<ingested, text, held, outcome>> /\ (cancelled => cancelled')
    <3>1. CASE SendReply \/ SendNote \/ SendFault
      BY <3>1, SentMessage, DeliverFrame
    <3>2. CASE Interrupt \/ ChildEnds \/ Done
      <4>1. UNCHANGED <<ingested, text, held, outcome, cancelled>>
        BY <3>2 DEF Interrupt, ChildEnds, Done, vars, tracker
      <4>2. QED
        BY <4>1
    <3>3. CASE Cancel
      BY <3>3 DEF Cancel, tracker
    <3>4. QED
      BY <1>7, <3>1, <3>2, <3>3 DEF Environment
  <2>2. QED
    BY <2>1, SeenKept
<1>8. QED
  BY <1>1, <1>2, <1>3, <1>4, <1>5, <1>6, <1>7 DEF Next, RunThread

-----------------------------------------------------------------------------
(* A run is ended for drift only when the child drifted.                   *)

\* While the child keeps to the protocol, the next message is a reply that was
\* asked for or a well-formed notification, and its place in the pipe is free.
LEMMA TakenProper ==
  ASSUME PipeTypes, OrderInv, ProperInv, faults = 0, pc # "done", inbox # <<>>
  PROVE  /\ Head(inbox).type \in {"note", "reply"}
         /\ Head(inbox).type = "note" => Head(inbox).note # "malformed"
         /\ Head(inbox).type = "reply" =>
              /\ Head(inbox).id \in answered /\ Head(inbox).body \in {"ok", "rejected"}
              /\ Outstanding(Head(inbox).id)
              /\ \A k \in 1..Len(Tail(inbox)) : ~IsReplyTo(Tail(inbox)[k], Head(inbox).id)
<1>1. /\ Head(inbox) = inbox[1] /\ Len(inbox) \in Nat \ {0} /\ Len(Tail(inbox)) = Len(inbox) - 1
      /\ \A k \in 1..Len(inbox) - 1 : Tail(inbox)[k] = inbox[k + 1]
      /\ Head(inbox) \in Messages
  BY TakenFacts
<1>2. 1 \in 1..Len(inbox)
  BY <1>1
<1>3. /\ inbox[1].type # "garbage"
      /\ inbox[1].type = "note" => inbox[1].note # "malformed"
      /\ inbox[1].type = "reply" => inbox[1].id \in answered /\ inbox[1].body # "bad"
  BY <1>2 DEF ProperInv
<1>4. /\ Head(inbox).type \in {"note", "reply", "garbage"}
      /\ Head(inbox).type = "reply" => Head(inbox).body \in Bodies
  BY <1>1, MessageFacts
<1>5. ASSUME Head(inbox).type = "reply", NEW k \in 1..Len(Tail(inbox))
      PROVE  ~IsReplyTo(Tail(inbox)[k], Head(inbox).id)
  <2>1. k + 1 \in 1..Len(inbox) /\ k + 1 # 1 /\ Tail(inbox)[k] = inbox[k + 1]
    BY <1>1
  <2>2. IsReplyTo(inbox[k + 1], inbox[1].id) => 1 = k + 1
    BY <1>1, <1>2, <1>5, <2>1 DEF ProperInv
  <2>3. QED
    BY <1>1, <2>1, <2>2
<1>6. Head(inbox).type = "reply" => Outstanding(Head(inbox).id)
  BY <1>1, <1>2 DEF Outstanding, IsReplyTo
<1>7. QED
  BY <1>1, <1>3, <1>4, <1>5, <1>6 DEF Bodies

\* Taking the first message settles its request and no other.
LEMMA TakenSettles ==
  ASSUME PipeTypes, OrderInv, ProperInv, pc # "done", inbox # <<>>, inbox' = Tail(inbox),
         answered' = answered, faults' = faults,
         faults = 0 => \A k \in 1..Len(pending') : pending'[k] # "malformed"
  PROVE  /\ ProperInv'
         /\ faults = 0 => \A i : Outstanding(i)' =>
              Outstanding(i) /\ (Head(inbox).type = "reply" => i # Head(inbox).id)
<1> SUFFICES ASSUME faults = 0
             PROVE  /\ ProperInv'
                    /\ \A i : Outstanding(i)' =>
                         Outstanding(i) /\ (Head(inbox).type = "reply" => i # Head(inbox).id)
  BY DEF ProperInv
<1> DEFINE n == Len(inbox) - 1
           rest == Tail(inbox)
<1>1. /\ Len(inbox) = n + 1 /\ n \in Nat /\ Len(rest) = n /\ Head(inbox) = inbox[1]
      /\ \A k \in 1..n : k + 1 \in 1..Len(inbox) /\ rest[k] = inbox[k + 1]
  BY TakenFacts
<1> HIDE DEF n, rest
<1>2. inbox' = rest
  BY DEF rest
<1>3. \A k \in 1..n :
        /\ rest[k].type # "garbage"
        /\ rest[k].type = "note" => rest[k].note # "malformed"
        /\ rest[k].type = "reply" => rest[k].id \in answered /\ rest[k].body # "bad"
  BY <1>1 DEF ProperInv
<1>4. ASSUME NEW k \in 1..n, NEW l \in 1..n, rest[k].type = "reply", IsReplyTo(rest[l], rest[k].id)
      PROVE  k = l
  <2>1. k + 1 = l + 1
    BY <1>1, <1>4 DEF ProperInv
  <2>2. QED
    BY <1>1, <2>1
<1>5. ProperInv'
  BY <1>1, <1>2, <1>3, <1>4 DEF ProperInv, IsReplyTo
<1>6. ASSUME NEW i, Outstanding(i)'
      PROVE  Outstanding(i) /\ (Head(inbox).type = "reply" => i # Head(inbox).id)
  <2>1. i \notin answered \/ \E k \in 1..n : IsReplyTo(rest[k], i)
    BY <1>1, <1>2, <1>6 DEF Outstanding, IsReplyTo
  <2>2. Outstanding(i)
    BY <1>1, <2>1 DEF Outstanding
  <2>3. Head(inbox).type = "reply" => i # Head(inbox).id
    BY <1>1, <2>1, TakenProper DEF rest
  <2>4. QED
    BY <2>2, <2>3
<1>7. QED
  BY <1>5, <1>6

\* The thread's side of the quarantine: a request is awaited from the moment it
\* is sent, and remembered when it is given up.
LEMMA QuietPhase ==
  ASSUME ThreadTypes, QuietStep, pc' # "done"
  PROVE  \/ /\ nextId' = nextId /\ abandoned' = abandoned /\ evicted' = evicted
            /\ pc' = pc \/ (pc # "receive" /\ pc' # "receive")
         \/ /\ nextId' = nextId + 1 /\ abandoned' = abandoned /\ evicted' = evicted
            /\ pc # "receive" /\ pc' = "receive"
         \/ /\ nextId' = nextId /\ pc = "receive" /\ pc' = "poll" /\ abandoned' = Abandon
            /\ evicted' = (evicted \/ Len(abandoned) = MaxAbandoned)
<1>1. CASE Spawn \/ OpenPipes \/ ReceiveFails
  BY <1>1 DEF Spawn, OpenPipes, ReceiveFails, Abort, rpc, transport
<1>2. CASE Send
  BY <1>2 DEF Send, Abort, rpc, transport
<1>3. CASE ReceiveTimesOut
  BY <1>3 DEF ReceiveTimesOut, Abort, Abandon
<1>4. CASE PollTimesOut \/ PollLost
  BY <1>4 DEF PollTimesOut, PollLost, LocalTerminal, OrderTerminal, Conclude, Abort, rpc, transport
<1>5. CASE PollHeld \/ PollCancelled
  BY <1>5 DEF PollHeld, PollCancelled, Conclude, Abort, rpc, transport
<1>6. CASE Interrupt \/ ChildEnds \/ Cancel
  BY <1>6 DEF Interrupt, ChildEnds, Cancel, rpc, transport
<1>7. CASE Done
  BY <1>7 DEF Done, vars
<1>8. QED
  BY <1>1, <1>2, <1>3, <1>4, <1>5, <1>6, <1>7 DEF QuietStep

\* Sending a request makes it awaited; giving it up puts it into the quarantine.
LEMMA QuietProper ==
  ASSUME ThreadTypes, PipeTypes, ProperInv, QuarantineInv, QuietStep, pc' # "done"
  PROVE  ProperInv' /\ QuarantineInv'
<1>1. UNCHANGED <<pending, inbox, answered, faults>>
  BY QuietFrame
<1>2. ProperInv'
  BY <1>1 DEF ProperInv, IsReplyTo
<1>3. QuarantineInv'
  <2> SUFFICES ASSUME faults = 0, ~evicted', NEW i \in Requested', Outstanding(i)'
               PROVE  i \in Range(abandoned') \/ Awaited(i)'
    BY <1>1 DEF QuarantineInv
  <2>1. Outstanding(i)
    BY <1>1 DEF Outstanding, IsReplyTo
  <2>2. nextId \in Nat /\ (i \in Requested \/ (nextId' = nextId + 1 /\ i = nextId))
    BY QuietFrame DEF ThreadTypes, Requested
  <2>3. CASE /\ nextId' = nextId /\ abandoned' = abandoned /\ evicted' = evicted
             /\ pc' = pc \/ (pc # "receive" /\ pc' # "receive")
    <3>1. i \in Requested
      BY <2>2, <2>3
    <3>2. i \in Range(abandoned) \/ Awaited(i)
      BY <2>1, <2>3, <3>1 DEF QuarantineInv
    <3>3. QED
      BY <2>3, <3>2 DEF Awaited
  <2>4. CASE /\ nextId' = nextId + 1 /\ abandoned' = abandoned /\ evicted' = evicted
             /\ pc # "receive" /\ pc' = "receive"
    <3>1. CASE i \in Requested
      BY <2>1, <2>4, <3>1 DEF QuarantineInv, Awaited
    <3>2. CASE i = nextId
      BY <2>2, <2>4, <3>2 DEF Awaited
    <3>3. QED
      BY <2>2, <3>1, <3>2
  <2>5. CASE /\ nextId' = nextId /\ pc = "receive" /\ pc' = "poll" /\ abandoned' = Abandon
             /\ evicted' = (evicted \/ Len(abandoned) = MaxAbandoned)
    <3>0. ~(evicted \/ Len(abandoned) = MaxAbandoned)
      BY <2>5
    <3>1. i \in Requested /\ ~evicted /\ Len(abandoned) # MaxAbandoned
      BY <2>2, <2>5, <3>0
    <3>2. i \in Range(abandoned) \/ i = nextId - 1
      BY <2>1, <3>1 DEF QuarantineInv, Awaited
    <3>3. QED
      BY <2>5, <3>1, <3>2, AbandonFacts
  <2>6. QED
    BY <2>3, <2>4, <2>5, QuietPhase
<1>4. QED
  BY <1>2, <1>3

\* A round that takes a message leaves every other request as it was.
LEMMA TakenKept ==
  ASSUME PipeTypes, OrderInv, ProperInv, QuarantineInv, pc # "done",
         inbox # <<>>, inbox' = Tail(inbox), UNCHANGED <<nextId, answered, faults, evicted>>,
         faults = 0 => \A k \in 1..Len(pending') : pending'[k] # "malformed",
         \A i : (i \in Range(abandoned) /\ (Head(inbox).type = "reply" => i # Head(inbox).id))
                   => i \in Range(abandoned'),
         \A i : (Awaited(i) /\ (Head(inbox).type = "reply" => i # Head(inbox).id)) => Awaited(i)'
  PROVE  ProperInv' /\ QuarantineInv'
<1>1. ProperInv'
  BY TakenSettles
<1>2. QuarantineInv'
  <2> SUFFICES ASSUME faults = 0, ~evicted, NEW i \in Requested, Outstanding(i)'
               PROVE  i \in Range(abandoned') \/ Awaited(i)'
    BY DEF QuarantineInv, Requested
  <2>1. Outstanding(i) /\ (Head(inbox).type = "reply" => i # Head(inbox).id)
    BY TakenSettles
  <2>2. i \in Range(abandoned) \/ Awaited(i)
    BY <2>1 DEF QuarantineInv
  <2>3. QED
    BY <2>1, <2>2
<1>3. QED
  BY <1>1, <1>2

\* So a reply that is dropped or awaited was the one its request had to get.
LEMMA ReceiveProper ==
  ASSUME ThreadTypes, PipeTypes, OrderInv, ProperInv, QuarantineInv, Receive, pc' # "done"
  PROVE  ProperInv' /\ QuarantineInv'
<1>0. /\ pc = "receive" /\ pc # "done" /\ inbox # <<>> /\ inbox' = Tail(inbox)
      /\ UNCHANGED <<nextId, answered, faults, evicted>>
  BY ReceiveShape
<1>1. faults = 0 => \A k \in 1..Len(pending) : pending[k] # "malformed"
  BY DEF ProperInv
<1>2. CASE /\ Head(inbox).type = "note" /\ pc' = "receive"
           /\ pending' = Append(pending, Head(inbox).note) /\ abandoned' = abandoned
  <2>1. ASSUME faults = 0 PROVE \A k \in 1..Len(pending') : pending'[k] # "malformed"
    <3>1. Head(inbox).note \in Notes /\ Head(inbox).note # "malformed"
      BY <1>0, <1>2, <2>1, TakenFacts, TakenProper, MessageFacts
    <3>2. /\ Len(pending') = Len(pending) + 1 /\ Len(pending) \in Nat
          /\ pending'[Len(pending) + 1] = Head(inbox).note
          /\ \A k \in 1..Len(pending) : pending'[k] = pending[k]
      BY <1>2, <3>1, AppendProperties, LenProperties DEF PipeTypes
    <3>3. QED
      BY <1>1, <2>1, <3>1, <3>2
  <2>2. \A i : Awaited(i) => Awaited(i)'
    BY <1>0, <1>2 DEF Awaited
  <2>3. QED
    BY <1>0, <1>2, <2>1, <2>2, TakenKept
<1>3. CASE /\ Head(inbox).type = "reply" /\ pending' = pending
           /\ Head(inbox).id \in Range(abandoned) /\ pc' = "receive"
           /\ abandoned' = Forget(Head(inbox).id)
  <2>1. \A i : (i \in Range(abandoned) /\ i # Head(inbox).id) => i \in Range(abandoned')
    BY <1>3, ForgetFacts
  <2>2. \A i : Awaited(i) => Awaited(i)'
    BY <1>0, <1>3 DEF Awaited
  <2>3. QED
    BY <1>0, <1>1, <1>3, <2>1, <2>2, TakenKept
<1>4. CASE /\ Head(inbox).type = "reply" /\ pending' = pending
           /\ Head(inbox).id = nextId - 1 /\ abandoned' = abandoned
  <2>1. \A i : (Awaited(i) /\ i # Head(inbox).id) => Awaited(i)'
    BY <1>4 DEF Awaited
  <2>2. QED
    BY <1>0, <1>1, <1>4, <2>1, TakenKept
<1>5. QED
  BY <1>2, <1>3, <1>4, ReceiveShape

\* While it polls, the run awaits nothing: only the quarantine counts.
LEMMA PollProper ==
  ASSUME ThreadTypes, PipeTypes, OrderInv, ProperInv, QuarantineInv, PollMessage \/ PollPending
  PROVE  ProperInv' /\ QuarantineInv'
<1>1. CASE PollMessage
  <2>0. /\ pc = "poll" /\ pc # "done" /\ inbox # <<>> /\ inbox' = Tail(inbox)
        /\ UNCHANGED <<nextId, answered, faults, evicted, pending>>
    BY <1>1, PollMessageShape
  <2>1. faults = 0 => \A k \in 1..Len(pending') : pending'[k] # "malformed"
    BY <2>0 DEF ProperInv
  <2>2. \A i : ~Awaited(i)
    BY <2>0 DEF Awaited
  <2>3. CASE abandoned' = abandoned
    BY <2>0, <2>1, <2>2, <2>3, TakenKept
  <2>4. CASE /\ Head(inbox).type = "reply" /\ Head(inbox).id \in Range(abandoned)
             /\ abandoned' = Forget(Head(inbox).id)
    <3>1. \A i : (i \in Range(abandoned) /\ i # Head(inbox).id) => i \in Range(abandoned')
      BY <2>4, ForgetFacts
    <3>2. QED
      BY <2>0, <2>1, <2>2, <2>4, <3>1, TakenKept
  <2>5. QED
    BY <1>1, <2>3, <2>4, PollMessageShape
<1>2. CASE PollPending
  <2>0. /\ pc = "poll" /\ pending # <<>> /\ pending' = Tail(pending)
        /\ UNCHANGED <<nextId, answered, faults, evicted, inbox, abandoned>>
    BY <1>2 DEF PollPending, rpc, pipe, provider
  <2>1. /\ Len(pending) \in Nat \ {0} /\ Len(pending') = Len(pending) - 1
        /\ \A k \in 1..Len(pending) - 1 : pending'[k] = pending[k + 1]
    BY <2>0, HeadTailProperties, EmptySeq, LenProperties DEF PipeTypes
  <2>2. ASSUME faults = 0 PROVE \A k \in 1..Len(pending') : pending'[k] # "malformed"
    <3>1. \A k \in 1..Len(pending) - 1 : k + 1 \in 1..Len(pending)
      BY <2>1
    <3>2. QED
      BY <2>1, <2>2, <3>1 DEF ProperInv
  <2>3. ProperInv'
    BY <2>0, <2>2 DEF ProperInv, IsReplyTo
  <2>4. QuarantineInv'
    BY <2>0 DEF QuarantineInv, Requested, Outstanding, Awaited, IsReplyTo
  <2>5. QED
    BY <2>3, <2>4
<1>3. QED
  BY <1>1, <1>2

\* A reply that is sent was outstanding before, and is the only one to its request.
LEMMA SentProper ==
  ASSUME ThreadTypes, PipeTypes, ProperInv, QuarantineInv, SendReply \/ SendNote \/ SendFault
  PROVE  ProperInv' /\ QuarantineInv'
<1> SUFFICES ASSUME faults' = 0 PROVE ProperInv' /\ QuarantineInv'
  BY DEF ProperInv, QuarantineInv
<1>1. PICK m \in Messages :
        /\ Deliver(m)
        /\ \/ /\ m.type = "reply" /\ m.id \in Requested \ answered /\ m.body # "bad"
              /\ answered' = answered \cup {m.id} /\ faults' = faults
           \/ /\ m.type = "note" /\ m.note # "malformed" /\ answered' = answered
              /\ faults' = faults
           \/ answered' = answered /\ faults' = faults + 1
  BY SentMessage
<1>2. /\ UNCHANGED <<pc, nextId, pending, abandoned, evicted>>
      /\ inbox' = Append(inbox, m) \/ inbox' = inbox
  BY <1>1, DeliverFrame
<1>3. faults = 0 /\ faults + 1 # 0
  BY <1>1 DEF PipeTypes
<1>4. /\ m.type # "garbage" /\ (m.type = "note" => m.note # "malformed")
      /\ (m.type = "reply" => m.id \in answered' /\ m.id \notin answered /\ m.body # "bad")
      /\ answered \subseteq answered'
      /\ \A x \in answered' : x \in answered \/ (m.type = "reply" /\ x = m.id)
  BY <1>1, <1>3
<1>5. /\ Len(inbox) \in Nat /\ Len(inbox') \in {Len(inbox), Len(inbox) + 1}
      /\ \A k \in 1..Len(inbox) : inbox'[k] = inbox[k]
      /\ Len(inbox') = Len(inbox) + 1 => inbox'[Len(inbox) + 1] = m
  <2>1. inbox \in Seq(Messages) /\ Len(inbox) \in Nat /\ Len(inbox) # Len(inbox) + 1
    BY LenProperties DEF PipeTypes
  <2>2. CASE inbox' = Append(inbox, m)
    BY <2>1, <2>2, AppendProperties
  <2>3. CASE inbox' = inbox
    BY <2>1, <2>3
  <2>4. QED
    BY <1>2, <2>2, <2>3
<1>6. \A k \in 1..Len(inbox') :
        /\ k \in 1..Len(inbox) \/ k = Len(inbox) + 1
        /\ k \in 1..Len(inbox) => inbox'[k] = inbox[k]
        /\ k \notin 1..Len(inbox) => inbox'[k] = m
  BY <1>5
<1>7. \A k \in 1..Len(inbox) :
        /\ inbox[k].type # "garbage"
        /\ inbox[k].type = "note" => inbox[k].note # "malformed"
        /\ inbox[k].type = "reply" => inbox[k].id \in answered /\ inbox[k].body # "bad"
  BY <1>3 DEF ProperInv
<1>8. \A k \in 1..Len(inbox') :
        /\ inbox'[k].type # "garbage"
        /\ inbox'[k].type = "note" => inbox'[k].note # "malformed"
        /\ inbox'[k].type = "reply" => inbox'[k].id \in answered' /\ inbox'[k].body # "bad"
  BY <1>4, <1>6, <1>7
<1>9. ASSUME NEW k \in 1..Len(inbox'), NEW l \in 1..Len(inbox'),
             inbox'[k].type = "reply", IsReplyTo(inbox'[l], inbox'[k].id)
      PROVE  k = l
  <2>1. inbox'[l].type = "reply" /\ inbox'[l].id = inbox'[k].id
    BY <1>9 DEF IsReplyTo
  <2>2. CASE k \in 1..Len(inbox) /\ l \in 1..Len(inbox)
    BY <1>3, <1>6, <1>9, <2>1, <2>2 DEF ProperInv, IsReplyTo
  <2>3. CASE k \notin 1..Len(inbox) /\ l \notin 1..Len(inbox)
    BY <1>6, <2>3
  <2>4. CASE k \in 1..Len(inbox) /\ l \notin 1..Len(inbox)
    BY <1>4, <1>6, <1>7, <1>9, <2>1, <2>4
  <2>5. CASE k \notin 1..Len(inbox) /\ l \in 1..Len(inbox)
    BY <1>4, <1>6, <1>7, <1>9, <2>1, <2>5
  <2>6. QED
    BY <2>2, <2>3, <2>4, <2>5
<1>10. ProperInv'
  <2>1. \A k \in 1..Len(pending') : pending'[k] # "malformed"
    BY <1>2, <1>3 DEF ProperInv
  <2>2. QED
    BY <1>8, <1>9, <2>1 DEF ProperInv, IsReplyTo
<1>11. QuarantineInv'
  <2> SUFFICES ASSUME ~evicted, NEW i \in Requested, Outstanding(i)'
               PROVE  i \in Range(abandoned) \/ Awaited(i)
    BY <1>2 DEF QuarantineInv, Requested, Awaited
  <2>1. i \notin answered' \/ \E k \in 1..Len(inbox') : IsReplyTo(inbox'[k], i)
    BY DEF Outstanding, IsReplyTo
  <2>2. Outstanding(i)
    BY <1>4, <1>6, <2>1 DEF Outstanding, IsReplyTo
  <2>3. QED
    BY <1>3, <2>2 DEF QuarantineInv
<1>12. QED
  BY <1>10, <1>11

\* The order of replies and the quarantine, until the run is over.
LEMMA CodexProper ==
  ASSUME ThreadTypes, PipeTypes, OrderInv, ProperInv, QuarantineInv, Next, pc' # "done"
  PROVE  ProperInv' /\ QuarantineInv'
BY QuietProper, ReceiveProper, PollProper, SentProper
DEF Next, RunThread, Environment, QuietStep

\* A message that ends the run for drift is one no correct child sends, or the
\* reply to a request that was forgotten for room.
LEMMA DriftedMessage ==
  ASSUME PipeTypes, OrderInv, ProperInv, QuarantineInv, pc # "done", inbox # <<>>,
         ~Quarantined(Head(inbox)), Head(inbox).type # "note",
         \/ Head(inbox).type = "garbage"
         \/ pc = "poll"
         \/ Head(inbox).id # nextId - 1
         \/ Head(inbox).body \notin {"ok", "rejected"}
  PROVE  faults > 0 \/ evicted
<1> SUFFICES ASSUME faults = 0, ~evicted PROVE FALSE
  BY DEF PipeTypes
<1>1. /\ Head(inbox).type = "reply" /\ Head(inbox).id \in answered
      /\ Head(inbox).body \in {"ok", "rejected"} /\ Outstanding(Head(inbox).id)
  BY TakenProper
<1>2. Head(inbox).id \notin Range(abandoned)
  BY <1>1 DEF Quarantined
<1>3. Awaited(Head(inbox).id)
  BY <1>1, <1>2 DEF QuarantineInv, PipeTypes
<1>4. QED
  BY <1>1, <1>3 DEF Awaited

\* A notification ends the run for drift only when it is malformed.
LEMMA IngestDrifts ==
  ASSUME NEW n \in Notes, Ingest(n), why' = "drift", why' # why
  PROVE  n = "malformed"
<1>1. ASSUME n \in DOMAIN Ends, IngestEnd(n) PROVE FALSE
  <2>1. \/ Conclude(Ends[n]) \/ Abort("workspace") \/ why' = why
    BY <1>1 DEF IngestEnd, OrderTerminal
  <2>2. Conclude(Ends[n]) => why' \in {"none", "cleanup"}
    BY DEF Conclude
  <2>3. QED
    BY <2>1, <2>2 DEF Abort
<1>2. CASE n = "started" /\ IngestStarted
  BY <1>2 DEF IngestStarted, Abort
<1>3. CASE \/ n = "answer" /\ IngestAnswer
           \/ n = "change" /\ IngestChange
           \/ n = "other" /\ UNCHANGED <<pc, child, outcome, why, tracker>>
  BY <1>3 DEF IngestAnswer, IngestChange
<1>4. CASE n = "malformed" /\ IngestDrift
  BY <1>4
<1>5. QED
  BY <1>1, <1>2, <1>3, <1>4 DEF Ingest

\* No step gives drift as the reason unless it has one.
LEMMA CodexDrift ==
  ASSUME ThreadTypes, PipeTypes, OrderInv, pc # "done" => ProperInv /\ QuarantineInv,
         Next, DriftHasCause
  PROVE  DriftHasCause'
<1>1. CASE QuietStep
  <2>1. why' = why \/ why' # "drift"
    <3>1. CASE Spawn \/ OpenPipes \/ Send
      BY <3>1 DEF Spawn, OpenPipes, Send, Abort
    <3>2. CASE ReceiveFails \/ ReceiveTimesOut
      BY <3>2 DEF ReceiveFails, ReceiveTimesOut, Abort
    <3>3. CASE PollTimesOut \/ PollLost
      BY <3>3 DEF PollTimesOut, PollLost, LocalTerminal, OrderTerminal, Conclude, Abort
    <3>4. CASE PollHeld \/ PollCancelled
      BY <3>4 DEF PollHeld, PollCancelled, Conclude, Abort
    <3>5. CASE Interrupt \/ ChildEnds \/ Cancel \/ Done
      BY <3>5 DEF Interrupt, ChildEnds, Cancel, Done, vars
    <3>6. QED
      BY <1>1, <3>1, <3>2, <3>3, <3>4, <3>5 DEF QuietStep
  <2>2. faults' = faults /\ (evicted => evicted')
    <3>1. faults' = faults
      BY <1>1, QuietFrame
    <3>2. evicted => evicted'
      BY <1>1, QuietFrame DEF PipeTypes
    <3>3. QED
      BY <3>1, <3>2
  <2>3. QED
    BY <2>1, <2>2 DEF DriftHasCause
<1>2. CASE Receive
  <2>1. pc # "done" /\ inbox # <<>> /\ UNCHANGED <<faults, evicted>>
    BY <1>2, ReceiveShape
  <2>2. CASE Head(inbox).type = "garbage"
    <3>1. ~Quarantined(Head(inbox))
      BY <2>2 DEF Quarantined
    <3>2. QED
      BY <2>1, <2>2, <3>1, DriftedMessage DEF DriftHasCause
  <2>3. CASE Quarantined(Head(inbox)) /\ why' = why
    BY <2>1, <2>3 DEF DriftHasCause
  <2>4. CASE ~Quarantined(Head(inbox)) /\ Route(Head(inbox))
    <3>1. \/ why' = why \/ why' \in {"flood", "rejected"}
          \/ /\ Head(inbox).type = "reply"
             /\ Head(inbox).id # nextId - 1 \/ Head(inbox).body \notin {"ok", "rejected"}
      BY <2>4 DEF Route, Abort
    <3>2. QED
      BY <2>1, <2>4, <3>1, DriftedMessage DEF DriftHasCause
  <2>5. QED
    BY <1>2, <2>2, <2>3, <2>4 DEF Receive
<1>3. CASE PollMessage
  <2>1. pc # "done" /\ pc = "poll" /\ inbox # <<>> /\ UNCHANGED <<faults, evicted>>
    BY <1>3, PollMessageShape
  <2>2. CASE Head(inbox).type = "note" /\ Ingest(Head(inbox).note)
    <3>1. Head(inbox).note \in Notes
      BY <2>1, <2>2, TakenFacts, MessageFacts
    <3>2. faults = 0 => Head(inbox).note # "malformed"
      BY <2>1, <2>2, TakenProper
    <3>3. QED
      BY <2>1, <2>2, <3>1, <3>2, IngestDrifts DEF DriftHasCause, PipeTypes
  <2>3. CASE Head(inbox).type # "note" /\ ~Quarantined(Head(inbox))
    BY <2>1, <2>3, DriftedMessage DEF DriftHasCause
  <2>4. CASE why' = why
    BY <2>1, <2>4 DEF DriftHasCause
  <2>5. QED
    BY <1>3, <2>2, <2>3, <2>4 DEF PollMessage
<1>4. CASE PollPending
  <2>1. /\ pc # "done" /\ pending # <<>> /\ Ingest(Head(pending)) /\ UNCHANGED <<faults, evicted>>
    BY <1>4 DEF PollPending, provider
  <2>2. Head(pending) \in Notes /\ Head(pending) = pending[1] /\ 1 \in 1..Len(pending)
    BY <2>1, HeadTailProperties, EmptySeq, LenProperties DEF PipeTypes
  <2>3. faults = 0 => Head(pending) # "malformed"
    BY <2>1, <2>2 DEF ProperInv
  <2>4. QED
    BY <2>1, <2>2, <2>3, IngestDrifts DEF DriftHasCause, PipeTypes
<1>5. CASE SendReply \/ SendNote \/ SendFault
  <2>1. why' = why /\ evicted' = evicted
    BY <1>5, SentMessage, DeliverFrame
  <2>2. faults \in Nat /\ faults' \in {faults, faults + 1}
    BY <1>5, SentMessage DEF PipeTypes
  <2>3. QED
    BY <2>1, <2>2 DEF DriftHasCause
<1>6. QED
  BY <1>1, <1>2, <1>3, <1>4, <1>5 DEF Next, RunThread, Environment, QuietStep

-----------------------------------------------------------------------------
(* The theorems.                                                           *)

\* Before the child is started nothing was sent, put by or awaited.
LEMMA CodexStarts == Init => CodexInv
<1> SUFFICES ASSUME Init PROVE CodexInv
  OBVIOUS
<1>1. ThreadTypes /\ PhaseInv
  BY DEF Init, ThreadTypes, PhaseInv, Points, Methods, Outcomes
<1>2. /\ pending = <<>> /\ abandoned = <<>> /\ inbox = <<>> /\ ingested = <<>> /\ log = <<>>
      /\ answered = {} /\ faults = 0 /\ overflowed = FALSE /\ evicted = FALSE
      /\ nextId = 0 /\ why = "none" /\ text = "none" /\ held = "none" /\ outcome = "none"
  BY DEF Init
<1>3. PipeTypes
  <2>1. \A S : <<>> \in Seq(S)
    OBVIOUS
  <2>2. QED
    BY <1>2, <2>1 DEF PipeTypes
<1>4. Follows(Handled + 1, inbox, log, overflowed)
  <2> DEFINE place == [k \in 1..1 |-> 1]
  <2>1. Handled + 1 = 1 /\ Len(inbox) = 0 /\ Len(log) = 0 /\ Len(inbox) + 1 = 1
    BY <1>2 DEF Handled
  <2>2. place \in [1..1 -> Nat] /\ place[1] = 1
    OBVIOUS
  <2> HIDE DEF place
  <2>3. QED
    BY <2>1, <2>2 DEF Follows
<1>5. OrderInv
  <2>1. Handled = 0 /\ Len(log) = 0 /\ Len(ingested) = 0 /\ Len(pending) = 0
    BY <1>2 DEF Handled
  <2>2. QED
    BY <1>4, <2>1 DEF OrderInv
<1>6. ProperInv /\ QuarantineInv
  <2>1. Len(inbox) = 0 /\ Len(pending) = 0 /\ Requested = {}
    BY <1>2 DEF Requested
  <2>2. QED
    BY <2>1 DEF ProperInv, QuarantineInv
<1>7. SeenInv /\ DriftHasCause
  BY <1>2 DEF SeenInv, DriftHasCause
<1>8. QED
  BY <1>1, <1>3, <1>5, <1>6, <1>7 DEF CodexInv

\* Every step keeps the invariant, and a run that is over stays so.
LEMMA CodexStep == CodexInv /\ [Next]_vars => CodexInv'
<1> SUFFICES ASSUME CodexInv, [Next]_vars PROVE CodexInv'
  OBVIOUS
<1>0. /\ ThreadTypes /\ PipeTypes /\ PhaseInv /\ SeenInv /\ DriftHasCause /\ OrderInv
      /\ pc # "done" => ProperInv /\ QuarantineInv
  BY DEF CodexInv
<1>1. CASE Next
  <2>1. ThreadTypes' /\ PhaseInv' /\ (pc' # "done" => pc # "done")
    <3>1. Kept
      BY <1>0, <1>1, CodexKept
    <3>2. outcome # "none" => outcome' = outcome
      BY <3>1 DEF Kept, Promise!Next, Promise!Start, Promise!Close, Promise!Report, promise
    <3>3. QED
      BY <1>0, <3>1, <3>2 DEF Kept, PhaseInv
  <2>2. PipeTypes' /\ OrderInv'
    BY <1>0, <1>1, CodexOrder
  <2>3. SeenInv'
    BY <1>0, <1>1, CodexSeen
  <2>4. DriftHasCause'
    BY <1>0, <1>1, CodexDrift
  <2>5. pc' # "done" => ProperInv' /\ QuarantineInv'
    BY <1>0, <1>1, <2>1, CodexProper
  <2>6. QED
    BY <2>1, <2>2, <2>3, <2>4, <2>5 DEF CodexInv
<1>2. CASE UNCHANGED vars
  BY <1>2 DEF vars, rpc, transport, pipe, tracker, provider, CodexInv, ThreadTypes, PipeTypes,
     PhaseInv, SeenInv, DriftHasCause, OrderInv, ProperInv, QuarantineInv, Requested, Handled,
     Told, Answered, Outstanding, Awaited, IsReplyTo
<1>3. QED
  BY <1>1, <1>2

\* A run of the Codex adapter never loses track of its pipe: what was ingested, put
\* by and waits to be read is what the child told, in order, and while the child
\* keeps to the protocol every reply to come is awaited or quarantined.
THEOREM CodexInvariant == Spec => []CodexInv
BY CodexStarts, CodexStep, PTL DEF Spec

\* The tracker is given the child's notifications in the order they were sent and
\* without a gap, those that arrived during a request included.
THEOREM NotesStayInOrder == Spec => []NotesInOrder
<1>1. CodexInv => NotesInOrder
  <2> SUFFICES ASSUME CodexInv PROVE NotesInOrder
    OBVIOUS
  <2>1. /\ ingested \in Seq(Notes) /\ log \in Seq(Notes)
        /\ Len(ingested) \in Nat /\ Len(log) \in Nat /\ Len(ingested) <= Len(log)
        /\ \A k \in 1..Len(ingested) : ingested[k] = log[k]
    BY LenProperties DEF CodexInv, PipeTypes, OrderInv
  <2>2. SubSeq(ingested, 1, Len(ingested)) = [k \in 1..Len(ingested) |-> ingested[k]]
    BY <2>1
  <2>3. SubSeq(log, 1, Len(ingested)) = [k \in 1..Len(ingested) |-> log[k]]
    BY <2>1
  <2>4. [k \in 1..Len(ingested) |-> ingested[k]] = [k \in 1..Len(ingested) |-> log[k]]
    BY <2>1
  <2>5. QED
    BY <2>1, <2>2, <2>3, <2>4 DEF NotesInOrder, IsPrefix
<1>2. QED
  BY <1>1, CodexInvariant, PTL

\* Every outcome of a Codex run has its cause: success an answer and the child's
\* completion after it, cancellation the token or the child's word, and the verdict
\* that the child broke the protocol a message that did, or a full quarantine.
THEOREM CodexOutcomeHasCause == Spec => []OutcomeHasCause
<1>1. CodexInv => OutcomeHasCause
  <2> SUFFICES ASSUME CodexInv PROVE OutcomeHasCause
    OBVIOUS
  <2>1. /\ Len(ingested) \in Nat /\ Len(log) \in Nat /\ Len(ingested) <= Len(log)
        /\ log \in Seq(Notes) /\ \A k \in 1..Len(ingested) : ingested[k] = log[k]
    BY LenProperties DEF CodexInv, PipeTypes, OrderInv
  <2>2. \A k \in 1..Len(ingested) : k \in 1..Len(log) /\ ingested[k] = log[k]
    BY <2>1
  <2>3. outcome = "Succeeded" =>
          \E i, j \in 1..Len(log) : i < j /\ log[i] = "answer" /\ log[j] = "completed"
    BY <2>2 DEF CodexInv, SeenInv, Answered
  <2>4. ASSUME outcome = "Cancelled" PROVE cancelled \/ "interrupted" \in Range(log)
    <3>1. CASE Told("interrupted")
      BY <2>1, <2>2, <3>1, InRange DEF Told
    <3>2. QED
      BY <2>4, <3>1 DEF CodexInv, SeenInv
  <2>5. QED
    BY <2>3, <2>4 DEF OutcomeHasCause, OutcomeIsObserved, CodexInv
<1>2. QED
  BY <1>1, CodexInvariant, PTL

\* Every step of a Codex run is one AdapterRun allows or changes neither its child
\* nor its outcome: one child, shut down before the only outcome is told, and no
\* definite outcome without confirmed cleanup.
THEOREM CodexKeepsPromise == Spec => Promise!Init /\ [][Promise!Next]_promise
<1>1. Init => Promise!Init
  BY DEF Init, Promise!Init
<1>2. CodexInv /\ [Next]_vars => [Promise!Next]_promise
  <2>1. CodexInv /\ Next => [Promise!Next]_promise
    BY CodexKept DEF CodexInv, Kept
  <2>2. UNCHANGED vars => UNCHANGED promise
    BY DEF vars, promise
  <2>3. QED
    BY <2>1, <2>2
<1>3. QED
  BY <1>1, <1>2, CodexInvariant, PTL DEF Spec

-----------------------------------------------------------------------------
(* The Agy adapter.  Its module is instantiated, because its operators have *)
(* the names of CodexRun's; the variables and the properties are the same,  *)
(* those of AdapterState and AgyOutcome, and the others are declared here.  *)

CONSTANT MaxLines

VARIABLES lines, recovering, before, initialized, closed

Agy == INSTANCE AgyRun

AgyTypes ==
    /\ pc \in {"spawn", "write", "loop", "poll", "done"}
    /\ child \in {"none", "live", "clean", "lost"}
    /\ lines \in Seq(Agy!Lines) /\ log \in Seq(Agy!Lines)
    /\ held \in Agy!Outcomes \cup {"none"} /\ outcome \in Agy!Outcomes \cup {"none"}
    /\ text \in {"none", "some", "overflowed"}
    /\ cancelled \in BOOLEAN /\ overflowed \in BOOLEAN /\ eof \in BOOLEAN
    /\ recovering \in BOOLEAN /\ before \in BOOLEAN /\ initialized \in BOOLEAN
    /\ closed \in BOOLEAN /\ stopped \in BOOLEAN /\ broke \in BOOLEAN

\* One child, an outcome exactly when the run is over, a terminal update held back
\* only when the child is shut down, and no cancellation accepted before init.
AgyPhase ==
    /\ pc = "spawn" => child = "none"
    /\ outcome = "none" <=> pc # "done"
    /\ pc # "done" /\ held # "none" =>
         closed /\ Agy!Promise!Confirmed(child) /\ pc \notin {"spawn", "write"}
    /\ pc # "done" /\ stopped => initialized /\ pc \notin {"spawn", "write"}

\* Among the first c lines of the child there is an init, and a step after it.
InitIn(c) == \E i \in 1..c : log[i] = "init"
AnswerIn(c) == \E i, j \in 1..c : i < j /\ log[i] = "init" /\ log[j] = "step"

\* The run thread has taken c lines: those that wait are the next ones of the log,
\* but for a line the end of the child has cut off, which comes last.
Waiting(c) ==
    /\ c \in 0..Len(log)
    /\ \A k \in 1..Len(lines) :
          \/ c + k <= Len(log) /\ lines[k] = log[c + k]
          \/ k = Len(lines) /\ c + k = Len(log) + 1 /\ lines[k] = "bad" /\ broke
    /\ ~overflowed /\ ~eof => c + Len(lines) = Len(log)

\* What the stream has noted was in those lines.
Reading(c) ==
    /\ Waiting(c)
    /\ initialized => InitIn(c)
    /\ text = "some" => AnswerIn(c)
    /\ ~initialized /\ ~closed => c = 0

\* While the child keeps to the protocol, its log begins with init or an error.
AgyProper ==
    ~broke => \A k \in 1..Len(log) :
                 IF k = 1 THEN log[k] \in {"init", "ERROR"}
                 ELSE log[k] \in {"step"} \cup DOMAIN Agy!Statuses

\* The child has written l; it has written a success after an answer.
Said(l) == \E k \in 1..Len(log) : log[k] = l
SuccessSaid ==
    \E i, j, k \in 1..Len(log) :
        /\ i < j /\ j < k
        /\ log[i] = "init" /\ log[j] = "step" /\ log[k] \in {"SUCCESS", "DENIED"}

\* What is held back, and what is reported, was observed.
AgySeen ==
    /\ (held = "Succeeded" /\ text = "some") \/ outcome = "Succeeded" => SuccessSaid
    /\ held = "Blocked" \/ outcome = "Blocked" => Said("WAITING")
    /\ held = "Cancelled" \/ outcome = "Cancelled" =>
         cancelled \/ stopped \/ Said("CANCELED")
    /\ pc # "done" /\ held = "Uncertain" /\ stopped => Said("RUNNING")
    /\ stopped /\ outcome = "Uncertain" =>
         child = "lost" \/ broke \/ overflowed \/ Said("RUNNING") \/ why = "workspace"

AgyInv ==
    /\ AgyTypes /\ AgyPhase /\ AgyProper /\ AgySeen
    /\ pc # "done" => \E c \in 0..Len(log) : Reading(c)

-----------------------------------------------------------------------------
(* How a run of the Agy adapter ends.                                      *)

\* An error shuts the child down; only a confirmed shutdown of a cancelled run is
\* a definite outcome.
Aborts(error) ==
    /\ pc' = "done" /\ why' = error
    /\ child' \in Agy!Promise!Closed(child) /\ child' \in {"none", "clean", "lost"}
    /\ outcome' \in {"Cancelled", "Uncertain"}
    /\ outcome' = "Cancelled" => error = "cancelled" /\ Agy!Promise!Confirmed(child')
    /\ outcome' = "Uncertain" /\ error = "cancelled" => child' = "lost"

\* A terminal update ends the run with what it says, or is held back, once the
\* cleanup is confirmed.
Concludes(state) ==
    /\ child' \in Agy!Promise!Closed(child) /\ child' \in {"none", "clean", "lost"}
    /\ before' \in BOOLEAN
    /\ \/ /\ pc' = "done" /\ outcome' = "Uncertain" /\ held' = held
          /\ child' = "lost" \/ why' = "workspace"
       \/ /\ pc' = "done" /\ outcome' = Agy!Judge(state) /\ held' = held
          /\ Agy!Promise!Confirmed(child')
       \/ /\ pc' = "loop" /\ outcome' = outcome /\ held' = state
          /\ Agy!Promise!Confirmed(child')

\* Abort is such an error.
LEMMA AgyAborts ==
  ASSUME AgyTypes, NEW error, Agy!Abort(error)
  PROVE  Aborts(error)
<1>1. /\ pc' = "done" /\ why' = error /\ child' \in Agy!Promise!Closed(child)
      /\ outcome' = IF error = "cancelled" /\ Agy!Promise!Confirmed(child')
                    THEN "Cancelled" ELSE "Uncertain"
  BY DEF Agy!Abort
<1>2. child' \in {"none", "clean", "lost"}
  BY <1>1 DEF AgyTypes, Agy!Promise!Closed
<1>3. QED
  BY <1>1, <1>2 DEF Agy!Promise!Confirmed, Aborts

\* EndWith is such an end.
LEMMA AgyEnds ==
  ASSUME AgyTypes, NEW state, NEW cause, Agy!EndWith(state, cause)
  PROVE  Concludes(state)
<1>1. CASE Agy!Abort("cleanup") /\ child' = "lost" /\ UNCHANGED <<before, held>>
  BY <1>1, AgyAborts DEF AgyTypes, Aborts, Concludes
<1>2. CASE before /\ Agy!Abort("workspace") /\ before' = FALSE /\ UNCHANGED held
  BY <1>2, AgyAborts DEF Aborts, Concludes
<1>3. CASE /\ child' \in Agy!Promise!Closed(child) /\ Agy!Promise!Confirmed(child')
           /\ before' = FALSE
           /\ \/ outcome' = Agy!Judge(state) /\ why' = cause /\ pc' = "done" /\ UNCHANGED held
              \/ before /\ held' = state /\ pc' = "loop" /\ UNCHANGED <<outcome, why>>
  <2>1. child' \in {"none", "clean"}
    BY <1>3 DEF Agy!Promise!Confirmed
  <2>2. QED
    BY <1>3, <2>1 DEF Concludes
<1>4. QED
  BY <1>1, <1>2, <1>3 DEF Agy!EndWith

\* A success without an answer is reported as a failure.
LEMMA AgyJudges ==
  ASSUME NEW state \in Agy!Outcomes
  PROVE  /\ Agy!Judge(state) \in Agy!Outcomes
         /\ Agy!Judge(state) = "Succeeded" => state = "Succeeded" /\ text = "some"
         /\ Agy!Judge(state) \notin {"Succeeded", "Failed"} => Agy!Judge(state) = state
BY DEF Agy!Judge, Agy!Outcomes

\* An error is a step the promise allows.
LEMMA AbortsPromised ==
  ASSUME AgyTypes, outcome = "none", NEW error, Aborts(error)
  PROVE  /\ [Agy!Promise!Next]_promise
         /\ outcome' \in Agy!Outcomes /\ outcome' # "none"
<1>1. outcome' \in Agy!Outcomes /\ outcome' # "none"
  BY DEF Aborts, Agy!Outcomes
<1>2. outcome' = "Uncertain" \/ Agy!Promise!Confirmed(child')
  BY DEF Aborts
<1>3. Agy!Promise!Report
  BY <1>1, <1>2 DEF Aborts, Agy!Promise!Report
<1>4. QED
  BY <1>1, <1>3 DEF Agy!Promise!Next

\* So is the end of a run, and the shutdown before a terminal update is held back.
LEMMA ConcludesPromised ==
  ASSUME AgyTypes, outcome = "none", NEW state \in Agy!Outcomes, Concludes(state)
  PROVE  /\ [Agy!Promise!Next]_promise
         /\ outcome' \in Agy!Outcomes \cup {"none"} /\ (outcome' = "none" <=> pc' # "done")
         /\ held' \in Agy!Outcomes \cup {"none"} /\ pc' \in {"loop", "done"}
         /\ pc' # "done" => Agy!Promise!Confirmed(child')
<1>1. "none" \notin Agy!Outcomes /\ "Uncertain" \in Agy!Outcomes
  BY DEF Agy!Outcomes
<1>2. CASE /\ pc' = "done" /\ outcome' \in Agy!Outcomes /\ held' = held
           /\ outcome' = "Uncertain" \/ Agy!Promise!Confirmed(child')
  <2>1. Agy!Promise!Report
    BY <1>2 DEF Concludes, Agy!Promise!Report
  <2>2. QED
    BY <1>1, <1>2, <2>1 DEF Agy!Promise!Next, AgyTypes
<1>3. CASE /\ pc' = "loop" /\ outcome' = outcome /\ held' = state
           /\ Agy!Promise!Confirmed(child')
  <2>1. child = "live" => Agy!Promise!Close
    BY <1>3 DEF Concludes, Agy!Promise!Close
  <2>2. child # "live" => child' = child
    BY DEF Concludes, Agy!Promise!Closed
  <2>3. QED
    BY <1>1, <1>3, <2>1, <2>2 DEF Agy!Promise!Next, promise
<1>4. QED
  BY <1>1, <1>2, <1>3, AgyJudges DEF Concludes

-----------------------------------------------------------------------------
(* The lines and the log.                                                  *)

\* A step that leaves the pipe and the stream alone leaves the reader where it is.
LEMMA QuietReading ==
  ASSUME UNCHANGED <<lines, log, broke, overflowed, initialized, text>>,
         eof => eof', closed => closed', NEW c, Reading(c)
  PROVE  Reading(c)'
<1>1. Waiting(c)'
  BY DEF Reading, Waiting
<1>2. QED
  BY <1>1 DEF Reading, InitIn, AnswerIn

\* The next line that is not cut off is the next one of the log.
LEMMA NextLine ==
  ASSUME AgyTypes, NEW c, Waiting(c), lines # <<>>
  PROVE  /\ Head(lines) \in Agy!Lines
         /\ Head(lines) # "bad" => c + 1 \in 1..Len(log) /\ Head(lines) = log[c + 1]
         /\ Head(lines) = "bad" => broke \/ (c + 1 \in 1..Len(log) /\ Head(lines) = log[c + 1])
<1>1. /\ Len(lines) \in Nat \ {0} /\ Len(log) \in Nat /\ c \in Nat
      /\ Head(lines) = lines[1] /\ Head(lines) \in Agy!Lines
  BY HeadTailProperties, EmptySeq, LenProperties DEF AgyTypes, Waiting
<1>2. 1 \in 1..Len(lines)
  BY <1>1
<1>3. \/ c + 1 <= Len(log) /\ lines[1] = log[c + 1]
      \/ lines[1] = "bad" /\ broke
  BY <1>2 DEF Waiting
<1>4. QED
  BY <1>1, <1>3

\* Taking a line that is not cut off moves the reader on by one.
LEMMA TakeLine ==
  ASSUME AgyTypes, NEW c, Waiting(c), lines # <<>>, Head(lines) # "bad",
         lines' = Tail(lines), UNCHANGED <<log, broke, overflowed>>, eof => eof'
  PROVE  Waiting(c + 1)' /\ lines' \in Seq(Agy!Lines)
<1>1. /\ Len(lines) \in Nat \ {0} /\ Len(log) \in Nat /\ c \in Nat /\ c + 1 \in 0..Len(log)
      /\ lines' \in Seq(Agy!Lines) /\ Len(lines) = Len(lines') + 1 /\ Len(lines') \in Nat
      /\ \A k \in 1..Len(lines') : lines'[k] = lines[k + 1]
  <2>1. c + 1 \in 1..Len(log)
    BY NextLine
  <2>2. /\ Len(lines) \in Nat \ {0} /\ Len(log) \in Nat /\ c \in Nat
        /\ Tail(lines) \in Seq(Agy!Lines) /\ Len(Tail(lines)) = Len(lines) - 1
        /\ \A k \in 1..Len(lines) - 1 : Tail(lines)[k] = lines[k + 1]
    BY HeadTailProperties, EmptySeq, LenProperties DEF AgyTypes, Waiting
  <2>3. Len(lines) = (Len(lines) - 1) + 1 /\ Len(lines) - 1 \in Nat
    BY <2>2
  <2>4. QED
    BY <2>1, <2>2, <2>3
<1>2. ASSUME NEW k \in 1..Len(lines')
      PROVE  \/ (c + 1) + k <= Len(log) /\ lines'[k] = log[(c + 1) + k]
             \/ /\ k = Len(lines') /\ (c + 1) + k = Len(log) + 1
                /\ lines'[k] = "bad" /\ broke
  <2>1. /\ k + 1 \in 1..Len(lines) /\ lines'[k] = lines[k + 1] /\ c + (k + 1) = (c + 1) + k
        /\ k + 1 = Len(lines) => k = Len(lines')
    <3>1. lines'[k] = lines[k + 1]
      BY <1>1
    <3>2. PICK n \in Nat : n = Len(lines') /\ Len(lines) = n + 1
      BY <1>1
    <3>3. k \in 1..n /\ k + 1 \in 1..n + 1 /\ (k + 1 = n + 1 => k = n)
      BY <3>2
    <3>4. c + (k + 1) = (c + 1) + k
      BY <1>1, <3>3
    <3>5. QED
      BY <3>1, <3>2, <3>3, <3>4
  <2>2. \/ c + (k + 1) <= Len(log) /\ lines[k + 1] = log[c + (k + 1)]
        \/ k + 1 = Len(lines) /\ c + (k + 1) = Len(log) + 1 /\ lines[k + 1] = "bad" /\ broke
    BY <2>1 DEF Waiting
  <2>3. QED
    BY <2>1, <2>2
<1>3. ~overflowed' /\ ~eof' => (c + 1) + Len(lines') = Len(log)
  <2>1. ~overflowed /\ ~eof => c + Len(lines) = Len(log)
    BY DEF Waiting
  <2>2. c + Len(lines) = Len(log) => (c + 1) + Len(lines') = Len(log)
    BY <1>1
  <2>3. QED
    BY <2>1, <2>2
<1>4. QED
  BY <1>1, <1>2, <1>3 DEF Waiting

\* A line the child has cut off comes after all the others.
LEMMA TornWaiting ==
  ASSUME AgyTypes, NEW c, Waiting(c), ~eof, ~overflowed, Agy!Torn, eof' = TRUE, log' = log
  PROVE  /\ Waiting(c)' /\ lines' \in Seq(Agy!Lines) /\ broke' \in BOOLEAN /\ (broke => broke')
         /\ overflowed' = overflowed
<1>1. CASE UNCHANGED <<lines, broke, overflowed>>
  BY <1>1 DEF Waiting, AgyTypes
<1>2. CASE lines' = Append(lines, "bad") /\ broke' = TRUE /\ UNCHANGED overflowed
  <2>1. /\ lines \in Seq(Agy!Lines) /\ "bad" \in Agy!Lines /\ Len(lines) \in Nat
        /\ Len(log) \in Nat /\ c \in 0..Len(log) /\ c + Len(lines) = Len(log)
    BY LenProperties DEF AgyTypes, Waiting, Agy!Lines
  <2>2. /\ lines' \in Seq(Agy!Lines) /\ Len(lines') = Len(lines) + 1
        /\ lines'[Len(lines) + 1] = "bad"
        /\ \A k \in 1..Len(lines) : lines'[k] = lines[k]
    BY <1>2, <2>1, AppendProperties
  <2>3. ASSUME NEW k \in 1..Len(lines')
        PROVE  \/ c + k <= Len(log) /\ lines'[k] = log[c + k]
               \/ k = Len(lines') /\ c + k = Len(log) + 1 /\ lines'[k] = "bad"
    <3>1. CASE k \in 1..Len(lines)
      <4>1. c + k <= Len(log)
        BY <2>1, <3>1
      <4>2. lines[k] = log[c + k]
        BY <2>1, <3>1, <4>1 DEF Waiting
      <4>3. QED
        BY <2>2, <3>1, <4>1, <4>2
    <3>2. CASE k = Len(lines) + 1
      BY <2>1, <2>2, <3>2
    <3>3. QED
      BY <2>1, <2>2, <3>1, <3>2
  <2>4. QED
    BY <1>2, <2>1, <2>2, <2>3 DEF Waiting
<1>3. QED
  BY <1>1, <1>2 DEF Agy!Torn

\* A line the child writes goes to the end of the log and, unless the queue is
\* full, of the lines that wait.
LEMMA WriteWaiting ==
  ASSUME AgyTypes, NEW c, Waiting(c), ~eof, ~overflowed, NEW l \in Agy!Lines,
         log' = Append(log, l), eof' = eof, broke => broke',
         \/ lines' = Append(lines, l) /\ UNCHANGED overflowed
         \/ overflowed' = TRUE /\ UNCHANGED lines
  PROVE  Waiting(c)'
<1>1. /\ lines \in Seq(Agy!Lines) /\ Len(lines) \in Nat
      /\ Len(log) \in Nat /\ c \in 0..Len(log) /\ c + Len(lines) = Len(log)
  BY LenProperties DEF AgyTypes, Waiting
<1>2. /\ Len(log') = Len(log) + 1 /\ log'[Len(log) + 1] = l
      /\ \A k \in 1..Len(log) : log'[k] = log[k]
  BY AppendProperties DEF AgyTypes
<1>3. \A k \in 1..Len(lines) : c + k \in 1..Len(log) /\ lines[k] = log'[c + k]
  <2> SUFFICES ASSUME NEW k \in 1..Len(lines)
               PROVE  c + k \in 1..Len(log) /\ lines[k] = log'[c + k]
    OBVIOUS
  <2>1. c + k \in 1..Len(log) /\ c + k # Len(log) + 1
    BY <1>1
  <2>2. lines[k] = log[c + k]
    BY <2>1 DEF Waiting
  <2>3. QED
    BY <1>2, <2>1, <2>2
<1>4. CASE lines' = Append(lines, l) /\ UNCHANGED overflowed
  <2>1. /\ Len(lines') = Len(lines) + 1 /\ lines'[Len(lines) + 1] = l
        /\ \A k \in 1..Len(lines) : lines'[k] = lines[k]
    BY <1>1, <1>4, AppendProperties
  <2>2. ASSUME NEW k \in 1..Len(lines')
        PROVE  c + k <= Len(log') /\ lines'[k] = log'[c + k]
    <3>1. CASE k \in 1..Len(lines)
      BY <1>1, <1>2, <1>3, <2>1, <3>1
    <3>2. CASE k = Len(lines) + 1
      BY <1>1, <1>2, <2>1, <3>2
    <3>3. k \in 1..Len(lines) \/ k = Len(lines) + 1
      BY <1>1, <2>1
    <3>4. QED
      BY <3>1, <3>2, <3>3
  <2>3. c \in 0..Len(log') /\ c + Len(lines') = Len(log')
    BY <1>1, <1>2, <2>1
  <2>4. QED
    BY <2>2, <2>3 DEF Waiting
<1>5. CASE overflowed' = TRUE /\ UNCHANGED lines
  BY <1>1, <1>2, <1>3, <1>5 DEF Waiting
<1>6. QED
  BY <1>4, <1>5

-----------------------------------------------------------------------------
(* The steps of the Agy adapter.                                           *)

\* A step keeps the types and the phase and is one AdapterRun allows.
AgyKept == AgyTypes' /\ AgyPhase' /\ [Agy!Promise!Next]_promise

\* The steps that leave the lines and what the stream has noted alone.
AgyQuiet ==
    \/ Agy!Spawn \/ Agy!WritePrompt \/ Agy!Loop \/ Agy!PollWindow \/ Agy!PollFailed
    \/ Agy!PollWaiting \/ Agy!PollTimesOut \/ Agy!PollEnds \/ Agy!Cancel \/ Agy!Done

\* What such a step does not touch.
LEMMA AgyQuietFrame ==
  ASSUME AgyTypes, AgyQuiet
  PROVE  /\ UNCHANGED <<lines, log, broke, overflowed, initialized, text>>
         /\ eof' \in {eof, TRUE} /\ closed' \in {closed, TRUE}
         /\ recovering' \in BOOLEAN /\ cancelled' \in BOOLEAN /\ stopped' \in {stopped, TRUE}
<1>1. CASE Agy!Spawn \/ Agy!WritePrompt \/ Agy!PollWindow \/ Agy!Cancel \/ Agy!Done
  BY <1>1 DEF AgyTypes, Agy!Spawn, Agy!WritePrompt, Agy!PollWindow, Agy!Cancel, Agy!Done,
     Agy!vars, Agy!process, Agy!stream
<1>2. CASE Agy!Loop \/ Agy!PollFailed \/ Agy!PollWaiting
  BY <1>2 DEF AgyTypes, Agy!Loop, Agy!PollFailed, Agy!PollWaiting, Agy!process, Agy!stream
<1>3. CASE Agy!PollTimesOut \/ Agy!PollEnds
  BY <1>3 DEF AgyTypes, Agy!PollTimesOut, Agy!PollEnds, Agy!StreamTimedOut,
     Agy!StreamCancelled, Agy!StreamCrashed, Agy!LocalEnd
<1>4. QED
  BY <1>1, <1>2, <1>3 DEF AgyQuiet

\* A quiet step ends the run with an error, ...
QuietError ==
    /\ pc # "done" /\ held' = held /\ before' = before
    /\ \/ Aborts("refused") /\ pc = "spawn" /\ stopped' = stopped
       \/ Aborts("cancelled") /\ cancelled
       \/ Aborts("unavailable") /\ pc = "write" /\ stopped' = stopped
       \/ Aborts("unavailable") /\ overflowed /\ stopped' = stopped

\* ... or because the stream has ended or gone silent, ...
QuietEnd ==
    /\ pc = "poll" /\ held = "none" /\ closed' = TRUE /\ stopped' = stopped
    /\ \/ Concludes("Failed")
       \/ Concludes("Cancelled") /\ stopped
       \/ Concludes("Uncertain") /\ ~stopped

\* ... or tells what was held back, ...
QuietTell ==
    /\ pc = "poll" /\ held # "none" /\ outcome' = Agy!Judge(held) /\ held' = "none"
    /\ pc' = "done" /\ UNCHANGED <<child, before, stopped, closed>>

\* ... or starts the child, ...
QuietStart ==
    /\ pc = "spawn" /\ pc' = "write" /\ child' = "live"
    /\ UNCHANGED <<outcome, before, held, stopped, closed, why>>

\* ... or goes on.
QuietMove ==
    /\ UNCHANGED <<child, outcome, before, held, stopped, closed, why>>
    /\ pc' = pc \/ (pc # "done" /\ pc' \in {"loop", "poll"})

\* These are the quiet steps.
LEMMA AgyQuietCases ==
  ASSUME AgyTypes, AgyQuiet
  PROVE  QuietError \/ QuietEnd \/ QuietTell \/ QuietStart \/ QuietMove
<1> USE DEF QuietError, QuietEnd, QuietTell, QuietStart, QuietMove
<1>1. CASE Agy!Spawn
  BY <1>1, AgyAborts DEF Agy!Spawn, Agy!process, Agy!stream
<1>2. CASE Agy!WritePrompt
  BY <1>2, AgyAborts DEF Agy!WritePrompt, Agy!process, Agy!stream
<1>3. CASE Agy!Loop
  <2>1. CASE cancelled /\ stopped' = TRUE /\ Agy!Abort("cancelled")
    <3>1. Aborts("cancelled")
      BY <2>1, AgyAborts
    <3>2. pc = "loop" /\ held' = held /\ before' = before
      BY <1>3 DEF Agy!Loop
    <3>3. QED
      BY <2>1, <3>1, <3>2
  <2>2. CASE ~cancelled /\ pc' = "poll" /\ UNCHANGED <<child, outcome, why, stopped, eof>>
    BY <1>3, <2>2 DEF Agy!Loop, Agy!stream
  <2>3. QED
    BY <1>3, <2>1, <2>2 DEF Agy!Loop
<1>4. CASE Agy!PollFailed
  BY <1>4, AgyAborts DEF Agy!PollFailed, Agy!process, Agy!stream
<1>5. CASE Agy!PollTimesOut
  BY <1>5, AgyEnds DEF Agy!PollTimesOut, Agy!Polling, Agy!StreamTimedOut, Agy!LocalEnd
<1>6. CASE Agy!PollEnds
  <2>1. /\ pc = "poll" /\ held = "none" /\ stopped' = stopped
        /\ \/ stopped /\ Agy!StreamCancelled
           \/ ~stopped /\ Agy!StreamCrashed
    BY <1>6 DEF Agy!PollEnds, Agy!Polling
  <2>2. Agy!StreamCancelled => Concludes("Cancelled") /\ ~closed /\ closed' = TRUE
    BY AgyEnds DEF Agy!StreamCancelled, Agy!LocalEnd
  <2>3. Agy!StreamCrashed => Concludes("Uncertain") /\ ~closed /\ closed' = TRUE
    BY AgyEnds DEF Agy!StreamCrashed, Agy!LocalEnd
  <2>4. QED
    BY <2>1, <2>2, <2>3
<1>7. CASE Agy!PollWaiting
  BY <1>7 DEF Agy!PollWaiting, Agy!stream
<1>8. CASE Agy!PollWindow \/ Agy!Cancel \/ Agy!Done
  BY <1>8 DEF Agy!PollWindow, Agy!Cancel, Agy!Done, Agy!vars, Agy!process, Agy!stream
<1>9. QED
  BY <1>1, <1>2, <1>3, <1>4, <1>5, <1>6, <1>7, <1>8 DEF AgyQuiet

\* Quiet steps keep the phase and the promise.
LEMMA AgyQuietKept ==
  ASSUME AgyTypes, AgyPhase, AgyQuiet
  PROVE  AgyKept
<1>1. /\ UNCHANGED <<lines, log, broke, overflowed, initialized, text>>
      /\ eof' \in BOOLEAN /\ closed' \in BOOLEAN /\ recovering' \in BOOLEAN
      /\ cancelled' \in BOOLEAN /\ stopped' \in BOOLEAN
  BY AgyQuietFrame DEF AgyTypes
<1>2. pc \in {"spawn", "write", "loop", "poll", "done"} /\ "none" \notin Agy!Outcomes
  BY DEF AgyTypes, Agy!Outcomes
<1>3. CASE QuietError
  <2>1. PICK error : Aborts(error)
    BY <1>3 DEF QuietError
  <2>2. outcome = "none"
    BY <1>3 DEF QuietError, AgyPhase
  <2>3. /\ [Agy!Promise!Next]_promise /\ outcome' \in Agy!Outcomes /\ outcome' # "none"
    BY <2>1, <2>2, AbortsPromised
  <2>4. pc' = "done" /\ child' \in {"none", "clean", "lost"}
    BY <2>1 DEF Aborts
  <2>5. AgyPhase'
    BY <2>3, <2>4 DEF AgyPhase
  <2>6. held' = held /\ before' = before
    BY <1>3 DEF QuietError
  <2>7. AgyTypes'
    BY <1>1, <2>3, <2>4, <2>6 DEF AgyTypes
  <2>8. QED
    BY <2>3, <2>5, <2>7 DEF AgyKept
<1>4. CASE QuietEnd
  <2>1. PICK state \in Agy!Outcomes : Concludes(state)
    BY <1>4 DEF QuietEnd, Agy!Outcomes
  <2>2. outcome = "none"
    BY <1>4 DEF QuietEnd, AgyPhase
  <2>3. /\ [Agy!Promise!Next]_promise
        /\ outcome' \in Agy!Outcomes \cup {"none"} /\ (outcome' = "none" <=> pc' # "done")
        /\ held' \in Agy!Outcomes \cup {"none"} /\ pc' \in {"loop", "done"}
        /\ pc' # "done" => Agy!Promise!Confirmed(child')
    BY <2>1, <2>2, ConcludesPromised
  <2>4. child' \in {"none", "clean", "lost"} /\ before' \in BOOLEAN
    BY <2>1 DEF Concludes
  <2>5. stopped' /\ pc' # "done" => initialized'
    BY <1>1, <1>4 DEF QuietEnd, AgyPhase
  <2>6. AgyPhase'
    BY <1>4, <2>3, <2>5 DEF AgyPhase, QuietEnd
  <2>7. AgyTypes'
    BY <1>1, <2>3, <2>4 DEF AgyTypes
  <2>8. QED
    BY <2>3, <2>6, <2>7 DEF AgyKept
<1>5. CASE QuietTell
  <2>1. held \in Agy!Outcomes /\ Agy!Judge(held) \in Agy!Outcomes
    BY <1>5, AgyJudges DEF QuietTell, AgyTypes
  <2>2. outcome = "none" /\ Agy!Promise!Confirmed(child)
    BY <1>5 DEF QuietTell, AgyPhase
  <2>3. child' \in Agy!Promise!Closed(child)
    BY <1>5, <2>2 DEF QuietTell, Agy!Promise!Closed, Agy!Promise!Confirmed
  <2>4. Agy!Promise!Report
    BY <1>5, <2>1, <2>2, <2>3 DEF QuietTell, Agy!Promise!Report
  <2>5. AgyPhase'
    BY <1>2, <1>5, <2>1 DEF QuietTell, AgyPhase
  <2>6. AgyTypes'
    BY <1>1, <1>5, <2>1 DEF QuietTell, AgyTypes
  <2>7. QED
    BY <2>4, <2>5, <2>6 DEF AgyKept, Agy!Promise!Next
<1>6. CASE QuietStart
  <2>1. child = "none" /\ outcome = "none" /\ held = "none" /\ ~stopped
    BY <1>6 DEF QuietStart, AgyPhase
  <2>2. Agy!Promise!Start
    BY <1>6, <2>1 DEF QuietStart, Agy!Promise!Start
  <2>3. AgyPhase'
    BY <1>6, <2>1 DEF QuietStart, AgyPhase
  <2>4. AgyTypes'
    BY <1>1, <1>6 DEF QuietStart, AgyTypes
  <2>5. QED
    BY <2>2, <2>3, <2>4 DEF AgyKept, Agy!Promise!Next
<1>7. CASE QuietMove
  <2>1. AgyPhase'
    BY <1>1, <1>2, <1>7 DEF QuietMove, AgyPhase
  <2>2. AgyTypes'
    BY <1>1, <1>2, <1>7 DEF QuietMove, AgyTypes
  <2>3. QED
    BY <1>7, <2>1, <2>2 DEF AgyKept, QuietMove, promise
<1>8. QED
  BY <1>3, <1>4, <1>5, <1>6, <1>7, AgyQuietCases

\* Quiet steps report only what was observed.
LEMMA AgyQuietSeen ==
  ASSUME AgyTypes, AgyPhase, AgySeen, AgyQuiet
  PROVE  AgySeen'
<1>1. /\ UNCHANGED <<lines, log, broke, overflowed, initialized, text>>
      /\ stopped => stopped'
  <2>1. /\ UNCHANGED <<lines, log, broke, overflowed, initialized, text>>
        /\ stopped' \in {stopped, TRUE}
    BY AgyQuietFrame
  <2>2. stopped \in BOOLEAN /\ stopped' \in BOOLEAN
    BY <2>1 DEF AgyTypes
  <2>3. QED
    BY <2>1, <2>2
<1>2. cancelled => cancelled'
  <2>1. cancelled' \in {cancelled, TRUE}
    BY DEF AgyQuiet, Agy!Spawn, Agy!WritePrompt, Agy!Loop, Agy!PollWindow, Agy!PollFailed,
       Agy!PollWaiting, Agy!PollTimesOut, Agy!PollEnds, Agy!Cancel, Agy!Done, Agy!vars
  <2>2. QED
    BY <2>1
<1>3. (SuccessSaid' <=> SuccessSaid) /\ (\A l : Said(l)' <=> Said(l))
  <2>1. SuccessSaid' <=> SuccessSaid
    BY <1>1 DEF SuccessSaid
  <2>2. ASSUME NEW l PROVE Said(l)' <=> Said(l)
    BY <1>1 DEF Said
  <2>3. QED
    BY <2>1, <2>2
<1>4. CASE QuietError
  <2>1. PICK error : Aborts(error)
    BY <1>4 DEF QuietError
  <2>2. /\ held' = held /\ pc' = "done" /\ outcome' \in {"Cancelled", "Uncertain"}
    BY <1>4, <2>1 DEF QuietError, Aborts
  <2>3. outcome' = "Cancelled" => cancelled'
    BY <1>2, <1>4 DEF QuietError, Aborts
  <2>4. stopped' /\ outcome' = "Uncertain" => child' = "lost" \/ overflowed'
    BY <1>1, <1>4 DEF QuietError, Aborts, AgyPhase
  <2>5. QED
    BY <1>1, <1>2, <1>3, <2>2, <2>3, <2>4 DEF AgySeen
<1>5. CASE QuietEnd
  <2>1. PICK state \in {"Failed", "Cancelled", "Uncertain"} :
          /\ Concludes(state) /\ (state = "Cancelled" => stopped)
          /\ state = "Uncertain" => ~stopped
    BY <1>5 DEF QuietEnd
  <2>2. Agy!Judge(state) = state
    BY <2>1 DEF Agy!Judge
  <2>3. stopped' = stopped /\ held = "none" /\ outcome = "none"
    BY <1>5 DEF QuietEnd, AgyPhase
  <2>4. CASE /\ pc' = "done" /\ outcome' = "Uncertain" /\ held' = held
             /\ child' = "lost" \/ why' = "workspace"
    BY <2>3, <2>4 DEF AgySeen
  <2>5. CASE pc' = "done" /\ outcome' = state /\ held' = held
    BY <2>1, <2>3, <2>5 DEF AgySeen
  <2>6. CASE pc' = "loop" /\ outcome' = outcome /\ held' = state
    BY <2>1, <2>3, <2>6 DEF AgySeen
  <2>7. QED
    BY <2>1, <2>2, <2>4, <2>5, <2>6 DEF Concludes
<1>6. CASE QuietTell
  <2>1. held \in Agy!Outcomes /\ held' = "none" /\ outcome' = Agy!Judge(held) /\ pc' = "done"
        /\ pc # "done" /\ stopped' = stopped
    BY <1>6 DEF QuietTell, AgyTypes
  <2>2. /\ outcome' = "Succeeded" => held = "Succeeded" /\ text = "some"
        /\ outcome' \notin {"Succeeded", "Failed"} => outcome' = held
    BY <2>1, AgyJudges
  <2>3. QED
    BY <1>2, <1>3, <2>1, <2>2 DEF AgySeen
<1>7. CASE QuietStart \/ QuietMove
  <2>1. UNCHANGED <<outcome, held, stopped, why>> /\ (child' = child \/ outcome = "none")
        /\ (pc' # "done" => pc # "done")
    BY <1>7 DEF QuietStart, QuietMove, AgyPhase
  <2>2. QED
    BY <1>1, <1>2, <1>3, <2>1 DEF AgySeen
<1>8. QED
  BY <1>4, <1>5, <1>6, <1>7, AgyQuietCases

\* What the words of a result line stand for.
LEMMA StatusFacts ==
  ASSUME NEW l \in DOMAIN Agy!Statuses
  PROVE  /\ Agy!Statuses[l] \in Agy!Outcomes /\ l # "bad"
         /\ Agy!Statuses[l] = "Succeeded" => l \in {"SUCCESS", "DENIED"}
         /\ Agy!Statuses[l] = "Blocked" => l = "WAITING"
         /\ Agy!Statuses[l] = "Cancelled" => l = "CANCELED"
         /\ Agy!Statuses[l] = "Uncertain" => l = "RUNNING"
BY DEF Agy!Statuses, Agy!Outcomes

\* What a poll that finds a line does not touch.
LEMMA PollLineFrame ==
  ASSUME AgyTypes, Agy!PollLine
  PROVE  /\ pc = "poll" /\ held = "none" /\ ~closed /\ lines # <<>> /\ lines' = Tail(lines)
         /\ UNCHANGED <<cancelled, overflowed, recovering, stopped, log, broke>>
         /\ eof' \in BOOLEAN /\ (eof => eof')
         /\ lines' \in Seq(Agy!Lines) /\ Head(lines) \in Agy!Lines
<1>1. /\ pc = "poll" /\ held = "none" /\ ~closed /\ lines # <<>> /\ lines' = Tail(lines)
      /\ UNCHANGED <<cancelled, overflowed, recovering, stopped, log, broke>>
      /\ eof' = (eof \/ child' # "live")
  BY DEF Agy!PollLine, Agy!Polling, Agy!Consume
<1>2. lines' \in Seq(Agy!Lines) /\ Head(lines) \in Agy!Lines
  <2>1. lines \in Seq(Agy!Lines) /\ lines # <<>>
    BY <1>1 DEF AgyTypes
  <2>2. Tail(lines) \in Seq(Agy!Lines) /\ Head(lines) \in Agy!Lines
    BY <2>1, HeadTailProperties
  <2>3. QED
    BY <1>1, <2>2
<1>3. eof \in BOOLEAN
  BY DEF AgyTypes
<1>4. eof' \in BOOLEAN /\ (eof => eof')
  BY <1>1, <1>3
<1>5. QED
  BY <1>1, <1>2, <1>4

\* What the stream makes of the line.
TakesInit ==
    /\ Head(lines) = "init" /\ initialized' = TRUE
    /\ pc' = "loop" /\ UNCHANGED <<child, outcome, why, closed, text, before, held>>
TakesStep ==
    /\ Head(lines) = "step" /\ initialized /\ text' \in {"none", "some", "overflowed"}
    /\ pc' \in {"poll", "loop"}
    /\ UNCHANGED <<child, outcome, why, initialized, closed, before, held>>
TakesResult(l) ==
    /\ l = Head(lines) /\ closed' = TRUE /\ UNCHANGED <<initialized, text>>
    /\ Concludes(IF l = "DENIED" /\ text # "some" THEN "Failed" ELSE Agy!Statuses[l])
TakesError(error) ==
    /\ Aborts(error) /\ UNCHANGED <<closed, text, before, held>> /\ initialized' \in BOOLEAN
    /\ error = "store" => ~initialized
    /\ error = "drift" =>
         \/ Head(lines) = "bad"
         \/ Head(lines) = "init" /\ initialized
         \/ Head(lines) \notin {"init", "ERROR"} /\ ~initialized

\* These are the polls that find a line.
LEMMA PollLineCases ==
  ASSUME AgyTypes, Agy!PollLine
  PROVE  \/ TakesInit \/ TakesStep
         \/ \E l \in DOMAIN Agy!Statuses : TakesResult(l)
         \/ TakesError("store") \/ TakesError("drift")
<1>1. CASE Head(lines) = "init" /\ Agy!ConsumeInit
  <2>1. CASE pc' = "loop" /\ UNCHANGED <<child, outcome, why>>
    BY <1>1, <2>1 DEF Agy!ConsumeInit, TakesInit
  <2>2. CASE Agy!Abort("store")
    BY <1>1, <2>2, AgyAborts DEF Agy!ConsumeInit, TakesError
  <2>3. QED
    BY <1>1, <2>1, <2>2 DEF Agy!ConsumeInit
<1>2. CASE Head(lines) = "step" /\ Agy!ConsumeStep
  BY <1>2 DEF Agy!ConsumeStep, TakesStep, AgyTypes
<1>3. CASE Head(lines) \in DOMAIN Agy!Statuses /\ Agy!ConsumeResult(Head(lines))
  BY <1>3, AgyEnds DEF Agy!ConsumeResult, TakesResult
<1>4. CASE Agy!ConsumeDrift(Head(lines))
  <2>1. Aborts("drift") /\ UNCHANGED <<initialized, closed, text, before, held>>
    BY <1>4, AgyAborts DEF Agy!ConsumeDrift, Agy!stream
  <2>2. initialized' \in BOOLEAN
    BY <2>1 DEF AgyTypes
  <2>3. QED
    BY <1>4, <2>1, <2>2 DEF Agy!ConsumeDrift, TakesError
<1>5. QED
  BY <1>1, <1>2, <1>3, <1>4 DEF Agy!PollLine, Agy!Consume

\* A poll that finds a line keeps the phase and the promise.
LEMMA PollLineKept ==
  ASSUME AgyTypes, AgyPhase, Agy!PollLine
  PROVE  AgyKept
<1>1. /\ pc = "poll" /\ held = "none" /\ ~closed /\ outcome = "none"
      /\ UNCHANGED <<cancelled, overflowed, recovering, stopped, log, broke>>
      /\ eof' \in BOOLEAN /\ lines' \in Seq(Agy!Lines)
  BY PollLineFrame DEF AgyPhase
<1>2. CASE TakesInit
  <2>1. AgyTypes'
    BY <1>1, <1>2 DEF AgyTypes, TakesInit
  <2>2. AgyPhase'
    BY <1>1, <1>2 DEF AgyPhase, TakesInit
  <2>3. QED
    BY <1>2, <2>1, <2>2 DEF AgyKept, TakesInit, promise
<1>3. CASE TakesStep
  <2>1. AgyTypes'
    BY <1>1, <1>3 DEF AgyTypes, TakesStep
  <2>2. AgyPhase'
    BY <1>1, <1>3 DEF AgyPhase, TakesStep
  <2>3. QED
    BY <1>3, <2>1, <2>2 DEF AgyKept, TakesStep, promise
<1>4. CASE \E l \in DOMAIN Agy!Statuses : TakesResult(l)
  <2>1. PICK l \in DOMAIN Agy!Statuses : TakesResult(l)
    BY <1>4
  <2>2. PICK state \in Agy!Outcomes : Concludes(state)
    <3>1. "Failed" \in Agy!Outcomes
      BY DEF Agy!Outcomes
    <3>2. QED
      BY <2>1, <3>1, StatusFacts DEF TakesResult
  <2>3. /\ [Agy!Promise!Next]_promise
        /\ outcome' \in Agy!Outcomes \cup {"none"} /\ (outcome' = "none" <=> pc' # "done")
        /\ held' \in Agy!Outcomes \cup {"none"} /\ pc' \in {"loop", "done"}
        /\ pc' # "done" => Agy!Promise!Confirmed(child')
    BY <1>1, <2>2, ConcludesPromised
  <2>4. /\ child' \in {"none", "clean", "lost"} /\ before' \in BOOLEAN
        /\ closed' = TRUE /\ UNCHANGED <<initialized, text>>
    BY <2>1, <2>2 DEF Concludes, TakesResult
  <2>5. AgyPhase'
    BY <1>1, <2>3, <2>4 DEF AgyPhase
  <2>6. AgyTypes'
    BY <1>1, <2>3, <2>4 DEF AgyTypes
  <2>7. QED
    BY <2>3, <2>5, <2>6 DEF AgyKept
<1>5. CASE TakesError("store") \/ TakesError("drift")
  <2>1. PICK error : Aborts(error)
    BY <1>5 DEF TakesError
  <2>2. /\ [Agy!Promise!Next]_promise /\ outcome' \in Agy!Outcomes /\ outcome' # "none"
    BY <1>1, <2>1, AbortsPromised
  <2>3. /\ pc' = "done" /\ child' \in {"none", "clean", "lost"}
        /\ UNCHANGED <<closed, text, before, held>> /\ initialized' \in BOOLEAN
    BY <1>5, <2>1 DEF Aborts, TakesError
  <2>4. AgyPhase'
    BY <2>2, <2>3 DEF AgyPhase
  <2>5. AgyTypes'
    BY <1>1, <2>2, <2>3 DEF AgyTypes
  <2>6. QED
    BY <2>2, <2>4, <2>5 DEF AgyKept
<1>6. QED
  BY <1>2, <1>3, <1>4, <1>5, PollLineCases

\* The reader moves on by the line it took.
LEMMA PollLineReads ==
  ASSUME AgyTypes, Agy!PollLine, NEW c, Reading(c), pc' # "done"
  PROVE  Reading(c + 1)'
<1>1. /\ lines # <<>> /\ lines' = Tail(lines) /\ UNCHANGED <<log, broke, overflowed>>
      /\ eof => eof'
  BY PollLineFrame
<1>2. Waiting(c) /\ c \in 0..Len(log) /\ Len(log) \in Nat
  BY LenProperties DEF Reading, Waiting, AgyTypes
<1>3. Head(lines) # "bad" => Waiting(c + 1)' /\ c + 1 \in 1..Len(log) /\ Head(lines) = log[c + 1]
  BY <1>1, <1>2, TakeLine, NextLine
<1>4. InitIn(c) => InitIn(c + 1)'
  BY <1>1, <1>2 DEF InitIn
<1>5. AnswerIn(c) => AnswerIn(c + 1)'
  BY <1>1, <1>2 DEF AnswerIn
<1>6. CASE TakesInit
  <2>1. Head(lines) = "init" /\ initialized' = TRUE /\ text' = text /\ closed' = closed
    BY <1>6 DEF TakesInit
  <2>2. InitIn(c + 1)'
    BY <1>1, <1>2, <1>3, <2>1 DEF InitIn
  <2>3. QED
    BY <1>3, <1>5, <2>1, <2>2 DEF Reading
<1>7. CASE TakesStep
  <2>1. Head(lines) = "step" /\ initialized /\ initialized' = initialized
    BY <1>7 DEF TakesStep
  <2>2. InitIn(c)
    BY <2>1 DEF Reading
  <2>3. PICK i \in 1..c : log[i] = "init"
    BY <2>2 DEF InitIn
  <2>4. i \in 1..c + 1 /\ c + 1 \in 1..c + 1 /\ i < c + 1
    BY <1>2
  <2>5. AnswerIn(c + 1)'
    BY <1>1, <1>3, <2>1, <2>3, <2>4 DEF AnswerIn
  <2>6. QED
    BY <1>3, <1>4, <2>1, <2>2, <2>5 DEF Reading
<1>8. CASE \E l \in DOMAIN Agy!Statuses : TakesResult(l)
  <2>1. PICK l \in DOMAIN Agy!Statuses : TakesResult(l)
    BY <1>8
  <2>2. Head(lines) # "bad" /\ closed' = TRUE /\ UNCHANGED <<initialized, text>>
    BY <2>1, StatusFacts DEF TakesResult
  <2>3. QED
    BY <1>3, <1>4, <1>5, <2>2 DEF Reading
<1>9. CASE TakesError("store") \/ TakesError("drift")
  BY <1>9 DEF TakesError, Aborts
<1>10. QED
  BY <1>6, <1>7, <1>8, <1>9, PollLineCases

\* A poll that finds a line reports only what was observed, and calls it drift only
\* when the child has broken the protocol.
LEMMA PollLineSeen ==
  ASSUME AgyTypes, AgyPhase, AgyProper, AgySeen, Agy!PollLine, NEW c, Reading(c)
  PROVE  AgySeen'
<1>1. /\ pc = "poll" /\ held = "none" /\ outcome = "none" /\ ~closed /\ lines # <<>>
      /\ UNCHANGED <<cancelled, overflowed, stopped, log, broke>>
  BY PollLineFrame DEF AgyPhase
<1>2. Waiting(c) /\ c \in 0..Len(log) /\ Len(log) \in Nat
  BY LenProperties DEF Reading, Waiting, AgyTypes
<1>3. /\ Head(lines) # "bad" => c + 1 \in 1..Len(log) /\ Head(lines) = log[c + 1]
      /\ Head(lines) = "bad" => broke \/ (c + 1 \in 1..Len(log) /\ Head(lines) = log[c + 1])
  BY <1>1, <1>2, NextLine
<1>4. /\ SuccessSaid' <=> SuccessSaid
      /\ \A l : Said(l)' <=> Said(l)
  <2>1. SuccessSaid' <=> SuccessSaid
    BY <1>1 DEF SuccessSaid
  <2>2. ASSUME NEW l PROVE Said(l)' <=> Said(l)
    BY <1>1 DEF Said
  <2>3. QED
    BY <2>1, <2>2
<1>5. CASE TakesInit \/ TakesStep
  BY <1>1, <1>5 DEF TakesInit, TakesStep, AgySeen
<1>6. CASE \E l \in DOMAIN Agy!Statuses : TakesResult(l)
  <2>1. PICK l \in DOMAIN Agy!Statuses : TakesResult(l)
    BY <1>6
  <2> DEFINE state == IF l = "DENIED" /\ text # "some" THEN "Failed" ELSE Agy!Statuses[l]
  <2>2. l = Head(lines) /\ l # "bad" /\ Concludes(state) /\ text' = text
    BY <2>1, StatusFacts DEF TakesResult
  <2>3. c + 1 \in 1..Len(log) /\ log[c + 1] = l
    BY <1>3, <2>2
  <2>4. /\ state \in Agy!Outcomes
        /\ state = "Succeeded" => l \in {"SUCCESS", "DENIED"}
        /\ state = "Blocked" => l = "WAITING"
        /\ state = "Cancelled" => l = "CANCELED"
        /\ state = "Uncertain" => l = "RUNNING"
    BY StatusFacts DEF Agy!Outcomes
  <2> HIDE DEF state
  <2>5. /\ state = "Blocked" => Said("WAITING")
        /\ state = "Cancelled" => Said("CANCELED")
        /\ state = "Uncertain" => Said("RUNNING")
    BY <2>3, <2>4 DEF Said
  <2>6. state = "Succeeded" /\ text = "some" => SuccessSaid
    <3> SUFFICES ASSUME state = "Succeeded", text = "some" PROVE SuccessSaid
      OBVIOUS
    <3>1. AnswerIn(c)
      BY DEF Reading
    <3>2. PICK i \in 1..c, j \in 1..c : i < j /\ log[i] = "init" /\ log[j] = "step"
      BY <3>1 DEF AnswerIn
    <3>3. i \in 1..Len(log) /\ j \in 1..Len(log) /\ j < c + 1
      BY <1>2
    <3>4. QED
      BY <2>3, <2>4, <3>2, <3>3 DEF SuccessSaid
  <2>7. /\ Agy!Judge(state) = "Succeeded" => state = "Succeeded" /\ text = "some"
        /\ Agy!Judge(state) \notin {"Succeeded", "Failed"} => Agy!Judge(state) = state
    BY <2>4, AgyJudges
  <2>8. CASE /\ pc' = "done" /\ outcome' = "Uncertain" /\ held' = held
             /\ child' = "lost" \/ why' = "workspace"
    BY <1>1, <2>8 DEF AgySeen
  <2>9. CASE pc' = "done" /\ outcome' = Agy!Judge(state) /\ held' = held
    BY <1>1, <1>4, <2>5, <2>6, <2>7, <2>9 DEF AgySeen
  <2>10. CASE pc' = "loop" /\ outcome' = outcome /\ held' = state
    BY <1>1, <1>4, <2>2, <2>5, <2>6, <2>10 DEF AgySeen
  <2>11. QED
    BY <2>2, <2>8, <2>9, <2>10 DEF Concludes
<1>7. CASE TakesError("store")
  <2>1. ~stopped /\ pc' = "done" /\ outcome' = "Uncertain" /\ held' = held
    BY <1>1, <1>7 DEF TakesError, Aborts, AgyPhase
  <2>2. QED
    BY <1>1, <2>1 DEF AgySeen
<1>8. CASE TakesError("drift")
  <2>1. pc' = "done" /\ outcome' = "Uncertain" /\ held' = held
    BY <1>8 DEF TakesError, Aborts
  <2>2. broke
    <3> SUFFICES ASSUME ~broke PROVE FALSE
      OBVIOUS
    <3>1. c + 1 \in 1..Len(log) /\ Head(lines) = log[c + 1]
      BY <1>3
    <3>2. IF c + 1 = 1 THEN Head(lines) \in {"init", "ERROR"}
          ELSE Head(lines) \in {"step"} \cup DOMAIN Agy!Statuses
      BY <3>1 DEF AgyProper
    <3>3. "bad" \notin DOMAIN Agy!Statuses /\ "init" \notin DOMAIN Agy!Statuses
      BY DEF Agy!Statuses
    <3>4. initialized => c + 1 # 1
      BY <1>2 DEF Reading, InitIn
    <3>5. ~initialized => c + 1 = 1
      BY <1>1, <1>2 DEF Reading
    <3>6. QED
      BY <1>8, <3>2, <3>3, <3>4, <3>5 DEF TakesError
  <2>3. QED
    BY <1>1, <2>1, <2>2 DEF AgySeen
<1>9. QED
  BY <1>5, <1>6, <1>7, <1>8, PollLineCases

\* The child writes a line: what it wrote before stays, and the log is proper as
\* long as every line was.
LEMMA WriteLineKeeps ==
  ASSUME AgyTypes, AgyPhase, AgyProper, AgySeen, Agy!WriteLine
  PROVE  /\ AgyKept /\ AgyProper' /\ AgySeen'
         /\ \A c : Reading(c) => Reading(c)'
<1>1. PICK l \in Agy!Lines :
        /\ log' = Append(log, l)
        /\ broke' = (broke \/ ~Agy!Proper(l))
        /\ \/ lines' = Append(lines, l) /\ UNCHANGED overflowed
           \/ overflowed' = TRUE /\ UNCHANGED lines
  BY DEF Agy!WriteLine
<1>2. /\ ~eof /\ ~overflowed /\ pc # "done"
      /\ UNCHANGED <<pc, cancelled, child, eof, recovering, before, stopped, held,
                     initialized, closed, text, outcome, why>>
  BY DEF Agy!WriteLine, Agy!process, Agy!stream
<1>3. /\ log' \in Seq(Agy!Lines) /\ Len(log) \in Nat /\ Len(log') = Len(log) + 1
      /\ log'[Len(log) + 1] = l
      /\ \A k \in 1..Len(log) : k \in 1..Len(log') /\ log'[k] = log[k]
  BY <1>1, AppendProperties, LenProperties DEF AgyTypes
<1>4. broke \in BOOLEAN /\ broke' \in BOOLEAN /\ (broke => broke')
  BY <1>1 DEF AgyTypes
<1>5. AgyTypes'
  <2>1. lines' \in Seq(Agy!Lines) /\ overflowed' \in BOOLEAN
    <3>1. lines \in Seq(Agy!Lines) /\ overflowed \in BOOLEAN
      BY DEF AgyTypes
    <3>2. CASE lines' = Append(lines, l) /\ UNCHANGED overflowed
      BY <3>1, <3>2, AppendProperties
    <3>3. CASE overflowed' = TRUE /\ UNCHANGED lines
      BY <3>1, <3>3
    <3>4. QED
      BY <1>1, <3>2, <3>3
  <2>2. QED
    BY <1>2, <1>3, <1>4, <2>1 DEF AgyTypes
<1>6. AgyPhase' /\ [Agy!Promise!Next]_promise
  BY <1>2 DEF AgyPhase, promise
<1>7. AgyProper'
  <2> SUFFICES ASSUME ~broke', NEW k \in 1..Len(log')
               PROVE  IF k = 1 THEN log'[k] \in {"init", "ERROR"}
                      ELSE log'[k] \in {"step"} \cup DOMAIN Agy!Statuses
    BY DEF AgyProper
  <2>1. ~broke /\ Agy!Proper(l)
    BY <1>1, <1>4
  <2>2. CASE k \in 1..Len(log)
    BY <1>3, <2>1, <2>2 DEF AgyProper
  <2>3. CASE k = Len(log) + 1
    <3>1. log = <<>> <=> Len(log) = 0
      BY EmptySeq DEF AgyTypes
    <3>2. IF Len(log) = 0 THEN l \in {"init", "ERROR"}
          ELSE l \in {"step"} \cup DOMAIN Agy!Statuses
      BY <2>1, <3>1 DEF Agy!Proper
    <3>3. QED
      BY <1>3, <2>3, <3>2
  <2>4. QED
    BY <1>3, <2>2, <2>3
<1>8. /\ SuccessSaid => SuccessSaid'
      /\ \A m : Said(m) => Said(m)'
  <2>1. SuccessSaid => SuccessSaid'
    BY <1>3 DEF SuccessSaid
  <2>2. ASSUME NEW m PROVE Said(m) => Said(m)'
    BY <1>3 DEF Said
  <2>3. QED
    BY <2>1, <2>2
<1>9. AgySeen'
  <2>1. outcome = "none"
    BY <1>2 DEF AgyPhase
  <2>2. QED
    BY <1>2, <1>8, <2>1 DEF AgySeen
<1>10. ASSUME NEW c, Reading(c) PROVE Reading(c)'
  <2>1. Waiting(c)'
    <3>1. Waiting(c)
      BY <1>10 DEF Reading
    <3>2. QED
      BY <1>1, <1>2, <1>4, <3>1, WriteWaiting
  <2>2. c \in 0..Len(log)
    BY <1>10 DEF Reading, Waiting
  <2>3. \A k \in 1..c : log'[k] = log[k]
    BY <1>3, <2>2
  <2>4. (InitIn(c) => InitIn(c)') /\ (AnswerIn(c) => AnswerIn(c)')
    BY <2>3 DEF InitIn, AnswerIn
  <2>5. QED
    BY <1>2, <1>10, <2>1, <2>4 DEF Reading
<1>11. QED
  BY <1>5, <1>6, <1>7, <1>9, <1>10 DEF AgyKept

\* The output ends, perhaps in the middle of a line.
Ending ==
    /\ eof' = TRUE /\ log' = log
    /\ \/ UNCHANGED <<lines, broke, overflowed>>
       \/ ~eof /\ ~overflowed /\ Agy!Torn

\* The reader stays where it is, and the log is as proper as before.
LEMMA EndingReads ==
  ASSUME AgyTypes, Ending, UNCHANGED <<initialized, closed, text>>
  PROVE  /\ lines' \in Seq(Agy!Lines) /\ broke' \in BOOLEAN /\ (broke => broke')
         /\ overflowed' = overflowed /\ eof' = TRUE /\ log' = log
         /\ AgyProper => AgyProper'
         /\ \A c : Reading(c) => Reading(c)'
<1>1. CASE UNCHANGED <<lines, broke, overflowed>>
  <2>1. \A c : Reading(c) => Reading(c)'
    BY <1>1, QuietReading DEF Ending
  <2>2. AgyProper => AgyProper'
    BY <1>1 DEF AgyProper, Ending
  <2>3. QED
    BY <1>1, <2>1, <2>2 DEF AgyTypes, Ending
<1>2. CASE ~eof /\ ~overflowed /\ Agy!Torn
  <2>1. /\ lines' \in Seq(Agy!Lines) /\ broke' \in BOOLEAN /\ (broke => broke')
        /\ overflowed' = overflowed
    <3>1. CASE UNCHANGED <<lines, broke, overflowed>>
      BY <3>1 DEF AgyTypes
    <3>2. CASE lines' = Append(lines, "bad") /\ broke' = TRUE /\ UNCHANGED overflowed
      BY <3>2, AppendProperties DEF AgyTypes, Agy!Lines
    <3>3. QED
      BY <1>2, <3>1, <3>2 DEF Agy!Torn
  <2>2. ASSUME NEW c, Reading(c) PROVE Reading(c)'
    <3>1. Waiting(c)'
      BY <1>2, <2>2, TornWaiting DEF Ending, Reading
    <3>2. QED
      BY <2>2, <3>1 DEF Reading, InitIn, AnswerIn, Ending
  <2>3. AgyProper => AgyProper'
    BY <2>1 DEF AgyProper, Ending
  <2>4. QED
    BY <2>1, <2>2, <2>3 DEF Ending
<1>3. QED
  BY <1>1, <1>2 DEF Ending

\* The child ends by itself.
LEMMA ChildEndsKeeps ==
  ASSUME AgyTypes, AgyPhase, AgyProper, AgySeen, Agy!ChildEnds
  PROVE  /\ AgyKept /\ AgyProper' /\ AgySeen'
         /\ \A c : Reading(c) => Reading(c)'
<1>1. /\ Ending /\ pc # "done"
      /\ UNCHANGED <<pc, cancelled, child, recovering, before, stopped, held,
                     initialized, closed, text, outcome, why>>
  BY DEF Agy!ChildEnds, Ending, Agy!process, Agy!stream
<1>2. /\ lines' \in Seq(Agy!Lines) /\ broke' \in BOOLEAN
      /\ overflowed' = overflowed /\ eof' = TRUE /\ log' = log
      /\ AgyProper' /\ \A c : Reading(c) => Reading(c)'
  BY <1>1, EndingReads
<1>3. AgyTypes'
  BY <1>1, <1>2 DEF AgyTypes
<1>4. AgyPhase' /\ [Agy!Promise!Next]_promise
  BY <1>1 DEF AgyPhase, promise
<1>5. AgySeen'
  <2>1. outcome = "none"
    BY <1>1 DEF AgyPhase
  <2>2. QED
    BY <1>1, <1>2, <2>1 DEF AgySeen, SuccessSaid, Said
<1>6. QED
  BY <1>2, <1>3, <1>4, <1>5 DEF AgyKept

\* A cancellation is accepted: the child is shut down before the reader is closed.
LEMMA RequestKeeps ==
  ASSUME AgyTypes, AgyPhase, AgyProper, AgySeen, Agy!RequestCancellation
  PROVE  /\ AgyKept /\ AgyProper' /\ AgySeen'
         /\ \A c : Reading(c) => Reading(c)'
<1>1. /\ Ending /\ pc = "loop" /\ initialized /\ ~closed /\ stopped' = TRUE
      /\ UNCHANGED <<cancelled, recovering, before, held, initialized, closed, text>>
  BY DEF Agy!RequestCancellation, Ending, Agy!stream
<1>2. /\ lines' \in Seq(Agy!Lines) /\ broke' \in BOOLEAN
      /\ overflowed' = overflowed /\ eof' = TRUE /\ log' = log
      /\ AgyProper' /\ \A c : Reading(c) => Reading(c)'
  BY <1>1, EndingReads
<1>3. outcome = "none" /\ held = "none"
  BY <1>1 DEF AgyPhase
<1>4. CASE Agy!Abort("cleanup") /\ child' = "lost"
  <2>1. Aborts("cleanup")
    BY <1>4, AgyAborts
  <2>2. /\ [Agy!Promise!Next]_promise /\ outcome' \in Agy!Outcomes /\ outcome' # "none"
    BY <1>3, <2>1, AbortsPromised
  <2>3. pc' = "done" /\ outcome' = "Uncertain"
    BY <2>1 DEF Aborts
  <2>4. AgyTypes'
    BY <1>1, <1>2, <1>4, <2>2, <2>3 DEF AgyTypes
  <2>5. AgyPhase'
    BY <2>2, <2>3 DEF AgyPhase
  <2>6. AgySeen'
    BY <1>1, <1>3, <1>4, <2>3 DEF AgySeen
  <2>7. QED
    BY <1>2, <2>2, <2>4, <2>5, <2>6 DEF AgyKept
<1>5. CASE /\ child' \in Agy!Promise!Closed(child) /\ Agy!Promise!Confirmed(child')
           /\ UNCHANGED <<pc, outcome, why>>
  <2>1. child' \in {"none", "clean"}
    BY <1>5 DEF Agy!Promise!Confirmed
  <2>2. [Agy!Promise!Next]_promise
    <3>1. child = "live" => Agy!Promise!Close
      BY <1>5 DEF Agy!Promise!Close
    <3>2. child # "live" => child' = child
      BY <1>5 DEF Agy!Promise!Closed
    <3>3. QED
      BY <1>5, <3>1, <3>2 DEF Agy!Promise!Next, promise
  <2>3. AgyTypes'
    BY <1>1, <1>2, <1>5, <2>1 DEF AgyTypes
  <2>4. AgyPhase'
    BY <1>1, <1>3, <1>5 DEF AgyPhase
  <2>5. AgySeen'
    BY <1>1, <1>3, <1>5 DEF AgySeen
  <2>6. QED
    BY <1>2, <2>2, <2>3, <2>4, <2>5 DEF AgyKept
<1>6. QED
  BY <1>4, <1>5 DEF Agy!RequestCancellation

-----------------------------------------------------------------------------
(* The theorems about the Agy adapter.                                     *)

\* Before the child is started nothing was written or noted.
LEMMA AgyStarts == Agy!Init => AgyInv
<1> SUFFICES ASSUME Agy!Init PROVE AgyInv
  OBVIOUS
<1>1. /\ pc = "spawn" /\ child = "none" /\ held = "none" /\ outcome = "none"
      /\ lines = <<>> /\ log = <<>> /\ Len(lines) = 0 /\ Len(log) = 0
      /\ text = "none" /\ initialized = FALSE /\ closed = FALSE /\ stopped = FALSE
  BY DEF Agy!Init
<1>2. AgyTypes
  <2>1. \A S : <<>> \in Seq(S)
    OBVIOUS
  <2>2. QED
    BY <2>1 DEF Agy!Init, AgyTypes
<1>3. AgyPhase
  BY <1>1 DEF AgyPhase
<1>4. AgyProper /\ AgySeen
  BY <1>1 DEF AgyProper, AgySeen
<1>5. Reading(0)
  BY <1>1 DEF Reading, Waiting
<1>6. QED
  BY <1>1, <1>2, <1>3, <1>4, <1>5 DEF AgyInv

\* Every step keeps the invariant and the promise.
LEMMA AgyStep == AgyInv /\ [Agy!Next]_Agy!vars => AgyInv' /\ [Agy!Promise!Next]_promise
<1> SUFFICES ASSUME AgyInv, [Agy!Next]_Agy!vars PROVE AgyInv' /\ [Agy!Promise!Next]_promise
  OBVIOUS
<1>0. /\ AgyTypes /\ AgyPhase /\ AgyProper /\ AgySeen
      /\ pc # "done" => \E c \in 0..Len(log) : Reading(c)
  BY DEF AgyInv
<1>1. ASSUME AgyKept, AgyProper', AgySeen', pc' # "done" => \E c : Reading(c)'
      PROVE  AgyInv' /\ [Agy!Promise!Next]_promise
  <2>1. \A c : Reading(c)' => c \in 0..Len(log')
    BY DEF Reading, Waiting
  <2>2. QED
    BY <1>1, <2>1 DEF AgyKept, AgyInv
<1>2. AgyKept => (pc' # "done" => pc # "done")
  <2>1. outcome # "none" /\ [Agy!Promise!Next]_promise => outcome' = outcome
    BY DEF Agy!Promise!Next, Agy!Promise!Start, Agy!Promise!Close, Agy!Promise!Report, promise
  <2>2. QED
    BY <1>0, <2>1 DEF AgyKept, AgyPhase
<1>3. CASE AgyQuiet
  <2>1. AgyKept /\ AgySeen'
    BY <1>0, <1>3, AgyQuietKept, AgyQuietSeen
  <2>2. /\ UNCHANGED <<lines, log, broke, overflowed, initialized, text>>
        /\ (eof => eof') /\ (closed => closed')
    <3>1. /\ UNCHANGED <<lines, log, broke, overflowed, initialized, text>>
          /\ eof' \in {eof, TRUE} /\ closed' \in {closed, TRUE}
      BY <1>0, <1>3, AgyQuietFrame
    <3>2. eof \in BOOLEAN /\ closed \in BOOLEAN
      BY <1>0 DEF AgyTypes
    <3>3. QED
      BY <3>1, <3>2
  <2>3. AgyProper'
    BY <1>0, <2>2 DEF AgyProper
  <2>4. \A c : Reading(c) => Reading(c)'
    BY <2>2, QuietReading
  <2>5. QED
    BY <1>0, <1>1, <1>2, <2>1, <2>3, <2>4
<1>4. CASE Agy!PollLine
  <2>1. pc # "done"
    BY <1>4 DEF Agy!PollLine, Agy!Polling
  <2>2. PICK c \in 0..Len(log) : Reading(c)
    BY <1>0, <2>1
  <2>3. AgyKept /\ AgySeen'
    BY <1>0, <1>4, <2>2, PollLineKept, PollLineSeen
  <2>4. pc' # "done" => Reading(c + 1)'
    BY <1>0, <1>4, <2>2, PollLineReads
  <2>5. AgyProper'
    <3>1. UNCHANGED <<log, broke>>
      BY <1>0, <1>4, PollLineFrame
    <3>2. QED
      BY <1>0, <3>1 DEF AgyProper
  <2>6. QED
    BY <1>1, <2>3, <2>4, <2>5
<1>5. CASE Agy!RequestCancellation \/ Agy!WriteLine \/ Agy!ChildEnds
  <2>1. /\ AgyKept /\ AgyProper' /\ AgySeen'
        /\ \A c : Reading(c) => Reading(c)'
    BY <1>0, <1>5, RequestKeeps, WriteLineKeeps, ChildEndsKeeps
  <2>2. QED
    BY <1>0, <1>1, <1>2, <2>1
<1>6. CASE UNCHANGED Agy!vars
  <2>1. UNCHANGED <<pc, cancelled, child, lines, overflowed, eof, recovering, before, stopped,
                    held, initialized, closed, text, outcome, log, broke, why>>
    BY <1>6 DEF Agy!vars, Agy!process, Agy!stream
  <2>2. AgyTypes' /\ AgyPhase' /\ AgyProper'
    BY <1>0, <2>1 DEF AgyTypes, AgyPhase, AgyProper
  <2>3. AgySeen'
    BY <1>0, <2>1 DEF AgySeen, SuccessSaid, Said
  <2>4. \A c : Reading(c) => Reading(c)'
    BY <2>1, QuietReading
  <2>5. AgyKept
    BY <2>1, <2>2 DEF AgyKept, promise
  <2>6. QED
    BY <1>0, <1>1, <2>1, <2>2, <2>3, <2>4, <2>5
<1>7. QED
  BY <1>3, <1>4, <1>5, <1>6 DEF AgyQuiet, Agy!Next, Agy!RunThread

\* A run of the Agy adapter never loses its place in the child's output: the lines
\* that wait are the next ones it wrote, what the stream has noted was in the lines
\* before, and a terminal update is held back only when the child is gone.
THEOREM AgyInvariant == Agy!Spec => []AgyInv
BY AgyStarts, AgyStep, PTL DEF Agy!Spec

\* Every outcome of an Agy run has its cause: success an init, an answer and the
\* child's success in this order, a blocked run the child's word, cancellation the
\* token, an accepted request or the child's word; and after an accepted request
\* the outcome is uncertain only for a reason the child or the system gave.
THEOREM AgyOutcomeHasReason == Agy!Spec => []OutcomeHasReason
<1>1. AgyInv => OutcomeHasReason
  <2> SUFFICES ASSUME AgyInv PROVE OutcomeHasReason
    OBVIOUS
  <2>1. log \in Seq(Agy!Lines)
    BY DEF AgyInv, AgyTypes
  <2>2. ASSUME NEW l PROVE Said(l) <=> l \in Range(log)
    BY <2>1, InRange DEF Said
  <2>3. OutcomeWasSaid
    BY <2>2 DEF AgyInv, AgySeen, SuccessSaid, OutcomeWasSaid
  <2>4. StopIsDefinite
    BY <2>2 DEF AgyInv, AgySeen, StopIsDefinite
  <2>5. QED
    BY <2>3, <2>4 DEF OutcomeHasReason
<1>2. QED
  BY <1>1, AgyInvariant, PTL

\* Every step of an Agy run is one AdapterRun allows or changes neither its child
\* nor its outcome.
THEOREM AgyKeepsPromise == Agy!Spec => Agy!Promise!Init /\ [][Agy!Promise!Next]_promise
<1>1. Agy!Init => Agy!Promise!Init
  BY DEF Agy!Init, Agy!Promise!Init
<1>2. QED
  BY <1>1, AgyInvariant, AgyStep, PTL DEF Agy!Spec
=============================================================================
