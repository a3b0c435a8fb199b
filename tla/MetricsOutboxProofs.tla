------------------------ MODULE MetricsOutboxProofs ------------------------
(***************************************************************************)
(* What MetricsOutbox promises for every number of events and processes,    *)
(* every batch size, lease and crash.                                       *)
(***************************************************************************)
EXTENDS MetricsOutbox, FiniteSetTheorems, TLAPS

\* The delays are within the cap, whatever the attempts.
LEMMA BackoffBounded == \A n \in Nat : BackoffFor(n) \in 0 .. BackoffCap
  BY OutboxAssumption DEF BackoffFor, OutboxAssumption

\* The fields of a row have the types of the fields.
LEMMA RowFields ==
  ASSUME NEW r \in Rows
  PROVE  /\ r.payload \in Versions /\ r.status \in {"none", "pending", "sending", "sent"}
         /\ r.attempts \in Attempts /\ r.next \in 0 .. BackoffCap /\ r.lease \in 0 .. Lease
         /\ r.born \in Nat
  BY DEF Rows

\* Zero is a delay, a lease and a count.
LEMMA Zeroes == 0 \in 0 .. BackoffCap /\ 0 \in 0 .. Lease /\ Lease \in 0 .. Lease
                /\ 0 \in Attempts /\ 0 \in Versions
  BY OutboxAssumption DEF OutboxAssumption, Attempts, Versions

\* A new row has the type of a row: its rank is a number because the events are
\* finitely many.
LEMMA NewRowType ==
  ASSUME NEW v \in Versions
  PROVE  /\ NewRow(v) \in Rows
         /\ NewRow(v).payload = v /\ NewRow(v).status = "pending"
  <1>. DEFINE b == Cardinality({e \in Events : row[e].status # "none"})
  <1>1. IsFiniteSet({e \in Events : row[e].status # "none"})
    BY FS_Subset, OutboxAssumption DEF OutboxAssumption
  <1>2. b \in Nat
    BY <1>1, FS_CardinalityType
  <1>3. NewRow(v) = [NoRow EXCEPT !.payload = v, !.status = "pending", !.born = b]
    BY DEF NewRow
  <1>. HIDE DEF b
  <1>4. NoRow \in Rows
    BY Zeroes DEF NoRow, Rows
  <1>. QED BY <1>2, <1>3, <1>4, Zeroes DEF Rows

\* The upsert keeps the type of a row.
LEMMA UpsertedType ==
  ASSUME NEW r \in Rows, NEW v \in Versions
  PROVE  Upserted(r, v) \in Rows
  <1>1. Requeued(r, v) \in Rows
    BY Zeroes DEF Requeued, Rows
  <1>. QED BY <1>1, NewRowType DEF Upserted

\* So does the answer.
LEMMA AnswerType ==
  ASSUME NEW r \in Rows, NEW n \in Attempts
  PROVE  /\ Sent(r) \in Rows /\ Sent(r).payload = r.payload /\ Sent(r).status = "sent"
         /\ Failed(r, n) \in Rows /\ Failed(r, n).payload = r.payload
         /\ Failed(r, n).status = "pending"
  <1>1. n + 1 \in Nat
    BY OutboxAssumption DEF Attempts, OutboxAssumption
  <1>. DEFINE d == BackoffFor(n + 1)
              a == IF r.attempts < MaxAttempts THEN r.attempts + 1 ELSE r.attempts
  <1>2. d \in 0 .. BackoffCap
    BY <1>1, BackoffBounded
  <1>3. a \in Attempts
    BY RowFields, OutboxAssumption DEF Attempts, OutboxAssumption
  <1>4. Failed(r, n) = [r EXCEPT !.status = "pending", !.lease = 0, !.attempts = a, !.next = d]
    BY RowFields DEF Failed
  <1>. HIDE DEF d, a
  <1>5. Failed(r, n) \in Rows
    BY <1>2, <1>3, <1>4, Zeroes DEF Rows
  <1>6. Failed(r, n).payload = r.payload /\ Failed(r, n).status = "pending"
    BY <1>4 DEF Rows
  <1>7. Sent(r) \in Rows
    BY Zeroes DEF Sent, Rows
  <1>8. Sent(r).payload = r.payload /\ Sent(r).status = "sent"
    BY DEF Sent, Rows
  <1>. QED BY <1>5, <1>6, <1>7, <1>8

\* And so do time, a reset and a claim.
LEMMA UpdateType ==
  ASSUME NEW r \in Rows
  PROVE  /\ [r EXCEPT !.next = Elapse(@), !.lease = Elapse(@)] \in Rows
         /\ [r EXCEPT !.next = 0] \in Rows
         /\ [r EXCEPT !.status = "sending", !.lease = Lease] \in Rows
  <1>1. Elapse(r.next) \in 0 .. BackoffCap /\ Elapse(r.lease) \in 0 .. Lease
    BY RowFields, OutboxAssumption DEF Elapse, OutboxAssumption
  <1>2. [r EXCEPT !.next = Elapse(@), !.lease = Elapse(@)] \in Rows
    BY <1>1 DEF Rows
  <1>3. [r EXCEPT !.next = 0] \in Rows
    BY Zeroes DEF Rows
  <1>4. [r EXCEPT !.status = "sending", !.lease = Lease] \in Rows
    BY Zeroes DEF Rows
  <1>. QED BY <1>2, <1>3, <1>4

\* A process that has an answer has it for a row it claimed.
AnsweredIsClaimed == \A p \in Procs : proc[p] = "ack" => posted[p] \in batch[p]

\* The types of TypeOK hold of the initial state.
THEOREM TypeCorrect == Init => TypeOK /\ AnsweredIsClaimed
  BY OutboxAssumption
     DEF Init, TypeOK, AnsweredIsClaimed, NoRow, NothingSeen, Rows, Versions, Attempts,
         OutboxAssumption

\* Every step keeps them.
LEMMA TypeStep == TypeOK /\ AnsweredIsClaimed /\ [Next]_vars => TypeOK'
  <1>. SUFFICES ASSUME TypeOK, AnsweredIsClaimed, [Next]_vars PROVE TypeOK'
    OBVIOUS
  <1>. USE OutboxAssumption DEF history, StillOutlived
  <1>1. CASE Tick
    <2>1. row' \in [Events -> Rows]
      BY <1>1, UpdateType DEF Tick, TypeOK
    <2>. QED BY <1>1, <2>1 DEF Tick, TypeOK
  <1>2. ASSUME NEW e \in Events, Grow(e) PROVE TypeOK'
    BY <1>2 DEF Grow, TypeOK, Versions, OutboxAssumption
  <1>3. CASE ArriveLate
    BY <1>3 DEF ArriveLate, Upsert, TypeOK, Claims
  <1>4. ASSUME NEW p \in Procs, StartIngest(p) PROVE TypeOK'
    BY <1>4 DEF StartIngest, Goto, TypeOK
  <1>5. ASSUME NEW p \in Procs, StartDrain(p) PROVE TypeOK'
    BY <1>5 DEF StartDrain, Goto, TypeOK
  <1>6. ASSUME NEW p \in Procs, Enqueue(p) PROVE TypeOK'
    <2>1. PICK e \in Events :
            /\ \/ row' = [row EXCEPT ![e] = Upserted(@, seen[p][e])]
               \/ UNCHANGED row
            /\ seen' = [seen EXCEPT ![p][e] = 0]
            /\ overtaken' \in SUBSET Events
            /\ UNCHANGED <<truth, proc, batch, posted, answer, late, backend, crashes, outlived>>
      BY <1>6 DEF Enqueue, TypeOK
    <2>2. row[e] \in Rows /\ seen[p] \in [Events -> Versions] /\ seen[p][e] \in Versions
      BY DEF TypeOK
    <2>3. Upserted(row[e], seen[p][e]) \in Rows
      BY <2>2, UpsertedType
    <2>4. row' \in [Events -> Rows]
      BY <2>1, <2>3 DEF TypeOK
    <2>5. seen' \in [Procs -> [Events -> Versions]]
      BY <2>1, <2>2 DEF TypeOK, Versions, OutboxAssumption
    <2>. QED BY <2>1, <2>4, <2>5 DEF TypeOK
  <1>7. ASSUME NEW p \in Procs, EndEnqueue(p) PROVE TypeOK'
    BY <1>7 DEF EndEnqueue, Goto, TypeOK
  <1>8. ASSUME NEW p \in Procs, ResetBackoff(p) PROVE TypeOK'
    <2>1. \A e \in Events : row[e] \in Rows /\ [row[e] EXCEPT !.next = 0] \in Rows
      BY UpdateType DEF TypeOK
    <2>2. row' \in [Events -> Rows]
      BY <1>8, <2>1 DEF ResetBackoff
    <2>. QED BY <1>8, <2>2 DEF ResetBackoff, Goto, TypeOK
  <1>9. ASSUME NEW p \in Procs, Claim(p) PROVE TypeOK'
    <2>1. PICK S \in SUBSET Events :
            /\ row' = [e \in Events |->
                  IF e \in S THEN [row[e] EXCEPT !.status = "sending", !.lease = Lease]
                  ELSE row[e]]
            /\ batch' = [batch EXCEPT ![p] =
                  {[event |-> e, payload |-> row[e].payload, attempts |-> row[e].attempts] : e \in S}]
            /\ Goto(p, IF S = {} THEN "idle" ELSE "post")
            /\ UNCHANGED <<truth, seen, posted, answer, late, backend, crashes, history>>
      BY <1>9 DEF Claim
    <2>2. \A e \in Events :
             /\ row[e] \in Rows
             /\ [row[e] EXCEPT !.status = "sending", !.lease = Lease] \in Rows
      BY UpdateType DEF TypeOK
    <2>3. row' \in [Events -> Rows]
      BY <2>1, <2>2
    <2>4. \A e \in S : [event |-> e, payload |-> row[e].payload, attempts |-> row[e].attempts] \in Claims
      BY <2>2 DEF Claims, Rows
    <2>5. batch' \in [Procs -> SUBSET Claims]
      BY <2>1, <2>4 DEF TypeOK
    <2>. QED BY <2>1, <2>3, <2>5 DEF Goto, TypeOK
  <1>10. ASSUME NEW p \in Procs, NEW e \in Events, PostAccepted(p, e) PROVE TypeOK'
    BY <1>10 DEF PostAccepted, Answered, Upsert, Goto, TypeOK, Claims
  <1>11. ASSUME NEW p \in Procs, PostRefused(p) PROVE TypeOK'
    BY <1>11 DEF PostRefused, Answered, Goto, TypeOK, Claims
  <1>12. ASSUME NEW p \in Procs, PostUnanswered(p) PROVE TypeOK'
    BY <1>12 DEF PostUnanswered, Answered, Upsert, Goto, TypeOK, Claims
  <1>13. ASSUME NEW p \in Procs, Ack(p) PROVE TypeOK'
    <2>. DEFINE r == posted[p]
    <2>1. /\ row' = [row EXCEPT ![r.event] = IF answer[p] THEN Sent(@) ELSE Failed(@, r.attempts)]
          /\ batch' = [batch EXCEPT ![p] = @ \ {r}]
          /\ posted' = [posted EXCEPT ![p] = NoClaim]
          /\ answer' = [answer EXCEPT ![p] = FALSE]
          /\ Goto(p, IF batch[p] = {r} THEN "idle" ELSE "post")
          /\ outlived' = StillOutlived
          /\ UNCHANGED <<truth, seen, late, backend, crashes, overtaken>>
      BY <1>13 DEF Ack
    <2>2. row' \in [Events -> Rows]
      <3>1. r \in Claims
        BY <1>13 DEF Ack, AnsweredIsClaimed, TypeOK
      <3>2. r.event \in Events /\ r.attempts \in Attempts
        BY <3>1 DEF Claims
      <3>3. Sent(row[r.event]) \in Rows /\ Failed(row[r.event], r.attempts) \in Rows
        BY <3>2, AnswerType DEF TypeOK
      <3>. QED BY <2>1, <3>2, <3>3 DEF TypeOK
    <2>. QED BY <2>1, <2>2 DEF Goto, TypeOK
  <1>14. ASSUME NEW p \in Procs, Crash(p) \/ AckRaises(p) PROVE TypeOK'
    <2>1. Quits(p) /\ (UNCHANGED crashes \/ (crashes < MaxCrashes /\ crashes' = crashes + 1))
      BY <1>14 DEF Crash, AckRaises
    <2>2. crashes' \in 0 .. MaxCrashes
      BY <2>1 DEF TypeOK, OutboxAssumption
    <2>3. NothingSeen \in [Events -> Versions]
      BY Zeroes DEF NothingSeen
    <2>. QED BY <2>1, <2>2, <2>3 DEF Quits, Goto, TypeOK
  <1>15. CASE UNCHANGED vars
    BY <1>15 DEF vars, TypeOK
  <1>. QED
    BY <1>1, <1>2, <1>3, <1>4, <1>5, <1>6, <1>7, <1>8, <1>9, <1>10, <1>11, <1>12, <1>13, <1>14, <1>15
       DEF Next, Step, Post

\* The answer is for a claimed row after every step: only a POST brings a process
\* to "ack", and nobody else touches its batch.
LEMMA AnsweredStep == TypeOK /\ AnsweredIsClaimed /\ [Next]_vars => AnsweredIsClaimed'
  <1>. SUFFICES ASSUME TypeOK, AnsweredIsClaimed, [Next]_vars PROVE AnsweredIsClaimed'
    OBVIOUS
  <1>1. CASE UNCHANGED <<proc, batch, posted>>
    BY <1>1 DEF AnsweredIsClaimed
  <1>2. ASSUME NEW p \in Procs, \/ StartIngest(p) \/ StartDrain(p) \/ EndEnqueue(p)
                                \/ ResetBackoff(p) \/ Claim(p) \/ Ack(p)
                                \/ AckRaises(p) \/ Crash(p)
        PROVE  AnsweredIsClaimed'
    <2>1. proc' = [proc EXCEPT ![p] = proc'[p]] /\ proc'[p] # "ack"
      BY <1>2 DEF StartIngest, StartDrain, EndEnqueue, ResetBackoff, Claim, Ack, AckRaises, Crash,
                  Quits, Goto, TypeOK
    <2>2. \A q \in Procs : q # p => batch'[q] = batch[q] /\ posted'[q] = posted[q]
      BY <1>2 DEF StartIngest, StartDrain, EndEnqueue, ResetBackoff, Claim, Ack, AckRaises, Crash,
                  Quits, TypeOK
    <2>. QED BY <2>1, <2>2 DEF AnsweredIsClaimed, TypeOK
  <1>3. ASSUME NEW p \in Procs, Post(p) PROVE AnsweredIsClaimed'
    <2>1. PICK r \in batch[p] : posted' = [posted EXCEPT ![p] = r] /\ UNCHANGED batch
                                /\ proc' = [proc EXCEPT ![p] = "ack"]
      BY <1>3 DEF Post, PostAccepted, PostRefused, PostUnanswered, Answered, Goto
    <2>. QED BY <2>1 DEF AnsweredIsClaimed, TypeOK
  <1>. QED
    BY <1>1, <1>2, <1>3
       DEF Next, Step, vars, Tick, Grow, ArriveLate, Enqueue

\* The variables have the types of TypeOK in every reachable state, for every
\* number of processes and every fault.
THEOREM TypeOKAlways == Spec => [](TypeOK /\ AnsweredIsClaimed)
  <1>1. TypeOK /\ AnsweredIsClaimed /\ [Next]_vars => (TypeOK /\ AnsweredIsClaimed)'
    BY TypeStep, AnsweredStep
  <1>. QED BY <1>1, TypeCorrect, PTL DEF Spec

-----------------------------------------------------------------------------
(***************************************************************************)
(* What may be sent, answered for or arrive says what the row says.         *)
(***************************************************************************)

\* What is claimed or still under way is of a row there is.
OfRows ==
    /\ \A p \in Procs : \A r \in batch[p] : row[r.event].status # "none"
    /\ \A r \in late : row[r.event].status # "none"

\* Every claim and every late request for the event carries the payload of its row, and
\* whoever got a 2xx for it, or marked it sent, knows that the backend has that payload.
OnePayload(e) ==
    /\ \A p \in Procs : \A r \in batch[p] : r.event = e => r.payload = row[e].payload
    /\ \A r \in late : r.event = e => r.payload = row[e].payload
    /\ \A p \in Procs : proc[p] = "ack" /\ answer[p] /\ posted[p].event = e
                            => backend[e] = row[e].payload
    /\ row[e].status = "sent" => backend[e] = row[e].payload

Inductive ==
    /\ TypeOK /\ AnsweredIsClaimed /\ OfRows
    /\ \A e \in Events \ overtaken : OnePayload(e)

\* A step that changes neither payloads nor requests, marks no row as sent and takes no
\* answer leaves them so.
LEMMA PayloadsKept ==
  ASSUME Inductive,
         \A e \in Events : /\ row'[e].payload = row[e].payload
                           /\ row[e].status # "none" => row'[e].status # "none"
                           /\ row'[e].status = "sent" => row[e].status = "sent",
         \A p \in Procs : /\ batch'[p] \subseteq batch[p]
                          /\ proc'[p] = "ack" =>
                                /\ proc[p] = "ack"
                                /\ answer'[p] = answer[p] /\ posted'[p] = posted[p],
         UNCHANGED <<late, backend, overtaken>>
  PROVE  OfRows' /\ \A e \in Events \ overtaken' : OnePayload(e)'
  <1>1. \A p \in Procs : \A r \in batch[p] : r.event \in Events
    BY DEF Inductive, TypeOK, Claims
  <1>2. \A r \in late : r.event \in Events
    BY DEF Inductive, TypeOK, Claims
  <1>3. OfRows'
    BY <1>1, <1>2 DEF Inductive, OfRows
  <1>4. ASSUME NEW e \in Events \ overtaken PROVE OnePayload(e)'
    BY DEF Inductive, OnePayload
  <1>. QED BY <1>3, <1>4

\* Every step keeps them, for all events but those that are overtaken by it.
LEMMA PayloadStep ==
  ASSUME Inductive, [Next]_vars
  PROVE  OfRows' /\ \A e \in Events \ overtaken' : OnePayload(e)'
  <1>. USE DEF Inductive, history
  <1>. DEFINE Goal == OfRows' /\ \A e \in Events \ overtaken' : OnePayload(e)'
  <1>0. /\ \A p \in Procs : \A r \in batch[p] : r.event \in Events
        /\ \A r \in late : r.event \in Events
        /\ \A p \in Procs : proc[p] = "ack" => posted[p] \in batch[p]
    BY DEF TypeOK, Claims, AnsweredIsClaimed
  <1>1. CASE Tick
    <2>1. \A e \in Events : row'[e].payload = row[e].payload /\ row'[e].status = row[e].status
      BY <1>1 DEF Tick, TypeOK, Rows
    <2>2. UNCHANGED <<proc, batch, posted, answer, late, backend, overtaken>>
      BY <1>1 DEF Tick
    <2>. QED BY <2>1, <2>2, PayloadsKept
  <1>2. ASSUME NEW e \in Events, Grow(e) PROVE Goal
    BY <1>2, PayloadsKept DEF Grow
  <1>3. CASE ArriveLate
    <2>1. PICK r \in late : backend' = [backend EXCEPT ![r.event] = r.payload]
                            /\ late' = late \ {r}
                            /\ UNCHANGED <<row, proc, batch, posted, answer, overtaken>>
      BY <1>3 DEF ArriveLate, Upsert
    <2>2. OfRows'
      BY <2>1 DEF OfRows
    <2>3. ASSUME NEW e \in Events \ overtaken PROVE OnePayload(e)'
      <3>1. backend'[e] = backend[e] \/ backend'[e] = row[e].payload
        BY <1>0, <2>1 DEF OnePayload, TypeOK
      <3>. QED BY <2>1, <3>1 DEF OnePayload
    <2>. QED BY <2>1, <2>2, <2>3
  <1>4. ASSUME NEW p \in Procs, \/ StartIngest(p) \/ StartDrain(p) \/ EndEnqueue(p)
                                \/ AckRaises(p) \/ Crash(p)
        PROVE  Goal
    <2>1. /\ \A q \in Procs : q # p => /\ proc'[q] = proc[q] /\ batch'[q] = batch[q]
                                       /\ posted'[q] = posted[q] /\ answer'[q] = answer[q]
          /\ proc'[p] # "ack" /\ batch'[p] \subseteq batch[p]
          /\ UNCHANGED <<row, late, backend, overtaken>>
      BY <1>4 DEF StartIngest, StartDrain, EndEnqueue, AckRaises, Crash, Quits, Goto, TypeOK
    <2>. QED BY <2>1, PayloadsKept
  <1>5. ASSUME NEW p \in Procs, Enqueue(p) PROVE Goal
    <2>1. PICK e \in Events :
            /\ \/ /\ row' = [row EXCEPT ![e] = Upserted(@, seen[p][e])]
                  /\ overtaken' = IF row[e].payload = seen[p][e] THEN overtaken
                                  ELSE IF Out(e) THEN overtaken \cup {e} ELSE overtaken \ {e}
               \/ UNCHANGED <<row, overtaken>>
            /\ UNCHANGED <<proc, batch, posted, answer, late, backend>>
      BY <1>5 DEF Enqueue
    <2>2. CASE UNCHANGED <<row, overtaken>>
      BY <2>1, <2>2, PayloadsKept
    <2>. DEFINE v == seen[p][e]
    <2>3. CASE /\ row' = [row EXCEPT ![e] = Upserted(@, v)]
               /\ overtaken' = IF row[e].payload = v THEN overtaken
                               ELSE IF Out(e) THEN overtaken \cup {e} ELSE overtaken \ {e}
      <3>1. row[e] \in Rows /\ v \in Versions
        BY DEF TypeOK
      <3>2. /\ row'[e] = Upserted(row[e], v)
            /\ \A f \in Events : f # e => row'[f] = row[f]
        BY <2>3 DEF TypeOK
      <3>. HIDE DEF v
      <3>3. CASE row[e].status # "none" /\ row[e].payload = v
        <4>1. row' = row
          BY <2>3, <3>2, <3>3 DEF Upserted, TypeOK
        <4>. QED BY <2>1, <2>3, <3>3, <4>1, PayloadsKept
      <3>4. CASE row[e].status = "none" \/ row[e].payload # v
        <4>1. row'[e].status = "pending" /\ row'[e].payload = v
          BY <3>1, <3>2, <3>4, NewRowType DEF Upserted, Requeued, Rows
        <4>2. OfRows'
          BY <1>0, <2>1, <3>2, <4>1 DEF OfRows
        <4>3. ASSUME NEW f \in Events \ overtaken', f # e PROVE OnePayload(f)'
          <5>1. f \notin overtaken
            BY <2>3, <4>3
          <5>. QED BY <2>1, <3>2, <4>3, <5>1 DEF OnePayload
        <4>4. ASSUME e \notin overtaken' PROVE OnePayload(e)'
          <5>1. ~Out(e)
            <6>1. CASE row[e].status = "none"
              BY <6>1 DEF Out, Held, OfRows
            <6>2. CASE row[e].payload # v
              BY <2>3, <4>4, <6>2
            <6>. QED BY <3>4, <6>1, <6>2
          <5>2. /\ \A q \in Procs : \A r \in batch[q] : r.event # e
                /\ \A r \in late : r.event # e
            BY <5>1 DEF Out, Held
          <5>. QED BY <1>0, <2>1, <4>1, <5>2 DEF OnePayload
        <4>. QED BY <4>2, <4>3, <4>4
      <3>. QED BY <3>3, <3>4
    <2>. QED BY <2>1, <2>2, <2>3
  <1>6. ASSUME NEW p \in Procs, ResetBackoff(p) PROVE Goal
    <2>1. \A e \in Events : row'[e].payload = row[e].payload /\ row'[e].status = row[e].status
      BY <1>6 DEF ResetBackoff, TypeOK, Rows
    <2>2. /\ UNCHANGED <<batch, posted, answer, late, backend, overtaken>>
          /\ \A q \in Procs : proc'[q] = "ack" => proc[q] = "ack"
      BY <1>6 DEF ResetBackoff, Goto, TypeOK
    <2>. QED BY <2>1, <2>2, PayloadsKept
  <1>7. ASSUME NEW p \in Procs, Claim(p) PROVE Goal
    <2>1. PICK S \in SUBSET Events :
            /\ Claimable(S)
            /\ row' = [e \in Events |->
                  IF e \in S THEN [row[e] EXCEPT !.status = "sending", !.lease = Lease]
                  ELSE row[e]]
            /\ batch' = [batch EXCEPT ![p] =
                  {[event |-> e, payload |-> row[e].payload, attempts |-> row[e].attempts] : e \in S}]
            /\ Goto(p, IF S = {} THEN "idle" ELSE "post")
            /\ UNCHANGED <<posted, answer, late, backend, overtaken>>
      BY <1>7 DEF Claim
    <2>2. \A e \in S : row[e].status # "none"
      BY <2>1 DEF Claimable, Due
    <2>3. \A e \in Events : /\ row'[e].payload = row[e].payload
                            /\ row[e].status # "none" => row'[e].status # "none"
                            /\ row'[e].status = "sent" => row[e].status = "sent"
      BY <2>1, <2>2 DEF TypeOK, Rows
    <2>4. \A r \in batch'[p] : r.event \in S /\ r.payload = row[r.event].payload
      <3>1. batch'[p] = {[event |-> e, payload |-> row[e].payload, attempts |-> row[e].attempts] : e \in S}
        BY <2>1 DEF TypeOK
      <3>2. ASSUME NEW r \in batch'[p] PROVE r.event \in S /\ r.payload = row[r.event].payload
        <4>1. PICK e \in S : r = [event |-> e, payload |-> row[e].payload, attempts |-> row[e].attempts]
          BY <3>1, <3>2
        <4>. QED BY <4>1
      <3>. QED BY <3>2
    <2>5. /\ \A q \in Procs : q # p => batch'[q] = batch[q] /\ proc'[q] = proc[q]
          /\ proc'[p] # "ack"
      BY <2>1 DEF TypeOK, Goto
    <2>6. OfRows'
      <3>1. \A q \in Procs : \A r \in batch'[q] : row'[r.event].status # "none"
        <4>1. \A r \in batch'[p] : row'[r.event].status # "none"
          BY <2>2, <2>3, <2>4
        <4>2. ASSUME NEW q \in Procs, q # p PROVE \A r \in batch'[q] : row'[r.event].status # "none"
          BY <1>0, <2>3, <2>5, <4>2 DEF OfRows
        <4>. QED BY <4>1, <4>2
      <3>2. \A r \in late' : row'[r.event].status # "none"
        BY <1>0, <2>1, <2>3 DEF OfRows
      <3>. QED BY <3>1, <3>2 DEF OfRows
    <2>7. ASSUME NEW e \in Events \ overtaken PROVE OnePayload(e)'
      <3>1. \A q \in Procs : \A r \in batch'[q] : r.event = e => r.payload = row'[e].payload
        <4>1. \A r \in batch'[p] : r.event = e => r.payload = row'[e].payload
          BY <2>3, <2>4
        <4>2. ASSUME NEW q \in Procs, q # p
              PROVE  \A r \in batch'[q] : r.event = e => r.payload = row'[e].payload
          BY <2>3, <2>5, <4>2 DEF OnePayload
        <4>. QED BY <4>1, <4>2
      <3>. QED BY <2>1, <2>3, <2>5, <3>1 DEF OnePayload
    <2>. QED BY <2>1, <2>6, <2>7
  <1>8. ASSUME NEW p \in Procs, Post(p) PROVE Goal
    <2>1. PICK r \in batch[p] :
            /\ posted' = [posted EXCEPT ![p] = r]
            /\ proc' = [proc EXCEPT ![p] = "ack"]
            /\ UNCHANGED <<row, batch, overtaken>>
            /\ \/ /\ backend' = [backend EXCEPT ![r.event] = r.payload] /\ UNCHANGED late
                  /\ \E ok \in BOOLEAN : answer' = [answer EXCEPT ![p] = ok]
               \/ /\ UNCHANGED backend /\ late' \subseteq late \cup {r}
                  /\ answer' = [answer EXCEPT ![p] = FALSE]
      BY <1>8 DEF Post, PostAccepted, PostRefused, PostUnanswered, Answered, Upsert, Goto
    <2>2. r.event \in Events
      BY <1>0
    <2>3. \A q \in Procs : q # p => /\ proc'[q] = proc[q] /\ posted'[q] = posted[q]
                                    /\ answer'[q] = answer[q]
      BY <2>1 DEF TypeOK
    <2>4. posted'[p] = r
      BY <2>1 DEF TypeOK
    <2>5. OfRows'
      BY <2>1 DEF OfRows
    <2>6. ASSUME NEW e \in Events \ overtaken PROVE OnePayload(e)'
      <3>1. r.event = e => r.payload = row[e].payload
        BY DEF OnePayload
      <3>2. backend'[e] = backend[e] \/ backend'[e] = row[e].payload
        <4>1. CASE backend' = [backend EXCEPT ![r.event] = r.payload]
          BY <2>2, <3>1, <4>1 DEF TypeOK
        <4>2. CASE UNCHANGED backend
          BY <4>2
        <4>. QED BY <2>1, <4>1, <4>2
      <3>3. answer'[p] /\ r.event = e => backend'[e] = row[e].payload
        <4>1. CASE backend' = [backend EXCEPT ![r.event] = r.payload]
          BY <2>2, <3>1, <4>1 DEF TypeOK
        <4>2. CASE answer' = [answer EXCEPT ![p] = FALSE]
          BY <4>2 DEF TypeOK
        <4>. QED BY <2>1, <4>1, <4>2
      <3>4. \A q \in Procs : proc'[q] = "ack" /\ answer'[q] /\ posted'[q].event = e
                                => backend'[e] = row[e].payload
        BY <2>3, <2>4, <3>2, <3>3 DEF OnePayload
      <3>5. \A o \in late' : o.event = e => o.payload = row[e].payload
        BY <2>1, <3>1 DEF OnePayload
      <3>6. row[e].status = "sent" => backend'[e] = row[e].payload
        BY <3>2 DEF OnePayload
      <3>7. \A q \in Procs : \A o \in batch[q] : o.event = e => o.payload = row[e].payload
        BY DEF OnePayload
      <3>. QED BY <2>1, <3>4, <3>5, <3>6, <3>7 DEF OnePayload
    <2>. QED BY <2>1, <2>5, <2>6
  <1>9. ASSUME NEW p \in Procs, Ack(p) PROVE Goal
    <2>. DEFINE r == posted[p]
    <2>1. /\ row' = [row EXCEPT ![r.event] = IF answer[p] THEN Sent(@) ELSE Failed(@, r.attempts)]
          /\ batch' = [batch EXCEPT ![p] = @ \ {r}]
          /\ posted' = [posted EXCEPT ![p] = NoClaim]
          /\ proc' = [proc EXCEPT ![p] = IF batch[p] = {r} THEN "idle" ELSE "post"]
          /\ UNCHANGED <<late, backend, overtaken>>
          /\ answer' = [answer EXCEPT ![p] = FALSE]
      BY <1>9 DEF Ack, Goto
    <2>2. r \in Claims /\ r.event \in Events /\ r.attempts \in Attempts
      BY <1>0, <1>9 DEF Ack, TypeOK, Claims
    <2>3. /\ row'[r.event].payload = row[r.event].payload
          /\ row'[r.event].status \in {"sent", "pending"}
          /\ row'[r.event].status = "sent" => answer[p]
      <3>1. row[r.event] \in Rows
        BY <2>2 DEF TypeOK
      <3>2. CASE answer[p]
        <4>1. row'[r.event] = Sent(row[r.event])
          BY <2>1, <2>2, <3>2 DEF TypeOK
        <4>. QED BY <4>1, <2>2, <3>1, <3>2, AnswerType
      <3>3. CASE ~answer[p]
        <4>1. row'[r.event] = Failed(row[r.event], r.attempts)
          BY <2>1, <2>2, <3>3 DEF TypeOK
        <4>. HIDE DEF r
        <4>2. Failed(row[r.event], r.attempts).status = "pending"
          BY <2>2, <3>1 DEF Failed, Rows
        <4>3. Failed(row[r.event], r.attempts).payload = row[r.event].payload
          BY <2>2, <3>1 DEF Failed, Rows
        <4>. QED BY <4>1, <4>2, <4>3
      <3>. QED BY <3>2, <3>3
    <2>4. \A e \in Events : e # r.event => row'[e] = row[e]
      BY <2>1 DEF TypeOK
    <2>5. \A q \in Procs : /\ batch'[q] \subseteq batch[q]
                           /\ proc'[q] = "ack" => /\ q # p /\ proc[q] = "ack"
                                                  /\ posted'[q] = posted[q]
                                                  /\ answer'[q] = answer[q]
      BY <2>1 DEF TypeOK
    <2>. HIDE DEF r
    <2>6. OfRows'
      BY <1>0, <2>1, <2>3, <2>4, <2>5 DEF OfRows
    <2>7. ASSUME NEW e \in Events \ overtaken PROVE OnePayload(e)'
      <3>1. row'[e].payload = row[e].payload
        BY <2>3, <2>4
      <3>2. row'[e].status = "sent" => backend[e] = row[e].payload
        <4>1. CASE e # r.event
          BY <2>4, <4>1 DEF OnePayload
        <4>2. CASE e = r.event
          BY <1>9, <2>3, <4>2 DEF Ack, OnePayload, r
        <4>. QED BY <4>1, <4>2
      <3>3. OnePayload(e) /\ UNCHANGED <<late, backend>>
        BY <2>1
      <3>4. \A q \in Procs : \A c \in batch'[q] : c.event = e => c.payload = row'[e].payload
        BY <2>5, <3>1, <3>3 DEF OnePayload
      <3>5. \A c \in late' : c.event = e => c.payload = row'[e].payload
        BY <3>1, <3>3 DEF OnePayload
      <3>6. \A q \in Procs : proc'[q] = "ack" /\ answer'[q] /\ posted'[q].event = e
                                => backend'[e] = row'[e].payload
        BY <2>5, <3>1, <3>3 DEF OnePayload
      <3>. QED BY <3>1, <3>2, <3>3, <3>4, <3>5, <3>6 DEF OnePayload
    <2>. QED BY <2>1, <2>6, <2>7
  <1>10. CASE UNCHANGED vars
    BY <1>10, PayloadsKept DEF vars
  <1>. QED
    BY <1>1, <1>2, <1>3, <1>4, <1>5, <1>6, <1>7, <1>8, <1>9, <1>10 DEF Next, Step

\* Initially there are no rows and no requests.
LEMMA InitInductive == Init => Inductive
  <1>1. Init => OfRows /\ \A e \in Events : OnePayload(e)
    BY DEF Init, OfRows, OnePayload, NoRow
  <1>. QED BY <1>1, TypeCorrect DEF Inductive

\* A row is marked sent only when the backend has what it says, however sessions grow and
\* many processes overlap, die, outlive their leases or send again what another has sent;
\* unless it was enqueued anew while a request for what it said before was out.
THEOREM SentMeansDeliveredTheorem == Spec => []SentMeansDelivered
  <1>1. Inductive /\ [Next]_vars => Inductive'
    BY PayloadStep, TypeStep, AnsweredStep DEF Inductive
  <1>2. Inductive => SentMeansDelivered
    BY DEF Inductive, OnePayload, SentMeansDelivered
  <1>. QED BY <1>1, <1>2, InitInductive, PTL DEF Spec

-----------------------------------------------------------------------------
(***************************************************************************)
(* Leases.                                                                  *)
(***************************************************************************)

\* An event whose claims are in order: nothing overtook them and none outlived its lease.
InOrder(e) == e \notin overtaken \cup outlived

\* A claimed row is in sending under a lease that has not ended; a process has one claim of
\* a row.
Leased ==
    /\ \A p \in Procs : \A r \in batch[p] :
          InOrder(r.event) => row[r.event].status = "sending" /\ row[r.event].lease > 0
    /\ \A p \in Procs : \A r \in batch[p] : \A o \in batch[p] : r.event = o.event => r = o

InductiveLeases == Inductive /\ Leased /\ ClaimExclusive

\* A step that changes no row that is held in order, claims nothing and lets an event back into
\* order only when nobody holds it keeps the leases.
LEMMA LeasesKept ==
  ASSUME InductiveLeases,
         \A p \in Procs : batch'[p] \subseteq batch[p],
         \A p \in Procs : \A r \in batch'[p] :
            InOrder(r.event)' =>
               /\ InOrder(r.event)
               /\ row'[r.event].status = "sending" /\ row'[r.event].lease > 0
  PROVE  Leased' /\ ClaimExclusive'
  BY DEF InductiveLeases, Leased, ClaimExclusive, InOrder

\* Every step keeps the leases, and leaves what was sent as it is.
LEMMA LeaseStep ==
  ASSUME InductiveLeases, [Next]_vars
  PROVE  /\ Leased' /\ ClaimExclusive'
         /\ \A e \in Events : InOrder(e) /\ row[e].status = "sent" =>
               row'[e].status = "sent" \/ row'[e].payload # row[e].payload
  <1>. USE DEF InductiveLeases, Inductive, history
  <1>. DEFINE Goal == /\ Leased' /\ ClaimExclusive'
                      /\ \A e \in Events : InOrder(e) /\ row[e].status = "sent" =>
                            row'[e].status = "sent" \/ row'[e].payload # row[e].payload
  <1>0. \A p \in Procs : \A r \in batch[p] :
           r \in Claims /\ r.event \in Events /\ r.attempts \in Attempts /\ Held(r.event)
    BY DEF TypeOK, Claims, Held
  <1>1. CASE Tick
    <2>1. UNCHANGED <<batch, overtaken>>
      BY <1>1 DEF Tick
    <2>2. \A e \in Events : row'[e].status = row[e].status /\ row'[e].lease = Elapse(row[e].lease)
      BY <1>1 DEF Tick, TypeOK, Rows
    <2>3. outlived' = outlived \cup {e \in Events : row[e].lease = 1 /\ Held(e)}
      BY <1>1 DEF Tick
    <2>4. ASSUME NEW p \in Procs, NEW r \in batch[p], InOrder(r.event)'
          PROVE  InOrder(r.event) /\ row'[r.event].status = "sending" /\ row'[r.event].lease > 0
      <3>1. InOrder(r.event) /\ row[r.event].lease # 1
        BY <1>0, <2>1, <2>3, <2>4 DEF InOrder
      <3>2. row[r.event].lease \in Nat
        BY <1>0, OutboxAssumption, RowFields DEF TypeOK, OutboxAssumption
      <3>. QED BY <1>0, <2>2, <3>1, <3>2 DEF Elapse, Leased
    <2>. QED BY <2>1, <2>2, <2>4, LeasesKept
  <1>2. CASE UNCHANGED <<row, batch, overtaken, outlived>>
    BY <1>2, LeasesKept DEF InOrder, Leased
  <1>3. ASSUME NEW p \in Procs, Enqueue(p) PROVE Goal
    <2>1. PICK e \in Events :
            /\ \/ /\ row' = [row EXCEPT ![e] = Upserted(@, seen[p][e])]
                  /\ overtaken' = IF row[e].payload = seen[p][e] THEN overtaken
                                  ELSE IF Out(e) THEN overtaken \cup {e} ELSE overtaken \ {e}
               \/ UNCHANGED <<row, overtaken>>
            /\ UNCHANGED <<batch, outlived>>
      BY <1>3 DEF Enqueue
    <2>2. CASE UNCHANGED <<row, overtaken>>
      BY <1>2, <2>1, <2>2
    <2>. DEFINE v == seen[p][e]
    <2>3. CASE /\ row' = [row EXCEPT ![e] = Upserted(@, v)]
               /\ overtaken' = IF row[e].payload = v THEN overtaken
                               ELSE IF Out(e) THEN overtaken \cup {e} ELSE overtaken \ {e}
      <3>1. row[e] \in Rows /\ v \in Versions
        BY DEF TypeOK
      <3>2. /\ row'[e] = Upserted(row[e], v)
            /\ \A f \in Events : f # e => row'[f] = row[f]
        BY <2>3 DEF TypeOK
      <3>. HIDE DEF v
      <3>3. row[e].status # "none" /\ row[e].payload = v => row'[e] = row[e]
        BY <3>2 DEF Upserted
      <3>4. row[e].status # "none" /\ row[e].payload # v => row'[e].payload # row[e].payload
        BY <3>1, <3>2 DEF Upserted, Requeued, Rows
      <3>5. ASSUME NEW q \in Procs, NEW r \in batch[q], InOrder(r.event)'
            PROVE  InOrder(r.event) /\ row'[r.event].status = "sending" /\ row'[r.event].lease > 0
        <4>1. r.event \in Events /\ Held(r.event) /\ Out(r.event) /\ row[r.event].status # "none"
          BY <1>0 DEF OfRows, Out
        <4>2. CASE r.event = e
          <5>1. row[e].payload = v
            BY <2>3, <3>5, <4>1, <4>2 DEF InOrder
          <5>2. overtaken' = overtaken /\ row'[e] = row[e]
            BY <2>3, <3>3, <4>1, <4>2, <5>1
          <5>. QED BY <2>1, <3>5, <4>2, <5>2 DEF InOrder, Leased
        <4>3. CASE r.event # e
          <5>1. InOrder(r.event)
            BY <2>1, <2>3, <3>5, <4>3 DEF InOrder
          <5>. QED BY <3>2, <4>1, <4>3, <5>1 DEF Leased
        <4>. QED BY <4>2, <4>3
      <3>6. Leased' /\ ClaimExclusive'
        BY <2>1, <3>5, LeasesKept
      <3>. QED BY <3>2, <3>3, <3>4, <3>6
    <2>. QED BY <2>1, <2>2, <2>3
  <1>4. ASSUME NEW p \in Procs, ResetBackoff(p) PROVE Goal
    <2>1. \A e \in Events : row[e].status # "pending" => row'[e] = row[e]
      BY <1>4 DEF ResetBackoff
    <2>2. UNCHANGED <<batch, overtaken, outlived>>
      BY <1>4 DEF ResetBackoff
    <2>3. Leased' /\ ClaimExclusive'
      BY <1>0, <2>1, <2>2, LeasesKept DEF InOrder, Leased
    <2>. QED BY <2>1, <2>3
  <1>5. ASSUME NEW p \in Procs, Claim(p) PROVE Goal
    <2>1. PICK S \in SUBSET Events :
            /\ Claimable(S)
            /\ row' = [e \in Events |->
                  IF e \in S THEN [row[e] EXCEPT !.status = "sending", !.lease = Lease]
                  ELSE row[e]]
            /\ batch' = [batch EXCEPT ![p] =
                  {[event |-> e, payload |-> row[e].payload, attempts |-> row[e].attempts] : e \in S}]
            /\ UNCHANGED <<overtaken, outlived>>
      BY <1>5 DEF Claim
    <2>2. \A e \in S : /\ row[e].status # "sent"
                       /\ ~(row[e].status = "sending" /\ row[e].lease > 0)
      <3>1. \A e \in S : Due(e)
        BY <2>1 DEF Claimable
      <3>2. \A e \in S : row[e].lease \in Nat
        BY RowFields, OutboxAssumption DEF TypeOK, OutboxAssumption
      <3>. QED BY <3>1, <3>2 DEF Due
    <2>3. \A e \in S : row'[e].status = "sending" /\ row'[e].lease > 0
      <3>1. \A e \in S : row'[e] = [row[e] EXCEPT !.status = "sending", !.lease = Lease]
        BY <2>1
      <3>2. ASSUME NEW e \in S PROVE row'[e].status = "sending" /\ row'[e].lease = Lease
        <4>1. row[e] \in Rows /\ row'[e] = [row[e] EXCEPT !.status = "sending", !.lease = Lease]
          BY <3>1 DEF TypeOK
        <4>. QED BY <4>1 DEF Rows
      <3>. QED BY <3>2, OutboxAssumption DEF OutboxAssumption
    <2>4. \A e \in Events \ S : row'[e] = row[e]
      BY <2>1
    <2>5. \A q \in Procs : \A r \in batch[q] : InOrder(r.event) => r.event \in Events \ S
      BY <1>0, <2>2 DEF Leased
    <2>6. \A r \in batch'[p] : /\ r.event \in S
                               /\ \A o \in batch'[p] : r.event = o.event => r = o
      <3>1. batch'[p] = {[event |-> e, payload |-> row[e].payload, attempts |-> row[e].attempts] : e \in S}
        BY <2>1 DEF TypeOK
      <3>2. \A r \in batch'[p] : \E e \in S :
               r = [event |-> e, payload |-> row[e].payload, attempts |-> row[e].attempts]
        BY <3>1
      <3>. QED BY <3>2
    <2>7. \A q \in Procs : q # p => batch'[q] = batch[q]
      BY <2>1 DEF TypeOK
    <2>8. Leased'
      <3>1. \A r \in batch'[p] : row'[r.event].status = "sending" /\ row'[r.event].lease > 0
        BY <2>3, <2>6
      <3>2. ASSUME NEW q \in Procs, q # p
            PROVE  \A r \in batch'[q] : InOrder(r.event) =>
                      row'[r.event].status = "sending" /\ row'[r.event].lease > 0
        BY <2>4, <2>5, <2>7, <3>2 DEF Leased
      <3>3. \A q \in Procs : \A r \in batch'[q] : \A o \in batch'[q] : r.event = o.event => r = o
        BY <2>6, <2>7 DEF Leased
      <3>4. ASSUME NEW q \in Procs, NEW r \in batch'[q], InOrder(r.event)'
            PROVE  row'[r.event].status = "sending" /\ row'[r.event].lease > 0
        BY <2>1, <3>1, <3>2, <3>4 DEF InOrder
      <3>. QED BY <3>3, <3>4 DEF Leased
    <2>9. ClaimExclusive'
      <3>1. ASSUME NEW q \in Procs, NEW q2 \in Procs, NEW r \in batch'[q], NEW o \in batch'[q2],
                   r.event = o.event, InOrder(r.event), q # q2
            PROVE  FALSE
        <4>1. CASE q = p
          BY <2>5, <2>6, <2>7, <3>1, <4>1
        <4>2. CASE q2 = p
          BY <2>5, <2>6, <2>7, <3>1, <4>2
        <4>3. CASE q # p /\ q2 # p
          BY <2>7, <3>1, <4>3 DEF ClaimExclusive, InOrder
        <4>. QED BY <4>1, <4>2, <4>3
      <3>. QED BY <2>1, <3>1 DEF ClaimExclusive, InOrder
    <2>. QED BY <2>2, <2>4, <2>8, <2>9
  <1>6. ASSUME NEW p \in Procs, Ack(p) PROVE Goal
    <2>. DEFINE r == posted[p]
    <2>1. /\ row' = [row EXCEPT ![r.event] = IF answer[p] THEN Sent(@) ELSE Failed(@, r.attempts)]
          /\ batch' = [batch EXCEPT ![p] = @ \ {r}]
          /\ outlived' = StillOutlived /\ UNCHANGED overtaken
      BY <1>6 DEF Ack
    <2>2. r \in batch[p] /\ (InOrder(r.event) => row[r.event].status = "sending")
      BY <1>6 DEF Ack, AnsweredIsClaimed, Leased
    <2>3. \A e \in Events : e # r.event => row'[e] = row[e]
      BY <2>1 DEF TypeOK
    <2>4. /\ batch'[p] = batch[p] \ {r}
          /\ \A q \in Procs : q # p => batch'[q] = batch[q]
      BY <2>1 DEF TypeOK
    <2>. HIDE DEF r
    <2>5. ASSUME NEW q \in Procs, NEW o \in batch'[q], InOrder(o.event)'
          PROVE  InOrder(o.event) /\ row'[o.event].status = "sending" /\ row'[o.event].lease > 0
      <3>1. Held(o.event)' /\ o \in batch[q]
        BY <2>4, <2>5 DEF Held
      <3>2. InOrder(o.event)
        BY <1>0, <2>1, <2>5, <3>1 DEF InOrder, StillOutlived
      <3>3. o.event # r.event
        BY <2>2, <2>4, <3>1, <3>2 DEF Leased, ClaimExclusive, InOrder
      <3>. QED BY <1>0, <2>3, <3>1, <3>2, <3>3 DEF Leased
    <2>6. Leased' /\ ClaimExclusive'
      BY <2>4, <2>5, LeasesKept
    <2>. QED BY <2>2, <2>3, <2>6
  <1>7. ASSUME NEW p \in Procs, AckRaises(p) \/ Crash(p) PROVE Goal
    <2>1. /\ UNCHANGED <<row, overtaken>> /\ outlived' = StillOutlived
          /\ \A q \in Procs : batch'[q] \subseteq batch[q]
      BY <1>7 DEF AckRaises, Crash, Quits, TypeOK
    <2>2. ASSUME NEW q \in Procs, NEW o \in batch'[q], InOrder(o.event)'
          PROVE  InOrder(o.event) /\ row'[o.event].status = "sending" /\ row'[o.event].lease > 0
      <3>1. Held(o.event)' /\ o \in batch[q]
        BY <2>1 DEF Held
      <3>2. InOrder(o.event)
        BY <2>1, <2>2, <3>1 DEF InOrder, StillOutlived
      <3>. QED BY <2>1, <3>1, <3>2 DEF Leased
    <2>3. Leased' /\ ClaimExclusive'
      BY <2>1, <2>2, LeasesKept
    <2>. QED BY <2>1, <2>3
  <1>8. [Next]_vars =>
           \/ Tick \/ UNCHANGED <<row, batch, overtaken, outlived>>
           \/ \E p \in Procs : \/ Enqueue(p) \/ ResetBackoff(p) \/ Claim(p) \/ Ack(p)
                                \/ AckRaises(p) \/ Crash(p)
    BY DEF Next, Step, Post, vars, Grow, ArriveLate, StartIngest, StartDrain, EndEnqueue,
           PostAccepted, PostRefused, PostUnanswered, Answered
  <1>. QED BY <1>1, <1>2, <1>3, <1>4, <1>5, <1>6, <1>7, <1>8

\* Both hold of every reachable state.
LEMMA LeasesAlways == Spec => []InductiveLeases
  <1>1. Init => InductiveLeases
    <2>1. Init => Leased /\ ClaimExclusive
      BY DEF Init, Leased, ClaimExclusive
    <2>. QED BY <2>1, InitInductive DEF InductiveLeases
  <1>2. InductiveLeases /\ [Next]_vars => InductiveLeases'
    BY LeaseStep, PayloadStep, TypeStep, AnsweredStep DEF InductiveLeases, Inductive
  <1>. QED BY <1>1, <1>2, PTL DEF Spec

\* For every number of processes, every batch and every lease: two of them hold a row only
\* after one has outlived its lease or the row was enqueued anew under it.
THEOREM ClaimExclusiveTheorem == Spec => []ClaimExclusive
  <1>1. InductiveLeases => ClaimExclusive
    BY DEF InductiveLeases
  <1>. QED BY <1>1, LeasesAlways, PTL

\* And a delivered row is not sent again while it says the same, with the same exceptions.
THEOREM DeliveredStaysTheorem == Spec => DeliveredStays
  <1>1. InductiveLeases /\ [Next]_vars =>
           [\A e \in Events \ (overtaken \cup outlived) :
               row[e].status = "sent" /\ row'[e].payload = row[e].payload =>
                   row'[e].status = "sent"]_vars
    BY LeaseStep DEF InOrder
  <1>. QED BY <1>1, LeasesAlways, PTL DEF Spec, DeliveredStays
=============================================================================
