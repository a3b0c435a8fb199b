---------------------------- MODULE MetricsOutbox ----------------------------
(***************************************************************************)
(* The delivery of metrics to a remote sink.  `lh metrics ingest` processes *)
(* read the transcripts, upsert one sink_outbox row per event, and drain    *)
(* the outbox: claim a batch under a lease, POST every row, write the       *)
(* answer back.  Processes overlap, die, and share only the SQLite file;    *)
(* every operator named outbox_* in db.py is one transaction.               *)
(*                                                                         *)
(* Leases and retry delays are counted down, and a NULL is an elapsed one.  *)
(***************************************************************************)
EXTENDS Naturals, FiniteSets

CONSTANTS
    Events,        \* event ids: one per (profile, session, model)
    Procs,         \* lh processes alive at one time
    MaxVersion,    \* bound on the growth of a session
    MaxCrashes,    \* bound on the processes that die
    Batch,         \* batch_size
    Lease,         \* _LEASE_SECONDS
    BackoffCap,    \* _BACKOFF_CAP
    MaxAttempts,   \* attempts are counted up to here, where the delay is the cap
    FloatExponent, \* the least n for which 2^n is no float: 1024
    Rejected,      \* events the backend never accepts
    Faults         \* what may fail: see FaultKinds

FaultKinds == {"db", "http", "timeout", "late"}

ASSUME OutboxAssumption ==
    /\ IsFiniteSet(Events)
    /\ MaxVersion \in Nat /\ MaxCrashes \in Nat
    /\ Batch \in Nat \ {0} /\ Lease \in Nat \ {0}
    /\ BackoffCap \in Nat \ {0} /\ MaxAttempts \in Nat \ {0}
    /\ FloatExponent \in Nat
    /\ Rejected \subseteq Events
    /\ Faults \subseteq FaultKinds

Versions == 0 .. MaxVersion
Attempts == 0 .. MaxAttempts
Rows == [payload : Versions, status : {"none", "pending", "sending", "sent"},
         attempts : Attempts, next : 0 .. BackoffCap, lease : 0 .. Lease, born : Nat]
NoRow == [payload |-> 0, status |-> "none", attempts |-> 0, next |-> 0, lease |-> 0, born |-> 0]
Claims == [event : Events, payload : Versions, attempts : Attempts]
NoClaim == << >>

VARIABLES
    truth,      \* truth[e]: what the transcripts say of the event
    row,        \* row[e]: its row in sink_outbox, or NoRow
    proc,       \* proc[p]: where the process is
    seen,       \* seen[p][e]: what it read and has not enqueued, or 0
    batch,      \* batch[p]: the rows it claimed and has not answered for
    posted,     \* posted[p]: the claimed row it has sent, or NoClaim
    answer,     \* answer[p]: whether that POST was answered 2xx
    late,       \* requests given up on that may still arrive
    backend,    \* backend[e]: what the backend upserted last, or 0
    crashes,    \* processes that have died
    overtaken,  \* history: events enqueued anew while an older payload was out
    outlived    \* history: events in a batch that outlived its lease

history == <<overtaken, outlived>>
vars == <<truth, row, proc, seen, batch, posted, answer, late, backend, crashes, history>>

Goto(p, label) == proc' = [proc EXCEPT ![p] = label]
NothingSeen == [e \in Events |-> 0]

\* A process has claimed the row and not answered for it; some request for the
\* event may still be sent, answered for, or arrive.
Held(e) == \E p \in Procs : \E r \in batch[p] : r.event = e
Out(e) == Held(e) \/ \E r \in late : r.event = e

\* Once nobody holds the row, its next claim starts anew.
StillOutlived == {e \in outlived : Held(e)'}

-----------------------------------------------------------------------------
(* Time, the sessions and the network. *)

Elapse(n) == IF n = 0 THEN 0 ELSE n - 1

Tick ==
    /\ \E e \in Events : row[e].next > 0 \/ row[e].lease > 0
    /\ row' = [e \in Events |->
                  [row[e] EXCEPT !.next = Elapse(@), !.lease = Elapse(@)]]
    /\ outlived' = outlived \cup {e \in Events : row[e].lease = 1 /\ Held(e)}
    /\ UNCHANGED <<truth, proc, seen, batch, posted, answer, late, backend, crashes, overtaken>>

Grow(e) ==
    /\ truth[e] < MaxVersion
    /\ truth' = [truth EXCEPT ![e] = @ + 1]
    /\ UNCHANGED <<row, proc, seen, batch, posted, answer, late, backend, crashes, history>>

\* The backend upserts by event_id.
Upsert(r) ==
    /\ r.event \notin Rejected
    /\ backend' = [backend EXCEPT ![r.event] = r.payload]

ArriveLate ==
    \E r \in late :
        /\ Upsert(r)
        /\ late' = late \ {r}
        /\ UNCHANGED <<truth, row, proc, seen, batch, posted, answer, crashes, history>>

-----------------------------------------------------------------------------
(* Ingest: read the transcripts, then enqueue what they say. *)

StartIngest(p) ==
    /\ proc[p] = "idle"
    /\ Goto(p, "enqueue")
    /\ seen' = [seen EXCEPT ![p] = truth]
    /\ UNCHANGED <<truth, row, batch, posted, answer, late, backend, crashes, history>>

\* `lh metrics drain` runs the second half only.
StartDrain(p) ==
    /\ proc[p] = "idle"
    /\ Goto(p, "reset")
    /\ UNCHANGED <<truth, row, seen, batch, posted, answer, late, backend, crashes, history>>

NewRow(v) == [NoRow EXCEPT !.payload = v, !.status = "pending",
                           !.born = Cardinality({e \in Events : row[e].status # "none"})]

\* Mutant: a row that was delivered keeps its status.
RequeuedInPlace(r, v) == [r EXCEPT !.payload = v, !.next = 0, !.lease = 0]

Requeued(r, v) == [r EXCEPT !.payload = v, !.status = "pending", !.next = 0, !.lease = 0]

\* Mutant: the upsert has no WHERE.
UpsertedAlways(r, v) == IF r.status = "none" THEN NewRow(v) ELSE Requeued(r, v)

\* INSERT ... ON CONFLICT DO UPDATE ... WHERE payload_json differs.
Upserted(r, v) ==
    IF r.status = "none" THEN NewRow(v)
    ELSE IF r.payload = v THEN r ELSE Requeued(r, v)

Enqueue(p) ==
    \E e \in Events :
        /\ proc[p] = "enqueue" /\ seen[p][e] > 0
        /\ \/ /\ row' = [row EXCEPT ![e] = Upserted(@, seen[p][e])]
              /\ overtaken' = IF row[e].payload = seen[p][e] THEN overtaken
                              ELSE IF Out(e) THEN overtaken \cup {e} ELSE overtaken \ {e}
           \/ "db" \in Faults /\ UNCHANGED <<row, overtaken>>      \* reported, not retried
        /\ seen' = [seen EXCEPT ![p][e] = 0]
        /\ UNCHANGED <<truth, proc, batch, posted, answer, late, backend, crashes, outlived>>

EndEnqueue(p) ==
    /\ proc[p] = "enqueue" /\ seen[p] = NothingSeen
    /\ Goto(p, "reset")
    /\ UNCHANGED <<truth, row, seen, batch, posted, answer, late, backend, crashes, history>>

-----------------------------------------------------------------------------
(* Drain. *)

\* outbox_reset_backoff
ResetBackoff(p) ==
    /\ proc[p] = "reset"
    /\ row' = [e \in Events |->
                  IF row[e].status = "pending" THEN [row[e] EXCEPT !.next = 0] ELSE row[e]]
    /\ Goto(p, "claim")
    /\ UNCHANGED <<truth, seen, batch, posted, answer, late, backend, crashes, history>>

\* Mutant: a leased row is claimed like any other.
DueLeased(e) ==
    \/ row[e].status = "pending" /\ row[e].next = 0
    \/ row[e].status = "sending"

\* Mutant: a row left in sending is never taken back.
DuePending(e) == row[e].status = "pending" /\ row[e].next = 0

Due(e) ==
    \/ row[e].status = "pending" /\ row[e].next = 0
    \/ row[e].status = "sending" /\ row[e].lease = 0

\* The oldest due rows, at most a batch of them.
Claimable(S) ==
    LET due == {e \in Events : Due(e)} IN
    /\ S \subseteq due
    /\ Cardinality(S) = Batch \/ (S = due /\ Cardinality(S) < Batch)
    /\ \A e \in S : \A f \in due \ S : row[e].born < row[f].born

\* outbox_claim, under BEGIN IMMEDIATE.
Claim(p) ==
    \E S \in SUBSET Events :
        /\ proc[p] = "claim"
        /\ Claimable(S)
        /\ row' = [e \in Events |->
                      IF e \in S THEN [row[e] EXCEPT !.status = "sending", !.lease = Lease]
                      ELSE row[e]]
        /\ batch' = [batch EXCEPT ![p] =
               {[event |-> e, payload |-> row[e].payload, attempts |-> row[e].attempts] : e \in S}]
        /\ Goto(p, IF S = {} THEN "idle" ELSE "post")
        /\ UNCHANGED <<truth, seen, posted, answer, late, backend, crashes, history>>

\* The claimed row the process is at: rows are posted from the oldest.
AtRow(p, r) ==
    /\ r \in batch[p]
    /\ \A o \in batch[p] : row[r.event].born <= row[o.event].born

Answered(p, r, ok) ==
    /\ Goto(p, "ack")
    /\ posted' = [posted EXCEPT ![p] = r]
    /\ answer' = [answer EXCEPT ![p] = ok]
    /\ UNCHANGED <<truth, row, seen, batch, crashes, history>>

PostAccepted(p, e) ==
    \E r \in batch[p] :
        /\ proc[p] = "post" /\ AtRow(p, r) /\ r.event = e
        /\ Upsert(r)
        /\ Answered(p, r, TRUE)
        /\ UNCHANGED late

\* Mutant: any answer counts as delivered.
PostRefusedOk(p) ==
    \E r \in batch[p] :
        /\ proc[p] = "post" /\ AtRow(p, r)
        /\ r.event \in Rejected \/ "http" \in Faults
        /\ Answered(p, r, TRUE)
        /\ UNCHANGED <<late, backend>>

\* A status that is not 2xx.
PostRefused(p) ==
    \E r \in batch[p] :
        /\ proc[p] = "post" /\ AtRow(p, r)
        /\ r.event \in Rejected \/ "http" \in Faults
        /\ Answered(p, r, FALSE)
        /\ UNCHANGED <<late, backend>>

\* httpx.HTTPError: the backend may have upserted it, or may do so later.
PostUnanswered(p) ==
    \E r \in batch[p] :
        /\ proc[p] = "post" /\ AtRow(p, r)
        /\ \/ "timeout" \in Faults /\ UNCHANGED <<late, backend>>
           \/ "timeout" \in Faults /\ Upsert(r) /\ UNCHANGED late
           \/ "late" \in Faults /\ late' = late \cup {r} /\ UNCHANGED backend
        /\ Answered(p, r, FALSE)

\* Mutant: the delay has no cap.
BackoffUncapped(attempts) == 2 ^ (IF attempts > 0 THEN attempts - 1 ELSE 0)

\* _backoff_for
BackoffFor(attempts) ==
    LET delay == 2 ^ (IF attempts > 0 THEN attempts - 1 ELSE 0) IN
    IF delay \in 1 .. BackoffCap THEN delay ELSE BackoffCap

\* 1.0 * 2 ** (attempts - 1) raises OverflowError before min() is reached.
BackoffRaises(attempts) == attempts > FloatExponent

Sent(r) == [r EXCEPT !.status = "sent", !.lease = 0]

\* attempts is the row's as it was claimed.
Failed(r, attempts) ==
    [r EXCEPT !.status = "pending", !.lease = 0,
              !.attempts = IF @ < MaxAttempts THEN @ + 1 ELSE @,
              !.next = BackoffFor(attempts + 1)]

\* outbox_mark_sent or outbox_mark_failed: by the key alone, whoever holds the
\* row and whatever it says by now.
Ack(p) ==
    LET r == posted[p] IN
    /\ proc[p] = "ack"
    /\ answer[p] \/ ~BackoffRaises(r.attempts + 1)
    /\ row' = [row EXCEPT ![r.event] =
                  IF answer[p] THEN Sent(@) ELSE Failed(@, r.attempts)]
    /\ batch' = [batch EXCEPT ![p] = @ \ {r}]
    /\ posted' = [posted EXCEPT ![p] = NoClaim]
    /\ answer' = [answer EXCEPT ![p] = FALSE]
    /\ Goto(p, IF batch[p] = {r} THEN "idle" ELSE "post")
    /\ outlived' = StillOutlived
    /\ UNCHANGED <<truth, seen, late, backend, crashes, overtaken>>

\* The process is gone, and the rows it claimed stay as they are.
Quits(p) ==
    /\ Goto(p, "idle")
    /\ seen' = [seen EXCEPT ![p] = NothingSeen]
    /\ batch' = [batch EXCEPT ![p] = {}]
    /\ posted' = [posted EXCEPT ![p] = NoClaim]
    /\ answer' = [answer EXCEPT ![p] = FALSE]
    /\ outlived' = StillOutlived
    /\ UNCHANGED <<truth, row, late, backend, overtaken>>

\* The drain raises where it computes the delay; `lh metrics ingest` reports it.
AckRaises(p) ==
    /\ proc[p] = "ack"
    /\ ~answer[p] /\ BackoffRaises(posted[p].attempts + 1)
    /\ Quits(p)
    /\ UNCHANGED crashes

\* The process is killed, or a statement on the database raises.
Crash(p) ==
    /\ crashes < MaxCrashes /\ proc[p] # "idle"
    /\ crashes' = crashes + 1
    /\ Quits(p)

Post(p) ==
    \/ \E e \in Events : PostAccepted(p, e)
    \/ PostRefused(p)
    \/ PostUnanswered(p)

Step(p) ==
    \/ Enqueue(p)
    \/ EndEnqueue(p)
    \/ ResetBackoff(p)
    \/ Claim(p)
    \/ Post(p)
    \/ Ack(p)
    \/ AckRaises(p)

Init ==
    /\ truth = [e \in Events |-> 0]
    /\ row = [e \in Events |-> NoRow]
    /\ proc = [p \in Procs |-> "idle"]
    /\ seen = [p \in Procs |-> NothingSeen]
    /\ batch = [p \in Procs |-> {}]
    /\ posted = [p \in Procs |-> NoClaim]
    /\ answer = [p \in Procs |-> FALSE]
    /\ late = {}
    /\ backend = [e \in Events |-> 0]
    /\ crashes = 0
    /\ overtaken = {} /\ outlived = {}

Next ==
    \/ Tick
    \/ \E e \in Events : Grow(e)
    \/ ArriveLate
    \/ \E p \in Procs : StartIngest(p) \/ StartDrain(p) \/ Step(p) \/ Crash(p)

Spec == Init /\ [][Next]_vars

\* A process that runs is scheduled and time passes; the scheduler starts
\* ingests again and again; the backend, tried often enough, answers.
FairSpec ==
    /\ Spec
    /\ WF_vars(Tick)
    /\ \A p \in Procs : WF_vars(Step(p)) /\ SF_vars(StartIngest(p))
    /\ \A p \in Procs : \A e \in Events : SF_vars(PostAccepted(p, e))

-----------------------------------------------------------------------------
(* Properties. *)

\* Every variable keeps its shape: the counters stay within their bounds and a
\* process has a label its code reaches.
TypeOK ==
    /\ truth \in [Events -> Versions]
    /\ row \in [Events -> Rows]
    /\ proc \in [Procs -> {"idle", "enqueue", "reset", "claim", "post", "ack"}]
    /\ seen \in [Procs -> [Events -> Versions]]
    /\ batch \in [Procs -> SUBSET Claims]
    /\ posted \in [Procs -> Claims \cup {NoClaim}]
    /\ answer \in [Procs -> BOOLEAN]
    /\ late \in SUBSET Claims
    /\ backend \in [Events -> Versions]
    /\ crashes \in 0 .. MaxCrashes
    /\ {overtaken, outlived} \subseteq SUBSET Events

\* A row is marked sent only when the backend holds what the row says, whoever
\* sent it and however often; unless the row was enqueued anew under a request
\* for what it said before, which mark_sent, going by the key, cannot tell apart.
SentMeansDelivered ==
    \A e \in Events \ overtaken :
        row[e].status = "sent" => backend[e] = row[e].payload

\* Without the exception: not so, what is marked is the row, not what was posted.
SentMeansDeliveredAlways ==
    \A e \in Events : row[e].status = "sent" => backend[e] = row[e].payload

\* Two processes hold a row only after one of them has outlived its lease, or the row was
\* enqueued anew under it: deaths, failures, delays and resets do not lead there.
ClaimExclusive ==
    \A p, q \in Procs : \A r \in batch[p] : \A o \in batch[q] :
        r.event = o.event /\ r.event \notin overtaken \cup outlived => p = q

\* Without the exceptions: not so, the lease is for the batch and not for the row.
NoDoubleSend ==
    \A p, q \in Procs : \A r \in batch[p] : \A o \in batch[q] : r.event = o.event => p = q

\* A row that was delivered is not sent again while it says the same, but for an
\* answer that comes after the lease or after the row has changed.
DeliveredStays ==
    [][\A e \in Events \ (overtaken \cup outlived) :
          row[e].status = "sent" /\ row'[e].payload = row[e].payload =>
              row'[e].status = "sent"]_vars

\* What the transcripts say in the end reaches the backend.
EventuallyDelivered ==
    \A e \in Events \ Rejected : truth[e] = MaxVersion ~> backend[e] = MaxVersion
=============================================================================
