----------------------------- MODULE MetricsStore -----------------------------
(***************************************************************************)
(* The metrics database of a machine between the transcripts it is read     *)
(* from and the backend it is sent to.  `lh metrics ingest` attributes each *)
(* message to the oldest transcript that mentions it, overwrites the rows   *)
(* of session_stats, passes every event to the sinks (the local one stamps  *)
(* identity on the row, the remote one fills sink_outbox).  Agents write,   *)
(* resume and prune transcripts meanwhile; `backfill-host` and              *)
(* `rename-profile` rewrite the same tables.  The drain is MetricsOutbox:   *)
(* here a row is claimed, and sent some time later as it was.               *)
(***************************************************************************)
EXTENDS Naturals

CONSTANTS
    Sessions,      \* transcripts, one per session
    Messages,      \* message ids of the provider
    Procs,         \* lh processes alive at one time
    Old, New,      \* the profile before and after it is renamed
    NoName,
    MaxWrites,     \* bound on what agents write
    MaxFaults,    \* bound on processes that die and on ingests that overlap
    Prunes         \* transcripts are deleted after cleanupPeriodDays

Names == {Old, New}

ASSUME StoreAssumption ==
    /\ Old # New /\ NoName \notin Names
    /\ MaxWrites \in Nat /\ MaxFaults \in Nat
    /\ Prunes \in BOOLEAN

VARIABLES
    text,        \* text[s]: the messages a transcript mentions
    mtime,       \* mtime[s]: when the transcript was last written to, 0 when it is not on disk
    writes, faults,
    reopened,    \* whether a transcript was written to without a new message
    tended,      \* a bound: there is an operator, or ingests overlap, but not both
    config,      \* the name of the profile in config.toml
    renamed,     \* whether rename-profile committed
    stats,       \* stats[s]: the row of session_stats, or NoRow
    outbox,      \* outbox[n][s]: the row of sink_outbox under the id of (n, s)
    backend,     \* backend[n][s]: what the backend has under that id
    proc         \* proc[p]: where an ingest is, and its locals

disk == <<text, mtime, writes, reopened>>
names == <<tended, config, renamed>>
vars == <<disk, faults, names, stats, outbox, backend, proc>>

\* A row: the messages whose tokens it sums up, and what identifies it.  `host` is
\* false in what was written before that column existed.
NoRow == [counted |-> {}, profile |-> NoName, key |-> NoName, host |-> FALSE]
NoPayload == [counted |-> {}, host |-> FALSE]
NoEntry == [status |-> "none", payload |-> NoPayload]
Nothing == [s \in Sessions |-> {}]
Idle == [at |-> "idle", name |-> NoName, found |-> Nothing, local |-> {}, remote |-> {},
         fresh |-> TRUE]

OnDisk == {s \in Sessions : mtime[s] > 0}
Counted == UNION {stats[s].counted : s \in Sessions}
Mentioned == UNION {text[s] : s \in Sessions}
HasRow(s) == stats[s].profile # NoName

At(p, place) == proc[p].at = place

-----------------------------------------------------------------------------
(* Transcripts. *)

Written(s) == mtime' = [mtime EXCEPT ![s] = writes']

Write ==
    /\ writes < MaxWrites /\ writes' = writes + 1
    /\ UNCHANGED <<faults, names, stats, outbox, backend, proc>>

\* A turn of a session, which may be its first.
Turn(s) ==
    /\ Write
    /\ s \in OnDisk \/ (text[s] = {} /\ ~HasRow(s))
    /\ \E m \in Messages \ Mentioned : text' = [text EXCEPT ![s] = @ \cup {m}]
    /\ Written(s)
    /\ UNCHANGED reopened

\* `/resume` starts a transcript with the conversation of another one in it.
Resume(s, t) ==
    /\ Write
    /\ t \in OnDisk /\ text[s] = {} /\ ~HasRow(s)
    /\ text' = [text EXCEPT ![s] = text[t]]
    /\ Written(s)
    /\ UNCHANGED reopened

\* Lines without token usage: a session is opened again and left.
Reopen(s) ==
    /\ Write
    /\ s \in OnDisk
    /\ Written(s)
    /\ reopened' = TRUE
    /\ UNCHANGED text

Prune(s) ==
    /\ Prunes /\ Write
    /\ s \in OnDisk
    /\ mtime' = [mtime EXCEPT ![s] = 0]
    /\ UNCHANGED <<text, reopened>>

-----------------------------------------------------------------------------
(* Ingest. *)

\* Mutant: each file is read as if it were the only one.
OwnText(s) == text[s]

\* The messages no older file mentions.
Novel(s) == text[s] \ UNION {text[t] : t \in {u \in OnDisk : mtime[u] < mtime[s]}}

Found == [s \in Sessions |-> IF s \in OnDisk THEN Novel(s) ELSE {}]

\* ingest_profile reads every transcript before it writes anything.
Read(p) ==
    /\ At(p, "idle")
    /\ IF \A q \in Procs : At(q, "idle") THEN UNCHANGED faults
       ELSE ~tended /\ faults < MaxFaults /\ faults' = faults + 1
    /\ LET metered == {s \in Sessions : Found[s] # {}}
       IN /\ metered # {}
          /\ proc' = [proc EXCEPT ![p] = [Idle EXCEPT !.at = "stats", !.name = config,
                          !.found = Found, !.local = metered, !.remote = metered]]
    /\ UNCHANGED <<disk, names, stats, outbox, backend>>

\* Mutant: the table is rebuilt from what is on disk.
Rebuilt(p, s) ==
    IF proc[p].found[s] = {} THEN NoRow
    ELSE [stats[s] EXCEPT !.counted = proc[p].found[s], !.profile = proc[p].name]

\* ON CONFLICT(session, model) DO UPDATE: event_id and host stay what they were.
Upserted(p, s) ==
    IF proc[p].found[s] = {} THEN stats[s]
    ELSE [stats[s] EXCEPT !.counted = proc[p].found[s], !.profile = proc[p].name]

\* upsert_stats: all rows of the run, one commit.
UpsertStats(p) ==
    /\ At(p, "stats")
    /\ stats' = [s \in Sessions |-> Upserted(p, s)]
    /\ proc' = [q \in Procs |-> IF q = p THEN [proc[p] EXCEPT !.at = "local"]
                                ELSE [proc[q] EXCEPT !.fresh = ~At(q, "stats")]]
    /\ UNCHANGED <<disk, faults, names, outbox, backend>>

\* upsert_event: the whole row again, with its identity.
Stamped(p, s) ==
    [counted |-> proc[p].found[s], profile |-> proc[p].name, key |-> proc[p].name, host |-> TRUE]

\* The sqlite_local sink: one event, one commit.
WriteLocal(p) ==
    /\ At(p, "local")
    /\ \E s \in proc[p].local :
        /\ stats' = [stats EXCEPT ![s] = Stamped(p, s)]
        /\ proc' = [proc EXCEPT ![p].local = @ \ {s},
                        ![p].at = IF proc[p].local = {s} THEN "remote" ELSE @]
    /\ UNCHANGED <<disk, faults, names, outbox, backend>>

\* Mutant: a row once queued stays as it is.
QueuedOnce(n, s, payload) ==
    IF outbox[n][s].status # "none" THEN outbox[n][s]
    ELSE [status |-> "pending", payload |-> payload]

\* outbox_enqueue leaves a row with this payload alone, and replaces any other.
Queued(n, s, payload) ==
    IF outbox[n][s].status # "none" /\ outbox[n][s].payload = payload THEN outbox[n][s]
    ELSE [status |-> "pending", payload |-> payload]

\* The http_remote sink.
Enqueue(p) ==
    /\ At(p, "remote")
    /\ \E s \in proc[p].remote :
        /\ outbox' = [outbox EXCEPT ![proc[p].name][s] =
                Queued(proc[p].name, s, [counted |-> proc[p].found[s], host |-> TRUE])]
        /\ proc' = [proc EXCEPT ![p] = IF proc[p].remote = {s} THEN Idle
                                       ELSE [proc[p] EXCEPT !.remote = @ \ {s}]]
    /\ UNCHANGED <<disk, faults, names, stats, backend>>

\* outbox_claim.
Claim(n, s) ==
    /\ outbox[n][s].status = "pending"
    /\ outbox' = [outbox EXCEPT ![n][s].status = "sending"]
    /\ UNCHANGED <<disk, faults, names, stats, backend, proc>>

\* The POST and outbox_mark_sent; a row left in sending is claimed again in the end.
Send(n, s) ==
    /\ outbox[n][s].status = "sending"
    /\ outbox' = [outbox EXCEPT ![n][s].status = "sent"]
    /\ backend' = [backend EXCEPT ![n][s] = outbox[n][s].payload]
    /\ UNCHANGED <<disk, faults, names, stats, proc>>

Crash(p) ==
    /\ ~At(p, "idle") /\ faults < MaxFaults
    /\ faults' = faults + 1
    /\ proc' = [proc EXCEPT ![p] = Idle]
    /\ UNCHANGED <<disk, names, stats, outbox, backend>>

-----------------------------------------------------------------------------
(* The commands that rewrite the tables. *)

\* Mutant: the payload is corrected, and stays sent.
Corrected(n, s) == [outbox[n][s] EXCEPT !.payload.host = TRUE]

Requeued(n, s) == [status |-> "pending", payload |-> [outbox[n][s].payload EXCEPT !.host = TRUE]]

\* backfill_host: stamps the rows without a host and queues again what was sent
\* without one, each under the id its row has now.
BackfillHost ==
    /\ tended
    /\ \E s \in Sessions : HasRow(s) /\ ~stats[s].host
    /\ stats' = [s \in Sessions |-> IF HasRow(s) THEN [stats[s] EXCEPT !.host = TRUE] ELSE stats[s]]
    /\ outbox' = [n \in Names |-> [s \in Sessions |->
            IF stats[s].key = n /\ outbox[n][s].status # "none" /\ ~outbox[n][s].payload.host
            THEN Requeued(n, s)
            ELSE outbox[n][s]]]
    /\ UNCHANGED <<disk, faults, names, backend, proc>>

\* The profile is declared under its new name; ingests that run have read the old one.
Reconfigure ==
    /\ tended /\ config = Old
    /\ config' = New
    /\ UNCHANGED <<disk, faults, tended, renamed, stats, outbox, backend, proc>>

\* What a pending row must not be for the rename to go on: under an id of a row of the
\* old name, with the old name in its payload, or under an id no row has.
RefersToOld(n, s) ==
    \/ stats[s].profile = Old /\ stats[s].key = n
    \/ n = Old
    \/ stats[s].key # n

\* rename_profile, one transaction.
Rename ==
    /\ config = New /\ ~renamed
    /\ \A n \in Names, s \in Sessions : outbox[n][s].status = "pending" => ~RefersToOld(n, s)
    /\ stats' = [s \in Sessions |-> IF stats[s].profile = Old
                     THEN [stats[s] EXCEPT !.profile = New, !.key = New] ELSE stats[s]]
    /\ renamed' = TRUE
    /\ UNCHANGED <<disk, faults, tended, config, outbox, backend, proc>>

-----------------------------------------------------------------------------
\* A database that is tended has a session from before the host column, whose transcript
\* is gone and which was sent.
Veteran == CHOOSE s \in Sessions : TRUE
Before(s) == [NoRow EXCEPT !.profile = Old, !.key = Old]

Init ==
    /\ text = Nothing /\ mtime = [s \in Sessions |-> 0] /\ writes = 0 /\ faults = 0 /\ reopened = FALSE
    /\ tended \in BOOLEAN /\ config = Old /\ renamed = FALSE
    /\ stats = [s \in Sessions |-> IF tended /\ s = Veteran THEN Before(s) ELSE NoRow]
    /\ outbox = [n \in Names |-> [s \in Sessions |->
            [NoEntry EXCEPT !.status = IF tended /\ n = Old /\ s = Veteran THEN "sent" ELSE @]]]
    /\ backend = [n \in Names |-> [s \in Sessions |-> NoPayload]]
    /\ proc = [p \in Procs |-> Idle]

Step(p) == UpsertStats(p) \/ WriteLocal(p) \/ Enqueue(p)

Next ==
    \/ \E s \in Sessions : Turn(s) \/ Reopen(s) \/ Prune(s) \/ \E t \in Sessions : Resume(s, t)
    \/ \E p \in Procs : Read(p) \/ Step(p) \/ Crash(p)
    \/ \E n \in Names, s \in Sessions : Claim(n, s) \/ Send(n, s)
    \/ BackfillHost \/ Reconfigure \/ Rename

\* Processes run on; the scheduler starts ingests and drains for ever.
Fairness ==
    /\ \A p \in Procs : WF_vars(Step(p)) /\ WF_vars(Read(p))
    /\ \A n \in Names, s \in Sessions : WF_vars(Claim(n, s) \/ Send(n, s))

Spec == Init /\ [][Next]_vars
FairSpec == Spec /\ Fairness

-----------------------------------------------------------------------------
(* Properties. *)

\* No run takes away what a run has counted, whatever was written, resumed or pruned in
\* between: the cost of the past does not shrink.  A run that was overtaken by another
\* since it read may, until the next one.
CountedStays ==
    [][\A p \in Procs : UpsertStats(p) /\ proc[p].fresh => Counted \subseteq Counted']_vars

Disjoint == \A s, t \in Sessions : s # t => stats[s].counted \cap stats[t].counted = {}
AllOnDisk == {s \in Sessions : text[s] # {}} \subseteq OnDisk

\* A run that was not overtaken leaves every message in one row, however conversations
\* were resumed, as long as no transcript was deleted, or opened again and left.
CountedOnce ==
    [][\A p \in Procs :
        UpsertStats(p) /\ proc[p].fresh /\ AllOnDisk /\ ~reopened => Disjoint']_vars

\* What is counted is counted once and for good.
TotalsRight == CountedOnce /\ CountedStays

\* Without the condition: not so, a row of which all messages went to another
\* transcript is not written again.
CountedOnceAlways ==
    [][\A p \in Procs : UpsertStats(p) /\ proc[p].fresh /\ AllOnDisk => Disjoint']_vars

\* When agents and operators rest, every message on disk is counted, and the backend has
\* every row under the id it has now, with what it counts; of the rows nothing is said
\* once a transcript was opened again and left, see CountedOnceAlways.
EventuallyReported ==
    <>[](\A s \in OnDisk :
            /\ text[s] \subseteq Counted
            /\ stats[s].counted = {} \/ reopened
               \/ /\ stats[s].profile = config /\ stats[s].key = config
                  /\ backend[config][s].counted = stats[s].counted)

\* What a session was sent without, its host, reaches the backend once it is stamped,
\* although nothing is left to read the session from.
HostReaches ==
    [](tended /\ stats[Veteran].host /\ stats[Veteran].key = Old => <>(backend[Old][Veteran].host))

\* The same when the profile is renamed before: not so, the row has another id then, and
\* backfill-host finds what was sent by the id.
HostReachesRenamed ==
    [](tended /\ stats[Veteran].host => <>(\E n \in Names : backend[n][Veteran].host))

\* Once the rename is done, nothing is sent under an id of the old name: not so, the
\* guard counts the rows that are pending and not those being sent.
OldNameSilent == [][renamed => backend'[Old] = backend[Old]]_vars
-----------------------------------------------------------------------------
(* The inductive invariant behind TotalsRight. *)

Row == [counted : SUBSET Messages, profile : Names \cup {NoName}, key : Names \cup {NoName},
        host : BOOLEAN]
Payload == [counted : SUBSET Messages, host : BOOLEAN]
Entry == [status : {"none", "pending", "sending", "sent"}, payload : Payload]
Ingest == [at : {"idle", "stats", "local", "remote"}, name : Names \cup {NoName},
           found : [Sessions -> SUBSET Messages], local : SUBSET Sessions,
           remote : SUBSET Sessions, fresh : BOOLEAN]

\* Every variable keeps its shape, and nothing was written in the future.
TypeOK ==
    /\ text \in [Sessions -> SUBSET Messages]
    /\ writes \in 0 .. MaxWrites /\ mtime \in [Sessions -> 0 .. writes]
    /\ faults \in 0 .. MaxFaults
    /\ reopened \in BOOLEAN /\ tended \in BOOLEAN /\ renamed \in BOOLEAN
    /\ config \in Names
    /\ stats \in [Sessions -> Row]
    /\ outbox \in [Names -> [Sessions -> Entry]]
    /\ backend \in [Names -> [Sessions -> Payload]]
    /\ proc \in [Procs -> Ingest]

\* What is on disk has messages in it, and was not written at the same time.
DiskInv ==
    /\ \A s \in OnDisk : text[s] # {}
    /\ \A s, t \in OnDisk : mtime[s] = mtime[t] => s = t

\* Messages are counted, or about to be, in a session that mentions them, and a run
\* has found each in one session.
FoundInv ==
    /\ \A s \in Sessions : stats[s].counted \subseteq text[s]
    /\ \A p \in Procs :
        /\ \A s \in Sessions : proc[p].found[s] \subseteq text[s]
        /\ \A s, t \in Sessions : s # t => proc[p].found[s] \cap proc[p].found[t] = {}
        /\ \A s \in proc[p].local : proc[p].found[s] # {}

\* A run that has read and was not overtaken.
ToUpsert(p) == At(p, "stats") /\ proc[p].fresh

\* The rows that q has still to write.
ToWrite(q) == {s \in proc[q].local : At(q, "local")}

FoundBy(p) == UNION {proc[p].found[s] : s \in Sessions}

\* What is in a row such a run replaces, or will be put there by another one
\* meanwhile, it has found somewhere.
CoversInv ==
    \A p \in Procs : ToUpsert(p) =>
        \A s \in Sessions : proc[p].found[s] # {} =>
            /\ stats[s].counted \subseteq FoundBy(p)
            /\ \A q \in Procs : s \in ToWrite(q) => proc[q].found[s] \subseteq FoundBy(p)

\* As long as no transcript was deleted, or opened again and left, a session that
\* once was the oldest to mention some message still is, and is found so.
OwnersInv ==
    AllOnDisk /\ ~reopened =>
        /\ \A s \in Sessions :
            stats[s].counted # {} \/ (\E p \in Procs : proc[p].found[s] # {}) => Found[s] # {}
        /\ \A p \in Procs : ToUpsert(p) =>
            \A s \in Sessions :
                stats[s].counted # {} \/ (\E q \in Procs : s \in ToWrite(q)) => proc[p].found[s] # {}

TotalsInv == TypeOK /\ DiskInv /\ FoundInv /\ CoversInv /\ OwnersInv
=============================================================================
