-------------------------- MODULE MetricsStoreProofs --------------------------
(***************************************************************************)
(* What MetricsStore promises for any number of transcripts, messages and  *)
(* processes, whatever is resumed, pruned, renamed or stamped meanwhile:    *)
(* a run that was not overtaken takes nothing away from what was counted,   *)
(* and counts nothing twice.                                                *)
(***************************************************************************)
EXTENDS MetricsStore, WellFoundedInduction, TLAPS

-----------------------------------------------------------------------------
(* Who owns a message. *)

\* A set of numbers that is not empty has a least member.
LEMMA Least ==
  ASSUME NEW S \in SUBSET Nat, S # {}
  PROVE  \E n \in S : \A m \in S : n <= m
  <1>. DEFINE Below == {r \in Nat \X Nat : r[1] < r[2]}
  <1>1. IsWellFoundedOn(Below, Nat)
    <2>1. OpToRel(<, Nat) = Below
      BY DEF OpToRel
    <2>. QED BY <2>1, NatLessThanWellFounded
  <1>2. \E n \in S : \A m \in S : ~(<<m, n>> \in Below)
    <2>. HIDE DEF Below
    <2>. QED BY <1>1, WFMin
  <1>3. \A n, m \in S : ~(<<m, n>> \in Below) => n <= m
    OBVIOUS
  <1>. QED BY <1>2, <1>3

\* The times of the transcripts are numbers.
LEMMA TimesType ==
  ASSUME TypeOK
  PROVE  /\ writes \in Nat /\ writes <= MaxWrites /\ MaxWrites \in Nat
         /\ \A s \in Sessions : mtime[s] \in Nat /\ mtime[s] <= writes
  BY StoreAssumption DEF TypeOK

\* What a session is found to own is text of a transcript on disk.
LEMMA FoundType ==
  ASSUME TypeOK
  PROVE  /\ Found \in [Sessions -> SUBSET Messages]
         /\ \A s \in Sessions : Found[s] \subseteq text[s]
         /\ \A s \in Sessions : Found[s] # {} => s \in OnDisk
  BY DEF TypeOK, Found, Novel

\* Every message on disk is found in the oldest transcript that mentions it.
LEMMA OldestOwns ==
  ASSUME TypeOK, NEW s \in OnDisk, NEW m \in text[s]
  PROVE  \E t \in OnDisk : m \in Found[t]
  <1>. DEFINE times == {mtime[t] : t \in {u \in OnDisk : m \in text[u]}}
  <1>1. times \in SUBSET Nat /\ times # {}
    BY TimesType DEF OnDisk
  <1>2. PICK n \in times : \A k \in times : n <= k
    <2>. HIDE DEF times
    <2>. QED BY <1>1, Least
  <1>3. PICK t \in OnDisk : m \in text[t] /\ n = mtime[t]
    BY <1>2
  <1>4. \A u \in OnDisk : mtime[u] < mtime[t] => m \notin text[u]
    <2>1. SUFFICES ASSUME NEW u \in OnDisk, mtime[u] < mtime[t], m \in text[u] PROVE FALSE
      OBVIOUS
    <2>2. mtime[t] <= mtime[u]
      BY <1>2, <1>3, <2>1
    <2>3. mtime[u] \in Nat /\ mtime[t] \in Nat
      BY TimesType DEF OnDisk
    <2>. QED BY <2>1, <2>2, <2>3
  <1>. QED BY <1>3, <1>4 DEF Found, Novel, OnDisk

\* And in no other.
LEMMA FoundOnce ==
  ASSUME TypeOK, DiskInv, NEW s \in Sessions, NEW t \in Sessions, s # t
  PROVE  Found[s] \cap Found[t] = {}
  <1>1. SUFFICES ASSUME NEW m \in Found[s], m \in Found[t] PROVE FALSE
    OBVIOUS
  <1>2. s \in OnDisk /\ t \in OnDisk /\ m \in text[s] /\ m \in text[t]
    BY <1>1, FoundType
  <1>3. ~(mtime[s] < mtime[t]) /\ ~(mtime[t] < mtime[s])
    BY <1>1, <1>2 DEF Found, Novel
  <1>4. mtime[s] = mtime[t]
    BY <1>3, TimesType
  <1>. QED BY <1>2, <1>4 DEF DiskInv

-----------------------------------------------------------------------------
(* Types. *)

\* The values that records are made from.
LEMMA ValuesType ==
  /\ Nothing \in [Sessions -> SUBSET Messages]
  /\ NoRow \in Row /\ NoPayload \in Payload /\ NoEntry \in Entry /\ Idle \in Ingest
  /\ \A s \in Sessions : Before(s) \in Row
  <1>1. Nothing \in [Sessions -> SUBSET Messages]
    BY DEF Nothing
  <1>. QED BY <1>1 DEF NoRow, NoPayload, NoEntry, Idle, Row, Payload, Entry, Ingest, Before, Names

\* The fields of a run's record.
LEMMA IngestFields ==
  ASSUME TypeOK, NEW p \in Procs
  PROVE  /\ proc[p] \in Ingest
         /\ proc[p].name \in Names \cup {NoName}
         /\ proc[p].found \in [Sessions -> SUBSET Messages]
         /\ proc[p].local \in SUBSET Sessions /\ proc[p].remote \in SUBSET Sessions
         /\ proc[p].fresh \in BOOLEAN
  <1>1. proc[p] \in Ingest
    BY DEF TypeOK
  <1>. QED BY <1>1 DEF Ingest

\* The fields of a row.
LEMMA RowFields ==
  ASSUME TypeOK, NEW s \in Sessions
  PROVE  /\ stats[s] \in Row
         /\ stats[s].counted \in SUBSET Messages
         /\ stats[s].profile \in Names \cup {NoName}
         /\ stats[s].key \in Names \cup {NoName}
         /\ stats[s].host \in BOOLEAN
  <1>1. stats[s] \in Row
    BY DEF TypeOK
  <1>. QED BY <1>1 DEF Row

\* The fields of an entry of the outbox.
LEMMA EntryFields ==
  ASSUME TypeOK, NEW n \in Names, NEW s \in Sessions
  PROVE  /\ outbox[n][s] \in Entry /\ outbox[n] \in [Sessions -> Entry]
         /\ outbox[n][s].payload \in Payload
         /\ outbox[n][s].payload.counted \in SUBSET Messages
  <1>1. outbox[n] \in [Sessions -> Entry] /\ outbox[n][s] \in Entry
    BY DEF TypeOK
  <1>. QED BY <1>1 DEF Entry, Payload

\* A write of an agent changes transcripts only.
LEMMA WriteTypes ==
  ASSUME TypeOK, Write, NEW s \in Sessions, text' \in [Sessions -> SUBSET Messages],
         Written(s) \/ mtime' = [mtime EXCEPT ![s] = 0], reopened' \in BOOLEAN
  PROVE  TypeOK'
  <1>1. writes \in Nat /\ writes' = writes + 1 /\ writes' \in 0 .. MaxWrites
    BY TimesType DEF Write, TypeOK
  <1>2. mtime' \in [Sessions -> 0 .. writes']
    BY <1>1 DEF TypeOK, Written
  <1>. QED BY <1>1, <1>2 DEF TypeOK, Write, names

\* Transcripts keep their shape.
LEMMA TurnTypes ==
  ASSUME TypeOK, NEW s \in Sessions, Turn(s)
  PROVE  TypeOK'
  <1>1. PICK m \in Messages \ Mentioned : text' = [text EXCEPT ![s] = @ \cup {m}]
    BY DEF Turn
  <1>2. text' \in [Sessions -> SUBSET Messages]
    BY <1>1 DEF TypeOK
  <1>. QED BY <1>2, WriteTypes DEF Turn, TypeOK

LEMMA ResumeTypes ==
  ASSUME TypeOK, NEW s \in Sessions, NEW t \in Sessions, Resume(s, t)
  PROVE  TypeOK'
  <1>1. text' \in [Sessions -> SUBSET Messages]
    BY DEF Resume, TypeOK
  <1>. QED BY <1>1, WriteTypes DEF Resume, TypeOK

LEMMA ReopenTypes ==
  ASSUME TypeOK, NEW s \in Sessions, Reopen(s)
  PROVE  TypeOK'
  BY WriteTypes DEF Reopen, TypeOK

LEMMA PruneTypes ==
  ASSUME TypeOK, NEW s \in Sessions, Prune(s)
  PROVE  TypeOK'
  BY WriteTypes DEF Prune, TypeOK

\* A run keeps its shape.
LEMMA ReadTypes ==
  ASSUME TypeOK, NEW p \in Procs, Read(p)
  PROVE  TypeOK'
  <1>1. PICK metered \in SUBSET Sessions :
           proc' = [proc EXCEPT ![p] = [Idle EXCEPT !.at = "stats", !.name = config,
                          !.found = Found, !.local = metered, !.remote = metered]]
    BY DEF Read
  <1>2. [Idle EXCEPT !.at = "stats", !.name = config, !.found = Found, !.local = metered,
                     !.remote = metered] \in Ingest
    BY ValuesType, FoundType DEF Ingest, TypeOK
  <1>3. proc' \in [Procs -> Ingest]
    BY <1>1, <1>2 DEF TypeOK
  <1>4. faults' \in 0 .. MaxFaults
    BY StoreAssumption DEF Read, TypeOK
  <1>. QED BY <1>3, <1>4 DEF Read, TypeOK, disk, names

LEMMA UpsertTypes ==
  ASSUME TypeOK, NEW p \in Procs, UpsertStats(p)
  PROVE  TypeOK'
  <1>1. \A s \in Sessions : Upserted(p, s) \in Row
    BY RowFields, IngestFields DEF Upserted, Row
  <1>2. stats' \in [Sessions -> Row]
    BY <1>1 DEF UpsertStats
  <1>3. \A q \in Procs : [proc[q] EXCEPT !.at = "local"] \in Ingest
                         /\ [proc[q] EXCEPT !.fresh = ~At(q, "stats")] \in Ingest
    BY IngestFields DEF Ingest
  <1>4. proc' \in [Procs -> Ingest]
    BY <1>3 DEF UpsertStats
  <1>. QED BY <1>2, <1>4 DEF UpsertStats, TypeOK, disk, names

LEMMA LocalTypes ==
  ASSUME TypeOK, NEW p \in Procs, WriteLocal(p)
  PROVE  TypeOK'
  <1>1. PICK s \in proc[p].local :
           /\ stats' = [stats EXCEPT ![s] = Stamped(p, s)]
           /\ proc' = [proc EXCEPT ![p].local = @ \ {s},
                           ![p].at = IF proc[p].local = {s} THEN "remote" ELSE @]
    BY DEF WriteLocal
  <1>2. s \in Sessions /\ Stamped(p, s) \in Row
    BY IngestFields DEF Stamped, Row
  <1>3. [proc[p] EXCEPT !.local = @ \ {s}, !.at = IF proc[p].local = {s} THEN "remote" ELSE @]
          \in Ingest
    BY IngestFields DEF Ingest
  <1>4. stats' \in [Sessions -> Row] /\ proc' \in [Procs -> Ingest]
    BY <1>1, <1>2, <1>3 DEF TypeOK
  <1>. QED BY <1>4 DEF WriteLocal, TypeOK, disk, names

LEMMA EnqueueTypes ==
  ASSUME TypeOK, NEW p \in Procs, Enqueue(p)
  PROVE  TypeOK'
  <1>. DEFINE payload(s) == [counted |-> proc[p].found[s], host |-> TRUE]
  <1>1. PICK s \in proc[p].remote :
           /\ outbox' = [outbox EXCEPT ![proc[p].name][s] = Queued(proc[p].name, s, payload(s))]
           /\ proc' = [proc EXCEPT ![p] = IF proc[p].remote = {s} THEN Idle
                                          ELSE [proc[p] EXCEPT !.remote = @ \ {s}]]
    BY DEF Enqueue
  <1>2. s \in Sessions /\ payload(s) \in Payload
    BY IngestFields DEF Payload
  <1>3. ASSUME proc[p].name \in Names PROVE Queued(proc[p].name, s, payload(s)) \in Entry
    <2>. HIDE DEF payload
    <2>. QED BY <1>2, <1>3, EntryFields DEF Queued, Entry
  <1>4. outbox' \in [Names -> [Sessions -> Entry]]
    <2>. HIDE DEF payload
    <2>. QED BY <1>1, <1>2, <1>3, EntryFields DEF TypeOK
  <1>5. [proc[p] EXCEPT !.remote = @ \ {s}] \in Ingest
    BY IngestFields DEF Ingest
  <1>6. proc' \in [Procs -> Ingest]
    <2>1. proc \in [Procs -> Ingest] /\ Idle \in Ingest
      BY ValuesType DEF TypeOK
    <2>. QED BY <1>1, <1>5, <2>1
  <1>. QED BY <1>4, <1>6 DEF Enqueue, TypeOK, disk, names

LEMMA CrashTypes ==
  ASSUME TypeOK, NEW p \in Procs, Crash(p)
  PROVE  TypeOK'
  <1>1. proc' \in [Procs -> Ingest]
    BY ValuesType DEF Crash, TypeOK
  <1>2. faults' \in 0 .. MaxFaults
    BY StoreAssumption DEF Crash, TypeOK
  <1>. QED BY <1>1, <1>2 DEF Crash, TypeOK, disk, names

\* The outbox and the backend keep theirs.
LEMMA ClaimTypes ==
  ASSUME TypeOK, NEW n \in Names, NEW s \in Sessions, Claim(n, s)
  PROVE  TypeOK'
  <1>1. [outbox[n][s] EXCEPT !.status = "sending"] \in Entry
    BY EntryFields DEF Entry
  <1>2. outbox' \in [Names -> [Sessions -> Entry]]
    BY <1>1 DEF Claim, TypeOK
  <1>. QED BY <1>2 DEF Claim, TypeOK, disk, names

LEMMA SendTypes ==
  ASSUME TypeOK, NEW n \in Names, NEW s \in Sessions, Send(n, s)
  PROVE  TypeOK'
  <1>1. [outbox[n][s] EXCEPT !.status = "sent"] \in Entry
    BY EntryFields DEF Entry
  <1>2. outbox' \in [Names -> [Sessions -> Entry]]
    BY <1>1 DEF Send, TypeOK
  <1>3. backend' \in [Names -> [Sessions -> Payload]]
    BY EntryFields DEF Send, TypeOK
  <1>. QED BY <1>2, <1>3 DEF Send, TypeOK, disk, names

\* And so do the rows that the commands rewrite.
LEMMA BackfillTypes ==
  ASSUME TypeOK, BackfillHost
  PROVE  TypeOK'
  <1>1. \A s \in Sessions : [stats[s] EXCEPT !.host = TRUE] \in Row
    BY RowFields DEF Row
  <1>2. stats' \in [Sessions -> Row]
    <2>1. \A s \in Sessions : stats[s] \in Row
      BY RowFields
    <2>. QED BY <1>1, <2>1 DEF BackfillHost
  <1>3. \A n \in Names, s \in Sessions : Requeued(n, s) \in Entry
    BY EntryFields DEF Requeued, Entry, Payload
  <1>4. outbox' \in [Names -> [Sessions -> Entry]]
    BY <1>3, EntryFields DEF BackfillHost
  <1>. QED BY <1>2, <1>4 DEF BackfillHost, TypeOK, disk, names

LEMMA ReconfigureTypes ==
  ASSUME TypeOK, Reconfigure
  PROVE  TypeOK'
  BY DEF Reconfigure, TypeOK, disk, Names

LEMMA RenameTypes ==
  ASSUME TypeOK, Rename
  PROVE  TypeOK'
  <1>1. \A s \in Sessions : [stats[s] EXCEPT !.profile = New, !.key = New] \in Row
    BY RowFields DEF Row, Names
  <1>2. stats' \in [Sessions -> Row]
    BY <1>1, RowFields DEF Rename
  <1>. QED BY <1>2 DEF Rename, TypeOK, disk

LEMMA InitTypes ==
  ASSUME Init
  PROVE  TypeOK
  <1>1. stats \in [Sessions -> Row]
    BY ValuesType DEF Init
  <1>2. \A status \in {"none", "sent"} : [NoEntry EXCEPT !.status = status] \in Entry
    BY ValuesType DEF Entry
  <1>3. outbox \in [Names -> [Sessions -> Entry]]
    <2>1. \A n \in Names, s \in Sessions :
             [NoEntry EXCEPT !.status = IF tended /\ n = Old /\ s = Veteran THEN "sent" ELSE @]
               \in Entry
      BY <1>2 DEF NoEntry
    <2>. QED BY <2>1 DEF Init
  <1>4. backend \in [Names -> [Sessions -> Payload]] /\ proc \in [Procs -> Ingest]
    BY ValuesType DEF Init
  <1>5. text \in [Sessions -> SUBSET Messages]
    BY ValuesType DEF Init
  <1>6. /\ writes \in 0 .. MaxWrites /\ mtime \in [Sessions -> 0 .. writes]
        /\ faults \in 0 .. MaxFaults /\ config \in Names
    BY StoreAssumption DEF Init, Names
  <1>7. reopened \in BOOLEAN /\ tended \in BOOLEAN /\ renamed \in BOOLEAN
    BY DEF Init
  <1>. QED BY <1>1, <1>3, <1>4, <1>5, <1>6, <1>7 DEF TypeOK

-----------------------------------------------------------------------------
(* What the steps of agents leave of the invariant. *)

Undisturbed == AllOnDisk /\ ~reopened

\* Whatever changes, the invariant only looks at transcripts, at what is counted and at
\* the runs.
LEMMA OthersKeep ==
  ASSUME TypeOK, DiskInv, FoundInv, CoversInv, OwnersInv, UNCHANGED <<disk, proc>>,
         \A s \in Sessions : stats'[s].counted = stats[s].counted
  PROVE  DiskInv' /\ FoundInv' /\ CoversInv' /\ OwnersInv'
  <1>1. /\ text' = text /\ mtime' = mtime /\ reopened' = reopened /\ proc' = proc
        /\ OnDisk' = OnDisk /\ Found' = Found /\ AllOnDisk' = AllOnDisk
    BY DEF disk, OnDisk, Found, Novel, AllOnDisk
  <1>2. DiskInv'
    BY <1>1 DEF DiskInv
  <1>3. FoundInv'
    BY <1>1 DEF FoundInv
  <1>4. CoversInv'
    BY <1>1 DEF CoversInv, ToUpsert, ToWrite, FoundBy, At
  <1>5. OwnersInv'
    BY <1>1 DEF OwnersInv, ToUpsert, ToWrite, At
  <1>. QED BY <1>2, <1>3, <1>4, <1>5

\* While transcripts only get longer, a run has read what is in them.
LEMMA LongerKeep ==
  ASSUME FoundInv, CoversInv, UNCHANGED <<stats, proc>>,
         \A s \in Sessions : text[s] \subseteq text'[s]
  PROVE  FoundInv' /\ CoversInv'
  <1>1. FoundInv'
    BY DEF FoundInv
  <1>2. CoversInv'
    BY DEF CoversInv, ToUpsert, ToWrite, FoundBy, At
  <1>. QED BY <1>1, <1>2

\* And who owned a message then, owns one now.
LEMMA OwnersKeep ==
  ASSUME OwnersInv, UNCHANGED <<stats, proc>>, Undisturbed' => Undisturbed,
         \A s \in Sessions : Undisturbed' /\ Found[s] # {} => Found'[s] # {}
  PROVE  OwnersInv'
  <1>1. SUFFICES ASSUME Undisturbed' PROVE
          /\ \A s \in Sessions : stats'[s].counted # {} \/ (\E p \in Procs : proc'[p].found[s] # {})
                => Found'[s] # {}
          /\ \A p \in Procs : ToUpsert(p)' => \A s \in Sessions :
                stats'[s].counted # {} \/ (\E q \in Procs : s \in ToWrite(q)')
                   => proc'[p].found[s] # {}
    BY DEF OwnersInv, Undisturbed
  <1>2. \A s \in Sessions : stats[s].counted # {} \/ (\E p \in Procs : proc[p].found[s] # {})
                => Found[s] # {}
    BY <1>1 DEF OwnersInv, Undisturbed
  <1>3. \A p \in Procs : ToUpsert(p) => \A s \in Sessions :
                stats[s].counted # {} \/ (\E q \in Procs : s \in ToWrite(q))
                   => proc[p].found[s] # {}
    BY <1>1 DEF OwnersInv, Undisturbed
  <1>4. \A p \in Procs : ToUpsert(p)' = ToUpsert(p) /\ ToWrite(p)' = ToWrite(p)
    BY DEF ToUpsert, ToWrite, At
  <1>. QED BY <1>1, <1>2, <1>3, <1>4

\* A transcript that is written to is the newest.
LEMMA NewestWritten ==
  ASSUME TypeOK, NEW s \in Sessions, Write, Written(s)
  PROVE  /\ mtime'[s] = writes + 1 /\ s \in OnDisk'
         /\ \A t \in Sessions \ {s} : mtime'[t] = mtime[t] /\ mtime'[t] < mtime'[s]
         /\ \A t \in Sessions \ {s} : t \in OnDisk' <=> t \in OnDisk
  <1>1. mtime' = [mtime EXCEPT ![s] = writes + 1] /\ mtime \in [Sessions -> 0 .. writes]
        /\ writes \in Nat
    BY TimesType DEF Write, Written, TypeOK
  <1>2. mtime'[s] = writes + 1 /\ writes + 1 > 0
        /\ \A t \in Sessions \ {s} : mtime'[t] = mtime[t] /\ mtime'[t] < mtime'[s]
    BY <1>1
  <1>. QED BY <1>2 DEF OnDisk

\* No other transcript is newer than before.
LEMMA WrittenDisk ==
  ASSUME TypeOK, DiskInv, NEW s \in Sessions, Write, Written(s), text'[s] # {},
         \A t \in Sessions \ {s} : text'[t] = text[t]
  PROVE  DiskInv'
  <1>1. \A t \in OnDisk' : text'[t] # {}
    BY NewestWritten DEF DiskInv, OnDisk
  <1>2. ASSUME NEW t \in OnDisk', NEW u \in OnDisk', mtime'[t] = mtime'[u] PROVE t = u
    <2>1. t \in Sessions /\ u \in Sessions
      BY DEF OnDisk
    <2>2. CASE t # s /\ u # s
      BY <1>2, <2>1, <2>2, NewestWritten DEF DiskInv
    <2>3. CASE t = s \/ u = s
      <3>1. \A v \in Sessions \ {s} : mtime'[v] < mtime'[s] /\ mtime'[v] \in Nat
        BY NewestWritten, TimesType
      <3>. QED BY <1>2, <2>1, <2>3, <3>1
    <2>. QED BY <2>2, <2>3
  <1>. QED BY <1>1, <1>2 DEF DiskInv

\* So the others own what they owned.
LEMMA WrittenFound ==
  ASSUME TypeOK, NEW s \in Sessions, Write, Written(s),
         \A t \in Sessions \ {s} : text'[t] = text[t],
         NEW t \in Sessions, t # s, Found[t] # {}
  PROVE  Found'[t] # {}
  <1>1. PICK m \in Found[t] : TRUE
    OBVIOUS
  <1>2. t \in OnDisk /\ m \in text[t] /\ \A u \in OnDisk : mtime[u] < mtime[t] => m \notin text[u]
    BY <1>1, FoundType DEF Found, Novel
  <1>3. t \in OnDisk' /\ m \in text'[t]
    BY <1>2, NewestWritten
  <1>4. ASSUME NEW u \in OnDisk', mtime'[u] < mtime'[t] PROVE m \notin text'[u]
    <2>1. u \in Sessions /\ mtime'[t] < mtime'[s] /\ mtime'[t] \in Nat /\ mtime'[s] \in Nat
      BY NewestWritten, TimesType DEF OnDisk
    <2>2. u # s
      BY <1>4, <2>1
    <2>3. u \in OnDisk /\ mtime[u] < mtime[t]
      BY <1>4, <2>1, <2>2, NewestWritten
    <2>. QED BY <1>2, <2>1, <2>2, <2>3
  <1>5. m \in Found'[t]
    BY <1>3, <1>4 DEF Found, Novel, OnDisk
  <1>. QED BY <1>5

\* A turn adds a message nobody mentions, which its session owns.
LEMMA TurnKeeps ==
  ASSUME TypeOK, DiskInv, FoundInv, CoversInv, OwnersInv, NEW s \in Sessions, Turn(s)
  PROVE  DiskInv' /\ FoundInv' /\ CoversInv' /\ OwnersInv'
  <1>1. PICK m \in Messages \ Mentioned : text' = [text EXCEPT ![s] = @ \cup {m}]
    BY DEF Turn
  <1>2. /\ Write /\ Written(s) /\ UNCHANGED <<stats, proc, reopened>>
        /\ s \in OnDisk \/ text[s] = {}
    BY DEF Turn, Write
  <1>3. m \in text'[s] /\ \A t \in Sessions : text[t] \subseteq text'[t] /\ (t # s => text'[t] = text[t])
    BY <1>1 DEF TypeOK
  <1>4. DiskInv'
    BY <1>2, <1>3, WrittenDisk
  <1>5. FoundInv' /\ CoversInv'
    BY <1>2, <1>3, LongerKeep
  <1>6. m \in Found'[s]
    <2>1. ASSUME NEW u \in OnDisk', mtime'[u] < mtime'[s] PROVE m \notin text'[u]
      <3>1. u \in Sessions /\ u # s
        BY <1>2, <2>1, NewestWritten, TimesType DEF OnDisk
      <3>. QED BY <1>1, <1>3, <3>1 DEF Mentioned
    <2>2. s \in OnDisk'
      BY <1>2, NewestWritten
    <2>. QED BY <1>3, <2>1, <2>2 DEF Found, Novel, OnDisk
  <1>7. \A t \in Sessions : Found[t] # {} => Found'[t] # {}
    BY <1>2, <1>3, <1>6, WrittenFound
  <1>8. Undisturbed' => Undisturbed
    BY <1>2, <1>3, NewestWritten DEF Undisturbed, AllOnDisk
  <1>9. OwnersInv'
    BY <1>2, <1>7, <1>8, OwnersKeep
  <1>. QED BY <1>4, <1>5, <1>9

\* A transcript that is resumed into another stays the older of the two.
LEMMA ResumeKeeps ==
  ASSUME TypeOK, DiskInv, FoundInv, CoversInv, OwnersInv,
         NEW s \in Sessions, NEW t \in Sessions, Resume(s, t)
  PROVE  DiskInv' /\ FoundInv' /\ CoversInv' /\ OwnersInv'
  <1>1. /\ Write /\ Written(s) /\ UNCHANGED <<stats, proc, reopened>>
        /\ t \in OnDisk /\ text[s] = {}
    BY DEF Resume, Write
  <1>2. text'[s] = text[t] /\ \A u \in Sessions \ {s} : text'[u] = text[u]
    BY DEF Resume, TypeOK
  <1>3. DiskInv'
    BY <1>1, <1>2, WrittenDisk DEF DiskInv
  <1>4. FoundInv' /\ CoversInv'
    BY <1>1, <1>2, LongerKeep
  <1>5. Found[s] = {}
    BY <1>1, FoundType
  <1>6. \A u \in Sessions : Found[u] # {} => Found'[u] # {}
    BY <1>1, <1>2, <1>5, WrittenFound
  <1>7. Undisturbed' => Undisturbed
    BY <1>1, <1>2, NewestWritten DEF Undisturbed, AllOnDisk
  <1>8. OwnersInv'
    BY <1>1, <1>6, <1>7, OwnersKeep
  <1>. QED BY <1>3, <1>4, <1>8

\* One that is opened again and left takes its messages with it: they are no longer the
\* oldest's to own.
LEMMA ReopenKeeps ==
  ASSUME TypeOK, DiskInv, FoundInv, CoversInv, OwnersInv, NEW s \in Sessions, Reopen(s)
  PROVE  DiskInv' /\ FoundInv' /\ CoversInv' /\ OwnersInv'
  <1>1. Write /\ Written(s) /\ UNCHANGED <<stats, proc, text>> /\ reopened' /\ s \in OnDisk
    BY DEF Reopen, Write
  <1>2. DiskInv'
    BY <1>1, WrittenDisk DEF DiskInv
  <1>3. FoundInv' /\ CoversInv'
    BY <1>1, LongerKeep
  <1>4. OwnersInv'
    BY <1>1 DEF OwnersInv
  <1>. QED BY <1>2, <1>3, <1>4

\* And so does one that is deleted.
LEMMA PruneKeeps ==
  ASSUME TypeOK, DiskInv, FoundInv, CoversInv, OwnersInv, NEW s \in Sessions, Prune(s)
  PROVE  DiskInv' /\ FoundInv' /\ CoversInv' /\ OwnersInv'
  <1>1. /\ UNCHANGED <<stats, proc, text>> /\ s \in OnDisk
        /\ mtime' = [mtime EXCEPT ![s] = 0] /\ mtime \in [Sessions -> 0 .. writes]
    BY DEF Prune, Write, TypeOK
  <1>2. mtime'[s] = 0 /\ \A t \in Sessions \ {s} : mtime'[t] = mtime[t]
    BY <1>1
  <1>3. s \notin OnDisk' /\ \A t \in OnDisk' : t \in OnDisk /\ t # s
    BY <1>2 DEF OnDisk
  <1>4. DiskInv'
    BY <1>1, <1>2, <1>3 DEF DiskInv, OnDisk
  <1>5. FoundInv' /\ CoversInv'
    BY <1>1, LongerKeep
  <1>6. ~AllOnDisk'
    BY <1>1, <1>3 DEF AllOnDisk, DiskInv, OnDisk
  <1>7. OwnersInv'
    BY <1>6 DEF OwnersInv
  <1>. QED BY <1>4, <1>5, <1>7

-----------------------------------------------------------------------------
(* And the steps of ingests. *)

\* Where no run that was not overtaken arrives, and none has more to write, nothing is
\* asked of a run that was not asked before.
LEMMA RunsLeave ==
  ASSUME TypeOK, DiskInv, FoundInv, CoversInv, OwnersInv, UNCHANGED <<disk, stats>>,
         \A q \in Procs : ToUpsert(q)' => ToUpsert(q) /\ proc'[q].found = proc[q].found,
         \A q \in Procs : \A s \in ToWrite(q)' :
            s \in ToWrite(q) /\ proc'[q].found[s] = proc[q].found[s],
         \A q \in Procs : \A s \in Sessions : proc'[q].found[s] \in {proc[q].found[s], {}},
         \A q \in Procs : \A s \in proc'[q].local :
            s \in proc[q].local /\ proc'[q].found[s] = proc[q].found[s]
  PROVE  DiskInv' /\ FoundInv' /\ CoversInv' /\ OwnersInv'
  <1>1. /\ text' = text /\ mtime' = mtime /\ reopened' = reopened /\ stats' = stats
        /\ OnDisk' = OnDisk /\ Found' = Found /\ AllOnDisk' = AllOnDisk
    BY DEF disk, OnDisk, Found, Novel, AllOnDisk
  <1>2. DiskInv'
    BY <1>1 DEF DiskInv
  <1>3. FoundInv'
    <2>1. ASSUME NEW q \in Procs, NEW s \in Sessions PROVE proc'[q].found[s] \subseteq text[s]
      BY DEF FoundInv
    <2>2. ASSUME NEW q \in Procs, NEW s \in Sessions, NEW t \in Sessions, s # t
          PROVE  proc'[q].found[s] \cap proc'[q].found[t] = {}
      <3>1. proc[q].found[s] \cap proc[q].found[t] = {}
        BY <2>2 DEF FoundInv
      <3>2. proc'[q].found[s] \subseteq proc[q].found[s] /\ proc'[q].found[t] \subseteq proc[q].found[t]
        OBVIOUS
      <3>. QED BY <3>1, <3>2
    <2>3. ASSUME NEW q \in Procs, NEW s \in proc'[q].local PROVE proc'[q].found[s] # {}
      BY DEF FoundInv
    <2>4. \A s \in Sessions : stats[s].counted \subseteq text[s]
      BY DEF FoundInv
    <2>. QED BY <1>1, <2>1, <2>2, <2>3, <2>4 DEF FoundInv
  <1>4. CoversInv'
    <2>1. SUFFICES ASSUME NEW p \in Procs, ToUpsert(p)', NEW s \in Sessions, proc'[p].found[s] # {}
          PROVE  /\ stats'[s].counted \subseteq FoundBy(p)'
                 /\ \A q \in Procs : s \in ToWrite(q)' => proc'[q].found[s] \subseteq FoundBy(p)'
      BY DEF CoversInv
    <2>2. ToUpsert(p) /\ proc'[p].found = proc[p].found /\ FoundBy(p)' = FoundBy(p)
      BY <2>1 DEF FoundBy
    <2>3. /\ stats[s].counted \subseteq FoundBy(p)
          /\ \A q \in Procs : s \in ToWrite(q) => proc[q].found[s] \subseteq FoundBy(p)
      BY <2>1, <2>2 DEF CoversInv
    <2>. QED BY <1>1, <2>2, <2>3
  <1>5. OwnersInv'
    <2>1. SUFFICES ASSUME AllOnDisk, ~reopened PROVE
          /\ \A s \in Sessions : stats[s].counted # {} \/ (\E p \in Procs : proc'[p].found[s] # {})
                => Found[s] # {}
          /\ \A p \in Procs : ToUpsert(p)' => \A s \in Sessions :
                stats[s].counted # {} \/ (\E q \in Procs : s \in ToWrite(q)')
                   => proc'[p].found[s] # {}
      BY <1>1 DEF OwnersInv
    <2>2. \A s \in Sessions : stats[s].counted # {} \/ (\E p \in Procs : proc[p].found[s] # {})
                => Found[s] # {}
      BY <2>1 DEF OwnersInv
    <2>3. \A p \in Procs : ToUpsert(p) => \A s \in Sessions :
                stats[s].counted # {} \/ (\E q \in Procs : s \in ToWrite(q))
                   => proc[p].found[s] # {}
      BY <2>1 DEF OwnersInv
    <2>. QED BY <2>2, <2>3
  <1>. QED BY <1>2, <1>3, <1>4, <1>5

\* A run that dies forgets what it found.
LEMMA CrashKeeps ==
  ASSUME TypeOK, DiskInv, FoundInv, CoversInv, OwnersInv, NEW p \in Procs, Crash(p)
  PROVE  DiskInv' /\ FoundInv' /\ CoversInv' /\ OwnersInv'
  <1>1. proc' = [proc EXCEPT ![p] = Idle] /\ proc \in [Procs -> Ingest] /\ UNCHANGED <<disk, stats>>
    BY DEF Crash, TypeOK
  <1>2. proc'[p] = Idle /\ \A q \in Procs \ {p} : proc'[q] = proc[q]
    BY <1>1
  <1>3. Idle.at = "idle" /\ Idle.local = {} /\ \A s \in Sessions : Idle.found[s] = {}
    BY DEF Idle, Nothing
  <1>4. ~ToUpsert(p)' /\ ToWrite(p)' = {}
    BY <1>2, <1>3 DEF ToUpsert, ToWrite, At
  <1>5. \A q \in Procs \ {p} : ToUpsert(q)' = ToUpsert(q) /\ ToWrite(q)' = ToWrite(q)
    BY <1>2 DEF ToUpsert, ToWrite, At
  <1>6. \A q \in Procs : \A s \in ToWrite(q)' : s \in Sessions
    BY IngestFields, <1>4, <1>5 DEF ToWrite
  <1>. QED BY <1>1, <1>2, <1>3, <1>4, <1>5, <1>6, RunsLeave

\* And so does one that has sent everything.
LEMMA EnqueueKeeps ==
  ASSUME TypeOK, DiskInv, FoundInv, CoversInv, OwnersInv, NEW p \in Procs, Enqueue(p)
  PROVE  DiskInv' /\ FoundInv' /\ CoversInv' /\ OwnersInv'
  <1>1. /\ proc \in [Procs -> Ingest] /\ UNCHANGED <<disk, stats>> /\ proc[p].at = "remote"
        /\ \E s \in proc[p].remote : proc' = [proc EXCEPT ![p] =
              IF proc[p].remote = {s} THEN Idle ELSE [proc[p] EXCEPT !.remote = @ \ {s}]]
    BY DEF Enqueue, TypeOK, At
  <1>2. \A q \in Procs \ {p} : proc'[q] = proc[q]
    BY <1>1
  <1>3. \/ proc'[p] = Idle
        \/ proc'[p].at = "remote" /\ proc'[p].found = proc[p].found /\ proc'[p].local = proc[p].local
    BY <1>1, IngestFields DEF Ingest
  <1>4. Idle.at = "idle" /\ Idle.local = {} /\ \A s \in Sessions : Idle.found[s] = {}
    BY DEF Idle, Nothing
  <1>5. ~ToUpsert(p)' /\ ToWrite(p)' = {}
    BY <1>3, <1>4 DEF ToUpsert, ToWrite, At
  <1>6. \A q \in Procs \ {p} : ToUpsert(q)' = ToUpsert(q) /\ ToWrite(q)' = ToWrite(q)
    BY <1>2 DEF ToUpsert, ToWrite, At
  <1>7. \A s \in Sessions : proc'[p].found[s] \in {proc[p].found[s], {}}
    BY <1>3, <1>4
  <1>8. \A s \in proc'[p].local : s \in proc[p].local /\ proc'[p].found[s] = proc[p].found[s]
    BY <1>3, <1>4
  <1>. QED BY <1>1, <1>2, <1>5, <1>6, <1>7, <1>8, RunsLeave

\* A run that reads finds every message there is, in the transcript that owns it.
LEMMA ReadKeeps ==
  ASSUME TypeOK, DiskInv, FoundInv, CoversInv, OwnersInv, NEW p \in Procs, Read(p)
  PROVE  DiskInv' /\ FoundInv' /\ CoversInv' /\ OwnersInv'
  <1>1. /\ text' = text /\ mtime' = mtime /\ reopened' = reopened /\ stats' = stats
        /\ OnDisk' = OnDisk /\ Found' = Found /\ AllOnDisk' = AllOnDisk
    BY DEF Read, disk, OnDisk, Found, Novel, AllOnDisk
  <1>2. /\ proc'[p].at = "stats" /\ proc'[p].found = Found /\ proc'[p].fresh
        /\ proc'[p].local = {s \in Sessions : Found[s] # {}}
        /\ \A q \in Procs \ {p} : proc'[q] = proc[q]
    BY DEF Read, TypeOK, Idle
  <1>3. DiskInv'
    BY <1>1 DEF DiskInv
  <1>4. FoundInv'
    BY <1>1, <1>2, FoundType, FoundOnce DEF FoundInv
  <1>5. ToWrite(p)' = {} /\ FoundBy(p)' = UNION {Found[s] : s \in Sessions}
    BY <1>2 DEF ToWrite, At, FoundBy
  <1>6. \A q \in Procs \ {p} :
           ToUpsert(q)' = ToUpsert(q) /\ ToWrite(q)' = ToWrite(q) /\ FoundBy(q)' = FoundBy(q)
    BY <1>2 DEF ToUpsert, ToWrite, At, FoundBy
  <1>7. \A q \in Procs : \A s \in ToWrite(q) :
           s \in Sessions /\ proc[q].found[s] # {} /\ proc[q].found[s] \subseteq text[s]
    BY IngestFields DEF ToWrite, FoundInv
  <1>8. CoversInv'
    <2>1. SUFFICES ASSUME NEW r \in Procs, ToUpsert(r)', NEW s \in Sessions, proc'[r].found[s] # {}
          PROVE  /\ stats[s].counted \subseteq FoundBy(r)'
                 /\ \A q \in Procs : s \in ToWrite(q)' => proc'[q].found[s] \subseteq FoundBy(r)'
      BY <1>1 DEF CoversInv
    <2>2. CASE r = p
      <3>1. s \in OnDisk
        BY <1>2, <2>1, <2>2, FoundType
      <3>2. text[s] \subseteq FoundBy(p)'
        BY <1>5, <3>1, OldestOwns DEF OnDisk
      <3>3. stats[s].counted \subseteq text[s]
        BY DEF FoundInv
      <3>4. \A q \in Procs : s \in ToWrite(q)' => proc'[q].found[s] \subseteq text[s]
        BY <1>2, <1>5, <1>6, <1>7
      <3>. QED BY <2>2, <3>2, <3>3, <3>4
    <2>3. CASE r # p
      <3>1. /\ stats[s].counted \subseteq FoundBy(r)
            /\ \A q \in Procs : s \in ToWrite(q) => proc[q].found[s] \subseteq FoundBy(r)
        BY <1>2, <1>6, <2>1, <2>3 DEF CoversInv
      <3>. QED BY <1>2, <1>5, <1>6, <2>3, <3>1
    <2>. QED BY <2>2, <2>3
  <1>9. OwnersInv'
    <2>1. SUFFICES ASSUME AllOnDisk, ~reopened PROVE
          /\ \A s \in Sessions : stats[s].counted # {} \/ (\E q \in Procs : proc'[q].found[s] # {})
                => Found[s] # {}
          /\ \A r \in Procs : ToUpsert(r)' => \A s \in Sessions :
                stats[s].counted # {} \/ (\E q \in Procs : s \in ToWrite(q)')
                   => proc'[r].found[s] # {}
      BY <1>1 DEF OwnersInv
    <2>2. \A s \in Sessions : stats[s].counted # {} \/ (\E q \in Procs : proc[q].found[s] # {})
                => Found[s] # {}
      BY <2>1 DEF OwnersInv
    <2>3. \A r \in Procs : ToUpsert(r) => \A s \in Sessions :
                stats[s].counted # {} \/ (\E q \in Procs : s \in ToWrite(q))
                   => proc[r].found[s] # {}
      BY <2>1 DEF OwnersInv
    <2>4. \A s \in Sessions : stats[s].counted # {} \/ (\E q \in Procs : proc'[q].found[s] # {})
                => Found[s] # {}
      BY <1>2, <2>2
    <2>5. ASSUME NEW r \in Procs, ToUpsert(r)', NEW s \in Sessions,
                 stats[s].counted # {} \/ (\E q \in Procs : s \in ToWrite(q)')
          PROVE  proc'[r].found[s] # {}
      <3>1. stats[s].counted # {} \/ (\E q \in Procs : s \in ToWrite(q))
        BY <1>5, <1>6, <2>5
      <3>2. CASE r = p
        BY <1>2, <1>7, <2>2, <3>1, <3>2
      <3>3. CASE r # p
        BY <1>2, <1>6, <2>3, <2>5, <3>1, <3>3
      <3>. QED BY <3>2, <3>3
    <2>. QED BY <2>4, <2>5
  <1>. QED BY <1>3, <1>4, <1>8, <1>9

\* A run that writes its rows overtakes every other that has read.
LEMMA UpsertKeeps ==
  ASSUME TypeOK, DiskInv, FoundInv, CoversInv, OwnersInv, NEW p \in Procs, UpsertStats(p)
  PROVE  DiskInv' /\ FoundInv' /\ CoversInv' /\ OwnersInv'
  <1>1. /\ text' = text /\ mtime' = mtime /\ reopened' = reopened
        /\ OnDisk' = OnDisk /\ Found' = Found /\ AllOnDisk' = AllOnDisk
    BY DEF UpsertStats, disk, OnDisk, Found, Novel, AllOnDisk
  <1>2. \A s \in Sessions : stats'[s].counted \in {stats[s].counted, proc[p].found[s]}
    BY RowFields DEF UpsertStats, Upserted, Row
  <1>3. /\ proc'[p].at = "local"
        /\ \A q \in Procs \ {p} : proc'[q].at = proc[q].at /\ proc'[q].fresh = ~At(q, "stats")
        /\ \A q \in Procs : proc'[q].found = proc[q].found /\ proc'[q].local = proc[q].local
    BY IngestFields DEF UpsertStats, Ingest
  <1>4. DiskInv'
    BY <1>1 DEF DiskInv
  <1>5. FoundInv'
    BY <1>1, <1>2, <1>3 DEF FoundInv
  <1>6. \A q \in Procs : ~ToUpsert(q)'
    BY <1>3 DEF ToUpsert, At
  <1>7. CoversInv'
    BY <1>6 DEF CoversInv
  <1>8. OwnersInv'
    BY <1>1, <1>2, <1>3, <1>6 DEF OwnersInv
  <1>. QED BY <1>4, <1>5, <1>7, <1>8

\* The local sink puts in a row what a run that was not overtaken expects there.
LEMMA LocalKeeps ==
  ASSUME TypeOK, DiskInv, FoundInv, CoversInv, OwnersInv, NEW p \in Procs, WriteLocal(p)
  PROVE  DiskInv' /\ FoundInv' /\ CoversInv' /\ OwnersInv'
  <1>1. /\ text' = text /\ mtime' = mtime /\ reopened' = reopened
        /\ OnDisk' = OnDisk /\ Found' = Found /\ AllOnDisk' = AllOnDisk
    BY DEF WriteLocal, disk, OnDisk, Found, Novel, AllOnDisk
  <1>2. PICK w \in proc[p].local :
           /\ stats' = [stats EXCEPT ![w] = Stamped(p, w)]
           /\ proc' = [proc EXCEPT ![p].local = @ \ {w},
                           ![p].at = IF proc[p].local = {w} THEN "remote" ELSE @]
    BY DEF WriteLocal
  <1>3. w \in ToWrite(p) /\ w \in Sessions
    BY IngestFields DEF WriteLocal, ToWrite
  <1>4. /\ stats'[w].counted = proc[p].found[w]
        /\ \A s \in Sessions \ {w} : stats'[s] = stats[s]
    BY <1>2, <1>3 DEF TypeOK, Stamped
  <1>5. /\ proc'[p].at \in {"local", "remote"} /\ proc'[p].local \subseteq proc[p].local
        /\ \A q \in Procs \ {p} : proc'[q] = proc[q]
        /\ \A q \in Procs : proc'[q].found = proc[q].found
    <2>1. proc[p].at = "local" /\ proc \in [Procs -> Ingest]
      BY DEF WriteLocal, At, TypeOK
    <2>. QED BY <1>2, <2>1, IngestFields DEF Ingest
  <1>6. ~ToUpsert(p)' /\ ToWrite(p)' \subseteq ToWrite(p)
    BY <1>5 DEF ToUpsert, ToWrite, WriteLocal, At
  <1>7. \A q \in Procs \ {p} : ToUpsert(q)' = ToUpsert(q) /\ ToWrite(q)' = ToWrite(q)
    BY <1>5 DEF ToUpsert, ToWrite, At
  <1>8. \A q \in Procs : FoundBy(q)' = FoundBy(q)
    BY <1>5 DEF FoundBy
  <1>9. DiskInv'
    BY <1>1 DEF DiskInv
  <1>10. FoundInv'
    BY <1>1, <1>4, <1>5 DEF FoundInv
  <1>11. CoversInv'
    <2>1. SUFFICES ASSUME NEW r \in Procs, ToUpsert(r)', NEW s \in Sessions, proc'[r].found[s] # {}
          PROVE  /\ stats'[s].counted \subseteq FoundBy(r)
                 /\ \A q \in Procs : s \in ToWrite(q)' => proc'[q].found[s] \subseteq FoundBy(r)
      BY <1>8 DEF CoversInv
    <2>2. r # p /\ ToUpsert(r) /\ proc[r].found[s] # {}
      BY <1>5, <1>6, <1>7, <2>1
    <2>3. /\ stats[s].counted \subseteq FoundBy(r)
          /\ \A q \in Procs : s \in ToWrite(q) => proc[q].found[s] \subseteq FoundBy(r)
      BY <2>2 DEF CoversInv
    <2>4. stats'[s].counted \subseteq FoundBy(r)
      BY <1>3, <1>4, <2>3
    <2>. QED BY <1>5, <1>6, <1>7, <2>3, <2>4
  <1>12. OwnersInv'
    <2>1. SUFFICES ASSUME AllOnDisk, ~reopened PROVE
          /\ \A s \in Sessions : stats'[s].counted # {} \/ (\E q \in Procs : proc'[q].found[s] # {})
                => Found[s] # {}
          /\ \A r \in Procs : ToUpsert(r)' => \A s \in Sessions :
                stats'[s].counted # {} \/ (\E q \in Procs : s \in ToWrite(q)')
                   => proc'[r].found[s] # {}
      BY <1>1 DEF OwnersInv
    <2>2. \A s \in Sessions : stats[s].counted # {} \/ (\E q \in Procs : proc[q].found[s] # {})
                => Found[s] # {}
      BY <2>1 DEF OwnersInv
    <2>3. \A r \in Procs : ToUpsert(r) => \A s \in Sessions :
                stats[s].counted # {} \/ (\E q \in Procs : s \in ToWrite(q))
                   => proc[r].found[s] # {}
      BY <2>1 DEF OwnersInv
    <2>4. \A s \in Sessions : stats'[s].counted # {} \/ (\E q \in Procs : proc'[q].found[s] # {})
                => Found[s] # {}
      BY <1>4, <1>5, <2>2
    <2>5. ASSUME NEW r \in Procs, ToUpsert(r)', NEW s \in Sessions,
                 stats'[s].counted # {} \/ (\E q \in Procs : s \in ToWrite(q)')
          PROVE  proc'[r].found[s] # {}
      <3>1. r # p /\ ToUpsert(r) /\ proc'[r] = proc[r]
        BY <1>5, <1>6, <1>7, <2>5
      <3>2. stats[s].counted # {} \/ (\E q \in Procs : s \in ToWrite(q))
        BY <1>3, <1>4, <1>6, <1>7, <2>5
      <3>. QED BY <2>3, <3>1, <3>2
    <2>. QED BY <2>4, <2>5
  <1>. QED BY <1>9, <1>10, <1>11, <1>12

-----------------------------------------------------------------------------
(* The invariant and what follows from it. *)

LEMMA InitTotals ==
  ASSUME Init
  PROVE  TotalsInv
  <1>1. OnDisk = {} /\ \A s \in Sessions : text[s] = {} /\ stats[s].counted = {}
    BY DEF Init, OnDisk, Nothing, Before, NoRow
  <1>2. \A p \in Procs : /\ proc[p].at = "idle" /\ proc[p].local = {}
                         /\ \A s \in Sessions : proc[p].found[s] = {}
    BY DEF Init, Idle, Nothing
  <1>3. DiskInv /\ FoundInv
    BY <1>1, <1>2 DEF DiskInv, FoundInv
  <1>4. \A p \in Procs : ~ToUpsert(p)
    BY <1>2 DEF ToUpsert, At
  <1>5. CoversInv /\ OwnersInv
    BY <1>1, <1>2, <1>4 DEF CoversInv, OwnersInv
  <1>. QED BY <1>3, <1>5, InitTypes DEF TotalsInv

\* Every step keeps the invariant.
LEMMA StepTotals ==
  ASSUME TotalsInv, [Next]_vars
  PROVE  TotalsInv'
  <1>. USE DEF TotalsInv
  <1>1. ASSUME NEW s \in Sessions, Turn(s) PROVE TotalsInv'
    BY <1>1, TurnTypes, TurnKeeps
  <1>2. ASSUME NEW s \in Sessions, Reopen(s) PROVE TotalsInv'
    BY <1>2, ReopenTypes, ReopenKeeps
  <1>3. ASSUME NEW s \in Sessions, Prune(s) PROVE TotalsInv'
    BY <1>3, PruneTypes, PruneKeeps
  <1>4. ASSUME NEW s \in Sessions, NEW t \in Sessions, Resume(s, t) PROVE TotalsInv'
    BY <1>4, ResumeTypes, ResumeKeeps
  <1>5. ASSUME NEW p \in Procs, Read(p) PROVE TotalsInv'
    BY <1>5, ReadTypes, ReadKeeps
  <1>6. ASSUME NEW p \in Procs, UpsertStats(p) PROVE TotalsInv'
    BY <1>6, UpsertTypes, UpsertKeeps
  <1>7. ASSUME NEW p \in Procs, WriteLocal(p) PROVE TotalsInv'
    BY <1>7, LocalTypes, LocalKeeps
  <1>8. ASSUME NEW p \in Procs, Enqueue(p) PROVE TotalsInv'
    BY <1>8, EnqueueTypes, EnqueueKeeps
  <1>9. ASSUME NEW p \in Procs, Crash(p) PROVE TotalsInv'
    BY <1>9, CrashTypes, CrashKeeps
  <1>10. ASSUME NEW n \in Names, NEW s \in Sessions, Claim(n, s) PROVE TotalsInv'
    <2>1. UNCHANGED <<disk, proc>> /\ UNCHANGED stats
      BY <1>10 DEF Claim
    <2>. QED BY <1>10, <2>1, ClaimTypes, OthersKeep
  <1>11. ASSUME NEW n \in Names, NEW s \in Sessions, Send(n, s) PROVE TotalsInv'
    <2>1. UNCHANGED <<disk, proc>> /\ UNCHANGED stats
      BY <1>11 DEF Send
    <2>. QED BY <1>11, <2>1, SendTypes, OthersKeep
  <1>12. ASSUME BackfillHost PROVE TotalsInv'
    <2>1. UNCHANGED <<disk, proc>>
      BY <1>12 DEF BackfillHost
    <2>2. \A s \in Sessions : stats'[s].counted = stats[s].counted
      BY <1>12, RowFields DEF BackfillHost, Row
    <2>. QED BY <1>12, <2>1, <2>2, BackfillTypes, OthersKeep
  <1>13. ASSUME Reconfigure PROVE TotalsInv'
    <2>1. UNCHANGED <<disk, proc>> /\ UNCHANGED stats
      BY <1>13 DEF Reconfigure
    <2>. QED BY <1>13, <2>1, ReconfigureTypes, OthersKeep
  <1>14. ASSUME Rename PROVE TotalsInv'
    <2>1. UNCHANGED <<disk, proc>>
      BY <1>14 DEF Rename
    <2>2. \A s \in Sessions : stats'[s].counted = stats[s].counted
      BY <1>14, RowFields DEF Rename, Row
    <2>. QED BY <1>14, <2>1, <2>2, RenameTypes, OthersKeep
  <1>15. ASSUME UNCHANGED vars PROVE TotalsInv'
    <2>1. TypeOK'
      BY <1>15 DEF TypeOK, vars, disk, names
    <2>2. UNCHANGED <<disk, proc>> /\ UNCHANGED stats
      BY <1>15 DEF vars
    <2>. QED BY <2>1, <2>2, OthersKeep
  <1>. QED BY <1>1, <1>2, <1>3, <1>4, <1>5, <1>6, <1>7, <1>8, <1>9, <1>10, <1>11, <1>12, <1>13,
              <1>14, <1>15 DEF Next, Step

\* A run that was not overtaken replaces a row only with one that, together with the
\* other rows it replaces, has what the row had.
LEMMA UpsertCovers ==
  ASSUME TotalsInv, NEW p \in Procs, UpsertStats(p), proc[p].fresh
  PROVE  Counted \subseteq Counted'
  <1>1. ToUpsert(p)
    BY DEF UpsertStats, ToUpsert
  <1>2. \A s \in Sessions : stats'[s] = Upserted(p, s)
    BY DEF UpsertStats
  <1>3. ASSUME NEW s \in Sessions, proc[p].found[s] # {}
        PROVE  stats'[s].counted = proc[p].found[s]
    <2>1. stats[s] \in Row
      BY RowFields DEF TotalsInv
    <2>2. stats'[s] = [stats[s] EXCEPT !.counted = proc[p].found[s], !.profile = proc[p].name]
      BY <1>2, <1>3 DEF Upserted
    <2>. QED BY <2>1, <2>2 DEF Row
  <1>4. \A s \in Sessions : proc[p].found[s] = {} => stats'[s] = stats[s]
    BY <1>2 DEF Upserted
  <1>5. FoundBy(p) \subseteq Counted'
    BY <1>3 DEF FoundBy, Counted
  <1>6. ASSUME NEW s \in Sessions PROVE stats[s].counted \subseteq Counted'
    <2>1. CASE proc[p].found[s] = {}
      BY <1>4, <2>1 DEF Counted
    <2>2. CASE proc[p].found[s] # {}
      BY <1>1, <1>5, <2>2 DEF TotalsInv, CoversInv
    <2>. QED BY <2>1, <2>2
  <1>. QED BY <1>6 DEF Counted

\* And if every transcript is still what it was, each row then has what the run found in
\* its transcript and nothing else.
LEMMA UpsertOwns ==
  ASSUME TotalsInv, NEW p \in Procs, UpsertStats(p), proc[p].fresh, AllOnDisk, ~reopened
  PROVE  Disjoint'
  <1>1. ToUpsert(p)
    BY DEF UpsertStats, ToUpsert
  <1>2. ASSUME NEW s \in Sessions PROVE stats'[s].counted = proc[p].found[s]
    <2>1. stats'[s] = Upserted(p, s)
      BY DEF UpsertStats
    <2>2. CASE proc[p].found[s] # {}
      BY <2>1, <2>2, RowFields DEF Upserted, Row, TotalsInv
    <2>3. CASE proc[p].found[s] = {}
      BY <1>1, <2>1, <2>3 DEF Upserted, TotalsInv, OwnersInv
    <2>. QED BY <2>2, <2>3
  <1>. QED BY <1>2 DEF Disjoint, TotalsInv, FoundInv

\* The invariant holds of every reachable state: rows and runs have messages of their own
\* transcripts only, and a run that was not overtaken has found whatever it replaces.
THEOREM TotalsInvariant == Spec => []TotalsInv
  <1>1. Init => TotalsInv
    BY InitTotals
  <1>2. TotalsInv /\ [Next]_vars => TotalsInv'
    BY StepTotals
  <1>. QED BY <1>1, <1>2, PTL DEF Spec

\* Transcripts, rows, queued events and runs keep their shape.
THEOREM TypeOKAlways == Spec => []TypeOK
  <1>1. TotalsInv => TypeOK
    BY DEF TotalsInv
  <1>. QED BY <1>1, TotalsInvariant, PTL

\* A run of `lh metrics ingest` that was not overtaken takes nothing away from what is
\* counted; and it leaves each message in one row if no transcript was deleted or opened
\* again without a word, however sessions were resumed into one another.
THEOREM TotalsRightAlways == Spec => TotalsRight
  <1>1. TotalsInv => (\A p \in Procs : UpsertStats(p) /\ proc[p].fresh => Counted \subseteq Counted')
    BY UpsertCovers
  <1>2. TotalsInv => (\A p \in Procs :
           UpsertStats(p) /\ proc[p].fresh /\ AllOnDisk /\ ~reopened => Disjoint')
    BY UpsertOwns
  <1>3. Spec => CountedStays
    BY <1>1, TotalsInvariant, PTL DEF CountedStays
  <1>4. Spec => CountedOnce
    BY <1>2, TotalsInvariant, PTL DEF CountedOnce
  <1>. QED BY <1>3, <1>4 DEF TotalsRight
=============================================================================
