---------------------------- MODULE MemoryDirProofs ----------------------------
(***************************************************************************)
(* What MemoryDir promises for any number of sessions, workers, insights    *)
(* and failures, whatever the transcripts say, wherever workers die and     *)
(* whichever writes fail.                                                   *)
(***************************************************************************)
EXTENDS MemoryDir, FiniteSetTheorems, SequenceTheorems, WellFoundedInduction, TLAPS

-----------------------------------------------------------------------------
(* The invariant. *)

Handoffs == [by : Sessions \cup {Nobody}, mtime : Nat]
Locals == [at : Places, session : Sessions \cup {Nobody}, todo : Nat, lines : SUBSET Nat, top : Nat,
           known : SUBSET Hashes, answer : Seq(Failures), saw : Handoffs, stamp : Nat,
           items : BOOLEAN]

FilesType ==
    /\ clock \in Nat /\ length \in [Sessions -> Nat] /\ touched \in [Sessions -> Nat]
    /\ tasks \in [Sessions -> Nat] /\ cursor \in [Sessions -> Nat]
    /\ copies \in [Sessions -> [Hashes -> Nat]]
    /\ rows \in [Sessions -> Nat] /\ verdicts \in [Sessions -> Nat]
    /\ failures \in [Sessions -> Seq(Failures)]
    /\ handoff \in Handoffs
    /\ deaths \in Nat /\ errors \in Nat /\ deaths + errors <= MaxFaults

HashesOf(s) == {h \in Hashes : copies[s][h] > 0}
Repeated(s) == \E i, j \in DOMAIN failures[s] : i # j /\ failures[s][i] = failures[s][j]

\* What the files of one session are between any two writes.
SessionOk(s) ==
    /\ length[s] <= Len(Text[s]) /\ touched[s] <= clock
    /\ tasks[s] <= length[s] /\ cursor[s] <= length[s]
    /\ \A h \in Hashes : copies[s][h] <= 1
    /\ \A i \in Insights(s, 0, cursor[s]) : Text[s][i].insight \in OnDisk
    /\ rows[s] <= Dispatches(s, length[s]) /\ verdicts[s] <= 1
    /\ ~Repeated(s)

\* A worker with insights to save has them all in mind, knows of all files of its
\* session, and of none that is not there.
Saves(r) ==
    /\ r.top <= length[r.session]
    /\ r.lines \subseteq Insights(r.session, 0, length[r.session])
    /\ \A i \in Insights(r.session, 0, r.top) :
            i \in r.lines \/ Text[r.session][i].insight \in OnDisk
    /\ HashesOf(r.session) \subseteq r.known /\ r.known \subseteq OnDisk

\* What a worker with locals r relies on.
LocalsOk(w, r) == r.at # "free" =>
    /\ r.session \in Sessions /\ Owner[r.session] = w /\ tasks[r.session] > 0
    /\ r.at = "clear" => r.todo <= Dispatches(r.session, length[r.session])
    /\ r.at = "insert" => rows[r.session] + r.todo <= Dispatches(r.session, length[r.session])
    /\ r.at = "save" => Saves(r)
    /\ r.at = "insertVerdict" => verdicts[r.session] = 0
    /\ r.at = "write" => r.saw.mtime <= Rounded(r.stamp) /\ r.stamp <= touched[r.session]

\* The handoff tells when its session was last written to, or earlier.
HandoffOk ==
    IF handoff.by = Nobody THEN handoff.mtime = 0
    ELSE \E t \in 0 .. touched[handoff.by] : handoff.mtime = Rounded(t)

FilesOk == FilesType /\ HandoffOk /\ \A s \in Sessions : SessionOk(s)
WorkOk == work \in [Workers -> Locals] /\ \A w \in Workers : LocalsOk(w, work[w])
Inductive == FilesOk /\ WorkOk

\* The invariant has what the runs check.
LEMMA InductiveImplies == Inductive => TypeOK /\ InsightsKept /\ WrittenOnce
  <1>. SUFFICES ASSUME Inductive PROVE TypeOK /\ InsightsKept /\ WrittenOnce
    OBVIOUS
  <1>1. TypeOK
    <2>1. ASSUME NEW s \in Sessions
          PROVE  /\ length[s] \in 0 .. Len(Text[s]) /\ touched[s] \in 0 .. clock
                 /\ tasks[s] \in 0 .. length[s] /\ cursor[s] \in 0 .. length[s]
                 /\ \A h \in Hashes : copies[s][h] \in Nat
                 /\ {rows[s], verdicts[s]} \subseteq Nat /\ failures[s] \in Seq(Failures)
      <3>1. Len(Text[s]) \in Nat
        BY MemoryAssumption DEF MemoryAssumption
      <3>. QED BY <3>1 DEF Inductive, FilesOk, FilesType, SessionOk
    <2>2. handoff \in [by : Sessions \cup {Nobody}, mtime : Nat] /\ deaths + errors \in 0 .. MaxFaults
      BY MemoryAssumption DEF Inductive, FilesOk, FilesType, Handoffs, MemoryAssumption
    <2>3. ASSUME NEW w \in Workers
          PROVE  /\ work[w].at \in Places
                 /\ ~At(w, "free") => Of(w) \in Sessions /\ Owner[Of(w)] = w /\ tasks[Of(w)] > 0
      BY DEF Inductive, WorkOk, LocalsOk, Locals, At, Of
    <2>. QED BY <2>1, <2>2, <2>3 DEF TypeOK
  <1>2. InsightsKept
    BY DEF Inductive, FilesOk, SessionOk, InsightsKept
  <1>3. WrittenOnce
    BY DEF Inductive, FilesOk, SessionOk, WrittenOnce, InsightOnce, FailureOnce, CountedOnce, Repeated
  <1>. QED BY <1>1, <1>2, <1>3

-----------------------------------------------------------------------------
(* What a transcript says, and the times in a handoff. *)

LEMMA Says ==
  ASSUME NEW s \in Sessions
  PROVE  /\ Text[s] \in Seq(Lines) /\ Len(Text[s]) \in Nat
         /\ \A i \in 1 .. Len(Text[s]) :
                Text[s][i].insight # NoHash => Text[s][i].insight \in Hashes
  <1>1. Text[s] \in Seq(Lines)
    BY MemoryAssumption DEF MemoryAssumption
  <1>2. Len(Text[s]) \in Nat /\ DOMAIN Text[s] = 1 .. Len(Text[s])
    BY <1>1
  <1>3. ASSUME NEW i \in 1 .. Len(Text[s]), Text[s][i].insight # NoHash
        PROVE  Text[s][i].insight \in Hashes
    <2>1. Text[s][i].insight \in {Text[s][j].insight : j \in DOMAIN Text[s]}
      BY <1>2
    <2>. QED BY <1>3, <2>1 DEF Hashes
  <1>. QED BY <1>1, <1>2, <1>3

\* More of a transcript has more dispatches.
LEMMA MoreDispatches ==
  ASSUME NEW s \in Sessions, NEW n \in Nat, NEW m \in Nat, n <= m
  PROVE  /\ Dispatches(s, n) \in Nat /\ Dispatches(s, m) \in Nat
         /\ Dispatches(s, n) <= Dispatches(s, m)
  <1>. DEFINE D(k) == {i \in 1 .. k : Text[s][i].dispatch}
  <1>1. \A k \in Nat : 1 .. k \in SUBSET Nat /\ \A i \in 1 .. k : i <= k
    OBVIOUS
  <1>2. IsFiniteSet(1 .. m)
    BY <1>1, FS_BoundedSetOfNaturals
  <1>3. D(m) \in SUBSET (1 .. m) /\ D(n) \in SUBSET D(m)
    OBVIOUS
  <1>. HIDE DEF D
  <1>4. IsFiniteSet(D(m))
    BY <1>2, <1>3, FS_Subset
  <1>5. IsFiniteSet(D(n)) /\ Cardinality(D(n)) <= Cardinality(D(m))
    BY <1>3, <1>4, FS_Subset
  <1>6. Cardinality(D(n)) \in Nat /\ Cardinality(D(m)) \in Nat
    BY <1>4, <1>5, FS_CardinalityType
  <1>. QED BY <1>5, <1>6 DEF D, Dispatches

\* A set of numbers that is not empty has a least member.
LEMMA Least ==
  ASSUME NEW S \in SUBSET Nat, S # {}
  PROVE  \E n \in S : \A m \in S : n <= m
  <1>. DEFINE Below == {r \in Nat \X Nat : r[1] < r[2]}
  <1>1. IsWellFoundedOn(Below, Nat)
    <2>1. OpToRel(<, Nat) = Below
      BY DEF OpToRel
    <2>. QED BY <2>1, NatLessThanWellFounded
  <1>2. \E n \in S : \A m \in S : ~(<<m, n>> \in Below)
    <2>. HIDE DEF Below
    <2>. QED BY <1>1, WFMin
  <1>3. \A n, m \in S : ~(<<m, n>> \in Below) => n <= m
    OBVIOUS
  <1>. QED BY <1>2, <1>3

\* One with a bound has a greatest member.
LEMMA Greatest ==
  ASSUME NEW S \in SUBSET Nat, S # {}, NEW n \in Nat, \A i \in S : i <= n
  PROVE  \E k \in S : \A i \in S : i <= k
  <1>. DEFINE Under == {n - i : i \in S}
  <1>1. Under \in SUBSET Nat /\ Under # {}
    <2>1. \A i \in S : i \in Nat /\ i <= n /\ n - i \in Nat
      OBVIOUS
    <2>. QED BY <2>1
  <1>2. PICK d \in Under : \A e \in Under : d <= e
    <2>. HIDE DEF Under
    <2>. QED BY <1>1, Least
  <1>3. PICK k \in S : d = n - k
    BY <1>2
  <1>4. ASSUME NEW i \in S PROVE i <= k
    <2>1. n - k <= n - i /\ i \in Nat /\ k \in Nat
      BY <1>2, <1>3
    <2>. QED BY <2>1
  <1>. QED BY <1>4

\* The lines with an insight: finitely many, so that Last and First are theirs.
LEMMA InsightLines ==
  ASSUME NEW s \in Sessions, NEW a \in Nat, NEW n \in Nat,
         NEW S \in SUBSET Insights(s, a, n), S # {}
  PROVE  /\ S \in SUBSET Nat
         /\ Last(S) \in S /\ \A i \in S : i <= Last(S)
         /\ First(S) \in S
  <1>1. Insights(s, a, n) \in SUBSET Nat /\ \A i \in Insights(s, a, n) : i <= n
    BY DEF Insights
  <1>2. S \in SUBSET Nat /\ \A i \in S : i <= n
    BY <1>1
  <1>3. Last(S) \in S /\ \A i \in S : i <= Last(S)
    BY <1>2, Greatest DEF Last
  <1>4. First(S) \in S
    BY <1>2, Least DEF First
  <1>. QED BY <1>2, <1>3, <1>4

\* Whole seconds: the rounding keeps the order, and a rounded time that is not later
\* than a time is not later when that is rounded too.
LEMMA Rounding ==
  ASSUME NEW t \in Nat, NEW u \in Nat, t <= u \/ Rounded(t) <= u
  PROVE  Rounded(t) \in Nat /\ Rounded(u) \in Nat /\ Rounded(t) <= Rounded(u)
  <1>. DEFINE k == (t + 1) \div 3
              l == (u + 1) \div 3
  <1>1. k \in Nat /\ 3 * k <= t + 1 /\ t + 1 < 3 * k + 3
    OBVIOUS
  <1>2. l \in Nat /\ 3 * l <= u + 1 /\ u + 1 < 3 * l + 3
    OBVIOUS
  <1>3. Rounded(t) = 3 * k /\ Rounded(u) = 3 * l
    BY DEF Rounded
  <1>. HIDE DEF k, l
  <1>4. k <= l
    BY <1>1, <1>2, <1>3
  <1>. QED BY <1>1, <1>2, <1>3, <1>4

-----------------------------------------------------------------------------
(* The shape of a step. *)

\* A step of a worker on session s leaves to the workers on others what they rely on.
Apart(s) ==
    /\ UNCHANGED <<length, touched>> /\ OnDisk \subseteq OnDisk'
    /\ \A t \in Sessions \ {s} :
        /\ tasks'[t] = tasks[t] /\ rows'[t] = rows[t] /\ verdicts'[t] = verdicts[t]
        /\ copies'[t] = copies[t]

LEMMA OthersOk ==
  ASSUME Inductive, NEW w \in Workers, NEW r \in Locals, work' = [work EXCEPT ![w] = r],
         r.at = "free" \/ LocalsOk(w, r)', NEW s, Apart(s), s \in Sessions => Owner[s] = w
  PROVE  WorkOk'
  <1>1. work' \in [Workers -> Locals] /\ \A v \in Workers : work'[v] = IF v = w THEN r ELSE work[v]
    BY DEF Inductive, WorkOk
  <1>2. ASSUME NEW v \in Workers, v # w PROVE LocalsOk(v, work[v])'
    <2>. SUFFICES ASSUME work[v].at # "free" PROVE LocalsOk(v, work[v])'
      BY <1>1, <1>2 DEF LocalsOk
    <2>1. LocalsOk(v, work[v]) /\ work[v].session \in Sessions \ {s}
      BY <1>2 DEF Inductive, WorkOk, LocalsOk
    <2>2. Saves(work[v]) => Saves(work[v])'
      BY <1>1, <1>2, <2>1 DEF Apart, Saves, HashesOf
    <2>. QED BY <1>1, <1>2, <2>1, <2>2 DEF LocalsOk, Apart
  <1>3. LocalsOk(w, work[w])'
    BY <1>1 DEF LocalsOk
  <1>. QED BY <1>1, <1>2, <1>3 DEF WorkOk

\* What leaves the files alone.
Still == UNCHANGED <<transcripts, tasks, insights, events, failures, handoff>>

LEMMA StillOk ==
  ASSUME Inductive, Still, deaths' \in Nat, errors' \in Nat, deaths' + errors' <= MaxFaults
  PROVE  FilesOk' /\ \A s : Apart(s)
  <1>1. FilesType' /\ HandoffOk'
    BY DEF Inductive, FilesOk, FilesType, HandoffOk, Still, transcripts, insights, events
  <1>2. OnDisk' = OnDisk
    BY DEF Still, insights, OnDisk
  <1>3. ASSUME NEW s \in Sessions PROVE SessionOk(s)'
    <2>1. SessionOk(s)
      BY DEF Inductive, FilesOk
    <2>. QED BY <1>2, <2>1 DEF SessionOk, Repeated, Still, transcripts, insights, events
  <1>4. ASSUME NEW s PROVE Apart(s)
    BY <1>2 DEF Apart, Still, transcripts, insights, events
  <1>. QED BY <1>1, <1>3, <1>4 DEF FilesOk

\* A worker's record, and its part of the invariant.
LEMMA WorkerType ==
  ASSUME Inductive, NEW w \in Workers
  PROVE  /\ work[w] \in Locals /\ LocalsOk(w, work[w])
         /\ work[w].at # "free" => Of(w) \in Sessions /\ Owner[Of(w)] = w /\ tasks[Of(w)] > 0
         /\ Of(w) = work[w].session
  BY DEF Inductive, WorkOk, LocalsOk, Of

LEMMA FreeType ==
  ASSUME NEW s \in Sessions \cup {Nobody}
  PROVE  /\ Free \in Locals /\ Free.at = "free"
         /\ [Free EXCEPT !.at = "archive", !.session = s] \in Locals
         /\ [Free EXCEPT !.at = "archive", !.session = s].at = "archive"
         /\ [Free EXCEPT !.at = "archive", !.session = s].session = s
  <1>1. NoHandoff \in Handoffs /\ << >> \in Seq(Failures)
    BY DEF NoHandoff, Handoffs
  <1>. QED BY <1>1 DEF Free, Locals, Places

-----------------------------------------------------------------------------
(* The steps that leave the files alone. *)

LEMMA QuietStep ==
  ASSUME Inductive, NEW w \in Workers, NEW r \in Locals, work' = [work EXCEPT ![w] = r],
         Still, deaths' \in Nat, errors' \in Nat, deaths' + errors' <= MaxFaults,
         r.at = "free" \/ LocalsOk(w, r)
  PROVE  Inductive'
  <1>1. FilesOk' /\ Apart(Nobody)
    BY StillOk
  <1>2. r.at = "free" \/ LocalsOk(w, r)'
    <2>1. OnDisk' = OnDisk /\ HashesOf(r.session)' = HashesOf(r.session)
      BY DEF Still, insights, OnDisk, HashesOf
    <2>. QED BY <2>1 DEF LocalsOk, Saves, Still, transcripts, events
  <1>3. Nobody \notin Sessions
    BY MemoryAssumption DEF MemoryAssumption
  <1>4. WorkOk'
    BY <1>1, <1>2, <1>3, OthersOk
  <1>. QED BY <1>1, <1>4 DEF Inductive

\* Nothing fails: the counts of faults stay.
LEMMA NoFault ==
  ASSUME Inductive, UNCHANGED faults
  PROVE  deaths' \in Nat /\ errors' \in Nat /\ deaths' + errors' <= MaxFaults
  BY DEF Inductive, FilesOk, FilesType, faults

LEMMA FaultCounts ==
  ASSUME Inductive, deaths + errors < MaxFaults,
         \/ errors' = errors + 1 /\ deaths' = deaths
         \/ deaths' = deaths + 1 /\ errors' = errors
  PROVE  deaths' \in Nat /\ errors' \in Nat /\ deaths' + errors' <= MaxFaults
  <1>1. deaths \in Nat /\ errors \in Nat /\ MaxFaults \in Nat
    BY MemoryAssumption DEF Inductive, FilesOk, FilesType, MemoryAssumption
  <1>. QED BY <1>1

\* A worker leaves its task to be archived, or is free.
LEMMA LeaveStep ==
  ASSUME Inductive, NEW w \in Workers, ~At(w, "free"),
         Leave(w) \/ work' = [work EXCEPT ![w] = Free],
         Still, deaths' \in Nat, errors' \in Nat, deaths' + errors' <= MaxFaults
  PROVE  Inductive'
  <1>1. Of(w) \in Sessions /\ Owner[Of(w)] = w /\ tasks[Of(w)] > 0
    BY WorkerType DEF At
  <1>. DEFINE r == [Free EXCEPT !.at = "archive", !.session = Of(w)]
  <1>2. r \in Locals /\ LocalsOk(w, r)
    BY <1>1, FreeType DEF LocalsOk
  <1>3. Free \in Locals /\ Free.at = "free"
    BY <1>1, FreeType
  <1>4. CASE Leave(w)
    <2>1. work' = [work EXCEPT ![w] = r]
      BY <1>4 DEF Leave
    <2>. QED BY <1>2, <2>1, QuietStep
  <1>5. CASE work' = [work EXCEPT ![w] = Free]
    BY <1>3, <1>5, QuietStep
  <1>. QED BY <1>4, <1>5

LEMMA TakeOk ==
  ASSUME Inductive, NEW w \in Workers, NEW s \in Sessions, Take(w, s)
  PROVE  Inductive'
  <1>. DEFINE r == [work[w] EXCEPT !.session = s,
                         !.todo = IF Interactive(s) THEN Dispatches(s, length[s]) ELSE 0,
                         !.at = IF Interactive(s) THEN "clear" ELSE "archive"]
  <1>1. work[w] \in Locals /\ work \in [Workers -> Locals] /\ length[s] \in Nat
    BY DEF Inductive, WorkOk, FilesOk, FilesType
  <1>2. Dispatches(s, length[s]) \in Nat
    BY <1>1, MoreDispatches
  <1>3. r \in Locals
    BY <1>1, <1>2 DEF Locals, Places
  <1>4. work' = [work EXCEPT ![w] = r] /\ Still
    BY <1>1 DEF Take, Still
  <1>5. r.session = s /\ r.at \in {"clear", "archive"}
           /\ (r.at = "clear" => r.todo = Dispatches(s, length[s]))
    BY <1>1 DEF Locals
  <1>6. LocalsOk(w, r)
    BY <1>2, <1>5 DEF LocalsOk, Take, Waiting
  <1>7. UNCHANGED faults
    BY DEF Take
  <1>. HIDE DEF r
  <1>. QED BY <1>3, <1>4, <1>6, <1>7, NoFault, QuietStep

LEMMA ReadInsightsOk ==
  ASSUME Inductive, NEW w \in Workers, ReadInsights(w)
  PROVE  Inductive'
  <1>. DEFINE s == Of(w)
              new == Insights(s, cursor[s], length[s])
              r == [work[w] EXCEPT !.lines = new,
                         !.top = IF new = {} THEN 0 ELSE Last(new),
                         !.known = IF new = {} THEN {} ELSE Known,
                         !.at = IF new = {} THEN "infer" ELSE "save"]
  <1>1. /\ work[w] \in Locals /\ work \in [Workers -> Locals]
        /\ s \in Sessions /\ Owner[s] = w /\ tasks[s] > 0 /\ s = work[w].session
    BY WorkerType DEF Inductive, WorkOk, ReadInsights, At
  <1>2. /\ length[s] \in Nat /\ cursor[s] \in Nat /\ SessionOk(s)
    BY <1>1 DEF Inductive, FilesOk, FilesType
  <1>3. new # {} => Last(new) \in new /\ new \in SUBSET Nat
    <2>. HIDE DEF s
    <2>. QED BY <1>1, <1>2, InsightLines, new \in SUBSET new
  <1>4. new \in SUBSET Nat /\ \A i \in new : i <= length[s]
    BY <1>2 DEF Insights
  <1>5. r \in Locals
    <2>1. OnDisk \in SUBSET Hashes
      BY DEF OnDisk
    <2>. HIDE DEF s, new
    <2>. QED BY <1>1, <1>3, <1>4, <2>1 DEF Locals, Places, Known
  <1>6. work' = [work EXCEPT ![w] = r] /\ Still /\ UNCHANGED faults
    BY <1>1 DEF ReadInsights, Still, Of
  <1>7. /\ r.session = s /\ r.lines = new
        /\ r.at = IF new = {} THEN "infer" ELSE "save"
        /\ new # {} => r.top = Last(new) /\ r.known = OnDisk
    BY <1>1 DEF Locals, Known
  <1>. HIDE DEF r
  <1>8. ASSUME new # {} PROVE Saves(r)
    <2>1. r.top <= length[s]
      BY <1>3, <1>4, <1>7, <1>8
    <2>2. new \subseteq Insights(s, 0, length[s])
      BY <1>2 DEF Insights
    <2>3. ASSUME NEW i \in Insights(s, 0, r.top)
          PROVE  i \in new \/ Text[s][i].insight \in OnDisk
      <3>1. i \in Nat /\ 1 <= i /\ i <= length[s] /\ Text[s][i].insight # NoHash
        BY <1>2, <1>3, <1>7, <1>8, <2>1 DEF Insights
      <3>2. CASE i <= cursor[s]
        <4>1. i \in Insights(s, 0, cursor[s])
          BY <1>2, <3>1, <3>2 DEF Insights
        <4>. QED BY <1>2, <4>1 DEF SessionOk
      <3>3. CASE ~(i <= cursor[s])
        BY <1>2, <3>1, <3>3 DEF Insights
      <3>. QED BY <3>2, <3>3
    <2>4. HashesOf(s) \subseteq OnDisk
      BY <1>1 DEF HashesOf, OnDisk
    <2>. HIDE DEF s, new
    <2>. QED BY <1>7, <1>8, <2>1, <2>2, <2>3, <2>4 DEF Saves
  <1>9. LocalsOk(w, r)
    <2>. HIDE DEF s, new
    <2>. QED BY <1>1, <1>7, <1>8 DEF LocalsOk
  <1>. QED BY <1>5, <1>6, <1>9, NoFault, QuietStep

LEMMA InferOk ==
  ASSUME Inductive, NEW w \in Workers, Infer(w)
  PROVE  Inductive'
  <1>1. /\ work[w] \in Locals /\ work \in [Workers -> Locals] /\ At(w, "infer")
        /\ Of(w) \in Sessions /\ Owner[Of(w)] = w /\ tasks[Of(w)] > 0 /\ Of(w) = work[w].session
    BY WorkerType DEF Inductive, WorkOk, Infer, At
  <1>2. Still /\ UNCHANGED faults
    BY DEF Infer, Still
  <1>3. CASE work' = [work EXCEPT ![w].items = TRUE, ![w].at = "failures"]
    <2>. DEFINE r == [work[w] EXCEPT !.items = TRUE, !.at = "failures"]
    <2>1. r \in Locals /\ r.session = Of(w) /\ r.at = "failures"
      BY <1>1 DEF Locals, Places
    <2>2. work' = [work EXCEPT ![w] = r]
      BY <1>1, <1>3
    <2>. HIDE DEF r
    <2>3. LocalsOk(w, r)
      BY <1>1, <2>1 DEF LocalsOk
    <2>. QED BY <1>2, <2>1, <2>2, <2>3, NoFault, QuietStep
  <1>4. CASE Leave(w)
    BY <1>1, <1>2, <1>4, NoFault, LeaveStep DEF At
  <1>5. ASSUME NEW n \in 0 .. MaxFailures, NEW f \in [1 .. n -> Failures],
               NEW items \in BOOLEAN, NEW goal \in BOOLEAN,
               work' = [work EXCEPT ![w].answer = f, ![w].items = items,
                            ![w].at = IF goal THEN "verdict" ELSE "failures"]
        PROVE  Inductive'
    <2>. DEFINE r == [work[w] EXCEPT !.answer = f, !.items = items,
                           !.at = IF goal THEN "verdict" ELSE "failures"]
    <2>1. f \in Seq(Failures)
      BY MemoryAssumption, SeqDef DEF MemoryAssumption
    <2>2. r \in Locals /\ r.session = Of(w) /\ r.at \in {"verdict", "failures"}
      BY <1>1, <2>1 DEF Locals, Places
    <2>3. work' = [work EXCEPT ![w] = r]
      BY <1>1, <1>5
    <2>. HIDE DEF r
    <2>4. LocalsOk(w, r)
      BY <1>1, <2>2 DEF LocalsOk
    <2>. QED BY <1>2, <2>2, <2>3, <2>4, NoFault, QuietStep
  <1>. QED BY <1>3, <1>4, <1>5 DEF Infer

\* A handoff that does not stop a worker is not later than the transcript of its session.
LEMMA SeenNotLater ==
  ASSUME Inductive, NEW s \in Sessions, ~Newer(s)
  PROVE  handoff.mtime <= Rounded(touched[s])
  <1>1. touched \in [Sessions -> Nat] /\ touched[s] \in Nat /\ HandoffOk /\ handoff \in Handoffs
    BY DEF Inductive, FilesOk, FilesType
  <1>2. Rounded(touched[s]) \in Nat
    BY <1>1, Rounding
  <1>3. CASE handoff.by = Nobody
    BY <1>1, <1>2, <1>3 DEF HandoffOk
  <1>4. CASE handoff.by # Nobody
    <2>1. PICK t \in 0 .. touched[handoff.by] : handoff.mtime = Rounded(t)
      BY <1>1, <1>4 DEF HandoffOk
    <2>2. handoff.by \in Sessions /\ touched[handoff.by] \in Nat /\ t \in Nat
      BY <1>1, <1>4 DEF Handoffs
    <2>3. t <= touched[s] \/ Rounded(t) <= touched[s]
      <3>1. CASE handoff.by = s
        BY <2>2, <3>1
      <3>2. CASE handoff.by # s
        BY <1>1, <1>4, <2>1, <2>2, <3>2, Rounding DEF Newer
      <3>. QED BY <3>1, <3>2
    <2>. QED BY <1>1, <2>1, <2>2, <2>3, Rounding
  <1>. QED BY <1>3, <1>4

LEMMA LookAtHandoffOk ==
  ASSUME Inductive, NEW w \in Workers, LookAtHandoff(w)
  PROVE  Inductive'
  <1>1. /\ work[w] \in Locals /\ work \in [Workers -> Locals] /\ At(w, "failures")
        /\ Of(w) \in Sessions /\ Owner[Of(w)] = w /\ tasks[Of(w)] > 0 /\ Of(w) = work[w].session
        /\ handoff \in Handoffs /\ touched[Of(w)] \in Nat
    BY WorkerType DEF Inductive, WorkOk, FilesOk, FilesType, LookAtHandoff, At
  <1>2. Still /\ UNCHANGED faults
    BY DEF LookAtHandoff, Still
  <1>3. CASE /\ ~Newer(Of(w))
             /\ work' = [work EXCEPT ![w].saw = handoff, ![w].stamp = touched[Of(w)],
                                     ![w].at = "write"]
    <2>. DEFINE r == [work[w] EXCEPT !.saw = handoff, !.stamp = touched[Of(w)], !.at = "write"]
    <2>1. /\ r \in Locals /\ r.session = Of(w) /\ r.at = "write"
          /\ r.saw = handoff /\ r.stamp = touched[Of(w)]
      BY <1>1 DEF Locals, Places
    <2>2. work' = [work EXCEPT ![w] = r]
      BY <1>1, <1>3
    <2>. HIDE DEF r
    <2>3. handoff.mtime <= Rounded(touched[Of(w)])
      BY <1>1, <1>3, SeenNotLater
    <2>4. LocalsOk(w, r)
      BY <1>1, <2>1, <2>3 DEF LocalsOk
    <2>. QED BY <1>2, <2>1, <2>2, <2>4, NoFault, QuietStep
  <1>4. CASE Leave(w)
    BY <1>1, <1>2, <1>4, NoFault, LeaveStep DEF At
  <1>. QED BY <1>3, <1>4 DEF LookAtHandoff

LEMMA DatabaseFailsOk ==
  ASSUME Inductive, NEW w \in Workers, DatabaseFails(w)
  PROVE  Inductive'
  <1>1. /\ work[w] \in Locals /\ work \in [Workers -> Locals] /\ LocalsOk(w, work[w])
        /\ Of(w) = work[w].session /\ ~At(w, "free")
    BY WorkerType DEF Inductive, WorkOk, DatabaseFails, At
  <1>2. Still
    BY DEF DatabaseFails, Still
  <1>3. deaths' \in Nat /\ errors' \in Nat /\ deaths' + errors' <= MaxFaults
    BY FaultCounts DEF DatabaseFails, Error
  <1>4. /\ Of(w) \in Sessions /\ Owner[Of(w)] = w /\ tasks[Of(w)] > 0
        /\ rows[Of(w)] \in Nat /\ rows[Of(w)] <= Dispatches(Of(w), length[Of(w)])
    BY <1>1, WorkerType DEF At, Inductive, FilesOk, FilesType, SessionOk
  <1>5. CASE /\ work[w].at \in {"clear", "insert"}
             /\ work' = [work EXCEPT ![w].todo = 0, ![w].at = "insert"]
    <2>. DEFINE r == [work[w] EXCEPT !.todo = 0, !.at = "insert"]
    <2>1. r \in Locals /\ r.session = Of(w) /\ r.at = "insert" /\ r.todo = 0
      BY <1>1 DEF Locals, Places
    <2>2. work' = [work EXCEPT ![w] = r]
      BY <1>1, <1>5
    <2>. HIDE DEF r
    <2>3. LocalsOk(w, r)
      BY <1>4, <2>1 DEF LocalsOk
    <2>. QED BY <1>2, <1>3, <2>1, <2>2, <2>3, QuietStep
  <1>6. CASE Goto(w, "failures")
    <2>. DEFINE r == [work[w] EXCEPT !.at = "failures"]
    <2>1. r \in Locals /\ r.session = Of(w) /\ r.at = "failures"
      BY <1>1 DEF Locals, Places
    <2>2. work' = [work EXCEPT ![w] = r]
      BY <1>1, <1>6 DEF Goto
    <2>. HIDE DEF r
    <2>3. LocalsOk(w, r)
      BY <1>4, <2>1 DEF LocalsOk
    <2>. QED BY <1>2, <1>3, <2>1, <2>2, <2>3, QuietStep
  <1>7. CASE At(w, "insert") /\ work' = [work EXCEPT ![w].todo = 0]
    <2>1. work' = [work EXCEPT ![w].todo = 0, ![w].at = "insert"]
      BY <1>1, <1>7 DEF At, Locals
    <2>. QED BY <1>5, <1>7, <2>1 DEF At
  <1>. QED BY <1>5, <1>6, <1>7 DEF DatabaseFails, At

LEMMA FileFailsOk ==
  ASSUME Inductive, NEW w \in Workers, FileFails(w) \/ Die(w)
  PROVE  Inductive'
  <1>1. Still /\ ~At(w, "free") /\ (Leave(w) \/ work' = [work EXCEPT ![w] = Free])
    BY DEF FileFails, Die, StillQueued, Still, At
  <1>2. deaths' \in Nat /\ errors' \in Nat /\ deaths' + errors' <= MaxFaults
    BY FaultCounts DEF FileFails, Die, Error
  <1>. QED BY <1>1, <1>2, LeaveStep

-----------------------------------------------------------------------------
(* The steps that write: each disturbs one session. *)

LEMMA WriterStep ==
  ASSUME Inductive, NEW w \in Workers, NEW r \in Locals, work' = [work EXCEPT ![w] = r],
         NEW s \in Sessions, Owner[s] = w, r.at = "free" \/ LocalsOk(w, r)', Apart(s),
         clock' = clock,
         \A t \in Sessions \ {s} : cursor'[t] = cursor[t] /\ failures'[t] = failures[t],
         FilesType', HandoffOk', SessionOk(s)'
  PROVE  Inductive'
  <1>1. WorkOk'
    BY OthersOk
  <1>2. ASSUME NEW t \in Sessions \ {s} PROVE SessionOk(t)'
    <2>1. SessionOk(t)
      BY DEF Inductive, FilesOk
    <2>. QED BY <2>1 DEF SessionOk, Apart, Repeated
  <1>. QED BY <1>1, <1>2 DEF Inductive, FilesOk

\* Where the insight files stay, so do the hashes on disk.
LEMMA SameDisk ==
  ASSUME UNCHANGED copies
  PROVE  OnDisk' = OnDisk /\ \A s : HashesOf(s)' = HashesOf(s)
  BY DEF OnDisk, HashesOf

\* What a step of a worker begins with.
LEMMA AtWork ==
  ASSUME Inductive, NEW w \in Workers, ~At(w, "free")
  PROVE  /\ work \in [Workers -> Locals] /\ work[w] \in Locals /\ LocalsOk(w, work[w])
         /\ Of(w) = work[w].session /\ work[w].at # "free"
         /\ Of(w) \in Sessions /\ Owner[Of(w)] = w /\ tasks[Of(w)] > 0
         /\ FilesType /\ HandoffOk /\ SessionOk(Of(w))
  BY WorkerType DEF Inductive, WorkOk, FilesOk, At

LEMMA ClearDispatchesOk ==
  ASSUME Inductive, NEW w \in Workers, ClearDispatches(w)
  PROVE  Inductive'
  <1>0. PICK s, r : s = Of(w) /\ r = [work[w] EXCEPT !.at = "insert"]
    OBVIOUS
  <1>1. At(w, "clear") /\ ~At(w, "free")
    BY DEF ClearDispatches, At
  <1>2. /\ work \in [Workers -> Locals] /\ work[w] \in Locals /\ LocalsOk(w, work[w])
        /\ s = work[w].session /\ s \in Sessions /\ Owner[s] = w /\ tasks[s] > 0
        /\ FilesType /\ HandoffOk /\ SessionOk(s)
    BY <1>0, <1>1, AtWork
  <1>3. work' = [work EXCEPT ![w] = r] /\ rows' = [rows EXCEPT ![s] = 0]
    BY <1>0, <1>2 DEF ClearDispatches, Goto, RowsCleared
  <1>4. r \in Locals /\ r.session = s /\ r.at = "insert" /\ r.todo = work[w].todo
    BY <1>0, <1>2 DEF Locals, Places
  <1>5. work[w].todo <= Dispatches(s, length[s]) /\ work[w].todo \in Nat
    BY <1>1, <1>2 DEF LocalsOk, At, Locals
  <1>6. UNCHANGED <<clock, length, touched, tasks, copies, cursor, verdicts, failures, handoff, deaths, errors>>
    BY DEF ClearDispatches, transcripts, insights, faults
  <1>7. OnDisk' = OnDisk /\ HashesOf(s)' = HashesOf(s)
    BY <1>6, SameDisk
  <1>8. rows'[s] = 0 /\ rows' \in [Sessions -> Nat] /\ \A t \in Sessions \ {s} : rows'[t] = rows[t]
    BY <1>2, <1>3 DEF FilesType
  <1>9. Apart(s) /\ FilesType' /\ HandoffOk'
    BY <1>2, <1>6, <1>7, <1>8 DEF Apart, FilesType, HandoffOk
  <1>10. length[s] \in Nat /\ Dispatches(s, length[s]) \in Nat
    BY <1>2, MoreDispatches DEF FilesType
  <1>11. SessionOk(s)'
    BY <1>2, <1>6, <1>7, <1>8, <1>10 DEF SessionOk, Repeated
  <1>12. LocalsOk(w, r)'
    BY <1>2, <1>4, <1>5, <1>6, <1>8 DEF LocalsOk
  <1>. QED BY <1>2, <1>3, <1>4, <1>6, <1>9, <1>11, <1>12, WriterStep

LEMMA InsertDispatchOk ==
  ASSUME Inductive, NEW w \in Workers, InsertDispatch(w)
  PROVE  Inductive'
  <1>0. PICK s, r : s = Of(w) /\ r = [work[w] EXCEPT !.todo = @ - 1]
    OBVIOUS
  <1>1. At(w, "insert") /\ ~At(w, "free") /\ work[w].todo > 0
    BY DEF InsertDispatch, At
  <1>2. /\ work \in [Workers -> Locals] /\ work[w] \in Locals /\ LocalsOk(w, work[w])
        /\ s = work[w].session /\ s \in Sessions /\ Owner[s] = w /\ tasks[s] > 0
        /\ FilesType /\ HandoffOk /\ SessionOk(s)
    BY <1>0, <1>1, AtWork
  <1>3. work' = [work EXCEPT ![w] = r] /\ rows' = [rows EXCEPT ![s] = @ + 1]
    BY <1>0, <1>2 DEF InsertDispatch
  <1>4. /\ r \in Locals /\ r.session = s /\ r.at = "insert"
        /\ r.todo = work[w].todo - 1 /\ work[w].todo \in Nat
    <2>1. work[w].todo \in Nat /\ work[w].todo - 1 \in Nat
      BY <1>1, <1>2 DEF Locals
    <2>. QED BY <1>0, <1>1, <1>2, <2>1 DEF Locals, At
  <1>5. rows[s] + work[w].todo <= Dispatches(s, length[s])
    BY <1>1, <1>2 DEF LocalsOk, At
  <1>6. UNCHANGED <<clock, length, touched, tasks, copies, cursor, verdicts, failures, handoff, deaths, errors>>
    BY DEF InsertDispatch, transcripts, insights, faults
  <1>7. OnDisk' = OnDisk /\ HashesOf(s)' = HashesOf(s)
    BY <1>6, SameDisk
  <1>8. /\ rows[s] \in Nat /\ rows'[s] = rows[s] + 1 /\ rows' \in [Sessions -> Nat]
        /\ \A t \in Sessions \ {s} : rows'[t] = rows[t]
    BY <1>2, <1>3 DEF FilesType
  <1>9. Apart(s) /\ FilesType' /\ HandoffOk'
    BY <1>2, <1>6, <1>7, <1>8 DEF Apart, FilesType, HandoffOk
  <1>10. length[s] \in Nat /\ Dispatches(s, length[s]) \in Nat
    BY <1>2, MoreDispatches DEF FilesType
  <1>11. rows'[s] <= Dispatches(s, length[s]) /\ rows'[s] + r.todo <= Dispatches(s, length[s])
    BY <1>1, <1>4, <1>5, <1>8, <1>10
  <1>12. SessionOk(s)'
    BY <1>2, <1>6, <1>7, <1>11 DEF SessionOk, Repeated
  <1>13. LocalsOk(w, r)'
    BY <1>2, <1>4, <1>6, <1>11 DEF LocalsOk
  <1>. QED BY <1>2, <1>3, <1>4, <1>6, <1>9, <1>12, <1>13, WriterStep

LEMMA SaveInsightOk ==
  ASSUME Inductive, NEW w \in Workers, SaveInsight(w)
  PROVE  Inductive'
  <1>0. PICK s, i, h, r : /\ s = Of(w) /\ i = First(work[w].lines) /\ h = Text[s][i].insight
                          /\ r = [work[w] EXCEPT !.lines = @ \ {i}, !.known = @ \cup {h}]
    OBVIOUS
  <1>1. At(w, "save") /\ ~At(w, "free") /\ work[w].lines # {}
    BY DEF SaveInsight, At
  <1>2. /\ work \in [Workers -> Locals] /\ work[w] \in Locals /\ LocalsOk(w, work[w])
        /\ s = work[w].session /\ s \in Sessions /\ Owner[s] = w /\ tasks[s] > 0
        /\ FilesType /\ HandoffOk /\ SessionOk(s)
    BY <1>0, <1>1, AtWork
  <1>3. Saves(work[w])
    BY <1>1, <1>2 DEF LocalsOk, At
  <1>4. length[s] \in Nat /\ length[s] <= Len(Text[s]) /\ work[w].lines \in SUBSET Nat
    BY <1>2 DEF FilesType, SessionOk, Locals
  <1>5. i \in work[w].lines
    <2>1. work[w].lines \in SUBSET Insights(s, 0, length[s])
      BY <1>2, <1>3 DEF Saves
    <2>. QED BY <1>0, <1>1, <1>2, <1>4, <2>1, InsightLines
  <1>6. h \in Hashes
    <2>1. i \in 1 .. Len(Text[s]) /\ h # NoHash
      <3>1. i \in Insights(s, 0, length[s])
        BY <1>2, <1>3, <1>5 DEF Saves
      <3>2. Len(Text[s]) \in Nat
        BY <1>2, Says
      <3>. QED BY <1>0, <1>4, <3>1, <3>2 DEF Insights
      <2>. QED BY <1>0, <1>2, <2>1, Says
  <1>7. /\ work' = [work EXCEPT ![w] = r]
        /\ copies' = IF h \in work[w].known THEN copies
                     ELSE [copies EXCEPT ![s][h] = @ + 1]
    BY <1>0, <1>2 DEF SaveInsight
  <1>8. r \in Locals /\ r.session = s /\ r.at = "save" /\ r.top = work[w].top
    BY <1>0, <1>1, <1>2, <1>6 DEF Locals, At
  <1>9. r.lines = work[w].lines \ {i} /\ r.known = work[w].known \cup {h}
    BY <1>0, <1>2 DEF Locals
  <1>10. UNCHANGED <<clock, length, touched, tasks, cursor, rows, verdicts, failures, handoff, deaths, errors>>
    BY DEF SaveInsight, transcripts, events, faults
  <1>11. copies \in [Sessions -> [Hashes -> Nat]]
    BY <1>2 DEF FilesType
  <1>12. /\ copies' \in [Sessions -> [Hashes -> Nat]]
         /\ \A t \in Sessions \ {s} : copies'[t] = copies[t]
         /\ \A g \in Hashes \ {h} : copies'[s][g] = copies[s][g]
         /\ copies'[s][h] = IF h \in work[w].known THEN copies[s][h] ELSE copies[s][h] + 1
    BY <1>2, <1>6, <1>7, <1>11
  <1>13. \A g \in Hashes : copies'[s][g] <= 1
    <2>1. h \notin work[w].known => copies[s][h] = 0
      BY <1>2, <1>3, <1>6, <1>11 DEF Saves, HashesOf
    <2>2. \A g \in Hashes : copies[s][g] <= 1 /\ copies[s][g] \in Nat
      BY <1>2, <1>11 DEF SessionOk
    <2>. QED BY <1>6, <1>12, <2>1, <2>2
  <1>14. OnDisk \subseteq OnDisk'
    <2>. SUFFICES ASSUME NEW g \in Hashes, NEW t \in Sessions, copies[t][g] > 0
                  PROVE  copies'[t][g] > 0
      BY DEF OnDisk
    <2>. QED BY <1>2, <1>6, <1>11, <1>12
  <1>15. h \in OnDisk'
    <2>1. CASE h \in work[w].known
      BY <1>3, <1>14, <2>1 DEF Saves
    <2>2. CASE h \notin work[w].known
      <3>1. copies'[s][h] > 0
        BY <1>2, <1>6, <1>11, <1>12, <2>2
      <3>. QED BY <1>2, <1>6, <3>1 DEF OnDisk
    <2>. QED BY <2>1, <2>2
  <1>16. HashesOf(s)' \subseteq r.known
    <2>. SUFFICES ASSUME NEW g \in Hashes, copies'[s][g] > 0, g # h
                  PROVE  g \in work[w].known
      BY <1>9 DEF HashesOf
    <2>. QED BY <1>2, <1>3, <1>12 DEF Saves, HashesOf
  <1>17. Apart(s) /\ FilesType' /\ HandoffOk'
    BY <1>2, <1>10, <1>12, <1>14 DEF Apart, FilesType, HandoffOk
  <1>18. SessionOk(s)'
    BY <1>2, <1>10, <1>13, <1>14 DEF SessionOk, Repeated
  <1>19. Saves(r)'
    <2>1. r.known \subseteq OnDisk'
      BY <1>3, <1>9, <1>14, <1>15 DEF Saves
    <2>2. ASSUME NEW j \in Insights(s, 0, r.top)
          PROVE  j \in r.lines \/ Text[s][j].insight \in OnDisk'
      <3>1. CASE j = i
        BY <1>0, <1>15, <3>1
      <3>2. CASE j # i
        BY <1>2, <1>3, <1>8, <1>9, <1>14, <3>2 DEF Saves
      <3>. QED BY <3>1, <3>2
    <2>. QED BY <1>2, <1>3, <1>8, <1>9, <1>10, <1>16, <2>1, <2>2 DEF Saves
  <1>20. LocalsOk(w, r)'
    BY <1>2, <1>8, <1>10, <1>19 DEF LocalsOk
  <1>. QED BY <1>2, <1>7, <1>8, <1>10, <1>17, <1>18, <1>20, WriterStep

LEMMA WriteCursorOk ==
  ASSUME Inductive, NEW w \in Workers, WriteCursor(w)
  PROVE  Inductive'
  <1>0. PICK s, r : s = Of(w) /\ r = [work[w] EXCEPT !.known = {}, !.top = 0, !.at = "infer"]
    OBVIOUS
  <1>1. At(w, "save") /\ ~At(w, "free") /\ work[w].lines = {}
    BY DEF WriteCursor, Saved, At
  <1>2. /\ work \in [Workers -> Locals] /\ work[w] \in Locals /\ LocalsOk(w, work[w])
        /\ s = work[w].session /\ s \in Sessions /\ Owner[s] = w /\ tasks[s] > 0
        /\ FilesType /\ HandoffOk /\ SessionOk(s)
    BY <1>0, <1>1, AtWork
  <1>3. Saves(work[w]) /\ work[w].top \in Nat
    BY <1>1, <1>2 DEF LocalsOk, At, Locals
  <1>4. work' = [work EXCEPT ![w] = r] /\ cursor' = [cursor EXCEPT ![s] = work[w].top]
    BY <1>0, <1>2 DEF WriteCursor
  <1>5. r \in Locals /\ r.session = s /\ r.at = "infer"
    BY <1>0, <1>2 DEF Locals, Places
  <1>6. UNCHANGED <<clock, length, touched, tasks, copies, rows, verdicts, failures, handoff, deaths, errors>>
    BY DEF WriteCursor, transcripts, events, faults
  <1>7. OnDisk' = OnDisk
    BY <1>6, SameDisk
  <1>8. /\ cursor'[s] = work[w].top /\ cursor' \in [Sessions -> Nat]
        /\ \A t \in Sessions \ {s} : cursor'[t] = cursor[t]
    BY <1>2, <1>3, <1>4 DEF FilesType
  <1>9. Apart(s) /\ FilesType' /\ HandoffOk'
    BY <1>2, <1>6, <1>7, <1>8 DEF Apart, FilesType, HandoffOk
  <1>10. /\ work[w].top <= length[s]
         /\ \A i \in Insights(s, 0, work[w].top) : Text[s][i].insight \in OnDisk
    BY <1>1, <1>2, <1>3 DEF Saves
  <1>11. SessionOk(s)'
    BY <1>2, <1>6, <1>7, <1>8, <1>10 DEF SessionOk, Repeated
  <1>12. LocalsOk(w, r)'
    BY <1>2, <1>5, <1>6 DEF LocalsOk
  <1>. QED BY <1>2, <1>4, <1>5, <1>6, <1>8, <1>9, <1>11, <1>12, WriterStep

LEMMA ClearVerdictOk ==
  ASSUME Inductive, NEW w \in Workers, ClearVerdict(w)
  PROVE  Inductive'
  <1>0. PICK s, r : s = Of(w) /\ r = [work[w] EXCEPT !.at = "insertVerdict"]
    OBVIOUS
  <1>1. At(w, "verdict") /\ ~At(w, "free")
    BY DEF ClearVerdict, At
  <1>2. /\ work \in [Workers -> Locals] /\ work[w] \in Locals
        /\ s = work[w].session /\ s \in Sessions /\ Owner[s] = w /\ tasks[s] > 0
        /\ FilesType /\ HandoffOk /\ SessionOk(s)
    BY <1>0, <1>1, AtWork
  <1>3. work' = [work EXCEPT ![w] = r] /\ verdicts' = [verdicts EXCEPT ![s] = 0]
    BY <1>0, <1>2 DEF ClearVerdict, Goto, VerdictCleared
  <1>4. r \in Locals /\ r.session = s /\ r.at = "insertVerdict"
    BY <1>0, <1>2 DEF Locals, Places
  <1>5. UNCHANGED <<clock, length, touched, tasks, copies, cursor, rows, failures, handoff, deaths, errors>>
    BY DEF ClearVerdict, transcripts, insights, faults
  <1>6. OnDisk' = OnDisk
    BY <1>5, SameDisk
  <1>7. /\ verdicts'[s] = 0 /\ verdicts' \in [Sessions -> Nat]
        /\ \A t \in Sessions \ {s} : verdicts'[t] = verdicts[t]
    BY <1>2, <1>3 DEF FilesType
  <1>8. Apart(s) /\ FilesType' /\ HandoffOk'
    BY <1>2, <1>5, <1>6, <1>7 DEF Apart, FilesType, HandoffOk
  <1>9. SessionOk(s)'
    BY <1>2, <1>5, <1>6, <1>7 DEF SessionOk, Repeated
  <1>10. LocalsOk(w, r)'
    BY <1>2, <1>4, <1>5, <1>7 DEF LocalsOk
  <1>. QED BY <1>2, <1>3, <1>4, <1>5, <1>8, <1>9, <1>10, WriterStep

LEMMA InsertVerdictOk ==
  ASSUME Inductive, NEW w \in Workers, InsertVerdict(w)
  PROVE  Inductive'
  <1>0. PICK s, r : s = Of(w) /\ r = [work[w] EXCEPT !.at = "failures"]
    OBVIOUS
  <1>1. At(w, "insertVerdict") /\ ~At(w, "free")
    BY DEF InsertVerdict, At
  <1>2. /\ work \in [Workers -> Locals] /\ work[w] \in Locals /\ LocalsOk(w, work[w])
        /\ s = work[w].session /\ s \in Sessions /\ Owner[s] = w /\ tasks[s] > 0
        /\ FilesType /\ HandoffOk /\ SessionOk(s)
    BY <1>0, <1>1, AtWork
  <1>3. work' = [work EXCEPT ![w] = r] /\ verdicts' = [verdicts EXCEPT ![s] = @ + 1]
    BY <1>0, <1>2 DEF InsertVerdict, Goto
  <1>4. r \in Locals /\ r.session = s /\ r.at = "failures"
    BY <1>0, <1>2 DEF Locals, Places
  <1>5. UNCHANGED <<clock, length, touched, tasks, copies, cursor, rows, failures, handoff, deaths, errors>>
    BY DEF InsertVerdict, transcripts, insights, faults
  <1>6. OnDisk' = OnDisk
    BY <1>5, SameDisk
  <1>7. verdicts[s] = 0
    BY <1>1, <1>2 DEF LocalsOk, At
  <1>8. /\ verdicts'[s] = 1 /\ verdicts' \in [Sessions -> Nat]
        /\ \A t \in Sessions \ {s} : verdicts'[t] = verdicts[t]
    BY <1>2, <1>3, <1>7 DEF FilesType
  <1>9. Apart(s) /\ FilesType' /\ HandoffOk'
    BY <1>2, <1>5, <1>6, <1>8 DEF Apart, FilesType, HandoffOk
  <1>10. SessionOk(s)'
    BY <1>2, <1>5, <1>6, <1>8 DEF SessionOk, Repeated
  <1>11. LocalsOk(w, r)'
    BY <1>2, <1>4, <1>5 DEF LocalsOk
  <1>. QED BY <1>2, <1>3, <1>4, <1>5, <1>9, <1>10, <1>11, WriterStep

LEMMA AppendFailureOk ==
  ASSUME Inductive, NEW w \in Workers, AppendFailure(w)
  PROVE  Inductive'
  <1>0. PICK s, f, r : /\ s = Of(w) /\ f = Head(work[w].answer)
                       /\ r = [work[w] EXCEPT !.answer = Tail(@)]
    OBVIOUS
  <1>1. At(w, "failures") /\ ~At(w, "free") /\ work[w].answer # << >>
    BY DEF AppendFailure, At
  <1>2. /\ work \in [Workers -> Locals] /\ work[w] \in Locals
        /\ s = work[w].session /\ s \in Sessions /\ Owner[s] = w /\ tasks[s] > 0
        /\ FilesType /\ HandoffOk /\ SessionOk(s)
    BY <1>0, <1>1, AtWork
  <1>3. /\ work' = [work EXCEPT ![w] = r]
        /\ failures' = IF f \in SeenFailures(s) THEN failures
                       ELSE [failures EXCEPT ![s] = Append(@, f)]
    BY <1>0, <1>2 DEF AppendFailure
  <1>4. f \in Failures /\ r \in Locals /\ r.session = s /\ r.at = "failures"
    <2>1. work[w].answer \in Seq(Failures)
      BY <1>2 DEF Locals
    <2>2. f \in Failures /\ Tail(work[w].answer) \in Seq(Failures)
      BY <1>0, <1>1, <2>1
    <2>. QED BY <1>0, <1>1, <1>2, <2>2 DEF Locals, At
  <1>5. UNCHANGED <<clock, length, touched, tasks, copies, cursor, rows, verdicts, handoff, deaths, errors>>
    BY DEF AppendFailure, transcripts, insights, events, faults
  <1>6. OnDisk' = OnDisk
    BY <1>5, SameDisk
  <1>7. failures \in [Sessions -> Seq(Failures)] /\ ~Repeated(s)
    BY <1>2 DEF FilesType, SessionOk
  <1>8. /\ failures' \in [Sessions -> Seq(Failures)]
        /\ \A t \in Sessions \ {s} : failures'[t] = failures[t]
    <2>1. Append(failures[s], f) \in Seq(Failures)
      BY <1>2, <1>4, <1>7
    <2>. QED BY <1>2, <1>3, <1>7, <2>1
  <1>9. ~Repeated(s)'
    <2>1. CASE f \in SeenFailures(s)
      BY <1>3, <1>7, <2>1 DEF Repeated
    <2>2. CASE f \notin SeenFailures(s)
      <3>1. failures'[s] = Append(failures[s], f) /\ failures[s] \in Seq(Failures)
        BY <1>2, <1>3, <1>7, <2>2
      <3>2. \A i \in DOMAIN failures[s] : failures[s][i] # f
        BY <2>2 DEF SeenFailures
      <3>3. \A i, j \in DOMAIN failures[s] : failures[s][i] = failures[s][j] => i = j
        BY <1>7 DEF Repeated
      <3>4. ASSUME NEW i \in DOMAIN failures'[s], NEW j \in DOMAIN failures'[s],
                   failures'[s][i] = failures'[s][j]
            PROVE  i = j
        BY <1>4, <3>1, <3>2, <3>3, <3>4
      <3>. QED BY <3>4 DEF Repeated
    <2>. QED BY <2>1, <2>2
  <1>10. Apart(s) /\ FilesType' /\ HandoffOk'
    BY <1>2, <1>5, <1>6, <1>8 DEF Apart, FilesType, HandoffOk
  <1>11. SessionOk(s)'
    BY <1>2, <1>5, <1>6, <1>9 DEF SessionOk
  <1>12. LocalsOk(w, r)'
    BY <1>2, <1>4, <1>5 DEF LocalsOk
  <1>. QED BY <1>2, <1>3, <1>4, <1>5, <1>8, <1>10, <1>11, <1>12, WriterStep

LEMMA WriteHandoffOk ==
  ASSUME Inductive, NEW w \in Workers, WriteHandoff(w)
  PROVE  Inductive'
  <1>0. PICK s, r : s = Of(w) /\ r = [Free EXCEPT !.at = "archive", !.session = s]
    OBVIOUS
  <1>1. At(w, "write") /\ ~At(w, "free")
    BY DEF WriteHandoff, At
  <1>2. /\ work \in [Workers -> Locals] /\ work[w] \in Locals /\ LocalsOk(w, work[w])
        /\ s = work[w].session /\ s \in Sessions /\ Owner[s] = w /\ tasks[s] > 0
        /\ FilesType /\ HandoffOk /\ SessionOk(s)
    BY <1>0, <1>1, AtWork
  <1>3. work' = [work EXCEPT ![w] = r] /\ r \in Locals /\ r.session = s /\ r.at = "archive"
    BY <1>0, <1>2, FreeType DEF WriteHandoff, Leave
  <1>4. UNCHANGED <<clock, length, touched, tasks, copies, cursor, rows, verdicts, failures, deaths, errors>>
    BY DEF WriteHandoff, transcripts, insights, events, faults
  <1>5. OnDisk' = OnDisk
    BY <1>4, SameDisk
  <1>6. work[w].stamp \in Nat /\ work[w].stamp <= touched[s] /\ touched[s] \in Nat
    BY <1>1, <1>2 DEF LocalsOk, At, Locals, FilesType
  <1>7. handoff' \in Handoffs /\ HandoffOk'
    <2>1. CASE work[w].items
      <3>1. handoff' = [by |-> s, mtime |-> Rounded(work[w].stamp)]
        BY <1>0, <2>1 DEF WriteHandoff
      <3>2. Rounded(work[w].stamp) \in Nat /\ s # Nobody
        BY <1>2, <1>6, Rounding, MemoryAssumption DEF MemoryAssumption
      <3>. QED BY <1>2, <1>4, <1>6, <3>1, <3>2 DEF Handoffs, HandoffOk
    <2>2. CASE ~work[w].items
      <3>1. handoff' = [by |-> Nobody, mtime |-> 0]
        BY <2>2 DEF WriteHandoff, NoHandoff
      <3>. QED BY <3>1 DEF Handoffs, HandoffOk
    <2>. QED BY <2>1, <2>2
  <1>8. Apart(s) /\ FilesType'
    BY <1>2, <1>4, <1>5, <1>7 DEF Apart, FilesType
  <1>9. SessionOk(s)'
    BY <1>2, <1>4, <1>5 DEF SessionOk, Repeated
  <1>10. LocalsOk(w, r)'
    BY <1>2, <1>3, <1>4 DEF LocalsOk
  <1>. QED BY <1>2, <1>3, <1>4, <1>7, <1>8, <1>9, <1>10, WriterStep

LEMMA ArchiveOk ==
  ASSUME Inductive, NEW w \in Workers, Archive(w)
  PROVE  Inductive'
  <1>0. PICK s : s = Of(w)
    OBVIOUS
  <1>1. At(w, "archive") /\ ~At(w, "free")
    BY DEF Archive, At
  <1>2. /\ work \in [Workers -> Locals] /\ s \in Sessions /\ Owner[s] = w /\ tasks[s] > 0
        /\ FilesType /\ HandoffOk /\ SessionOk(s)
    BY <1>0, <1>1, AtWork
  <1>3. work' = [work EXCEPT ![w] = Free] /\ Free \in Locals /\ Free.at = "free"
    BY <1>2, FreeType DEF Archive
  <1>4. UNCHANGED <<clock, length, touched, copies, cursor, rows, verdicts, failures, handoff, deaths, errors>>
    BY DEF Archive, transcripts, insights, events, faults
  <1>5. OnDisk' = OnDisk
    BY <1>4, SameDisk
  <1>6. tasks' = [tasks EXCEPT ![s] = @ - 1] /\ tasks \in [Sessions -> Nat]
    BY <1>0, <1>2 DEF Archive, FilesType
  <1>7. /\ tasks' \in [Sessions -> Nat] /\ tasks'[s] <= tasks[s]
        /\ \A t \in Sessions \ {s} : tasks'[t] = tasks[t]
    BY <1>2, <1>6
  <1>8. Apart(s) /\ FilesType' /\ HandoffOk'
    BY <1>2, <1>4, <1>5, <1>7 DEF Apart, FilesType, HandoffOk
  <1>9. SessionOk(s)'
    <2>1. length[s] \in Nat /\ tasks[s] \in Nat /\ tasks'[s] \in Nat
      BY <1>2, <1>7 DEF FilesType
    <2>2. tasks'[s] <= length[s]
      BY <1>2, <1>7, <2>1 DEF SessionOk
    <2>. QED BY <1>2, <1>4, <1>5, <2>2 DEF SessionOk, Repeated
  <1>. QED BY <1>2, <1>3, <1>4, <1>8, <1>9, WriterStep

-----------------------------------------------------------------------------
(* A turn of a session. *)

\* A longer transcript has the insights of the shorter one.
LEMMA MoreInsights ==
  ASSUME NEW s \in Sessions, NEW n \in Nat, NEW m \in Nat, n <= m
  PROVE  Insights(s, 0, n) \subseteq Insights(s, 0, m)
  BY DEF Insights

LEMMA TurnOk ==
  ASSUME Inductive, NEW s \in Sessions, Turn(s)
  PROVE  Inductive'
  <1>1. FilesType /\ HandoffOk /\ (\A t \in Sessions : SessionOk(t)) /\ WorkOk
    BY DEF Inductive, FilesOk
  <1>2. UNCHANGED <<copies, cursor, rows, verdicts, failures, handoff, deaths, errors, work>>
    BY DEF Turn, insights, events, faults
  <1>3. OnDisk' = OnDisk /\ \A t : HashesOf(t)' = HashesOf(t)
    BY <1>2, SameDisk
  <1>4. /\ clock' = clock + 1 /\ length[s] < Len(Text[s]) /\ Len(Text[s]) \in Nat
        /\ length' = [length EXCEPT ![s] = @ + 1] /\ touched' = [touched EXCEPT ![s] = clock + 1]
        /\ tasks' = [tasks EXCEPT ![s] = @ + 1]
    BY Says DEF Turn
  <1>5. ASSUME NEW t \in Sessions
        PROVE  /\ length[t] \in Nat /\ length'[t] \in Nat /\ length[t] <= length'[t]
               /\ touched[t] \in Nat /\ touched'[t] \in Nat /\ touched[t] <= touched'[t]
               /\ tasks[t] \in Nat /\ tasks'[t] \in Nat /\ tasks[t] <= tasks'[t]
               /\ touched'[t] <= clock' /\ tasks'[t] <= length'[t] /\ length'[t] <= Len(Text[t])
    <2>1. /\ clock \in Nat /\ length \in [Sessions -> Nat] /\ touched \in [Sessions -> Nat]
          /\ tasks \in [Sessions -> Nat]
      BY <1>1 DEF FilesType
    <2>2. length[t] <= Len(Text[t]) /\ touched[t] <= clock /\ tasks[t] <= length[t]
      BY <1>1 DEF SessionOk
    <2>. QED BY <1>4, <2>1, <2>2
  <1>6. FilesType'
    BY <1>1, <1>2, <1>4 DEF FilesType
  <1>7. HandoffOk'
    <2>1. CASE handoff.by = Nobody
      BY <1>1, <1>2, <2>1 DEF HandoffOk
    <2>2. CASE handoff.by # Nobody
      <3>1. PICK t \in 0 .. touched[handoff.by] : handoff.mtime = Rounded(t)
        BY <1>1, <2>2 DEF HandoffOk
      <3>2. handoff.by \in Sessions
        BY <1>1, <2>2 DEF FilesType, Handoffs
      <3>3. t \in 0 .. touched'[handoff.by]
        BY <1>5, <3>2
      <3>. QED BY <1>2, <2>2, <3>1, <3>3 DEF HandoffOk
    <2>. QED BY <2>1, <2>2
  <1>8. ASSUME NEW t \in Sessions
        PROVE  /\ Dispatches(t, length[t]) \in Nat /\ Dispatches(t, length'[t]) \in Nat
               /\ Dispatches(t, length[t]) <= Dispatches(t, length'[t])
               /\ Insights(t, 0, length[t]) \subseteq Insights(t, 0, length'[t])
    BY <1>5, MoreDispatches, MoreInsights
  <1>9. ASSUME NEW t \in Sessions PROVE SessionOk(t)'
    <2>1. /\ cursor[t] <= length[t] /\ cursor[t] \in Nat
          /\ rows[t] <= Dispatches(t, length[t]) /\ rows[t] \in Nat
      BY <1>1 DEF SessionOk, FilesType
    <2>2. cursor[t] <= length'[t] /\ rows[t] <= Dispatches(t, length'[t])
      BY <1>5, <1>8, <2>1
    <2>. QED BY <1>1, <1>2, <1>3, <1>5, <2>2 DEF SessionOk, Repeated
  <1>10. ASSUME NEW w \in Workers PROVE LocalsOk(w, work[w])'
    <2>. SUFFICES ASSUME work[w].at # "free" PROVE LocalsOk(w, work[w])'
      BY <1>2 DEF LocalsOk
    <2>1. PICK r, t : r = work[w] /\ t = work[w].session
      OBVIOUS
    <2>2. LocalsOk(w, r) /\ r \in Locals /\ t \in Sessions /\ t = r.session /\ work'[w] = r
      BY <1>1, <1>2, <2>1 DEF WorkOk, LocalsOk
    <2>3. r.todo \in Nat /\ r.top \in Nat /\ r.stamp \in Nat /\ rows[t] \in Nat
      BY <1>1, <2>2 DEF Locals, FilesType
    <2>4. tasks'[t] > 0
      BY <1>5, <2>1, <2>2 DEF LocalsOk
    <2>5. r.at = "clear" => r.todo <= Dispatches(t, length'[t])
      BY <1>8, <2>1, <2>2, <2>3 DEF LocalsOk
    <2>6. r.at = "insert" => rows[t] + r.todo <= Dispatches(t, length'[t])
      <3>1. r.at = "insert" => rows[t] + r.todo <= Dispatches(t, length[t])
        BY <2>1, <2>2 DEF LocalsOk
      <3>. QED BY <1>8, <2>2, <2>3, <3>1
    <2>7. Saves(r) => Saves(r)'
      <3>1. r.top <= length[t] => r.top <= length'[t]
        BY <1>5, <2>2, <2>3
      <3>. QED BY <1>2, <1>3, <1>8, <2>2, <3>1 DEF Saves
    <2>8. r.at = "write" => r.stamp <= touched'[t]
      BY <1>5, <2>1, <2>2, <2>3 DEF LocalsOk
    <2>. QED BY <1>2, <2>1, <2>2, <2>4, <2>5, <2>6, <2>7, <2>8 DEF LocalsOk
  <1>11. WorkOk'
    BY <1>1, <1>2, <1>10 DEF WorkOk
  <1>. QED BY <1>6, <1>7, <1>9, <1>11 DEF Inductive, FilesOk

-----------------------------------------------------------------------------
(* The theorems. *)

LEMMA InductiveInit == Init => Inductive
  <1>. SUFFICES ASSUME Init PROVE Inductive
    OBVIOUS
  <1>1. MaxFaults \in Nat /\ << >> \in Seq(Failures) /\ NoHandoff \in Handoffs
    BY MemoryAssumption DEF MemoryAssumption, NoHandoff, Handoffs
  <1>2. FilesType /\ HandoffOk
    BY <1>1 DEF Init, FilesType, HandoffOk, NoHandoff
  <1>3. ASSUME NEW s \in Sessions PROVE SessionOk(s)
    <2>1. Len(Text[s]) \in Nat /\ Dispatches(s, 0) \in Nat
      BY Says, MoreDispatches
    <2>2. Insights(s, 0, 0) = {}
      BY DEF Insights
    <2>. QED BY <2>1, <2>2 DEF Init, SessionOk, Repeated
  <1>4. WorkOk
    BY FreeType DEF Init, WorkOk, LocalsOk
  <1>. QED BY <1>2, <1>3, <1>4 DEF Inductive, FilesOk

LEMMA InductiveStep == Inductive /\ [Next]_vars => Inductive'
  <1>. SUFFICES ASSUME Inductive, [Next]_vars PROVE Inductive'
    OBVIOUS
  <1>1. ASSUME NEW s \in Sessions, Turn(s) PROVE Inductive'
    BY <1>1, TurnOk
  <1>2. ASSUME NEW w \in Workers, Drain(w) PROVE Inductive'
    BY <1>2, TakeOk, ClearDispatchesOk, InsertDispatchOk, ReadInsightsOk, SaveInsightOk,
       WriteCursorOk, InferOk, ClearVerdictOk, InsertVerdictOk, AppendFailureOk,
       LookAtHandoffOk, WriteHandoffOk, ArchiveOk DEF Drain
  <1>3. ASSUME NEW w \in Workers, DatabaseFails(w) PROVE Inductive'
    BY <1>3, DatabaseFailsOk
  <1>4. ASSUME NEW w \in Workers, FileFails(w) \/ Die(w) PROVE Inductive'
    BY <1>4, FileFailsOk
  <1>5. CASE UNCHANGED vars
    <2>1. Still /\ work' = work /\ UNCHANGED faults
      BY <1>5 DEF vars, Still
    <2>2. FilesOk' /\ Apart(Nobody)
      BY <2>1, NoFault, StillOk
    <2>3. ASSUME NEW w \in Workers PROVE LocalsOk(w, work[w])'
      <3>1. OnDisk' = OnDisk /\ HashesOf(work[w].session)' = HashesOf(work[w].session)
        BY <2>1 DEF Still, insights, OnDisk, HashesOf
      <3>. QED BY <2>1, <3>1 DEF Inductive, WorkOk, LocalsOk, Saves, Still, transcripts, events
    <2>. QED BY <2>1, <2>2, <2>3 DEF Inductive, WorkOk
  <1>. QED BY <1>1, <1>2, <1>3, <1>4, <1>5 DEF Next

THEOREM InductiveAlways == Spec => []Inductive
  BY InductiveInit, InductiveStep, PTL DEF Spec

\* Types, and a worker is on a task of its own queue that still waits.
THEOREM TypeOKAlways == Spec => []TypeOK
  BY InductiveAlways, InductiveImplies, PTL

\* What the insight cursor has passed is on disk (_persist_insights writes the cursor
\* after the files, whoever dies in between).
THEOREM InsightsKeptAlways == Spec => []InsightsKept
  BY InductiveAlways, InductiveImplies, PTL

\* One file an insight, one line a failure, one row a dispatch, one verdict: tasks that
\* are taken again leave nothing twice.
THEOREM WrittenOnceAlways == Spec => []WrittenOnce
  BY InductiveAlways, InductiveImplies, PTL

\* A handoff written where the look before found no newer one is not older than what it
\* replaces, unless a third was written in between.
THEOREM NewerHandoffKeptAlways == Spec => NewerHandoffKept
  <1>1. ASSUME Inductive, NEW w \in Workers, WriteHandoff(w), handoff = work[w].saw, work[w].items
        PROVE  handoff'.mtime >= handoff.mtime
    <2>1. /\ work[w] \in Locals /\ LocalsOk(w, work[w]) /\ work[w].at = "write"
          /\ handoff.mtime \in Nat
      BY <1>1, WorkerType DEF WriteHandoff, At, Inductive, FilesOk, FilesType, Handoffs
    <2>2. handoff.mtime <= Rounded(work[w].stamp) /\ Rounded(work[w].stamp) \in Nat
      BY <1>1, <2>1, Rounding DEF LocalsOk, Locals
    <2>3. handoff'.mtime = Rounded(work[w].stamp)
      BY <1>1 DEF WriteHandoff
    <2>. QED BY <2>1, <2>2, <2>3
  <1>2. Inductive => [\A w \in Workers :
                        WriteHandoff(w) /\ handoff = work[w].saw /\ work[w].items
                            => handoff'.mtime >= handoff.mtime]_vars
    BY <1>1
  <1>. QED BY <1>2, InductiveAlways, PTL DEF NewerHandoffKept
=============================================================================
