------------------------- MODULE ProposalQueueProofs -------------------------
(***************************************************************************)
(* What ProposalQueue promises for any number of workers, people, rules     *)
(* and held lines, whatever the cap and the age, and whoever dies when.     *)
(***************************************************************************)
EXTENDS ProposalQueue, FiniteSetTheorems, WellFoundedInduction, TLAPS

-----------------------------------------------------------------------------
(* Positions in a document.  Nothing here is about the queue: S and T are  *)
(* finite sets of numbers.                                                 *)

\* A set of numbers that is not empty has a least member.
LEMMA Least ==
  ASSUME NEW S \in SUBSET Nat, S # {}
  PROVE  \E n \in S : \A m \in S : n <= m
  <1>. DEFINE Below == {r \in Nat \X Nat : r[1] < r[2]}
  <1>1. IsWellFoundedOn(Below, Nat)
    <2>1. OpToRel(<, Nat) = Below
      BY DEF OpToRel
    <2>. QED BY <2>1, NatLessThanWellFounded
  <1>2. \E n \in S : \A m \in S : ~(<<m, n>> \in Below)
    <2>. HIDE DEF Below
    <2>. QED BY <1>1, WFMin
  <1>3. \A n, m \in S : ~(<<m, n>> \in Below) => n <= m
    OBVIOUS
  <1>. QED BY <1>2, <1>3

\* A finite one has a greatest member: the one with the fewest members above it.
LEMMA Greatest ==
  ASSUME NEW S \in SUBSET Nat, S # {}, IsFiniteSet(S)
  PROVE  \E n \in S : \A m \in S : m <= n
  <1>. DEFINE From(n) == {m \in S : n <= m}
              sizes == {Cardinality(From(n)) : n \in S}
  <1>1. \A n \in S : From(n) \in SUBSET S /\ IsFiniteSet(From(n)) /\ Cardinality(From(n)) \in Nat
    BY FS_Subset, FS_CardinalityType
  <1>2. PICK n \in S : \A m \in S : Cardinality(From(n)) <= Cardinality(From(m))
    <2>1. sizes \in SUBSET Nat /\ sizes # {}
      BY <1>1
    <2>2. PICK c \in sizes : \A d \in sizes : c <= d
      <3>. HIDE DEF sizes
      <3>. QED BY <2>1, Least
    <2>. QED BY <2>2
  <1>3. ASSUME NEW m \in S, n < m PROVE FALSE
    <2>1. From(m) \in SUBSET From(n)
      <3>. SUFFICES ASSUME NEW x \in From(m) PROVE x \in From(n)
        OBVIOUS
      <3>1. x \in S /\ x \in Nat /\ m \in Nat /\ n \in Nat /\ m <= x
        OBVIOUS
      <3>. QED BY <1>3, <3>1
    <2>2. n \in From(n) /\ n \notin From(m)
      <3>1. n \in Nat /\ m \in Nat
        OBVIOUS
      <3>. QED BY <1>3, <3>1
    <2>. HIDE DEF From
    <2>3. Cardinality(From(m)) <= Cardinality(From(n)) /\ Cardinality(From(m)) # Cardinality(From(n))
      BY <1>1, <2>1, <2>2, FS_Subset
    <2>. QED BY <1>1, <1>2, <2>3
  <1>. QED BY <1>3

\* The members of S up to n.
Upto(S, n) == {m \in S : m <= n}

LEMMA UptoGrows ==
  ASSUME NEW S \in SUBSET Nat, NEW n \in S, NEW m \in S, m < n
  PROVE  Upto(S, m) \subseteq Upto(S, n) /\ n \in Upto(S, n) /\ n \notin Upto(S, m)
  <1>0. n \in Nat /\ m \in Nat /\ S \subseteq Nat
    OBVIOUS
  <1>1. Upto(S, m) \subseteq Upto(S, n)
    <2>. SUFFICES ASSUME NEW x \in Upto(S, m) PROVE x \in Upto(S, n)
      OBVIOUS
    <2>1. x \in S /\ x \in Nat /\ x <= m
      BY <1>0 DEF Upto
    <2>. QED BY <1>0, <2>1 DEF Upto
  <1>2. n \in Upto(S, n) /\ n \notin Upto(S, m)
    BY <1>0 DEF Upto
  <1>. QED BY <1>1, <1>2

\* Every position up to the size has a member, ...
LEMMA NthExists ==
  ASSUME NEW S \in SUBSET Nat, IsFiniteSet(S), NEW i \in 1 .. Cardinality(S)
  PROVE  \E n \in S : Cardinality(Upto(S, n)) = i
  <1>. DEFINE T == {n \in S : i <= Cardinality(Upto(S, n))}
  <1>0. /\ Cardinality(S) \in Nat /\ i \in Nat /\ 1 <= i
        /\ \A k \in S : k \in Nat
    BY FS_CardinalityType
  <1>1. \A n : IsFiniteSet(Upto(S, n)) /\ Cardinality(Upto(S, n)) \in Nat
    <2>1. \A n : Upto(S, n) \in SUBSET S
      BY DEF Upto
    <2>. QED BY <2>1, FS_Subset, FS_CardinalityType
  <1>2. S # {}
    BY <1>0, FS_EmptySet
  <1>3. T # {}
    <2>1. PICK n \in S : \A m \in S : m <= n
      BY <1>2, Greatest
    <2>2. Upto(S, n) = S
      BY <2>1 DEF Upto
    <2>. QED BY <1>0, <2>2
  <1>4. IsFiniteSet(T)
    BY FS_Subset
  <1>5. PICK n \in T : \A m \in T : n <= m
    <2>. HIDE DEF T
    <2>1. T \in SUBSET Nat
      BY DEF T
    <2>. QED BY <1>3, <1>4, <2>1, Least
  <1>. DEFINE U == {m \in S : m < n}
  <1>6. IsFiniteSet(U) /\ Cardinality(U) \in Nat
    <2>1. U \in SUBSET S
      OBVIOUS
    <2>. HIDE DEF U
    <2>. QED BY <2>1, FS_Subset, FS_CardinalityType
  <1>7. Cardinality(U) < i
    <2>. SUFFICES ASSUME i <= Cardinality(U) PROVE FALSE
      BY <1>0, <1>6
    <2>1. U # {}
      <3>. HIDE DEF U
      <3>. QED BY <1>0, FS_EmptySet
    <2>2. PICK k \in U : \A m \in U : m <= k
      <3>1. U \in SUBSET Nat
        OBVIOUS
      <3>. HIDE DEF U
      <3>. QED BY <1>6, <2>1, <3>1, Greatest
    <2>3. Upto(S, k) = U
      <3>1. k \in Nat /\ n \in Nat /\ k < n /\ S \subseteq Nat
        BY <1>0
      <3>2. ASSUME NEW x \in S PROVE x <= k <=> x < n
        BY <2>2, <3>1
      <3>. QED BY <3>2 DEF Upto
    <2>4. k \in T /\ k < n
      BY <2>3
    <2>. QED BY <1>5, <2>4
  <1>8. Cardinality(Upto(S, n)) = Cardinality(U) + 1
    <2>1. Upto(S, n) = U \cup {n} /\ n \notin U
      <3>1. n \in S /\ n \in Nat
        BY <1>0
      <3>2. \A x \in S : x <= n <=> x < n \/ x = n
        BY <1>0, <3>1
      <3>3. \A x : x \in Upto(S, n) <=> x \in U \cup {n}
        BY <3>1, <3>2 DEF Upto
      <3>. QED BY <3>1, <3>3
    <2>. HIDE DEF U
    <2>. QED BY <1>6, <2>1, FS_AddElement
  <1>. QED BY <1>0, <1>1, <1>5, <1>6, <1>7, <1>8

\* ... and one only.
LEMMA NthUnique ==
  ASSUME NEW S \in SUBSET Nat, IsFiniteSet(S), NEW n \in S, NEW m \in S, n < m
  PROVE  Cardinality(Upto(S, n)) < Cardinality(Upto(S, m))
  <1>1. /\ Upto(S, m) \in SUBSET S /\ Upto(S, n) \in SUBSET Upto(S, m)
        /\ m \in Upto(S, m) /\ m \notin Upto(S, n)
    <2>1. Upto(S, m) \in SUBSET S
      BY DEF Upto
    <2>. QED BY <2>1, UptoGrows
  <1>2. IsFiniteSet(Upto(S, m))
    BY <1>1, FS_Subset
  <1>3. /\ Cardinality(Upto(S, n)) <= Cardinality(Upto(S, m))
        /\ Cardinality(Upto(S, n)) # Cardinality(Upto(S, m))
    BY <1>1, <1>2, FS_Subset
  <1>4. Cardinality(Upto(S, n)) \in Nat /\ Cardinality(Upto(S, m)) \in Nat
    BY <1>1, <1>2, FS_Subset, FS_CardinalityType
  <1>. QED BY <1>3, <1>4

\* So Nth is the member at its position, and the order of members is that of positions.
LEMMA NthIs ==
  ASSUME NEW S \in SUBSET Nat, IsFiniteSet(S), NEW i \in 1 .. Cardinality(S)
  PROVE  /\ Nth(S, i) \in S /\ Cardinality(Upto(S, Nth(S, i))) = i
         /\ \A n \in S : Cardinality(Upto(S, n)) = i => n = Nth(S, i)
  <1>1. \E n \in S : Cardinality({m \in S : m <= n}) = i
    BY NthExists DEF Upto
  <1>2. Nth(S, i) \in S /\ Cardinality(Upto(S, Nth(S, i))) = i
    BY <1>1 DEF Nth, Upto
  <1>3. ASSUME NEW n \in S, Cardinality(Upto(S, n)) = i PROVE n = Nth(S, i)
    <2>1. n \in Nat /\ Nth(S, i) \in Nat /\ i \in Nat
      <3>1. \A k \in S : k \in Nat
        OBVIOUS
      <3>2. i \in Nat
        BY FS_CardinalityType
      <3>3. n \in Nat /\ Nth(S, i) \in Nat
        BY <1>2, <3>1
      <3>. QED BY <3>2, <3>3
    <2>2. ~(n < Nth(S, i)) /\ ~(Nth(S, i) < n)
      BY <1>2, <1>3, <2>1, NthUnique
    <2>. QED BY <2>1, <2>2
  <1>. QED BY <1>2, <1>3

LEMMA NthOrder ==
  ASSUME NEW S \in SUBSET Nat, IsFiniteSet(S), NEW i \in 1 .. Cardinality(S),
         NEW j \in 1 .. Cardinality(S), i < j
  PROVE  Nth(S, i) < Nth(S, j)
  <1>1. /\ Nth(S, i) \in S /\ Cardinality(Upto(S, Nth(S, i))) = i
        /\ Nth(S, j) \in S /\ Cardinality(Upto(S, Nth(S, j))) = j
    BY NthIs
  <1>2. Nth(S, i) \in Nat /\ Nth(S, j) \in Nat /\ Cardinality(S) \in Nat
    BY <1>1, FS_CardinalityType
  <1>3. ~(Nth(S, j) < Nth(S, i)) /\ Nth(S, i) # Nth(S, j)
    BY <1>1, <1>2, NthUnique
  <1>. QED BY <1>2, <1>3

\* What was taken out behind a position does not move it.
LEMMA NthOfPart ==
  ASSUME NEW S \in SUBSET Nat, IsFiniteSet(S), NEW T \in SUBSET S, NEW i \in 1 .. Cardinality(S),
         \A n \in S : n <= Nth(S, i) => n \in T
  PROVE  i <= Cardinality(T) /\ Nth(T, i) = Nth(S, i)
  <1>. DEFINE x == Nth(S, i)
  <1>1. x \in S /\ Cardinality(Upto(S, x)) = i
    BY NthIs
  <1>2. Upto(T, x) = Upto(S, x) /\ x \in T
    <2>1. x \in Nat
      BY <1>1
    <2>2. \A n \in S : n <= x => n \in T
      OBVIOUS
    <2>. HIDE DEF x
    <2>3. x \in T
      BY <1>1, <2>1, <2>2
    <2>4. ASSUME NEW n, n <= x PROVE n \in S <=> n \in T
      BY <2>2, <2>4
    <2>. QED BY <2>3, <2>4 DEF Upto
  <1>3. IsFiniteSet(T) /\ Cardinality(T) \in Nat
    BY FS_Subset, FS_CardinalityType
  <1>4. i <= Cardinality(T)
    <2>1. Upto(T, x) \in SUBSET T
      BY DEF Upto
    <2>. QED BY <1>1, <1>2, <1>3, <2>1, FS_Subset
  <1>5. i \in 1 .. Cardinality(T)
    BY <1>3, <1>4, FS_CardinalityType
  <1>6. T \in SUBSET Nat /\ Cardinality(Upto(T, x)) = i
    BY <1>1, <1>2
  <1>7. x = Nth(T, i)
    <2>. HIDE DEF x
    <2>. QED BY <1>2, <1>3, <1>5, <1>6, NthIs
  <1>. QED BY <1>4, <1>7

-----------------------------------------------------------------------------
(* Types. *)

Locals == [at : Places, clock : Days, todo : SUBSET Entries, rules : Seq(Rules),
           shown : SUBSET (1 .. MaxEntries), verdicts : SUBSET (Nat \ {0}),
           text : SUBSET (1 .. MaxEntries), line : Nat]

\* The files; they are all that the others see.
FilesType ==
    /\ day \in Days /\ written \in 0 .. MaxEntries
    /\ pending \subseteq Entries /\ expired \subseteq Entries /\ judged \subseteq Judged
    /\ held \in Seq(HeldRows) /\ Len(held) <= MaxHeld
    /\ markers \subseteq 1 .. Len(held) /\ dispositions \subseteq 1 .. Len(held)
    /\ recorded \subseteq Rules

\* TypeOK, and what makes it inductive: a task is not from the future, and the line a
\* command is about exists.
ProcType ==
    /\ lock \in Procs \cup {NoProc}
    /\ proc \in [Procs -> Locals]
    /\ \A p \in Procs :
        /\ proc[p].clock <= day
        /\ proc[p].at \in {"reconcileHeld", "dispose"} => proc[p].line \in 1 .. Len(held)

\* Only who holds the lock is in a critical section.
Exclusion == \A p \in Procs : (proc[p].at \in Critical) <=> (lock = p)

TypeInv == FilesType /\ ProcType /\ Exclusion

\* The bounds are numbers.
LEMMA Numbers ==
  /\ MaxDay \in Nat /\ MaxAge \in Nat /\ Cap \in Nat /\ MaxNew \in Nat
  /\ MaxEntries \in Nat /\ MaxHeld \in Nat /\ NoProc \notin Procs
  /\ Cap \in Caps /\ Caps \subseteq Nat
  BY ProposalAssumption DEF ProposalAssumption

\* There are finitely many bullets.
LEMMA BulletsFinite == IsFiniteSet(1 .. MaxEntries)
  <1>1. 1 .. MaxEntries \in SUBSET Nat /\ \A n \in 1 .. MaxEntries : n <= MaxEntries
    BY Numbers
  <1>. QED BY <1>1, Numbers, FS_BoundedSetOfNaturals

\* What a process is when it starts.
LEMMA IdleType == Idle \in Locals /\ Idle.at = "idle" /\ Idle.clock = 0
  BY Numbers DEF Idle, Locals, Places, Days

\* The initial state has the types.
LEMMA InitType == Init => TypeInv
  <1>. SUFFICES ASSUME Init PROVE TypeInv
    OBVIOUS
  <1>. USE Numbers
  <1>1. held \in Seq(HeldRows) /\ Len(held) <= MaxHeld
    <2>1. PICK n \in 0 .. MaxHeld : held \in [1 .. n -> [rule : Rules, ts : {0}]]
      BY DEF Init
    <2>2. held \in [1 .. n -> HeldRows] /\ n \in Nat
      BY <2>1 DEF HeldRows, Days
    <2>. QED BY <2>2
  <1>2. recorded \subseteq Rules
    BY <1>1 DEF Init, RulesOf, HeldRows
  <1>3. FilesType
    BY <1>1, <1>2 DEF Init, FilesType, Days
  <1>4. ProcType /\ Exclusion
    BY IdleType DEF Init, ProcType, Exclusion, Critical, Days
  <1>. QED BY <1>3, <1>4 DEF TypeInv

\* Every position in a critical section.
LEMMA InCritical ==
  \A x : x \in Critical <=> x \in {"expireGate", "expirePersist", "record", "reconcile",
                                  "archive", "reconcileHeld", "dispose", "forget"}
  BY DEF Critical, Places

\* A step by which p takes the lock, keeps it or gives it back excludes as before.
LEMMA Excludes ==
  ASSUME TypeInv, NEW p \in Procs, NEW r \in Locals, proc' = [proc EXCEPT ![p] = r],
         \/ lock' = lock /\ (r.at \in Critical <=> proc[p].at \in Critical)
         \/ lock = NoProc /\ lock' = p /\ r.at \in Critical
         \/ lock = p /\ lock' = NoProc /\ r.at \notin Critical
  PROVE  Exclusion' /\ lock' \in Procs \cup {NoProc}
  BY Numbers DEF TypeInv, Exclusion, ProcType

\* And keeps the types of the processes, when the files only grow.
LEMMA ProcStep ==
  ASSUME TypeInv, NEW p \in Procs, NEW r \in Locals, proc' = [proc EXCEPT ![p] = r],
         r.clock <= day, day' = day, Len(held) <= Len(held'), Len(held') \in Nat,
         r.at \in {"reconcileHeld", "dispose"} => r.line \in 1 .. Len(held'),
         lock' \in Procs \cup {NoProc}
  PROVE  ProcType'
  <1>1. Len(held) \in Nat
    BY DEF TypeInv, FilesType
  <1>2. \A q \in Procs : proc'[q] = IF q = p THEN r ELSE proc[q]
    BY DEF TypeInv, ProcType
  <1>. QED BY <1>1, <1>2 DEF TypeInv, ProcType

\* What a step does to the record of its process, and to no other.
LEMMA Record1 ==
  ASSUME TypeInv, NEW p \in Procs
  PROVE  /\ proc[p] \in Locals /\ proc[p].clock <= day /\ proc[p].clock \in Days
         /\ proc[p].todo \subseteq Entries /\ proc[p].rules \in Seq(Rules)
         /\ proc[p].at \in Places
         /\ proc[p].verdicts \subseteq Nat \ {0} /\ proc[p].text \subseteq 1 .. MaxEntries
         /\ proc[p].line \in Nat /\ day \in Nat
  BY Numbers DEF TypeInv, ProcType, FilesType, Locals, Days

\* Steps that leave the files alone.
LEMMA QuietType ==
  ASSUME TypeInv, NEW p \in Procs,
         UNCHANGED <<day, queue, overflow, expired, judged, recorded>>,
         \/ BeginTask(p) \/ StartExpiry(p) \/ Infer(p) \/ List(p) \/ Judge(p) \/ HeldRequeue(p)
         \/ Load(p) \/ Crash(p)
  PROVE  TypeInv'
  <1>. USE Numbers, InCritical
  <1>1. FilesType'
    BY DEF TypeInv, FilesType, queue, overflow
  <1>2. proc[p] \in Locals
    BY Record1
  <1>3. ASSUME NEW r \in Locals, proc' = [proc EXCEPT ![p] = r], r.clock <= day,
               r.at \in {"reconcileHeld", "dispose"} => r.line \in 1 .. Len(held),
               \/ lock' = lock /\ (r.at \in Critical <=> proc[p].at \in Critical)
               \/ lock = NoProc /\ lock' = p /\ r.at \in Critical
               \/ lock = p /\ lock' = NoProc /\ r.at \notin Critical
        PROVE  TypeInv'
    <2>1. Exclusion' /\ lock' \in Procs \cup {NoProc}
      BY <1>3, Excludes
    <2>2. Len(held) \in Nat /\ held' = held /\ day' = day
      BY DEF TypeInv, FilesType, overflow
    <2>4. Len(held') = Len(held) /\ Len(held) <= Len(held') /\ Len(held') \in Nat
      BY <2>2
    <2>5. r.at \in {"reconcileHeld", "dispose"} => r.line \in 1 .. Len(held')
      BY <1>3, <2>4
    <2>3. ProcType'
      BY <1>3, <2>1, <2>2, <2>4, <2>5, ProcStep
    <2>. QED BY <1>1, <2>1, <2>3 DEF TypeInv
  <1>12. ASSUME proc' = [proc EXCEPT ![p] = Idle],
                \/ lock' = lock /\ proc[p].at \notin Critical
                \/ lock = p /\ lock' = NoProc
         PROVE  TypeInv'
    <2>1. /\ Idle \in Locals /\ Idle.at \notin Critical /\ Idle.clock <= day
          /\ Idle.at \notin {"reconcileHeld", "dispose"}
      BY IdleType, Record1
    <2>. QED BY <1>3, <1>12, <2>1
  <1>4. CASE BeginTask(p)
    <2>1. PICK t \in 0 .. day : proc' = [proc EXCEPT ![p] = [Idle EXCEPT !.at = "gate", !.clock = t]]
      BY <1>4 DEF BeginTask
    <2>. DEFINE r == [Idle EXCEPT !.at = "gate", !.clock = t]
    <2>3. t \in Days /\ t <= day
      BY DEF FilesType, Days, TypeInv
    <2>2. r \in Locals /\ r.at = "gate" /\ r.clock <= day
      BY <2>3, IdleType DEF Locals, Places
    <2>. QED BY <1>3, <1>4, <2>1, <2>2 DEF BeginTask, At
  <1>5. CASE StartExpiry(p)
    <2>. DEFINE S == {e \in TooOld(p) : ~Registered(e)}
                x == IF proc[p].at = "gate" THEN "expireGate" ELSE "expirePersist"
                r == [proc[p] EXCEPT !.todo = S, !.at = x]
    <2>1. S \in SUBSET Entries
      BY DEF TooOld, TypeInv, FilesType
    <2>2. proc' = [proc EXCEPT ![p] = r]
      BY <1>5 DEF StartExpiry, TypeInv, ProcType
    <2>3. x \in Places /\ x \in Critical /\ x \notin {"reconcileHeld", "dispose"}
      BY DEF Places
    <2>. HIDE DEF S, x
    <2>4. r \in Locals /\ r.at = x /\ r.clock = proc[p].clock
      BY <1>2, <2>1, <2>3 DEF Locals
    <2>. HIDE DEF r
    <2>. QED BY <1>3, <1>5, <2>2, <2>3, <2>4, Record1 DEF StartExpiry, Acquire
  <1>6. CASE Infer(p)
    <2>1. CASE proc' = [proc EXCEPT ![p] = Idle]
      BY <1>12, <1>6, <2>1 DEF Infer, At
    <2>2. ASSUME NEW k \in 1 .. MaxNew, NEW f \in [1 .. k -> Rules],
                 proc' = [proc EXCEPT ![p].rules = f, ![p].at = "persist"]
          PROVE  TypeInv'
      <3>. DEFINE r == [proc[p] EXCEPT !.rules = f, !.at = "persist"]
      <3>1. proc' = [proc EXCEPT ![p] = r]
        BY <2>2 DEF TypeInv, ProcType
      <3>2. f \in Seq(Rules)
        OBVIOUS
      <3>3. r \in Locals /\ r.at = "persist" /\ r.clock = proc[p].clock
        BY <1>2, <3>2 DEF Locals, Places
      <3>. HIDE DEF r
      <3>. QED BY <1>3, <1>6, <3>1, <3>3, Record1 DEF Infer, At
    <2>. QED BY <1>6, <2>1, <2>2 DEF Infer
  <1>7. CASE List(p)
    <2>. DEFINE r == [proc[p] EXCEPT !.shown = Bullets(pending), !.at = "deciding"]
    <2>1. proc' = [proc EXCEPT ![p] = r]
      BY <1>7 DEF List, TypeInv, ProcType
    <2>2. Bullets(pending) \in SUBSET (1 .. MaxEntries)
      BY DEF Bullets, TypeInv, FilesType, Entries
    <2>3. r \in Locals /\ r.at = "deciding" /\ r.clock = proc[p].clock
      BY <1>2, <2>2 DEF Locals, Places
    <2>. HIDE DEF r
    <2>. QED BY <1>3, <1>7, <2>1, <2>3, Record1 DEF List, At
  <1>8. CASE Judge(p)
    <2>1. PICK P \in (SUBSET (1 .. Cardinality(proc[p].shown))) \ {{}} :
             proc' = [proc EXCEPT ![p].verdicts = P, ![p].shown = {}, ![p].at = "reconcile"]
      BY <1>8 DEF Judge
    <2>. DEFINE r == [proc[p] EXCEPT !.verdicts = P, !.shown = {}, !.at = "reconcile"]
    <2>2. proc' = [proc EXCEPT ![p] = r]
      BY <2>1 DEF TypeInv, ProcType
    <2>3. P \in SUBSET (Nat \ {0})
      <3>1. Cardinality(proc[p].shown) \in Nat
        <4>1. proc[p].shown \in SUBSET (1 .. MaxEntries)
          BY <1>2 DEF Locals
        <4>2. IsFiniteSet(1 .. MaxEntries)
          BY BulletsFinite
        <4>3. IsFiniteSet(proc[p].shown)
          BY <4>1, <4>2, FS_Subset
        <4>. QED BY <4>3, FS_CardinalityType
      <3>. DEFINE c == Cardinality(proc[p].shown)
      <3>2. P \subseteq 1 .. c
        OBVIOUS
      <3>. HIDE DEF c
      <3>3. 1 .. c \subseteq Nat \ {0}
        BY <3>1 DEF c
      <3>. QED BY <3>2, <3>3
    <2>4. r \in Locals /\ r.at = "reconcile" /\ r.clock = proc[p].clock
      BY <1>2, <2>3 DEF Locals, Places
    <2>. HIDE DEF r
    <2>. QED BY <1>3, <1>8, <2>2, <2>4, Record1 DEF Judge, Acquire
  <1>9. CASE HeldRequeue(p)
    <2>1. PICK i \in 1 .. Len(held) : proc' = [proc EXCEPT ![p].line = i, ![p].at = "reconcileHeld"]
      BY <1>9 DEF HeldRequeue
    <2>. DEFINE r == [proc[p] EXCEPT !.line = i, !.at = "reconcileHeld"]
    <2>2. proc' = [proc EXCEPT ![p] = r]
      BY <2>1 DEF TypeInv, ProcType
    <2>3. i \in Nat
      BY DEF TypeInv, FilesType
    <2>4. r \in Locals /\ r.at = "reconcileHeld" /\ r.clock = proc[p].clock /\ r.line = i
      BY <1>2, <2>3 DEF Locals, Places
    <2>. HIDE DEF r
    <2>. QED BY <1>3, <1>9, <2>2, <2>4, Record1 DEF HeldRequeue, Acquire
  <1>10. CASE Load(p)
    <2>0. lock = p /\ proc[p].at \in Critical
      BY <1>10 DEF Load, Reconciled, At, TypeInv, Exclusion
    <2>1. CASE Finish(p)
      BY <1>12, <2>0, <2>1 DEF Finish
    <2>2. CASE ~Finish(p)
      <3>. DEFINE r == [proc[p] EXCEPT !.text = Bullets(pending), !.at = "archive"]
      <3>1. proc' = [proc EXCEPT ![p] = r] /\ UNCHANGED lock
        BY <1>10, <2>2 DEF Load, TypeInv, ProcType
      <3>2. Bullets(pending) \in SUBSET (1 .. MaxEntries)
        BY DEF Bullets, TypeInv, FilesType, Entries
      <3>3. r \in Locals /\ r.at = "archive" /\ r.clock = proc[p].clock
        BY <1>2, <3>2 DEF Locals, Places
      <3>. HIDE DEF r
      <3>. QED BY <1>3, <2>0, <3>1, <3>3, Record1
    <2>. QED BY <2>1, <2>2
  <1>11. CASE Crash(p)
    <2>1. proc' = [proc EXCEPT ![p] = Idle] /\ lock' = IF lock = p THEN NoProc ELSE lock
      BY <1>11 DEF Crash
    <2>2. (proc[p].at \in Critical) <=> (lock = p)
      BY DEF TypeInv, Exclusion
    <2>. QED BY <1>12, <2>1, <2>2
  <1>. QED BY <1>4, <1>5, <1>6, <1>7, <1>8, <1>9, <1>10, <1>11

\* A step that gives the lock back and is done.
LEMMA FinishType ==
  ASSUME TypeInv, NEW p \in Procs, proc[p].at \in Critical, Finish(p), FilesType', day' = day,
         Len(held) <= Len(held')
  PROVE  TypeInv'
  <1>1. lock = p
    BY DEF TypeInv, Exclusion
  <1>2. Idle \in Locals /\ Idle.at \notin Critical /\ Idle.clock <= day
    BY IdleType, Record1, InCritical
  <1>3. proc' = [proc EXCEPT ![p] = Idle] /\ lock' = NoProc
    BY DEF Finish
  <1>4. Exclusion' /\ lock' \in Procs \cup {NoProc}
    BY <1>1, <1>2, <1>3, Excludes
  <1>5. ProcType'
    <2>1. Len(held') \in Nat /\ Idle.at \notin {"reconcileHeld", "dispose"}
      BY IdleType DEF FilesType
    <2>. QED BY <1>2, <1>3, <1>4, <2>1, ProcStep
  <1>. QED BY <1>4, <1>5 DEF TypeInv

\* A step within a critical section, or into one.
LEMMA InsideType ==
  ASSUME TypeInv, NEW p \in Procs, NEW r \in Locals, proc' = [proc EXCEPT ![p] = r],
         r.at \in Critical, r.clock = proc[p].clock,
         \/ proc[p].at \in Critical /\ lock' = lock
         \/ Acquire(p),
         FilesType', day' = day, held' = held,
         r.at \in {"reconcileHeld", "dispose"} => r.line \in 1 .. Len(held)
  PROVE  TypeInv'
  <1>1. Exclusion' /\ lock' \in Procs \cup {NoProc}
    BY Excludes DEF Acquire
  <1>2. Len(held') \in Nat /\ Len(held) <= Len(held') /\ r.clock <= day
    BY Record1 DEF FilesType
  <1>3. ProcType'
    BY <1>1, <1>2, ProcStep
  <1>. QED BY <1>1, <1>3 DEF TypeInv

-----------------------------------------------------------------------------
(* The invariant. *)

\* No two bullets have an id, and none has one to come.
Ids == \A e, f \in pending \cup expired : e.id <= written /\ (e.id = f.id => e = f)

\* An expiry: what is to leave the queue is still to be registered, or its rule is.
ExpiryInv ==
    \A p \in Procs : Expiring(p) =>
        /\ proc[p].todo \subseteq pending
        /\ \A e \in TooOld(p) : e \in proc[p].todo \/ \E x \in expired : x.rule = e.rule

\* An apply: up to the last verdict to come the text is what the queue is; and what is
\* not in the text any more is in a registry.
VerdictsInv ==
    \A p \in Procs : At(p, "archive") =>
        /\ proc[p].verdicts \subseteq 1 .. Cardinality(pending)
        /\ proc[p].text \subseteq Bullets(pending)
        /\ \A i \in proc[p].verdicts : \A n \in Bullets(pending) :
                n <= Nth(Bullets(pending), i) => n \in proc[p].text
        /\ \A e \in pending : e.id \in proc[p].text
                               \/ \E j \in judged : j.id = e.id /\ j.rule = e.rule /\ j.from = e.from

Kept == RulesOf(pending \cup expired \cup judged)

\* A rule is kept when its held line has a marker or a disposition, ...
Accounted ==
    /\ \A i \in markers \cup dispositions : held[i].rule \in Kept
    /\ \A p \in Procs : At(p, "dispose") => held[proc[p].line].rule \in Kept
\* ... and every rule is, or has a held line.
RecordedInv == recorded \subseteq Kept \cup {held[i].rule : i \in 1 .. Len(held)}
\* The queue has what the expired registry is about to forget.
ForgetInv ==
    \A p \in Procs : At(p, "forget") =>
        \A e \in expired : e.id = proc[p].line => e.rule \in RulesOf(pending)

\* Every bullet of a held line has left its marker.
Marked == \A e \in pending \cup expired \cup judged : e.from # 0 => e.from \in markers

\* A revived bullet is under a header of its day.
Dated == \A e \in pending : e.from = 0 /\ e.back # Never => e.ts = e.back

Inductive ==
    /\ TypeInv /\ Ids /\ ExpiryInv /\ VerdictsInv
    /\ Accounted /\ RecordedInv /\ ForgetInv /\ Marked /\ RequeuedOnce
    /\ Dated /\ CapRespected

\* The invariant has what the runs check.
LEMMA InductiveImplies == Inductive => TypeOK /\ RulesConserved /\ CapRespected
  <1>. SUFFICES ASSUME Inductive PROVE TypeOK /\ RulesConserved /\ CapRespected
    OBVIOUS
  <1>1. TypeOK
    BY DEF Inductive, TypeInv, FilesType, ProcType, Exclusion, TypeOK, Locals
  <1>2. NothingLost
    BY DEF Inductive, NothingLost, RecordedInv, Accounted, Kept, TypeInv, FilesType
  <1>. QED BY <1>1, <1>2 DEF Inductive, RulesConserved

\* The ids are the bullets: the queue is finite, and as long as its ids are many.
LEMMA QueueCounted ==
  ASSUME TypeInv, Ids
  PROVE  /\ IsFiniteSet(pending) /\ Cardinality(pending) \in Nat
         /\ Bullets(pending) \in SUBSET Nat /\ IsFiniteSet(Bullets(pending))
         /\ Cardinality(Bullets(pending)) = Cardinality(pending)
  <1>. DEFINE f == [e \in pending |-> e.id]
              B == Bullets(pending)
  <1>1. B \in SUBSET (1 .. MaxEntries)
    BY DEF TypeInv, FilesType, Entries, Bullets
  <1>2. IsFiniteSet(B) /\ B \in SUBSET Nat
    <2>. HIDE DEF B
    <2>1. IsFiniteSet(B)
      BY <1>1, BulletsFinite, FS_Subset
    <2>2. B \in SUBSET Nat
      BY <1>1
    <2>. QED BY <2>1, <2>2
  <1>3. f \in Injection(pending, B) /\ f \in Surjection(pending, B)
    <2>1. f \in [pending -> B]
      BY DEF Bullets
    <2>2. \A a, b \in pending : f[a] = f[b] => a = b
      BY DEF Ids
    <2>3. \A n \in B : \E e \in pending : f[e] = n
      BY DEF Bullets
    <2>. QED BY <2>1, <2>2, <2>3 DEF Injection, Surjection, IsInjective
  <1>. HIDE DEF f, B
  <1>4. IsFiniteSet(pending) /\ Cardinality(pending) = Cardinality(B)
    BY <1>2, <1>3, FS_Injection
  <1>. QED BY <1>2, <1>4, FS_CardinalityType DEF B

\* Who is in a critical section sees nobody else write.
LEMMA OthersWait ==
  ASSUME TypeInv, NEW p \in Procs, NEW q \in Procs, p # q, proc[q].at \in Critical,
         Step(p) \/ Crash(p)
  PROVE  /\ UNCHANGED <<pending, markers, written, held, dispositions, expired, judged, recorded>>
         /\ proc'[q] = proc[q]
  <1>. USE InCritical, Numbers
  <1>1. lock = q /\ lock # NoProc /\ proc[p].at \notin Critical
    BY DEF TypeInv, Exclusion
  <1>2. ~Acquire(p)
    BY <1>1 DEF Acquire
  <1>3. /\ ~StartExpiry(p) /\ ~Judge(p) /\ ~HeldRequeue(p) /\ ~RequeueExpired(p)
        /\ ~Register(p) /\ ~DropExpired(p) /\ ~Record(p) /\ ~Reconcile(p) /\ ~Load(p)
        /\ ~Archive(p) /\ ~Replace(p) /\ ~RequeueHeld(p) /\ ~Dispose(p) /\ ~Forget(p)
    BY <1>1, <1>2 DEF StartExpiry, Judge, HeldRequeue, RequeueExpired, Register, DropExpired,
          RegistryWritten, Expiring, Record, Reconcile, Reconciled, Load, Archive, Replace,
          RequeueHeld, Dispose, Forget, At
  <1>4. BeginTask(p) \/ Infer(p) \/ List(p) \/ Crash(p)
    BY <1>3 DEF Step
  <1>. QED
    BY <1>4 DEF BeginTask, Infer, List, Crash, queue, overflow, TypeInv, ProcType

-----------------------------------------------------------------------------
(* Types, of the steps that write. *)

LEMMA TickType == TypeInv /\ Tick => TypeInv'
  <1>. SUFFICES ASSUME TypeInv, Tick PROVE TypeInv'
    OBVIOUS
  <1>0. day \in Nat /\ day' = day + 1 /\ day' \in Days
    BY Numbers DEF TypeInv, FilesType, Days, Tick
  <1>1. FilesType'
    BY <1>0 DEF TypeInv, FilesType, Tick, queue, overflow
  <1>2. ProcType'
    <2>1. \A q \in Procs : proc[q].clock <= day'
      BY <1>0, Record1 DEF TypeInv, ProcType, Days
    <2>. QED BY <2>1 DEF TypeInv, ProcType, Tick, overflow
  <1>3. Exclusion'
    BY DEF TypeInv, Exclusion, Tick
  <1>. QED BY <1>1, <1>2, <1>3 DEF TypeInv

\* The expiry.
LEMMA ExpiryType ==
  ASSUME Inductive, NEW p \in Procs, Register(p) \/ DropExpired(p)
  PROVE  TypeInv'
  <1>. USE DEF Inductive
  <1>0. /\ Expiring(p) /\ proc[p].at \in Critical
        /\ proc[p].at \in {"expireGate", "expirePersist"}
    BY InCritical DEF Register, DropExpired, RegistryWritten, Expiring, At
  <1>1. CASE Register(p)
    <2>1. PICK e \in proc[p].todo : /\ expired' = expired \cup {e}
                                   /\ proc' = [proc EXCEPT ![p].todo = @ \ {e}]
      BY <1>1 DEF Register
    <2>. DEFINE r == [proc[p] EXCEPT !.todo = @ \ {e}]
    <2>2. proc' = [proc EXCEPT ![p] = r]
      BY <2>1 DEF TypeInv, ProcType
    <2>3. r \in Locals /\ r.at = proc[p].at /\ r.clock = proc[p].clock
      BY Record1 DEF Locals
    <2>4. FilesType'
      BY <1>1, <2>1, Record1 DEF Register, TypeInv, FilesType, queue, overflow
    <2>5. held' = held /\ day' = day /\ lock' = lock
      BY <1>1 DEF Register, overflow
    <2>. HIDE DEF r
    <2>. QED BY <1>0, <2>2, <2>3, <2>4, <2>5, InsideType
  <1>2. CASE DropExpired(p)
    <2>1. FilesType'
      BY <1>2 DEF DropExpired, TypeInv, FilesType, overflow
    <2>2. held' = held /\ day' = day
      BY <1>2 DEF DropExpired, overflow
    <2>3. CASE At(p, "expireGate")
      <3>. DEFINE r == [proc[p] EXCEPT !.at = "infer"]
      <3>1. proc' = [proc EXCEPT ![p] = r] /\ lock' = NoProc
        BY <1>2, <2>3 DEF DropExpired, Goto, At, TypeInv, ProcType
      <3>2. r \in Locals /\ r.at = "infer" /\ r.clock = proc[p].clock
        BY Record1 DEF Locals, Places
      <3>3. lock = p
        BY <1>0 DEF TypeInv, Exclusion
      <3>. HIDE DEF r
      <3>4. Exclusion' /\ lock' \in Procs \cup {NoProc}
        BY <3>1, <3>2, <3>3, Excludes, InCritical
      <3>5. /\ Len(held) \in Nat /\ Len(held) <= Len(held') /\ Len(held') \in Nat
            /\ r.clock <= day /\ r.at \notin {"reconcileHeld", "dispose"}
        BY <2>2, <3>2, Record1 DEF TypeInv, FilesType
      <3>6. ProcType'
        BY <2>2, <3>1, <3>2, <3>4, <3>5, ProcStep
      <3>. QED BY <2>1, <3>4, <3>6 DEF TypeInv
    <2>4. CASE At(p, "expirePersist")
      <3>. DEFINE r == [proc[p] EXCEPT !.at = "record"]
      <3>1. proc' = [proc EXCEPT ![p] = r] /\ lock' = lock
        BY <1>2, <2>4 DEF DropExpired, Goto, At, TypeInv, ProcType
      <3>2. r \in Locals /\ r.at = "record" /\ r.clock = proc[p].clock /\ r.at \in Critical
        BY Record1, InCritical DEF Locals, Places
      <3>. HIDE DEF r
      <3>. QED BY <1>0, <2>1, <2>2, <3>1, <3>2, InsideType
    <2>. QED BY <1>0, <2>3, <2>4 DEF Expiring
  <1>. QED BY <1>1, <1>2

\* A bullet is one of Entries while there is room for it.
LEMMA BulletType ==
  ASSUME TypeInv, NEW n \in Nat \ {0}, written + n <= MaxEntries, NEW rule \in Rules,
         NEW ts \in Days, NEW from \in 0 .. MaxHeld, NEW back \in Days \cup {Never}
  PROVE  /\ Bullet(n, rule, ts, from, back) \in Entries
         /\ Bullet(n, rule, ts, from, back).id = written + n
  BY Numbers DEF TypeInv, FilesType, Bullet, Entries

\* What the grader proposed.
LEMMA RecordType ==
  ASSUME Inductive, NEW p \in Procs, Record(p)
  PROVE  TypeInv' /\ Len(held) <= Len(held')
  <1>. USE DEF Inductive
  <1>. DEFINE rules == proc[p].rules
              n == Len(rules)
              rows == [i \in 1 .. n |-> [rule |-> rules[i], ts |-> proc[p].clock]]
              new == {Bullet(i, rules[i], proc[p].clock, 0, Never) : i \in 1 .. n}
  <1>1. rules \in Seq(Rules) /\ n \in Nat /\ \A i \in 1 .. n : rules[i] \in Rules
    BY Record1
  <1>2. recorded' \subseteq Rules /\ UNCHANGED <<day, markers, dispositions, expired, judged>>
    BY <1>1 DEF Record, TypeInv, FilesType
  <1>3. FilesType' /\ Len(held) <= Len(held')
    <2>1. CASE held' = held \o rows /\ Len(held) + n <= MaxHeld /\ UNCHANGED <<pending, written>>
      <3>1. rows \in Seq(HeldRows) /\ Len(rows) = n
        <4>1. \A i \in 1 .. n : rows[i] \in HeldRows
          BY <1>1, Record1 DEF HeldRows
        <4>2. rows \in [1 .. n -> HeldRows]
          BY <4>1
        <4>. HIDE DEF n, rules
        <4>. QED BY <1>1, <4>2
      <3>. HIDE DEF rows, n, rules
      <3>0. held \in Seq(HeldRows) /\ Len(held) \in Nat
        BY DEF TypeInv, FilesType
      <3>2. held \o rows \in Seq(HeldRows) /\ Len(held \o rows) = Len(held) + n
        BY <3>0, <3>1
      <3>3. held' \in Seq(HeldRows) /\ Len(held') = Len(held) + n
        BY <2>1, <3>2
      <3>4. 1 .. Len(held) \subseteq 1 .. Len(held') /\ Len(held) <= Len(held')
        BY <1>1, <3>0, <3>3
      <3>5. markers' \subseteq 1 .. Len(held') /\ dispositions' \subseteq 1 .. Len(held')
        BY <1>2, <3>4 DEF TypeInv, FilesType
      <3>6. Len(held') <= MaxHeld
        BY <2>1, <3>3
      <3>. QED BY <1>2, <2>1, <3>3, <3>4, <3>5, <3>6 DEF TypeInv, FilesType
    <2>2. CASE written + n <= MaxEntries /\ pending' = pending \cup new /\ written' = written + n
               /\ UNCHANGED held
      <3>0. written \in Nat /\ Never \in Days \cup {Never} /\ 0 \in 0 .. MaxHeld
        BY Numbers DEF TypeInv, FilesType
      <3>1. ASSUME NEW i \in 1 .. n
            PROVE  Bullet(i, rules[i], proc[p].clock, 0, Never) \in Entries
        <4>1. i \in Nat \ {0} /\ written + i <= MaxEntries
          BY <1>1, <2>2, <3>0, Numbers
        <4>. QED BY <1>1, <3>0, <4>1, Record1, BulletType
      <3>2. new \subseteq Entries
        BY <3>1
      <3>3. written' \in 0 .. MaxEntries /\ Len(held) \in Nat
        BY <1>1, <2>2, <3>0, Numbers DEF TypeInv, FilesType
      <3>. HIDE DEF new, n
      <3>. QED BY <1>2, <2>2, <3>2, <3>3 DEF TypeInv, FilesType
    <2>. QED BY <2>1, <2>2 DEF Record
  <1>4. proc[p].at \in Critical /\ Finish(p)
    BY InCritical DEF Record, At
  <1>. QED BY <1>2, <1>3, <1>4, FinishType

\* Steps that write and are done.
LEMMA DoneType ==
  ASSUME Inductive, NEW p \in Procs, Replace(p) \/ Dispose(p) \/ Forget(p)
  PROVE  TypeInv'
  <1>. USE DEF Inductive
  <1>1. /\ proc[p].at \in Critical /\ Finish(p) /\ day' = day /\ held' = held
        /\ proc[p].at = "dispose" => proc[p].line \in 1 .. Len(held)
    BY InCritical DEF Replace, Dispose, Forget, At, overflow, TypeInv, ProcType
  <1>2. FilesType'
    <2>1. CASE Replace(p)
      BY <2>1 DEF Replace, TypeInv, FilesType, overflow
    <2>2. CASE Dispose(p)
      BY <1>1, <2>2 DEF Dispose, At, TypeInv, FilesType, queue
    <2>3. CASE Forget(p)
      BY <2>3 DEF Forget, TypeInv, FilesType, queue, overflow
    <2>. QED BY <2>1, <2>2, <2>3
  <1>3. Len(held) <= Len(held')
    BY <1>1 DEF TypeInv, FilesType
  <1>. QED BY <1>1, <1>2, <1>3, FinishType

\* The reconciliation.
LEMMA ReconcileType ==
  ASSUME Inductive, NEW p \in Procs, Reconcile(p)
  PROVE  TypeInv'
  <1>1. FilesType'
    BY DEF Inductive, Reconcile, TypeInv, FilesType, queue
  <1>2. ProcType' /\ Exclusion'
    BY DEF Inductive, Reconcile, TypeInv, ProcType, Exclusion
  <1>. QED BY <1>1, <1>2 DEF TypeInv

\* The bullet a verdict is about is in the queue.
LEMMA TargetInQueue ==
  ASSUME Inductive, NEW p \in Procs, Archive(p)
  PROVE  LET i == NextVerdict(proc[p].verdicts)
             target == CHOOSE e \in pending : e.id = Nth(Bullets(pending), i)
         IN /\ i \in proc[p].verdicts /\ \A j \in proc[p].verdicts : j <= i
            /\ i \in 1 .. Cardinality(Bullets(pending))
            /\ target \in pending /\ target.id = Nth(Bullets(pending), i)
            /\ target.id \in Bullets(pending)
  <1>. DEFINE P == proc[p].verdicts
              i == NextVerdict(P)
  <1>1. P # {} /\ P \subseteq 1 .. Cardinality(pending)
    BY DEF Archive, Inductive, VerdictsInv
  <1>2. /\ Cardinality(pending) \in Nat /\ Bullets(pending) \in SUBSET Nat
        /\ IsFiniteSet(Bullets(pending)) /\ Cardinality(Bullets(pending)) = Cardinality(pending)
    BY QueueCounted DEF Inductive
  <1>. HIDE DEF P
  <1>3. P \in SUBSET Nat /\ IsFiniteSet(P)
    <2>1. 1 .. Cardinality(pending) \in SUBSET Nat /\ \A n \in 1 .. Cardinality(pending) : n <= Cardinality(pending)
      BY <1>2
    <2>2. IsFiniteSet(1 .. Cardinality(pending))
      BY <1>2, <2>1, FS_BoundedSetOfNaturals
    <2>. QED BY <1>1, <2>1, <2>2, FS_Subset
  <1>4. \E k \in P : \A j \in P : k >= j
    <2>1. PICK k \in P : \A j \in P : j <= k
      BY <1>1, <1>3, Greatest
    <2>. QED BY <1>3, <2>1
  <1>5. i \in P /\ \A j \in P : i >= j
    BY <1>4 DEF NextVerdict
  <1>6. i \in 1 .. Cardinality(Bullets(pending)) /\ \A j \in P : j <= i
    BY <1>1, <1>2, <1>3, <1>5
  <1>. HIDE DEF i
  <1>7. Nth(Bullets(pending), i) \in Bullets(pending)
    BY <1>2, <1>6, NthIs
  <1>8. \E e \in pending : e.id = Nth(Bullets(pending), i)
    BY <1>7 DEF Bullets
  <1>. QED BY <1>5, <1>6, <1>7, <1>8 DEF P, i

\* One verdict.
LEMMA ArchiveType ==
  ASSUME Inductive, NEW p \in Procs, Archive(p)
  PROVE  TypeInv'
  <1>. DEFINE i == NextVerdict(proc[p].verdicts)
              target == CHOOSE e \in pending : e.id = Nth(Bullets(pending), i)
              text == proc[p].text
              r == [proc[p] EXCEPT !.verdicts = @ \ {i},
                       !.text = IF i <= Cardinality(text) THEN text \ {Nth(text, i)} ELSE text]
  <1>0. TypeInv /\ proc[p].at \in Critical /\ proc[p].at = "archive"
    BY InCritical DEF Archive, At, Inductive
  <1>1. target \in pending
    BY TargetInQueue
  <1>2. /\ judged' = judged \cup {[id |-> target.id, rule |-> target.rule, from |-> target.from]}
        /\ UNCHANGED <<day, queue, overflow, expired, recorded, lock>>
    BY DEF Archive
  <1>3. proc' = [proc EXCEPT ![p] = r]
    BY <1>0 DEF Archive, TypeInv, ProcType
  <1>4. r \in Locals /\ r.at = "archive" /\ r.clock = proc[p].clock
    BY <1>0, Record1 DEF Locals, Places
  <1>. HIDE DEF r, i, target
  <1>5. [id |-> target.id, rule |-> target.rule, from |-> target.from] \in Judged
    BY <1>0, <1>1 DEF TypeInv, FilesType, Entries, Judged
  <1>6. FilesType' /\ day' = day /\ held' = held /\ lock' = lock
    BY <1>0, <1>2, <1>5 DEF TypeInv, FilesType, queue, overflow
  <1>7. r.at \in Critical /\ r.at \notin {"reconcileHeld", "dispose"}
    BY <1>0, <1>4
  <1>. QED BY <1>0, <1>3, <1>4, <1>6, <1>7, InsideType

\* The line a `held requeue` is about, and the bullet it may write.
LEMMA HeldBullet ==
  ASSUME Inductive, NEW p \in Procs, RequeueHeld(p)
  PROVE  /\ proc[p].at = "reconcileHeld" /\ proc[p].at \in Critical
         /\ proc[p].line \in 1 .. Len(held)
         /\ held[proc[p].line].rule \in Rules
         /\ written < MaxEntries =>
              /\ Bullet(1, held[proc[p].line].rule, held[proc[p].line].ts, proc[p].line, day)
                   \in Entries
              /\ Bullet(1, held[proc[p].line].rule, held[proc[p].line].ts, proc[p].line, day).id
                   = written + 1
  <1>1. proc[p].at = "reconcileHeld" /\ proc[p].line \in 1 .. Len(held) /\ TypeInv
    BY DEF RequeueHeld, Reconciled, At, Inductive, TypeInv, ProcType
  <1>2. proc[p].at \in Critical
    BY <1>1, InCritical
  <1>3. held[proc[p].line] \in HeldRows /\ Len(held) \in Nat /\ Len(held) <= MaxHeld
    BY <1>1 DEF TypeInv, FilesType
  <1>4. held[proc[p].line].rule \in Rules /\ held[proc[p].line].ts \in Days
    BY <1>3 DEF HeldRows
  <1>5. /\ proc[p].line \in 0 .. MaxHeld /\ day \in Days \cup {Never} /\ 1 \in Nat \ {0}
        /\ written \in Nat
    BY <1>1, <1>3, Numbers DEF TypeInv, FilesType
  <1>. QED BY <1>1, <1>2, <1>4, <1>5, BulletType, Numbers

LEMMA RequeueHeldType ==
  ASSUME Inductive, NEW p \in Procs, RequeueHeld(p)
  PROVE  TypeInv'
  <1>. DEFINE i == proc[p].line
              r == [proc[p] EXCEPT !.at = "dispose"]
  <1>1. TypeInv /\ UNCHANGED <<day, overflow, expired, judged, recorded>>
    BY DEF Inductive, RequeueHeld
  <1>2. /\ proc[p].at \in Critical /\ i \in 1 .. Len(held)
        /\ held' = held /\ dispositions' = dispositions /\ day' = day
    BY <1>1, HeldBullet DEF overflow
  <1>3. CASE Finish(p) /\ UNCHANGED queue
    <2>1. FilesType'
      BY <1>1, <1>3 DEF TypeInv, FilesType, queue, overflow
    <2>2. Len(held) <= Len(held')
      BY <1>1, <1>2 DEF TypeInv, FilesType
    <2>. QED BY <1>1, <1>2, <1>3, <2>1, <2>2, FinishType
  <1>4. ASSUME Goto(p, "dispose"), UNCHANGED lock, FilesType' PROVE TypeInv'
    <2>1. proc' = [proc EXCEPT ![p] = r]
      BY <1>1, <1>4 DEF Goto, TypeInv, ProcType
    <2>2. r \in Locals /\ r.at = "dispose" /\ r.clock = proc[p].clock /\ r.line = i
      BY <1>1, Record1 DEF Locals, Places
    <2>3. r.at \in Critical
      BY <2>2, InCritical
    <2>. HIDE DEF r
    <2>. QED BY <1>1, <1>2, <1>4, <2>1, <2>2, <2>3, InsideType
  <1>5. CASE UNCHANGED queue /\ Goto(p, "dispose") /\ UNCHANGED lock
    <2>1. FilesType'
      BY <1>1, <1>5 DEF TypeInv, FilesType, queue, overflow
    <2>. QED BY <1>4, <1>5, <2>1
  <1>6. CASE /\ written < MaxEntries
             /\ pending' = pending \cup {Bullet(1, held[i].rule, held[i].ts, i, day)}
             /\ markers' = markers \cup {i} /\ written' = written + 1
             /\ Goto(p, "dispose") /\ UNCHANGED lock
    <2>1. Bullet(1, held[i].rule, held[i].ts, i, day) \in Entries
      BY <1>6, HeldBullet
    <2>2. written' \in 0 .. MaxEntries
      BY <1>1, <1>6, Numbers DEF TypeInv, FilesType
    <2>3. FilesType'
      BY <1>1, <1>2, <1>6, <2>1, <2>2 DEF TypeInv, FilesType, overflow
    <2>. QED BY <1>4, <1>6, <2>3
  <1>. QED BY <1>3, <1>5, <1>6 DEF RequeueHeld

LEMMA RequeueExpiredType ==
  ASSUME Inductive, NEW p \in Procs, RequeueExpired(p)
  PROVE  TypeInv'
  <1>1. PICK e \in expired :
            /\ pending' = pending \cup {Revived(e)}
            /\ proc' = [proc EXCEPT ![p].line = e.id, ![p].at = "forget"]
    BY DEF RequeueExpired
  <1>2. /\ TypeInv /\ Acquire(p) /\ written < MaxEntries /\ written' = written + 1
        /\ UNCHANGED <<day, markers, overflow, expired, judged, recorded>>
    BY DEF RequeueExpired, Inductive
  <1>. DEFINE r == [proc[p] EXCEPT !.line = e.id, !.at = "forget"]
  <1>3. proc' = [proc EXCEPT ![p] = r]
    BY <1>1, <1>2 DEF TypeInv, ProcType
  <1>4. e.rule \in Rules /\ e.id \in Nat /\ day \in Days /\ written \in Nat
    BY <1>2 DEF TypeInv, FilesType, Entries
  <1>5. r \in Locals /\ r.at = "forget" /\ r.clock = proc[p].clock
    BY <1>2, <1>4, Record1 DEF Locals, Places
  <1>6. Revived(e) \in Entries
    BY <1>2, <1>4, BulletType, Numbers DEF Revived
  <1>7. FilesType' /\ day' = day /\ held' = held
    BY <1>1, <1>2, <1>4, <1>6, Numbers DEF TypeInv, FilesType, overflow
  <1>. HIDE DEF r
  <1>8. r.at \in Critical /\ r.at \notin {"reconcileHeld", "dispose"}
    BY <1>5, InCritical
  <1>. QED BY <1>2, <1>3, <1>5, <1>7, <1>8, InsideType

\* Every step keeps the types.
LEMMA TypeStep == Inductive /\ [Next]_vars => TypeInv'
  <1>. SUFFICES ASSUME Inductive, [Next]_vars PROVE TypeInv'
    OBVIOUS
  <1>0. TypeInv
    BY DEF Inductive
  <1>1. CASE UNCHANGED vars
    BY <1>0, <1>1 DEF vars, queue, overflow, TypeInv, FilesType, ProcType, Exclusion
  <1>2. CASE Tick
    BY <1>0, <1>2, TickType
  <1>3. ASSUME NEW p \in Procs, Step(p) \/ Crash(p) PROVE TypeInv'
    <2>1. CASE \/ BeginTask(p) \/ StartExpiry(p) \/ Infer(p) \/ List(p) \/ Judge(p)
               \/ HeldRequeue(p) \/ Load(p) \/ Crash(p)
      <3>1. UNCHANGED <<day, queue, overflow, expired, judged, recorded>>
        BY <2>1 DEF BeginTask, StartExpiry, Infer, List, Judge, HeldRequeue, Load, Crash
      <3>. QED BY <1>0, <2>1, <3>1, QuietType
    <2>2. CASE Register(p) \/ DropExpired(p)
      BY <2>2, ExpiryType
    <2>3. CASE Record(p)
      BY <2>3, RecordType
    <2>4. CASE Replace(p) \/ Dispose(p) \/ Forget(p)
      BY <2>4, DoneType
    <2>5. CASE Reconcile(p)
      BY <2>5, ReconcileType
    <2>6. CASE Archive(p)
      BY <2>6, ArchiveType
    <2>7. CASE RequeueHeld(p)
      BY <2>7, RequeueHeldType
    <2>8. CASE RequeueExpired(p)
      BY <2>8, RequeueExpiredType
    <2>. QED BY <1>3, <2>1, <2>2, <2>3, <2>4, <2>5, <2>6, <2>7, <2>8 DEF Step
  <1>. QED BY <1>1, <1>2, <1>3 DEF Next

-----------------------------------------------------------------------------
(* The bullets: their ids, the lines they came from, their headers. *)

BulletsInv == Ids /\ Marked /\ RequeuedOnce /\ Dated

\* A process changes its own record only.
LEMMA OwnRecord ==
  ASSUME TypeInv, NEW p \in Procs, NEW q \in Procs, p # q, Step(p) \/ Crash(p)
  PROVE  proc'[q] = proc[q]
  <1>1. CASE proc' = proc
    BY <1>1
  <1>2. CASE \E r : proc' = [proc EXCEPT ![p] = r]
    BY <1>2 DEF TypeInv, ProcType
  <1>3. proc' = proc \/ \E r : proc' = [proc EXCEPT ![p] = r]
    <2>1. CASE BeginTask(p) \/ StartExpiry(p) \/ Register(p) \/ DropExpired(p) \/ Infer(p)
      BY <2>1 DEF TypeInv, ProcType, BeginTask, StartExpiry, Register, DropExpired, Infer, Goto
    <2>2. CASE Record(p) \/ List(p) \/ Judge(p) \/ HeldRequeue(p) \/ Reconcile(p) \/ Load(p)
      BY <2>2 DEF TypeInv, ProcType, Record, List, Judge, HeldRequeue, Reconcile, Load, Finish
    <2>3. CASE Archive(p) \/ Replace(p) \/ RequeueHeld(p) \/ Dispose(p) \/ Forget(p) \/ Crash(p)
      BY <2>3 DEF TypeInv, ProcType, Archive, Replace, RequeueHeld, Dispose, Forget, Crash, Goto,
         Finish
    <2>4. CASE RequeueExpired(p)
      BY <2>4 DEF TypeInv, ProcType, RequeueExpired
    <2>. QED BY <2>1, <2>2, <2>3, <2>4 DEF Step
  <1>. QED BY <1>1, <1>2, <1>3

\* A step that moves bullets and writes none.
LEMMA MovedBullets ==
  ASSUME Inductive, pending' \subseteq pending, expired' \subseteq pending \cup expired,
         markers \subseteq markers', written' = written,
         \A j \in judged' : \/ j \in judged
                            \/ \E e \in pending : j.id = e.id /\ j.from = e.from
  PROVE  BulletsInv'
  <1>1. Ids'
    BY DEF Inductive, Ids
  <1>2. \A j \in pending' \cup expired' \cup judged' :
            \E e \in pending \cup expired \cup judged : j.id = e.id /\ j.from = e.from
    OBVIOUS
  <1>3. Marked'
    BY <1>2 DEF Inductive, Marked
  <1>4. RequeuedOnce'
    BY <1>2 DEF Inductive, RequeuedOnce
  <1>5. Dated'
    BY DEF Inductive, Dated
  <1>. QED BY <1>1, <1>3, <1>4, <1>5 DEF BulletsInv

\* A step that writes bullets, of no held line.
LEMMA NewBullets ==
  ASSUME Inductive, NEW B \in SUBSET Entries, pending' = pending \cup B,
         UNCHANGED <<expired, judged, markers>>,
         written' \in Nat, written <= written',
         \A b \in B : /\ written < b.id /\ b.id <= written' /\ b.from = 0
                      /\ b.back # Never => b.ts = b.back,
         \A b, c \in B : b.id = c.id => b = c
  PROVE  BulletsInv'
  <1>1. /\ written \in Nat /\ \A e \in pending \cup expired \cup B : e.id \in Nat
        /\ \A e \in pending \cup expired : e.id <= written
    BY DEF Inductive, TypeInv, FilesType, Entries, Ids
  <1>2. Ids'
    <2>. SUFFICES ASSUME NEW e \in pending' \cup expired', NEW f \in pending' \cup expired'
                  PROVE  e.id <= written' /\ (e.id = f.id => e = f)
      BY DEF Ids
    <2>1. CASE e \in pending \cup expired /\ f \in pending \cup expired
      BY <1>1, <2>1 DEF Inductive, Ids
    <2>2. CASE e \in B /\ f \in B
      BY <2>2
    <2>3. CASE e \in B /\ f \in pending \cup expired
      BY <1>1, <2>3
    <2>4. CASE e \in pending \cup expired /\ f \in B
      BY <1>1, <2>4
    <2>. QED BY <2>1, <2>2, <2>3, <2>4
  <1>3. Marked' /\ RequeuedOnce'
    BY DEF Inductive, Marked, RequeuedOnce
  <1>4. Dated'
    BY DEF Inductive, Dated
  <1>. QED BY <1>2, <1>3, <1>4 DEF BulletsInv

\* A step that writes the bullet of a held line that had none.
LEMMA HeldBulletWritten ==
  ASSUME Inductive, NEW b \in Entries, pending' = pending \cup {b}, UNCHANGED <<expired, judged>>,
         b.id = written + 1, written' = written + 1, b.from \notin markers, b.from # 0,
         markers' = markers \cup {b.from}
  PROVE  BulletsInv'
  <1>1. /\ written \in Nat /\ \A e \in pending \cup expired : e.id \in Nat /\ e.id <= written
    BY DEF Inductive, TypeInv, FilesType, Entries, Ids
  <1>2. Ids'
    <2>. SUFFICES ASSUME NEW e \in pending' \cup expired', NEW f \in pending' \cup expired'
                  PROVE  e.id <= written' /\ (e.id = f.id => e = f)
      BY DEF Ids
    <2>1. CASE e \in pending \cup expired /\ f \in pending \cup expired
      BY <1>1, <2>1 DEF Inductive, Ids
    <2>. QED BY <1>1, <2>1
  <1>3. Marked'
    BY DEF Inductive, Marked
  <1>4. RequeuedOnce'
    <2>1. \A e \in pending \cup expired \cup judged : e.from # b.from
      BY DEF Inductive, Marked
    <2>. SUFFICES ASSUME NEW e \in (pending \cup expired \cup judged) \cup {b},
                         NEW f \in (pending \cup expired \cup judged) \cup {b},
                         e.from # 0, e.from = f.from
                  PROVE  e.id = f.id
      BY DEF RequeuedOnce
    <2>. QED BY <2>1 DEF Inductive, RequeuedOnce
  <1>5. Dated'
    BY DEF Inductive, Dated
  <1>. QED BY <1>2, <1>3, <1>4, <1>5 DEF BulletsInv

\* The bullets of an answer: as many as its rules, or fewer.
LEMMA AnswerBullets ==
  ASSUME Inductive, NEW p \in Procs, written + Len(proc[p].rules) <= MaxEntries
  PROVE  LET n == Len(proc[p].rules)
             B == {Bullet(i, proc[p].rules[i], proc[p].clock, 0, Never) : i \in 1 .. n}
         IN /\ n \in Nat /\ B \in SUBSET Entries
            /\ \A b \in B : /\ written < b.id /\ b.id <= written + n /\ b.from = 0
                            /\ b.back = Never
            /\ \A b, c \in B : b.id = c.id => b = c
            /\ IsFiniteSet(B) /\ Cardinality(B) <= n
  <1>. DEFINE rules == proc[p].rules
              n == Len(rules)
              b(i) == Bullet(i, rules[i], proc[p].clock, 0, Never)
              B == {b(i) : i \in 1 .. n}
              f == [i \in 1 .. n |-> b(i)]
  <1>1. /\ n \in Nat /\ (\A i \in 1 .. n : rules[i] \in Rules) /\ proc[p].clock \in Days
        /\ written \in Nat /\ TypeInv
    BY Record1 DEF Inductive, TypeInv, FilesType
  <1>2. ASSUME NEW i \in 1 .. n
        PROVE  b(i) \in Entries /\ b(i).id = written + i /\ b(i).from = 0 /\ b(i).back = Never
    <2>1. i \in Nat \ {0} /\ written + i <= MaxEntries /\ 0 \in 0 .. MaxHeld
      BY <1>1, Numbers
    <2>2. b(i) \in Entries /\ b(i).id = written + i
      BY <1>1, <2>1, BulletType
    <2>. QED BY <2>2 DEF Bullet
  <1>3. IsFiniteSet(B) /\ Cardinality(B) <= n
    <2>1. f \in Surjection(1 .. n, B)
      BY DEF Surjection
    <2>2. IsFiniteSet(1 .. n) /\ Cardinality(1 .. n) = n
      <3>. HIDE DEF n
      <3>1. n \in Int /\ 1 \in Int /\ (1 > n => n = 0) /\ n - 1 + 1 = n
        BY <1>1
      <3>. QED BY <3>1, FS_Interval
    <2>. HIDE DEF f, B, n
    <2>. QED BY <2>1, <2>2, FS_Surjection
  <1>. HIDE DEF b
  <1>4. \A x \in B : /\ x \in Entries /\ written < x.id /\ x.id <= written + n /\ x.from = 0
                     /\ x.back = Never
    <2>. SUFFICES ASSUME NEW i \in 1 .. n
                  PROVE  /\ b(i) \in Entries /\ written < b(i).id /\ b(i).id <= written + n
                         /\ b(i).from = 0 /\ b(i).back = Never
      OBVIOUS
    <2>. HIDE DEF n
    <2>. QED BY <1>1, <1>2
  <1>5. \A x, y \in B : x.id = y.id => x = y
    <2>. SUFFICES ASSUME NEW i \in 1 .. n, NEW j \in 1 .. n, b(i).id = b(j).id
                  PROVE  b(i) = b(j)
      OBVIOUS
    <2>. HIDE DEF n
    <2>. QED BY <1>1, <1>2
  <1>. QED BY <1>1, <1>3, <1>4, <1>5 DEF b

\* Every step, the three that write bullets apart, takes bullets from the queue or leaves it.
LEMMA MovingSteps ==
  ASSUME Inductive,
         \/ Tick \/ UNCHANGED vars
         \/ \E p \in Procs : /\ Step(p) \/ Crash(p)
                             /\ ~Record(p) /\ ~RequeueHeld(p) /\ ~RequeueExpired(p)
  PROVE  /\ pending' \subseteq pending /\ expired' \subseteq pending \cup expired
         /\ markers' = markers /\ written' = written
         /\ \A j \in judged' : \/ j \in judged
                               \/ \E e \in pending : j.id = e.id /\ j.from = e.from
  <1>1. CASE UNCHANGED <<pending, expired, markers, written, judged>>
    BY <1>1
  <1>2. CASE Tick \/ UNCHANGED vars
    BY <1>1, <1>2 DEF Tick, vars, queue
  <1>3. ASSUME NEW p \in Procs, Step(p) \/ Crash(p),
               ~Record(p), ~RequeueHeld(p), ~RequeueExpired(p)
        PROVE  /\ pending' \subseteq pending /\ expired' \subseteq pending \cup expired
               /\ markers' = markers /\ written' = written
               /\ \A j \in judged' : \/ j \in judged
                                     \/ \E e \in pending : j.id = e.id /\ j.from = e.from
    <2>1. CASE \/ BeginTask(p) \/ StartExpiry(p) \/ Infer(p) \/ List(p) \/ Judge(p)
               \/ HeldRequeue(p) \/ Load(p) \/ Crash(p) \/ Reconcile(p) \/ Dispose(p)
      BY <1>1, <2>1 DEF BeginTask, StartExpiry, Infer, List, Judge, HeldRequeue, Load, Crash,
         Reconcile, Dispose, queue
    <2>2. CASE Register(p)
      BY <2>2 DEF Register, queue, Inductive, ExpiryInv
    <2>3. CASE DropExpired(p)
      BY <2>3 DEF DropExpired
    <2>4. CASE Replace(p)
      BY <2>4 DEF Replace
    <2>5. CASE Forget(p)
      BY <2>5 DEF Forget, queue
    <2>6. CASE Archive(p)
      <3>. DEFINE target == CHOOSE e \in pending :
                              e.id = Nth(Bullets(pending), NextVerdict(proc[p].verdicts))
      <3>1. target \in pending
        BY <2>6, TargetInQueue
      <3>2. judged' = judged \cup {[id |-> target.id, rule |-> target.rule, from |-> target.from]}
        BY <2>6 DEF Archive
      <3>. HIDE DEF target
      <3>. QED BY <2>6, <3>1, <3>2 DEF Archive, queue
    <2>. QED BY <1>3, <2>1, <2>2, <2>3, <2>4, <2>5, <2>6 DEF Step
  <1>. QED BY <1>2, <1>3

\* Bullets that leave the queue bring the others forward.
LEMMA CapMoved ==
  ASSUME Inductive, pending' \subseteq pending
  PROVE  CapRespected'
  <1>. SUFFICES ASSUME NEW e \in pending'
                PROVE  \E cap \in (IF e.back = Never THEN {Cap} ELSE Caps) : Position(e)' <= cap
    BY DEF CapRespected
  <1>. DEFINE before == {f \in pending : f.id <= e.id}
              after == {f \in pending' : f.id <= e.id}
  <1>1. PICK cap \in (IF e.back = Never THEN {Cap} ELSE Caps) : Cardinality(before) <= cap
    BY DEF Inductive, CapRespected, Position
  <1>2. before \in SUBSET pending /\ after \in SUBSET before
    OBVIOUS
  <1>. HIDE DEF before, after
  <1>3. IsFiniteSet(before)
    BY <1>2, QueueCounted, FS_Subset DEF Inductive
  <1>4. /\ Cardinality(after) <= Cardinality(before)
        /\ Cardinality(after) \in Nat /\ Cardinality(before) \in Nat
    BY <1>2, <1>3, FS_Subset, FS_CardinalityType
  <1>5. Position(e)' = Cardinality(after)
    BY DEF Position, after
  <1>. QED BY <1>1, <1>4, <1>5, Numbers

\* One more bullet, or an answer of them, counted before it is written.
LEMMA CapKept ==
  ASSUME Inductive, NEW B \in SUBSET Entries, IsFiniteSet(B), pending' = pending \cup B,
         NEW cap \in Caps, Cardinality(pending) + Cardinality(B) <= cap,
         \A b \in B : written < b.id /\ (b.back = Never => cap = Cap)
  PROVE  CapRespected'
  <1>1. /\ IsFiniteSet(pending) /\ Cardinality(pending) \in Nat /\ Cardinality(B) \in Nat
        /\ Cardinality(pending \cap B) \in Nat
    <2>1. IsFiniteSet(pending) /\ Cardinality(pending) \in Nat
      BY QueueCounted DEF Inductive
    <2>2. pending \cap B \in SUBSET B
      OBVIOUS
    <2>. QED BY <2>1, <2>2, FS_CardinalityType, FS_Subset
  <1>2. IsFiniteSet(pending') /\ Cardinality(pending') \in Nat /\ Cardinality(pending') <= cap
    <2>1. /\ IsFiniteSet(pending \cup B)
          /\ Cardinality(pending \cup B)
               = Cardinality(pending) + Cardinality(B) - Cardinality(pending \cap B)
      BY <1>1, FS_Union
    <2>. QED BY <1>1, <2>1, FS_CardinalityType, Numbers
  <1>3. ASSUME NEW e \in pending
        PROVE  \E c \in (IF e.back = Never THEN {Cap} ELSE Caps) : Position(e)' <= c
    <2>1. /\ written \in Nat /\ e.id \in Nat /\ e.id <= written
          /\ \A b \in B : b.id \in Nat
      BY DEF Inductive, TypeInv, FilesType, Entries, Ids
    <2>2. {f \in pending' : f.id <= e.id} = {f \in pending : f.id <= e.id}
      BY <2>1
    <2>3. Position(e)' = Position(e)
      BY <2>2 DEF Position
    <2>. QED BY <2>3 DEF Inductive, CapRespected
  <1>4. ASSUME NEW e \in B
        PROVE  \E c \in (IF e.back = Never THEN {Cap} ELSE Caps) : Position(e)' <= c
    <2>. DEFINE after == {f \in pending' : f.id <= e.id}
    <2>1. after \in SUBSET pending'
      OBVIOUS
    <2>2. Position(e)' = Cardinality(after)
      BY DEF Position
    <2>. HIDE DEF after
    <2>3. Cardinality(after) <= Cardinality(pending') /\ Cardinality(after) \in Nat
      BY <1>2, <2>1, FS_Subset, FS_CardinalityType
    <2>4. Position(e)' <= cap
      BY <1>2, <2>2, <2>3, Numbers
    <2>. QED BY <2>4
  <1>. QED BY <1>3, <1>4 DEF CapRespected

LEMMA BulletsStep == Inductive /\ [Next]_vars => BulletsInv' /\ CapRespected'
  <1>. SUFFICES ASSUME Inductive, [Next]_vars PROVE BulletsInv' /\ CapRespected'
    OBVIOUS
  <1>0. /\ TypeInv /\ written \in Nat /\ Cardinality(pending) \in Nat /\ IsFiniteSet(pending)
        /\ CapRespected
    BY QueueCounted DEF Inductive, TypeInv, FilesType
  <1>1. CASE \/ Tick \/ UNCHANGED vars
             \/ \E p \in Procs : /\ Step(p) \/ Crash(p)
                                 /\ ~Record(p) /\ ~RequeueHeld(p) /\ ~RequeueExpired(p)
    <2>1. /\ pending' \in SUBSET pending /\ expired' \subseteq pending \cup expired
          /\ markers' = markers /\ written' = written
          /\ \A j \in judged' : \/ j \in judged
                                \/ \E e \in pending : j.id = e.id /\ j.from = e.from
      BY <1>1, MovingSteps
    <2>2. BulletsInv'
      BY <2>1, MovedBullets
    <2>3. CapRespected'
      BY <2>1, CapMoved
    <2>. QED BY <2>2, <2>3
  <1>2. ASSUME NEW p \in Procs, Record(p) PROVE BulletsInv' /\ CapRespected'
    <2>. DEFINE n == Len(proc[p].rules)
                B == {Bullet(i, proc[p].rules[i], proc[p].clock, 0, Never) : i \in 1 .. n}
    <2>0. UNCHANGED <<markers, expired, judged>>
      BY <1>2 DEF Record
    <2>1. CASE UNCHANGED <<pending, written>>
      <3>1. BulletsInv'
        BY <2>0, <2>1, MovedBullets
      <3>. QED BY <2>1, <3>1, CapMoved
    <2>2. CASE /\ ~Full(p) /\ written + n <= MaxEntries
               /\ pending' = pending \cup B /\ written' = written + n
      <3>1. /\ n \in Nat /\ B \in SUBSET Entries
            /\ \A b \in B : /\ written < b.id /\ b.id <= written + n /\ b.from = 0
                            /\ b.back = Never
            /\ \A b, c \in B : b.id = c.id => b = c
            /\ IsFiniteSet(B) /\ Cardinality(B) <= n
        BY <2>2, AnswerBullets
      <3>2. ~(Cardinality(pending) + n > Cap)
        BY <2>2 DEF Full
      <3>. HIDE DEF B, n
      <3>3. BulletsInv'
        <4>1. /\ written' \in Nat /\ written <= written'
              /\ \A b \in B : /\ written < b.id /\ b.id <= written' /\ b.from = 0
                              /\ (b.back # Never => b.ts = b.back)
          BY <1>0, <2>2, <3>1
        <4>2. B \in SUBSET Entries /\ pending' = pending \cup B
          BY <2>2, <3>1
        <4>. QED BY <2>0, <3>1, <4>1, <4>2, NewBullets
      <3>4. Cardinality(B) \in Nat
        BY <3>1, FS_CardinalityType
      <3>5. Cardinality(pending) + Cardinality(B) <= Cap
        BY <1>0, <3>1, <3>2, <3>4, Numbers
      <3>6. CapRespected'
        <4>1. Cap \in Caps /\ \A c \in B : written < c.id /\ (c.back = Never => Cap = Cap)
          BY <3>1, Numbers
        <4>2. B \in SUBSET Entries /\ IsFiniteSet(B) /\ pending' = pending \cup B
          BY <2>2, <3>1
        <4>. QED BY <3>5, <4>1, <4>2, CapKept
      <3>. QED BY <3>3, <3>6
    <2>. QED BY <1>2, <2>1, <2>2 DEF Record
  <1>3. ASSUME NEW b \in Entries, pending' = pending \cup {b}, b.id = written + 1, b.back = day,
               \E cap \in Caps : Cardinality(pending) < cap
        PROVE  CapRespected'
    <2>1. IsFiniteSet({b}) /\ Cardinality({b}) = 1
      BY FS_Singleton
    <2>2. PICK cap \in Caps : Cardinality(pending) < cap
      BY <1>3
    <2>3. {b} \in SUBSET Entries
      OBVIOUS
    <2>4. \A c \in {b} : written < c.id /\ c.back # Never
      BY <1>0, <1>3, Numbers DEF TypeInv, FilesType, Days, Never
    <2>5. Cardinality(pending) + Cardinality({b}) <= cap
      BY <1>0, <2>1, <2>2, Numbers
    <2>. DEFINE B == {b}
    <2>6. B \in SUBSET Entries /\ IsFiniteSet(B) /\ pending' = pending \cup B
      BY <1>3, <2>1, <2>3
    <2>7. Cardinality(pending) + Cardinality(B) <= cap
      BY <2>5
    <2>8. \A c \in B : written < c.id /\ (c.back = Never => cap = Cap)
      BY <2>4
    <2>. HIDE DEF B
    <2>. QED BY <2>6, <2>7, <2>8, CapKept
  <1>4. ASSUME NEW p \in Procs, RequeueHeld(p) PROVE BulletsInv' /\ CapRespected'
    <2>. DEFINE i == proc[p].line
                b == Bullet(1, held[i].rule, held[i].ts, i, day)
    <2>0. UNCHANGED <<expired, judged>> /\ i \in Nat \ {0} /\ markers \subseteq dispositions
      BY <1>0, <1>4, HeldBullet DEF RequeueHeld, Reconciled, TypeInv, FilesType
    <2>1. CASE UNCHANGED queue
      <3>1. BulletsInv'
        BY <2>0, <2>1, MovedBullets DEF queue
      <3>. QED BY <2>1, <3>1, CapMoved DEF queue
    <2>2. CASE /\ i \notin dispositions /\ written < MaxEntries
               /\ (\E cap \in Caps : Cardinality(pending) < cap)
               /\ pending' = pending \cup {b} /\ markers' = markers \cup {i}
               /\ written' = written + 1
      <3>1. b \in Entries /\ b.id = written + 1
        BY <1>4, <2>2, HeldBullet
      <3>2. b.from = i /\ b.back = day
        BY DEF Bullet
      <3>. HIDE DEF b, i
      <3>3. BulletsInv'
        BY <2>0, <2>2, <3>1, <3>2, HeldBulletWritten
      <3>. QED BY <1>3, <2>2, <3>1, <3>2, <3>3
    <2>. QED BY <1>4, <2>1, <2>2 DEF RequeueHeld
  <1>5. ASSUME NEW p \in Procs, RequeueExpired(p) PROVE BulletsInv' /\ CapRespected'
    <2>1. PICK e \in expired : pending' = pending \cup {Revived(e)}
      BY <1>5 DEF RequeueExpired
    <2>2. /\ UNCHANGED <<expired, judged, markers>> /\ written' = written + 1
          /\ (\E cap \in Caps : Cardinality(pending) < cap) /\ written < MaxEntries
      BY <1>5 DEF RequeueExpired, overflow
    <2>3. e.rule \in Rules /\ day \in Days
      BY <1>0 DEF TypeInv, FilesType, Entries
    <2>4. Revived(e) \in Entries /\ Revived(e).id = written + 1
      BY <1>0, <2>2, <2>3, BulletType, Numbers DEF Revived
    <2>5. Revived(e).from = 0 /\ Revived(e).ts = Revived(e).back /\ Revived(e).back = day
      BY DEF Revived, Bullet
    <2>6. BulletsInv'
      <3>. DEFINE B == {Revived(e)}
      <3>1. B \in SUBSET Entries /\ pending' = pending \cup B
        BY <2>1, <2>4
      <3>2. written' \in Nat /\ written <= written'
        BY <1>0, <2>2
      <3>3. \A b \in B : /\ written < b.id /\ b.id <= written' /\ b.from = 0
                         /\ b.back # Never => b.ts = b.back
        BY <1>0, <2>2, <2>4, <2>5
      <3>4. \A b, c \in B : b.id = c.id => b = c
        OBVIOUS
      <3>. HIDE DEF B
      <3>. QED BY <2>2, <3>1, <3>2, <3>3, <3>4, NewBullets
    <2>. QED BY <1>3, <2>1, <2>2, <2>4, <2>5, <2>6
  <1>. QED BY <1>1, <1>2, <1>4, <1>5 DEF Next

-----------------------------------------------------------------------------
(* The rules. *)

\* No step loses a rule that the queue or a registry has.
LEMMA KeptStep == Inductive /\ [Next]_vars => Kept \subseteq Kept'
  <1>. SUFFICES ASSUME Inductive, [Next]_vars PROVE Kept \subseteq Kept'
    OBVIOUS
  <1>1. CASE /\ pending \subseteq pending' /\ expired \subseteq expired'
             /\ judged \subseteq judged'
    BY <1>1 DEF Kept, RulesOf
  <1>2. CASE UNCHANGED vars \/ Tick
    BY <1>1, <1>2 DEF vars, Tick, queue
  <1>3. ASSUME NEW p \in Procs, Step(p) \/ Crash(p) PROVE Kept \subseteq Kept'
    <2>1. CASE \/ BeginTask(p) \/ StartExpiry(p) \/ Infer(p) \/ List(p) \/ Judge(p)
               \/ HeldRequeue(p) \/ Load(p) \/ Crash(p) \/ Reconcile(p) \/ Dispose(p)
      BY <1>1, <2>1 DEF BeginTask, StartExpiry, Infer, List, Judge, HeldRequeue, Load, Crash,
         Reconcile, Dispose, queue
    <2>2. CASE Register(p) \/ Archive(p) \/ RequeueHeld(p) \/ RequeueExpired(p)
      BY <1>1, <2>2 DEF Register, Archive, RequeueHeld, RequeueExpired, queue
    <2>3. CASE Record(p)
      BY <1>1, <2>3 DEF Record
    <2>4. CASE DropExpired(p)
      <3>1. \A e \in TooOld(p) : \E x \in expired : x.rule = e.rule
        BY <2>4 DEF DropExpired, RegistryWritten, Inductive, ExpiryInv
      <3>2. pending' = pending \ TooOld(p) /\ expired' = expired /\ judged' = judged
        BY <2>4 DEF DropExpired
      <3>. QED BY <3>1, <3>2 DEF Kept, RulesOf
    <2>5. CASE Replace(p)
      <3>1. \A e \in pending : e.id \in proc[p].text \/ \E j \in judged : j.rule = e.rule
        BY <2>5 DEF Replace, Inductive, VerdictsInv
      <3>2. /\ pending' = {e \in pending : e.id \in proc[p].text}
            /\ expired' = expired /\ judged' = judged
        BY <2>5 DEF Replace
      <3>. QED BY <3>1, <3>2 DEF Kept, RulesOf
    <2>6. CASE Forget(p)
      <3>1. \A e \in expired : e.id = proc[p].line => \E x \in pending : x.rule = e.rule
        BY <2>6 DEF Forget, Inductive, ForgetInv, RulesOf
      <3>2. /\ expired' = {e \in expired : e.id # proc[p].line}
            /\ pending' = pending /\ judged' = judged
        BY <2>6 DEF Forget, queue
      <3>. QED BY <3>1, <3>2 DEF Kept, RulesOf
    <2>. QED BY <1>3, <2>1, <2>2, <2>3, <2>4, <2>5, <2>6 DEF Step
  <1>. QED BY <1>2, <1>3 DEF Next

\* The overflow grows, and its lines stay what they are.
LEMMA HeldStep ==
  ASSUME Inductive, [Next]_vars
  PROVE  /\ Len(held) \in Nat /\ Len(held') \in Nat /\ Len(held) <= Len(held')
         /\ \A i \in 1 .. Len(held) : held'[i] = held[i]
  <1>0. held \in Seq(HeldRows) /\ Len(held) \in Nat
    BY DEF Inductive, TypeInv, FilesType
  <1>1. CASE held' = held
    BY <1>0, <1>1
  <1>2. ASSUME NEW p \in Procs, Record(p), held' # held
        PROVE  /\ Len(held') \in Nat /\ Len(held) <= Len(held')
               /\ \A i \in 1 .. Len(held) : held'[i] = held[i]
    <2>. DEFINE n == Len(proc[p].rules)
                row(i) == [rule |-> proc[p].rules[i], ts |-> proc[p].clock]
                rows == [i \in 1 .. n |-> row(i)]
    <2>1. held' = held \o rows
      BY <1>2 DEF Record
    <2>2. n \in Nat /\ \A i \in 1 .. n : proc[p].rules[i] \in Rules
      BY Record1 DEF Inductive
    <2>3. rows \in Seq(HeldRows) /\ Len(rows) = n
      <3>1. \A i \in 1 .. n : row(i) \in HeldRows
        BY <2>2, Record1 DEF HeldRows, Inductive
      <3>. HIDE DEF n, row
      <3>2. rows \in [1 .. n -> HeldRows]
        BY <3>1
      <3>. QED BY <2>2, <3>2
    <2>. HIDE DEF rows, n
    <2>4. Len(held \o rows) = Len(held) + n /\ \A i \in 1 .. Len(held) : (held \o rows)[i] = held[i]
      BY <1>0, <2>2, <2>3
    <2>. QED BY <1>0, <2>1, <2>2, <2>4
  <1>3. held' = held \/ \E p \in Procs : Record(p)
    <2>1. ASSUME NEW p \in Procs, Step(p) \/ Crash(p), ~Record(p) PROVE held' = held
      BY <2>1 DEF Step, BeginTask, StartExpiry, Register, DropExpired, Infer, List, Judge,
         HeldRequeue, Reconcile, Load, Archive, Replace, RequeueHeld, Dispose, RequeueExpired,
         Forget, Crash, overflow
    <2>. QED BY <2>1 DEF Next, Tick, vars, overflow
  <1>. QED BY <1>0, <1>1, <1>2, <1>3

\* The lines with a marker or a disposition, and the rules that were ever recorded.
LinesInv == \A i \in markers \cup dispositions : held[i].rule \in Kept

LEMMA LinesStep == Inductive /\ [Next]_vars => LinesInv'
  <1>. SUFFICES ASSUME Inductive, [Next]_vars PROVE LinesInv'
    OBVIOUS
  <1>1. /\ Kept \subseteq Kept'
        /\ \A i \in markers \cup dispositions : held'[i] = held[i]
    BY KeptStep, HeldStep DEF Inductive, TypeInv, FilesType
  <1>2. CASE markers' \cup dispositions' \subseteq markers \cup dispositions
    BY <1>1, <1>2 DEF LinesInv, Inductive, Accounted
  <1>3. ASSUME NEW p \in Procs, RequeueHeld(p) PROVE LinesInv'
    <2>. DEFINE i == proc[p].line
                b == Bullet(1, held[i].rule, held[i].ts, i, day)
    <2>1. UNCHANGED <<held, dispositions, expired, judged>>
      BY <1>3 DEF RequeueHeld, overflow
    <2>2. CASE UNCHANGED queue
      BY <1>2, <2>1, <2>2 DEF queue
    <2>3. CASE pending' = pending \cup {b} /\ markers' = markers \cup {i}
      <3>1. b.rule = held[i].rule
        BY DEF Bullet
      <3>. HIDE DEF b, i
      <3>2. held[i].rule \in Kept'
        BY <2>1, <2>3, <3>1 DEF Kept, RulesOf
      <3>. QED BY <1>1, <2>1, <2>3, <3>2 DEF LinesInv, Inductive, Accounted
    <2>. QED BY <1>3, <2>2, <2>3 DEF RequeueHeld
  <1>4. ASSUME NEW p \in Procs, Dispose(p) PROVE LinesInv'
    <2>1. /\ dispositions' = dispositions \cup {proc[p].line} /\ markers' = markers
          /\ held' = held /\ held[proc[p].line].rule \in Kept
      BY <1>4 DEF Dispose, queue, Inductive, Accounted
    <2>. QED BY <1>1, <2>1 DEF LinesInv, Inductive, Accounted
  <1>5. ASSUME NEW p \in Procs, Step(p) \/ Crash(p), ~RequeueHeld(p), ~Dispose(p)
        PROVE  markers' \cup dispositions' \subseteq markers \cup dispositions
    BY <1>5 DEF Step, BeginTask, StartExpiry, Register, DropExpired, Infer, Record, List, Judge,
       HeldRequeue, Reconcile, Load, Archive, Replace, RequeueExpired, Forget, Crash, queue, overflow
  <1>6. Tick \/ UNCHANGED vars => markers' \cup dispositions' \subseteq markers \cup dispositions
    BY DEF Tick, vars, queue, overflow
  <1>. QED BY <1>2, <1>3, <1>4, <1>5, <1>6 DEF Next

LEMMA RecordedStep == Inductive /\ [Next]_vars => RecordedInv'
  <1>. SUFFICES ASSUME Inductive, [Next]_vars PROVE RecordedInv'
    OBVIOUS
  <1>0. /\ Kept \subseteq Kept' /\ 1 .. Len(held) \subseteq 1 .. Len(held')
        /\ \A i \in 1 .. Len(held) : held'[i] = held[i]
    BY KeptStep, HeldStep
  <1>1. Kept \cup {held[i].rule : i \in 1 .. Len(held)}
          \subseteq Kept' \cup {held'[i].rule : i \in 1 .. Len(held')}
    BY <1>0
  <1>2. CASE recorded' = recorded
    BY <1>1, <1>2 DEF RecordedInv, Inductive
  <1>3. ASSUME NEW p \in Procs, Record(p) PROVE RecordedInv'
    <2>. DEFINE rules == proc[p].rules
                n == Len(rules)
                new == {rules[i] : i \in 1 .. n}
    <2>1. recorded' = recorded \cup new
      BY <1>3 DEF Record
    <2>2. new \subseteq Kept' \cup {held'[i].rule : i \in 1 .. Len(held')}
      <3>0. n \in Nat /\ Len(held) \in Nat /\ Len(held') \in Nat /\ held \in Seq(HeldRows)
        BY Record1, HeldStep DEF Inductive, TypeInv, FilesType
      <3>. SUFFICES ASSUME NEW i \in 1 .. n
                    PROVE  rules[i] \in Kept' \cup {held'[k].rule : k \in 1 .. Len(held')}
        OBVIOUS
      <3>1. CASE pending' = pending \cup
                   {Bullet(k, rules[k], proc[p].clock, 0, Never) : k \in 1 .. n}
        <4>1. Bullet(i, rules[i], proc[p].clock, 0, Never) \in pending'
          BY <3>1
        <4>2. Bullet(i, rules[i], proc[p].clock, 0, Never).rule = rules[i]
          BY DEF Bullet
        <4>. QED BY <4>1, <4>2 DEF Kept, RulesOf
      <3>2. CASE held' = held \o [k \in 1 .. n |-> [rule |-> rules[k], ts |-> proc[p].clock]]
        <4>. DEFINE row(k) == [rule |-> rules[k], ts |-> proc[p].clock]
                    rows == [k \in 1 .. n |-> row(k)]
        <4>1. \A k \in 1 .. n : row(k) \in HeldRows
          BY Record1 DEF HeldRows, Inductive
        <4>2. row(i).rule = rules[i] /\ held' = held \o rows
          BY <3>2
        <4>. HIDE DEF row, n, rules
        <4>3. rows \in Seq(HeldRows) /\ Len(rows) = n /\ rows[i] = row(i)
          <5>1. rows \in [1 .. n -> HeldRows]
            BY <4>1
          <5>. QED BY <3>0, <5>1
        <4>. HIDE DEF rows
        <4>4. /\ Len(held \o rows) = Len(held) + n /\ (held \o rows)[Len(held) + i] = rows[i]
              /\ Len(held) + i \in 1 .. Len(held) + n
          BY <3>0, <4>3
        <4>. QED BY <4>2, <4>3, <4>4
      <3>. QED BY <1>3, <3>1, <3>2 DEF Record
    <2>. QED BY <1>1, <2>1, <2>2 DEF RecordedInv, Inductive
  <1>4. recorded' = recorded \/ \E p \in Procs : Record(p)
    <2>1. ASSUME NEW p \in Procs, Step(p) \/ Crash(p), ~Record(p) PROVE recorded' = recorded
      BY <2>1 DEF Step, BeginTask, StartExpiry, Register, DropExpired, Infer, List, Judge,
         HeldRequeue, Reconcile, Load, Archive, Replace, RequeueHeld, Dispose, RequeueExpired,
         Forget, Crash
    <2>. QED BY <2>1 DEF Next, Tick, vars
  <1>. QED BY <1>2, <1>3, <1>4

-----------------------------------------------------------------------------
(* The processes in the middle of something. *)

\* Where a step leaves its process.
LEMMA Where ==
  ASSUME TypeInv, NEW p \in Procs
  PROVE  /\ BeginTask(p) => proc'[p].at = "gate"
         /\ StartExpiry(p) => proc'[p].at \in {"expireGate", "expirePersist"}
         /\ Register(p) => proc'[p].at \in {"expireGate", "expirePersist"}
         /\ DropExpired(p) => proc'[p].at \in {"infer", "record"}
         /\ Infer(p) => proc'[p].at \in {"idle", "persist"}
         /\ List(p) => proc'[p].at = "deciding"
         /\ Judge(p) => proc'[p].at = "reconcile"
         /\ HeldRequeue(p) => proc'[p].at = "reconcileHeld"
         /\ Reconcile(p) => proc'[p].at \in {"reconcile", "reconcileHeld"}
         /\ Load(p) => proc'[p].at \in {"archive", "idle"}
         /\ Archive(p) => proc'[p].at = "archive"
         /\ RequeueHeld(p) => proc'[p].at \in {"idle", "dispose"}
         /\ RequeueExpired(p) => proc'[p].at = "forget"
         /\ Record(p) \/ Replace(p) \/ Dispose(p) \/ Forget(p) \/ Crash(p) => proc'[p].at = "idle"
  <1>1. ASSUME NEW r, proc' = [proc EXCEPT ![p] = r] PROVE proc'[p] = r
    BY <1>1 DEF TypeInv, ProcType
  <1>2. proc[p] \in Locals
    BY DEF TypeInv, ProcType
  <1>3. ASSUME NEW l, Goto(p, l) PROVE proc'[p].at = l
    BY <1>2, <1>3 DEF Goto, TypeInv, ProcType, Locals
  <1>4. Finish(p) => proc'[p].at = "idle"
    BY <1>1, IdleType DEF Finish
  <1>. USE DEF At
  <1>5. BeginTask(p) => proc'[p].at = "gate"
    BY <1>1 DEF BeginTask, Idle
  <1>6. StartExpiry(p) => proc'[p].at \in {"expireGate", "expirePersist"}
    BY <1>2 DEF StartExpiry, TypeInv, ProcType, Locals
  <1>7. Register(p) => proc'[p].at \in {"expireGate", "expirePersist"}
    BY <1>2 DEF Register, Expiring, TypeInv, ProcType, Locals
  <1>8. DropExpired(p) => proc'[p].at \in {"infer", "record"}
    BY <1>3 DEF DropExpired
  <1>9. Infer(p) => proc'[p].at \in {"idle", "persist"}
    <2>1. proc' = [proc EXCEPT ![p] = Idle] => proc'[p].at = "idle"
      BY <1>1, IdleType
    <2>2. ASSUME NEW r, proc' = [proc EXCEPT ![p].rules = r, ![p].at = "persist"]
          PROVE  proc'[p].at = "persist"
      BY <1>2, <2>2 DEF TypeInv, ProcType, Locals
    <2>. QED BY <2>1, <2>2 DEF Infer
  <1>10. List(p) => proc'[p].at = "deciding"
    BY <1>2 DEF List, TypeInv, ProcType, Locals
  <1>11. Judge(p) => proc'[p].at = "reconcile"
    BY <1>2 DEF Judge, TypeInv, ProcType, Locals
  <1>12. HeldRequeue(p) => proc'[p].at = "reconcileHeld"
    BY <1>2 DEF HeldRequeue, TypeInv, ProcType, Locals
  <1>13. Reconcile(p) => proc'[p].at \in {"reconcile", "reconcileHeld"}
    BY DEF Reconcile
  <1>14. Load(p) => proc'[p].at \in {"archive", "idle"}
    BY <1>2, <1>4 DEF Load, TypeInv, ProcType, Locals
  <1>15. Archive(p) => proc'[p].at = "archive"
    BY <1>2 DEF Archive, TypeInv, ProcType, Locals
  <1>16. RequeueHeld(p) => proc'[p].at \in {"idle", "dispose"}
    BY <1>3, <1>4 DEF RequeueHeld
  <1>17. RequeueExpired(p) => proc'[p].at = "forget"
    BY <1>2 DEF RequeueExpired, TypeInv, ProcType, Locals
  <1>18. Record(p) \/ Replace(p) \/ Dispose(p) \/ Forget(p) \/ Crash(p) => proc'[p].at = "idle"
    BY <1>1, <1>4, IdleType DEF Record, Replace, Dispose, Forget, Crash
  <1>. QED BY <1>5, <1>6, <1>7, <1>8, <1>9, <1>10, <1>11, <1>12, <1>13, <1>14, <1>15, <1>16,
              <1>17, <1>18

\* One in a critical section sees only its own steps.
LEMMA Undisturbed ==
  ASSUME Inductive, [Next]_vars, NEW q \in Procs, proc'[q].at \in Critical,
         ~(Step(q) \/ Crash(q))
  PROVE  /\ UNCHANGED <<pending, markers, written, held, dispositions, expired, judged, recorded>>
         /\ proc'[q] = proc[q]
  <1>0. TypeInv
    BY DEF Inductive
  <1>1. CASE Tick \/ UNCHANGED vars
    BY <1>1 DEF Tick, vars, queue, overflow
  <1>2. ASSUME NEW p \in Procs, Step(p) \/ Crash(p), p # q
        PROVE  /\ UNCHANGED <<pending, markers, written, held, dispositions, expired, judged,
                              recorded>>
               /\ proc'[q] = proc[q]
    <2>1. proc'[q] = proc[q]
      BY <1>0, <1>2, OwnRecord
    <2>2. proc[q].at \in Critical
      BY <2>1
    <2>. QED BY <1>0, <1>2, <2>2, OthersWait
  <1>. QED BY <1>1, <1>2 DEF Next

LEMMA ExpiryStep == Inductive /\ [Next]_vars => ExpiryInv'
  <1>. SUFFICES ASSUME Inductive, [Next]_vars, NEW q \in Procs, Expiring(q)'
                PROVE  /\ (proc[q].todo \subseteq pending)'
                       /\ (\A e \in TooOld(q) :
                             e \in proc[q].todo \/ \E x \in expired : x.rule = e.rule)'
    BY DEF ExpiryInv
  <1>0. TypeInv /\ proc'[q].at \in {"expireGate", "expirePersist"} /\ proc'[q].at \in Critical
    BY InCritical DEF Expiring, At, Inductive
  <1>1. CASE ~(Step(q) \/ Crash(q))
    BY <1>0, <1>1, Undisturbed DEF ExpiryInv, Expiring, At, TooOld, Inductive
  <1>2. CASE StartExpiry(q)
    <2>1. pending' = pending /\ expired' = expired
      BY <1>2 DEF StartExpiry, queue
    <2>2. /\ proc'[q].todo = {e \in TooOld(q) : ~Registered(e)}
          /\ proc'[q].clock = proc[q].clock
      BY <1>0, <1>2 DEF StartExpiry, TypeInv, ProcType, Locals
    <2>. QED BY <2>1, <2>2 DEF TooOld, Registered
  <1>3. CASE Register(q)
    <2>1. PICK e \in proc[q].todo : /\ expired' = expired \cup {e}
                                   /\ proc' = [proc EXCEPT ![q].todo = @ \ {e}]
      BY <1>3 DEF Register
    <2>2. proc'[q].todo = proc[q].todo \ {e} /\ proc'[q].clock = proc[q].clock
      BY <1>0, <2>1 DEF TypeInv, ProcType, Locals
    <2>3. pending' = pending /\ Expiring(q)
      BY <1>3 DEF Register, queue
    <2>. QED BY <2>1, <2>2, <2>3 DEF TooOld, ExpiryInv, Inductive
  <1>4. ASSUME Step(q) \/ Crash(q), ~StartExpiry(q), ~Register(q) PROVE FALSE
    BY <1>0, <1>4, Where DEF Step
  <1>. QED BY <1>1, <1>2, <1>3, <1>4

\* A verdict takes the bullet at its position, however many came before it.
LEMMA TakesTarget ==
  ASSUME Inductive, NEW p \in Procs, Archive(p)
  PROVE  LET i == NextVerdict(proc[p].verdicts)
             n == Nth(Bullets(pending), i)
         IN /\ i \in proc[p].verdicts /\ \A j \in proc[p].verdicts : j <= i
            /\ n \in Bullets(pending) /\ n \in proc[p].text
            /\ proc'[p] = [proc[p] EXCEPT !.verdicts = @ \ {i}, !.text = @ \ {n}]
            /\ \E e \in pending : /\ e.id = n
                                  /\ judged' = judged \cup
                                       {[id |-> n, rule |-> e.rule, from |-> e.from]}
  <1>. DEFINE P == proc[p].verdicts
              text == proc[p].text
              B == Bullets(pending)
              i == NextVerdict(P)
              n == Nth(B, i)
              target == CHOOSE e \in pending : e.id = n
  <1>1. /\ i \in P /\ \A j \in P : j <= i
        /\ i \in 1 .. Cardinality(B) /\ target \in pending /\ target.id = n /\ n \in B
    BY TargetInQueue
  <1>2. judged' = judged \cup {[id |-> target.id, rule |-> target.rule, from |-> target.from]}
    BY DEF Archive
  <1>3. /\ text \in SUBSET B
        /\ \A k \in P : \A m \in B : m <= Nth(B, k) => m \in text
    BY DEF Archive, Inductive, VerdictsInv
  <1>4. B \in SUBSET Nat /\ IsFiniteSet(B)
    BY QueueCounted DEF Inductive
  <1>5. proc'[p] = [proc[p] EXCEPT !.verdicts = @ \ {i},
                      !.text = IF i <= Cardinality(text) THEN text \ {Nth(text, i)} ELSE text]
    BY DEF Archive, Inductive, TypeInv, ProcType
  <1>. HIDE DEF P, text, B, i, target
  <1>6. i <= Cardinality(text) /\ Nth(text, i) = n
    BY <1>1, <1>3, <1>4, NthOfPart
  <1>7. n \in text
    <2>1. n \in Nat
      BY <1>1, <1>4
    <2>. HIDE DEF n
    <2>2. n \in B /\ n <= n
      BY <1>1, <2>1
    <2>. QED BY <1>1, <1>3, <2>2 DEF n
  <1>8. proc'[p] = [proc[p] EXCEPT !.verdicts = @ \ {i}, !.text = @ \ {n}]
    BY <1>5, <1>6 DEF text
  <1>9. \E e \in pending : /\ e.id = n
                           /\ judged' = judged \cup
                                {[id |-> n, rule |-> e.rule, from |-> e.from]}
    BY <1>1, <1>2
  <1>. QED BY <1>1, <1>7, <1>8, <1>9 DEF P, text, B, i

LEMMA VerdictsStep == Inductive /\ [Next]_vars => VerdictsInv'
  <1>. DEFINE Good(P, T, B, Q, J) ==
                /\ P \subseteq 1 .. Cardinality(Q)
                /\ T \subseteq B
                /\ \A i \in P : \A n \in B : n <= Nth(B, i) => n \in T
                /\ \A e \in Q : e.id \in T
                     \/ \E j \in J : j.id = e.id /\ j.rule = e.rule /\ j.from = e.from
  <1>. SUFFICES ASSUME Inductive, [Next]_vars, NEW q \in Procs, proc'[q].at = "archive"
                PROVE  Good(proc'[q].verdicts, proc'[q].text, Bullets(pending'), pending', judged')
    BY DEF VerdictsInv, At, Bullets
  <1>0. TypeInv /\ proc'[q].at \in Critical
    BY InCritical DEF Inductive
  <1>1. CASE ~(Step(q) \/ Crash(q))
    BY <1>0, <1>1, Undisturbed DEF VerdictsInv, At, Inductive
  <1>2. CASE Load(q)
    <2>1. /\ proc[q].verdicts \subseteq 1 .. Cardinality(pending)
          /\ proc'[q].text = Bullets(pending) /\ proc'[q].verdicts = proc[q].verdicts
      BY <1>0, <1>2 DEF Load, Finish, Idle, TypeInv, ProcType, Locals
    <2>2. pending' = pending
      BY <1>2 DEF Load, queue
    <2>. QED BY <2>1, <2>2 DEF Bullets
  <1>3. CASE Archive(q)
    <2>. DEFINE P == proc[q].verdicts
                T == proc[q].text
                B == Bullets(pending)
                i == NextVerdict(P)
                n == Nth(B, i)
    <2>1. /\ i \in P /\ (\A j \in P : j <= i) /\ n \in B /\ n \in T
          /\ proc'[q] = [proc[q] EXCEPT !.verdicts = @ \ {i}, !.text = @ \ {n}]
      BY <1>3, TakesTarget
    <2>2. PICK e \in pending : /\ e.id = n
                               /\ judged' = judged \cup
                                    {[id |-> n, rule |-> e.rule, from |-> e.from]}
      BY <1>3, TakesTarget
    <2>3. Good(P, T, B, pending, judged)
      BY <1>3 DEF Archive, Inductive, VerdictsInv
    <2>4. proc'[q].verdicts = P \ {i} /\ proc'[q].text = T \ {n} /\ pending' = pending
      <3>1. pending' = pending
        BY <1>3 DEF Archive, queue
      <3>2. proc[q] \in Locals
        BY <1>0, Record1
      <3>. HIDE DEF i, n
      <3>3. proc'[q].verdicts = P \ {i} /\ proc'[q].text = T \ {n}
        BY <2>1, <3>2 DEF Locals
      <3>. QED BY <3>1, <3>3
    <2>5. /\ B \in SUBSET Nat /\ IsFiniteSet(B) /\ Cardinality(B) = Cardinality(pending)
          /\ Cardinality(B) \in Nat
      BY QueueCounted DEF Inductive
    <2>6. ASSUME NEW k \in P \ {i}, NEW m \in B, m <= Nth(B, k) PROVE m \in T \ {n}
      <3>1. k \in 1 .. Cardinality(B) /\ i \in 1 .. Cardinality(B) /\ k < i
        <4>1. k \in 1 .. Cardinality(B) /\ i \in 1 .. Cardinality(B) /\ k <= i /\ k # i
          BY <2>1, <2>3, <2>5
        <4>. HIDE DEF B, i
        <4>. QED BY <2>5, <4>1
      <3>. HIDE DEF B, i, P, T
      <3>2. Nth(B, k) < Nth(B, i)
        BY <2>5, <3>1, NthOrder
      <3>3. Nth(B, k) \in Nat /\ n \in Nat /\ m \in Nat
        BY <2>1, <2>5, <3>1, NthIs
      <3>. QED BY <2>3, <2>6, <3>2, <3>3
    <2>7. \A x \in pending : x.id \in T \ {n}
                             \/ \E j \in judged' :
                                    j.id = x.id /\ j.rule = x.rule /\ j.from = x.from
      <3>1. \A x \in pending : x.id = n => x = e
        BY <2>2 DEF Inductive, Ids
      <3>2. \A x \in pending :
          x.id \in T \/ \E j \in judged : j.id = x.id /\ j.rule = x.rule /\ j.from = x.from
        BY <2>3
      <3>3. \E j \in judged' : j.id = n /\ j.rule = e.rule /\ j.from = e.from
        <4>. DEFINE j == [id |-> n, rule |-> e.rule, from |-> e.from]
        <4>1. j.id = n /\ j.rule = e.rule /\ j.from = e.from
          OBVIOUS
        <4>2. j \in judged'
          BY <2>2
        <4>. HIDE DEF j, n
        <4>. QED BY <4>1, <4>2
      <3>4. judged \subseteq judged'
        BY <2>2
      <3>. HIDE DEF n, T, Good
      <3>. SUFFICES ASSUME NEW x \in pending
                    PROVE  x.id \in T \ {n} \/ \E j \in judged' :
                                    j.id = x.id /\ j.rule = x.rule /\ j.from = x.from
        OBVIOUS
      <3>5. CASE x.id = n
        BY <3>1, <3>3, <3>5
      <3>6. CASE x.id # n
        BY <3>2, <3>4, <3>6
      <3>. QED BY <3>5, <3>6
    <2>. HIDE DEF P, T, i, n
    <2>8. P \ {i} \subseteq 1 .. Cardinality(pending) /\ T \ {n} \subseteq B
      BY <2>3
    <2>9. \A k \in P \ {i} : \A m \in B : m <= Nth(B, k) => m \in T \ {n}
      BY <2>6
    <2>. QED BY <2>4, <2>7, <2>8, <2>9
  <1>4. ASSUME Step(q) \/ Crash(q), ~Load(q), ~Archive(q) PROVE FALSE
    BY <1>0, <1>4, Where DEF Step
  <1>. QED BY <1>1, <1>2, <1>3, <1>4

\* A requeue between its two files.
LEMMA RequeueStep ==
  ASSUME Inductive, [Next]_vars
  PROVE  /\ \A q \in Procs : At(q, "dispose")' => held'[proc'[q].line].rule \in Kept'
         /\ ForgetInv'
  <1>0. TypeInv /\ Kept \subseteq Kept'
    BY KeptStep DEF Inductive
  <1>1. ASSUME NEW q \in Procs, proc'[q].at = "dispose"
        PROVE  held'[proc'[q].line].rule \in Kept'
    <2>0. proc'[q].at \in Critical
      BY <1>1, InCritical
    <2>1. CASE ~(Step(q) \/ Crash(q))
      <3>1. held' = held /\ proc'[q] = proc[q]
        BY <2>0, <2>1, Undisturbed
      <3>. QED BY <1>0, <1>1, <3>1 DEF Inductive, Accounted, At
    <2>2. CASE RequeueHeld(q)
      <3>. DEFINE i == proc[q].line
                  b == Bullet(1, held[i].rule, held[i].ts, i, day)
      <3>1. held' = held /\ expired' = expired /\ judged' = judged /\ proc'[q].line = i
        BY <1>0, <1>1, <2>2 DEF RequeueHeld, Finish, Goto, Idle, overflow, TypeInv, ProcType, Locals
      <3>2. \/ held[i].rule \in RulesOf(pending) \cup {held[j].rule : j \in dispositions}
            \/ pending' = pending \cup {b}
        <4>1. ~Finish(q)
          BY <1>0, <1>1, IdleType DEF Finish, TypeInv, ProcType
        <4>. QED BY <2>2, <4>1 DEF RequeueHeld
      <3>3. CASE held[i].rule \in RulesOf(pending) \cup {held[j].rule : j \in dispositions}
        <4>1. held[i].rule \in Kept
          BY <3>3 DEF Inductive, Accounted, Kept, RulesOf
        <4>. QED BY <1>0, <3>1, <4>1
      <3>4. CASE pending' = pending \cup {b}
        <4>1. b.rule = held[i].rule
          BY DEF Bullet
        <4>. HIDE DEF b
        <4>. QED BY <3>1, <3>4, <4>1 DEF Kept, RulesOf
      <3>. QED BY <3>2, <3>3, <3>4
    <2>3. ASSUME Step(q) \/ Crash(q), ~RequeueHeld(q) PROVE FALSE
      BY <1>0, <1>1, <2>3, Where DEF Step
    <2>. QED BY <2>1, <2>2, <2>3
  <1>2. ASSUME NEW q \in Procs, proc'[q].at = "forget", NEW e \in expired', e.id = proc'[q].line
        PROVE  e.rule \in RulesOf(pending')
    <2>0. proc'[q].at \in Critical
      BY <1>2, InCritical
    <2>1. CASE ~(Step(q) \/ Crash(q))
      <3>1. pending' = pending /\ expired' = expired /\ proc'[q] = proc[q]
        BY <2>0, <2>1, Undisturbed
      <3>. QED BY <1>2, <3>1 DEF Inductive, ForgetInv, At
    <2>2. CASE RequeueExpired(q)
      <3>1. PICK x \in expired : /\ pending' = pending \cup {Revived(x)}
                                 /\ proc' = [proc EXCEPT ![q].line = x.id, ![q].at = "forget"]
        BY <2>2 DEF RequeueExpired
      <3>2. proc'[q].line = x.id /\ expired' = expired
        BY <1>0, <2>2, <3>1 DEF RequeueExpired, TypeInv, ProcType, Locals
      <3>3. e = x
        BY <1>2, <3>2 DEF Inductive, Ids
      <3>4. Revived(x).rule = x.rule
        BY DEF Revived, Bullet
      <3>. QED BY <3>1, <3>3, <3>4 DEF RulesOf
    <2>3. ASSUME Step(q) \/ Crash(q), ~RequeueExpired(q) PROVE FALSE
      BY <1>0, <1>2, <2>3, Where DEF Step
    <2>. QED BY <2>1, <2>2, <2>3
  <1>. QED BY <1>1, <1>2 DEF At, ForgetInv, RulesOf

-----------------------------------------------------------------------------
(* The theorems. *)

\* The invariant holds at the start: nothing is queued, and what is held is recorded.
LEMMA InductiveInit == Init => Inductive
  <1>. SUFFICES ASSUME Init PROVE Inductive
    OBVIOUS
  <1>1. TypeInv
    BY InitType
  <1>2. pending = {} /\ expired = {} /\ judged = {} /\ markers = {} /\ dispositions = {}
    BY DEF Init
  <1>3. \A p \in Procs : proc[p].at = "idle"
    BY IdleType DEF Init
  <1>4. Ids /\ Marked /\ RequeuedOnce /\ Dated
    BY <1>2 DEF Ids, Marked, RequeuedOnce, Dated
  <1>5. ExpiryInv /\ VerdictsInv /\ ForgetInv /\ Accounted
    BY <1>2, <1>3 DEF ExpiryInv, VerdictsInv, ForgetInv, Accounted, Expiring, At
  <1>6. RecordedInv
    BY DEF Init, RecordedInv, RulesOf
  <1>7. CapRespected
    BY <1>2 DEF CapRespected
  <1>. QED BY <1>1, <1>4, <1>5, <1>6, <1>7 DEF Inductive

\* And every step keeps it.
LEMMA InductiveStep == Inductive /\ [Next]_vars => Inductive'
  <1>. SUFFICES ASSUME Inductive, [Next]_vars PROVE Inductive'
    OBVIOUS
  <1>1. TypeInv'
    BY TypeStep
  <1>2. (Ids /\ Marked /\ RequeuedOnce /\ Dated)' /\ CapRespected'
    BY BulletsStep DEF BulletsInv
  <1>3. ExpiryInv' /\ VerdictsInv' /\ ForgetInv' /\ RecordedInv'
    BY ExpiryStep, VerdictsStep, RequeueStep, RecordedStep
  <1>4. Accounted'
    <2>1. LinesInv' /\ \A q \in Procs : At(q, "dispose")' => held'[proc'[q].line].rule \in Kept'
      BY LinesStep, RequeueStep
    <2>. QED BY <2>1 DEF Accounted, LinesInv, At
  <1>. QED BY <1>1, <1>2, <1>3, <1>4 DEF Inductive

LEMMA AlwaysInductive == Spec => []Inductive
  BY InductiveInit, InductiveStep, PTL DEF Spec

\* Every variable keeps its type, and who is in a critical section holds the lock.
THEOREM TypeOKAlways == Spec => []TypeOK
  BY AlwaysInductive, InductiveImplies, PTL

\* The two file writes of a transition, wherever a worker or a command dies between
\* them, neither lose a rule nor let a held line in twice.
THEOREM RulesConservedAlways == Spec => []RulesConserved
  BY AlwaysInductive, InductiveImplies, PTL

\* No interleaving takes a worker's bullets over max_pending_proposals, or a requeued
\* one over the cap of its command.
THEOREM CapRespectedAlways == Spec => []CapRespected
  BY AlwaysInductive, InductiveImplies, PTL

\* Every verdict of an apply takes out the bullet whose block it wrote, for lists of
\* verdicts and queues of any length.
THEOREM VerdictsExactAlways == Spec => VerdictsExact
  <1>1. Inductive /\ [Next]_vars
          => [\A p \in Procs : Archive(p) =>
                \E n \in {j.id : j \in judged'} : proc'[p].text = proc[p].text \ {n}
                                                /\ n \in proc[p].text]_vars
    <2>. SUFFICES ASSUME Inductive, [Next]_vars, NEW p \in Procs, Archive(p)
                  PROVE  \E n \in {j.id : j \in judged'} :
                            proc'[p].text = proc[p].text \ {n} /\ n \in proc[p].text
      OBVIOUS
    <2>. DEFINE i == NextVerdict(proc[p].verdicts)
                n == Nth(Bullets(pending), i)
    <2>1. /\ n \in proc[p].text
          /\ proc'[p] = [proc[p] EXCEPT !.verdicts = @ \ {i}, !.text = @ \ {n}]
      BY TakesTarget
    <2>2. PICK e \in pending : /\ e.id = n
                               /\ judged' = judged \cup
                                    {[id |-> n, rule |-> e.rule, from |-> e.from]}
      BY TakesTarget
    <2>. HIDE DEF i, n
    <2>3. n \in {j.id : j \in judged'}
      <3>. DEFINE j == [id |-> n, rule |-> e.rule, from |-> e.from]
      <3>1. j.id = n /\ j \in judged'
        BY <2>2
      <3>. HIDE DEF j
      <3>. QED BY <3>1
    <2>4. proc'[p].text = proc[p].text \ {n}
      BY <2>1 DEF Inductive, TypeInv, ProcType, Locals
    <2>. QED BY <2>1, <2>3, <2>4
  <1>. QED BY <1>1, AlwaysInductive, PTL DEF Spec, VerdictsExact

\* What a person took back from the expired registry stays in the queue for the whole of
\* proposal_max_age_days, whatever the tasks of other days that expire it are.
THEOREM RevivedKeptAlways == Spec => RevivedKept
  <1>1. Inductive /\ [Next]_vars
          => [\A p \in Procs : DropExpired(p) =>
                \A e \in pending \ pending' :
                    e.from = 0 /\ e.back # Never => day > e.back + MaxAge]_vars
    <2>. SUFFICES ASSUME Inductive, NEW p \in Procs, DropExpired(p), NEW e \in pending \ pending',
                         e.from = 0, e.back # Never
                  PROVE  day > e.back + MaxAge
      OBVIOUS
    <2>1. proc[p].clock > e.ts + MaxAge
      BY DEF DropExpired, TooOld
    <2>2. e.ts = e.back
      BY DEF Inductive, Dated
    <2>3. /\ proc[p].clock <= day /\ proc[p].clock \in Nat /\ day \in Nat /\ MaxAge \in Nat
          /\ e.ts \in Nat
      BY Numbers DEF Inductive, TypeInv, ProcType, FilesType, Locals, Days, Entries
    <2>. QED BY <2>1, <2>2, <2>3
  <1>. QED BY <1>1, AlwaysInductive, PTL DEF Spec, RevivedKept

-----------------------------------------------------------------------------
(* The review. *)

\* What a worker writes is an answer of the grader, ...
AnswersInv ==
    \A p \in Procs : proc[p].at \in {"persist", "expirePersist", "record"} =>
        Len(proc[p].rules) \in 1 .. MaxNew
\* ... and a line that gets its disposition is in the queue, or would repeat a rule.
DisposeInv ==
    \A p \in Procs : At(p, "dispose") =>
        LET i == proc[p].line
        IN i \in markers \/ held[i].rule \in RulesOf(pending) \cup {held[j].rule : j \in dispositions}

ReviewInv == Inductive /\ AnswersInv /\ DisposeInv

LEMMA AnswersStep == Inductive /\ AnswersInv /\ [Next]_vars => AnswersInv'
  <1>. DEFINE Writing == {"persist", "expirePersist", "record"}
  <1>. SUFFICES ASSUME Inductive, AnswersInv, [Next]_vars, NEW q \in Procs,
                       proc'[q].at \in Writing
                PROVE  Len(proc'[q].rules) \in 1 .. MaxNew
    BY DEF AnswersInv
  <1>0. TypeInv /\ proc[q] \in Locals
    BY Record1 DEF Inductive
  <1>1. CASE ~(Step(q) \/ Crash(q))
    <2>1. proc'[q] = proc[q]
      BY <1>0, <1>1, OwnRecord DEF Next, Tick, vars
    <2>. QED BY <2>1 DEF AnswersInv
  <1>2. CASE Infer(q)
    <2>1. proc' # [proc EXCEPT ![q] = Idle]
      BY <1>0, IdleType DEF TypeInv, ProcType
    <2>2. PICK k \in 1 .. MaxNew : \E r \in [1 .. k -> Rules] :
            proc' = [proc EXCEPT ![q].rules = r, ![q].at = "persist"]
      BY <1>2, <2>1 DEF Infer
    <2>3. PICK r \in [1 .. k -> Rules] :
            proc' = [proc EXCEPT ![q].rules = r, ![q].at = "persist"]
      BY <2>2
    <2>4. proc'[q].rules = r
      BY <1>0, <2>3 DEF TypeInv, ProcType, Locals
    <2>5. Len(r) = k
      BY Numbers
    <2>. QED BY <2>4, <2>5
  <1>3. CASE StartExpiry(q) \/ Register(q) \/ DropExpired(q)
    <2>1. proc'[q].rules = proc[q].rules /\ proc[q].at \in Writing
      <3>1. CASE StartExpiry(q)
        BY <1>0, <3>1 DEF StartExpiry, At, TypeInv, ProcType, Locals
      <3>2. CASE Register(q)
        BY <1>0, <3>2 DEF Register, Expiring, At, TypeInv, ProcType, Locals
      <3>3. CASE DropExpired(q)
        BY <1>0, <3>3 DEF DropExpired, RegistryWritten, Expiring, Goto, At, TypeInv, ProcType, Locals
      <3>. QED BY <1>3, <3>1, <3>2, <3>3
    <2>. QED BY <2>1 DEF AnswersInv
  <1>4. ASSUME Step(q) \/ Crash(q), ~Infer(q), ~StartExpiry(q), ~Register(q), ~DropExpired(q)
        PROVE  FALSE
    BY <1>0, <1>4, Where DEF Step
  <1>. QED BY <1>1, <1>2, <1>3, <1>4

LEMMA DisposeStep == Inductive /\ DisposeInv /\ [Next]_vars => DisposeInv'
  <1>. SUFFICES ASSUME Inductive, DisposeInv, [Next]_vars, NEW q \in Procs,
                       proc'[q].at = "dispose"
                PROVE  \/ proc'[q].line \in markers'
                       \/ held'[proc'[q].line].rule
                            \in RulesOf(pending') \cup {held'[j].rule : j \in dispositions'}
    BY DEF DisposeInv, At, RulesOf
  <1>0. TypeInv /\ proc[q] \in Locals /\ proc'[q].at \in Critical
    BY Record1, InCritical DEF Inductive
  <1>1. CASE ~(Step(q) \/ Crash(q))
    <2>1. UNCHANGED <<pending, markers, held, dispositions>> /\ proc'[q] = proc[q]
      BY <1>0, <1>1, Undisturbed
    <2>. QED BY <2>1 DEF DisposeInv, At
  <1>2. CASE RequeueHeld(q)
    <2>1. ~Finish(q)
      BY <1>0, IdleType DEF Finish, TypeInv, ProcType
    <2>2. UNCHANGED <<held, dispositions>> /\ Goto(q, "dispose")
      BY <1>2, <2>1 DEF RequeueHeld, overflow
    <2>3. proc'[q].line = proc[q].line
      BY <1>0, <2>2 DEF Goto, TypeInv, ProcType, Locals
    <2>4. \/ /\ held[proc[q].line].rule \in RulesOf(pending) \cup {held[j].rule : j \in dispositions}
             /\ pending' = pending
          \/ markers' = markers \cup {proc[q].line}
      BY <1>2, <2>1 DEF RequeueHeld, queue
    <2>. QED BY <2>2, <2>3, <2>4
  <1>3. ASSUME Step(q) \/ Crash(q), ~RequeueHeld(q) PROVE FALSE
    BY <1>0, <1>3, Where DEF Step
  <1>. QED BY <1>1, <1>2, <1>3

LEMMA AlwaysReview == Spec => []ReviewInv
  <1>1. Init => AnswersInv /\ DisposeInv
    <2>. SUFFICES ASSUME Init PROVE AnswersInv /\ DisposeInv
      OBVIOUS
    <2>1. \A p \in Procs : proc[p].at = "idle"
      BY IdleType DEF Init
    <2>. QED BY <2>1 DEF AnswersInv, DisposeInv, At
  <1>. QED BY <1>1, InductiveInit, InductiveStep, AnswersStep, DisposeStep, PTL DEF Spec, ReviewInv

\* The values of the review: its bullets are the bullets, its lines the held rows.
Open == {Bare(e) : e \in pending}
Lapsed == {Bare(e) : e \in expired}
Lines == [i \in 1 .. Len(held) |-> held[i].rule]
Dealt == markers \cup dispositions

\* The review counts as the queue does.
LEMMA SameCount == \A S : Review!Cardinality(S) = Cardinality(S)
  BY DEF Review!Cardinality, Cardinality

\* Bullets have the rules they have.
LEMMA BareRules == \A S : Review!RulesOf({Bare(e) : e \in S}) = RulesOf(S)
  <1>1. \A e : Bare(e).rule = e.rule
    BY DEF Bare
  <1>. QED BY <1>1 DEF Review!RulesOf, RulesOf

LEMMA ReviewValues ==
  ASSUME Inductive
  PROVE  /\ \A e, f \in pending \cup expired : Bare(e) = Bare(f) => e = f
         /\ Cardinality(Open) = Cardinality(pending) /\ Cardinality(pending) \in Nat
         /\ Review!RulesOf(Open) = RulesOf(pending)
         /\ Review!RulesOf(Lapsed) = RulesOf(expired)
         /\ Lines \in Seq(Rules) /\ Len(Lines) = Len(held) /\ Len(held) \in Nat
         /\ \A i \in 1 .. Len(held) : Lines[i] = held[i].rule
  <1>1. \A e, f \in pending \cup expired : Bare(e) = Bare(f) => e = f
    <2>. SUFFICES ASSUME NEW e \in pending \cup expired, NEW f \in pending \cup expired,
                         Bare(e) = Bare(f)
                  PROVE  e = f
      OBVIOUS
    <2>1. e.id = f.id
      BY DEF Bare
    <2>. QED BY <2>1 DEF Inductive, Ids
  <1>2. Cardinality(Open) = Cardinality(pending) /\ Cardinality(pending) \in Nat
    <2>. DEFINE g == [e \in pending |-> Bare(e)]
    <2>1. IsFiniteSet(pending) /\ Cardinality(pending) \in Nat
      BY QueueCounted DEF Inductive
    <2>2. g \in [pending -> Open] /\ (\A b \in Open : \E e \in pending : g[e] = b)
      BY DEF Open
    <2>3. \A e, f \in pending : g[e] = g[f] => e = f
      BY <1>1
    <2>. HIDE DEF g
    <2>4. g \in Bijection(pending, Open)
      BY <2>2, <2>3 DEF Bijection, Injection, Surjection, IsInjective
    <2>. QED BY <2>1, <2>4, FS_Bijection DEF ExistsBijection
  <1>3. /\ Review!RulesOf(Open) = RulesOf(pending)
        /\ Review!RulesOf(Lapsed) = RulesOf(expired)
    BY BareRules DEF Open, Lapsed
  <1>4. /\ Lines \in Seq(Rules) /\ Len(Lines) = Len(held) /\ Len(held) \in Nat
        /\ \A i \in 1 .. Len(held) : Lines[i] = held[i].rule
    <2>1. held \in Seq(HeldRows) /\ Len(held) \in Nat
      BY DEF Inductive, TypeInv, FilesType
    <2>2. \A i \in 1 .. Len(held) : held[i].rule \in Rules
      <3>1. \A i \in 1 .. Len(held) : held[i] \in HeldRows
        BY <2>1
      <3>. QED BY <3>1 DEF HeldRows
    <2>3. Lines \in [1 .. Len(held) -> Rules]
      BY <2>2 DEF Lines
    <2>4. Lines \in Seq(Rules) /\ Len(Lines) = Len(held)
      BY <2>1, <2>3
    <2>. QED BY <2>1, <2>4 DEF Lines
  <1>. QED BY <1>1, <1>2, <1>3, <1>4

\* Nothing of what the review looks at changes.
LEMMA ReviewStutters ==
  ASSUME UNCHANGED <<pending, expired, judged, held, written>>, Dealt' = Dealt
  PROVE  UNCHANGED Review!vars
  BY DEF Review!vars, Dealt, Bare

\* The start of the review.
LEMMA ReviewInit == Init => Review!Init
  <1>. SUFFICES ASSUME Init PROVE Review!Init
    OBVIOUS
  <1>1. Open = {} /\ judged = {} /\ Lapsed = {} /\ Dealt = {} /\ written = 0
    BY DEF Init, Open, Lapsed, Dealt
  <1>2. PICK n \in 0 .. MaxHeld : held \in [1 .. n -> [rule : Rules, ts : {0}]]
    BY DEF Init
  <1>3. Len(held) = n
    BY <1>2, Numbers
  <1>4. Lines \in [1 .. n -> Rules]
    BY <1>2, <1>3 DEF Lines
  <1>. QED BY <1>1, <1>4 DEF Review!Init, Open, Lapsed, Dealt, Lines

\* Bullets that are on record leave the queue.
LEMMA ReviewLeave ==
  ASSUME Inductive, NEW Gone \in SUBSET pending, pending' = pending \ Gone,
         UNCHANGED <<expired, judged, held, markers, dispositions, written>>,
         \/ \A e \in Gone : Bare(e) \in judged
         \/ RulesOf(Gone) \subseteq RulesOf(expired)
  PROVE  Review!Next
  <1>. DEFINE B == {Bare(e) : e \in Gone}
  <1>1. Open' = Open \ B
    BY ReviewValues DEF Open, Bare
  <1>2. B \subseteq judged \/ Review!RulesOf(B) \subseteq Review!RulesOf(Lapsed)
    <2>1. Review!RulesOf(B) = RulesOf(Gone)
      BY BareRules
    <2>. QED BY <2>1, ReviewValues
  <1>3. UNCHANGED <<judged, Lapsed, Lines, Dealt, written>>
    BY DEF Lapsed, Lines, Dealt
  <1>4. Review!Leave(B)
    BY <1>1, <1>2, <1>3 DEF Review!Leave, Open, Lapsed, Lines, Dealt
  <1>5. B \in SUBSET Open
    BY DEF Open
  <1>. QED BY <1>4, <1>5 DEF Review!Next, Open

\* What a concatenation is made of.
LEMMA Joined ==
  ASSUME NEW S, NEW s \in Seq(S), NEW t \in Seq(S)
  PROVE  /\ s \o t \in Seq(S) /\ Len(s \o t) = Len(s) + Len(t)
         /\ \A i \in 1 .. Len(s) : (s \o t)[i] = s[i]
         /\ \A i \in 1 .. Len(t) : (s \o t)[Len(s) + i] = t[i]
  <1>1. s \o t \in Seq(S) /\ Len(s \o t) = Len(s) + Len(t)
    OBVIOUS
  <1>2. \A i \in 1 .. Len(s) : (s \o t)[i] = s[i]
    OBVIOUS
  <1>3. ASSUME NEW i \in 1 .. Len(t) PROVE (s \o t)[Len(s) + i] = t[i]
    <2>1. Len(s) \in Nat /\ Len(t) \in Nat
      OBVIOUS
    <2>2. Len(s) + i \in 1 .. Len(s) + Len(t) /\ Len(s) + i > Len(s) /\ Len(s) + i - Len(s) = i
      BY <2>1
    <2>. QED BY <2>1, <2>2
  <1>. QED BY <1>1, <1>2, <1>3

\* Sequences with the same members are the same.
LEMMA SameSeq ==
  ASSUME NEW S, NEW s \in Seq(S), NEW t \in Seq(S), NEW n \in Nat, Len(s) = n, Len(t) = n,
         \A i \in 1 .. n : s[i] = t[i]
  PROVE  s = t
  OBVIOUS

\* An answer enters the queue or the overflow, all of it.
LEMMA ReviewRecord ==
  ASSUME ReviewInv, NEW p \in Procs, Record(p)
  PROVE  Review!Next
  <1>. PICK rules : rules = proc[p].rules
    OBVIOUS
  <1>. DEFINE n == Len(rules)
              b(i) == Bullet(i, rules[i], proc[p].clock, 0, Never)
              row(i) == [rule |-> rules[i], ts |-> proc[p].clock]
  <1>1. /\ n \in 1 .. MaxNew /\ n \in Nat /\ rules \in Seq(Rules) /\ rules \in [1 .. n -> Rules]
        /\ proc[p].clock \in Days /\ Inductive
    <2>1. n \in 1 .. MaxNew /\ proc[p].clock \in Days /\ rules \in Seq(Rules) /\ Inductive
      BY Record1 DEF Record, At, ReviewInv, AnswersInv, Inductive
    <2>. QED BY <2>1, Numbers
  <1>2. /\ Cardinality(Open) = Cardinality(pending) /\ Lines \in Seq(Rules)
        /\ Len(Lines) = Len(held) /\ Len(held) \in Nat
        /\ \A i \in 1 .. Len(held) : Lines[i] = held[i].rule
    BY <1>1, ReviewValues
  <1>3. CASE /\ Full(p) /\ held' = held \o [i \in 1 .. n |-> row(i)]
             /\ UNCHANGED <<pending, written>>
    <2>. DEFINE rows == [i \in 1 .. n |-> row(i)]
    <2>1. Cardinality(Open) + n > Cap
      BY <1>2, <1>3 DEF Full
    <2>2. Lines' = Lines \o rules
      <3>1. \A i \in 1 .. n : row(i) \in HeldRows /\ row(i).rule = rules[i]
        BY <1>1 DEF HeldRows
      <3>2. held \in Seq(HeldRows) /\ held' = held \o rows
        BY <1>1, <1>3 DEF Inductive, TypeInv, FilesType
      <3>. HIDE DEF row, n
      <3>3. rows \in Seq(HeldRows) /\ Len(rows) = n /\ \A i \in 1 .. n : rows[i].rule = rules[i]
        BY <1>1, <3>1
      <3>. HIDE DEF rows
      <3>4. /\ Len(held') = Len(held) + n
            /\ \A i \in 1 .. Len(held) : held'[i] = held[i]
            /\ \A i \in 1 .. n : held'[Len(held) + i] = rows[i]
        <4>1. /\ Len(held \o rows) = Len(held) + Len(rows)
              /\ \A i \in 1 .. Len(held) : (held \o rows)[i] = held[i]
              /\ \A i \in 1 .. Len(rows) : (held \o rows)[Len(held) + i] = rows[i]
          <5>1. held \in Seq(HeldRows) /\ rows \in Seq(HeldRows)
            BY <3>2, <3>3
          <5>. QED BY <5>1, Joined
        <4>. QED BY <3>2, <3>3, <4>1, Zenon
      <3>5. n = Len(rules)
        BY DEF n
      <3>6. /\ Lines \o rules \in Seq(Rules) /\ Len(Lines \o rules) = Len(held) + n
            /\ \A i \in 1 .. Len(held) : (Lines \o rules)[i] = Lines[i]
            /\ \A i \in 1 .. n : (Lines \o rules)[Len(held) + i] = rules[i]
        <4>1. /\ Lines \o rules \in Seq(Rules) /\ Len(Lines \o rules) = Len(Lines) + Len(rules)
              /\ \A i \in 1 .. Len(Lines) : (Lines \o rules)[i] = Lines[i]
              /\ \A i \in 1 .. Len(rules) : (Lines \o rules)[Len(Lines) + i] = rules[i]
          <5>1. Lines \in Seq(Rules) /\ rules \in Seq(Rules)
            BY <1>1, <1>2
          <5>. QED BY <5>1, Joined
        <4>. QED BY <1>2, <3>5, <4>1, Zenon
      <3>7. \A j \in 1 .. Len(held) + n : Lines'[j] = (Lines \o rules)[j]
        <4>. SUFFICES ASSUME NEW j \in 1 .. Len(held) + n PROVE Lines'[j] = (Lines \o rules)[j]
          OBVIOUS
        <4>0. Lines'[j] = held'[j].rule
          BY <1>1, <1>2, <3>4 DEF Lines
        <4>1. CASE j \in 1 .. Len(held)
          BY <1>2, <3>4, <3>6, <4>0, <4>1
        <4>2. CASE j \notin 1 .. Len(held)
          <5>1. j - Len(held) \in 1 .. n /\ Len(held) + (j - Len(held)) = j
            BY <1>1, <1>2, <4>2
          <5>. QED BY <3>3, <3>4, <3>6, <4>0, <5>1
        <4>. QED BY <4>1, <4>2
      <3>8. Lines' \in Seq(Rules) /\ Len(Lines') = Len(held) + n
        <4>1. \A j \in 1 .. Len(held) + n : Lines'[j] \in Rules
          BY <1>1, <1>2, <3>6, <3>7
        <4>2. Lines' = [j \in 1 .. Len(held) + n |-> held'[j].rule]
          BY <3>4 DEF Lines
        <4>3. Lines' \in [1 .. Len(held) + n -> Rules] /\ Len(held) + n \in Nat
          BY <1>1, <1>2, <4>1, <4>2
        <4>. QED BY <4>3
      <3>9. Len(held) + n \in Nat
        BY <1>1, <1>2
      <3>. HIDE DEF n
      <3>. QED BY <3>6, <3>7, <3>8, <3>9, SameSeq
    <2>3. UNCHANGED <<Open, judged, Lapsed, Dealt, written>>
      BY <1>3 DEF Record, Open, Lapsed, Dealt
    <2>4. Review!Hold(rules)
      BY <2>1, <2>2, <2>3, SameCount DEF Review!Hold, Open, Lapsed, Lines, Dealt
    <2>. HIDE DEF n
    <2>5. \E r \in [1 .. n -> Rules] : Review!Hold(r)
      BY <1>1, <2>4
    <2>6. \E k \in 1 .. MaxNew : \E r \in [1 .. k -> Rules] : Review!Hold(r)
      BY <1>1, <2>5
    <2>. QED BY <2>6 DEF Review!Next
  <1>4. CASE /\ ~Full(p) /\ pending' = pending \cup {b(i) : i \in 1 .. n}
             /\ written' = written + n /\ held' = held
    <2>1. Cardinality(Open) + n <= Cap
      <3>1. ~(Cardinality(pending) + n > Cap) /\ Cardinality(pending) \in Nat
        BY <1>1, <1>4, ReviewValues DEF Full
      <3>. QED BY <1>1, <1>2, <3>1, Numbers
    <2>2. Open' = Open \cup {Review!Enter(i, rules[i], 0) : i \in 1 .. n}
      <3>1. \A i : Bare(b(i)) = Review!Enter(i, rules[i], 0)
        BY DEF Bare, Bullet, Review!Enter
      <3>2. Open' = {Bare(e) : e \in pending'}
        BY DEF Open, Bare
      <3>. HIDE DEF b
      <3>. QED BY <1>4, <3>1, <3>2 DEF Open
    <2>3. UNCHANGED <<judged, Lapsed, Lines, Dealt>>
      BY <1>4 DEF Record, Lapsed, Lines, Dealt
    <2>4. Review!Propose(rules)
      BY <1>4, <2>1, <2>2, <2>3, SameCount DEF Review!Propose, Open, Lapsed, Lines, Dealt
    <2>. QED BY <1>1, <2>4 DEF Review!Next
  <1>. QED BY <1>3, <1>4 DEF Record

\* A held line enters the queue, or is found to repeat a rule.
LEMMA ReviewRequeue ==
  ASSUME ReviewInv, NEW p \in Procs, RequeueHeld(p)
  PROVE  Review!Next \/ UNCHANGED Review!vars
  <1>. DEFINE i == proc[p].line
              rule == held[i].rule
              known == RulesOf(pending) \cup {held[j].rule : j \in dispositions}
              b == Bullet(1, rule, held[i].ts, i, day)
  <1>1. /\ Inductive /\ i \in 1 .. Len(held) /\ Dealt = dispositions
        /\ UNCHANGED <<held, dispositions, expired, judged>>
    BY HeldBullet DEF ReviewInv, RequeueHeld, Reconciled, Dealt, overflow
  <1>2. CASE UNCHANGED queue
    BY <1>1, <1>2, ReviewStutters DEF queue, Dealt
  <1>3. CASE /\ i \notin dispositions /\ rule \notin known
             /\ (\E cap \in Caps : Cardinality(pending) < cap)
             /\ pending' = pending \cup {b} /\ markers' = markers \cup {i}
             /\ written' = written + 1
    <2>1. /\ Lines[i] = rule /\ (\E cap \in Caps : Cardinality(Open) < cap)
          /\ i \in (1 .. Len(Lines)) \ Dealt
      BY <1>1, <1>3, ReviewValues
    <2>2. ~Review!Known(Lines[i])
      <3>1. dispositions \subseteq 1 .. Len(held)
        BY <1>1 DEF Inductive, TypeInv, FilesType
      <3>2. {Lines[j] : j \in Dealt} = {held[j].rule : j \in dispositions}
        BY <1>1, <3>1, ReviewValues
      <3>3. Review!RulesOf(Open) = RulesOf(pending)
        BY <1>1, ReviewValues
      <3>4. Lines[i] \notin Review!RulesOf(Open) \cup {Lines[j] : j \in Dealt}
        BY <1>3, <2>1, <3>2, <3>3
      <3>. QED BY <3>4 DEF Review!Known, Open, Lines, Dealt
    <2>3. Open' = Open \cup {Review!Enter(1, Lines[i], i)}
      <3>1. Bare(b) = Review!Enter(1, rule, i)
        BY DEF Bare, Bullet, Review!Enter
      <3>2. Open' = {Bare(e) : e \in pending'}
        BY DEF Open, Bare
      <3>. HIDE DEF b, rule, i
      <3>. QED BY <1>3, <2>1, <3>1, <3>2 DEF Open
    <2>4. UNCHANGED <<judged, Lapsed, Lines>> /\ Dealt' = Dealt \cup {i}
      BY <1>1, <1>3 DEF Lapsed, Lines, Dealt
    <2>5. Review!Requeue(i)
      BY <1>3, <2>1, <2>2, <2>3, <2>4, SameCount DEF Review!Requeue, Open, Lapsed, Lines, Dealt
    <2>6. i \in 1 .. MaxHeld
      BY <1>1, Numbers DEF Inductive, TypeInv, FilesType
    <2>. QED BY <2>5, <2>6 DEF Review!Next
  <1>. QED BY <1>2, <1>3 DEF RequeueHeld

LEMMA ReviewDispose ==
  ASSUME ReviewInv, NEW p \in Procs, Dispose(p)
  PROVE  Review!Next \/ UNCHANGED Review!vars
  <1>. DEFINE i == proc[p].line
  <1>1. /\ Inductive /\ i \in 1 .. Len(held) /\ dispositions' = dispositions \cup {i}
        /\ UNCHANGED <<pending, markers, written, held, expired, judged>>
    BY DEF ReviewInv, Inductive, TypeInv, ProcType, Dispose, At, queue
  <1>. HIDE DEF i
  <1>2. CASE i \in Dealt
    BY <1>1, <1>2, ReviewStutters DEF Dealt
  <1>3. CASE i \notin Dealt
    <2>1. held[i].rule \in RulesOf(pending) \cup {held[j].rule : j \in dispositions}
      BY <1>3 DEF Dispose, ReviewInv, DisposeInv, Dealt, i
    <2>2. Lines[i] = held[i].rule /\ i \in (1 .. Len(Lines)) \ Dealt
      BY <1>1, <1>3, ReviewValues
    <2>3. Review!Known(Lines[i])
      <3>1. dispositions \subseteq 1 .. Len(held)
        BY <1>1 DEF Inductive, TypeInv, FilesType
      <3>2. {held[j].rule : j \in dispositions} \subseteq {Lines[j] : j \in Dealt}
        BY <1>1, <3>1, ReviewValues DEF Dealt
      <3>3. Review!RulesOf(Open) = RulesOf(pending)
        BY <1>1, ReviewValues
      <3>4. Lines[i] \in Review!RulesOf(Open) \cup {Lines[j] : j \in Dealt}
        BY <2>1, <2>2, <3>2, <3>3
      <3>. QED BY <3>4 DEF Review!Known, Open, Lines, Dealt
    <2>4. UNCHANGED <<Open, judged, Lapsed, Lines, written>> /\ Dealt' = Dealt \cup {i}
      BY <1>1 DEF Open, Lapsed, Lines, Dealt
    <2>5. Review!Merge(i)
      BY <2>2, <2>3, <2>4 DEF Review!Merge, Open, Lapsed, Lines, Dealt
    <2>6. i \in 1 .. MaxHeld
      BY <1>1, Numbers DEF Inductive, TypeInv, FilesType
    <2>. QED BY <2>5, <2>6 DEF Review!Next
  <1>. QED BY <1>2, <1>3

\* A bullet is put on record.
LEMMA ReviewRegister ==
  ASSUME ReviewInv, NEW p \in Procs, Register(p)
  PROVE  Review!Next
  <1>1. PICK e \in proc[p].todo : expired' = expired \cup {e}
    BY DEF Register
  <1>2. e \in pending /\ UNCHANGED <<pending, judged, held, markers, dispositions, written>>
    BY DEF Register, queue, overflow, ReviewInv, Inductive, ExpiryInv
  <1>3. Bare(e) \in Open /\ Lapsed' = Lapsed \cup {Bare(e)}
    <2>1. Lapsed' = {Bare(x) : x \in expired'}
      BY DEF Lapsed, Bare
    <2>. QED BY <1>1, <1>2, <2>1 DEF Open, Lapsed
  <1>4. UNCHANGED <<Open, Lines, Dealt>>
    BY <1>2 DEF Open, Lines, Dealt
  <1>5. Review!Lapse(Bare(e))
    BY <1>2, <1>3, <1>4 DEF Review!Lapse, Open, Lapsed, Lines, Dealt
  <1>. QED BY <1>3, <1>5 DEF Review!Next, Open

LEMMA ReviewArchive ==
  ASSUME ReviewInv, NEW p \in Procs, Archive(p)
  PROVE  Review!Next
  <1>1. PICK e \in pending : judged' = judged \cup {Bare(e)}
    <2>. DEFINE n == Nth(Bullets(pending), NextVerdict(proc[p].verdicts))
    <2>1. \E e \in pending : /\ e.id = n
                             /\ judged' = judged \cup
                                  {[id |-> n, rule |-> e.rule, from |-> e.from]}
      BY TakesTarget DEF ReviewInv
    <2>. HIDE DEF n
    <2>. QED BY <2>1 DEF Bare
  <1>2. Bare(e) \in Open
    BY DEF Open
  <1>3. UNCHANGED <<Open, Lapsed, Lines, Dealt, written>>
    BY DEF Archive, queue, overflow, Open, Lapsed, Lines, Dealt
  <1>4. Review!Settle(Bare(e))
    BY <1>1, <1>2, <1>3 DEF Review!Settle, Open, Lapsed, Lines, Dealt
  <1>. QED BY <1>2, <1>4 DEF Review!Next, Open

\* What leaves the queue is on record.
LEMMA ReviewDrop ==
  ASSUME ReviewInv, NEW p \in Procs, DropExpired(p)
  PROVE  Review!Next
  <1>1. /\ pending' = pending \ TooOld(p) /\ TooOld(p) \in SUBSET pending
        /\ UNCHANGED <<expired, judged, held, markers, dispositions, written>>
    BY DEF DropExpired, TooOld, overflow
  <1>2. \A e \in TooOld(p) : \E x \in expired : x.rule = e.rule
    BY DEF DropExpired, RegistryWritten, ReviewInv, Inductive, ExpiryInv
  <1>3. RulesOf(TooOld(p)) \subseteq RulesOf(expired)
    BY <1>2 DEF RulesOf
  <1>. QED BY <1>1, <1>3, ReviewLeave DEF ReviewInv

LEMMA ReviewReplace ==
  ASSUME ReviewInv, NEW p \in Procs, Replace(p)
  PROVE  Review!Next
  <1>. DEFINE Gone == {e \in pending : e.id \notin proc[p].text}
  <1>1. /\ pending' = pending \ Gone /\ Gone \in SUBSET pending
        /\ UNCHANGED <<expired, judged, held, markers, dispositions, written>>
    BY DEF Replace, overflow
  <1>2. \A e \in Gone : Bare(e) \in judged
    <2>. SUFFICES ASSUME NEW e \in Gone PROVE Bare(e) \in judged
      OBVIOUS
    <2>1. PICK j \in judged : j.id = e.id /\ j.rule = e.rule /\ j.from = e.from
      BY DEF Replace, ReviewInv, Inductive, VerdictsInv
    <2>2. j \in Judged
      BY DEF ReviewInv, Inductive, TypeInv, FilesType
    <2>3. j = Bare(e)
      BY <2>1, <2>2 DEF Judged, Bare
    <2>. QED BY <2>3
  <1>. HIDE DEF Gone
  <1>. QED BY <1>1, <1>2, ReviewLeave DEF ReviewInv

\* A rule comes back, and is forgotten once it has.
LEMMA ReviewReopen ==
  ASSUME ReviewInv, NEW p \in Procs, RequeueExpired(p)
  PROVE  Review!Next
  <1>1. PICK e \in expired : pending' = pending \cup {Revived(e)}
    BY DEF RequeueExpired
  <1>2. /\ written' = written + 1 /\ Inductive
        /\ (\E cap \in Caps : Cardinality(Open) < cap)
        /\ UNCHANGED <<expired, judged, held, markers, dispositions>>
    BY ReviewValues DEF RequeueExpired, overflow, ReviewInv
  <1>3. Bare(e) \in Lapsed /\ Bare(e).rule = e.rule
    BY DEF Lapsed, Bare
  <1>4. Open' = Open \cup {Review!Enter(1, Bare(e).rule, 0)}
    <2>1. Bare(Revived(e)) = Review!Enter(1, Bare(e).rule, 0)
      BY DEF Bare, Revived, Bullet, Review!Enter
    <2>2. Open' = {Bare(x) : x \in pending'}
      BY DEF Open, Bare
    <2>. QED BY <1>1, <2>1, <2>2 DEF Open
  <1>5. UNCHANGED <<Lapsed, Lines, Dealt>>
    BY <1>2 DEF Lapsed, Lines, Dealt
  <1>6. Review!Reopen(Bare(e))
    BY <1>2, <1>3, <1>4, <1>5, SameCount DEF Review!Reopen, Open, Lapsed, Lines, Dealt
  <1>. QED BY <1>3, <1>6 DEF Review!Next, Lapsed

LEMMA ReviewForget ==
  ASSUME ReviewInv, NEW p \in Procs, Forget(p)
  PROVE  Review!Next \/ UNCHANGED Review!vars
  <1>1. /\ expired' = {e \in expired : e.id # proc[p].line} /\ Inductive
        /\ UNCHANGED <<pending, judged, held, markers, dispositions, written>>
    BY DEF Forget, queue, overflow, ReviewInv
  <1>2. CASE expired' = expired
    BY <1>1, <1>2, ReviewStutters DEF Dealt
  <1>3. ASSUME NEW e \in expired, e.id = proc[p].line PROVE Review!Next
    <2>1. expired' = expired \ {e}
      BY <1>1, <1>3 DEF Inductive, Ids
    <2>2. Lapsed' = Lapsed \ {Bare(e)}
      <3>1. Lapsed' = {Bare(x) : x \in expired'}
        BY DEF Lapsed, Bare
      <3>2. \A x \in expired : Bare(x) = Bare(e) => x = e
        BY <1>1, ReviewValues
      <3>. QED BY <2>1, <3>1, <3>2 DEF Lapsed
    <2>3. Bare(e) \in Lapsed /\ Bare(e).rule \in Review!RulesOf(Open)
      <3>1. e.rule \in RulesOf(pending) /\ Bare(e).rule = e.rule
        BY <1>3 DEF Forget, ReviewInv, Inductive, ForgetInv, Bare
      <3>. QED BY <1>1, <3>1, ReviewValues DEF Lapsed
    <2>4. UNCHANGED <<Open, Lines, Dealt>>
      BY <1>1 DEF Open, Lines, Dealt
    <2>5. Review!Forget(Bare(e))
      BY <1>1, <2>2, <2>3, <2>4 DEF Review!Forget, Open, Lapsed, Lines, Dealt
    <2>. QED BY <2>3, <2>5 DEF Review!Next, Lapsed
  <1>. QED BY <1>1, <1>2, <1>3

\* Everything else is none of the review's business.
LEMMA ReviewStep == ReviewInv /\ [Next]_vars => [Review!Next]_Review!vars
  <1>. SUFFICES ASSUME ReviewInv, [Next]_vars PROVE Review!Next \/ UNCHANGED Review!vars
    OBVIOUS
  <1>1. CASE UNCHANGED vars \/ Tick
    BY <1>1, ReviewStutters DEF vars, Tick, queue, overflow, Dealt
  <1>2. ASSUME NEW p \in Procs, Step(p) \/ Crash(p) PROVE Review!Next \/ UNCHANGED Review!vars
    <2>1. CASE \/ BeginTask(p) \/ StartExpiry(p) \/ Infer(p) \/ List(p) \/ Judge(p)
               \/ HeldRequeue(p) \/ Load(p) \/ Crash(p)
      BY <2>1, ReviewStutters DEF BeginTask, StartExpiry, Infer, List, Judge, HeldRequeue, Load,
         Crash, queue, overflow, Dealt
    <2>2. CASE Reconcile(p)
      BY <2>2, ReviewStutters DEF Reconcile, queue, Dealt
    <2>3. CASE Register(p) \/ DropExpired(p)
      BY <2>3, ReviewRegister, ReviewDrop
    <2>4. CASE Record(p) \/ RequeueHeld(p) \/ Dispose(p)
      BY <2>4, ReviewRecord, ReviewRequeue, ReviewDispose
    <2>5. CASE Archive(p) \/ Replace(p)
      BY <2>5, ReviewArchive, ReviewReplace
    <2>6. CASE RequeueExpired(p) \/ Forget(p)
      BY <2>6, ReviewReopen, ReviewForget
    <2>. QED BY <1>2, <2>1, <2>2, <2>3, <2>4, <2>5, <2>6 DEF Step
  <1>. QED BY <1>1, <1>2 DEF Next

\* Workers and commands with a lock and two files per transition, each of which may die
\* between the files, implement the review: one transition at a time, no bullet leaves
\* the queue before it is on record, and no line of the overflow enters it twice.
THEOREM ImplementsReview == Spec => ReviewSpec
  BY AlwaysReview, ReviewInit, ReviewStep, PTL DEF Spec, ReviewSpec, Review!Spec
=============================================================================
