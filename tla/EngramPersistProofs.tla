------------------------- MODULE EngramPersistProofs -------------------------
(***************************************************************************)
(* Theorems about EngramPersist, for every number of runs, every length of *)
(* the journals and every limit: its types, that the cursor never passes   *)
(* over an entry, that the sidecar only takes entries that used up their   *)
(* own attempts, that runs which do not overlap keep every count and save   *)
(* no entry twice, and that the runs implement EngramMirror.                *)
(***************************************************************************)
EXTENDS EngramPersist, TLAPS

-----------------------------------------------------------------------------
(* Constants and operators. *)

\* There are two kinds, and the one after a kind is a kind or the end.
LEMMA KindFacts ==
    /\ Kinds = {"decision", "failure"}
    /\ \A k \in Kinds : KindAfter(k) # "end" => KindAfter(k) \in Kinds
BY DEF Kinds, KindAfter

\* The initial values of the offsets and of the counts have their types.
LEMMA OffsetFacts ==
    /\ Offsets \subseteq Nat
    /\ Lines \subseteq Offsets
    /\ 0 \in Offsets
    /\ ZeroOffsets \in [Kinds -> Offsets]
    /\ NoRetry \in Retry
    /\ NoRetries \in [Kinds -> Retry]
BY BoundsAssumption DEF Offsets, Lines, ZeroOffsets, NoRetry, NoRetries, Retry

\* The adopted offset is one of the profiles' and at least each of them.
LEMMA AdoptedFacts ==
    /\ Adopted \in [Kinds -> Offsets]
    /\ OldCursors # {} =>
          \A k \in Kinds : \E c \in OldCursors :
              Adopted[k] = c[k] /\ \A d \in OldCursors : d[k] <= Adopted[k]
<1>1. ASSUME OldCursors # {}, NEW k \in Kinds
      PROVE  /\ Adopted[k] \in Offsets
             /\ \E c \in OldCursors : Adopted[k] = c[k]
             /\ \A d \in OldCursors : d[k] <= Adopted[k]
  <2> DEFINE P(n) == /\ \E c \in OldCursors : n = c[k]
                     /\ \A c \in OldCursors : c[k] <= n
  <2>1. PICK c \in OldCursors : \A d \in OldCursors : d[k] <= c[k]
    BY <1>1, CursorsAssumption
  <2>2. c[k] \in Offsets /\ P(c[k])
    BY <2>1, CursorsAssumption
  <2>3. Adopted[k] = CHOOSE n \in Offsets : P(n)
    BY <1>1 DEF Adopted
  <2>4. Adopted[k] \in Offsets /\ P(Adopted[k])
    <3> HIDE DEF P
    <3> QED BY <2>2, <2>3
  <2> QED BY <2>4
<1>2. ASSUME OldCursors = {}, NEW k \in Kinds
      PROVE  Adopted[k] \in Offsets
  BY <1>2, CursorsAssumption DEF Adopted
<1>3. Adopted = [k \in Kinds |-> Adopted[k]]
  BY DEF Adopted
<1>4. \A k \in Kinds : Adopted[k] \in Offsets
  BY <1>1, <1>2
<1> QED BY <1>1, <1>3, <1>4

-----------------------------------------------------------------------------
(* Types. *)

\* The type invariant holds before the first run.
LEMMA InitTypeInv == Init => TypeInv
<1> SUFFICES ASSUME Init PROVE TypeInv
  OBVIOUS
<1> USE BoundsAssumption, OffsetFacts DEF Init
<1>1. journal \in [Kinds -> Seq(LineClasses)] /\ \A k \in Kinds : Len(journal[k]) <= MaxLines
  BY DEF LineClasses, Offsets
<1>2. stored \in [Kinds -> [Lines -> 0 .. 2]]
  OBVIOUS
<1>3. exits \in [Kinds -> [Lines -> 0 .. MaxAttempts]]
  OBVIOUS
<1>4. kind \in [Runs -> Kinds]
  BY DEF Kinds
<1> QED BY <1>1, <1>2, <1>3, <1>4 DEF TypeInv, TypeOK, PendingLine, TailFits

\* The part of TypeOK about the locals of the runs.
LocalsOK ==
    /\ pc \in [Runs -> {"idle", "adopt", "adopted", "retries", "open", "read", "save",
                        "saved", "exited"}]
    /\ mem \in [Runs -> [Kinds -> Offsets]]
    /\ memRetries \in [Runs -> [Kinds -> Retry]]
    /\ kind \in [Runs -> Kinds]
    /\ offset \in [Runs -> Offsets]
    /\ attempted \in [Runs -> Nat]

FileOK ==
    /\ present \in BOOLEAN
    /\ cursor \in [Kinds -> Offsets]
    /\ retries \in [Kinds -> Retry]

\* Nothing of another run changes.
OthersUnchanged(r) ==
    \A q \in Runs \ {r} :
        /\ pc'[q] = pc[q]
        /\ kind'[q] = kind[q]
        /\ offset'[q] = offset[q]
        /\ mem'[q] = mem[q]
        /\ memRetries'[q] = memRetries[q]

\* A write of the cursor file, whether it succeeds or not, keeps its type.
LEMMA SaveCursorType ==
    ASSUME FileOK, NEW offsets \in [Kinds -> Offsets], NEW tries \in [Kinds -> Retry],
           SaveCursor(offsets, tries)
    PROVE  FileOK'
BY DEF FileOK, SaveCursor, cursorFile

\* A run that ends keeps the types of the locals.
LEMMA ExitType ==
    ASSUME LocalsOK, NEW r \in Runs, Exit(r)
    PROVE  /\ LocalsOK'
           /\ OthersUnchanged(r)
           /\ pc'[r] = "idle" /\ offset'[r] = 0
           /\ mem'[r] = ZeroOffsets /\ memRetries'[r] = NoRetries
BY OffsetFacts, KindFacts DEF LocalsOK, Exit, Goto, OthersUnchanged

\* So does one that goes on to the next kind.
LEMMA LeaveKindType ==
    ASSUME LocalsOK, NEW r \in Runs,
           NEW m \in [Runs -> [Kinds -> Offsets]], NEW t \in [Runs -> [Kinds -> Retry]],
           \A q \in Runs \ {r} : m[q] = mem[q] /\ t[q] = memRetries[q],
           LeaveKind(r, m, t)
    PROVE  /\ LocalsOK'
           /\ OthersUnchanged(r)
           /\ pc'[r] \in {"idle", "open"} /\ offset'[r] = 0
           /\ mem'[r] \in {m[r], ZeroOffsets} /\ memRetries'[r] \in {t[r], NoRetries}
<1>1. CASE KindAfter(kind[r]) = "end"
  BY <1>1, ExitType DEF LeaveKind
<1>2. CASE KindAfter(kind[r]) # "end"
  <2>1. KindAfter(kind[r]) \in Kinds
    BY <1>2, KindFacts DEF LocalsOK
  <2> QED BY <1>2, <2>1, OffsetFacts DEF LeaveKind, LocalsOK, Goto, OthersUnchanged
<1> QED BY <1>1, <1>2

\* A line beyond the position of a run is one of the bounded lines.
LEMMA NextLineType ==
    ASSUME TypeOK, NEW r \in Runs, HasLine(r)
    PROVE  /\ NextLine(r) \in Lines
           /\ NextLine(r) \in 1 .. Len(journal[kind[r]])
           /\ LineClass(r) \in LineClasses
<1>1. offset[r] \in Nat /\ kind[r] \in Kinds /\ MaxLines \in Nat
  BY OffsetFacts, BoundsAssumption DEF TypeOK
<1>2. journal[kind[r]] \in Seq(LineClasses) /\ Len(journal[kind[r]]) <= MaxLines
  BY <1>1 DEF TypeOK
<1>3. Len(journal[kind[r]]) \in Nat
  BY <1>2
<1>4. NextLine(r) \in 1 .. Len(journal[kind[r]]) /\ NextLine(r) \in Lines
  BY <1>1, <1>2, <1>3 DEF HasLine, NextLine, Lines
<1> QED BY <1>2, <1>4 DEF LineClass

\* Moving past a line keeps the types of the locals and of the cursor file.
LEMMA AdvanceType ==
    ASSUME TypeOK, NEW r \in Runs, HasLine(r), NEW tries \in [Kinds -> Retry],
           Advance(r, tries), UNCHANGED <<kind, attempted>>
    PROVE  /\ LocalsOK' /\ FileOK'
           /\ OthersUnchanged(r)
           /\ pc'[r] = "read" /\ offset'[r] = NextLine(r) /\ memRetries'[r] = tries
           /\ mem'[r] = [mem[r] EXCEPT ![kind[r]] = NextLine(r)]
<1> DEFINE offsets == [mem[r] EXCEPT ![kind[r]] = NextLine(r)]
<1>1. NextLine(r) \in Offsets
  BY NextLineType, OffsetFacts
<1>2. offsets \in [Kinds -> Offsets]
  BY <1>1 DEF TypeOK
<1>3. SaveCursor(offsets, tries)
  BY DEF Advance
<1>4. FileOK'
  BY <1>2, <1>3, SaveCursorType DEF TypeOK, FileOK
<1>5. /\ offset' = [offset EXCEPT ![r] = NextLine(r)]
      /\ mem' = [mem EXCEPT ![r] = offsets]
      /\ memRetries' = [memRetries EXCEPT ![r] = tries]
      /\ pc' = [pc EXCEPT ![r] = "read"]
  BY DEF Advance, Goto
<1> HIDE DEF offsets
<1>6. LocalsOK' /\ OthersUnchanged(r)
  BY <1>1, <1>2, <1>5 DEF LocalsOK, TypeOK, OthersUnchanged
<1>7. mem'[r] = offsets /\ pc'[r] = "read" /\ offset'[r] = NextLine(r) /\ memRetries'[r] = tries
  BY <1>5 DEF TypeOK
<1> QED BY <1>4, <1>6, <1>7 DEF offsets

\* The attempts of a run are a positive number.
LEMMA AttemptsType ==
    ASSUME TypeOK, NEW r \in Runs
    PROVE  /\ Attempts(r) \in 1 .. MaxAttempts
           /\ memRetries[r][kind[r]] \in Retry
BY BoundsAssumption DEF TypeOK, Attempts, Retry

\* A save keeps the type of the database.
LEMMA StoreType ==
    ASSUME TypeOK, NEW r \in Runs, HasLine(r), Store(r)
    PROVE  stored' \in [Kinds -> [Lines -> 0 .. 2]]
<1>1. kind[r] \in Kinds /\ NextLine(r) \in Lines
  BY NextLineType DEF TypeOK
<1>2. stored[kind[r]][NextLine(r)] \in 0 .. 2
  BY <1>1 DEF TypeOK
<1> QED BY <1>1, <1>2 DEF Store, TypeOK

\* The journals are append-only.
JournalsGrow ==
    \A k \in Kinds :
        /\ Len(journal[k]) <= Len(journal'[k])
        /\ \A i \in 1 .. Len(journal[k]) : journal'[k][i] = journal[k][i]

\* The writer of the journals keeps the types and the bound on the lines.
LEMMA WriterType ==
    ASSUME TypeOK, TailFits, NEW k \in Kinds, Writer(k)
    PROVE  /\ journal' \in [Kinds -> Seq(LineClasses)]
           /\ \A l \in Kinds : Len(journal'[l]) <= MaxLines
           /\ tail' \in [Kinds -> {"none", "open", "joined", "torn"}]
           /\ TailFits'
           /\ JournalsGrow
           /\ UNCHANGED <<sinks, cursorFile, pc, locals>>
<1>1. CASE BeginLine(k)
  BY <1>1 DEF BeginLine, TypeOK, TailFits, JournalsGrow
<1>2. CASE TearLine(k)
  BY <1>2 DEF TearLine, TypeOK, TailFits, JournalsGrow
<1>3. CASE \E class \in LineClasses : EndLine(k, class)
  <2>1. PICK class \in LineClasses : EndLine(k, class)
    BY <1>3
  <2>2. /\ journal' = [journal EXCEPT ![k] = Append(journal[k], class)]
        /\ tail' = [tail EXCEPT ![k] = "none"]
        /\ UNCHANGED <<sinks, cursorFile, pc, locals>>
        /\ Len(journal[k]) < MaxLines
    BY <2>1 DEF EndLine, TailFits
  <2>3. journal[k] \in Seq(LineClasses) /\ MaxLines \in Nat
    BY BoundsAssumption DEF TypeOK
  <2>4. /\ Append(journal[k], class) \in Seq(LineClasses)
        /\ Len(Append(journal[k], class)) = Len(journal[k]) + 1
        /\ Len(journal[k]) \in Nat
        /\ \A i \in 1 .. Len(journal[k]) : Append(journal[k], class)[i] = journal[k][i]
    BY <2>3
  <2>5. journal' \in [Kinds -> Seq(LineClasses)] /\ \A l \in Kinds : Len(journal'[l]) <= MaxLines
    BY <2>2, <2>3, <2>4 DEF TypeOK
  <2>6. JournalsGrow
    BY <2>2, <2>4 DEF TypeOK, JournalsGrow
  <2>7. tail' \in [Kinds -> {"none", "open", "joined", "torn"}] /\ TailFits'
    BY <2>2 DEF TypeOK, TailFits
  <2> QED BY <2>2, <2>5, <2>6, <2>7
<1> QED BY <1>1, <1>2, <1>3 DEF Writer

\* A run that leaves the other runs alone, and stands at a line again only if
\* the line is decodable, keeps PendingLine.
LEMMA PendingKept ==
    ASSUME TypeOK, PendingLine, NEW r \in Runs, OthersUnchanged(r), UNCHANGED journal,
           pc'[r] \in {"save", "saved", "exited"} => (HasLine(r) /\ LineClass(r) # "malformed")'
    PROVE  PendingLine'
BY DEF PendingLine, OthersUnchanged, HasLine, LineClass, NextLine

\* The journals growing leave every run at the line it was at.
LEMMA PendingKeptByWriter ==
    ASSUME TypeOK, PendingLine, JournalsGrow, UNCHANGED <<pc, locals>>,
           journal' \in [Kinds -> Seq(LineClasses)]
    PROVE  PendingLine'
<1> SUFFICES ASSUME NEW q \in Runs, pc[q] \in {"save", "saved", "exited"}
             PROVE  (HasLine(q) /\ LineClass(q) # "malformed")'
  BY DEF PendingLine
<1>1. HasLine(q) /\ LineClass(q) # "malformed"
  BY DEF PendingLine
<1>2. NextLine(q) \in 1 .. Len(journal[kind[q]]) /\ kind[q] \in Kinds /\ offset[q] \in Nat
  BY <1>1, NextLineType, OffsetFacts DEF TypeOK
<1>3. Len(journal'[kind[q]]) \in Nat /\ Len(journal[kind[q]]) \in Nat
  BY <1>2 DEF TypeOK
<1>4. /\ Len(journal[kind[q]]) <= Len(journal'[kind[q]])
      /\ journal'[kind[q]][NextLine(q)] = journal[kind[q]][NextLine(q)]
  BY <1>2 DEF JournalsGrow
<1> QED BY <1>1, <1>2, <1>3, <1>4 DEF HasLine, LineClass, NextLine, locals

\* One case per action of a run.
LEMMA StepShape ==
    ASSUME TypeInv, NEW r \in Runs, Step(r) \/ Crash(r)
    PROVE  /\ LocalsOK' /\ FileOK' /\ OthersUnchanged(r)
           /\ UNCHANGED journals
           /\ stored' \in [Kinds -> [Lines -> 0 .. 2]]
           /\ quarantine' \in [Kinds -> SUBSET Lines]
           /\ exits' \in [Kinds -> [Lines -> 0 .. MaxAttempts]]
           /\ pc'[r] \in {"save", "saved", "exited"} =>
                  (HasLine(r) /\ LineClass(r) # "malformed")'
<1> USE DEF TypeInv
<1>1. TypeOK /\ LocalsOK /\ FileOK /\ PendingLine /\ TailFits
  BY DEF TypeOK, LocalsOK, FileOK
<1>3. CASE Load(r)
  BY <1>1, <1>3 DEF Load, LocalsOK, FileOK, TypeOK, Goto, OthersUnchanged, cursorFile, sinks
<1>4. CASE Adopt(r)
  BY <1>1, <1>4, AdoptedFacts
  DEF Adopt, LocalsOK, FileOK, TypeOK, Goto, OthersUnchanged, cursorFile, sinks
<1>20. CASE WriteThrough(r)
  <2>1. SaveCursor(mem[r], NoRetries) /\ mem[r] \in [Kinds -> Offsets]
    BY <1>1, <1>20 DEF WriteThrough, LocalsOK
  <2>2. FileOK'
    BY <1>1, <2>1, SaveCursorType, OffsetFacts
  <2> QED
    BY <1>1, <1>20, <2>2
    DEF WriteThrough, LocalsOK, TypeOK, Goto, OthersUnchanged, locals, sinks
<1>5. CASE LoadRetries(r)
  BY <1>1, <1>5 DEF LoadRetries, LocalsOK, FileOK, TypeOK, Goto, OthersUnchanged, cursorFile, sinks
<1>6. CASE Open(r)
  <2>1. mem[r][kind[r]] \in Offsets /\ 0 \in Offsets
    BY <1>1, OffsetFacts DEF LocalsOK
  <2> QED
    BY <1>1, <1>6, <2>1
    DEF Open, LocalsOK, FileOK, TypeOK, Goto, OthersUnchanged, cursorFile, sinks
<1>7. CASE StopReading(r)
  <2>1. LeaveKind(r, mem, memRetries)
    BY <1>7 DEF StopReading
  <2>2. LocalsOK' /\ OthersUnchanged(r) /\ pc'[r] \in {"idle", "open"}
    BY <1>1, <2>1, LeaveKindType DEF LocalsOK
  <2> QED
    BY <1>1, <1>7, <2>2 DEF StopReading, FileOK, TypeOK, cursorFile, sinks
<1>8. CASE SkipMalformed(r)
  <2>1. HasLine(r) /\ Advance(r, memRetries[r]) /\ UNCHANGED <<kind, attempted>>
    BY <1>8 DEF SkipMalformed
  <2>2. memRetries[r] \in [Kinds -> Retry]
    BY <1>1 DEF LocalsOK
  <2>3. LocalsOK' /\ FileOK' /\ OthersUnchanged(r) /\ pc'[r] = "read"
    BY <1>1, <2>1, <2>2, AdvanceType
  <2> QED BY <1>1, <1>8, <2>3 DEF SkipMalformed, TypeOK, sinks
<1>9. CASE BeginSave(r)
  <2>1. LocalsOK' /\ OthersUnchanged(r) /\ offset'[r] = offset[r] /\ kind'[r] = kind[r]
    BY <1>1, <1>9 DEF BeginSave, LocalsOK, Goto, OthersUnchanged
  <2> QED
    BY <1>1, <1>9, <2>1
    DEF BeginSave, FileOK, TypeOK, cursorFile, sinks, journals, HasLine, LineClass, NextLine
<1>10. CASE SaveOk(r)
  <2>1. HasLine(r) /\ LineClass(r) # "malformed"
    BY <1>1, <1>10 DEF SaveOk, PendingLine
  <2>2. stored' \in [Kinds -> [Lines -> 0 .. 2]]
    BY <1>1, <1>10, <2>1, StoreType DEF SaveOk
  <2> QED
    BY <1>1, <1>10, <2>1, <2>2
    DEF SaveOk, Goto, FileOK, LocalsOK, TypeOK, OthersUnchanged, cursorFile, locals, journals,
        HasLine, LineClass, NextLine
<1>11. CASE SaveExit(r)
  <2>1. HasLine(r) /\ LineClass(r) # "malformed"
    BY <1>1, <1>11 DEF SaveExit, PendingLine
  <2>2. kind[r] \in Kinds /\ NextLine(r) \in Lines /\ exits[kind[r]][NextLine(r)] \in 0 .. MaxAttempts
    BY <1>1, <2>1, NextLineType DEF TypeOK
  <2>3. exits' \in [Kinds -> [Lines -> 0 .. MaxAttempts]]
    BY <1>1, <1>11, <2>2, BoundsAssumption DEF SaveExit, TypeOK
  <2> QED
    BY <1>1, <1>11, <2>1, <2>3
    DEF SaveExit, Goto, FileOK, LocalsOK, TypeOK, OthersUnchanged, cursorFile, locals, journals,
        HasLine, LineClass, NextLine
<1>12. CASE SaveTimeout(r)
  <2>1. HasLine(r) /\ LeaveKind(r, mem, memRetries)
    BY <1>1, <1>12 DEF SaveTimeout, PendingLine
  <2>2. LocalsOK' /\ OthersUnchanged(r) /\ pc'[r] \in {"idle", "open"}
    BY <1>1, <2>1, LeaveKindType DEF LocalsOK
  <2>3. stored' \in [Kinds -> [Lines -> 0 .. 2]]
    BY <1>1, <1>12, <2>1, StoreType DEF SaveTimeout, TypeOK
  <2> QED
    BY <1>1, <1>12, <2>2, <2>3 DEF SaveTimeout, FileOK, TypeOK, cursorFile
<1>13. CASE RecordSaved(r)
  <2> DEFINE tries == [memRetries[r] EXCEPT ![kind[r]] = NoRetry]
  <2>1. HasLine(r) /\ Advance(r, tries) /\ UNCHANGED <<kind, attempted>>
    BY <1>1, <1>13 DEF RecordSaved, PendingLine
  <2>2. tries \in [Kinds -> Retry]
    BY <1>1, OffsetFacts DEF LocalsOK
  <2>3. LocalsOK' /\ FileOK' /\ OthersUnchanged(r) /\ pc'[r] = "read"
    BY <1>1, <2>1, <2>2, AdvanceType
  <2> QED BY <1>1, <1>13, <2>3 DEF RecordSaved, TypeOK, sinks
<1>14. CASE RecordFailed(r)
  <2> DEFINE tries == [memRetries[r] EXCEPT ![kind[r]] =
                          [offset |-> offset[r], attempts |-> Attempts(r)]]
  <2>1. /\ Attempts(r) < MaxAttempts
        /\ SaveCursor(mem[r], tries)
        /\ LeaveKind(r, mem, [memRetries EXCEPT ![r] = tries])
    BY <1>14 DEF RecordFailed
  <2>2. tries \in [Kinds -> Retry]
    BY <1>1, <2>1, AttemptsType, BoundsAssumption DEF LocalsOK, Retry
  <2>3. [memRetries EXCEPT ![r] = tries] \in [Runs -> [Kinds -> Retry]]
    BY <1>1, <2>2 DEF LocalsOK
  <2> HIDE DEF tries
  <2>4. LocalsOK' /\ OthersUnchanged(r) /\ pc'[r] \in {"idle", "open"}
    BY <1>1, <2>1, <2>3, LeaveKindType DEF LocalsOK
  <2>5. FileOK'
    BY <1>1, <2>1, <2>2, SaveCursorType DEF LocalsOK
  <2> QED BY <1>1, <1>14, <2>4, <2>5 DEF RecordFailed, TypeOK, sinks
<1>15. CASE Quarantine(r)
  <2>1. HasLine(r) /\ LineClass(r) # "malformed"
    BY <1>1, <1>15 DEF Quarantine, PendingLine
  <2>2. NextLine(r) \in Lines /\ kind[r] \in Kinds
    BY <1>1, <2>1, NextLineType DEF LocalsOK
  <2>3. quarantine' \in [Kinds -> SUBSET Lines]
    <3>1. quarantine[kind[r]] \cup {NextLine(r)} \in SUBSET Lines
      BY <2>2 DEF TypeOK
    <3> QED BY <1>15, <2>2, <3>1 DEF Quarantine, TypeOK
  <2> QED
    BY <1>1, <1>15, <2>1, <2>3
    DEF Quarantine, Goto, FileOK, LocalsOK, TypeOK, OthersUnchanged, cursorFile, locals, journals,
        HasLine, LineClass, NextLine
<1>16. CASE Crash(r)
  <2>1. LocalsOK' /\ OthersUnchanged(r) /\ pc'[r] = "idle"
    BY <1>1, <1>16, ExitType DEF Crash
  <2> QED BY <1>1, <1>16, <2>1 DEF Crash, FileOK, TypeOK, cursorFile, sinks
<1> QED
  BY <1>3, <1>4, <1>5, <1>6, <1>7, <1>8, <1>9, <1>10, <1>11, <1>12, <1>13, <1>14, <1>15, <1>16,
     <1>20
  DEF Step

\* Every step of a run keeps the type invariant.
LEMMA StepTypeInv ==
    ASSUME TypeInv, NEW r \in Runs, Step(r) \/ Crash(r)
    PROVE  TypeInv'
<1>1. TypeOK /\ PendingLine /\ TailFits
  BY DEF TypeInv
<1>2. TypeOK'
  BY <1>1, StepShape DEF TypeOK, LocalsOK, FileOK, journals
<1>3. PendingLine'
  BY <1>1, StepShape, PendingKept DEF journals
<1>4. TailFits'
  BY <1>1, StepShape DEF TailFits, journals
<1> QED BY <1>2, <1>3, <1>4 DEF TypeInv

\* Every step of the writer keeps it.
LEMMA WriterTypeInv ==
    ASSUME TypeInv, NEW k \in Kinds, Writer(k)
    PROVE  TypeInv'
<1>1. /\ journal' \in [Kinds -> Seq(LineClasses)]
      /\ \A l \in Kinds : Len(journal'[l]) <= MaxLines
      /\ tail' \in [Kinds -> {"none", "open", "joined", "torn"}]
      /\ TailFits' /\ JournalsGrow /\ UNCHANGED <<sinks, cursorFile, pc, locals>>
  BY WriterType DEF TypeInv
<1>2. PendingLine'
  BY <1>1, PendingKeptByWriter DEF TypeInv
<1>3. TypeOK'
  BY <1>1 DEF TypeInv, TypeOK, sinks, cursorFile, locals
<1> QED BY <1>1, <1>2, <1>3 DEF TypeInv

\* A stuttering step keeps it.
LEMMA StutterTypeInv == TypeInv /\ UNCHANGED vars => TypeInv'
BY DEF TypeInv, TypeOK, PendingLine, TailFits, HasLine, LineClass, NextLine,
       vars, journals, sinks, cursorFile, locals

\* So every step does.
LEMMA NextTypeInv == TypeInv /\ [Next]_vars => TypeInv'
BY StepTypeInv, WriterTypeInv, StutterTypeInv, BoundsAssumption DEF Next

\* Every reachable state has the types of TypeOK; a run between `engram save`
\* and its record stands at a complete, decodable line.
THEOREM TypeCorrect == Spec => []TypeInv
<1>1. Init => TypeInv
  BY InitTypeInv
<1>2. TypeInv /\ [Next]_vars => TypeInv'
  BY NextTypeInv
<1> QED BY <1>1, <1>2, PTL DEF Spec

\* Every reachable state has the types of TypeOK, for any runs and bounds.
THEOREM TypeOKAlways == Spec => []TypeOK
<1>1. TypeInv => TypeOK
  BY DEF TypeInv
<1> QED BY <1>1, TypeCorrect, PTL

-----------------------------------------------------------------------------
(* No entry is skipped. *)

\* What is in the database or the sidecar after the step.
MirroredAfter(k) == {i \in Lines : stored'[k][i] > 0} \cup quarantine'[k]

MirrorsGrow == \A k \in Kinds : Mirrored(k) \subseteq MirroredAfter(k)

\* After the step, everything up to line n of the journal is settled.
SettledAfter(k, n) ==
    \A i \in 1 .. n : /\ i <= Len(journal'[k])
                      /\ i \in MirroredAfter(k) \/ journal'[k][i] = "malformed"

\* What is settled stays settled while the journals and the mirror grow.
LEMMA SettledStable ==
    ASSUME TypeOK, JournalsGrow, MirrorsGrow,
           journal' \in [Kinds -> Seq(LineClasses)],
           NEW k \in Kinds, NEW n \in Offsets, SettledUpTo(k, n)
    PROVE  SettledAfter(k, n)
<1>1. Len(journal[k]) \in Nat /\ Len(journal'[k]) \in Nat /\ n \in Nat
  BY OffsetFacts DEF TypeOK
<1>2. ASSUME NEW i \in 1 .. n
      PROVE  i <= Len(journal'[k]) /\ (i \in MirroredAfter(k) \/ journal'[k][i] = "malformed")
  <2>1. i <= Len(journal[k]) /\ (i \in Mirrored(k) \/ journal[k][i] = "malformed")
    BY DEF SettledUpTo, Settled
  <2>2. i \in 1 .. Len(journal[k])
    BY <1>1, <2>1
  <2> QED BY <1>1, <2>1, <2>2 DEF JournalsGrow, MirrorsGrow
<1> QED BY <1>2 DEF SettledAfter

\* What a step has to establish for the run that takes it.
RunSettledAfter(r) ==
    /\ \A k \in Kinds : SettledAfter(k, cursor'[k])
    /\ \A k \in Kinds : SettledAfter(k, mem'[r][k])
    /\ SettledAfter(kind'[r], offset'[r])
    /\ pc'[r] = "saved" => offset'[r] + 1 \in MirroredAfter(kind'[r])

\* A step of one run keeps the invariant when it keeps it for that run.
LEMMA SkipKept ==
    ASSUME SkipInv, JournalsGrow, MirrorsGrow, NEW r \in Runs, OthersUnchanged(r),
           TypeOK', RunSettledAfter(r)
    PROVE  NothingSkipped' /\ OffsetsSettled'
<1>1. journal' \in [Kinds -> Seq(LineClasses)] /\ TypeOK
  BY DEF TypeOK, SkipInv, TypeInv
<1>2. NothingSkipped'
  BY DEF NothingSkipped, RunSettledAfter, SettledAfter, Settled, Mirrored, MirroredAfter
<1>3. \A k \in Kinds : SettledAfter(k, Adopted[k])
  <2>1. \A k \in Kinds : SettledUpTo(k, Adopted[k]) /\ Adopted[k] \in Offsets
    BY AdoptedFacts DEF SkipInv, OffsetsSettled
  <2> QED BY <1>1, <2>1, SettledStable
<1>4. ASSUME NEW q \in Runs
      PROVE  /\ \A k \in Kinds : SettledAfter(k, mem'[q][k])
             /\ SettledAfter(kind'[q], offset'[q])
             /\ pc'[q] = "saved" => offset'[q] + 1 \in MirroredAfter(kind'[q])
  <2>1. CASE q = r
    BY <2>1 DEF RunSettledAfter
  <2>2. CASE q # r
    <3>1. /\ \A k \in Kinds : SettledUpTo(k, mem[q][k]) /\ mem[q][k] \in Offsets
          /\ SettledUpTo(kind[q], offset[q]) /\ kind[q] \in Kinds /\ offset[q] \in Offsets
          /\ pc[q] = "saved" => offset[q] + 1 \in Mirrored(kind[q])
      BY <1>1 DEF SkipInv, OffsetsSettled, TypeOK, NextLine
    <3>2. /\ pc'[q] = pc[q] /\ kind'[q] = kind[q] /\ offset'[q] = offset[q] /\ mem'[q] = mem[q]
      BY <2>2 DEF OthersUnchanged
    <3>3. /\ \A k \in Kinds : SettledAfter(k, mem[q][k])
          /\ SettledAfter(kind[q], offset[q])
      BY <1>1, <3>1, SettledStable
    <3>4. pc'[q] = "saved" => offset'[q] + 1 \in MirroredAfter(kind'[q])
      BY <3>1, <3>2 DEF MirrorsGrow
    <3> QED BY <3>2, <3>3, <3>4
  <2> QED BY <2>1, <2>2
<1>5. OffsetsSettled'
  <2>1. \A k \in Kinds : SettledUpTo(k, Adopted[k])'
    BY <1>3 DEF SettledAfter, SettledUpTo, Settled, Mirrored, MirroredAfter, Adopted
  <2>2. \A q \in Runs : \A k \in Kinds : SettledUpTo(k, mem[q][k])'
    BY <1>4 DEF SettledAfter, SettledUpTo, Settled, Mirrored, MirroredAfter
  <2>3. \A q \in Runs : SettledUpTo(kind[q], offset[q])'
    BY <1>4 DEF SettledAfter, SettledUpTo, Settled, Mirrored, MirroredAfter
  <2>4. \A q \in Runs : (pc[q] = "saved" => NextLine(q) \in Mirrored(kind[q]))'
    BY <1>4 DEF NextLine, Mirrored, MirroredAfter
  <2> QED BY <2>1, <2>2, <2>3, <2>4 DEF OffsetsSettled
<1> QED BY <1>2, <1>5

\* The offsets known before the step are settled after it.
LEMMA KnownOffsetsSettled ==
    ASSUME SkipInv, JournalsGrow, MirrorsGrow, NEW r \in Runs,
           journal' \in [Kinds -> Seq(LineClasses)]
    PROVE  /\ \A k \in Kinds : SettledAfter(k, cursor[k])
           /\ \A k \in Kinds : SettledAfter(k, mem[r][k])
           /\ \A k \in Kinds : SettledAfter(k, Adopted[k])
           /\ \A k \in Kinds : SettledAfter(k, 0)
           /\ SettledAfter(kind[r], offset[r])
<1>1. TypeOK
  BY DEF SkipInv, TypeInv
<1>2. /\ \A k \in Kinds : SettledUpTo(k, cursor[k]) /\ cursor[k] \in Offsets
      /\ \A k \in Kinds : SettledUpTo(k, mem[r][k]) /\ mem[r][k] \in Offsets
      /\ \A k \in Kinds : SettledUpTo(k, Adopted[k]) /\ Adopted[k] \in Offsets
      /\ SettledUpTo(kind[r], offset[r]) /\ offset[r] \in Offsets /\ kind[r] \in Kinds
  BY <1>1, AdoptedFacts DEF SkipInv, OffsetsSettled, NothingSkipped, SettledUpTo, TypeOK
<1>3. \A k \in Kinds : SettledUpTo(k, 0)
  BY DEF SettledUpTo
<1> QED BY <1>1, <1>2, <1>3, OffsetFacts, SettledStable

\* Store only adds the line, and only when its save exited 0.
LEMMA StoreGrows ==
    ASSUME TypeOK, NEW r \in Runs, HasLine(r), Store(r), UNCHANGED quarantine
    PROVE  MirrorsGrow /\ NextLine(r) \in MirroredAfter(kind[r])
<1>1. kind[r] \in Kinds /\ NextLine(r) \in Lines
  BY NextLineType DEF TypeOK
<1>2. \A k \in Kinds : \A i \in Lines : stored[k][i] \in 0 .. 2
  BY DEF TypeOK
<1> DEFINE before == stored[kind[r]][NextLine(r)]
           copies == IF before < 2 THEN before + 1 ELSE before
<1>3. /\ \A k \in Kinds : \A i \in Lines : stored[k][i] > 0 => stored'[k][i] > 0
      /\ stored'[kind[r]][NextLine(r)] > 0
  <2>1. stored' = [stored EXCEPT ![kind[r]] = [stored[kind[r]] EXCEPT ![NextLine(r)] = copies]]
    BY DEF Store
  <2>2. copies > 0
    BY <1>1, <1>2
  <2>3. stored \in [Kinds -> [Lines -> 0 .. 2]]
    BY DEF TypeOK
  <2> HIDE DEF copies
  <2> QED BY <1>1, <2>1, <2>2, <2>3
<1> QED BY <1>1, <1>3 DEF MirrorsGrow, Mirrored, MirroredAfter

\* Steps that touch neither the database nor the sidecar lose no mirrored line.
LEMMA MirrorsSame == UNCHANGED <<stored, quarantine>> => MirrorsGrow
BY DEF MirrorsGrow, Mirrored, MirroredAfter

\* The database and the sidecar only gain lines; a save that exited 0, or a
\* write of the sidecar, adds the line the run stands at.
LEMMA StepMirrors ==
    ASSUME TypeInv, SidecarReliable, NEW r \in Runs, Step(r) \/ Crash(r)
    PROVE  /\ MirrorsGrow
           /\ SaveOk(r) \/ Quarantine(r) => NextLine(r) \in MirroredAfter(kind[r])
<1>1. TypeOK /\ PendingLine
  BY DEF TypeInv
<1>2. CASE SaveOk(r)
  <2>1. HasLine(r) /\ Store(r) /\ UNCHANGED quarantine
    BY <1>1, <1>2 DEF SaveOk, PendingLine
  <2> QED BY <1>1, <2>1, StoreGrows
<1>3. CASE SaveTimeout(r)
  <2>1. HasLine(r) /\ UNCHANGED quarantine
    BY <1>1, <1>3 DEF SaveTimeout, PendingLine
  <2>2. MirrorsGrow
    BY <1>1, <1>3, <2>1, StoreGrows, MirrorsSame DEF SaveTimeout
  <2>3. ~SaveOk(r) /\ ~Quarantine(r)
    BY <1>1, <1>3, LeaveKindType DEF SaveTimeout, SaveOk, Quarantine, Goto, TypeOK, LocalsOK
  <2> QED BY <2>2, <2>3
<1>4. CASE Quarantine(r)
  <2>1. /\ HasLine(r) /\ UNCHANGED stored
        /\ quarantine' = [quarantine EXCEPT ![kind[r]] = @ \cup {NextLine(r)}]
    BY <1>1, <1>4 DEF Quarantine, PendingLine, SidecarReliable
  <2>2. kind[r] \in Kinds
    BY <1>1 DEF TypeOK
  <2> QED BY <1>1, <2>1, <2>2 DEF MirrorsGrow, Mirrored, MirroredAfter, TypeOK
<1>5. CASE ~SaveOk(r) /\ ~SaveTimeout(r) /\ ~Quarantine(r)
  <2>1. UNCHANGED <<stored, quarantine>>
    BY <1>5 DEF Step, Load, Adopt, WriteThrough, LoadRetries, Open, StopReading, SkipMalformed,
                BeginSave,
                SaveExit, RecordSaved, RecordFailed, Crash, sinks
  <2> QED BY <1>5, <2>1, MirrorsSame
<1> QED BY <1>2, <1>3, <1>4, <1>5

\* Moving the cursor past one settled line leaves nothing unsettled behind it.
LEMMA AdvanceSettled ==
    ASSUME SkipInv, MirrorsGrow, UNCHANGED journals, NEW r \in Runs, HasLine(r),
           NEW tries \in [Kinds -> Retry], Advance(r, tries), UNCHANGED <<kind, attempted>>,
           NextLine(r) \in MirroredAfter(kind[r]) \/ LineClass(r) = "malformed"
    PROVE  RunSettledAfter(r)
<1>1. TypeOK /\ JournalsGrow /\ journal' \in [Kinds -> Seq(LineClasses)] /\ journal' = journal
  <2>1. TypeOK /\ journal' = journal
    BY DEF SkipInv, TypeInv, journals
  <2>2. JournalsGrow
    <3>1. \A k \in Kinds : Len(journal[k]) \in Nat
      BY <2>1 DEF TypeOK
    <3> QED BY <2>1, <3>1 DEF JournalsGrow
  <2> QED BY <2>1, <2>2 DEF TypeOK
<1>2. /\ \A k \in Kinds : SettledAfter(k, cursor[k])
      /\ \A k \in Kinds : SettledAfter(k, mem[r][k])
      /\ SettledAfter(kind[r], offset[r])
  BY <1>1, KnownOffsetsSettled
<1>3. kind[r] \in Kinds /\ offset[r] \in Nat /\ mem[r] \in [Kinds -> Offsets] /\ kind' = kind
  BY <1>1, OffsetFacts DEF TypeOK
<1>4. NextLine(r) \in 1 .. Len(journal[kind[r]])
  BY <1>1, NextLineType
<1>5. SettledAfter(kind[r], NextLine(r))
  <2>1. Len(journal[kind[r]]) \in Nat
    BY <1>1, <1>3 DEF TypeOK
  <2>2. ASSUME NEW i \in 1 .. NextLine(r)
        PROVE  /\ i <= Len(journal'[kind[r]])
               /\ i \in MirroredAfter(kind[r]) \/ journal'[kind[r]][i] = "malformed"
    <3>1. CASE i \in 1 .. offset[r]
      BY <1>2, <3>1 DEF SettledAfter
    <3>2. CASE i = NextLine(r)
      BY <1>1, <1>4, <2>1, <3>2 DEF LineClass
    <3> QED BY <1>3, <3>1, <3>2 DEF NextLine
  <2> QED BY <2>2 DEF SettledAfter
<1> DEFINE offsets == [mem[r] EXCEPT ![kind[r]] = NextLine(r)]
<1>6. \A k \in Kinds : SettledAfter(k, offsets[k])
  BY <1>2, <1>3, <1>5
<1>7. cursor' = offsets \/ cursor' = cursor
  BY DEF Advance, SaveCursor, cursorFile
<1>8. mem'[r] = offsets /\ offset'[r] = NextLine(r) /\ pc'[r] = "read"
  BY <1>1, AdvanceType
<1> QED BY <1>2, <1>3, <1>5, <1>6, <1>7, <1>8 DEF RunSettledAfter

\* A run leaves a kind with the offsets it had, or with none.
LEMMA LeaveSettled ==
    ASSUME SkipInv, JournalsGrow, MirrorsGrow, journal' \in [Kinds -> Seq(LineClasses)],
           NEW r \in Runs, NEW t \in [Runs -> [Kinds -> Retry]],
           \A q \in Runs \ {r} : t[q] = memRetries[q],
           LeaveKind(r, mem, t),
           cursor' \in {cursor, mem[r]}
    PROVE  RunSettledAfter(r)
<1>1. TypeOK /\ LocalsOK
  BY DEF SkipInv, TypeInv, TypeOK, LocalsOK
<1>2. /\ LocalsOK'
      /\ pc'[r] \in {"idle", "open"} /\ offset'[r] = 0
      /\ mem'[r] \in {mem[r], ZeroOffsets}
  BY <1>1, LeaveKindType DEF LocalsOK
<1>3. /\ \A k \in Kinds : SettledAfter(k, cursor[k])
      /\ \A k \in Kinds : SettledAfter(k, mem[r][k])
      /\ \A k \in Kinds : SettledAfter(k, 0)
  BY KnownOffsetsSettled
<1>4. kind'[r] \in Kinds
  BY <1>2 DEF LocalsOK
<1> QED BY <1>2, <1>3, <1>4 DEF RunSettledAfter, ZeroOffsets

\* After its step no offset of the run is past a line that is not settled.
LEMMA StepRunSettled ==
    ASSUME SkipInv, SidecarReliable, NEW r \in Runs, Step(r) \/ Crash(r)
    PROVE  MirrorsGrow /\ JournalsGrow /\ RunSettledAfter(r)
<1>1. TypeInv /\ TypeOK /\ PendingLine /\ LocalsOK
  BY DEF SkipInv, TypeInv, TypeOK, LocalsOK
<1>2. /\ MirrorsGrow
      /\ SaveOk(r) \/ Quarantine(r) => NextLine(r) \in MirroredAfter(kind[r])
  BY <1>1, StepMirrors
<1>3. UNCHANGED journals
  BY <1>1, StepShape
<1>4. JournalsGrow /\ journal' \in [Kinds -> Seq(LineClasses)] /\ journal' = journal
  <2>1. \A k \in Kinds : Len(journal[k]) \in Nat
    BY <1>1 DEF TypeOK
  <2> QED BY <1>1, <1>3, <2>1 DEF journals, JournalsGrow, TypeOK
<1>5. /\ \A k \in Kinds : SettledAfter(k, cursor[k])
      /\ \A k \in Kinds : SettledAfter(k, mem[r][k])
      /\ \A k \in Kinds : SettledAfter(k, Adopted[k])
      /\ \A k \in Kinds : SettledAfter(k, 0)
      /\ SettledAfter(kind[r], offset[r])
  BY <1>2, <1>4, KnownOffsetsSettled
<1>6. kind[r] \in Kinds
  BY <1>1 DEF TypeOK
<1>7. CASE Load(r)
  <2>1. /\ cursor' = cursor /\ mem'[r] = cursor /\ kind' = kind /\ offset' = offset
        /\ pc'[r] = "adopt"
    BY <1>1, <1>7 DEF Load, Goto, cursorFile, TypeOK
  <2> QED BY <1>2, <1>4, <1>5, <1>6, <2>1 DEF RunSettledAfter
<1>8. CASE Adopt(r)
  <2>1. /\ cursor' = cursor /\ mem'[r] \in {mem[r], Adopted}
        /\ kind' = kind /\ offset' = offset /\ pc'[r] \in {"retries", "adopted"}
    BY <1>1, <1>8 DEF Adopt, Goto, cursorFile, TypeOK
  <2> QED BY <1>2, <1>4, <1>5, <1>6, <2>1 DEF RunSettledAfter
<1>21. CASE WriteThrough(r)
  <2>1. /\ cursor' \in {cursor, mem[r]} /\ mem' = mem
        /\ kind' = kind /\ offset' = offset /\ pc'[r] = "retries"
    BY <1>1, <1>21 DEF WriteThrough, SaveCursor, Goto, cursorFile, locals, TypeOK
  <2> QED BY <1>2, <1>4, <1>5, <1>6, <2>1 DEF RunSettledAfter
<1>9. CASE LoadRetries(r)
  <2>1. cursor' = cursor /\ mem' = mem /\ kind' = kind /\ offset' = offset /\ pc'[r] = "open"
    BY <1>1, <1>9 DEF LoadRetries, Goto, cursorFile, TypeOK
  <2> QED BY <1>2, <1>4, <1>5, <1>6, <2>1 DEF RunSettledAfter
<1>10. CASE Open(r)
  <2>1. /\ cursor' = cursor /\ mem' = mem /\ kind' = kind /\ pc'[r] = "read"
        /\ offset'[r] \in {0, mem[r][kind[r]]}
    BY <1>1, <1>10 DEF Open, Goto, cursorFile, TypeOK
  <2> QED BY <1>2, <1>4, <1>5, <1>6, <2>1 DEF RunSettledAfter
<1>11. CASE StopReading(r)
  <2>1. LeaveKind(r, mem, memRetries) /\ cursor' = cursor
    BY <1>11 DEF StopReading, cursorFile
  <2> QED BY <1>1, <1>2, <1>4, <2>1, LeaveSettled DEF LocalsOK
<1>12. CASE SkipMalformed(r)
  <2>1. /\ HasLine(r) /\ Advance(r, memRetries[r]) /\ UNCHANGED <<kind, attempted>>
        /\ LineClass(r) = "malformed"
    BY <1>12 DEF SkipMalformed
  <2>2. memRetries[r] \in [Kinds -> Retry]
    BY <1>1 DEF LocalsOK
  <2> QED BY <1>2, <1>3, <1>4, <2>1, <2>2, AdvanceSettled
<1>13. CASE BeginSave(r)
  <2>1. cursor' = cursor /\ mem' = mem /\ kind' = kind /\ offset' = offset /\ pc'[r] = "save"
    BY <1>1, <1>13 DEF BeginSave, Goto, cursorFile, TypeOK
  <2> QED BY <1>2, <1>4, <1>5, <1>6, <2>1 DEF RunSettledAfter
<1>14. CASE SaveOk(r) \/ Quarantine(r)
  <2>1. cursor' = cursor /\ mem' = mem /\ kind' = kind /\ offset' = offset /\ pc'[r] = "saved"
    BY <1>1, <1>14 DEF SaveOk, Quarantine, Goto, cursorFile, locals, TypeOK
  <2>2. offset'[r] + 1 \in MirroredAfter(kind'[r])
    BY <1>2, <1>14, <2>1 DEF NextLine
  <2> QED BY <1>2, <1>4, <1>5, <1>6, <2>1, <2>2 DEF RunSettledAfter
<1>15. CASE SaveExit(r)
  <2>1. cursor' = cursor /\ mem' = mem /\ kind' = kind /\ offset' = offset /\ pc'[r] = "exited"
    BY <1>1, <1>15 DEF SaveExit, Goto, cursorFile, locals, TypeOK
  <2> QED BY <1>2, <1>4, <1>5, <1>6, <2>1 DEF RunSettledAfter
<1>16. CASE SaveTimeout(r)
  <2>1. LeaveKind(r, mem, memRetries) /\ cursor' = cursor
    BY <1>16 DEF SaveTimeout, cursorFile
  <2> QED BY <1>1, <1>2, <1>4, <2>1, LeaveSettled DEF LocalsOK
<1>17. CASE RecordSaved(r)
  <2> DEFINE tries == [memRetries[r] EXCEPT ![kind[r]] = NoRetry]
  <2>1. HasLine(r) /\ Advance(r, tries) /\ UNCHANGED <<kind, attempted>>
    BY <1>1, <1>17 DEF RecordSaved, PendingLine
  <2>2. tries \in [Kinds -> Retry]
    BY <1>1, OffsetFacts DEF LocalsOK
  <2>3. NextLine(r) \in MirroredAfter(kind[r])
    BY <1>2, <1>6, <1>17 DEF SkipInv, OffsetsSettled, MirrorsGrow, RecordSaved
  <2> HIDE DEF tries
  <2> QED BY <1>2, <1>3, <1>4, <2>1, <2>2, <2>3, AdvanceSettled
<1>18. CASE RecordFailed(r)
  <2> DEFINE tries == [memRetries[r] EXCEPT ![kind[r]] =
                          [offset |-> offset[r], attempts |-> Attempts(r)]]
  <2>1. /\ Attempts(r) < MaxAttempts
        /\ LeaveKind(r, mem, [memRetries EXCEPT ![r] = tries])
        /\ cursor' \in {cursor, mem[r]}
    BY <1>18 DEF RecordFailed, SaveCursor, cursorFile
  <2>2. tries \in [Kinds -> Retry]
    BY <1>1, <2>1, AttemptsType, BoundsAssumption DEF LocalsOK, Retry
  <2>3. [memRetries EXCEPT ![r] = tries] \in [Runs -> [Kinds -> Retry]]
    BY <1>1, <2>2 DEF LocalsOK
  <2> HIDE DEF tries
  <2> QED BY <1>1, <1>2, <1>4, <2>1, <2>3, LeaveSettled
<1>19. CASE Crash(r)
  <2>1. cursor' = cursor /\ Exit(r)
    BY <1>19 DEF Crash, cursorFile
  <2>2. LocalsOK' /\ pc'[r] = "idle" /\ offset'[r] = 0 /\ mem'[r] = ZeroOffsets
    BY <1>1, <2>1, ExitType
  <2>3. kind'[r] \in Kinds
    BY <2>2 DEF LocalsOK
  <2> QED BY <1>2, <1>4, <1>5, <2>1, <2>2, <2>3 DEF RunSettledAfter, ZeroOffsets
<1>20. RunSettledAfter(r)
  BY <1>7, <1>8, <1>9, <1>10, <1>11, <1>12, <1>13, <1>14, <1>15, <1>16, <1>17, <1>18, <1>19,
     <1>21
  DEF Step
<1> QED BY <1>2, <1>4, <1>20

\* Before the first run nothing is passed over, when no cursor is foreign.
LEMMA InitSkipInv == CursorsLocal /\ Init => SkipInv
<1> SUFFICES ASSUME CursorsLocal, Init PROVE SkipInv
  OBVIOUS
<1>1. TypeInv
  BY InitTypeInv
<1>2. NothingSkipped
  BY DEF Init, NothingSkipped, ZeroOffsets
<1>3. \A k \in Kinds : SettledUpTo(k, Adopted[k])
  <2> SUFFICES ASSUME NEW k \in Kinds, NEW i \in 1 .. Adopted[k]
               PROVE  i <= Len(journal[k]) /\ Settled(k, i)
    BY DEF SettledUpTo
  <2>1. CASE OldCursors # {}
    <3>1. PICK c \in OldCursors : Adopted[k] = c[k]
      BY <2>1, AdoptedFacts
    <3>2. c[k] <= InitLines[k] /\ c[k] \in Offsets /\ InitLines[k] \in Offsets
      BY CursorsAssumption, BoundsAssumption
    <3>3. i \in Lines /\ i <= c[k] /\ i <= InitLines[k]
      BY <3>1, <3>2, OffsetFacts, BoundsAssumption DEF Lines, Offsets
    <3>4. Len(journal[k]) = InitLines[k]
      <4>1. journal[k] = [j \in 1 .. InitLines[k] |-> "good"] /\ InitLines[k] \in Nat
        BY <3>2, OffsetFacts DEF Init
      <4> QED BY <4>1
    <3>5. stored[k][i] = 1
      BY <3>3 DEF Init
    <3> QED BY <3>3, <3>4, <3>5 DEF Settled, Mirrored
  <2>2. CASE OldCursors = {}
    <3>1. Adopted[k] = 0
      BY <2>2 DEF Adopted, CursorsLocal, ZeroOffsets
    <3> QED BY <3>1
  <2> QED BY <2>1, <2>2
<1>4. OffsetsSettled
  <2>1. \A k \in Kinds : SettledUpTo(k, 0)
    BY DEF SettledUpTo
  <2>2. \A r \in Runs : /\ \A k \in Kinds : mem[r][k] = 0
                        /\ kind[r] \in Kinds /\ offset[r] = 0 /\ pc[r] = "idle"
    BY KindFacts DEF Init, ZeroOffsets
  <2> QED BY <1>3, <2>1, <2>2 DEF OffsetsSettled
<1> QED BY <1>1, <1>2, <1>4 DEF SkipInv

\* Every step keeps that, when the sidecar can be written.
LEMMA NextSkipInv ==
    ASSUME SidecarReliable, SkipInv, [Next]_vars
    PROVE  SkipInv'
<1>1. TypeInv'
  BY NextTypeInv DEF SkipInv
<1>2. CASE \E r \in Runs : Step(r) \/ Crash(r)
  <2>1. PICK r \in Runs : Step(r) \/ Crash(r)
    BY <1>2
  <2>2. MirrorsGrow /\ JournalsGrow /\ RunSettledAfter(r)
    BY <2>1, StepRunSettled
  <2>3. OthersUnchanged(r)
    BY <2>1, StepShape DEF SkipInv
  <2>4. TypeOK'
    BY <1>1 DEF TypeInv
  <2>5. NothingSkipped' /\ OffsetsSettled'
    BY <2>2, <2>3, <2>4, SkipKept
  <2> QED BY <1>1, <2>5 DEF SkipInv
<1>3. CASE \E k \in Kinds : Writer(k)
  <2>1. /\ journal' \in [Kinds -> Seq(LineClasses)] /\ JournalsGrow
        /\ UNCHANGED <<sinks, cursorFile, pc, locals>>
    BY <1>3, WriterType DEF SkipInv, TypeInv
  <2>2. MirrorsGrow
    BY <2>1, MirrorsSame DEF sinks
  <2>3. /\ \A k \in Kinds : SettledAfter(k, cursor[k])
        /\ \A k \in Kinds : SettledAfter(k, Adopted[k])
    BY <2>1, <2>2, SettledStable, AdoptedFacts
    DEF SkipInv, TypeInv, TypeOK, NothingSkipped, OffsetsSettled, SettledUpTo
  <2>4. \A r \in Runs : /\ \A k \in Kinds : SettledAfter(k, mem[r][k])
                        /\ SettledAfter(kind[r], offset[r])
    BY <2>1, <2>2, KnownOffsetsSettled
  <2>5. \A r \in Runs : pc[r] = "saved" => NextLine(r) \in MirroredAfter(kind[r])
    BY <2>2 DEF SkipInv, TypeInv, TypeOK, OffsetsSettled, MirrorsGrow
  <2>6. NothingSkipped'
    BY <2>1, <2>3
    DEF NothingSkipped, SettledAfter, Settled, Mirrored, MirroredAfter, cursorFile
  <2>7. OffsetsSettled'
    <3>1. mem' = mem /\ kind' = kind /\ offset' = offset /\ pc' = pc
      BY <2>1 DEF locals
    <3>2. \A k \in Kinds : SettledUpTo(k, Adopted[k])'
      BY <2>3 DEF SettledAfter, SettledUpTo, Settled, Mirrored, MirroredAfter, Adopted
    <3>3. \A q \in Runs : \A k \in Kinds : SettledUpTo(k, mem[q][k])'
      BY <2>4, <3>1 DEF SettledAfter, SettledUpTo, Settled, Mirrored, MirroredAfter
    <3>4. \A q \in Runs : SettledUpTo(kind[q], offset[q])'
      BY <2>4, <3>1 DEF SettledAfter, SettledUpTo, Settled, Mirrored, MirroredAfter
    <3>5. \A q \in Runs : (pc[q] = "saved" => NextLine(q) \in Mirrored(kind[q]))'
      BY <2>5, <3>1 DEF NextLine, Mirrored, MirroredAfter
    <3> QED BY <3>2, <3>3, <3>4, <3>5 DEF OffsetsSettled
  <2> QED BY <1>1, <2>6, <2>7 DEF SkipInv
<1>4. CASE UNCHANGED vars
  BY <1>1, <1>4
  DEF SkipInv, NothingSkipped, OffsetsSettled, SettledUpTo, Settled, Mirrored, NextLine, Adopted,
      vars, journals, sinks, cursorFile, locals
<1> QED BY <1>2, <1>3, <1>4, BoundsAssumption DEF Next

\* However runs overlap, crash, time out or fail, no cursor they persist stands
\* past an entry that neither the database nor the sidecar has, as long as the
\* sidecar can be written and no cursor comes from another machine.
THEOREM NothingSkippedAlways ==
    ASSUME SidecarReliable, CursorsLocal
    PROVE  Spec => []NothingSkipped
<1>1. Init => SkipInv
  BY InitSkipInv
<1>2. SkipInv /\ [Next]_vars => SkipInv'
  BY NextSkipInv
<1>3. SkipInv => NothingSkipped
  BY DEF SkipInv
<1> QED BY <1>1, <1>2, <1>3, PTL DEF Spec

-----------------------------------------------------------------------------
(* The sidecar only takes entries that used up their own attempts. *)

ExitsGrow == \A k \in Kinds : \A i \in Lines : exits[k][i] <= exits'[k][i]

CountEarnedAfter(k, retry) ==
    retry.attempts > 0 =>
        retry.offset + 1 \in Lines /\ retry.attempts <= exits'[k][retry.offset + 1]

\* What a step has to establish for the run that takes it.
RunCountsAfter(r) ==
    /\ \A k \in Kinds : CountEarnedAfter(k, retries'[k])
    /\ \A k \in Kinds : CountEarnedAfter(k, memRetries'[r][k])
    /\ pc'[r] = "exited" => Attempts(r)' <= exits'[kind'[r]][offset'[r] + 1]

\* A count that was earned stays earned while exits only grow.
LEMMA CountStable ==
    ASSUME TypeOK, TypeOK', ExitsGrow, NEW k \in Kinds, NEW retry \in Retry,
           CountEarned(k, retry)
    PROVE  CountEarnedAfter(k, retry)
<1> SUFFICES ASSUME retry.attempts > 0
             PROVE  /\ retry.offset + 1 \in Lines
                    /\ retry.attempts <= exits'[k][retry.offset + 1]
  BY DEF CountEarnedAfter
<1>1. retry.offset + 1 \in Lines /\ retry.attempts <= exits[k][retry.offset + 1]
  BY DEF CountEarned
<1>2. /\ exits[k][retry.offset + 1] \in Nat /\ exits'[k][retry.offset + 1] \in Nat
      /\ exits[k][retry.offset + 1] <= exits'[k][retry.offset + 1]
      /\ retry.attempts \in Nat
  BY <1>1, BoundsAssumption DEF TypeOK, ExitsGrow, Retry
<1> QED BY <1>1, <1>2

\* A failed exit adds one to its own line, and nothing else changes the counts.
LEMMA StepExits ==
    ASSUME TypeInv, NEW r \in Runs, Step(r) \/ Crash(r)
    PROVE  /\ ExitsGrow
           /\ SaveExit(r) =>
                /\ exits[kind[r]][NextLine(r)] < MaxAttempts =>
                      exits'[kind[r]][NextLine(r)] = exits[kind[r]][NextLine(r)] + 1
                /\ exits[kind[r]][NextLine(r)] = MaxAttempts =>
                      exits'[kind[r]][NextLine(r)] = MaxAttempts
           /\ ~SaveExit(r) => UNCHANGED exits
<1>1. TypeOK /\ PendingLine
  BY DEF TypeInv
<1>2. CASE SaveExit(r)
  <2> DEFINE before == exits[kind[r]][NextLine(r)]
             count == IF before < MaxAttempts THEN before + 1 ELSE before
  <2>1. kind[r] \in Kinds /\ NextLine(r) \in Lines
    BY <1>1, <1>2, NextLineType DEF SaveExit, PendingLine, TypeOK
  <2>2. exits' = [exits EXCEPT ![kind[r]] = [exits[kind[r]] EXCEPT ![NextLine(r)] = count]]
    BY <1>2 DEF SaveExit
  <2>3. exits \in [Kinds -> [Lines -> 0 .. MaxAttempts]] /\ MaxAttempts \in Nat
    BY <1>1, BoundsAssumption DEF TypeOK
  <2>4. before \in 0 .. MaxAttempts /\ before <= count
    BY <2>1, <2>3
  <2>5. exits'[kind[r]][NextLine(r)] = count
    <3> HIDE DEF count
    <3> QED BY <2>1, <2>2, <2>3
  <2>6. ExitsGrow
    <3> HIDE DEF count
    <3>1. ASSUME NEW k \in Kinds, NEW i \in Lines
          PROVE  exits[k][i] <= exits'[k][i]
      <4>1. exits[k][i] \in 0 .. MaxAttempts
        BY <2>3
      <4>2. CASE k = kind[r] /\ i = NextLine(r)
        BY <2>4, <2>5, <4>2
      <4>3. CASE ~(k = kind[r] /\ i = NextLine(r))
        <5>1. exits'[k][i] = exits[k][i]
          BY <2>1, <2>2, <2>3, <4>3
        <5> QED BY <2>3, <4>1, <5>1
      <4> QED BY <4>2, <4>3
    <3> QED BY <3>1 DEF ExitsGrow
  <2> QED BY <1>2, <2>3, <2>4, <2>5, <2>6
<1>3. CASE ~SaveExit(r)
  <2>1. UNCHANGED exits
    BY <1>3 DEF Step, Load, Adopt, WriteThrough, LoadRetries, Open, StopReading, SkipMalformed,
                BeginSave,
                SaveOk, SaveTimeout, RecordSaved, RecordFailed, Quarantine, Crash, sinks
  <2>2. \A k \in Kinds : \A i \in Lines : exits[k][i] \in Nat
    BY <1>1, BoundsAssumption DEF TypeOK
  <2> QED BY <1>3, <2>1, <2>2 DEF ExitsGrow
<1> QED BY <1>2, <1>3

\* The counts the runs and the file knew before the step are earned after it.
LEMMA KnownCountsEarned ==
    ASSUME CountInv, TypeOK', ExitsGrow, NEW r \in Runs
    PROVE  /\ \A k \in Kinds : CountEarnedAfter(k, retries[k])
           /\ \A k \in Kinds : CountEarnedAfter(k, memRetries[r][k])
           /\ \A k \in Kinds : CountEarnedAfter(k, NoRetry)
<1>1. TypeOK
  BY DEF CountInv, TypeInv
<1>2. /\ \A k \in Kinds : CountEarned(k, retries[k]) /\ retries[k] \in Retry
      /\ \A k \in Kinds : CountEarned(k, memRetries[r][k]) /\ memRetries[r][k] \in Retry
  BY <1>1 DEF CountInv, CountsEarned, TypeOK
<1>3. \A k \in Kinds : CountEarnedAfter(k, NoRetry)
  BY DEF CountEarnedAfter, NoRetry
<1> QED BY <1>1, <1>2, <1>3, CountStable

\* The attempts a failed run computes are failed exits of its own line.
LEMMA AttemptsEarned ==
    ASSUME CountInv, NEW r \in Runs, pc[r] = "save", SaveExit(r)
    PROVE  Attempts(r)' <= exits'[kind'[r]][offset'[r] + 1]
<1>1. TypeInv /\ TypeOK /\ PendingLine
  BY DEF CountInv, TypeInv
<1>2. kind[r] \in Kinds /\ NextLine(r) \in Lines /\ offset[r] \in Nat
  BY <1>1, NextLineType, OffsetFacts DEF PendingLine, TypeOK
<1> DEFINE before == exits[kind[r]][NextLine(r)]
           previous == memRetries[r][kind[r]]
<1>3. before \in 0 .. MaxAttempts /\ MaxAttempts \in Nat \ {0}
  BY <1>1, <1>2, BoundsAssumption DEF TypeOK
<1>4. /\ before < MaxAttempts => exits'[kind[r]][NextLine(r)] = before + 1
      /\ before = MaxAttempts => exits'[kind[r]][NextLine(r)] = MaxAttempts
  BY <1>1, StepExits DEF Step
<1>5. previous \in Retry /\ CountEarned(kind[r], previous)
  BY <1>1, <1>2 DEF TypeOK, CountInv, CountsEarned
<1>6. Attempts(r) = IF previous.attempts > 0 /\ previous.offset = offset[r]
                    THEN previous.attempts + 1 ELSE 1
  BY DEF Attempts
<1>7. previous.attempts > 0 /\ previous.offset = offset[r] => previous.attempts <= before
  BY <1>5 DEF CountEarned, NextLine
<1>8. previous.attempts \in 0 .. MaxAttempts - 1
  BY <1>5 DEF Retry
<1> HIDE DEF before, previous
<1>9. Attempts(r) <= exits'[kind[r]][NextLine(r)]
  BY <1>3, <1>4, <1>6, <1>7, <1>8
<1>10. Attempts(r)' = Attempts(r) /\ kind' = kind /\ offset' = offset
  BY DEF SaveExit, locals, Attempts
<1> QED BY <1>9, <1>10 DEF NextLine

\* After its step the counts a run holds or wrote are earned.
LEMMA StepRunCounts ==
    ASSUME CountInv, NEW r \in Runs, Step(r) \/ Crash(r)
    PROVE  RunCountsAfter(r)
<1>1. TypeInv /\ TypeOK /\ PendingLine /\ LocalsOK
  BY DEF CountInv, TypeInv, TypeOK, LocalsOK
<1>2. TypeOK'
  BY <1>1, StepTypeInv DEF TypeInv
<1>3. ExitsGrow
  BY <1>1, StepExits
<1>4. /\ \A k \in Kinds : CountEarnedAfter(k, retries[k])
      /\ \A k \in Kinds : CountEarnedAfter(k, memRetries[r][k])
      /\ \A k \in Kinds : CountEarnedAfter(k, NoRetry)
  BY <1>2, <1>3, KnownCountsEarned
<1>5. kind[r] \in Kinds
  BY <1>1 DEF TypeOK
<1>6. CASE Load(r)
  <2>1. retries' = retries /\ memRetries' = memRetries /\ pc'[r] = "adopt"
    BY <1>1, <1>6 DEF Load, Goto, cursorFile, TypeOK
  <2> QED BY <1>4, <2>1 DEF RunCountsAfter
<1>7. CASE Adopt(r)
  <2>1. retries' = retries /\ memRetries' = memRetries /\ pc'[r] \in {"retries", "adopted"}
    BY <1>1, <1>7 DEF Adopt, Goto, cursorFile, TypeOK
  <2> QED BY <1>4, <2>1 DEF RunCountsAfter
<1>20. CASE WriteThrough(r)
  <2>1. retries' \in {retries, NoRetries} /\ memRetries' = memRetries /\ pc'[r] = "retries"
    BY <1>1, <1>20 DEF WriteThrough, SaveCursor, Goto, cursorFile, locals, TypeOK
  <2> QED BY <1>4, <2>1 DEF RunCountsAfter, NoRetries
<1>8. CASE LoadRetries(r)
  <2>1. retries' = retries /\ memRetries'[r] = retries /\ pc'[r] = "open"
    BY <1>1, <1>8 DEF LoadRetries, Goto, cursorFile, TypeOK
  <2> QED BY <1>4, <2>1 DEF RunCountsAfter
<1>9. CASE Open(r) \/ BeginSave(r) \/ SaveOk(r) \/ Quarantine(r)
  <2>1. retries' = retries /\ memRetries' = memRetries /\ pc'[r] \in {"read", "save", "saved"}
    BY <1>1, <1>9 DEF Open, BeginSave, SaveOk, Quarantine, Goto, cursorFile, locals, TypeOK
  <2> QED BY <1>4, <2>1 DEF RunCountsAfter
<1>10. CASE StopReading(r) \/ SaveTimeout(r)
  <2>1. LeaveKind(r, mem, memRetries) /\ retries' = retries
    BY <1>10 DEF StopReading, SaveTimeout, cursorFile
  <2>2. pc'[r] \in {"idle", "open"} /\ memRetries'[r] \in {memRetries[r], NoRetries}
    BY <1>1, <2>1, LeaveKindType DEF LocalsOK
  <2> QED BY <1>4, <2>1, <2>2 DEF RunCountsAfter, NoRetries
<1>11. CASE SkipMalformed(r)
  <2>1. HasLine(r) /\ Advance(r, memRetries[r]) /\ UNCHANGED <<kind, attempted>>
    BY <1>11 DEF SkipMalformed
  <2>2. pc'[r] = "read" /\ memRetries'[r] = memRetries[r]
    BY <1>1, <2>1, AdvanceType DEF LocalsOK
  <2>3. retries' \in {retries, memRetries[r]}
    BY <2>1 DEF Advance, SaveCursor, cursorFile
  <2> QED BY <1>4, <2>2, <2>3 DEF RunCountsAfter
<1>12. CASE SaveExit(r)
  <2>1. retries' = retries /\ memRetries' = memRetries /\ pc[r] = "save"
    BY <1>12 DEF SaveExit, cursorFile, locals
  <2>2. Attempts(r)' <= exits'[kind'[r]][offset'[r] + 1]
    BY <1>12, <2>1, AttemptsEarned
  <2> QED BY <1>4, <2>1, <2>2 DEF RunCountsAfter
<1>13. CASE RecordSaved(r)
  <2> DEFINE tries == [memRetries[r] EXCEPT ![kind[r]] = NoRetry]
  <2>1. HasLine(r) /\ Advance(r, tries) /\ UNCHANGED <<kind, attempted>>
    BY <1>1, <1>13 DEF RecordSaved, PendingLine
  <2>2. tries \in [Kinds -> Retry] /\ \A k \in Kinds : tries[k] \in {memRetries[r][k], NoRetry}
    BY <1>1, <1>5, OffsetFacts DEF LocalsOK
  <2> HIDE DEF tries
  <2>3. pc'[r] = "read" /\ memRetries'[r] = tries
    BY <1>1, <2>1, <2>2, AdvanceType
  <2>4. retries' \in {retries, tries}
    BY <2>1 DEF Advance, SaveCursor, cursorFile
  <2> QED BY <1>4, <2>2, <2>3, <2>4 DEF RunCountsAfter
<1>14. CASE RecordFailed(r)
  <2> DEFINE retry == [offset |-> offset[r], attempts |-> Attempts(r)]
             tries == [memRetries[r] EXCEPT ![kind[r]] = retry]
  <2>1. /\ pc[r] = "exited" /\ Attempts(r) < MaxAttempts
        /\ SaveCursor(mem[r], tries)
        /\ LeaveKind(r, mem, [memRetries EXCEPT ![r] = tries])
        /\ exits' = exits
    BY <1>14 DEF RecordFailed, sinks
  <2>2. retry \in Retry
    BY <1>1, <2>1, AttemptsType, BoundsAssumption DEF LocalsOK, Retry
  <2>3. CountEarnedAfter(kind[r], retry)
    <3>1. Attempts(r) <= exits[kind[r]][NextLine(r)] /\ NextLine(r) \in Lines
      BY <1>1, <2>1, NextLineType DEF CountInv, CountsEarned, PendingLine
    <3> QED BY <2>1, <3>1 DEF CountEarnedAfter, NextLine
  <2> HIDE DEF retry
  <2>4. /\ tries \in [Kinds -> Retry]
        /\ \A k \in Kinds : CountEarnedAfter(k, tries[k])
    BY <1>1, <1>4, <2>2, <2>3 DEF LocalsOK
  <2> HIDE DEF tries
  <2>5. /\ [memRetries EXCEPT ![r] = tries] \in [Runs -> [Kinds -> Retry]]
        /\ [memRetries EXCEPT ![r] = tries][r] = tries
        /\ mem \in [Runs -> [Kinds -> Offsets]]
    BY <1>1, <2>4 DEF LocalsOK
  <2>6. pc'[r] \in {"idle", "open"} /\ memRetries'[r] \in {tries, NoRetries}
    BY <1>1, <2>1, <2>5, LeaveKindType DEF LocalsOK
  <2>7. retries' \in {retries, tries}
    BY <2>1 DEF SaveCursor, cursorFile
  <2> QED BY <1>4, <2>4, <2>6, <2>7 DEF RunCountsAfter, NoRetries
<1>15. CASE Crash(r)
  <2>1. retries' = retries /\ Exit(r)
    BY <1>15 DEF Crash, cursorFile
  <2>2. pc'[r] = "idle" /\ memRetries'[r] = NoRetries
    BY <1>1, <2>1, ExitType
  <2> QED BY <1>4, <2>1, <2>2 DEF RunCountsAfter, NoRetries
<1> QED
  BY <1>6, <1>7, <1>8, <1>9, <1>10, <1>11, <1>12, <1>13, <1>14, <1>15, <1>20 DEF Step

\* The line that goes to the sidecar has failed MaxAttempts times.
LEMMA StepQuarantine ==
    ASSUME CountInv, NEW r \in Runs, Step(r) \/ Crash(r)
    PROVE  QuarantineEarned'
<1>1. TypeInv /\ TypeOK /\ PendingLine
  BY DEF CountInv, TypeInv
<1>2. ExitsGrow
  BY <1>1, StepExits
<1>3. TypeOK'
  BY <1>1, StepTypeInv DEF TypeInv
<1>4. ASSUME NEW k \in Kinds, NEW i \in quarantine'[k]
      PROVE  exits'[k][i] = MaxAttempts
  <2>1. i \in Lines /\ exits[k][i] \in 0 .. MaxAttempts /\ exits'[k][i] \in 0 .. MaxAttempts
    BY <1>1, <1>3 DEF TypeOK
  <2>2. exits[k][i] <= exits'[k][i] /\ MaxAttempts \in Nat
    BY <1>2, <2>1, BoundsAssumption DEF ExitsGrow
  <2>3. CASE i \in quarantine[k]
    <3>1. exits[k][i] = MaxAttempts
      BY <2>3 DEF CountInv, QuarantineEarned
    <3> QED BY <2>1, <2>2, <3>1
  <2>4. CASE i \notin quarantine[k]
    <3>1. Quarantine(r)
      <4>1. quarantine' # quarantine
        BY <2>4
      <4> QED
        BY <4>1 DEF Step, Load, Adopt, WriteThrough, LoadRetries, Open, StopReading, SkipMalformed,
                BeginSave,
                    SaveOk, SaveExit, SaveTimeout, RecordSaved, RecordFailed, Crash, sinks
    <3>2. k = kind[r] /\ i = NextLine(r)
      BY <1>1, <2>4, <3>1 DEF Quarantine, TypeOK
    <3>3. Attempts(r) <= exits[k][i] /\ Attempts(r) >= MaxAttempts /\ Attempts(r) \in Nat
      BY <1>1, <3>1, <3>2, AttemptsType, BoundsAssumption DEF CountInv, CountsEarned, Quarantine
    <3> QED BY <2>1, <2>2, <3>3
  <2> QED BY <2>3, <2>4
<1> QED BY <1>4 DEF QuarantineEarned

\* Every step keeps the counts earned.
LEMMA NextCountInv ==
    ASSUME CountInv, [Next]_vars
    PROVE  CountInv'
<1>1. TypeInv'
  BY NextTypeInv DEF CountInv
<1>2. CASE \E r \in Runs : Step(r) \/ Crash(r)
  <2>1. PICK r \in Runs : Step(r) \/ Crash(r)
    BY <1>2
  <2>2. TypeInv /\ TypeOK /\ TypeOK' /\ ExitsGrow
    BY <1>1, <2>1, StepExits DEF CountInv, TypeInv
  <2>3. RunCountsAfter(r) /\ OthersUnchanged(r) /\ QuarantineEarned'
    BY <2>1, <2>2, StepRunCounts, StepShape, StepQuarantine
  <2>4. \A k \in Kinds : CountEarned(k, retries[k])'
    BY <2>3 DEF RunCountsAfter, CountEarnedAfter, CountEarned
  <2>5. ASSUME NEW q \in Runs
        PROVE  /\ \A k \in Kinds : CountEarned(k, memRetries[q][k])'
               /\ (pc[q] = "exited" => Attempts(q) <= exits[kind[q]][NextLine(q)])'
    <3>1. CASE q = r
      BY <2>3, <3>1 DEF RunCountsAfter, CountEarnedAfter, CountEarned, NextLine
    <3>2. CASE q # r
      <4>1. /\ pc'[q] = pc[q] /\ kind'[q] = kind[q] /\ offset'[q] = offset[q]
            /\ memRetries'[q] = memRetries[q]
        BY <2>3, <3>2 DEF OthersUnchanged
      <4>2. \A k \in Kinds : CountEarnedAfter(k, memRetries[q][k])
        BY <2>2, KnownCountsEarned
      <4>3. ASSUME pc[q] = "exited"
            PROVE  Attempts(q) <= exits'[kind[q]][NextLine(q)]
        <5>1. Attempts(q) <= exits[kind[q]][NextLine(q)]
          BY <4>3 DEF CountInv, CountsEarned
        <5>2. kind[q] \in Kinds /\ NextLine(q) \in Lines /\ Attempts(q) \in Nat
          <6>1. HasLine(q)
            BY <4>3 DEF CountInv, TypeInv, PendingLine
          <6>2. Attempts(q) \in 1 .. MaxAttempts /\ MaxAttempts \in Nat
            BY <2>2, AttemptsType, BoundsAssumption
          <6> QED BY <2>2, <6>1, <6>2, NextLineType DEF TypeOK
        <5>3. /\ exits[kind[q]][NextLine(q)] \in Nat /\ exits'[kind[q]][NextLine(q)] \in Nat
              /\ exits[kind[q]][NextLine(q)] <= exits'[kind[q]][NextLine(q)]
          BY <2>2, <5>2, BoundsAssumption DEF TypeOK, ExitsGrow
        <5> QED BY <5>1, <5>2, <5>3
      <4>4. Attempts(q)' = Attempts(q) /\ NextLine(q)' = NextLine(q)
        BY <4>1 DEF Attempts, NextLine
      <4> QED BY <4>1, <4>2, <4>3, <4>4 DEF CountEarnedAfter, CountEarned
    <3> QED BY <3>1, <3>2
  <2>6. CountsEarned'
    BY <2>4, <2>5 DEF CountsEarned
  <2> QED BY <1>1, <2>3, <2>6 DEF CountInv
<1>3. CASE \E k \in Kinds : Writer(k)
  <2>1. UNCHANGED <<sinks, cursorFile, pc, locals>>
    BY <1>3, WriterType DEF CountInv, TypeInv
  <2> QED
    BY <1>1, <2>1
    DEF CountInv, CountsEarned, CountEarned, QuarantineEarned, Attempts, NextLine,
        sinks, cursorFile, locals
<1>4. CASE UNCHANGED vars
  BY <1>1, <1>4
  DEF CountInv, CountsEarned, CountEarned, QuarantineEarned, Attempts, NextLine,
      vars, sinks, cursorFile, locals
<1> QED BY <1>2, <1>3, <1>4, BoundsAssumption DEF Next

\* Before the first run there are no counts.
LEMMA InitCountInv == Init => CountInv
<1> SUFFICES ASSUME Init PROVE CountInv
  OBVIOUS
<1>1. TypeInv
  BY InitTypeInv
<1>2. CountsEarned
  BY DEF Init, CountsEarned, CountEarned, NoRetries, NoRetry
<1>3. QuarantineEarned
  BY DEF Init, QuarantineEarned
<1> QED BY <1>1, <1>2, <1>3 DEF CountInv

\* An entry in the sidecar has failed MaxAttempts times by itself: no timeout,
\* no crash, no other entry and no overlapping run brings it there early.
THEOREM QuarantineEarnedAlways == Spec => []QuarantineEarned
<1>1. Init => CountInv
  BY InitCountInv
<1>2. CountInv /\ [Next]_vars => CountInv'
  BY NextCountInv
<1>3. CountInv => QuarantineEarned
  BY DEF CountInv
<1> QED BY <1>1, <1>2, <1>3, PTL DEF Spec

-----------------------------------------------------------------------------
(* The attempts of a stuck entry are kept. *)

\* Written to the cursor file, these offsets and counts lose no stuck entry: its
\* kind is past it, or at it with a count that is no smaller.
Keeps(offsets, tries) ==
    \A k \in Kinds : Stuck(k) =>
        \/ cursor[k] < offsets[k] /\ offsets[k] <= Len(journal[k])
        \/ /\ offsets[k] = cursor[k]
           /\ tries[k].offset = retries[k].offset
           /\ tries[k].attempts >= retries[k].attempts

KeepsAfter(offsets, tries) ==
    \A k \in Kinds : Stuck(k)' =>
        \/ cursor'[k] < offsets[k] /\ offsets[k] <= Len(journal[k])
        \/ /\ offsets[k] = cursor'[k]
           /\ tries[k].offset = retries'[k].offset
           /\ tries[k].attempts >= retries'[k].attempts

\* The step AttemptsKept allows.
CountsKept ==
    \A k \in Kinds : Stuck(k) =>
        \/ cursor'[k] > cursor[k]
        \/ /\ cursor'[k] = cursor[k]
           /\ retries'[k].offset = retries[k].offset
           /\ retries'[k].attempts >= retries[k].attempts

\* The counts of a file or of a run are about lines that are there.
OnLines(tries) ==
    \A k \in Kinds : tries[k].attempts > 0 => tries[k].offset < Len(journal[k])

\* The fields of a count are natural numbers.
LEMMA RetryFields == \A retry \in Retry : retry.attempts \in Nat /\ retry.offset \in Nat
<1> SUFFICES ASSUME NEW retry \in Retry PROVE retry.attempts \in Nat /\ retry.offset \in Nat
  OBVIOUS
<1>1. retry.attempts \in 0 .. MaxAttempts - 1 /\ retry.offset \in Offsets
  BY DEF Retry
<1> QED BY <1>1, BoundsAssumption DEF Offsets

\* A step that leaves the cursor file alone keeps its counts.
LEMMA SameFileKeeps ==
    ASSUME TypeOK, UNCHANGED cursorFile
    PROVE  CountsKept
<1>1. \A k \in Kinds : retries[k] \in Retry /\ cursor[k] \in Nat
  BY OffsetFacts DEF TypeOK
<1>2. \A k \in Kinds : retries[k].attempts \in Nat
  BY <1>1, RetryFields
<1> QED BY <1>1, <1>2 DEF CountsKept, cursorFile

\* A write of what loses no stuck entry loses none, whether or not it succeeds.
LEMMA SaveKeeps ==
    ASSUME TypeOK, NEW offsets \in [Kinds -> Offsets], NEW tries \in [Kinds -> Retry],
           Keeps(offsets, tries), SaveCursor(offsets, tries)
    PROVE  CountsKept /\ KeepsAfter(offsets, tries)
<1>1. \A k \in Kinds : /\ retries[k].attempts \in Nat /\ tries[k].attempts \in Nat
                       /\ cursor[k] \in Nat /\ offsets[k] \in Nat
  <2>1. \A k \in Kinds : /\ retries[k] \in Retry /\ tries[k] \in Retry
                         /\ cursor[k] \in Nat /\ offsets[k] \in Nat
    BY OffsetFacts DEF TypeOK
  <2> QED BY <2>1, RetryFields
<1>2. CASE UNCHANGED cursorFile
  <2>1. KeepsAfter(offsets, tries)
    BY <1>2 DEF Keeps, KeepsAfter, Stuck, cursorFile
  <2> QED BY <1>2, <2>1, SameFileKeeps
<1>3. CASE cursor' = offsets /\ retries' = tries
  BY <1>1, <1>3 DEF Keeps, KeepsAfter, CountsKept
<1> QED BY <1>2, <1>3 DEF SaveCursor

\* Moving past a line loses no stuck entry: the run stands at the one of its kind.
LEMMA AdvanceKeeps ==
    ASSUME AttemptsInv, NEW r \in Runs, AtLine(r), HasLine(r),
           NEW tries \in [Kinds -> Retry],
           \A k \in Kinds : k # kind[r] => tries[k] = memRetries[r][k]
    PROVE  Keeps([mem[r] EXCEPT ![kind[r]] = NextLine(r)], tries)
<1> DEFINE offsets == [mem[r] EXCEPT ![kind[r]] = NextLine(r)]
<1>1. TypeOK /\ Loaded(r)
  BY DEF AttemptsInv, TypeInv, Loaded
<1>2. ASSUME NEW k \in Kinds, Stuck(k)
      PROVE  \/ cursor[k] < offsets[k] /\ offsets[k] <= Len(journal[k])
             \/ /\ offsets[k] = cursor[k]
                /\ tries[k].offset = retries[k].offset
                /\ tries[k].attempts >= retries[k].attempts
  <2>1. \/ cursor[k] < mem[r][k] /\ mem[r][k] <= Len(journal[k])
        \/ /\ mem[r][k] = cursor[k]
           /\ memRetries[r][k].offset = retries[k].offset
           /\ memRetries[r][k].attempts >= retries[k].attempts
    BY <1>1, <1>2 DEF AttemptsInv, MemoryAhead
  <2>2. CASE k = kind[r]
    <3>1. offset[r] = mem[r][k]
      BY <1>2, <2>2 DEF AttemptsInv, StandsAtStuck
    <3>2. NextLine(r) \in 1 .. Len(journal[k]) /\ NextLine(r) = offset[r] + 1
      BY <1>1, <2>2, NextLineType DEF NextLine
    <3>3. offsets[k] = NextLine(r) /\ cursor[k] \in Nat /\ mem[r][k] \in Nat
      BY <1>1, <2>2, OffsetFacts DEF TypeOK
    <3>4. Len(journal[k]) \in Nat
      BY <1>1 DEF TypeOK
    <3> HIDE DEF offsets
    <3> QED BY <2>1, <3>1, <3>2, <3>3, <3>4
  <2>3. CASE k # kind[r]
    <3>1. offsets[k] = mem[r][k] /\ tries[k] = memRetries[r][k]
      BY <1>1, <2>3 DEF TypeOK
    <3> HIDE DEF offsets
    <3> QED BY <2>1, <3>1
  <2> QED BY <2>2, <2>3
<1> QED BY <1>2 DEF Keeps

\* Recording a failure loses none either: the count of the entry at hand goes on
\* from the one that was kept for it.
LEMMA FailureKeeps ==
    ASSUME AttemptsInv, NEW r \in Runs, AtLine(r),
           NEW tries \in [Kinds -> Retry],
           tries = [memRetries[r] EXCEPT ![kind[r]] =
                      [offset |-> offset[r], attempts |-> Attempts(r)]]
    PROVE  Keeps(mem[r], tries)
<1>1. TypeOK /\ Loaded(r)
  BY DEF AttemptsInv, TypeInv, Loaded
<1>2. ASSUME NEW k \in Kinds, Stuck(k)
      PROVE  \/ cursor[k] < mem[r][k] /\ mem[r][k] <= Len(journal[k])
             \/ /\ mem[r][k] = cursor[k]
                /\ tries[k].offset = retries[k].offset
                /\ tries[k].attempts >= retries[k].attempts
  <2>1. \/ cursor[k] < mem[r][k] /\ mem[r][k] <= Len(journal[k])
        \/ /\ mem[r][k] = cursor[k]
           /\ memRetries[r][k].offset = retries[k].offset
           /\ memRetries[r][k].attempts >= retries[k].attempts
    BY <1>1, <1>2 DEF AttemptsInv, MemoryAhead
  <2>2. CASE k = kind[r] /\ mem[r][k] = cursor[k]
    <3>1. offset[r] = mem[r][k]
      BY <1>2, <2>2 DEF AttemptsInv, StandsAtStuck
    <3>2. tries[k] = [offset |-> offset[r], attempts |-> Attempts(r)]
      BY <1>1, <2>2 DEF TypeOK
    <3>3. /\ memRetries[r][k].attempts \in Nat /\ retries[k].attempts \in Nat
          /\ cursor[k] \in Nat
      <4>1. memRetries[r][k] \in Retry /\ retries[k] \in Retry /\ cursor[k] \in Nat
        <5>1. memRetries \in [Runs -> [Kinds -> Retry]]
          BY <1>1 DEF TypeOK
        <5>2. retries[k] \in Retry /\ cursor[k] \in Nat
          BY <1>1, OffsetFacts DEF TypeOK
        <5> QED BY <5>1, <5>2
      <4> QED BY <4>1, RetryFields
    <3>4. retries[k].attempts > 0 /\ retries[k].offset = cursor[k]
      BY <1>2 DEF Stuck
    <3>5. /\ memRetries[r][k].offset = retries[k].offset
          /\ memRetries[r][k].attempts >= retries[k].attempts
      BY <2>1, <2>2, <3>3
    <3>6. memRetries[r][k].attempts > 0 /\ memRetries[r][k].offset = offset[r]
      BY <2>2, <3>1, <3>3, <3>4, <3>5
    <3>7. Attempts(r) = memRetries[r][k].attempts + 1
      BY <2>2, <3>6 DEF Attempts
    <3> QED BY <2>2, <3>1, <3>2, <3>3, <3>4, <3>5, <3>7
  <2>3. CASE k # kind[r]
    <3>1. tries[k] = memRetries[r][k]
      BY <1>1, <2>3 DEF TypeOK
    <3> QED BY <2>1, <3>1
  <2> QED BY <2>1, <2>2, <2>3
<1> QED BY <1>2 DEF Keeps

\* With one run at a time, what a step establishes for the run that takes it is
\* all there is to establish.
AttemptsAfter(r) ==
    /\ ~present' => \A k \in Kinds : retries'[k].attempts = 0
    /\ pc'[r] = "adopted" => ~present'
    /\ \A k \in Kinds : retries'[k].attempts > 0 => retries'[k].offset < Len(journal[k])
    /\ \A k \in Kinds :
          memRetries'[r][k].attempts > 0 => memRetries'[r][k].offset < Len(journal[k])
    /\ pc'[r] \in {"adopt", "retries"} =>
          \A k \in Kinds : Stuck(k)' => mem'[r][k] = cursor'[k]
    /\ Loaded(r)' => KeepsAfter(mem'[r], memRetries'[r])
    /\ AtLine(r)' /\ (Stuck(kind[r])' \/ StuckInMemory(r, kind[r])') =>
          offset'[r] = mem'[r][kind'[r]]

\* A run that has ended holds no count.
LEMMA AttemptsAfterExit ==
    ASSUME TypeOK, NEW r \in Runs, Exit(r),
           ~present' => \A k \in Kinds : retries'[k].attempts = 0,
           \A k \in Kinds : retries'[k].attempts > 0 => retries'[k].offset < Len(journal[k])
    PROVE  AttemptsAfter(r)
<1>1. pc'[r] = "idle" /\ memRetries'[r] = NoRetries
  BY ExitType DEF TypeOK, LocalsOK
<1>2. \A k \in Kinds : NoRetries[k].attempts = 0
  BY DEF NoRetries, NoRetry
<1> QED BY <1>1, <1>2 DEF AttemptsAfter, Loaded, AtLine

\* A run that leaves a kind holds what it did, or has ended.
LEMMA AttemptsAfterLeave ==
    ASSUME TypeOK, NEW r \in Runs,
           NEW m \in [Runs -> [Kinds -> Offsets]], NEW t \in [Runs -> [Kinds -> Retry]],
           LeaveKind(r, m, t),
           ~present' => \A k \in Kinds : retries'[k].attempts = 0,
           \A k \in Kinds : retries'[k].attempts > 0 => retries'[k].offset < Len(journal[k]),
           OnLines(t[r]), KeepsAfter(m[r], t[r])
    PROVE  AttemptsAfter(r)
<1>1. CASE KindAfter(kind[r]) = "end"
  BY <1>1, AttemptsAfterExit DEF LeaveKind
<1>2. CASE KindAfter(kind[r]) # "end"
  <2>1. pc' = [pc EXCEPT ![r] = "open"] /\ mem' = m /\ memRetries' = t
    BY <1>2 DEF LeaveKind, Goto
  <2>2. pc'[r] = "open"
    BY <2>1 DEF TypeOK
  <2> QED BY <2>1, <2>2 DEF AttemptsAfter, Loaded, AtLine, OnLines
<1> QED BY <1>1, <1>2

\* One case per action: no step loses the count of a stuck entry.
LEMMA StepAttempts ==
    ASSUME RunsInTurn, AttemptsInv, NEW r \in Runs, Step(r) \/ Crash(r)
    PROVE  AttemptsAfter(r) /\ CountsKept
<1>1. TypeInv /\ TypeOK /\ PendingLine
  BY DEF AttemptsInv, TypeInv
<1>2. /\ ~present => \A k \in Kinds : retries[k].attempts = 0
      /\ OnLines(retries) /\ OnLines(memRetries[r])
  BY DEF AttemptsInv, CountsOnLines, OnLines
<1>3. /\ pc[r] \in {"adopt", "retries"} => \A k \in Kinds : Stuck(k) => mem[r][k] = cursor[k]
      /\ Loaded(r) => Keeps(mem[r], memRetries[r])
  BY DEF AttemptsInv, MemoryAhead, Keeps
<1>4. /\ kind[r] \in Kinds /\ mem[r] \in [Kinds -> Offsets]
      /\ memRetries[r] \in [Kinds -> Retry] /\ retries \in [Kinds -> Retry]
      /\ cursor \in [Kinds -> Offsets] /\ offset[r] \in Offsets
      /\ pc \in [Runs -> {"idle", "adopt", "adopted", "retries", "open", "read",
                          "save", "saved", "exited"}]
  BY <1>1 DEF TypeOK
<1>5. ASSUME UNCHANGED cursorFile
      PROVE  /\ CountsKept
             /\ ~present' => \A k \in Kinds : retries'[k].attempts = 0
             /\ \A k \in Kinds : retries'[k].attempts > 0 => retries'[k].offset < Len(journal[k])
             /\ \A k \in Kinds : Stuck(k)' <=> Stuck(k)
             /\ Loaded(r) => KeepsAfter(mem[r], memRetries[r])
  BY <1>1, <1>2, <1>3, <1>5, SameFileKeeps
  DEF cursorFile, OnLines, Stuck, Keeps, KeepsAfter
<1>6. CASE Load(r)
  <2>1. /\ UNCHANGED cursorFile /\ memRetries'[r] = memRetries[r]
        /\ pc'[r] = "adopt" /\ mem'[r] = cursor /\ cursor' = cursor
    BY <1>1, <1>6 DEF Load, Goto, TypeOK, cursorFile
  <2> QED BY <1>2, <1>5, <2>1 DEF AttemptsAfter, Loaded, AtLine, OnLines
<1>7. CASE Adopt(r)
  <2>1. pc[r] = "adopt" /\ UNCHANGED cursorFile /\ memRetries'[r] = memRetries[r]
    BY <1>4, <1>7 DEF Adopt
  <2>2. CASE present
    <3>1. UNCHANGED <<cursorFile, mem>> /\ pc'[r] = "retries"
      BY <1>4, <1>7, <2>2 DEF Adopt, Goto
    <3> QED BY <1>2, <1>3, <1>5, <2>1, <3>1 DEF AttemptsAfter, Loaded, AtLine, OnLines, cursorFile
  <2>3. CASE ~present
    <3>1. pc'[r] = "adopted" /\ ~present'
      BY <1>4, <1>7, <2>1, <2>3 DEF Adopt, Goto, cursorFile
    <3> QED BY <1>2, <1>5, <2>1, <3>1 DEF AttemptsAfter, Loaded, AtLine, OnLines
  <2> QED BY <2>2, <2>3
<1>20. CASE WriteThrough(r)
  <2>1. /\ pc[r] = "adopted" /\ pc'[r] = "retries" /\ memRetries'[r] = memRetries[r]
        /\ SaveCursor(mem[r], NoRetries)
    BY <1>4, <1>20 DEF WriteThrough, Goto, locals
  <2>2. \A k \in Kinds : retries'[k].attempts = 0 /\ retries[k].attempts = 0
    BY <1>2, <2>1 DEF AttemptsInv, SaveCursor, NoRetries, NoRetry, cursorFile
  <2>3. CountsKept /\ \A k \in Kinds : ~Stuck(k)'
    BY <2>2 DEF CountsKept, Stuck
  <2> QED BY <1>2, <2>1, <2>2, <2>3 DEF AttemptsAfter, Loaded, AtLine, OnLines
<1>8. CASE LoadRetries(r)
  <2>1. /\ pc[r] = "retries" /\ pc'[r] = "open" /\ memRetries'[r] = retries /\ mem'[r] = mem[r]
        /\ UNCHANGED cursorFile
    BY <1>1, <1>8 DEF LoadRetries, Goto, TypeOK
  <2>2. KeepsAfter(mem[r], retries)
    BY <1>3, <1>4, <1>5, <2>1, RetryFields DEF KeepsAfter, cursorFile
  <2> QED BY <1>2, <1>5, <2>1, <2>2 DEF AttemptsAfter, Loaded, AtLine, OnLines
<1>9. CASE Open(r)
  <2>1. /\ UNCHANGED <<cursorFile, kind, mem, memRetries>> /\ pc[r] = "open" /\ pc'[r] = "read"
        /\ offset'[r] = IF mem[r][kind[r]] > Len(journal[kind[r]]) THEN 0 ELSE mem[r][kind[r]]
    BY <1>1, <1>9 DEF Open, Goto, TypeOK
  <2>2. Len(journal[kind[r]]) \in Nat /\ mem[r][kind[r]] \in Nat /\ cursor[kind[r]] \in Nat
    <3>1. journal[kind[r]] \in Seq(LineClasses)
      BY <1>1, <1>4 DEF TypeOK
    <3>2. mem[r][kind[r]] \in Nat /\ cursor[kind[r]] \in Nat
      BY <1>4, OffsetFacts
    <3> QED BY <3>1, <3>2
  <2>3. ASSUME Stuck(kind[r]) \/ StuckInMemory(r, kind[r])
        PROVE  offset'[r] = mem[r][kind[r]]
    <3>1. mem[r][kind[r]] <= Len(journal[kind[r]])
      BY <1>2, <1>3, <1>4, <2>1, <2>2, <2>3
      DEF Loaded, Keeps, OnLines, Stuck, StuckInMemory
    <3> QED BY <2>1, <2>2, <3>1
  <2>4. StuckInMemory(r, kind[r])' <=> StuckInMemory(r, kind[r])
    BY <2>1 DEF StuckInMemory
  <2> QED BY <1>2, <1>4, <1>5, <2>1, <2>3, <2>4 DEF AttemptsAfter, Loaded, AtLine, OnLines
<1>10. CASE StopReading(r) \/ SaveTimeout(r)
  <2>1. UNCHANGED cursorFile /\ LeaveKind(r, mem, memRetries) /\ Loaded(r)
    BY <1>10 DEF StopReading, SaveTimeout, Loaded, AtLine
  <2>2. mem \in [Runs -> [Kinds -> Offsets]] /\ memRetries \in [Runs -> [Kinds -> Retry]]
    BY <1>1 DEF TypeOK
  <2> QED BY <1>1, <1>2, <1>5, <2>1, <2>2, AttemptsAfterLeave
<1>11. CASE BeginSave(r) \/ SaveOk(r) \/ SaveExit(r) \/ Quarantine(r)
  <2>1. /\ UNCHANGED <<cursorFile, mem, memRetries, kind, offset>>
        /\ AtLine(r)
    BY <1>11 DEF BeginSave, SaveOk, SaveExit, Quarantine, locals, AtLine
  <2>2. pc'[r] \in {"save", "saved", "exited"}
    BY <1>4, <1>11 DEF BeginSave, SaveOk, SaveExit, Quarantine, Goto
  <2>3. Stuck(kind[r]) \/ StuckInMemory(r, kind[r]) => offset[r] = mem[r][kind[r]]
    BY <2>1 DEF AttemptsInv, StandsAtStuck
  <2>4. StuckInMemory(r, kind[r])' <=> StuckInMemory(r, kind[r])
    BY <2>1 DEF StuckInMemory
  <2> QED BY <1>2, <1>4, <1>5, <2>1, <2>2, <2>3, <2>4
          DEF AttemptsAfter, Loaded, AtLine, OnLines
<1>12. CASE SkipMalformed(r) \/ RecordSaved(r)
  <2> DEFINE tries == IF pc[r] = "read" THEN memRetries[r]
                      ELSE [memRetries[r] EXCEPT ![kind[r]] = NoRetry]
             offsets == [mem[r] EXCEPT ![kind[r]] = NextLine(r)]
  <2>1. HasLine(r) /\ AtLine(r) /\ Advance(r, tries) /\ UNCHANGED <<kind, attempted>>
    BY <1>1, <1>12 DEF SkipMalformed, RecordSaved, PendingLine, AtLine
  <2>2. tries \in [Kinds -> Retry] /\ \A k \in Kinds : k # kind[r] => tries[k] = memRetries[r][k]
    BY <1>4, OffsetFacts
  <2>3. OnLines(tries)
    <3>1. NoRetry.attempts = 0
      BY DEF NoRetry
    <3> QED BY <1>2, <1>4, <3>1 DEF OnLines
  <2> HIDE DEF tries
  <2>4. offsets \in [Kinds -> Offsets] /\ offsets[kind[r]] = NextLine(r)
    BY <1>1, <1>4, <2>1, NextLineType, OffsetFacts
  <2>5. Keeps(offsets, tries) /\ SaveCursor(offsets, tries)
    BY <2>1, <2>2, AdvanceKeeps DEF Advance
  <2>6. /\ pc'[r] = "read" /\ offset'[r] = NextLine(r) /\ memRetries'[r] = tries
        /\ mem'[r] = offsets
    BY <1>1, <2>1, <2>2, AdvanceType
  <2> HIDE DEF offsets
  <2>7. CountsKept /\ KeepsAfter(offsets, tries)
    BY <1>1, <2>2, <2>4, <2>5, SaveKeeps
  <2>8. /\ ~present' => \A k \in Kinds : retries'[k].attempts = 0
        /\ \A k \in Kinds : retries'[k].attempts > 0 => retries'[k].offset < Len(journal[k])
    BY <1>2, <2>3, <2>5 DEF SaveCursor, cursorFile, OnLines
  <2> QED BY <2>1, <2>3, <2>4, <2>6, <2>7, <2>8 DEF AttemptsAfter, OnLines
<1>13. CASE RecordFailed(r)
  <2> DEFINE tries == [memRetries[r] EXCEPT ![kind[r]] =
                          [offset |-> offset[r], attempts |-> Attempts(r)]]
             t == [memRetries EXCEPT ![r] = tries]
  <2>1. /\ Attempts(r) < MaxAttempts /\ pc[r] = "exited"
        /\ SaveCursor(mem[r], tries)
        /\ LeaveKind(r, mem, t)
    BY <1>13 DEF RecordFailed
  <2>2. tries \in [Kinds -> Retry]
    BY <1>1, <1>4, <2>1, AttemptsType, BoundsAssumption DEF Retry
  <2>3. HasLine(r) /\ AtLine(r) /\ Loaded(r)
    BY <1>1, <2>1 DEF PendingLine, AtLine, Loaded
  <2>4. OnLines(tries)
    <3>1. tries[kind[r]].offset = offset[r] /\ \A k \in Kinds : k # kind[r] => tries[k] = memRetries[r][k]
      BY <1>4
    <3>2. offset[r] < Len(journal[kind[r]])
      BY <2>3 DEF HasLine
    <3> QED BY <1>2, <3>1, <3>2 DEF OnLines
  <2>5. Keeps(mem[r], tries)
    BY <2>2, <2>3, FailureKeeps
  <2> HIDE DEF tries
  <2>6. CountsKept /\ KeepsAfter(mem[r], tries)
    BY <1>1, <1>4, <2>1, <2>2, <2>5, SaveKeeps
  <2>7. /\ ~present' => \A k \in Kinds : retries'[k].attempts = 0
        /\ \A k \in Kinds : retries'[k].attempts > 0 => retries'[k].offset < Len(journal[k])
    BY <1>2, <2>1, <2>4 DEF SaveCursor, cursorFile, OnLines
  <2>8. /\ t \in [Runs -> [Kinds -> Retry]] /\ t[r] = tries
        /\ mem \in [Runs -> [Kinds -> Offsets]]
    BY <1>1, <2>2 DEF TypeOK
  <2> HIDE DEF t
  <2> QED BY <1>1, <2>1, <2>4, <2>6, <2>7, <2>8, AttemptsAfterLeave
<1>14. CASE Crash(r)
  <2>1. Exit(r) /\ UNCHANGED cursorFile
    BY <1>14 DEF Crash
  <2> QED BY <1>1, <1>5, <2>1, AttemptsAfterExit
<1> QED
  BY <1>6, <1>7, <1>8, <1>9, <1>10, <1>11, <1>12, <1>13, <1>14, <1>20 DEF Step

\* A line appended to a journal takes no count from its line.
LEMMA WriterAttempts ==
    ASSUME AttemptsInv, NEW k \in Kinds, Writer(k)
    PROVE  AttemptsInv' /\ CountsKept
<1>1. TypeInv /\ TypeOK /\ TypeInv'
  BY WriterTypeInv DEF AttemptsInv, TypeInv
<1>2. /\ JournalsGrow /\ UNCHANGED <<cursorFile, pc, locals>>
      /\ journal' \in [Kinds -> Seq(LineClasses)]
  BY <1>1, WriterType DEF TypeInv
<1>3. /\ \A l \in Kinds : Len(journal[l]) <= Len(journal'[l])
      /\ \A l \in Kinds : Len(journal[l]) \in Nat /\ Len(journal'[l]) \in Nat
      /\ \A l \in Kinds : cursor[l] \in Nat /\ retries[l].offset \in Nat
  <2>1. \A l \in Kinds : Len(journal[l]) \in Nat /\ Len(journal'[l]) \in Nat
    BY <1>1, <1>2 DEF TypeOK
  <2>2. \A l \in Kinds : retries[l] \in Retry /\ cursor[l] \in Nat
    BY <1>1, OffsetFacts DEF TypeOK
  <2> QED BY <1>2, <2>1, <2>2, RetryFields DEF JournalsGrow
<1>4. \A r \in Runs : \A l \in Kinds : mem[r][l] \in Nat /\ memRetries[r][l].offset \in Nat
  <2>1. \A r \in Runs : \A l \in Kinds : mem[r][l] \in Nat /\ memRetries[r][l] \in Retry
    BY <1>1, OffsetFacts DEF TypeOK
  <2> QED BY <2>1, RetryFields
<1>5. CountsOnLines'
  BY <1>2, <1>3, <1>4 DEF AttemptsInv, CountsOnLines, cursorFile, locals
<1>6. MemoryAhead'
  BY <1>2, <1>3, <1>4
  DEF AttemptsInv, MemoryAhead, Stuck, Loaded, AtLine, cursorFile, locals
<1>7. StandsAtStuck'
  BY <1>2 DEF AttemptsInv, StandsAtStuck, Stuck, StuckInMemory, AtLine, cursorFile, locals
<1>8. /\ (~present)' => \A l \in Kinds : (retries[l].attempts = 0)'
      /\ \A r \in Runs : pc'[r] = "adopted" => ~present'
  BY <1>2 DEF AttemptsInv, cursorFile
<1> QED BY <1>1, <1>2, <1>5, <1>6, <1>7, <1>8, SameFileKeeps DEF AttemptsInv

\* Every step keeps the counts and what they rest on.
LEMMA NextAttempts ==
    ASSUME RunsInTurn, AttemptsInv, [Next]_vars
    PROVE  AttemptsInv' /\ CountsKept
<1>1. TypeInv /\ TypeOK /\ TypeInv'
  BY NextTypeInv DEF AttemptsInv, TypeInv
<1>2. CASE \E r \in Runs : Step(r) \/ Crash(r)
  <2>1. PICK r \in Runs : Step(r) \/ Crash(r)
    BY <1>2
  <2>2. AttemptsAfter(r) /\ CountsKept
    BY <2>1, StepAttempts
  <2>3. UNCHANGED journal
    BY <1>1, <2>1, StepShape DEF journals
  <2>4. AttemptsInv'
    <3>1. \A q \in Runs : q = r
      BY DEF RunsInTurn
    <3>2. CountsOnLines'
      BY <2>2, <2>3, <3>1 DEF CountsOnLines, AttemptsAfter
    <3>3. MemoryAhead'
      BY <2>2, <2>3, <3>1 DEF MemoryAhead, AttemptsAfter, KeepsAfter
    <3>4. StandsAtStuck'
      BY <2>2, <3>1 DEF StandsAtStuck, AttemptsAfter
    <3> QED BY <1>1, <2>2, <3>1, <3>2, <3>3, <3>4 DEF AttemptsInv, AttemptsAfter
  <2> QED BY <2>2, <2>4
<1>3. CASE \E k \in Appends : Writer(k)
  BY <1>3, WriterAttempts, BoundsAssumption
<1>4. CASE UNCHANGED vars
  <2>1. UNCHANGED <<journal, cursorFile, pc, locals>>
    BY <1>4 DEF vars, journals
  <2>2. AttemptsInv'
    BY <1>1, <2>1
    DEF AttemptsInv, CountsOnLines, MemoryAhead, StandsAtStuck, Stuck, StuckInMemory, Loaded,
        AtLine, cursorFile, locals
  <2> QED BY <1>1, <2>1, <2>2, SameFileKeeps
<1> QED BY <1>2, <1>3, <1>4 DEF Next

\* Before the first run there is no count to keep.
LEMMA InitAttempts == Init => AttemptsInv
<1> SUFFICES ASSUME Init PROVE AttemptsInv
  OBVIOUS
<1>1. TypeInv
  BY InitTypeInv
<1>2. /\ \A k \in Kinds : retries[k].attempts = 0
      /\ \A r \in Runs : \A k \in Kinds : memRetries[r][k].attempts = 0
  BY DEF Init, NoRetries, NoRetry
<1>3. \A r \in Runs : pc[r] = "idle"
  BY DEF Init
<1> QED BY <1>1, <1>2, <1>3
        DEF AttemptsInv, CountsOnLines, MemoryAhead, StandsAtStuck, Stuck, AtLine

\* When the runs come one after the other, the persisted count of a stuck entry
\* only grows until the cursor is past the entry, whoever dies between two steps
\* and whichever writes of the cursor file fail.
THEOREM AttemptsKeptAlways ==
    ASSUME RunsInTurn
    PROVE  Spec => AttemptsKept
<1>1. Init => AttemptsInv
  BY InitAttempts
<1>2. AttemptsInv /\ [Next]_vars => AttemptsInv' /\ CountsKept
  BY NextAttempts
<1>3. CountsKept <=> \A k \in Kinds :
          retries[k].attempts > 0 /\ retries[k].offset = cursor[k] =>
              \/ cursor'[k] > cursor[k]
              \/ /\ cursor'[k] = cursor[k]
                 /\ retries'[k].offset = retries[k].offset
                 /\ retries'[k].attempts >= retries[k].attempts
  BY DEF CountsKept, Stuck
<1> QED BY <1>1, <1>2, <1>3, PTL DEF Spec, AttemptsKept

-----------------------------------------------------------------------------
(* No entry is emitted twice. *)

\* The last line a run is done with: the one it saved, or the one before where it
\* stands.
Reached(r) == IF pc[r] = "saved" THEN NextLine(r) ELSE offset[r]

InHand(r) ==
    /\ pc[r] = "adopt" /\ present => mem[r] = cursor
    /\ pc[r] = "adopted" => ~present /\ mem[r] = Adopted
    /\ pc[r] = "retries" \/ Loaded(r) => present /\ mem[r] = cursor

\* The line is before the place where the next run starts, or where r stands.
Behind(r, k, i) ==
    /\ \/ i <= Resumes(k) /\ Resumes(k) <= Len(journal[k])
       \/ pc[r] = "saved" /\ kind[r] = k
    /\ AtLine(r) /\ kind[r] = k => i <= Reached(r)

\* With one run at a time, the invariant speaks of that run.
LEMMA EmissionOfRun ==
    ASSUME RunsInTurn, EmissionInv, NEW r \in Runs
    PROVE  /\ InHand(r)
           /\ \A k \in Kinds : \A i \in Lines : stored[k][i] > 0 => Behind(r, k, i)
BY DEF RunsInTurn, EmissionInv, InHand, Behind, Reached

LEMMA EmissionFromRun ==
    ASSUME RunsInTurn, NEW r \in Runs, TypeInv', NoDuplicateEmission', InHand(r)',
           \A k \in Kinds : \A i \in Lines : stored'[k][i] > 0 => Behind(r, k, i)'
    PROVE  EmissionInv'
<1>1. \A q \in Runs : q = r
  BY DEF RunsInTurn
<1>2. (\A q \in Runs : /\ pc[q] = "adopt" /\ present => mem[q] = cursor
                       /\ pc[q] = "adopted" => ~present /\ mem[q] = Adopted
                       /\ pc[q] = "retries" \/ Loaded(q) => present /\ mem[q] = cursor)'
  BY <1>1 DEF InHand
<1>3. (\A k \in Kinds : \A i \in Lines : stored[k][i] > 0 =>
          /\ \/ i <= Resumes(k) /\ Resumes(k) <= Len(journal[k])
             \/ \E q \in Runs : pc[q] = "saved" /\ kind[q] = k
          /\ \A q \in Runs : AtLine(q) /\ kind[q] = k =>
                i <= (IF pc[q] = "saved" THEN NextLine(q) ELSE offset[q]))'
  BY <1>1 DEF Behind, Reached
<1> QED BY <1>2, <1>3 DEF EmissionInv

\* Saving the next line stores a line that was not in the database.
LEMMA StoreEmits ==
    ASSUME TypeOK, NEW r \in Runs, HasLine(r), Store(r), NoDuplicateEmission,
           stored[kind[r]][NextLine(r)] = 0
    PROVE  /\ NoDuplicateEmission'
           /\ \A k \in Kinds : \A i \in Lines : stored'[k][i] > 0 =>
                  stored[k][i] > 0 \/ (k = kind[r] /\ i = NextLine(r))
<1>1. kind[r] \in Kinds /\ NextLine(r) \in Lines /\ stored \in [Kinds -> [Lines -> 0 .. 2]]
  BY NextLineType DEF TypeOK
<1>2. stored' = [stored EXCEPT ![kind[r]] = [stored[kind[r]] EXCEPT ![NextLine(r)] = 1]]
  BY DEF Store
<1>3. \A k \in Kinds : \A i \in Lines :
          stored'[k][i] = IF k = kind[r] /\ i = NextLine(r) THEN 1 ELSE stored[k][i]
  BY <1>1, <1>2
<1> QED BY <1>3 DEF NoDuplicateEmission

\* One case per action.
LEMMA StepEmission ==
    ASSUME RunsInTurn, SavesRecorded, EmissionInv, NEW r \in Runs,
           Step(r) \/ Crash(r), ~DiesInHand(r)
    PROVE  EmissionInv'
<1>1. TypeInv /\ TypeOK /\ PendingLine /\ NoDuplicateEmission
  BY DEF EmissionInv, TypeInv
<1>2. TypeInv' /\ UNCHANGED journal
  BY <1>1, StepTypeInv, StepShape DEF journals
<1>3. InHand(r) /\ \A k \in Kinds : \A i \in Lines : stored[k][i] > 0 => Behind(r, k, i)
  BY EmissionOfRun
<1>4. /\ kind[r] \in Kinds /\ mem[r] \in [Kinds -> Offsets] /\ offset[r] \in Nat
      /\ cursor \in [Kinds -> Offsets]
      /\ pc \in [Runs -> {"idle", "adopt", "adopted", "retries", "open", "read",
                          "save", "saved", "exited"}]
  BY <1>1, OffsetFacts DEF TypeOK
<1>5. ASSUME UNCHANGED stored, InHand(r)',
             \A k \in Kinds : \A i \in Lines :
                 stored[k][i] > 0 /\ Behind(r, k, i) => Behind(r, k, i)'
      PROVE  EmissionInv'
  <2>1. NoDuplicateEmission'
    BY <1>1, <1>5 DEF NoDuplicateEmission
  <2> QED BY <1>2, <1>3, <1>5, <2>1, EmissionFromRun
<1>6. CASE Load(r)
  <2>1. /\ pc[r] = "idle" /\ pc'[r] = "adopt" /\ mem'[r] = cursor
        /\ UNCHANGED <<stored, cursorFile>>
    BY <1>1, <1>6 DEF Load, Goto, TypeOK, sinks
  <2> QED BY <1>2, <1>5, <2>1
          DEF InHand, Behind, Loaded, AtLine, Resumes, cursorFile
<1>7. CASE Adopt(r)
  <2>1. pc[r] = "adopt" /\ UNCHANGED <<stored, cursorFile>>
    BY <1>7 DEF Adopt, sinks
  <2>2. CASE present
    <3>1. UNCHANGED mem /\ pc'[r] = "retries" /\ mem[r] = cursor
      BY <1>3, <1>4, <1>7, <2>1, <2>2 DEF Adopt, Goto, InHand
    <3> QED BY <1>2, <1>5, <2>1, <2>2, <3>1 DEF InHand, Behind, Loaded, AtLine, Resumes, cursorFile
  <2>3. CASE ~present
    <3>1. mem'[r] = Adopted /\ pc'[r] = "adopted"
      BY <1>1, <1>4, <1>7, <2>3 DEF Adopt, Goto, TypeOK
    <3>2. InHand(r)'
      BY <2>1, <2>3, <3>1 DEF InHand, Loaded, AtLine, cursorFile, Adopted
    <3> QED BY <1>2, <1>5, <2>1, <3>1, <3>2 DEF Behind, AtLine, Resumes, cursorFile, Adopted
  <2> QED BY <2>2, <2>3
<1>20. CASE WriteThrough(r)
  <2>1. /\ pc[r] = "adopted" /\ pc'[r] = "retries" /\ UNCHANGED <<stored, mem>>
        /\ ~present /\ mem[r] = Adopted
    BY <1>3, <1>4, <1>20 DEF WriteThrough, Goto, locals, sinks, InHand
  <2>2. present' = TRUE /\ cursor' = Adopted /\ mem'[r] = cursor'
    BY <1>20, <2>1 DEF WriteThrough, SaveCursor, SavesRecorded
  <2>3. \A k \in Kinds : Resumes(k)' = Resumes(k)
    BY <2>1, <2>2 DEF Resumes
  <2> QED BY <1>2, <1>5, <2>1, <2>2, <2>3 DEF InHand, Behind, Loaded, AtLine
<1>8. CASE LoadRetries(r)
  <2>1. /\ pc[r] = "retries" /\ pc'[r] = "open" /\ UNCHANGED <<stored, cursorFile, mem>>
    BY <1>4, <1>8 DEF LoadRetries, Goto, sinks
  <2> QED BY <1>2, <1>3, <1>5, <2>1
          DEF InHand, Behind, Loaded, AtLine, Resumes, cursorFile
<1>9. CASE Open(r)
  <2>1. /\ UNCHANGED <<stored, cursorFile, kind, mem>> /\ pc[r] = "open" /\ pc'[r] = "read"
        /\ offset'[r] = IF mem[r][kind[r]] > Len(journal[kind[r]]) THEN 0 ELSE mem[r][kind[r]]
    BY <1>1, <1>9 DEF Open, Goto, TypeOK, sinks
  <2>2. present /\ mem[r] = cursor
    BY <1>3, <2>1 DEF InHand, Loaded
  <2>3. Len(journal[kind[r]]) \in Nat /\ cursor[kind[r]] \in Nat
    <3>1. journal[kind[r]] \in Seq(LineClasses)
      BY <1>1, <1>4 DEF TypeOK
    <3>2. cursor[kind[r]] \in Nat
      BY <1>4, OffsetFacts
    <3> QED BY <3>1, <3>2
  <2>4. ASSUME NEW k \in Kinds, NEW i \in Lines, Behind(r, k, i)
        PROVE  Behind(r, k, i)'
    <3>1. i <= cursor[k] /\ cursor[k] <= Len(journal[k])
      BY <2>1, <2>2, <2>4 DEF Behind, Resumes
    <3>2. kind[r] = k => offset'[r] = cursor[k]
      BY <2>1, <2>2, <2>3, <3>1
    <3> QED BY <1>2, <2>1, <2>2, <3>1, <3>2 DEF Behind, Resumes, Reached, cursorFile
  <2> QED BY <1>5, <2>1, <2>2, <2>4 DEF InHand, Loaded, AtLine, cursorFile
<1>10. CASE StopReading(r) \/ SaveTimeout(r)
  <2>1. /\ UNCHANGED <<cursorFile, stored>> /\ LeaveKind(r, mem, memRetries)
        /\ pc[r] \in {"read", "save"}
    BY <1>10 DEF StopReading, SaveTimeout, sinks, SavesRecorded
  <2>2. pc'[r] = "idle" \/ (pc'[r] = "open" /\ mem'[r] = mem[r])
    BY <1>4, <2>1 DEF LeaveKind, Exit, Goto
  <2> QED BY <1>2, <1>3, <1>5, <2>1, <2>2
          DEF InHand, Behind, Loaded, AtLine, Resumes, cursorFile
<1>11. CASE BeginSave(r) \/ SaveExit(r) \/ Quarantine(r)
  <2>1. /\ UNCHANGED <<cursorFile, stored, mem, kind, offset>>
        /\ pc[r] \in {"read", "save", "exited"} /\ pc'[r] \in {"save", "exited", "saved"}
    BY <1>4, <1>11 DEF BeginSave, SaveExit, Quarantine, Goto, locals, sinks
  <2>2. ASSUME NEW k \in Kinds, NEW i \in Lines, Behind(r, k, i)
        PROVE  Behind(r, k, i)'
    <3>1. i <= Resumes(k) /\ Resumes(k) <= Len(journal[k])
      BY <2>1, <2>2 DEF Behind
    <3>2. kind[r] = k => i <= offset[r]
      BY <2>1, <2>2 DEF Behind, Reached, AtLine
    <3>3. kind[r] = k => i <= Reached(r)'
      BY <1>4, <2>1, <3>2 DEF Reached, NextLine, Lines
    <3>4. Resumes(k)' = Resumes(k)
      BY <2>1 DEF Resumes, cursorFile
    <3> QED BY <1>2, <2>1, <3>1, <3>3, <3>4 DEF Behind
  <2> QED BY <1>3, <1>5, <2>1, <2>2 DEF InHand, Loaded, AtLine, cursorFile
<1>12. CASE SaveOk(r)
  <2>1. /\ UNCHANGED <<cursorFile, mem, kind, offset>> /\ Store(r)
        /\ pc[r] = "save" /\ pc'[r] = "saved"
    BY <1>4, <1>12 DEF SaveOk, Goto, locals
  <2>2. HasLine(r) /\ NextLine(r) \in Lines /\ NextLine(r) = offset[r] + 1
    BY <1>1, <2>1, NextLineType DEF PendingLine, NextLine
  <2>3. stored[kind[r]][NextLine(r)] = 0
    <3>1. stored[kind[r]][NextLine(r)] \in 0 .. 2
      BY <1>1, <1>4, <2>2 DEF TypeOK
    <3>2. ~(NextLine(r) <= offset[r])
      BY <1>4, <2>2
    <3>3. ~(stored[kind[r]][NextLine(r)] > 0)
      BY <1>3, <1>4, <2>1, <2>2, <3>2 DEF Behind, Reached, AtLine
    <3> QED BY <3>1, <3>3
  <2>4. /\ NoDuplicateEmission'
        /\ \A k \in Kinds : \A i \in Lines : stored'[k][i] > 0 =>
               stored[k][i] > 0 \/ (k = kind[r] /\ i = NextLine(r))
    BY <1>1, <2>1, <2>2, <2>3, StoreEmits
  <2>5. ASSUME NEW k \in Kinds, NEW i \in Lines, stored'[k][i] > 0
        PROVE  Behind(r, k, i)'
    <3>1. Reached(r)' = NextLine(r)
      BY <2>1 DEF Reached, NextLine
    <3>2. CASE k = kind[r] /\ i = NextLine(r)
      BY <1>4, <2>1, <2>2, <3>1, <3>2 DEF Behind
    <3>3. CASE stored[k][i] > 0
      <4>1. /\ i <= Resumes(k) /\ Resumes(k) <= Len(journal[k])
            /\ kind[r] = k => i <= offset[r]
        BY <1>3, <2>1, <3>3 DEF Behind, Reached, AtLine
      <4>2. kind[r] = k => i <= NextLine(r)
        BY <1>4, <2>2, <4>1 DEF Lines
      <4>3. Resumes(k)' = Resumes(k)
        BY <2>1 DEF Resumes, cursorFile
      <4> QED BY <1>2, <2>1, <3>1, <4>1, <4>2, <4>3 DEF Behind
    <3> QED BY <2>4, <2>5, <3>2, <3>3
  <2>6. InHand(r)'
    BY <1>3, <2>1 DEF InHand, Loaded, AtLine, cursorFile
  <2> QED BY <1>2, <2>4, <2>5, <2>6, EmissionFromRun
<1>13. CASE SkipMalformed(r) \/ RecordSaved(r)
  <2> DEFINE offsets == [mem[r] EXCEPT ![kind[r]] = NextLine(r)]
  <2>1. /\ HasLine(r) /\ UNCHANGED <<kind, attempted, stored>>
        /\ pc[r] \in {"read", "saved"} /\ Loaded(r) /\ AtLine(r)
        /\ \E tries \in [Kinds -> Retry] : Advance(r, tries)
    <3>1. CASE SkipMalformed(r)
      <4>1. memRetries[r] \in [Kinds -> Retry]
        BY <1>1 DEF TypeOK
      <4> QED BY <3>1, <4>1 DEF SkipMalformed, sinks, Loaded, AtLine
    <3>2. CASE RecordSaved(r)
      <4>1. [memRetries[r] EXCEPT ![kind[r]] = NoRetry] \in [Kinds -> Retry]
        BY <1>1, OffsetFacts DEF TypeOK
      <4> QED BY <1>1, <3>2, <4>1 DEF RecordSaved, sinks, Loaded, AtLine, PendingLine
    <3> QED BY <1>13, <3>1, <3>2
  <2>2. PICK tries \in [Kinds -> Retry] : Advance(r, tries)
    BY <2>1
  <2>3. pc'[r] = "read" /\ offset'[r] = NextLine(r) /\ mem'[r] = offsets
    BY <1>1, <2>1, <2>2, AdvanceType
  <2>4. present' = TRUE /\ cursor' = offsets
    BY <2>2 DEF Advance, SaveCursor, SavesRecorded
  <2>5. present /\ mem[r] = cursor
    BY <1>3, <2>1 DEF InHand
  <2>6. NextLine(r) \in 1 .. Len(journal[kind[r]]) /\ NextLine(r) = offset[r] + 1
    BY <1>1, <2>1, NextLineType DEF NextLine
  <2>7. ASSUME NEW k \in Kinds, NEW i \in Lines, Behind(r, k, i)
        PROVE  Behind(r, k, i)'
    <3>1. CASE k = kind[r]
      <4>1. i <= NextLine(r)
        <5>1. i <= Reached(r)
          BY <2>1, <2>7, <3>1 DEF Behind
        <5> QED BY <1>4, <2>1, <2>6, <5>1 DEF Reached, Lines
      <4>2. cursor'[k] = NextLine(r) /\ journal[k] \in Seq(LineClasses)
        BY <1>1, <1>4, <2>4, <3>1 DEF TypeOK
      <4>3. NextLine(r) <= Len(journal[k])
        BY <2>6, <3>1, <4>2
      <4> QED BY <1>2, <2>3, <2>4, <4>1, <4>2, <4>3 DEF Behind, Resumes, Reached
    <3>2. CASE k # kind[r]
      <4>1. cursor'[k] = cursor[k]
        BY <1>4, <2>4, <2>5, <3>2
      <4> QED BY <1>2, <2>1, <2>4, <2>5, <2>7, <3>2, <4>1 DEF Behind, Resumes
    <3> QED BY <3>1, <3>2
  <2> QED BY <1>5, <2>1, <2>3, <2>4, <2>7 DEF InHand
<1>14. CASE RecordFailed(r)
  <2>1. /\ pc[r] = "exited" /\ UNCHANGED stored
        /\ \E tries : /\ SaveCursor(mem[r], tries)
                      /\ LeaveKind(r, mem, [memRetries EXCEPT ![r] = tries])
    BY <1>14 DEF RecordFailed, sinks
  <2>2. present /\ mem[r] = cursor
    BY <1>3, <2>1 DEF InHand, Loaded, AtLine
  <2>3. present' = TRUE /\ cursor' = cursor
    BY <2>1, <2>2 DEF SaveCursor, SavesRecorded
  <2>4. pc'[r] = "idle" \/ (pc'[r] = "open" /\ mem'[r] = mem[r])
    BY <1>4, <2>1 DEF LeaveKind, Exit, Goto
  <2> QED BY <1>2, <1>5, <2>1, <2>2, <2>3, <2>4
          DEF InHand, Behind, Loaded, AtLine, Resumes
<1>15. CASE Crash(r)
  <2>1. UNCHANGED <<cursorFile, stored>> /\ Exit(r) /\ pc[r] # "saved"
    BY <1>15 DEF Crash, DiesInHand, sinks
  <2>2. pc'[r] = "idle"
    BY <1>4, <2>1 DEF Exit, Goto
  <2> QED BY <1>2, <1>5, <2>1, <2>2
          DEF InHand, Behind, Loaded, AtLine, Resumes, cursorFile
<1> QED
  BY <1>6, <1>7, <1>8, <1>9, <1>10, <1>11, <1>12, <1>13, <1>14, <1>15, <1>20 DEF Step

\* A longer journal leaves every line in the database where it was.
LEMMA WriterEmission ==
    ASSUME EmissionInv, NEW k \in Kinds, Writer(k)
    PROVE  EmissionInv'
<1>1. TypeInv /\ TypeOK /\ TypeInv'
  BY WriterTypeInv DEF EmissionInv, TypeInv
<1>2. /\ JournalsGrow /\ UNCHANGED <<sinks, cursorFile, pc, locals>>
      /\ journal' \in [Kinds -> Seq(LineClasses)]
  BY <1>1, WriterType DEF TypeInv
<1>3. \A l \in Kinds : /\ Len(journal[l]) <= Len(journal'[l])
                       /\ Len(journal[l]) \in Nat /\ Len(journal'[l]) \in Nat
  <2>1. \A l \in Kinds : Len(journal[l]) \in Nat /\ Len(journal'[l]) \in Nat
    BY <1>1, <1>2 DEF TypeOK
  <2> QED BY <1>2, <2>1 DEF JournalsGrow
<1>4. \A l \in Kinds : Resumes(l)' = Resumes(l) /\ Resumes(l) \in Nat
  BY <1>1, <1>2, AdoptedFacts, OffsetFacts DEF Resumes, cursorFile, TypeOK
<1>5. UNCHANGED stored
  BY <1>2 DEF sinks
<1>6. NoDuplicateEmission'
  BY <1>5 DEF EmissionInv, NoDuplicateEmission
<1>7. (\A r \in Runs : /\ pc[r] = "adopt" /\ present => mem[r] = cursor
                       /\ pc[r] = "adopted" => ~present /\ mem[r] = Adopted
                       /\ pc[r] = "retries" \/ Loaded(r) => present /\ mem[r] = cursor)'
  BY <1>2 DEF EmissionInv, Loaded, AtLine, cursorFile, locals, Adopted
<1>8. ASSUME NEW l \in Kinds, NEW i \in Lines, stored'[l][i] > 0
      PROVE  /\ \/ i <= Resumes(l)' /\ Resumes(l)' <= Len(journal'[l])
                \/ \E r \in Runs : pc'[r] = "saved" /\ kind'[r] = l
             /\ \A r \in Runs : AtLine(r)' /\ kind'[r] = l =>
                   i <= (IF pc'[r] = "saved" THEN NextLine(r)' ELSE offset'[r])
  <2>1. /\ \/ i <= Resumes(l) /\ Resumes(l) <= Len(journal[l])
           \/ \E r \in Runs : pc[r] = "saved" /\ kind[r] = l
        /\ \A r \in Runs : AtLine(r) /\ kind[r] = l =>
              i <= (IF pc[r] = "saved" THEN NextLine(r) ELSE offset[r])
    BY <1>5, <1>8 DEF EmissionInv
  <2>2. UNCHANGED <<pc, kind, offset>>
    BY <1>2 DEF locals
  <2>3. \A r \in Runs : (AtLine(r)' <=> AtLine(r)) /\ NextLine(r)' = NextLine(r)
    BY <2>2 DEF AtLine, NextLine
  <2> QED BY <1>3, <1>4, <2>1, <2>2, <2>3
<1> QED BY <1>1, <1>6, <1>7, <1>8 DEF EmissionInv

\* Before the first run, the database has what the profiles' cursors are past.
LEMMA InitEmission == Init => EmissionInv
<1> SUFFICES ASSUME Init PROVE EmissionInv
  OBVIOUS
<1>1. TypeInv
  BY InitTypeInv
<1>2. NoDuplicateEmission
  BY DEF Init, NoDuplicateEmission
<1>3. \A r \in Runs : pc[r] = "idle"
  BY DEF Init
<1>4. ASSUME NEW k \in Kinds, NEW i \in Lines, stored[k][i] > 0
      PROVE  i <= Resumes(k) /\ Resumes(k) <= Len(journal[k])
  <2>1. PICK c \in OldCursors : i <= c[k]
    BY <1>4 DEF Init
  <2>2. PICK d \in OldCursors : Adopted[k] = d[k] /\ \A e \in OldCursors : e[k] <= Adopted[k]
    BY AdoptedFacts, <2>1
  <2>3. /\ c[k] \in Nat /\ d[k] \in Nat /\ i \in Nat /\ InitLines[k] \in Nat
        /\ c[k] <= d[k] /\ d[k] <= InitLines[k]
    BY <2>2, CursorsAssumption, BoundsAssumption, OffsetFacts
  <2>4. Len(journal[k]) = InitLines[k]
    <3>1. journal[k] = [j \in 1 .. InitLines[k] |-> "good"]
      BY DEF Init
    <3> QED BY <2>3, <3>1
  <2> QED BY <2>1, <2>2, <2>3, <2>4 DEF Init, Resumes
<1> QED BY <1>1, <1>2, <1>3, <1>4 DEF EmissionInv, Loaded, AtLine

\* Nothing that changes nothing breaks it.
LEMMA StutterEmission ==
    ASSUME EmissionInv, UNCHANGED vars
    PROVE  EmissionInv'
<1>1. TypeInv'
  BY StutterTypeInv DEF EmissionInv
<1> QED
  BY <1>1
  DEF EmissionInv, NoDuplicateEmission, Loaded, AtLine, Resumes, NextLine,
      vars, journals, sinks, cursorFile, locals

\* Every step keeps it, a death in hand excepted.
LEMMA NextEmission ==
    ASSUME RunsInTurn, SavesRecorded, EmissionInv, [Next]_vars,
           \A r \in Runs : ~DiesInHand(r)
    PROVE  EmissionInv'
<1>1. CASE UNCHANGED vars
  BY <1>1, StutterEmission
<1> QED BY <1>1, StepEmission, WriterEmission, BoundsAssumption DEF Next

\* When the runs come one after the other and whatever the database took gets
\* recorded, no entry is saved twice: not after a failure, not when the journal
\* starts over, not when the cursors of several profiles are adopted, and not when
\* runs die, unless one dies between the save and the cursor.
THEOREM NoDuplicateEmissionAlways ==
    ASSUME RunsInTurn, SavesRecorded
    PROVE  Spec /\ NoneDiesInHand => []NoDuplicateEmission
<1> DEFINE Kept == \A r \in Runs : ~DiesInHand(r)
<1>1. Init => EmissionInv
  BY InitEmission
<1>2. EmissionInv /\ [Next]_vars /\ Kept => EmissionInv'
  BY NextEmission
<1>3. EmissionInv /\ UNCHANGED vars => EmissionInv'
  <2> SUFFICES ASSUME EmissionInv, UNCHANGED vars PROVE EmissionInv'
    OBVIOUS
  <2> QED BY StutterEmission
<1>4. EmissionInv => NoDuplicateEmission
  BY DEF EmissionInv
<1>5. NoneDiesInHand <=> [][Kept]_vars
  BY DEF NoneDiesInHand
<1> HIDE DEF Kept
<1> QED BY <1>1, <1>2, <1>3, <1>4, <1>5, PTL DEF Spec

-----------------------------------------------------------------------------
(* The runs implement EngramMirror. *)

\* The initial states are initial states of the mirror.
LEMMA InitMirror == CursorsLocal /\ Init => Mirror!Init
<1> SUFFICES ASSUME CursorsLocal, Init PROVE Mirror!Init
  OBVIOUS
<1>1. /\ journal \in [Kinds -> Seq({"good"})]
      /\ \A k \in Kinds : Len(journal[k]) = InitLines[k] /\ InitLines[k] \in Offsets
  <2>1. ASSUME NEW k \in Kinds
        PROVE  /\ journal[k] \in Seq({"good"}) /\ Len(journal[k]) = InitLines[k]
               /\ InitLines[k] \in Offsets
    <3>1. journal[k] = [i \in 1 .. InitLines[k] |-> "good"] /\ InitLines[k] \in Nat
      BY BoundsAssumption, OffsetFacts DEF Init
    <3> QED BY <3>1, BoundsAssumption
  <2>2. journal = [k \in Kinds |-> journal[k]]
    BY DEF Init
  <2> QED BY <2>1, <2>2
<1> DEFINE done == IF OldCursors = {} THEN ZeroOffsets ELSE Adopted
<1>2. done \in [Kinds -> Offsets]
  BY AdoptedFacts, OffsetFacts
<1>3. ASSUME NEW k \in Kinds
      PROVE  Mirrored(k) = 1 .. done[k] /\ done[k] <= InitLines[k]
  <2>1. Mirrored(k) = {i \in Lines : \E c \in OldCursors : i <= c[k]}
    BY DEF Init, Mirrored
  <2>2. CASE OldCursors = {}
    <3>1. done[k] = 0 /\ InitLines[k] \in Nat
      BY <2>2, <1>1, OffsetFacts DEF ZeroOffsets
    <3> QED BY <2>1, <2>2, <3>1
  <2>3. CASE OldCursors # {}
    <3>1. done[k] = Adopted[k]
      BY <2>3
    <3>2. PICK c \in OldCursors : Adopted[k] = c[k] /\ \A d \in OldCursors : d[k] <= Adopted[k]
      BY <2>3, AdoptedFacts
    <3>3. /\ c[k] <= InitLines[k]
          /\ \A d \in OldCursors : d[k] \in Offsets
      BY CursorsAssumption
    <3>4. Mirrored(k) = {i \in Lines : i <= Adopted[k]}
      <4>1. ASSUME NEW i \in Lines
            PROVE  (\E d \in OldCursors : i <= d[k]) <=> i <= Adopted[k]
        <5>1. i \in Nat /\ Adopted[k] \in Nat /\ \A d \in OldCursors : d[k] \in Nat
          BY <3>2, <3>3, OffsetFacts
        <5>2. ASSUME NEW d \in OldCursors, i <= d[k]
              PROVE  i <= Adopted[k]
          <6>1. d[k] <= Adopted[k] /\ d[k] \in Nat
            BY <3>2, <5>1
          <6> QED BY <5>1, <5>2, <6>1
        <5> QED BY <3>2, <5>2
      <4> QED BY <2>1, <4>1
    <3>5. Adopted[k] \in Offsets
      BY <3>2, <3>3
    <3> QED BY <3>1, <3>2, <3>3, <3>4, <3>5, BoundsAssumption DEF Lines, Offsets
  <2> QED BY <2>2, <2>3
<1>4. [k \in Kinds |-> Mirrored(k)] = [k \in Kinds |-> 1 .. done[k]]
  BY <1>3
<1> HIDE DEF done
<1>5. \A k \in Kinds : Len(journal[k]) <= MaxLines /\ done[k] <= Len(journal[k])
  BY <1>1, <1>3, BoundsAssumption DEF Offsets
<1>6. done \in [Kinds -> 0 .. MaxLines]
  BY <1>2 DEF Offsets
<1>7. \E d \in [Kinds -> 0 .. MaxLines] :
         /\ \A k \in Kinds : d[k] <= Len(journal[k])
         /\ [k \in Kinds |-> Mirrored(k)] = [k \in Kinds |-> 1 .. d[k]]
  BY <1>4, <1>5, <1>6
<1> QED BY <1>1, <1>5, <1>7 DEF Mirror!Init

\* A line added in its turn is a step of the mirror, or was there already.
LEMMA LineMirrored ==
    ASSUME SkipInv, NEW r \in Runs, HasLine(r), LineClass(r) # "malformed",
           UNCHANGED journal,
           \A k \in Kinds :
               MirroredAfter(k) = Mirrored(k) \cup (IF k = kind[r] THEN {NextLine(r)} ELSE {})
    PROVE  Mirror!MirrorLine(kind[r], NextLine(r)) \/ UNCHANGED Mirror!vars
<1>1. TypeOK
  BY DEF SkipInv, TypeInv
<1>2. kind[r] \in Kinds /\ NextLine(r) \in 1 .. Len(journal[kind[r]]) /\ offset[r] \in Nat
  BY <1>1, NextLineType, OffsetFacts DEF TypeOK
<1>3. \A j \in 1 .. NextLine(r) - 1 : j \in Mirrored(kind[r]) \/ journal[kind[r]][j] = "malformed"
  <2>1. NextLine(r) - 1 = offset[r]
    BY <1>2 DEF NextLine
  <2>2. \A j \in 1 .. offset[r] : Settled(kind[r], j)
    BY DEF SkipInv, OffsetsSettled, SettledUpTo
  <2> QED BY <2>1, <2>2 DEF Settled
<1>4. [k \in Kinds |-> Mirrored(k)]' = [k \in Kinds |-> MirroredAfter(k)]
  BY DEF Mirrored, MirroredAfter
<1>5. CASE NextLine(r) \in Mirrored(kind[r])
  <2>1. \A k \in Kinds : MirroredAfter(k) = Mirrored(k)
    BY <1>5
  <2> QED BY <1>4, <2>1 DEF Mirror!vars
<1>6. CASE NextLine(r) \notin Mirrored(kind[r])
  <2>1. [k \in Kinds |-> MirroredAfter(k)]
          = [[k \in Kinds |-> Mirrored(k)] EXCEPT ![kind[r]] = @ \cup {NextLine(r)}]
    BY <1>2
  <2>2. \A j \in 1 .. NextLine(r) - 1 : Mirror!Settled(kind[r], j)
    BY <1>2, <1>3 DEF Mirror!Settled
  <2> QED BY <1>2, <1>4, <1>6, <2>1, <2>2 DEF Mirror!MirrorLine, LineClass
<1> QED BY <1>5, <1>6

\* What Store adds is the line the run stands at.
LEMMA StoreMirrors ==
    ASSUME TypeOK, NEW r \in Runs, HasLine(r), Store(r), UNCHANGED quarantine
    PROVE  \A k \in Kinds :
               MirroredAfter(k) = Mirrored(k) \cup (IF k = kind[r] THEN {NextLine(r)} ELSE {})
<1>1. kind[r] \in Kinds /\ NextLine(r) \in Lines
  BY NextLineType DEF TypeOK
<1> DEFINE before == stored[kind[r]][NextLine(r)]
           copies == IF before < 2 THEN before + 1 ELSE before
<1>2. stored \in [Kinds -> [Lines -> 0 .. 2]]
  BY DEF TypeOK
<1>3. stored' = [stored EXCEPT ![kind[r]] = [stored[kind[r]] EXCEPT ![NextLine(r)] = copies]]
  BY DEF Store
<1>4. copies > 0
  BY <1>1, <1>2
<1> HIDE DEF copies
<1>5. ASSUME NEW k \in Kinds, NEW i \in Lines
      PROVE  stored'[k][i] > 0 <=> stored[k][i] > 0 \/ (k = kind[r] /\ i = NextLine(r))
  BY <1>1, <1>2, <1>3, <1>4
<1> QED BY <1>1, <1>5 DEF Mirrored, MirroredAfter

\* Every step is a step of the mirror or leaves it alone.
LEMMA NextMirror ==
    ASSUME SidecarReliable, SkipInv, [Next]_vars
    PROVE  [Mirror!Next]_Mirror!vars
<1>1. TypeInv /\ TypeOK /\ PendingLine /\ TailFits
  BY DEF SkipInv, TypeInv
<1>2. ASSUME UNCHANGED <<journal, stored, quarantine>>
      PROVE  UNCHANGED Mirror!vars
  BY <1>2 DEF Mirror!vars, Mirrored
<1>3. ASSUME NEW r \in Runs, HasLine(r), LineClass(r) # "malformed", UNCHANGED journal,
             \A k \in Kinds :
               MirroredAfter(k) = Mirrored(k) \cup (IF k = kind[r] THEN {NextLine(r)} ELSE {})
      PROVE  [Mirror!Next]_Mirror!vars
  <2>1. kind[r] \in Kinds /\ NextLine(r) \in 1 .. MaxLines
    BY <1>1, <1>3, NextLineType DEF TypeOK, Lines
  <2>2. Mirror!MirrorLine(kind[r], NextLine(r)) \/ UNCHANGED Mirror!vars
    BY <1>3, LineMirrored
  <2> QED BY <2>1, <2>2 DEF Mirror!Next
<1>4. ASSUME NEW r \in Runs, Step(r) \/ Crash(r)
      PROVE  [Mirror!Next]_Mirror!vars
  <2>1. UNCHANGED journal
    BY <1>1, <1>4, StepShape DEF journals
  <2>2. CASE SaveOk(r) \/ SaveTimeout(r)
    <3>1. HasLine(r) /\ LineClass(r) # "malformed" /\ UNCHANGED quarantine
      BY <1>1, <2>2 DEF SaveOk, SaveTimeout, PendingLine
    <3>2. Store(r) \/ UNCHANGED stored
      BY <2>2 DEF SaveOk, SaveTimeout
    <3>3. CASE Store(r)
      BY <1>1, <1>3, <2>1, <3>1, <3>3, StoreMirrors
    <3> QED BY <1>2, <2>1, <3>1, <3>2, <3>3
  <2>3. CASE Quarantine(r)
    <3>1. /\ HasLine(r) /\ LineClass(r) # "malformed" /\ UNCHANGED stored
          /\ quarantine' = [quarantine EXCEPT ![kind[r]] = @ \cup {NextLine(r)}]
      BY <1>1, <2>3 DEF Quarantine, PendingLine, SidecarReliable
    <3>2. \A k \in Kinds :
            MirroredAfter(k) = Mirrored(k) \cup (IF k = kind[r] THEN {NextLine(r)} ELSE {})
      BY <1>1, <3>1 DEF TypeOK, Mirrored, MirroredAfter
    <3> QED BY <1>3, <2>1, <3>1, <3>2
  <2>4. CASE ~SaveOk(r) /\ ~SaveTimeout(r) /\ ~Quarantine(r)
    <3>1. UNCHANGED <<stored, quarantine>>
      BY <1>4, <2>4 DEF Step, Load, Adopt, WriteThrough, LoadRetries, Open, StopReading, SkipMalformed,
                        BeginSave, SaveExit, RecordSaved, RecordFailed, Crash, sinks
    <3> QED BY <1>2, <2>1, <3>1
  <2> QED BY <2>2, <2>3, <2>4
<1>5. ASSUME NEW k \in Kinds, Writer(k)
      PROVE  [Mirror!Next]_Mirror!vars
  <2>1. UNCHANGED <<stored, quarantine>>
    BY <1>1, <1>5, WriterType DEF sinks
  <2>2. CASE BeginLine(k) \/ TearLine(k)
    BY <1>2, <2>1, <2>2 DEF BeginLine, TearLine
  <2>3. CASE \E class \in LineClasses : EndLine(k, class)
    <3>1. PICK class \in LineClasses : EndLine(k, class)
      BY <2>3
    <3>2. /\ Len(journal[k]) < MaxLines
          /\ journal' = [journal EXCEPT ![k] = Append(@, class)]
      BY <1>1, <3>1 DEF EndLine, TailFits
    <3>3. UNCHANGED [l \in Kinds |-> Mirrored(l)]
      BY <2>1 DEF Mirrored
    <3>4. Mirror!AppendLine(k, class) /\ class \in Mirror!LineClasses
      BY <3>2, <3>3 DEF Mirror!AppendLine, Mirror!LineClasses, LineClasses
    <3> QED BY <3>4 DEF Mirror!Next
  <2> QED BY <1>5, <2>2, <2>3 DEF Writer
<1>6. CASE UNCHANGED vars
  BY <1>2, <1>6 DEF vars, journals, sinks
<1> QED BY <1>4, <1>5, <1>6, BoundsAssumption DEF Next

\* The overlapping, crashing runs implement the mirror: lines reach the database
\* or the sidecar in journal order and none is passed over, as long as the
\* sidecar can be written and no cursor comes from another machine.
THEOREM ImplementsMirror ==
    ASSUME SidecarReliable, CursorsLocal
    PROVE  Spec => MirrorSpec
<1>1. Init => SkipInv /\ Mirror!Init
  BY InitSkipInv, InitMirror
<1>2. SkipInv /\ [Next]_vars => SkipInv' /\ [Mirror!Next]_Mirror!vars
  BY NextSkipInv, NextMirror
<1> QED BY <1>1, <1>2, PTL DEF Spec, MirrorSpec, Mirror!Spec
=============================================================================
