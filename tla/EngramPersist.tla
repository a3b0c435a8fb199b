---------------------------- MODULE EngramPersist ----------------------------
(***************************************************************************)
(* The engram-persist Stop hook (knowledge/engram_persist.py): every run   *)
(* reads the lines of decisions.jsonl and failures.jsonl past a cursor     *)
(* kept in engram_cursor.json, calls `engram save` once per line, and       *)
(* advances the cursor.  Runs of several sessions overlap without a lock,  *)
(* any of them may die between two steps, and the journals grow meanwhile. *)
(*                                                                         *)
(* Lines have one length, so that a byte offset is a number of lines.      *)
(***************************************************************************)
EXTENDS Naturals, Sequences

CONSTANTS
    Runs,            \* hook processes that may overlap
    MaxLines,        \* bound on the lines of a journal
    MaxSavesPerRun,  \* MAX_SAVES_PER_RUN
    MaxAttempts,     \* MAX_ATTEMPTS_PER_ENTRY
    InitLines,       \* [Kinds -> lines there before the first run of this cursor]
    OldCursors,      \* the offsets in the cursors of adopt_cursor_dirs that exist
    StoreCursor,     \* the offsets in the copy that travels with the store
    FailingWrites,   \* which writes may raise OSError: "cursor", "quarantine"
    Crashes,         \* who may be killed: "run", "writer", "engram"
    Appends          \* the kinds whose journal grows during the behaviour

Kinds == {"decision", "failure"}
KindAfter(k) == IF k = "decision" THEN "failure" ELSE "end"

Lines == 1 .. MaxLines
Offsets == 0 .. MaxLines
LineClasses == {"good", "poison", "malformed"}
NoRetry == [offset |-> 0, attempts |-> 0]
NoRetries == [k \in Kinds |-> NoRetry]
ZeroOffsets == [k \in Kinds |-> 0]
Retry == [offset : Offsets, attempts : 0 .. MaxAttempts - 1]

ASSUME BoundsAssumption ==
    /\ MaxLines \in Nat /\ MaxSavesPerRun \in Nat /\ MaxAttempts \in Nat \ {0}
    /\ InitLines \in [Kinds -> Offsets]
    /\ FailingWrites \subseteq {"cursor", "quarantine"}
    /\ Crashes \subseteq {"run", "writer", "engram"}
    /\ Appends \subseteq Kinds

\* Old cursors index the same append-only journals, and one of them is the
\* furthest for each kind.
ASSUME CursorsAssumption ==
    /\ OldCursors \subseteq [Kinds -> Offsets]
    /\ \A c \in OldCursors : \A k \in Kinds : c[k] <= InitLines[k]
    /\ OldCursors # {} =>
          \A k \in Kinds : \E c \in OldCursors : \A d \in OldCursors : d[k] <= c[k]
    /\ StoreCursor \in [Kinds -> Offsets]

VARIABLES
    journal,     \* journal[k]: classes of the complete lines of the JSONL file
    tail,        \* tail[k]: what follows the last newline of the file
    stored,      \* stored[k][i]: copies of the line in the Engram database (2 = many)
    quarantine,  \* quarantine[k]: lines in engram_quarantine.jsonl
    exits,       \* exits[k][i]: failed `engram save` exits on the line, up to MaxAttempts
    present,     \* engram_cursor.json exists
    cursor,      \* its decisions_offset and failures_offset
    retries,     \* its "retries" object
    pc, mem, memRetries, kind, offset, attempted    \* the locals of each run

journals == <<journal, tail>>
sinks == <<stored, quarantine, exits>>
cursorFile == <<present, cursor, retries>>
locals == <<mem, memRetries, kind, offset, attempted>>
vars == <<journals, sinks, cursorFile, pc, locals>>

-----------------------------------------------------------------------------
(* What a line of a journal has come to. *)

Mirrored(k) == {i \in Lines : stored[k][i] > 0} \cup quarantine[k]
Settled(k, i) == i \in Mirrored(k) \/ journal[k][i] = "malformed"

-----------------------------------------------------------------------------
(* The cursor file. *)

\* Mutant: the newest profile wins instead of the furthest.
AdoptedNearest ==
    [k \in Kinds |->
        IF OldCursors = {} THEN StoreCursor[k]
        ELSE CHOOSE n \in Offsets :
                /\ \E c \in OldCursors : n = c[k]
                /\ \A c \in OldCursors : c[k] >= n]

\* _adopt_cursor: per file, the furthest of the profiles' cursors; the store's
\* copy only when there is none.
Adopted ==
    [k \in Kinds |->
        IF OldCursors = {} THEN StoreCursor[k]
        ELSE CHOOSE n \in Offsets :
                /\ \E c \in OldCursors : n = c[k]
                /\ \A c \in OldCursors : c[k] <= n]

\* _save_cursor: the whole file is replaced, or an OSError leaves it as it was.
SaveCursor(offsets, tries) ==
    \/ /\ present' = TRUE
       /\ cursor' = offsets
       /\ retries' = tries
    \/ /\ "cursor" \in FailingWrites
       /\ UNCHANGED cursorFile

-----------------------------------------------------------------------------
(* The writer: persist_results in the compound-loop worker. *)

\* open(..., "a") and f.write: the start of a line becomes visible.  After a
\* torn line the new one continues it.
BeginLine(k) ==
    /\ tail[k] \in {"none", "torn"}
    /\ Len(journal[k]) < MaxLines
    /\ tail' = [tail EXCEPT ![k] = IF @ = "none" THEN "open" ELSE "joined"]
    /\ UNCHANGED <<journal, sinks, cursorFile, pc, locals>>

\* The newline is written.  A line joined to a torn one does not parse.
EndLine(k, class) ==
    /\ tail[k] \in {"open", "joined"}
    /\ class \in (IF tail[k] = "open" THEN {"good", "poison"} ELSE {"malformed"})
    /\ journal' = [journal EXCEPT ![k] = Append(@, class)]
    /\ tail' = [tail EXCEPT ![k] = "none"]
    /\ UNCHANGED <<sinks, cursorFile, pc, locals>>

\* The writer dies with the line unfinished.
TearLine(k) ==
    /\ "writer" \in Crashes
    /\ tail[k] \in {"open", "joined"}
    /\ tail' = [tail EXCEPT ![k] = "torn"]
    /\ UNCHANGED <<journal, sinks, cursorFile, pc, locals>>

Writer(k) ==
    \/ BeginLine(k)
    \/ \E class \in LineClasses : EndLine(k, class)
    \/ TearLine(k)

-----------------------------------------------------------------------------
(* A run: EngramPersister.persist_new_entries. *)

Goto(r, label) == pc' = [pc EXCEPT ![r] = label]

\* The process ends, or is killed: its locals are gone.
Exit(r) ==
    /\ Goto(r, "idle")
    /\ mem' = [mem EXCEPT ![r] = ZeroOffsets]
    /\ memRetries' = [memRetries EXCEPT ![r] = NoRetries]
    /\ kind' = [kind EXCEPT ![r] = "decision"]
    /\ offset' = [offset EXCEPT ![r] = 0]
    /\ attempted' = [attempted EXCEPT ![r] = 0]

\* A Stop event starts the hook.  _load_cursor gives zeros when there is no file.
Load(r) ==
    /\ pc[r] = "idle"
    /\ mem' = [mem EXCEPT ![r] = cursor]
    /\ Goto(r, "adopt")
    /\ UNCHANGED <<journals, sinks, cursorFile, memRetries, kind, offset, attempted>>

\* `if not cursor_path.is_file()`: a file another run wrote since Load counts.
\* Without one the old cursors are read, which nobody writes any more.
Adopt(r) ==
    /\ pc[r] = "adopt"
    /\ \/ /\ present
          /\ Goto(r, "retries")
          /\ UNCHANGED mem
       \/ /\ ~present
          /\ mem' = [mem EXCEPT ![r] = Adopted]
          /\ Goto(r, "adopted")
    /\ UNCHANGED <<journals, sinks, cursorFile, memRetries, kind, offset, attempted>>

\* The adopted offsets are written through, over whatever cursor another run may
\* have written since the check.
WriteThrough(r) ==
    /\ pc[r] = "adopted"
    /\ SaveCursor(mem[r], NoRetries)
    /\ Goto(r, "retries")
    /\ UNCHANGED <<journals, sinks, locals>>

\* _load_retries reads the file a second time.
LoadRetries(r) ==
    /\ pc[r] = "retries"
    /\ memRetries' = [memRetries EXCEPT ![r] = retries]
    /\ Goto(r, "open")
    /\ UNCHANGED <<journals, sinks, cursorFile, mem, kind, offset, attempted>>

\* The loop leaves this kind: the next one, or the end of the run.
LeaveKind(r, m, t) ==
    IF KindAfter(kind[r]) = "end"
    THEN Exit(r)
    ELSE /\ Goto(r, "open")
         /\ kind' = [kind EXCEPT ![r] = KindAfter(@)]
         /\ offset' = [offset EXCEPT ![r] = 0]
         /\ mem' = m
         /\ memRetries' = t
         /\ UNCHANGED attempted

\* Opens the JSONL of the kind; an offset past its end starts over.
Open(r) ==
    /\ pc[r] = "open"
    /\ offset' = [offset EXCEPT ![r] =
                    IF mem[r][kind[r]] > Len(journal[kind[r]]) THEN 0 ELSE mem[r][kind[r]]]
    /\ Goto(r, "read")
    /\ UNCHANGED <<journals, sinks, cursorFile, mem, memRetries, kind, attempted>>

HasLine(r) == offset[r] < Len(journal[kind[r]])
NextLine(r) == offset[r] + 1
LineClass(r) == journal[kind[r]][NextLine(r)]

\* End of file, an unfinished line, or the cap on saves over both kinds.
StopReading(r) ==
    /\ pc[r] = "read"
    /\ ~HasLine(r) \/ attempted[r] >= MaxSavesPerRun
    /\ LeaveKind(r, mem, memRetries)
    /\ UNCHANGED <<journals, sinks, cursorFile>>

\* Mutant: the offsets of both journals are set.
AdvanceBothKinds(r, tries) ==
    LET offsets == [k \in Kinds |-> NextLine(r)] IN
    /\ offset' = [offset EXCEPT ![r] = NextLine(r)]
    /\ mem' = [mem EXCEPT ![r] = offsets]
    /\ memRetries' = [memRetries EXCEPT ![r] = tries]
    /\ SaveCursor(offsets, tries)
    /\ Goto(r, "read")

\* The cursor moves past the line, in memory and in the file.
Advance(r, tries) ==
    LET offsets == [mem[r] EXCEPT ![kind[r]] = NextLine(r)] IN
    /\ offset' = [offset EXCEPT ![r] = NextLine(r)]
    /\ mem' = [mem EXCEPT ![r] = offsets]
    /\ memRetries' = [memRetries EXCEPT ![r] = tries]
    /\ SaveCursor(offsets, tries)
    /\ Goto(r, "read")

SkipMalformed(r) ==
    /\ pc[r] = "read"
    /\ HasLine(r)
    /\ attempted[r] < MaxSavesPerRun
    /\ LineClass(r) = "malformed"
    /\ Advance(r, memRetries[r])
    /\ UNCHANGED <<journals, sinks, kind, attempted>>

BeginSave(r) ==
    /\ pc[r] = "read"
    /\ HasLine(r)
    /\ attempted[r] < MaxSavesPerRun
    /\ LineClass(r) # "malformed"
    /\ attempted' = [attempted EXCEPT ![r] = @ + 1]
    /\ Goto(r, "save")
    /\ UNCHANGED <<journals, sinks, cursorFile, mem, memRetries, kind, offset>>

Store(r) ==
    stored' = [stored EXCEPT ![kind[r]][NextLine(r)] = IF @ < 2 THEN @ + 1 ELSE @]

\* `engram save` exits 0.
SaveOk(r) ==
    /\ pc[r] = "save"
    /\ LineClass(r) = "good"
    /\ Store(r)
    /\ Goto(r, "saved")
    /\ UNCHANGED <<journals, quarantine, exits, cursorFile, locals>>

\* It exits with an error: always for a poison line, in an outage for any.
SaveExit(r) ==
    /\ pc[r] = "save"
    /\ exits' = [exits EXCEPT ![kind[r]][NextLine(r)] = IF @ < MaxAttempts THEN @ + 1 ELSE @]
    /\ Goto(r, "exited")
    /\ UNCHANGED <<journals, stored, quarantine, cursorFile, locals>>

\* Mutant: `continue` where the code breaks out of the kind.
SaveTimeoutContinues(r) ==
    /\ pc[r] = "save"
    /\ \/ UNCHANGED stored
       \/ "engram" \in Crashes /\ LineClass(r) = "good" /\ Store(r)
    /\ offset' = [offset EXCEPT ![r] = @ + 1]
    /\ Goto(r, "read")
    /\ UNCHANGED <<journals, quarantine, exits, cursorFile, mem, memRetries, kind, attempted>>

\* It is killed by the timeout, before or after the database took the line, or
\* never starts: no attempt is used and this kind is left.
SaveTimeout(r) ==
    /\ pc[r] = "save"
    /\ \/ UNCHANGED stored
       \/ "engram" \in Crashes /\ LineClass(r) = "good" /\ Store(r)
    /\ LeaveKind(r, mem, memRetries)
    /\ UNCHANGED <<journals, quarantine, exits, cursorFile>>

\* Mutant: a save clears the attempts of both kinds.
RecordSavedForgetsAll(r) ==
    /\ pc[r] = "saved"
    /\ Advance(r, NoRetries)
    /\ UNCHANGED <<journals, sinks, kind, attempted>>

\* The line is in the database or in the sidecar.
RecordSaved(r) ==
    /\ pc[r] = "saved"
    /\ Advance(r, [memRetries[r] EXCEPT ![kind[r]] = NoRetry])
    /\ UNCHANGED <<journals, sinks, kind, attempted>>

\* Mutant: the count of the entry before is carried over to this one.
AttemptsOfAnyOffset(r) == memRetries[r][kind[r]].attempts + 1

\* Mutant: the count is never read back.
AttemptsForgotten(r) == 1

\* The attempts this failure makes; a count kept for another offset starts over.
Attempts(r) ==
    LET previous == memRetries[r][kind[r]] IN
    IF previous.attempts > 0 /\ previous.offset = offset[r]
    THEN previous.attempts + 1
    ELSE 1

\* Mutant: off by one, the last attempt is recorded instead of quarantining.
RecordFailedOnceMore(r) ==
    /\ pc[r] = "exited"
    /\ Attempts(r) <= MaxAttempts
    /\ LET tries == [memRetries[r] EXCEPT ![kind[r]] =
                        [offset |-> offset[r], attempts |-> Attempts(r)]] IN
       /\ SaveCursor(mem[r], tries)
       /\ LeaveKind(r, mem, [memRetries EXCEPT ![r] = tries])
    /\ UNCHANGED <<journals, sinks>>

\* The count is kept with the offset and this kind is left for the next run.
RecordFailed(r) ==
    /\ pc[r] = "exited"
    /\ Attempts(r) < MaxAttempts
    /\ LET tries == [memRetries[r] EXCEPT ![kind[r]] =
                        [offset |-> offset[r], attempts |-> Attempts(r)]] IN
       /\ SaveCursor(mem[r], tries)
       /\ LeaveKind(r, mem, [memRetries EXCEPT ![r] = tries])
    /\ UNCHANGED <<journals, sinks>>

\* The last attempt: the line goes to the sidecar, whose write may fail silently.
Quarantine(r) ==
    /\ pc[r] = "exited"
    /\ Attempts(r) >= MaxAttempts
    /\ \/ quarantine' = [quarantine EXCEPT ![kind[r]] = @ \cup {NextLine(r)}]
       \/ "quarantine" \in FailingWrites /\ UNCHANGED quarantine
    /\ Goto(r, "saved")
    /\ UNCHANGED <<journals, stored, exits, cursorFile, locals>>

\* The run is killed: the Stop hook's timeout, or the machine goes down.
Crash(r) ==
    /\ "run" \in Crashes
    /\ pc[r] # "idle"
    /\ Exit(r)
    /\ UNCHANGED <<journals, sinks, cursorFile>>

Step(r) ==
    \/ Load(r)
    \/ Adopt(r)
    \/ WriteThrough(r)
    \/ LoadRetries(r)
    \/ Open(r)
    \/ StopReading(r)
    \/ SkipMalformed(r)
    \/ BeginSave(r)
    \/ SaveOk(r)
    \/ SaveExit(r)
    \/ SaveTimeout(r)
    \/ RecordSaved(r)
    \/ RecordFailed(r)
    \/ Quarantine(r)

Init ==
    /\ journal = [k \in Kinds |-> [i \in 1 .. InitLines[k] |-> "good"]]
    /\ tail = [k \in Kinds |-> "none"]
    /\ stored = [k \in Kinds |-> [i \in Lines |->
                    IF \E c \in OldCursors : i <= c[k] THEN 1 ELSE 0]]
    /\ quarantine = [k \in Kinds |-> {}]
    /\ exits = [k \in Kinds |-> [i \in Lines |-> 0]]
    /\ present = FALSE
    /\ cursor = ZeroOffsets
    /\ retries = NoRetries
    /\ pc = [r \in Runs |-> "idle"]
    /\ mem = [r \in Runs |-> ZeroOffsets]
    /\ memRetries = [r \in Runs |-> NoRetries]
    /\ kind = [r \in Runs |-> "decision"]
    /\ offset = [r \in Runs |-> 0]
    /\ attempted = [r \in Runs |-> 0]

Next ==
    \/ \E k \in Appends : Writer(k)
    \/ \E r \in Runs : Step(r) \/ Crash(r)

Spec == Init /\ [][Next]_vars

\* Stop events keep coming and the operating system runs the process that
\* handles one; not every `engram save` is cut off by the timeout.
FairRun(r) == WF_vars(Step(r)) /\ SF_vars(SaveOk(r) \/ SaveExit(r))

FairSpec == Spec /\ \A r \in Runs : FairRun(r)

-----------------------------------------------------------------------------
(* Properties. *)

\* Every variable keeps its shape, and no offset points past the file's bound.
TypeOK ==
    /\ journal \in [Kinds -> Seq(LineClasses)]
    /\ \A k \in Kinds : Len(journal[k]) <= MaxLines
    /\ tail \in [Kinds -> {"none", "open", "joined", "torn"}]
    /\ stored \in [Kinds -> [Lines -> 0 .. 2]]
    /\ quarantine \in [Kinds -> SUBSET Lines]
    /\ exits \in [Kinds -> [Lines -> 0 .. MaxAttempts]]
    /\ present \in BOOLEAN
    /\ cursor \in [Kinds -> Offsets]
    /\ retries \in [Kinds -> Retry]
    /\ pc \in [Runs -> {"idle", "adopt", "adopted", "retries", "open", "read",
                        "save", "saved", "exited"}]
    /\ mem \in [Runs -> [Kinds -> Offsets]]
    /\ memRetries \in [Runs -> [Kinds -> Retry]]
    /\ kind \in [Runs -> Kinds]
    /\ offset \in [Runs -> Offsets]
    /\ attempted \in [Runs -> Nat]

\* The cursor never stands past a line that is neither in the database, nor in
\* the sidecar, nor undecodable: whatever runs overlap or die, no entry is
\* passed over.
NothingSkipped ==
    \A k \in Kinds : \A i \in 1 .. cursor[k] :
        i <= Len(journal[k]) /\ Settled(k, i)

\* An entry reaches the sidecar only after MaxAttempts failed exits of its own:
\* timeouts, crashes and the failures of another entry never use one up.
QuarantineEarned ==
    \A k \in Kinds : \A i \in quarantine[k] : exits[k][i] = MaxAttempts

\* An entry is saved into the database at most once.
NoDuplicateEmission == \A k \in Kinds : \A i \in Lines : stored[k][i] <= 1

\* The persisted count of a stuck entry only grows until the cursor moves past
\* the entry: a run that does something else does not forget it.
AttemptsKept ==
    [][\A k \in Kinds :
          retries[k].attempts > 0 /\ retries[k].offset = cursor[k] =>
              \/ cursor'[k] > cursor[k]
              \/ /\ cursor'[k] = cursor[k]
                 /\ retries'[k].offset = retries[k].offset
                 /\ retries'[k].attempts >= retries[k].attempts]_vars

\* Every complete line is mirrored in the end, however many entries before it
\* always fail, and the cursor file gets past it.
EventuallyMirrored ==
    \A k \in Kinds : \A i \in Lines :
        i <= Len(journal[k]) ~> cursor[k] >= i /\ Settled(k, i)

-----------------------------------------------------------------------------
(* The inductive invariant behind NothingSkipped and QuarantineEarned. *)

\* A run is at a decodable line from before `engram save` until it advances.
PendingLine ==
    \A r \in Runs : pc[r] \in {"save", "saved", "exited"} =>
        HasLine(r) /\ LineClass(r) # "malformed"

\* An unfinished line still fits the bound.
TailFits == \A k \in Kinds : tail[k] \in {"open", "joined"} => Len(journal[k]) < MaxLines

\* Everything before line n + 1 of the journal is settled.
SettledUpTo(k, n) == \A i \in 1 .. n : i <= Len(journal[k]) /\ Settled(k, i)

\* No offset a run holds, in its copy of the cursor or as its position in the
\* open file, is past a line that is not settled; nor is the one it may adopt.
OffsetsSettled ==
    /\ \A k \in Kinds : SettledUpTo(k, Adopted[k])
    /\ \A r \in Runs : \A k \in Kinds : SettledUpTo(k, mem[r][k])
    /\ \A r \in Runs : SettledUpTo(kind[r], offset[r])
    /\ \A r \in Runs : pc[r] = "saved" => NextLine(r) \in Mirrored(kind[r])

\* A recorded count never exceeds the failed exits of the line at its offset.
CountEarned(k, retry) ==
    retry.attempts > 0 =>
        retry.offset + 1 \in Lines /\ retry.attempts <= exits[k][retry.offset + 1]

CountsEarned ==
    /\ \A k \in Kinds : CountEarned(k, retries[k])
    /\ \A r \in Runs : \A k \in Kinds : CountEarned(k, memRetries[r][k])
    /\ \A r \in Runs : pc[r] = "exited" => Attempts(r) <= exits[kind[r]][NextLine(r)]

TypeInv == TypeOK /\ PendingLine /\ TailFits
SkipInv == TypeInv /\ NothingSkipped /\ OffsetsSettled
CountInv == TypeInv /\ CountsEarned /\ QuarantineEarned

\* What NothingSkipped rests on: the sidecar can be written, and no cursor is
\* taken from another machine.
SidecarReliable == "quarantine" \notin FailingWrites
CursorsLocal == OldCursors # {} \/ StoreCursor = ZeroOffsets

(* The inductive invariants behind AttemptsKept and NoDuplicateEmission. *)

\* What AttemptsKept rests on: a Stop event comes after the run of the one before
\* has ended.
RunsInTurn == \A p, q \in Runs : p = q

\* What NoDuplicateEmission rests on, besides: whatever the database took, the
\* cursor gets to record.
SavesRecorded == "cursor" \notin FailingWrites /\ "engram" \notin Crashes
DiesInHand(r) == pc[r] = "saved" /\ Crash(r)
NoneDiesInHand == [][\A r \in Runs : ~DiesInHand(r)]_vars

AtLine(r) == pc[r] \in {"read", "save", "saved", "exited"}
Loaded(r) == AtLine(r) \/ pc[r] = "open"

\* The persisted count of a stuck entry, and the one a run has in memory.
Stuck(k) == retries[k].attempts > 0 /\ retries[k].offset = cursor[k]
StuckInMemory(r, k) == memRetries[r][k].attempts > 0 /\ memRetries[r][k].offset = mem[r][k]

\* A count belongs to a line of the journal.
CountsOnLines ==
    \A k \in Kinds :
        /\ retries[k].attempts > 0 => retries[k].offset < Len(journal[k])
        /\ \A r \in Runs :
              memRetries[r][k].attempts > 0 => memRetries[r][k].offset < Len(journal[k])

\* What a run has in memory is as far as the file, or further.
MemoryAhead ==
    \A r \in Runs : \A k \in Kinds : Stuck(k) =>
        /\ pc[r] \in {"adopt", "retries"} => mem[r][k] = cursor[k]
        /\ Loaded(r) =>
              \/ cursor[k] < mem[r][k] /\ mem[r][k] <= Len(journal[k])
              \/ /\ mem[r][k] = cursor[k]
                 /\ memRetries[r][k].offset = retries[k].offset
                 /\ memRetries[r][k].attempts >= retries[k].attempts

\* A run that knows of a stuck entry stands where its cursor does: the file did
\* not start over.
StandsAtStuck ==
    \A r \in Runs : AtLine(r) /\ (Stuck(kind[r]) \/ StuckInMemory(r, kind[r])) =>
        offset[r] = mem[r][kind[r]]

AttemptsInv ==
    /\ TypeInv
    /\ ~present => \A k \in Kinds : retries[k].attempts = 0
    /\ \A r \in Runs : pc[r] = "adopted" => ~present
    /\ CountsOnLines /\ MemoryAhead /\ StandsAtStuck

\* Where the next run starts in the journal.
Resumes(k) == IF present THEN cursor[k] ELSE Adopted[k]

\* The lines in the database are before the place where a run reads, or will.
EmissionInv ==
    /\ TypeInv
    /\ NoDuplicateEmission
    /\ \A r \in Runs :
          /\ pc[r] = "adopt" /\ present => mem[r] = cursor
          /\ pc[r] = "adopted" => ~present /\ mem[r] = Adopted
          /\ pc[r] = "retries" \/ Loaded(r) => present /\ mem[r] = cursor
    /\ \A k \in Kinds : \A i \in Lines : stored[k][i] > 0 =>
          /\ \/ i <= Resumes(k) /\ Resumes(k) <= Len(journal[k])
             \/ \E r \in Runs : pc[r] = "saved" /\ kind[r] = k
          /\ \A r \in Runs : AtLine(r) /\ kind[r] = k =>
                i <= (IF pc[r] = "saved" THEN NextLine(r) ELSE offset[r])

-----------------------------------------------------------------------------
\* The runs implement the mirror that ADR-029 describes.
Mirror == INSTANCE EngramMirror WITH mirrored <- [k \in Kinds |-> Mirrored(k)]
MirrorSpec == Mirror!Spec
=============================================================================
