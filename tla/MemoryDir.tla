------------------------------ MODULE MemoryDir ------------------------------
(***************************************************************************)
(* What the compound-loop workers write for the sessions of one project:    *)
(* insight files and their cursor, rows of loop_events, the failures        *)
(* journal, and the one handoff.md that all sessions share.  A worker       *)
(* drains the queue of its own profile (CompoundQueue); several profiles    *)
(* share the memory directory.  process_task is followed write by write: a  *)
(* worker may die after any of them, and its task is then taken again.      *)
(* The proposals it also writes are in ProposalQueue.                       *)
(***************************************************************************)
EXTENDS Naturals, FiniteSets, Sequences

CONSTANTS
    Sessions, Workers,
    Owner,         \* the worker that drains the queue of a session
    Text,          \* what each line of a transcript says, in the order of writing
    NoHash,        \* a line without an insight
    Nobody,        \* no handoff.md
    Failures,      \* failures, up to the similarity that makes two one
    MaxFailures,   \* failures in one answer
    MaxFaults      \* bound on the deaths of workers and on failing writes

Hashes ==
    (UNION {{Text[s][i].insight : i \in DOMAIN Text[s]} : s \in Sessions}) \ {NoHash}

\* What a line of a transcript is to its readers: it has an insight, dispatches an
\* agent, marks the session as one with a person at it.
Lines == [insight : Hashes \cup {NoHash}, dispatch : BOOLEAN, marker : BOOLEAN]

ASSUME MemoryAssumption ==
    /\ Owner \in [Sessions -> Workers]
    /\ \A s \in Sessions : Text[s] \in Seq(Lines)
    /\ Nobody \notin Sessions
    /\ {MaxFailures, MaxFaults} \subseteq Nat

VARIABLES
    clock, length, touched,   \* transcripts: lines so far, time of the last one
    tasks,                    \* waiting tasks of each session
    copies, cursor,           \* insight files by session and hash; insights/.cursor.json
    rows, verdicts,           \* loop_events: agent_dispatched, goal_declared or goal_absent
    failures,                 \* failures.jsonl, by session
    handoff,                  \* whose handoff.md is, with its source_mtime
    deaths, errors,
    work                      \* where each worker is, and its locals

transcripts == <<clock, length, touched>>
insights == <<copies, cursor>>
events == <<rows, verdicts>>
faults == <<deaths, errors>>
vars == <<transcripts, tasks, insights, events, failures, handoff, faults, work>>

\* Time runs in thirds of a second; source_mtime is written in whole seconds (`:.0f`).
Rounded(t) == 3 * ((t + 1) \div 3)

Last(S) == CHOOSE i \in S : \A j \in S : j <= i
First(S) == CHOOSE i \in S : \A j \in S : i <= j

\* extract_agent_dispatches and extract_insights, over the first n lines.
Dispatches(s, n) == Cardinality({i \in 1 .. n : Text[s][i].dispatch})
Insights(s, since, n) == {i \in since + 1 .. n : Text[s][i].insight # NoHash}
\* is_interactive_session, and not a session of the evaluator.
Interactive(s) == \E i \in 1 .. length[s] : Text[s][i].marker
OnDisk == {h \in Hashes : \E s \in Sessions : copies[s][h] > 0}

NoHandoff == [by |-> Nobody, mtime |-> 0]

\* Locals: the session of the task; dispatches still to insert; lines with an insight
\* still to save, the last of them, the hashes read from the disk; the failures in
\* the answer of the evaluator; the handoff looked at, the time of the transcript, and
\* whether there is something to hand off.
Free == [at |-> "free", session |-> Nobody, todo |-> 0, lines |-> {}, top |-> 0, known |-> {},
         answer |-> << >>, saw |-> NoHandoff, stamp |-> 0,
         items |-> FALSE]

At(w, place) == work[w].at = place
Of(w) == work[w].session
Goto(w, place) == work' = [work EXCEPT ![w].at = place]
Leave(w) == work' = [work EXCEPT ![w] = [Free EXCEPT !.at = "archive", !.session = Of(w)]]

-----------------------------------------------------------------------------
(* Sessions. *)

\* A turn: lines are written and the Stop hook queues a task.  The transcript is
\* written to while a worker reads it.
Turn(s) ==
    /\ length[s] < Len(Text[s])
    /\ clock' = clock + 1
    /\ length' = [length EXCEPT ![s] = @ + 1]
    /\ touched' = [touched EXCEPT ![s] = clock + 1]
    /\ tasks' = [tasks EXCEPT ![s] = @ + 1]
    /\ UNCHANGED <<insights, events, failures, handoff, faults, work>>

-----------------------------------------------------------------------------
(* process_task. *)

\* A worker drains the queue its profile's producers write to.
Waiting(w, s) == tasks[s] > 0 /\ Owner[s] = w

\* A session without a person is skipped; of the others the dispatches are read first.
Take(w, s) ==
    /\ At(w, "free") /\ Waiting(w, s)
    /\ work' = [work EXCEPT ![w].session = s,
                    ![w].todo = IF Interactive(s) THEN Dispatches(s, length[s]) ELSE 0,
                    ![w].at = IF Interactive(s) THEN "clear" ELSE "archive"]
    /\ UNCHANGED <<transcripts, tasks, insights, events, failures, handoff, faults>>

\* Mutant: a scan adds to the rows of the one before.
RowsStay(w) == UNCHANGED rows

RowsCleared(w) == rows' = [rows EXCEPT ![Of(w)] = 0]

\* clear_agent_dispatches commits by itself.
ClearDispatches(w) ==
    /\ At(w, "clear")
    /\ RowsCleared(w)
    /\ Goto(w, "insert")
    /\ UNCHANGED <<transcripts, tasks, insights, verdicts, failures, handoff, faults>>

\* One row, one commit.
InsertDispatch(w) ==
    /\ At(w, "insert") /\ work[w].todo > 0
    /\ rows' = [rows EXCEPT ![Of(w)] = @ + 1]
    /\ work' = [work EXCEPT ![w].todo = @ - 1]
    /\ UNCHANGED <<transcripts, tasks, insights, verdicts, failures, handoff, faults>>

\* Mutant: the cursor alone tells what was saved.
NothingKnown == {}

\* _existing_insight_hashes: read once, before the first file.
Known == OnDisk

\* The cursor, the insights past it, and the hashes that exist.
ReadInsights(w) ==
    /\ At(w, "insert") /\ work[w].todo = 0
    /\ LET new == Insights(Of(w), cursor[Of(w)], length[Of(w)])
       IN work' = [work EXCEPT ![w].lines = new,
                       ![w].top = IF new = {} THEN 0 ELSE Last(new),
                       ![w].known = IF new = {} THEN {} ELSE Known,
                       ![w].at = IF new = {} THEN "infer" ELSE "save"]
    /\ UNCHANGED <<transcripts, tasks, insights, events, failures, handoff, faults>>

\* One insight, one atomic file; a hash that exists is skipped.
SaveInsight(w) ==
    /\ At(w, "save") /\ work[w].lines # {}
    /\ LET i == First(work[w].lines)
           h == Text[Of(w)][i].insight
       IN /\ copies' = IF h \in work[w].known THEN copies
                       ELSE [copies EXCEPT ![Of(w)][h] = @ + 1]
          /\ work' = [work EXCEPT ![w].lines = @ \ {i}, ![w].known = @ \cup {h}]
    /\ UNCHANGED <<transcripts, tasks, cursor, events, failures, handoff, faults>>

\* Mutant: the cursor is written before the files.
SavedOrNot(w) == At(w, "save")

Saved(w) == At(w, "save") /\ work[w].lines = {}

\* The cursors of all sessions are one file, read and replaced under the lock.
WriteCursor(w) ==
    /\ Saved(w)
    /\ cursor' = [cursor EXCEPT ![Of(w)] = work[w].top]
    /\ work' = [work EXCEPT ![w].known = {}, ![w].top = 0, ![w].at = "infer"]
    /\ UNCHANGED <<transcripts, tasks, copies, events, failures, handoff, faults>>

\* The gates find the session too thin (not in a round that found an insight), the
\* evaluator fails or times out, and a slim handoff is all there will be, or not even
\* that where they are disabled or the answer cannot be parsed; or it answers.
Infer(w) ==
    /\ At(w, "infer")
    /\ \/ work' = [work EXCEPT ![w].items = TRUE, ![w].at = "failures"]
       \/ Leave(w)
       \/ \E n \in 0 .. MaxFailures : \E f \in [1 .. n -> Failures] : \E items, goal \in BOOLEAN :
            work' = [work EXCEPT ![w].answer = f, ![w].items = items,
                         ![w].at = IF goal THEN "verdict" ELSE "failures"]
    /\ UNCHANGED <<transcripts, tasks, insights, events, failures, handoff, faults>>

\* Mutant: the verdict of an earlier evaluation stays.
VerdictStays(w) == UNCHANGED verdicts

VerdictCleared(w) == verdicts' = [verdicts EXCEPT ![Of(w)] = 0]

ClearVerdict(w) ==
    /\ At(w, "verdict")
    /\ VerdictCleared(w)
    /\ Goto(w, "insertVerdict")
    /\ UNCHANGED <<transcripts, tasks, insights, rows, failures, handoff, faults>>

InsertVerdict(w) ==
    /\ At(w, "insertVerdict")
    /\ verdicts' = [verdicts EXCEPT ![Of(w)] = @ + 1]
    /\ Goto(w, "failures")
    /\ UNCHANGED <<transcripts, tasks, insights, rows, failures, handoff, faults>>

\* Mutant: nothing is read from the journal.
NoneSeen(s) == {}

\* _session_failure_tokens; decisions, learnings and the grade are appended around
\* this with nothing read back, and nothing is said of them here.
SeenFailures(s) == {failures[s][i] : i \in DOMAIN failures[s]}

AppendFailure(w) ==
    /\ At(w, "failures") /\ work[w].answer # << >>
    /\ LET f == Head(work[w].answer)
       IN failures' = IF f \in SeenFailures(Of(w)) THEN failures
                      ELSE [failures EXCEPT ![Of(w)] = Append(@, f)]
    /\ work' = [work EXCEPT ![w].answer = Tail(@)]
    /\ UNCHANGED <<transcripts, tasks, insights, events, handoff, faults>>

\* Mutant: the handoff of another session is never looked at.
NeverNewer(s) == FALSE

\* _handoff_belongs_to_newer_session.
Newer(s) == handoff.by \notin {Nobody, s} /\ handoff.mtime > touched[s]

\* The end of persist_results and of write_slim_handoff: look, then write.  A session
\* without a prompt has no slim handoff.
LookAtHandoff(w) ==
    /\ At(w, "failures") /\ work[w].answer = << >>
    /\ \/ /\ ~Newer(Of(w))
          /\ work' = [work EXCEPT ![w].saw = handoff, ![w].stamp = touched[Of(w)],
                                  ![w].at = "write"]
       \/ /\ Newer(Of(w)) \/ work[w].items
          /\ Leave(w)
    /\ UNCHANGED <<transcripts, tasks, insights, events, failures, handoff, faults>>

\* Replaced, or removed when nothing is left to hand off; no lock since the look.
WriteHandoff(w) ==
    /\ At(w, "write")
    /\ handoff' = IF work[w].items THEN [by |-> Of(w), mtime |-> Rounded(work[w].stamp)]
                  ELSE NoHandoff
    /\ Leave(w)
    /\ UNCHANGED <<transcripts, tasks, insights, events, failures, faults>>

Archive(w) ==
    /\ At(w, "archive")
    /\ tasks' = [tasks EXCEPT ![Of(w)] = @ - 1]
    /\ work' = [work EXCEPT ![w] = Free]
    /\ UNCHANGED <<transcripts, insights, events, failures, handoff, faults>>

-----------------------------------------------------------------------------
(* Faults. *)

Error == deaths + errors < MaxFaults /\ errors' = errors + 1 /\ UNCHANGED deaths

\* A statement on the metrics database fails: what is left of that block is skipped.
DatabaseFails(w) ==
    /\ Error
    /\ \/ At(w, "clear") /\ work' = [work EXCEPT ![w].todo = 0, ![w].at = "insert"]
       \/ At(w, "insert") /\ work[w].todo > 0 /\ work' = [work EXCEPT ![w].todo = 0]
       \/ At(w, "verdict") /\ Goto(w, "failures")
       \/ At(w, "insertVerdict") /\ Goto(w, "failures")
    /\ UNCHANGED <<transcripts, tasks, insights, events, failures, handoff>>

\* A file cannot be written: the task raises, and is archived all the same.
FileFails(w) ==
    /\ Error
    /\ work[w].at \in {"save", "failures", "write"}
    /\ Leave(w)
    /\ UNCHANGED <<transcripts, tasks, insights, events, failures, handoff>>

\* Mutant: a task leaves the queue before it is processed.
TakenAlong(w) == tasks' = [tasks EXCEPT ![Of(w)] = @ - 1]

\* move_to_done comes last: the task is still in the queue for the next worker.
StillQueued(w) == UNCHANGED tasks

\* The worker dies.
Die(w) ==
    /\ deaths + errors < MaxFaults /\ deaths' = deaths + 1 /\ UNCHANGED errors
    /\ ~At(w, "free")
    /\ StillQueued(w)
    /\ work' = [work EXCEPT ![w] = Free]
    /\ UNCHANGED <<transcripts, insights, events, failures, handoff>>

-----------------------------------------------------------------------------
Init ==
    /\ clock = 0 /\ deaths = 0 /\ errors = 0
    /\ length = [s \in Sessions |-> 0] /\ touched = [s \in Sessions |-> 0]
    /\ tasks = [s \in Sessions |-> 0] /\ cursor = [s \in Sessions |-> 0]
    /\ copies = [s \in Sessions |-> [h \in Hashes |-> 0]]
    /\ rows = [s \in Sessions |-> 0] /\ verdicts = [s \in Sessions |-> 0]
    /\ failures = [s \in Sessions |-> << >>]
    /\ handoff = NoHandoff
    /\ work = [w \in Workers |-> Free]

Drain(w) ==
    \/ \E s \in Sessions : Take(w, s)
    \/ ClearDispatches(w) \/ InsertDispatch(w) \/ ReadInsights(w) \/ SaveInsight(w)
    \/ WriteCursor(w) \/ Infer(w) \/ ClearVerdict(w) \/ InsertVerdict(w) \/ AppendFailure(w)
    \/ LookAtHandoff(w) \/ WriteHandoff(w) \/ Archive(w)

Next ==
    \/ \E s \in Sessions : Turn(s)
    \/ \E w \in Workers : Drain(w) \/ DatabaseFails(w) \/ FileFails(w) \/ Die(w)

\* A hook starts the worker again as long as tasks wait; inference ends by its timeout.
Fairness == \A w \in Workers : WF_vars(Drain(w))

Spec == Init /\ [][Next]_vars
FairSpec == Spec /\ Fairness

-----------------------------------------------------------------------------
(* Properties. *)

Places == {"free", "clear", "insert", "save", "infer", "verdict", "insertVerdict",
           "failures", "write", "archive"}

\* Every variable has its type, and a worker is on a task of its own queue.
TypeOK ==
    /\ \A s \in Sessions :
        /\ length[s] \in 0 .. Len(Text[s]) /\ touched[s] \in 0 .. clock
        /\ tasks[s] \in 0 .. length[s] /\ cursor[s] \in 0 .. length[s]
        /\ \A h \in Hashes : copies[s][h] \in Nat
        /\ {rows[s], verdicts[s]} \subseteq Nat /\ failures[s] \in Seq(Failures)
    /\ handoff \in [by : Sessions \cup {Nobody}, mtime : Nat]
    /\ deaths + errors \in 0 .. MaxFaults
    /\ \A w \in Workers :
        /\ work[w].at \in Places
        /\ ~At(w, "free") => Of(w) \in Sessions /\ Owner[Of(w)] = w /\ tasks[Of(w)] > 0

\* Every insight the cursor has passed is on disk, wherever the worker died: what is
\* behind the cursor is never read again.
InsightsKept ==
    \A s \in Sessions : \A i \in Insights(s, 0, cursor[s]) : Text[s][i].insight \in OnDisk

\* An insight of a session is one file, although a worker that dies before the cursor
\* leaves it to the next one to find the same insights.
InsightOnce == \A s \in Sessions, h \in Hashes : copies[s][h] <= 1

\* A session has each failure once in the journal, over answers that repeat themselves
\* and tasks that are evaluated again.
FailureOnce ==
    \A s \in Sessions : \A i, j \in DOMAIN failures[s] : failures[s][i] = failures[s][j] => i = j

\* However often a session is scanned or judged, its rows are those of one scan and of
\* one verdict: never a running sum, whatever commit a worker died after.
CountedOnce ==
    \A s \in Sessions : rows[s] <= Dispatches(s, length[s]) /\ verdicts[s] <= 1

\* Insights, failures and rows are there once, however often their task is taken again;
\* decisions, learnings and grades, which nothing reads back, are not in the model.
WrittenOnce == InsightOnce /\ FailureOnce /\ CountedOnce

\* The handoff of a newer session is not replaced by that of an older one, full or
\* slim, unless another worker wrote it after this one looked.
NewerHandoffKept ==
    [][\A w \in Workers :
        WriteHandoff(w) /\ handoff = work[w].saw /\ work[w].items
            => handoff'.mtime >= handoff.mtime]_vars

\* Without the exception: not so, the look and the write are two steps and no lock.
HandoffNeverOlder ==
    [][handoff'.by # Nobody => handoff'.mtime >= handoff.mtime]_vars

\* All is in place: every insight saved, every dispatch a row.
Complete(s) ==
    /\ \A i \in Insights(s, 0, length[s]) : Text[s][i].insight \in OnDisk
    /\ Interactive(s) => rows[s] = Dispatches(s, length[s])

\* Once the sessions are over, everything they said is in place for good: the deaths of
\* workers do not matter, errors that archive the task do.
Settles == <>[](\A s \in Sessions : Complete(s) \/ errors > 0)
=============================================================================
