# A TLA+ verification of lazy-harness

lazy-harness keeps the memory, the metrics and the configuration of coding
agents (Claude Code, Codex and others) on a developer's machine. It has no
daemon: every part is a short-lived process (a hook the agent fires, a detached
worker a hook spawns, a job of the system scheduler, a command the user types),
and processes meet only in files and in SQLite databases. What is hard in it is
what happens when those processes overlap, die half-way or are started in an
order nobody wrote down. This project models that: the state on disk, the
processes over it with one action per step at which they may be interrupted,
and what must stay true whatever the interleaving.

Paths below are relative to the repository; the package is
`src/lazy_harness/`.

## Contents

| file | what it is |
|---|---|
| `EngramMirror.tla` | abstract specification: the mirror that ADR-029 promises |
| `EngramPersist.tla` | the engram-persist Stop hook; implements `EngramMirror` |
| `CompoundQueue.tla` | the task queue of the compound loop, its producers and its worker |
| `MemoryDir.tla` | what a worker writes for a session: insights, loop events, failures, handoff |
| `ProposalReview.tla` | abstract specification: what the review of CLAUDE.md proposals promises |
| `ProposalQueue.tla` | the CLAUDE.md proposals: queue, overflow, expiry, verdicts; implements `ProposalReview` |
| `MetricsStore.tla` | ingest into `session_stats` and the outbox, `backfill-host`, `rename-profile` |
| `MetricsOutbox.tla` | the outbox that delivers metrics to a remote sink |
| `StoreSync.tla` | the knowledge store on several machines: commit, merge, push |
| `Deploy.tla` | `lh deploy`, its ledgers, and `--rollback` |
| `Migrate.tla` | `lh migrate`, its rollback log, and `--rollback` |
| `MC*.tla`, `*.cfg` | their instances for TLC; each cfg is a run |
| `EngramPersistProofs.tla`, `CompoundQueueProofs.tla`, `MetricsOutboxProofs.tla`, `MetricsStoreProofs.tla`, `ProposalQueueProofs.tla`, `MemoryDirProofs.tla`, `DeployProofs.tla`, `MigrateProofs.tla` | theorems |
| `PROJECT.json` | components, runs, mutants, the map from definitions to source lines, hazards, theorems |

To repeat a run: `tlc -config memory_dir.cfg MCMemoryDir`; to repeat a
proof: `tlapm MemoryDirProofs.tla`.

A definition with the comment "Mutant:" is a plausible bug. It takes the place of the
definition it follows in one of the mutants `PROJECT.json` lists, and the property named
there is then violated; the models do not use it.

# 1. Inventory

How the parts meet:

    agent ──Stop / SessionEnd──▶ hooks/builtins/compound_loop.py, session_end.py
                                   │ task file in queue/, Popen
                                   ▼                                   CompoundQueue
                         knowledge/compound_loop_worker.py  (flock, drain)
                                   │ process_task                      MemoryDir
                                   ▼                                   ProposalQueue
           memory directory: journals, insights, proposals, handoff ◀── lh memory proposals
                │                                        │
     Stop hook  ▼ knowledge/engram_persist.py            ▼ knowledge/git_push.py
            Engram (`engram save`)                   other machines
            EngramPersist                            StoreSync

    scheduler ──▶ lh metrics ingest ──▶ session_stats, sink_outbox ──POST──▶ backend
                                        MetricsStore   MetricsOutbox

    user ──▶ lh deploy ──▶ links, ledgers, the agent's config document    Deploy
         ──▶ lh migrate ─▶ config.toml, links made files, backups         Migrate

### Engram mirror (`knowledge/engram_persist.py`, `hooks/builtins/engram_persist.py`) — modelled

* *State*: `engram_cursor.json` (an offset per journal, a retry count per
  journal), `engram_quarantine.jsonl`, the Engram database behind the `engram`
  command; it reads `decisions.jsonl` and `failures.jsonl`.
* *Operations*: one, `persist_new_entries`, at every Stop: load the cursor or
  adopt one from an older location, read complete lines past it, save each,
  advance the cursor after each, count failures, quarantine after
  `MAX_ATTEMPTS_PER_ENTRY`.
* *Interaction*: the compound-loop worker appends to the journals while it
  reads; the cursor's store copy travels with `git_push`.
* *Hard*: two sessions of one project stop at the same time and nothing
  excludes them; the hook is killed by its timeout between the save and the
  cursor; a save may time out after it reached the database; a cursor may have
  been written elsewhere; a journal may end in a torn line.
* *Correct when*: no entry is passed over; an entry is given up only after its
  own failures; entries are saved in order, at least once, and once when runs do
  not overlap; a failing entry does not block the rest for ever.

### Compound-loop queue (`hooks/builtins/compound_loop.py`, `session_end.py`, `knowledge/compound_loop_worker.py`, parts of `knowledge/compound_loop.py`, `cli/knowledge_cmd.py`) — modelled

* *State*: `queue/<second>-<short id>.task`, `done/` with the same names (the
  modification time tells when a task was processed), `.worker.lock`.
* *Operations*: Stop queues a task behind two gates (debounce and growth),
  SessionEnd and `lh knowledge handoff-now` queue one without gates; each spawns
  a worker; a worker takes the lock or exits, drains until the queue is empty,
  archives, prunes old archives.
* *Hard*: gates read before the task is written; a file that exists before its
  content; names that collide within a second or on the first eight characters
  of a session id; the worker that has just looked for the last time; a worker
  that dies between the evaluation and the archive.
* *Correct when*: the last state of a closed session is evaluated; no older
  state is persisted over a newer one; two workers never touch one file; a task is
  evaluated once; gates hold back the session they are meant for; every task is drained.

### Memory directory (`process_task`, `persist_results`, `persist_insights` and the slim handoff in `knowledge/compound_loop.py`, the loop events in `monitoring/db.py`) — partly modelled

* *State*: insight files and `insights/.cursor.json`, `failures.jsonl`, the one
  `handoff.md` of a project with its `source_mtime`, rows of `loop_events`.
* *Operations*: `process_task`, write by write: dispatch rows cleared and
  inserted, insights saved and then the cursor, inference, the verdict cleared
  and inserted, failures appended, the handoff looked at and replaced.
* *Hard*: every write is separate, a worker may die after any, and its task is
  then taken again from the start; workers of several profiles share the
  directory; transcripts grow while they are read; the handoff is looked at and
  replaced without a lock.
* *Correct when*: nothing behind the insight cursor is missing; nothing is there
  twice however often a task is taken again; rows are those of one scan; a newer
  session's handoff is not replaced; in the end everything is in place.
* *Left out*: decisions, learnings and grades, appended with nothing read back
  (an evaluation that is repeated appends them again).

### Proposals (`core/proposals.py`, `cli/memory_cmd.py`, `persist_results`) — modelled

* *State*: `claude-md.proposal.md` (bullets under dated headers, markers of
  requeued lines), `proposals-held.jsonl` and its dispositions, the registries
  of expired, accepted and rejected rules, `.memory.lock`.
* *Operations*: a worker expires old bullets before its prompt and again before
  it records the grader's rules, in the queue or, if the cap would be passed, in
  the overflow; the commands list, judge by position, requeue held and expired.
* *Hard*: every transition of a rule is two file writes and a process may die
  between them; positions shift with every removal; a task carries its own, older,
  timestamp; the cap is checked by several writers.
* *Correct when*: no rule is lost or queued twice; the cap holds; a verdict
  falls on its bullet; what a person revived is not expired at once.

### Metrics store (`monitoring/ingest.py`, `collector.py`, `sinks/`, `cli/profile_cmd.py`, `monitoring/db.py`) — modelled

* *State*: transcripts on disk, ordered by modification time; `session_stats`
  with its identity columns; `sink_outbox`, keyed by an id that includes the
  profile; what the backend has.
* *Operations*: ingest reads every transcript, attributes each message to the
  oldest that mentions it, upserts the rows in one commit, then passes each event
  to the local and to the remote sink; `backfill-host` and `rename-profile`
  rewrite the same tables in one transaction each.
* *Hard*: ingests overlap and the one that read first writes last; transcripts
  are resumed, opened again, pruned; the id of a row changes under the outbox.
* *Correct when*: each message is counted once and no total shrinks; everything
  reaches the backend under the id it has now.

### Metrics outbox (`monitoring/db.py` outbox_*, `monitoring/sinks/worker.py`, `sinks/http_remote.py`) — modelled

* *State*: table `sink_outbox`: payload, status, attempts, `next_attempt_ts`,
  `lease_expires_ts` per event; the remote backend that upserts by event id.
* *Operations*: enqueue an upsert per event, reset the delays, claim a batch
  under a lease, POST row by row, mark sent or failed.
* *Hard*: leases that end while their owner still works, rows enqueued again
  between the POST and its acknowledgement, answers that never come or requests
  that arrive late, rows the backend never accepts, delays that grow.
* *Correct when*: "sent" means delivered; nobody sends what another process is
  sending; what is delivered stays delivered; everything is delivered in the end.
  (The first three have exceptions in the code, section 6.)
* *Left out*: the figures of `lh metrics status`.

### Knowledge store (`knowledge/git_push.py`) — modelled

* *State*: a git work tree on every machine, its branch, its remote-tracking
  branch, `MERGE_HEAD`; one remote.
* *Operations*: `push_once` on a schedule: commit all, fetch, merge (journals by
  union, the handoff by the newest, no rule for the rest), abort, push.
* *Hard*: workers and engram-persist use the work tree at any step of a cycle; a
  cycle dies with a merge half done; two machines push at a time; a merge moves
  lines that cursors count.
* *Correct when*: a machine keeps the lines it wrote; the newer handoff wins; all
  machines get alike in the end, or one of them reports a conflict.

### Deploy (`deploy/engine.py`, `ledger.py`, `snapshot.py`, `symlinks.py`, `skills.py`) — partly modelled

* *State*: links from the agent's config dir into the profile source, `.bak`
  files, a ledger of owned links and one of owned skills, the newest snapshot,
  the config document that other tools write to as well.
* *Operations*: snapshot, plan, retract, link, record, merge the document, link
  the default dir; roll back.
* *Hard*: a deploy dies at any step, the ledgers come after the links, the
  displaced document is merged back steps later, others write meanwhile.
* *Correct when*: what others put in the document stays; a rollback restores;
  every link between two commands is owned.
* *Left out*: several profiles, the precedence of segments (a plan is a set of
  names), the assembly of the system docs, the repair of plugin paths, all
  snapshots but the newest.

### Migrate (`migrate/`, `cli/migrate_cmd.py`) — partly modelled

* *State*: `config.toml`, the entries of `~/.claude-<profile>` that are links into
  lazy-claudecode, the `lcc-*` scripts, `<entry>.lazyharness.tmp`, a timestamped backup
  with its manifest and its `rollback.json`, the marker of the last dry run.
* *Operations*: `lh migrate --dry-run`; `lh migrate`, which backs up, writes the config,
  makes files of links, removes scripts, writes the log and, if a step has failed, replays
  it; `lh migrate --rollback`, which replays the newest log, operation by operation.
* *Hard*: the log is written at the end; a step may fail, or the command die, in the middle
  of a write; an operation of a replay may fail and the others go on, or the replay die and
  be repeated; a second migration finds what the first has left.
* *Correct when*: nothing is lost while a link becomes a file; a replay leads back; what the
  user wrote in `config.toml` can be found.
* *Left out*: several profile dirs (steps on other names do not meet), backups without a
  manifest, the `.envrc` files written after a success, the order of the operations in a log
  (they are on distinct names), two migrations within a second, which share a directory.

### Not modelled

| component | why |
|---|---|
| stop guards, context rotation (`hooks/builtins/stop_*.py`) | one process decides from the transcript and a marker file of its own session; Stop hooks of one session do not overlap |
| hook loader, engine, runner and the stateless builtins (`hooks/`) | one process and no state: a function of the event |
| scheduler (`scheduler/`) | writes launchd, systemd or cron files and calls their tools; what it starts recurs in the models as a step that is taken again and again |
| agents (`agents/`) | parsers and path conventions; the shape of a Codex session id enters `CompoundQueue` as `ShortId`, what a transcript says enters `MemoryDir` as `Text` and `MetricsStore` as sets of messages |
| llm (`llm/`) | a call that answers or fails, which is how the models have it |
| core configuration, paths, profiles (`core/`) | resolution functions without concurrency |
| session export, graph, qmd (`knowledge/`) | generated files, overwritten by each run |
| cli, wizards, doctor, plugins, selftest | user interface and diagnostics; a command that changes shared state belongs to the component it changes |

These are the larger part of the package's lines: parsers of transcripts, renderers,
command-line wiring, checks of `lh doctor`. The map of definitions to lines covers
about 9 % of the implementation, which is most of what keeps state that several processes
share; the rest has no state to speak of, and its tests reach it.

`PROJECT.json` lists the hazards at their lines, with the properties that
catch them.

# 2. The modules and their order

| module | composed with | status |
|---|---|---|
| `EngramMirror`, `EngramPersist` | refinement; `StoreSync` has the cursor over merged journals | checked, proved |
| `CompoundQueue` | its `Evaluate` is `MemoryDir`'s and `ProposalQueue`'s steps | checked, proved |
| `MemoryDir` | a task taken again is what `CompoundQueue` allows after a death | checked, proved |
| `ProposalReview`, `ProposalQueue` | refinement | checked, proved |
| `MetricsStore` | its `Claim` and `Send` are `MetricsOutbox`'s drain, without faults | checked, proved |
| `MetricsOutbox` | its ingest is `MetricsStore`'s, without transcripts | checked, proved |
| `StoreSync` | `Mirror` is a whole run of `EngramPersist` | checked |
| `Deploy` | | checked, proved |
| `Migrate` | `rollback.py` also replays the snapshots of `Deploy`, in a branch of its own | checked, proved |

A model of everything at once would have each component's states multiplied by
the others'. Each module therefore has of its neighbours what it can see: the
queue sees an evaluation as one step, the memory directory sees a queue as a number of
waiting tasks, the store sees workers as writes at any time.

Still worth doing: an abstract
specification of `MemoryDir` (sets that only grow, and a register).

# 3. The engram mirror

### The model

`EngramMirror` has two variables, the journals and what is mirrored, and two
actions: a line is appended; a line is mirrored once every line before it is
settled (mirrored, or not decodable as JSON, which the code skips).

`EngramPersist` has the files (`journal`, `tail`, `quarantine`, `present`,
`cursor`, `retries`), the database (`stored`, with `exits` counting the failed
`engram save` commands on a line) and, for every run, its program counter and
its locals. Lines have one length, so that a byte offset is a number of lines;
a line is good, poison (`engram save` always fails on it) or malformed (a torn
line that a later append continued).

| action | code |
|---|---|
| `BeginLine`, `EndLine`, `TearLine` | the append of a JSON line by the worker, and its death in the middle |
| `Load`, `Adopt`, `WriteThrough`, `LoadRetries` | `_load_cursor`; the check that there is no cursor, with `_adopt_cursor`; the adopted one written through, over what another run may have written since the check; `_load_retries` (a second read of the same file) |
| `Open`, `StopReading`, `SkipMalformed` | seek to the offset (past the end: start over), the end of complete lines or the cap on saves, a line that does not parse |
| `BeginSave`, `SaveOk`, `SaveExit`, `SaveTimeout` | `engram save`: exit 0, an error exit, a timeout before or after the database took the line |
| `RecordSaved`, `RecordFailed`, `Quarantine` | advance, count the attempt and leave the kind, or write the sidecar and then advance |
| `Crash` | the hook is killed at any step; its locals are gone |

The cursor write can fail at each of its places (`FailingWrites`), as the code
swallows the error. Left out: the metric records, the log, the resolution of the
project key and the figures a run reports.

### The runs

| run | instance | shows |
|---|---|---|
| `engram_overlap` | 2 runs that may overlap, both without a cursor at first, a journal of 2 lines that may be torn, 2 attempts; runs die at any step, saves time out before or after the database took the line, the cursor write fails | `TypeOK`, `NothingSkipped`, `QuarantineEarned`, and the runs implement `EngramMirror` (`MirrorSpec`) |
| `engram_sequential` | runs one after the other, both journals of 2 lines, 3 attempts, torn lines, cursors of two profiles to adopt | `NoDuplicateEmission`, `AttemptsKept` (the count of a stuck entry is never forgotten before the cursor passes it), `EventuallyMirrored` (whichever entries always fail, the others are mirrored) |

`NoDuplicateEmission` belongs to the second run only: without overlap and
without a crash between the save and the cursor an entry is saved once. With two
runs it fails (section 6).

*Bounds.* Two runs are enough for one to overwrite the other's cursor with an
older copy, which is the only way they influence each other; two lines for a
cursor to stand between an entry and its successor; `MaxAttempts` 2 (5 in the
code) for a count that is kept, carried over and used up, 3 where the count
itself is at stake.
`MaxLines` bounds the journal, `MaxSavesPerRun` is the code's cap at 2 in
place of 25, copies of a line are counted up to 2 ("many"). `engram_overlap` has no
cursor of another machine: with one `NothingSkipped` fails (section 6).

*Fairness.* `WF(Step(r))`: Stop events recur while sessions are used and the
operating system runs the hook. `SF(SaveOk ∨ SaveExit)`: not every
`engram save` is cut off by its timeout; with an engram that never answers
nothing can be mirrored. `Crash` and the writer have no fairness.

### The proofs (`EngramPersistProofs`)

For any number of runs and any bounds:

* `TypeOKAlways`, from `TypeInv = TypeOK /\ PendingLine /\ TailFits`. `TypeOK`
  alone is not inductive: that a saved line exists needs `PendingLine` (a run
  between the save and the advance is at a complete, decodable line) and that a
  finished line still fits the bound needs `TailFits`.
* `NothingSkippedAlways`, under `SidecarReliable` (the sidecar's write does not
  fail) and `CursorsLocal` (no cursor is taken from another machine); section 6
  shows that both are needed. The cursor is written by every run
  from its own memory, so the invariant must speak of every copy of it:
  `OffsetsSettled` says that the offset in each run's memory, its position in the
  open file, and the cursor it could adopt have nothing unsettled before them.
  Then it does not matter whose copy wins.
* `QuarantineEarnedAlways`, without hypotheses, from `CountsEarned`: no recorded
  count, in the file or in a run's memory, exceeds the failed exits of the line
  at its offset.
* `NoDuplicateEmissionAlways`, under `RunsInTurn` (the next Stop comes when the hook of
  the one before has ended), `SavesRecorded` (the write of the cursor does not fail, and an
  `engram save` that is cut off has not reached the database) and `NoneDiesInHand` (no hook is
  killed between the save and the cursor): what the database takes, the cursor gets to
  record. Torn lines, saves that fail, a sidecar that cannot be written, cursors of other
  profiles and deaths at every other step are allowed. `EmissionInv` says where the
  lines in the database are: before the place at which the next run `Resumes` (the cursor,
  or the one it will adopt while there is no cursor file), and that place is within the
  journal, so that the file does not start over; or before the line a run is about to
  record. The part about `Resumes` is what adoption needs: the nearest old cursor, in place of the
  furthest, would break it.
* `AttemptsKeptAlways`, under `RunsInTurn` alone: with every death and every failing write.
  A run writes the counts it has in memory over those in the file, so the invariant
  `AttemptsInv` compares the two: while an entry is stuck, what a run has in memory is
  past it or has its count at least (`MemoryAhead`); a count is never of a line that the
  journal does not have (`CountsOnLines`), so that a run that knows of a stuck entry stands
  at it (`StandsAtStuck`) and counts on rather than anew.
* `ImplementsMirror`: `Spec => MirrorSpec` under the hypotheses of
  `NothingSkippedAlways`; every step maps to `AppendLine`, `MirrorLine` or a
  stutter, and `OffsetsSettled` is what makes `MirrorLine`'s order hold.

# 4. The compound loop

## 4.1 The queue

#### The model

A session has three producers, which may all be under way at a time: its Stop hook, its
SessionEnd hook, and `lh knowledge handoff-now` from a shell, which asks neither whether a
hook runs nor whether the session has ended. The agent waits for a hook before it fires the
next, but the transcript grows under all of them. Beside them there is
a pool of worker processes. A task file's name
is the pair of the second and the session's short id (`ShortId`); `queue[n]`
records the session in its content (`NoSession` while it is empty), its
modification time, whether it was forced, how often it was evaluated; `done[n]`
is the archive's modification time. A transcript is a version number and the
time it last grew; `evaluated[s]` is the version whose evaluation was persisted
last. `naming` and `place` follow the file a producer has open: a worker may archive it
before its content is there, and the content then arrives in `done/` or in a file
without a name. Two tasks of one second share a file.

`lost` is history: the sessions of which a request was spoiled (its hook was killed before
it wrote, another task of the second truncated its file, a worker read the file empty, inference
failed) and that have had no waiting task since. It says what the code loses, so that a
property can say that it loses nothing else.

| action | code |
|---|---|
| `Stop`, `CheckDebounce`, `CheckGrowth` | the Stop hook and its gates `is_debounced`, `should_reprocess` with `last_processed_mtime` |
| `SessionEnd`, `HandoffNow` | the producers without gates |
| `CreateTask`, `WriteTask` | `write_text` in `create_task`: the file is truncated or made, whoever's it was, then its content arrives, wherever the file is by then |
| `Spawn` | `Popen` of the worker; an `OSError` is swallowed; `handoff-now` starts a worker of another queue |
| `Lock`, `List`, `EndPass`, `Begin`, `Evaluate`, `Touch`, `Move`, `Prune` | `main` and `_drain_queue`: flock, glob, process each file in the order of its second, touch and move, prune when a pass finds nothing |
| `ArchiveFails`, `WorkerDies`, `HookDies`, `Wake` | a failed archive stops the worker; processes die (`WorkerDies` also stands for the worker's early exits on a disabled configuration or a marker error); hooks of other sessions may start workers of the same profile |

`Evaluate` stands for inference and for everything `process_task` persists; what
it persists in the memory directory is `MemoryDir` (4.2) and `ProposalQueue` (4.3).
Files that are not tasks, and links in `queue/`, are left out.

#### The runs

| run | instance | shows |
|---|---|---|
| `queue_faults` | 1 session that stops, ends and is handed off at any time, 2 workers, 2 seconds, debounce 1, retention 1; hooks die, `Popen` and inference fail, one worker dies or fails to archive, files share names and are read before their content is there | `ListedStays`, `FinalStateEvaluated`, `EvaluatedOnce`, `EvaluationsAdvance` |
| `queue_liveness` | the same without handoffs, 3 seconds and debounce 2 | `StopTasksSpaced`, `DrainedWhileLooking` |

Both have every fault of the model.

* `FinalStateEvaluated`: after SessionEnd the final state was evaluated or a task is in the
  queue, except for sessions in `lost`. A session leaves `lost` with its next task, so that a
  property that excused a session for ever would be weaker.
* `EvaluatedOnce`: a task is evaluated no more than once for each worker that failed, and
  once more. It holds because of the lock and because a hook that opens a file starts it
  afresh, not because workers do not die.
* `DrainedWhileLooking`: what is in the queue while a worker is in its loop, before the look
  that finds nothing, is archived in the end. Nothing is assumed to start workers. It is the
  part of "the in-flight worker will drain the new task" that is true; `HolderDrains`, what the docs
  say, is not (section 6).

*Bounds.* `MaxTime` bounds the clock and `MaxVersion` the transcript: two seconds let
tasks share a name or not, be debounced and be pruned, three let one outlive a window of
two; two versions separate the state an evaluation read from the state it should have
read. Two workers are enough for every race on the lock, since a third exits as
the second does; of three producers two can be at one file while a worker archives it. One worker's failure leaves a task to the next; the theorems have any
number. The clock stops and sessions end, so the system
may stop: deadlock is not checked.

*Fairness.* `WF(WorkerStep(w))`: a worker that was started is scheduled. Hooks, the agent, the
clock and the starting of workers have none.

#### The proofs (`CompoundQueueProofs`)

For any sessions, workers, bounds:

* `TypeOKAlways`, `ListedStaysAlways` and `EvaluationsAdvanceAlways`, with every
  fault allowed and no hypothesis. The invariant is `Inductive`: `TypeOK`,
  `Named` (a hook that has opened its file knows its name), `Locked` (only the
  holder of the lock drains, and only a drainer has listed files), `ListedStays`,
  `ReadsAhead` (what is being evaluated is not older than what was). `Locked` is
  where the flock enters: of two workers one is not draining, so its steps leave
  the other's files alone.
* `FinalStateEvaluatedAlways`, with every fault and no hypothesis. `Concluded` is added to
  `Inductive`: once the hook of an ended session has written its task, the session is in
  `lost`, was evaluated as it is, or some file `WillEvaluate` it: no worker has taken it, or
  the one that did reads the final version. `Spoiled` is made so that each
  step that takes such a file away either leaves another waiting task or puts
  the session in `lost`; `QuietStep` is the lemma for the steps that take none.
* `EvaluatedOnceAlways`, likewise. `BeingArchived`: a file in the queue was evaluated no
  more often than workers have failed, but for the one a worker is archiving; producers
  start every file they open from zero.
* `StopTasksSpacedAlways`, with every fault and no hypothesis. Added are
  `Dated` (a file is stamped no earlier than its name says and not in the
  future; the name has its session's short id), `NamedNow` and `PassedDebounce`:
  from the gate on until its own file is written, a Stop hook finds the other unforced
  tasks of its session a window before the second of its own. What SessionEnd and the command
  write is forced, no other hook writes an unforced one, and the clock only widens the gap.

## 4.2 The memory directory

#### The model

A transcript is a sequence of lines (`Text`) of which `length` are written; a line has an
insight, dispatches an agent, or marks the session as one with a person at it. Each
session has a number of waiting tasks and belongs to the one worker that drains its profile's queue
(`Owner`). A worker's record has its place in `process_task` and its locals.

| action | code |
|---|---|
| `Turn` | the agent writes a line, its Stop hook queues a task |
| `Take` | `process_task` up to the dispatches: a session without a person is skipped |
| `ClearDispatches`, `InsertDispatch` | `_record_agent_dispatches`: one commit to clear, one per row |
| `ReadInsights`, `SaveInsight`, `WriteCursor` | `persist_insights`: the cursor, the lines past it, the hashes on disk; one file per insight; then the cursor |
| `Infer` | the gates, the evaluator and its answer or failure |
| `ClearVerdict`, `InsertVerdict` | `_record_goal_verdict`: two commits |
| `AppendFailure` | the failures that the journal does not have yet for the session |
| `LookAtHandoff`, `WriteHandoff` | `_handoff_belongs_to_newer_session` and the replacement, of `persist_results` and of `write_slim_handoff` |
| `Archive` | `move_to_done` |
| `DatabaseFails`, `FileFails`, `Die` | a statement fails and the rest of its block is skipped; a write raises and the task is archived all the same; the worker dies and the task stays |

#### The run

| run | instance | shows |
|---|---|---|
| `memory_dir` | 2 sessions of 2 profiles, of 2 and 1 lines that share an insight, one dispatch; one death or failing write, anywhere | `InsightsKept` (nothing behind the cursor is missing), `WrittenOnce` (one file, one line, one row for each thing, however often a task is taken again), `NewerHandoffKept`, `Settles` (in the end all is in place) |

*Bounds.* Two workers are what it takes for one to act between two steps of the other; a
shared insight for a worker to find, or miss, the other's file; two lines for a transcript
to grow while it is read and for a cursor to stand between two insights; one death for a
task to be taken again (the proofs have any number). The clock is in thirds of a second, since
`source_mtime` is written in whole ones: times that round alike and times that do not.

*Fairness.* `WF(Drain(w))`: a hook starts the worker again as long as tasks wait, and a
process that runs goes on. Turns end, so the system may stop.

#### The proofs (`MemoryDirProofs`)

`TypeOKAlways`, `InsightsKeptAlways`, `WrittenOnceAlways` and `NewerHandoffKeptAlways`, for
any transcripts, sessions, workers and number of faults, without hypotheses. `Inductive` is `FilesOk /\ WorkOk`:

* `SessionOk` says of each session what the properties say of its files;
* `LocalsOk` says what a worker relies on at its place. The one that carries the most is
  `Saves`: a worker between the reading of the insights and the cursor has, in `lines` or on disk, every
  insight up to `top`, and `known` has the files of its session and none that is not
  there. Therefore the cursor it writes passes nothing, and no file is written twice;
* `HandoffOk` says that the handoff carries the rounded time of some moment of its session, not later than its
  last line; with `Rounding` (rounding keeps the order) a worker that found nothing newer writes
  nothing older.

`OthersOk` is where `Owner` enters: a worker's steps change rows, files and tasks of its own
session only, so nothing that another relies on; insight files of other sessions only get more.

## 4.3 The proposals

#### The model

A bullet is its rule, the date of the header above it, the held line it came from and the day
a person put it back (history); the file is the set of bullets, their numbers are their
order, and positions are computed as the code does, by counting. `proc[p]` has the place
and locals of a worker or a command; `lock` is `memory_dir_lock`.

| action | code |
|---|---|
| `BeginTask` | a task with its own timestamp, which may be days old |
| `StartExpiry`, `Register`, `DropExpired` | `expire_pending`, before the prompt and again in `persist_results`: one block of the registry per file write, then the queue |
| `Infer`, `Record` | the grader's rules, all to the queue or all to the overflow |
| `List`, `Judge`, `Load`, `Archive`, `Replace` | `proposals list` without the lock; `accept`, `reject`, `apply`: back to front, a registry block per verdict, then the queue |
| `HeldRequeue`, `Reconcile`, `RequeueHeld`, `Dispose` | `held requeue`, under the cap or the `--max-pending` it was given, with `_reconcile_held`: markers in the queue without a disposition |
| `RequeueExpired`, `Forget` | `expired requeue`: the queue, then the registry |
| `Crash` | a death anywhere; the kernel releases the lock |

`ProposalReview` is the same without processes, lock, clock and pairs of files: bullets that
are open, settled or lapsed, the lines of the overflow, and which of them are dealt
with. Each of its steps is one transition of a rule: rules enter together or wait together, a
line enters once or is merged, a bullet is put on record and then leaves, a lapsed rule
comes back and is then forgotten. `ProposalQueue` implements it with the bullets of each
file as they are, and with a line dealt with from its marker on, not from its
disposition on: the marker is in the same file as the bullet, so the two come about in one
write, and the command that died before the second file is a stutter when it is given
again.

#### The run

| run | instance | shows |
|---|---|---|
| `proposals` | 1 worker, 1 person, 2 rules, a cap of 2 that a requeue may be given as 3, 3 bullets ever, 1 held line, 2 days and an age limit shorter than a day | `RulesConserved` (no rule lost, no held line queued twice), `CapRespected`, `VerdictsExact`, `RevivedKept`, and the files implement `ProposalReview` (`ReviewSpec`) |

*Bounds.* All writers are under one lock, so that what two processes can do to each other is
what happens between two critical sections; one of each kind is enough for that. `CapRespected` goes by the position of a bullet: one that a worker
wrote has a place within its cap, one that was requeued within the command's. Two
bullets are needed for a removal to shift a position, three for one to have come after
others left, and to pass the workers' cap under a higher `--max-pending` (`Caps`). `MaxAge` 0 stands for an age limit shorter than a tick: a bullet outlives it in one.
The clock and the bullets are bounded, so the system may stop.

#### The proofs (`ProposalQueueProofs`)

`TypeOKAlways`, `RulesConservedAlways`, `CapRespectedAlways`, `VerdictsExactAlways`, `RevivedKeptAlways`, for any
processes, rules, caps, ages and bounds, without hypotheses. `Inductive` adds to the types and
the lock:

* `Ids`: no two bullets share a number and the numbers to come are free;
* `ExpiryInv`: what an expiry is still to register is too old and in the queue, and what
  it is to drop is registered or still to be: so the second file never drops what the
  first has not;
* `VerdictsInv`: the text an apply is working on is the queue without the verdicts done so
  far, and the positions still to come are below all of those done: so they mean the same
  bullets as when the queue was loaded. The lemmas on positions (`NthOrder`, `NthOfPart`)
  are for this;
* `Accounted`, `RecordedInv`, `ForgetInv`: where each recorded rule is at every step between two files;
* `Marked`: a bullet that came from a held line has left its marker, which is never taken
  back, so `Reconciled` sees a requeue that died;
* `Dated`: a revived bullet is dated the day it came back, and no task's timestamp is in the
  future.

`ImplementsReview` is `Spec => ReviewSpec`, again without hypotheses. `ReviewInv` adds to
`Inductive` that what a worker is about to write is an answer (`AnswersInv`) and that a
line about to get its disposition has its marker or repeats a rule that the queue or an
earlier line has (`DisposeInv`). There is one lemma per action that is a step of the
review (`ReviewRecord` to `ReviewForget`), and `ReviewStutters` for the rest. `ExpiryInv` and
`VerdictsInv` are what makes a removal a `Leave`, `ForgetInv` makes the second file of a revival a
`Forget`, and `Reconciled` makes a requeue one of a line that is not dealt with yet.

# 5. Metrics, store and deploy

## 5.1 The metrics store

#### The model

A row of `session_stats` is the set of messages it sums up, with the profile, the key (the
profile in its event id) and whether it has a host. The outbox and the backend are
keyed by that id. `mtime` has the time each transcript was last written to, 0 where it is not on
disk: `ingest` sorts the files by modification time, so that a message belongs to the
oldest file that mentions it.

| action | code |
|---|---|
| `Turn`, `Resume`, `Reopen`, `Prune` | agents write, resume a conversation in a new transcript, touch and delete transcripts |
| `Read` | the scan: each message to the oldest transcript that mentions it |
| `UpsertStats` | `upsert_stats`, all rows in one commit; rows without messages are not written |
| `WriteLocal`, `Enqueue` | the `sqlite_local` and `http_remote` sinks, one commit per event |
| `Claim`, `Send` | the drain; what can go wrong in it is `MetricsOutbox` |
| `BackfillHost`, `Reconfigure`, `Rename` | `backfill-host`; the profile's name changes in `config.toml`; `rename-profile` with its guard on pending rows |
| `Crash` | an ingest dies |

#### The run

| run | instance | shows |
|---|---|---|
| `metrics_store` | 2 transcripts, 2 messages, 2 processes, 3 writes by agents, 2 faults (deaths, overlaps) | `TotalsRight` (each message in one row, and no total shrinks), `HostReaches`, `EventuallyReported` |

*Bounds.* Two transcripts with a message in common are the smallest case of attribution; three
writes let one be written, resumed and then touched, grown or pruned. To keep the state
space small, either ingests may overlap or there is an operator who backfills and renames
(`tended`), with one old row of a session that is gone; the operator acts between and during the
steps of single ingests.

*Fairness.* Weak, for the steps of a process, for ingests (the scheduler starts them for
ever) and for the drain. Agents, operators and deaths have none. `TotalsRight` is about runs that were not overtaken since they
read: one that was may take a message back until the next run.

#### The proofs (`MetricsStoreProofs`)

`TypeOKAlways` and `TotalsRightAlways`, for any transcripts, messages, processes, writes and
faults, without hypotheses: ingests that overlap and die, commands that rewrite the
rows between any two of their steps, transcripts that are resumed, pruned and opened again.
`TotalsInv` is the inductive invariant; TLC checked it on the instance of the run before it was proved.

* `OldestOwns` and `FoundOnce` are the two lemmas about attribution: a message of
  a transcript on disk is found in some transcript, and in one only. They rest on `DiskInv`
  (no two files have one time) and on the least member of a set of times (`Least`, from the
  library's minimal elements of well-founded relations).
* *No total shrinks.* `CoversInv` is about a run that has read and was not overtaken: what is in a row it
  is going to replace it has found somewhere, not necessarily in that session, because a message
  may have moved to an older file; and the same of what another run, still at its local rows, will
  put into that row. When the run reads, `OldestOwns` gives that; an `upsert_stats` by
  any other process ends it, which is the exception in the property.
* *No message is counted twice.* `upsert_stats` leaves the rows alone for which nothing was found, so
  it is not enough that what is found is disjoint: a row that was written once has to be found
  again. `OwnersInv` says so as long as no transcript was deleted or opened again without a
  message: a session that once was the oldest to mention some message still is. A turn adds a message nobody
  has, and a transcript that is resumed into another stays the older of the two; where one
  is opened again this ends (`CountedOnceAlways`, section 6).

## 5.2 The metrics outbox

#### The model

Every `outbox_*` function of `db.py` is one transaction, hence one action. A
session's metrics are a version number (`truth`), a row carries the version in
its payload, leases and delays are counted down by `Tick`, and a NULL timestamp
is an elapsed one. `seen[p]` is what an ingest has read and not enqueued yet,
`batch[p]` what a process claimed, `posted[p]` and `answer[p]` the POST it is
about to acknowledge, `late` the requests a client gave up on that may still
arrive.

Two histories record where the protocol is not exact. `overtaken` has the events that were
enqueued with a new payload while a request for the old one was claimed, under way or still to
arrive; an event leaves it with the next new payload that meets nothing. `outlived` has the events of
a batch whose lease ended before its owner had answered for them, until nobody holds them.

| action | code |
|---|---|
| `StartIngest`, `Enqueue`, `EndEnqueue` | the scan and `outbox_enqueue`: insert, or update where the payload differs |
| `StartDrain` | `lh metrics drain` |
| `ResetBackoff`, `Claim` | `outbox_reset_backoff`, `outbox_claim`: the oldest due rows, at most a batch, under a lease |
| `PostAccepted`, `PostRefused`, `PostUnanswered` | the POST: 2xx, another status, no answer (the backend may have it, or get it late) |
| `Ack`, `AckRaises` | `outbox_mark_sent`, `outbox_mark_failed` with `_backoff_for`, by key; or the overflow of the delay, which ends the drain |
| `Crash` | a process dies, or a statement on the database raises |

#### The runs

| run | instance | shows |
|---|---|---|
| `outbox_claims` | 3 processes, 1 event of a session that grows, a lease of one tick that may end under its owner; database, backend and network fail, requests arrive late, one process dies, the overflow of the delay is within reach | `SentMeansDelivered`, `ClaimExclusive`, `DeliveredStays` |
| `outbox_liveness` | 1 process, 2 events, sessions grow, the backend and the network fail now and then, one event never accepted, one crash | `TypeOK`, `EventuallyDelivered` |

The three properties of the first run except the events in `overtaken` and (the last two) in
`outlived`, and nothing else: deaths, lost answers, failing statements, resets of the backoff
and unchanged re-enqueues are all inside. Without the exceptions the code violates them (section 6).

*Bounds.* Two processes are enough for one to take a row back from the other, the third to
enqueue or to claim meanwhile; one event is enough, since what the three properties say is of one row and
acknowledgements are by key. `MaxVersion` 2 is a session that grows once between
any two steps: the changed re-enqueue between POST and acknowledgement and the late request
for the older payload both occur. `outbox_liveness` has two events, to have a row behind another, and a batch that
takes both. `MaxAttempts` saturates the counter where the delay has reached
its cap; `FloatExponent` is 1024 in reality, out of reach (9) except in
`outbox_claims`. `MaxCrashes` bounds the deaths,
since a process that always dies delivers nothing. `outbox_liveness` leaves out
failures of the database, which no fairness of the code bounds. Deadlock is checked: an
ingest can always start.

*Fairness.* `WF(Tick)` and `WF(Step(p))`: time passes and a running process is
scheduled. `SF(StartIngest(p))`: the scheduler repeats `lh metrics ingest`, and
`lh metrics drain` alone never finds new totals. `SF(PostAccepted(p, e))`: a
backend that is tried again and again with an event it accepts answers at last.

#### The proofs (`MetricsOutboxProofs`)

For any events, processes, bounds and faults:

* `TypeOKAlways`, with `AnsweredIsClaimed` (a process with an answer still has
  that row in its batch).
* `SentMeansDeliveredTheorem`. `OnePayload`, of every event not in `overtaken`: claims and late
  requests carry the payload of the row, and whoever got a 2xx or marked the row knows that the
  backend has that payload. When a new payload meets no request (`Out`) it holds anew, trivially;
  that is why an event may leave `overtaken`.
* `ClaimExclusiveTheorem` and `DeliveredStaysTheorem`, from `Leased`: a claimed row of an event in
  neither history is in `sending` under a lease that has not ended, and a process has one claim of a row. A
  tick that ends the lease puts the event in `outlived`; an acknowledgement
  ends the claim and the lease together.

None of the three has a hypothesis.

## 5.3 The knowledge store

#### The model

A write is numbered by its time; a journal is a sequence of such numbers, the handoff and the
insight cursor are one each. Commits are kept with their files and their history, and the merge
is git's: a fast forward, or file by file against the common base, journals by union (ours and then theirs
between two lines of the base), other files by the side that changed, with a conflict if both did.

| action | code |
|---|---|
| `AppendLine`, `WriteHandoff`, `RemoveHandoff`, `WriteCursor` | workers, at any time |
| `Mirror` | engram-persist, with a cursor of its own machine |
| `CommitAll` | `status`, `add -A`, `commit`, and whether an earlier cycle still owes a push |
| `Pull` | fetch and merge: nothing to do, refused (the work tree has changes in files the merge would write), merged, or conflicts |
| `Resolve`, `Abort` | `_resolve_handoffs`; `merge --abort`, whose failure is not looked at |
| `Push` | taken if it has the remote's branch in its past |
| `Fail` | a call fails or the cycle dies |

#### The run

| run | instance | shows |
|---|---|---|
| `store_sync` | 2 machines, one with an engram, 3 writes, one fault | `LinesKept`, `HandoffAdvances` (the remote's handoff is never replaced by an older one, whichever machine merges or concludes the merge of a cycle that died), `OwnAhead` (no merge moves a machine's own unmirrored line behind its cursor), `EventuallyAlike` |

*Bounds.* Three writes are what it takes for both machines to change a file and for one of
them to be written to in the middle of the other's cycle; the one fault is a death in a merge or a lost push.
`HandoffAdvances` speaks of the remote: on a machine the handoff a worker writes in the middle of a
merge is lost (`LocalHandoffAdvances`, section 6).

*Fairness.* `WF(Cycle(m))`: the scheduler runs the cycle for ever; `WF(Mirror(m))`: Stop
hooks recur. `EventuallyAlike` allows for the conflict no rule covers.

## 5.4 Deploy

#### The model

At each name of the config dir there is nothing, a link into the profile source or a file,
whose text is a set of entries. `command` has the step of the one command that runs.

| action | code |
|---|---|
| `Snapshot`, `Plan` | the snapshot and its manifest; everything is planned, and refused, before anything is linked |
| `Prune`, `LinkName`, `WriteLedger` | for the assets and then for the skills: retract owned links, `ensure_symlink` with its `.bak`, the ledger |
| `ReadDocument`, `Apply` | the config document, with what was displaced; refused if it has moved since it was read, or if another document of the plan has; written, or removed where nobody needs it any more |
| `LinkGlobal` | the agent's default config dir |
| `Rollback`, `Restore`, `RestoreLedger`, `EndRestore` | `lh deploy --rollback`, name by name |
| `Die`, `DieInLedger`, `DieInSnapshot` | a death between two steps, between the renaming and the link, in a ledger, before the manifest |
| `EditSource`, `WriteEntry`, `PutFile` | the user and other tools |

The check of the document and its write are one step in `Apply`: the window between them is a
few instructions long and the code can do nothing about it. The profile source
changes between commands only. One person runs one command at a time.

#### The run

| run | instance | shows |
|---|---|---|
| `deploy` | the document and one more asset, one skill, 2 entries, any links and files to begin with; 2 changes by others, one death | `DocumentKept`, `RollbackRestores`, `LinksOwned` |

*Bounds.* One asset beside the document is enough to be owned, retracted, taken by a file and
linked again; two changes put one before and one after the snapshot, or in the middle of a deploy; one death
leaves one deploy unfinished, which a rollback or a further deploy meets. Tools write to the
document at every step; what they add between its displacement and its reading is recorded in `late`, and
`DocumentKept` speaks of `Owed`, everything else: section 6 has the rest. The
bounds on changes and deaths let the system stop.

#### The proofs (`DeployProofs`)

All three properties, for any assets, skills and entries, any number of changes and of deaths;
none has a hypothesis. `Recording` is the ground of `LinksOwned` and `RollbackRestores`: a deploy
links and prunes skills, and a rollback restores, only what the newest snapshot records. It says nothing
of the asset links a deploy retracts, because the snapshot does not have them: hence `Retracted` in
`RollbackRestores`.

* `LinksOwnedTheorem`. While links are made and retracted no ledger accounts for them, so that
  `LinksOwned` is not inductive. `DeployOwns` says what does instead: the plan, and what is
  still to be pruned. `SnapshotOwns` says of a snapshot what the property says of the config
  dir, and `RollbackOwns` carries that over name by name; it is why a rollback makes good a death.
* `RollbackRestoresTheorem`. `Unchanged`: as long as nobody else has touched the config dir, what the snapshot
  records is what was there, what it does not record is still there or was retracted, and
  what a rollback has passed is as it was. A deploy that dies, and a rollback that dies and is run again, leave it true.
* `DocumentKeptTheorem`. `Carrying`: every entry that is owed is in the document or in what was
  displaced and is carried, and once read it will be written unless the document has moved. `Sourced` is
  needed where the document is a link: its text is the profile's; `Authored`, to know that an entry
  that is added was nowhere before, neither in what was read nor in what is carried, so that the document has
  moved.

## 5.5 Migrate

#### The model

At each name there is nothing, a link into lazy-claudecode, another link or a file; of
`config.toml` the text is told apart, and where it is a link `target` is the text it leads
to. `command` has the step of the one command that runs, what it has yet to do there, and
the operations it will write to its log. `before`, `cut`, `missed` and `removed` are
history: the files when the newest migration began, the names a step stopped at half-way (none
for a backup that failed: it has touched nothing yet),
the names whose undo failed in the replay that runs, the entries the user removed.

| action | code |
|---|---|
| `DryRun`, `Expire` | the marker of a dry run, good for an hour |
| `Begin` | detection and plan, behind the gate; the plan is a new one, not the one reviewed |
| `Backup`, `StopInBackup` | the manifest, complete or not |
| `GenerateConfig`, `StopInConfig` | `write_bytes`, through a link if there is one, and the operation that undoes it |
| `Flatten`, `StopInFlatten` | per link: copy to `.tmp`, unlink, rename; recorded afterwards |
| `RemoveScripts`, `StopInScripts` | per script |
| `WriteLog` | `rollback.json`, after the last step or after one that failed; then the replay |
| `Rollback`, `Undo`, `UndoFails`, `EndUndo` | the replay, operation by operation, failures reported and passed over |
| `Die`, `DieInUndo` | a command dies between two operations, or inside one of a replay |
| `EditConfig`, `Rearrange` | the user, between two commands |

#### The run

| run | instance | shows |
|---|---|---|
| `migrate` | a profile dir with its settings and a memo, one script, any of them links, `config.toml` absent, a file or a link; 2 migrations, 1 change by the user, 2 failures or deaths | `EntriesKept`, `UndoRestores`, `TextsKept` |

*Bounds.* Two entries let one be flattened and the other be stopped at, and make a profile
found or not; two migrations are what it takes for a backup to be taken of what a migration
left; two faults let a step fail and the replay that follows fail or die as well. The
change, by the user, comes at any time between two commands. Deadlock is checked: a dry run
can always be done.

#### The proofs (`MigrateProofs`)

All three properties, for any entries, scripts and texts and any number of migrations,
changes and faults, without hypotheses. `Shape` says what a command knows at each of its
steps (the config step has a complete backup with what is at `config.toml`; a link that is
still to be flattened is a link; what is being undone is in the newest log), and
`BackupsKept`, that no step changes a complete backup or a log there is.

* `EntriesKeptTheorem`. Where an entry is missing there is its copy, and where a replay has
  removed a file without putting the link back, its log has the target.
* `UndoRestoresTheorem`. `Restoring`, as long as nobody else has changed anything: the
  operations a command has made so far, or those in the newest log, account for every name
  that is not as before (`Covers`), each of them says truly what was there before (`Right`),
  and in a replay what has been undone is as before, or was missed. Deaths in a replay leave
  it true, so that a replay may be repeated any number of times.
* `TextsKeptTheorem`. `ConfigBacked`: a text of the user at `config.toml` that an operation
  yet to be undone could overwrite is the one in the backup.

# 6. Findings and hypotheses

What a theorem assumes, a property excepts or a run keeps out of its instance is no
formality either. Each line below takes a run of this project, changes constants of it or adds a property
its module states with the words "not so"; TLC then finds the violation.

| run, with | violates | because |
|---|---|---|
| `engram_overlap`, `FailingWrites = {"quarantine"}` | `NothingSkipped` | `engram_persist.py:169` swallows the error of the sidecar's write and the cursor moves on |
| `engram_sequential`, `OldCursors <- MCNoCursors`, `StoreCursor <- MCForeignCursor` | `NothingSkipped` | `engram_persist.py:298` adopts a cursor another machine may have written |
| `engram_overlap`, invariant `NoDuplicateEmission`, nothing failing | itself | two Stops read one cursor before either saves |
| `queue_faults`, `FinalStateOfAll` | itself | what `lost` records: `compound_loop.py:653` names tasks by the second, so that one truncates the other; `:655` makes the file before its content, and a worker archives it unread; a task whose inference failed is archived; a hook may die before it queues |
| `queue_faults`, `Sessions = {s1, s2}`, `ShortId <- MCSameId`, no faults, ends and handoffs | `DebouncedByOwn` | eight characters of a Codex session id are the same for all |
| `queue_liveness`, `HolderDrains`, nothing failing (`MaxFailures = 0`, `Faults = {}`) | itself | a task dropped after the worker's last look, whose own worker finds the lock taken, waits for the next hook of the profile: "the in-flight worker will drain the new task" (`docs/how/memory-compound.md:100`) is not always so |
| `proposals`, `JudgedAsShown` | itself | `memory_cmd.py:890` has positions "resolved against the listing the verdicts were written from": they are resolved against the queue as it is, and a worker may have expired or added bullets since the listing |
| `proposals`, `RequeuedKept` | itself | a held line comes back under its old timestamp, which the next worker expires; `expired requeue` writes a fresh header for that very reason (`memory_cmd.py:773`) |
| `memory_dir`, `HandoffNeverOlder` | itself | `_handoff_belongs_to_newer_session` and the write are two steps and no lock |
| `metrics_store`, `CountedOnceAlways` | itself | a transcript that is opened again and left becomes the newer one, its messages go to another row, and a row without messages is not written again |
| `metrics_store`, `HostReachesRenamed` | itself | `backfill-host` finds what was sent by the id of the row, `rename-profile` changes that id |
| `metrics_store`, `OldNameSilent` | itself | `db.py:737` counts rows that are pending; one in sending still goes out under the old id |
| `outbox_claims`, `NoDoubleSend` | itself | `sinks/worker.py:46`: one lease of 60 s for up to 50 POSTs of up to 5 s, against "so two lh processes don't double-send" (`worker.py:9`) |
| `outbox_claims`, `SentMeansDeliveredAlways` | itself | `db.py:1046`: `outbox_mark_sent` acknowledges by key. A row enqueued anew while its old payload was being posted is marked sent with the new one, which nobody has sent; or a request for the old payload arrives after the new one was accepted |
| `outbox_liveness`, `Events = {e1}`, `Procs = {p1, p2}`, nothing refused or failing | `EventuallyDelivered` | the same: the next enqueue finds the row sent and leaves it so, although `docs/how/metrics-ingest.md:234` has "the worst case is 'send later', not 'send never'" |
| `outbox_liveness`, `FloatExponent = 1` | `EventuallyDelivered` | `sinks/worker.py:28`: `2 ** (attempts - 1)` overflows a float before it is capped, after 1024 failures of a row |
| `outbox_liveness`, `Batch = 1` | `EventuallyDelivered` | every drain clears the delays and claims the oldest rows: a batch of rows the backend always refuses starves all others |
| `store_sync`, `AllMirrored` | itself | a merge done by another machine puts its lines before those of this one, behind the engram cursor: they are never saved to this machine's engram, although `docs/how/knowledge-pipeline.md:308` has the mirror keep both views in sync |
| `store_sync`, `LocalHandoffAdvances` | itself | `git_push.py:102` picks the newer of the two sides that were merged and `:107` checks it out over a handoff that a worker has written since, although `docs/how/knowledge-pipeline.md:221` has "newest wins" |
| `store_sync`, `NoMarkers` | itself | a cycle that dies in a merge, or an abort that fails because a worker wrote meanwhile, leaves the markers in the work tree; the next cycle commits them with `add -A` |
| `deploy`, `RollbackRestoresAll` | itself | the snapshot has the links a deploy is going to make and not those it retracts, and the ledger that is put back names links that are not there; `docs/how/profiles-and-deploy.md:220` has the rollback undo the deploy |
| `deploy`, `LinksOwnedAlways` | itself | the ledgers are written after the links: after a death the next deploy never retracts such an asset link, and takes such a skill for the user's and refuses until someone removes it |
| `deploy`, `EntriesServed` | itself | a deploy refused because the document has moved reports that nothing was written, but has displaced the file whose entries it carried: they are in the `.bak`. The same where neither hooks nor servers are configured |
| `deploy`, `DocumentKeptAlways` | itself | `deploy/engine.py:694`: what was displaced replaces what is read, so that an entry written to the document since is lost |
| `migrate`, `SelfHeals` | itself | the operation that failed half-way has made no record: a link whose copy was not renamed, or a config cut short, stays so; `specs/adrs/014-migration-engine-rollback.md:38` has a broken migration "always self-heal". And a migration that dies has no log at all, although `docs/getting-started/migrating.md:58` has it written "as it goes" |
| `migrate`, `LinkedTextRestored` | itself | `config_step.py:59` writes through a `config.toml` that is a link, `backup.py:56` saves the link and not what it leads to |
| `migrate`, `SecondIsNoOp` | itself | the plan always has the config step, so that a second migration writes over what the user has made of the config since; `014-migration-engine-rollback.md:41` has it a no-op |

Two more are in the models as they are. `insights/.cursor.json` has no rule for a merge, so that two
machines that both wrote it stay in conflict (the `Stuck` of `EventuallyAlike`). And
`knowledge_cmd.py:282` starts the worker of `handoff-now` without the profile: the task is in the
profile's queue and the worker looks at the global one (`compound_loop_worker.py:123` says why
the two must agree), so that `Spawn` starts none for it and the task waits for the next hook of the profile.

# 7. What is only model-checked

* Liveness (`EventuallyMirrored`, `DrainedWhileLooking`, `EventuallyDelivered`, `Settles`,
  `HostReaches`, `EventuallyReported`, `EventuallyAlike`): temporal reasoning under
  fairness, with `ENABLED`, is not within the prover's reach.
* `StoreSync` as a whole. What `Union` does to journals of any length is computed by
  `FlattenSeq`, hence induction over sequences, which the prover cannot use; `LinesKept` and
  `OwnAhead` rest on it.

No module declares a RECURSIVE operator. Where a proof needs induction over numbers, it
takes a least counterexample instead (`Least` in `MetricsStoreProofs`, `MemoryDirProofs` and
`ProposalQueueProofs`, `Greatest` in the latter two).
