---------------------------- MODULE CompoundQueue ----------------------------
(***************************************************************************)
(* The queue of the compound loop.  A hook process of a session (Stop,     *)
(* SessionEnd, or `lh knowledge handoff-now`) drops a task file named by    *)
(* the second and the session's short id, and spawns a detached worker;     *)
(* workers exclude each other with flock, drain the directory and archive   *)
(* every task in done/.  Only process_task reads the transcript.            *)
(*                                                                         *)
(* The agent waits for its hooks, but a transcript grows under them and the *)
(* command of a shell runs at any time.                                     *)
(***************************************************************************)
EXTENDS Naturals, FiniteSets

CONSTANTS
    Sessions,     \* sessions of one profile
    Ids,          \* values of session_id[:8]
    ShortId,      \* [Sessions -> Ids]
    Workers,      \* worker processes alive at one time
    NoSession, NoWorker,
    MaxTime,      \* bound on the clock, in seconds
    MaxVersion,   \* bound on the growth of a transcript
    Debounce,     \* debounce_seconds
    MinGrowth,    \* reprocess_min_growth_seconds
    Retention,    \* _DONE_RETENTION_SECONDS
    Ends,         \* sessions whose agent fires SessionEnd
    Handoffs,     \* sessions for which `lh knowledge handoff-now` is run
    MaxFailures,  \* bound on workers that die or fail to archive
    Faults        \* what else may fail: see FaultKinds

FaultKinds == {"hook", "spawn", "inference"}

\* A process that queues tasks: one of the hooks of a session, or the command.
Producers == Sessions \X {"stop", "end", "handoff"}

Times == 0 .. MaxTime
Versions == 0 .. MaxVersion
Names == Times \X Ids       \* <unix_ts>-<short_id>.task
NoTask == [session |-> NoSession, mtime |-> 0, forced |-> FALSE, runs |-> 0, there |-> FALSE]
NoName == << >>
NoTime == MaxTime + 1
Nothing == [session |-> NoSession, version |-> 0]

Tasks == [session : Sessions \cup {NoSession}, mtime : Times, forced : BOOLEAN,
          runs : Nat, there : BOOLEAN]

ASSUME QueueAssumption ==
    /\ ShortId \in [Sessions -> Ids]
    /\ NoSession \notin Sessions /\ NoWorker \notin Workers
    /\ MaxTime \in Nat /\ MaxVersion \in Nat
    /\ Debounce \in Nat /\ MinGrowth \in Nat /\ Retention \in Nat
    /\ Ends \subseteq Sessions /\ Handoffs \subseteq Sessions
    /\ MaxFailures \in Nat /\ Faults \subseteq FaultKinds

VARIABLES
    now,         \* time.time(), in seconds
    version,     \* version[s]: how far the transcript of the session has grown
    mtime,       \* mtime[s]: when it last grew
    ended,       \* ended[s]: the session closed
    evaluated,   \* evaluated[s]: the version its last evaluation persisted
    queue,       \* queue[n]: the task file of that name, or NoTask
    done,        \* done[n]: its mtime in done/, or NoTime
    hook,        \* hook[p]: where the producer is
    naming,      \* naming[p]: the name of the file it has open
    place,       \* place[p]: where that file is: still in the queue, in done/, replaced
    holder,      \* who holds the flock on .worker.lock
    worker, todo, at, reading,    \* the workers
    failures,    \* workers that have died or failed to archive
    lost         \* history: sessions left without a task by a failure, see Spoiled

session == <<version, mtime, ended>>
files == <<queue, done>>
hooks == <<hook, naming, place>>
workers == <<holder, worker, todo, at, reading>>
vars == <<now, session, evaluated, files, hooks, workers, failures, lost>>

Queued == {n \in Names : queue[n].there}
OfId(s) == {n \in Names : n[2] = ShortId[s]}

\* A task of the session is in the queue and no worker has read it yet.
Waiting(s) == \E n \in Queued : queue[n].session = s /\ \A w \in Workers : at[w] # n

\* A step spoils what these sessions asked for; a task that waits makes up for it.
Spoiled(S) == lost' = {s \in lost \cup S : ~Waiting(s)'}

-----------------------------------------------------------------------------
(* Time and the sessions. *)

Tick ==
    /\ now < MaxTime
    /\ now' = now + 1
    /\ UNCHANGED <<session, evaluated, files, hooks, workers, failures, lost>>

\* The agent writes to the transcript.
Grow(s) ==
    /\ ~ended[s]
    /\ version[s] < MaxVersion
    /\ version' = [version EXCEPT ![s] = @ + 1]
    /\ mtime' = [mtime EXCEPT ![s] = now]
    /\ UNCHANGED <<now, ended, evaluated, files, hooks, workers, failures, lost>>

-----------------------------------------------------------------------------
(* The producers. *)

HookGoto(p, label) == hook' = [hook EXCEPT ![p] = label]

\* The agent runs one hook of a session at a time.
StartHook(s, kind, label) ==
    /\ hook[<<s, "stop">>] = "idle" /\ hook[<<s, "end">>] = "idle"
    /\ ~ended[s] /\ version[s] > 0
    /\ HookGoto(<<s, kind>>, label)
    /\ UNCHANGED <<now, version, mtime, evaluated, files, naming, place, workers, failures, lost>>

Stop(s) ==
    /\ StartHook(s, "stop", "debounce")
    /\ UNCHANGED ended

\* Mutant: SessionEnd goes through the gates of Stop.
SessionEndGated(s) ==
    /\ s \in Ends
    /\ StartHook(s, "end", "debounce")
    /\ ended' = [ended EXCEPT ![s] = TRUE]

SessionEnd(s) ==
    /\ s \in Ends
    /\ StartHook(s, "end", "create")
    /\ ended' = [ended EXCEPT ![s] = TRUE]

\* From a shell: whatever the hooks of the session do, and after its end as well.
HandoffNow(s) ==
    /\ s \in Handoffs /\ version[s] > 0
    /\ hook[<<s, "handoff">>] = "idle"
    /\ HookGoto(<<s, "handoff">>, "create")
    /\ UNCHANGED <<now, session, evaluated, files, naming, place, workers, failures, lost>>

\* Mutant: the glob is `*.task`.
DebouncedByAny(s) == \E n \in Queued : now - queue[n].mtime < Debounce

\* Mutant: the window is looked for in done/.
DebouncedByDone(s) == \E n \in OfId(s) : done[n] # NoTime /\ now < done[n] + Debounce

\* is_debounced: by the file's mtime, over every task with the short id.
Debounced(s) == \E n \in Queued \cap OfId(s) : now - queue[n].mtime < Debounce

CheckDebounce(p) ==
    /\ hook[p] = "debounce"
    /\ HookGoto(p, IF Debounced(p[1]) THEN "idle" ELSE "growth")
    /\ UNCHANGED <<now, session, evaluated, files, naming, place, workers, failures, lost>>

\* last_processed_mtime and should_reprocess.
ShouldReprocess(s) ==
    \A n \in OfId(s) : done[n] # NoTime => mtime[s] >= done[n] + MinGrowth

CheckGrowth(p) ==
    /\ hook[p] = "growth"
    /\ HookGoto(p, IF ShouldReprocess(p[1]) THEN "create" ELSE "idle")
    /\ UNCHANGED <<now, session, evaluated, files, naming, place, workers, failures, lost>>

\* create_task opens the file, truncating one of the same name.
CreateTask(p) ==
    LET name == <<now, ShortId[p[1]]>> IN
    /\ hook[p] = "create"
    /\ queue' = [queue EXCEPT ![name] = [NoTask EXCEPT !.there = TRUE, !.mtime = now]]
    /\ naming' = [naming EXCEPT ![p] = name]
    /\ place' = [place EXCEPT ![p] = "queue"]
    /\ HookGoto(p, "write")
    /\ UNCHANGED <<now, session, evaluated, done, workers, failures>>
    /\ Spoiled({queue[name].session} \ {NoSession})

\* The content reaches the open file, wherever the file has been moved to.
WriteTask(p) ==
    LET n == naming[p] IN
    /\ hook[p] = "write"
    /\ queue' = IF place[p] = "queue"
                THEN [queue EXCEPT ![n] = [NoTask EXCEPT
                         !.there = TRUE, !.mtime = now, !.session = p[1], !.forced = p[2] # "stop"]]
                ELSE queue
    /\ done' = IF place[p] = "done" /\ done[n] # NoTime THEN [done EXCEPT ![n] = now] ELSE done
    /\ naming' = [naming EXCEPT ![p] = NoName]
    /\ place' = [place EXCEPT ![p] = "gone"]
    /\ HookGoto(p, "spawn")
    /\ UNCHANGED <<now, session, evaluated, workers, failures>>
    /\ Spoiled({p[1], queue[n].session} \ {NoSession})

\* Popen.  handoff-now names no profile, so its worker drains another queue;
\* the hook ends all the same when Popen raises OSError.
Spawn(p) ==
    /\ hook[p] = "spawn"
    /\ HookGoto(p, "idle")
    /\ \/ /\ p[2] # "handoff"
          /\ \E w \in Workers : worker[w] = "off" /\ worker' = [worker EXCEPT ![w] = "lock"]
       \/ /\ p[2] = "handoff" \/ "spawn" \in Faults
          /\ UNCHANGED worker
    /\ UNCHANGED <<now, session, evaluated, files, naming, place, holder, todo, at, reading,
                   failures, lost>>

\* The hook is killed, SessionEnd's perhaps before its task is written.
HookDies(p) ==
    /\ "hook" \in Faults
    /\ hook[p] # "idle"
    /\ HookGoto(p, "idle")
    /\ naming' = [naming EXCEPT ![p] = NoName]
    /\ place' = [place EXCEPT ![p] = "gone"]
    /\ UNCHANGED <<now, session, evaluated, files, workers, failures>>
    /\ Spoiled(IF p[2] = "end" /\ hook[p] # "spawn" THEN {p[1]} ELSE {})

HookStep(p) ==
    \/ CheckDebounce(p)
    \/ CheckGrowth(p)
    \/ CreateTask(p)
    \/ WriteTask(p)
    \/ Spawn(p)

SessionStep(s) ==
    \/ Grow(s)
    \/ Stop(s)
    \/ SessionEnd(s)
    \/ HandoffNow(s)

-----------------------------------------------------------------------------
(* The workers: compound_loop_worker.main and _drain_queue. *)

WorkerGoto(w, label) == worker' = [worker EXCEPT ![w] = label]

\* The process ends and the kernel drops its lock.
WorkerExits(w) ==
    /\ WorkerGoto(w, "off")
    /\ holder' = IF holder = w THEN NoWorker ELSE holder
    /\ todo' = [todo EXCEPT ![w] = {}]
    /\ at' = [at EXCEPT ![w] = NoName]
    /\ reading' = [reading EXCEPT ![w] = Nothing]

\* A hook of another session of the profile spawned it.
Wake(w) ==
    /\ worker[w] = "off"
    /\ WorkerGoto(w, "lock")
    /\ UNCHANGED <<now, session, evaluated, files, hooks, holder, todo, at, reading, failures, lost>>

\* Mutant: a worker that finds the lock taken drains all the same.
LockIgnored(w) ==
    /\ worker[w] = "lock"
    /\ holder' = w
    /\ WorkerGoto(w, "list")
    /\ UNCHANGED <<todo, at, reading>>
    /\ UNCHANGED <<now, session, evaluated, files, hooks, failures, lost>>

\* flock(LOCK_EX | LOCK_NB): another worker is running, exit 0.
Lock(w) ==
    /\ worker[w] = "lock"
    /\ IF holder = NoWorker
       THEN /\ holder' = w
            /\ WorkerGoto(w, "list")
            /\ UNCHANGED <<todo, at, reading>>
       ELSE WorkerExits(w)
    /\ UNCHANGED <<now, session, evaluated, files, hooks, failures, lost>>

\* pending = sorted(queue_dir.glob("*.task"))
List(w) ==
    /\ worker[w] = "list"
    /\ todo' = [todo EXCEPT ![w] = Queued]
    /\ WorkerGoto(w, IF Queued = {} THEN "prune" ELSE "next")
    /\ UNCHANGED <<now, session, evaluated, files, hooks, holder, at, reading, failures, lost>>

\* Mutant: one pass over what was there at first.
EndPassLast(w) ==
    /\ worker[w] = "next"
    /\ todo[w] = {}
    /\ WorkerGoto(w, "prune")
    /\ UNCHANGED <<now, session, evaluated, files, hooks, holder, todo, at, reading, failures, lost>>

EndPass(w) ==
    /\ worker[w] = "next"
    /\ todo[w] = {}
    /\ WorkerGoto(w, "list")
    /\ UNCHANGED <<now, session, evaluated, files, hooks, holder, todo, at, reading, failures, lost>>

\* A file of the oldest second; process_task parses it and reads the transcript,
\* or finds no transcript named in a file without content.
Begin(w) ==
    \E n \in todo[w] :
        /\ worker[w] = "next"
        /\ \A o \in todo[w] : n[1] <= o[1]
        /\ queue[n].there
        /\ at' = [at EXCEPT ![w] = n]
        /\ IF queue[n].session = NoSession
           THEN WorkerGoto(w, "touch") /\ UNCHANGED reading
           ELSE /\ WorkerGoto(w, "run")
                /\ reading' = [reading EXCEPT ![w] =
                       [session |-> queue[n].session, version |-> version[queue[n].session]]]
        /\ UNCHANGED <<now, session, evaluated, files, hooks, holder, todo, failures, lost>>

\* Inference answers and the results are persisted, or it fails and the task
\* is skipped.
Evaluate(w) ==
    LET s == reading[w].session IN
    /\ worker[w] = "run"
    /\ WorkerGoto(w, "touch")
    /\ reading' = [reading EXCEPT ![w] = Nothing]
    /\ UNCHANGED <<now, session, done, hooks, holder, todo, at, failures>>
    /\ \/ /\ evaluated' = [evaluated EXCEPT ![s] = reading[w].version]
          /\ queue' = [queue EXCEPT ![at[w]].runs = @ + 1]
          /\ UNCHANGED lost
       \/ /\ "inference" \in Faults
          /\ UNCHANGED <<evaluated, queue>>
          /\ Spoiled({s})

\* move_to_done stamps the file first, so that done/ tells when it was processed.
Touch(w) ==
    /\ worker[w] = "touch"
    /\ queue' = [queue EXCEPT ![at[w]].mtime = now]
    /\ WorkerGoto(w, "move")
    /\ UNCHANGED <<now, session, evaluated, done, hooks, holder, todo, at, reading, failures, lost>>

\* A file somebody still writes takes the writer along, and replaces its namesake.
Follow(n) ==
    place' = [p \in Producers |->
                 IF naming[p] # n THEN place[p]
                 ELSE IF place[p] = "queue" THEN "done" ELSE "gone"]

\* Mutant: the copy in the queue stays.
MoveCopies(w) ==
    /\ worker[w] = "move"
    /\ done' = [done EXCEPT ![at[w]] = queue[at[w]].mtime]
    /\ todo' = [todo EXCEPT ![w] = @ \ {at[w]}]
    /\ at' = [at EXCEPT ![w] = NoName]
    /\ WorkerGoto(w, "next")
    /\ Follow(at[w])
    /\ UNCHANGED <<now, session, evaluated, queue, hook, naming, holder, reading, failures, lost>>

Move(w) ==
    /\ worker[w] = "move"
    /\ done' = [done EXCEPT ![at[w]] = queue[at[w]].mtime]
    /\ queue' = [queue EXCEPT ![at[w]] = NoTask]
    /\ todo' = [todo EXCEPT ![w] = @ \ {at[w]}]
    /\ at' = [at EXCEPT ![w] = NoName]
    /\ WorkerGoto(w, "next")
    /\ Follow(at[w])
    /\ UNCHANGED <<now, session, evaluated, hook, naming, holder, reading, failures, lost>>

\* move_to_done returns False before or after the stamp: the worker stops.
ArchiveFails(w) ==
    /\ worker[w] \in {"touch", "move"}
    /\ failures < MaxFailures /\ failures' = failures + 1
    /\ WorkerExits(w)
    /\ UNCHANGED <<now, session, evaluated, files, hooks, lost>>

\* The queue was empty: old archives go, then the lock does.
Prune(w) ==
    /\ worker[w] = "prune"
    /\ done' = [n \in Names |-> IF done[n] + Retention < now THEN NoTime ELSE done[n]]
    /\ WorkerExits(w)
    /\ UNCHANGED <<now, session, evaluated, queue, hooks, failures, lost>>

WorkerDies(w) ==
    /\ worker[w] # "off"
    /\ failures < MaxFailures /\ failures' = failures + 1
    /\ WorkerExits(w)
    /\ UNCHANGED <<now, session, evaluated, files, hooks, lost>>

WorkerStep(w) ==
    \/ Lock(w)
    \/ List(w)
    \/ EndPass(w)
    \/ Begin(w)
    \/ Evaluate(w)
    \/ Touch(w)
    \/ Move(w)
    \/ Prune(w)

Init ==
    /\ now = 0
    /\ version = [s \in Sessions |-> 0]
    /\ mtime = [s \in Sessions |-> 0]
    /\ ended = [s \in Sessions |-> FALSE]
    /\ evaluated = [s \in Sessions |-> 0]
    /\ queue = [n \in Names |-> NoTask]
    /\ done = [n \in Names |-> NoTime]
    /\ hook = [p \in Producers |-> "idle"]
    /\ naming = [p \in Producers |-> NoName]
    /\ place = [p \in Producers |-> "gone"]
    /\ holder = NoWorker
    /\ worker = [w \in Workers |-> "off"]
    /\ todo = [w \in Workers |-> {}]
    /\ at = [w \in Workers |-> NoName]
    /\ reading = [w \in Workers |-> Nothing]
    /\ failures = 0
    /\ lost = {}

Next ==
    \/ Tick
    \/ \E s \in Sessions : SessionStep(s)
    \/ \E p \in Producers : HookStep(p) \/ HookDies(p)
    \/ \E w \in Workers : WorkerStep(w) \/ Wake(w) \/ ArchiveFails(w) \/ WorkerDies(w)

Spec == Init /\ [][Next]_vars

\* A worker that was started is scheduled.
FairSpec == Spec /\ \A w \in Workers : WF_vars(WorkerStep(w))

-----------------------------------------------------------------------------
(* Properties. *)

\* Every variable keeps its shape: counters and times stay within their bounds
\* and a process has a label its code reaches.
TypeOK ==
    /\ now \in Times
    /\ version \in [Sessions -> Versions]
    /\ mtime \in [Sessions -> Times]
    /\ ended \in [Sessions -> BOOLEAN]
    /\ evaluated \in [Sessions -> Versions]
    /\ queue \in [Names -> Tasks]
    /\ done \in [Names -> Times \cup {NoTime}]
    /\ hook \in [Producers -> {"idle", "debounce", "growth", "create", "write", "spawn"}]
    /\ naming \in [Producers -> Names \cup {NoName}]
    /\ place \in [Producers -> {"queue", "done", "gone"}]
    /\ holder \in Workers \cup {NoWorker}
    /\ worker \in [Workers -> {"off", "lock", "list", "next", "run", "touch", "move", "prune"}]
    /\ todo \in [Workers -> SUBSET Names]
    /\ at \in [Workers -> Names \cup {NoName}]
    /\ reading \in [Workers -> [session : Sessions \cup {NoSession}, version : Versions]]
    /\ failures \in 0 .. MaxFailures
    /\ lost \subseteq Sessions

Draining == {"list", "next", "run", "touch", "move", "prune"}

\* A file a worker has listed is there until this worker archives it, so
\* is_file() and move_to_done never meet a file that another worker took.
ListedStays ==
    \A w \in Workers :
        /\ todo[w] \subseteq Queued
        /\ worker[w] \in {"run", "touch", "move"} => at[w] \in todo[w]

\* An evaluation never persists an older state of a session over a newer one.
EvaluationsAdvance == [][\A s \in Sessions : evaluated'[s] >= evaluated[s]]_vars

\* A task is evaluated once, and again only for a worker that died or failed to
\* archive; whoever else drains or queues meanwhile.
EvaluatedOnce == \A n \in Queued : queue[n].runs <= 1 + failures

\* Once the SessionEnd hook has returned, the final state of the session was
\* evaluated or a task that will evaluate it is in the queue; unless the hook was
\* killed, inference failed, or the task was overwritten or archived unread, and
\* nothing has been queued for the session since.
FinalStateEvaluated ==
    \A s \in Sessions \ lost :
        ended[s] /\ hook[<<s, "end">>] = "idle" =>
            \/ evaluated[s] = version[s]
            \/ \E n \in Queued : queue[n].session = s

\* Without the exception: not so, each of the failures named there loses a session.
FinalStateOfAll ==
    \A s \in Sessions :
        ended[s] /\ hook[<<s, "end">>] = "idle" =>
            evaluated[s] = version[s] \/ \E n \in Queued : queue[n].session = s

\* A flapping session does not queue itself repeatedly: the tasks its Stop hooks
\* left in the queue are a debounce window apart.
StopTasksSpaced ==
    \A n, m \in Queued :
        /\ n # m /\ n[1] <= m[1]
        /\ queue[n].session = queue[m].session /\ queue[n].session \in Sessions
        /\ ~queue[n].forced /\ ~queue[m].forced
        => n[1] + Debounce <= m[1]

\* A Stop hook is debounced by a task of its own session only.  Not so when two
\* sessions have one short id, as Codex sessions of a month do (MCSameId).
DebouncedByOwn ==
    [][\A s \in Sessions :
          hook[<<s, "stop">>] = "debounce" /\ hook'[<<s, "stop">>] = "idle" =>
              \E n \in Queued : queue[n].session = s]_vars

\* A worker that has not yet found the queue empty, once no more workers fail.
Looking(w) ==
    /\ worker[w] \in {"list", "next", "run", "touch", "move"}
    /\ failures = MaxFailures

\* A task that is in the queue before a worker's last look is archived in the end,
\* also when its hook died, its inference failed or a failed worker left it behind.
DrainedWhileLooking ==
    \A n \in Names : queue[n].there /\ (\E w \in Workers : Looking(w)) ~> ~queue[n].there

\* A worker that finds the lock taken may leave its task to the one that holds it.
\* Not so: the holder may have had its last look at the queue.
HolderDrains ==
    \A n \in Names :
        queue[n].there /\ (\E w \in Workers : worker[w] = "lock" /\ holder # NoWorker)
            ~> ~queue[n].there
=============================================================================
