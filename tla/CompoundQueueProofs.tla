------------------------ MODULE CompoundQueueProofs ------------------------
(***************************************************************************)
(* The lock of the workers, for every number of sessions, workers and files *)
(* and with every fault: a file that was listed is there until the worker   *)
(* that listed it archives it, and evaluations do not go back.  Then what a  *)
(* session is promised: its final state, one evaluation of a task, and Stop *)
(* tasks a debounce window apart.                                           *)
(***************************************************************************)
EXTENDS CompoundQueue, TLAPS

\* A hook that has opened its task file knows its name.
Named == \A p \in Producers : hook[p] = "write" => naming[p] \in Names

\* Only the holder of the lock drains, and only a drainer has listed anything.
Locked ==
    \A w \in Workers :
        /\ worker[w] \in Draining => holder = w
        /\ worker[w] \notin Draining => todo[w] = {}

\* What is being evaluated is a state the transcript has had, and not older than
\* what was evaluated last.
ReadsAhead ==
    /\ \A s \in Sessions : evaluated[s] <= version[s]
    /\ \A w \in Workers :
          worker[w] = "run" =>
              /\ reading[w].session \in Sessions
              /\ evaluated[reading[w].session] <= reading[w].version
              /\ reading[w].version <= version[reading[w].session]

Inductive == TypeOK /\ Named /\ Locked /\ ListedStays /\ ReadsAhead

\* Task files with a field replaced are task files.
LEMMA TaskType ==
  /\ NoTask \in Tasks
  /\ \A m \in Times : [NoTask EXCEPT !.there = TRUE, !.mtime = m] \in Tasks
  /\ \A m \in Times, s \in Sessions, f \in BOOLEAN :
        [NoTask EXCEPT !.there = TRUE, !.mtime = m, !.session = s, !.forced = f] \in Tasks
  /\ \A t \in Tasks, m \in Times : [t EXCEPT !.mtime = m] \in Tasks
  /\ \A t \in Tasks : [t EXCEPT !.runs = @ + 1] \in Tasks
  <1>1. 0 \in Times
    BY QueueAssumption DEF Times, QueueAssumption
  <1>2. NoTask \in Tasks
    BY <1>1 DEF NoTask, Tasks
  <1>3. \A t \in Tasks, m \in Times : [t EXCEPT !.mtime = m] \in Tasks
    BY DEF Tasks
  <1>4. \A t \in Tasks, m \in Times : [t EXCEPT !.there = TRUE, !.mtime = m] \in Tasks
    BY DEF Tasks
  <1>5. \A t \in Tasks, m \in Times, s \in Sessions, f \in BOOLEAN :
           [t EXCEPT !.there = TRUE, !.mtime = m, !.session = s, !.forced = f] \in Tasks
    BY DEF Tasks
  <1>6. \A t \in Tasks : [t EXCEPT !.runs = @ + 1] \in Tasks
    BY DEF Tasks
  <1>. QED BY <1>2, <1>3, <1>4, <1>5, <1>6

\* Initially nothing is queued and nobody runs.
LEMMA InitInductive == Init => Inductive
  <1>. SUFFICES ASSUME Init PROVE Inductive
    OBVIOUS
  <1>1. 0 \in Times /\ 0 \in Versions
    BY QueueAssumption DEF Times, Versions, QueueAssumption
  <1>2. Nothing \in [session : Sessions \cup {NoSession}, version : Versions]
    BY <1>1 DEF Nothing
  <1>3. TypeOK
    <2>1. 0 \in 0 .. MaxFailures
      BY QueueAssumption DEF QueueAssumption
    <2>2. /\ queue \in [Names -> Tasks]
          /\ reading \in [Workers -> [session : Sessions \cup {NoSession}, version : Versions]]
      BY <1>2, TaskType DEF Init
    <2>. QED BY <1>1, <2>1, <2>2 DEF Init, TypeOK
  <1>4. Named /\ Locked
    BY DEF Init, Named, Locked, Draining
  <1>5. ListedStays
    BY DEF Init, ListedStays
  <1>6. ReadsAhead
    BY DEF Init, ReadsAhead
  <1>. QED BY <1>3, <1>4, <1>5, <1>6 DEF Inductive

\* The steps of the sessions.
LEMMA SessionType ==
  ASSUME TypeOK, Named, NEW s \in Sessions, SessionStep(s)
  PROVE  TypeOK' /\ Named'
  <1>. USE QueueAssumption DEF QueueAssumption, TypeOK, Named, HookGoto
  <1>0. \A kind \in {"stop", "end", "handoff"} : <<s, kind>> \in Producers
    BY DEF Producers
  <1>1. CASE Grow(s)
    <2>1. version[s] + 1 \in Versions
      BY <1>1 DEF Grow, Versions
    <2>. QED BY <1>1, <2>1 DEF Grow, files, hooks, workers
  <1>2. CASE Stop(s)
    BY <1>0, <1>2 DEF Stop, StartHook, files, workers
  <1>3. CASE SessionEnd(s)
    BY <1>0, <1>3 DEF SessionEnd, StartHook, files, workers
  <1>4. CASE HandoffNow(s)
    BY <1>0, <1>4 DEF HandoffNow, session, files, workers
  <1>. QED BY <1>1, <1>2, <1>3, <1>4 DEF SessionStep

\* The steps of a producer, and its death.
HookMoves(p) == HookStep(p) \/ HookDies(p)

\* A producer keeps the types.
LEMMA ProducerType ==
  ASSUME TypeOK, Named, NEW p \in Producers, HookMoves(p)
  PROVE  TypeOK' /\ Named'
  <1>. USE QueueAssumption DEF QueueAssumption, TypeOK, Named, HookGoto
  <1>0. p[1] \in Sessions
    BY DEF Producers
  <1>5. CASE CheckDebounce(p)
    BY <1>5 DEF CheckDebounce, session, files, workers
  <1>6. CASE CheckGrowth(p)
    BY <1>6 DEF CheckGrowth, session, files, workers
  <1>7. CASE CreateTask(p)
    <2>1. <<now, ShortId[p[1]]>> \in Names
      BY <1>0 DEF Names
    <2>2. queue' \in [Names -> Tasks]
      BY <1>7, <2>1, TaskType DEF CreateTask
    <2>3. queue[<<now, ShortId[p[1]]>>].session \in Sessions \cup {NoSession}
      BY <2>1 DEF Tasks
    <2>4. lost' \subseteq Sessions
      BY <1>7, <2>3 DEF CreateTask, Spoiled
    <2>. QED BY <1>7, <2>1, <2>2, <2>4 DEF CreateTask, session, workers
  <1>8. CASE WriteTask(p)
    <2>. DEFINE n == naming[p]
                t == [NoTask EXCEPT !.there = TRUE, !.mtime = now, !.session = p[1],
                                    !.forced = p[2] # "stop"]
    <2>1. n \in Names
      BY <1>8 DEF WriteTask
    <2>2. t \in Tasks
      BY <1>0, TaskType
    <2>3. queue' \in [Names -> Tasks]
      BY <1>8, <2>1, <2>2 DEF WriteTask
    <2>4. done' \in [Names -> Times \cup {NoTime}]
      BY <1>8, <2>1 DEF WriteTask
    <2>5. queue[n].session \in Sessions \cup {NoSession}
      BY <2>1 DEF Tasks
    <2>6. lost' \subseteq Sessions
      BY <1>0, <1>8, <2>5 DEF WriteTask, Spoiled
    <2>. QED BY <1>8, <2>3, <2>4, <2>6 DEF WriteTask, session, workers
  <1>9. CASE Spawn(p)
    BY <1>9 DEF Spawn, session, files
  <1>10. CASE HookDies(p)
    <2>1. lost' \subseteq Sessions
      BY <1>0, <1>10 DEF HookDies, Spoiled
    <2>. QED BY <1>10, <2>1 DEF HookDies, session, files, workers
  <1>. QED
    BY <1>5, <1>6, <1>7, <1>8, <1>9, <1>10 DEF HookMoves, HookStep

\* The steps of a worker and what may happen to it.
WorkerMoves(w) == WorkerStep(w) \/ Wake(w) \/ ArchiveFails(w) \/ WorkerDies(w)

\* A worker that exits keeps the types.
LEMMA ExitType ==
  ASSUME TypeOK, NEW w \in Workers, WorkerExits(w)
  PROVE  /\ holder' \in Workers \cup {NoWorker}
         /\ worker' \in [Workers -> {"off", "lock", "list", "next", "run", "touch", "move", "prune"}]
         /\ todo' \in [Workers -> SUBSET Names]
         /\ at' \in [Workers -> Names \cup {NoName}]
         /\ reading' \in [Workers -> [session : Sessions \cup {NoSession}, version : Versions]]
  <1>1. Nothing \in [session : Sessions \cup {NoSession}, version : Versions]
    BY QueueAssumption DEF Nothing, Versions, QueueAssumption
  <1>. QED BY <1>1 DEF WorkerExits, WorkerGoto, TypeOK

\* So does every move of a worker.
LEMMA WorkerType ==
  ASSUME TypeOK, ListedStays, ReadsAhead, NEW w \in Workers, WorkerMoves(w)
  PROVE  TypeOK'
  <1>. USE QueueAssumption DEF QueueAssumption
  <1>1. CASE Wake(w)
    BY <1>1 DEF Wake, WorkerGoto, TypeOK, session, files, hooks
  <1>2. CASE Lock(w)
    <2>1. CASE holder = NoWorker
      BY <1>2, <2>1 DEF Lock, WorkerGoto, TypeOK, session, files, hooks
    <2>2. CASE holder # NoWorker
      BY <1>2, <2>2, ExitType DEF Lock, TypeOK, session, files, hooks
    <2>. QED BY <2>1, <2>2
  <1>3. CASE List(w)
    <2>1. Queued \in SUBSET Names
      BY DEF Queued
    <2>. QED BY <1>3, <2>1 DEF List, WorkerGoto, TypeOK, session, files, hooks
  <1>4. CASE EndPass(w)
    BY <1>4 DEF EndPass, WorkerGoto, TypeOK, session, files, hooks
  <1>5. CASE Begin(w)
    <2>1. PICK n \in todo[w] :
            /\ at' = [at EXCEPT ![w] = n]
            /\ IF queue[n].session = NoSession
               THEN WorkerGoto(w, "touch") /\ UNCHANGED reading
               ELSE /\ WorkerGoto(w, "run")
                    /\ reading' = [reading EXCEPT ![w] =
                         [session |-> queue[n].session, version |-> version[queue[n].session]]]
            /\ UNCHANGED <<now, session, evaluated, files, hooks, holder, todo>>
      BY <1>5 DEF Begin
    <2>2. n \in Names /\ queue[n] \in Tasks
      BY DEF TypeOK
    <2>3. queue[n].session \in Sessions \cup {NoSession}
      BY <2>2 DEF Tasks
    <2>4. reading' \in [Workers -> [session : Sessions \cup {NoSession}, version : Versions]]
      BY <2>1, <2>3 DEF TypeOK
    <2>5. worker' \in [Workers -> {"off", "lock", "list", "next", "run", "touch", "move", "prune"}]
      BY <2>1 DEF WorkerGoto, TypeOK
    <2>6. at' \in [Workers -> Names \cup {NoName}]
      BY <2>1, <2>2 DEF TypeOK
    <2>7. UNCHANGED <<now, session, evaluated, files, hooks, holder, todo, failures, lost>>
      BY <1>5 DEF Begin
    <2>. QED BY <2>4, <2>5, <2>6, <2>7 DEF TypeOK, session, files, hooks
  <1>6. CASE Evaluate(w)
    <2>1. at[w] \in Names
      BY <1>6 DEF Evaluate, ListedStays, TypeOK
    <2>. DEFINE t == [queue[at[w]] EXCEPT !.runs = @ + 1]
    <2>5. t \in Tasks
      BY <2>1, TaskType DEF TypeOK
    <2>6. UNCHANGED queue \/ queue' = [queue EXCEPT ![at[w]] = t]
      BY <1>6 DEF Evaluate
    <2>. HIDE DEF t
    <2>2. queue' \in [Names -> Tasks]
      BY <2>5, <2>6 DEF TypeOK
    <2>3. evaluated' \in [Sessions -> Versions]
      <3>1. reading[w].version \in Versions
        BY DEF TypeOK
      <3>. QED BY <1>6, <3>1 DEF Evaluate, TypeOK
    <2>4. Nothing \in [session : Sessions \cup {NoSession}, version : Versions]
      BY DEF Nothing, Versions
    <2>7. lost' \subseteq Sessions
      <3>1. reading[w].session \in Sessions
        BY <1>6 DEF ReadsAhead, Evaluate
      <3>. QED BY <1>6, <3>1 DEF Evaluate, Spoiled, TypeOK
    <2>. QED BY <1>6, <2>2, <2>3, <2>4, <2>7 DEF Evaluate, WorkerGoto, TypeOK, session, hooks
  <1>7. CASE Touch(w)
    <2>1. queue' \in [Names -> Tasks]
      BY <1>7, TaskType DEF Touch, ListedStays, TypeOK
    <2>. QED BY <1>7, <2>1 DEF Touch, WorkerGoto, TypeOK, session, hooks
  <1>8. CASE Move(w)
    <2>1. at[w] \in Names /\ queue[at[w]].mtime \in Times
      BY <1>8 DEF Move, ListedStays, TypeOK, Tasks
    <2>2. queue' \in [Names -> Tasks] /\ done' \in [Names -> Times \cup {NoTime}]
      BY <1>8, <2>1, TaskType DEF Move, TypeOK
    <2>3. place' \in [Producers -> {"queue", "done", "gone"}]
      BY <1>8 DEF Move, Follow, TypeOK
    <2>. QED BY <1>8, <2>2, <2>3 DEF Move, WorkerGoto, TypeOK, session
  <1>9. CASE Prune(w)
    <2>1. done' \in [Names -> Times \cup {NoTime}]
      BY <1>9 DEF Prune, TypeOK
    <2>. QED BY <1>9, <2>1, ExitType DEF Prune, TypeOK, session, hooks
  <1>10. CASE ArchiveFails(w) \/ WorkerDies(w)
    BY <1>10, ExitType DEF ArchiveFails, WorkerDies, TypeOK, session, files, hooks
  <1>. QED
    BY <1>1, <1>2, <1>3, <1>4, <1>5, <1>6, <1>7, <1>8, <1>9, <1>10
       DEF WorkerMoves, WorkerStep

\* TypeOK and Named are kept.
LEMMA TypeStep ==
  ASSUME Inductive, [Next]_vars
  PROVE  TypeOK' /\ Named'
  <1>. USE DEF Inductive
  <1>1. CASE Tick
    <2>1. now + 1 \in Times
      BY <1>1, QueueAssumption DEF Tick, TypeOK, Times, QueueAssumption
    <2>. QED BY <1>1, <2>1 DEF Tick, TypeOK, Named, session, files, hooks, workers
  <1>2. ASSUME NEW s \in Sessions, SessionStep(s) PROVE TypeOK' /\ Named'
    BY <1>2, SessionType
  <1>5. ASSUME NEW p \in Producers, HookMoves(p) PROVE TypeOK' /\ Named'
    BY <1>5, ProducerType
  <1>3. ASSUME NEW w \in Workers, WorkerMoves(w) PROVE TypeOK' /\ Named'
    <2>1. UNCHANGED <<hook, naming>>
      BY <1>3 DEF WorkerMoves, WorkerStep, Wake, ArchiveFails, WorkerDies, Lock, List, EndPass,
                  Begin, Evaluate, Touch, Move, Prune, hooks
    <2>. QED BY <1>3, <2>1, WorkerType DEF Named
  <1>4. CASE UNCHANGED vars
    BY <1>4 DEF vars, session, files, hooks, workers, TypeOK, Named
  <1>. QED BY <1>1, <1>2, <1>3, <1>4, <1>5 DEF Next, WorkerMoves, HookMoves

-----------------------------------------------------------------------------
(* The lock. *)

\* No step of a session or a producer takes a file out of the queue, and none makes
\* a worker drain.
OnlyAdds ==
    /\ \A n \in Names : queue[n].there => queue'[n].there
    /\ \A w \in Workers : worker'[w] = worker[w] \/ (worker[w] = "off" /\ worker'[w] = "lock")
    /\ UNCHANGED <<holder, todo, at, reading, failures, evaluated>>

\* A session leaves the queue and the workers alone.
LEMMA SessionsAdd ==
  ASSUME NEW s \in Sessions, SessionStep(s)
  PROVE  OnlyAdds /\ UNCHANGED <<now, queue, workers, naming, lost>>
  <1>1. UNCHANGED <<now, queue, workers, naming, failures, evaluated, lost>>
    BY DEF SessionStep, Grow, Stop, SessionEnd, HandoffNow, StartHook, files, hooks
  <1>. QED BY <1>1 DEF OnlyAdds, workers

\* A producer adds its file, and may start a worker.
LEMMA ProducersAdd ==
  ASSUME Inductive, NEW p \in Producers, HookMoves(p)
  PROVE  OnlyAdds
  <1>. USE DEF Inductive
  <1>1. CASE CreateTask(p) \/ WriteTask(p)
    <2>. DEFINE t == [NoTask EXCEPT !.there = TRUE, !.mtime = now]
                u == [NoTask EXCEPT !.there = TRUE, !.mtime = now, !.session = p[1],
                                    !.forced = p[2] # "stop"]
    <2>3. t.there /\ u.there
      BY DEF NoTask
    <2>4. \E n : \/ queue' = [queue EXCEPT ![n] = t]
                \/ queue' = [queue EXCEPT ![n] = u]
                \/ UNCHANGED queue
      BY <1>1 DEF CreateTask, WriteTask
    <2>. HIDE DEF t, u
    <2>1. \A n \in Names : queue'[n] = queue[n] \/ queue'[n].there
      BY <2>3, <2>4 DEF TypeOK
    <2>2. UNCHANGED <<workers, failures, evaluated>>
      BY <1>1 DEF CreateTask, WriteTask
    <2>. QED BY <2>1, <2>2 DEF workers, OnlyAdds
  <1>2. CASE Spawn(p)
    BY <1>2 DEF Spawn, TypeOK, files, OnlyAdds
  <1>3. CASE CheckDebounce(p) \/ CheckGrowth(p) \/ HookDies(p)
    <2>1. UNCHANGED <<queue, workers, failures, evaluated>>
      BY <1>3 DEF CheckDebounce, CheckGrowth, HookDies, files
    <2>. QED BY <2>1 DEF workers, OnlyAdds
  <1>. QED BY <1>1, <1>2, <1>3 DEF HookMoves, HookStep

\* A worker touches only its own list, and only while it drains.
LEMMA OthersLists ==
  ASSUME Inductive, NEW w \in Workers, WorkerMoves(w), NEW o \in Workers, o # w
  PROVE  worker'[o] = worker[o] /\ todo'[o] = todo[o] /\ at'[o] = at[o] /\ reading'[o] = reading[o]
  BY DEF Inductive, TypeOK, WorkerMoves, WorkerStep, Wake, ArchiveFails, WorkerDies, Lock, List,
         EndPass, Begin, Evaluate, Touch, Move, Prune, WorkerExits, WorkerGoto

\* What the move of a worker does to itself, to the lock and to the queue.
LEMMA OwnList ==
  ASSUME Inductive, NEW w \in Workers, WorkerMoves(w)
  PROVE  /\ worker'[w] \in Draining =>
               /\ holder' = w
               /\ todo'[w] \subseteq Queued'
               /\ worker'[w] \in {"run", "touch", "move"} => at'[w] \in todo'[w]
         /\ worker'[w] \notin Draining => todo'[w] = {}
         /\ \A o \in Workers : o # w /\ holder = o => holder' = o
         /\ \A n \in Names : queue[n].there => queue'[n].there \/ worker[w] \in Draining
  <1>. USE DEF Inductive, Draining
  <1>0. /\ worker[w] \in Draining => holder = w
        /\ worker[w] \notin Draining => todo[w] = {}
        /\ todo[w] \subseteq Queued
        /\ worker[w] \in {"run", "touch", "move"} => at[w] \in todo[w]
        /\ w # NoWorker
    BY QueueAssumption DEF Locked, ListedStays, QueueAssumption
  <1>1. CASE Wake(w)
    BY <1>0, <1>1 DEF Wake, WorkerGoto, TypeOK, files, Queued
  <1>2. CASE Lock(w)
    <2>1. UNCHANGED queue /\ worker[w] = "lock"
      BY <1>2 DEF Lock, files
    <2>2. CASE holder = NoWorker
      BY <1>0, <1>2, <2>1, <2>2, QueueAssumption DEF Lock, WorkerGoto, TypeOK, QueueAssumption
    <2>3. CASE holder # NoWorker
      BY <1>0, <1>2, <2>1, <2>3 DEF Lock, WorkerExits, WorkerGoto, TypeOK
    <2>. QED BY <2>2, <2>3
  <1>3. CASE List(w)
    <2>1. UNCHANGED <<queue, holder>> /\ todo'[w] = Queued /\ worker'[w] \in {"prune", "next"}
      BY <1>3 DEF List, WorkerGoto, TypeOK, files
    <2>. QED BY <1>0, <1>3, <2>1 DEF List, Queued
  <1>4. CASE EndPass(w)
    BY <1>0, <1>4 DEF EndPass, WorkerGoto, TypeOK, files, Queued
  <1>5. CASE Begin(w)
    <2>1. UNCHANGED <<queue, holder, todo>> /\ at'[w] \in todo[w] /\ worker'[w] \in {"run", "touch"}
      BY <1>5 DEF Begin, WorkerGoto, TypeOK, files
    <2>. QED BY <1>0, <1>5, <2>1 DEF Begin, Queued
  <1>6. CASE Evaluate(w) \/ Touch(w)
    <2>1. /\ UNCHANGED <<holder, todo, at>>
          /\ worker[w] \in {"run", "touch"} /\ worker'[w] \in {"touch", "move"}
      BY <1>6 DEF Evaluate, Touch, WorkerGoto, TypeOK
    <2>3. \A n \in Names : queue[n] \in Tasks
      BY DEF TypeOK
    <2>2. \A n \in Names : queue'[n].there = queue[n].there
      <3>1. CASE Touch(w)
        BY <2>3, <3>1 DEF Touch, TypeOK, Tasks
      <3>2. CASE Evaluate(w)
        <4>. DEFINE c == queue[at[w]].runs + 1
        <4>1. UNCHANGED queue \/ queue' = [queue EXCEPT ![at[w]].runs = c]
          BY <3>2 DEF Evaluate
        <4>. HIDE DEF c
        <4>. QED BY <2>3, <4>1 DEF TypeOK, Tasks
      <3>. QED BY <1>6, <3>1, <3>2
    <2>. QED BY <1>0, <2>1, <2>2 DEF Queued
  <1>7. CASE Move(w)
    <2>1. /\ UNCHANGED holder /\ worker[w] = "move" /\ worker'[w] = "next"
          /\ todo'[w] = todo[w] \ {at[w]}
      BY <1>7 DEF Move, WorkerGoto, TypeOK
    <2>2. \A n \in Names : n # at[w] => queue'[n] = queue[n]
      BY <1>7 DEF Move, TypeOK
    <2>. QED BY <1>0, <2>1, <2>2 DEF Queued
  <1>8. CASE Prune(w) \/ ArchiveFails(w) \/ WorkerDies(w)
    <2>1. WorkerExits(w) /\ UNCHANGED queue
      BY <1>8 DEF Prune, ArchiveFails, WorkerDies, files
    <2>. QED BY <1>0, <2>1 DEF WorkerExits, WorkerGoto, TypeOK
  <1>. QED
    BY <1>1, <1>2, <1>3, <1>4, <1>5, <1>6, <1>7, <1>8 DEF WorkerMoves, WorkerStep

\* Every step keeps the lock and the lists.
LEMMA LockStep ==
  ASSUME Inductive, [Next]_vars
  PROVE  Locked' /\ ListedStays'
  <1>. USE DEF Inductive
  <1>1. CASE Tick \/ UNCHANGED vars
    BY <1>1 DEF Tick, vars, files, workers, Locked, ListedStays, Queued
  <1>2. ASSUME OnlyAdds PROVE Locked' /\ ListedStays'
    BY <1>2 DEF OnlyAdds, Locked, ListedStays, Queued, Draining
  <1>3. ASSUME NEW w \in Workers, WorkerMoves(w) PROVE Locked' /\ ListedStays'
    <2>1. Locked'
      BY <1>3, OwnList, OthersLists DEF Locked
    <2>2. ASSUME NEW o \in Workers
          PROVE  /\ todo'[o] \subseteq Queued'
                 /\ worker'[o] \in {"run", "touch", "move"} => at'[o] \in todo'[o]
      <3>1. CASE o = w
        BY <1>3, <3>1, OwnList DEF Draining
      <3>2. CASE o # w /\ worker[o] \in Draining
        <4>1. worker[w] \notin Draining
          BY <3>2 DEF Locked
        <4>2. Queued \subseteq Queued'
          BY <1>3, <4>1, OwnList DEF Queued
        <4>. QED BY <1>3, <3>2, <4>2, OthersLists DEF ListedStays
      <3>3. CASE o # w /\ worker[o] \notin Draining
        BY <1>3, <3>3, OthersLists DEF Locked, Draining
      <3>. QED BY <3>1, <3>2, <3>3
    <2>3. ListedStays'
      BY <2>2 DEF ListedStays
    <2>. QED BY <2>1, <2>3
  <1>. QED BY <1>1, <1>2, <1>3, SessionsAdd, ProducersAdd DEF Next, WorkerMoves, HookMoves

-----------------------------------------------------------------------------
(* The evaluations. *)

\* Every step keeps readings ahead of what was evaluated, and evaluations advance.
LEMMA ReadsStep ==
  ASSUME Inductive, [Next]_vars
  PROVE  ReadsAhead' /\ \A s \in Sessions : evaluated'[s] >= evaluated[s]
  <1>. USE DEF Inductive
  <1>0. /\ \A s \in Sessions : evaluated[s] \in Nat /\ version[s] \in Nat
        /\ \A w \in Workers : reading[w].version \in Nat
    BY QueueAssumption DEF TypeOK, Versions, QueueAssumption
  <1>1. CASE Tick \/ UNCHANGED vars
    BY <1>0, <1>1 DEF Tick, vars, session, workers, ReadsAhead
  <1>2. ASSUME OnlyAdds, \A x \in Sessions : version'[x] = version[x] \/ version'[x] = version[x] + 1
        PROVE  ReadsAhead' /\ \A x \in Sessions : evaluated'[x] >= evaluated[x]
    <2>1. UNCHANGED <<evaluated, reading>> /\ \A w \in Workers : worker'[w] = "run" => worker[w] = "run"
      BY <1>2 DEF OnlyAdds
    <2>. QED BY <1>0, <1>2, <2>1 DEF ReadsAhead
  <1>4. ASSUME NEW s \in Sessions, SessionStep(s)
        PROVE  \A x \in Sessions : version'[x] = version[x] \/ version'[x] = version[x] + 1
    <2>1. CASE Grow(s)
      BY <2>1 DEF Grow, TypeOK
    <2>2. CASE Stop(s) \/ SessionEnd(s) \/ HandoffNow(s)
      BY <2>2 DEF Stop, SessionEnd, HandoffNow, StartHook, session
    <2>. QED BY <1>4, <2>1, <2>2 DEF SessionStep
  <1>5. ASSUME NEW p \in Producers, HookMoves(p) PROVE UNCHANGED version
    BY <1>5 DEF HookMoves, HookStep, CheckDebounce, CheckGrowth, CreateTask, WriteTask, Spawn,
                HookDies, session
  <1>3. ASSUME NEW w \in Workers, WorkerMoves(w)
        PROVE  ReadsAhead' /\ \A s \in Sessions : evaluated'[s] >= evaluated[s]
    <2>1. UNCHANGED version
      BY <1>3 DEF WorkerMoves, WorkerStep, Wake, ArchiveFails, WorkerDies, Lock, List, EndPass,
                  Begin, Evaluate, Touch, Move, Prune, session
    <2>2. CASE Evaluate(w)
      <3>. DEFINE x == reading[w].session
      <3>1. /\ x \in Sessions /\ evaluated[x] <= reading[w].version
            /\ reading[w].version <= version[x]
        BY <2>2 DEF Evaluate, ReadsAhead
      <3>2. /\ \A s \in Sessions : s # x => evaluated'[s] = evaluated[s]
            /\ evaluated'[x] = evaluated[x] \/ evaluated'[x] = reading[w].version
        BY <2>2, <3>1 DEF Evaluate, TypeOK
      <3>3. worker[w] = "run" /\ worker'[w] = "touch"
        BY <2>2 DEF Evaluate, WorkerGoto, TypeOK
      <3>4. \A o \in Workers : o # w => worker[o] # "run"
        BY <3>3 DEF Locked, Draining
      <3>5. \A o \in Workers : worker'[o] # "run"
        BY <1>3, <3>3, <3>4, OthersLists
      <3>. QED BY <1>0, <2>1, <3>1, <3>2, <3>5 DEF ReadsAhead
    <2>3. CASE ~Evaluate(w)
      <3>1. UNCHANGED evaluated
        BY <1>3, <2>3 DEF WorkerMoves, WorkerStep, Wake, ArchiveFails, WorkerDies, Lock, List,
                          EndPass, Begin, Touch, Move, Prune
      <3>2. worker'[w] = "run" => /\ reading'[w].session \in Sessions
                                  /\ reading'[w].version = version[reading'[w].session]
        <4>1. CASE Begin(w)
          <5>1. PICK n \in todo[w] :
                  IF queue[n].session = NoSession
                  THEN WorkerGoto(w, "touch") /\ UNCHANGED reading
                  ELSE /\ WorkerGoto(w, "run")
                       /\ reading' = [reading EXCEPT ![w] =
                            [session |-> queue[n].session, version |-> version[queue[n].session]]]
            BY <4>1 DEF Begin
          <5>2. n \in Names /\ queue[n].session \in Sessions \cup {NoSession}
            BY DEF TypeOK, Tasks
          <5>. QED BY <5>1, <5>2 DEF WorkerGoto, TypeOK
        <4>2. CASE ~Begin(w)
          <5>1. worker'[w] # "run"
            BY <1>3, <2>3, <4>2
               DEF WorkerMoves, WorkerStep, Wake, ArchiveFails, WorkerDies, Lock, List, EndPass,
                   Touch, Move, Prune, WorkerGoto, WorkerExits, TypeOK
          <5>. QED BY <5>1
        <4>. QED BY <4>1, <4>2
      <3>3. \A o \in Workers : o # w => worker'[o] = worker[o] /\ reading'[o] = reading[o]
        BY <1>3, OthersLists
      <3>. QED BY <1>0, <2>1, <3>1, <3>2, <3>3 DEF ReadsAhead
    <2>. QED BY <2>2, <2>3
  <1>. QED
    BY <1>1, <1>2, <1>3, <1>4, <1>5, SessionsAdd, ProducersAdd DEF Next, WorkerMoves, HookMoves

\* The inductive invariant holds of every reachable state.
LEMMA InductiveAlways == Spec => []Inductive
  <1>1. Inductive /\ [Next]_vars => Inductive'
    BY TypeStep, LockStep, ReadsStep DEF Inductive
  <1>. QED BY <1>1, InitInductive, PTL DEF Spec

\* The variables have the types of TypeOK in every reachable state, for every
\* number of sessions and workers and whatever fails.
THEOREM TypeOKAlways == Spec => []TypeOK
  <1>1. Inductive => TypeOK
    BY DEF Inductive
  <1>. QED BY <1>1, InductiveAlways, PTL

\* What a worker has listed stays in the queue until this worker archives it: no
\* other worker, however many are spawned or die, takes it away.
THEOREM ListedStaysAlways == Spec => []ListedStays
  <1>1. Inductive => ListedStays
    BY DEF Inductive
  <1>. QED BY <1>1, InductiveAlways, PTL

\* An evaluation never persists an older state of a session over a newer one.
THEOREM EvaluationsAdvanceAlways == Spec => EvaluationsAdvance
  <1>1. Inductive /\ [Next]_vars => [\A s \in Sessions : evaluated'[s] >= evaluated[s]]_vars
    BY ReadsStep
  <1>. QED BY <1>1, InductiveAlways, PTL DEF Spec, EvaluationsAdvance

-----------------------------------------------------------------------------
(***************************************************************************)
(* The final state of a session.  A step that takes the session's request   *)
(* away puts it among the lost ones, unless another task of it waits.       *)
(***************************************************************************)

\* A worker has taken the file up.
Taken(w, n) == worker[w] \in {"run", "touch", "move"} /\ at[w] = n

\* The task will evaluate what the session says now.
WillEvaluate(s, n) ==
    /\ queue[n].there /\ queue[n].session = s
    /\ \A w \in Workers :
          Taken(w, n) => /\ worker[w] = "run"
                         /\ reading[w].session = s /\ reading[w].version = version[s]

\* The session was evaluated as it is, or will be.
Heard(s) == evaluated[s] = version[s] \/ \E n \in Names : WillEvaluate(s, n)

\* Once its hook has written the task, a session that ended is heard, or it has lost
\* its request.
Concluded ==
    \A s \in Sessions :
        ended[s] =>
            /\ hook[<<s, "end">>] \in {"create", "write", "spawn", "idle"}
            /\ hook[<<s, "end">>] \in {"spawn", "idle"} => s \in lost \/ Heard(s)

\* After the step the session has lost its request, or a task of it waits.
Excused(s) == s \in lost' \/ Waiting(s)'

\* Whoever is spoiled is excused, and stays so.
LEMMA SpoiledExcused ==
  ASSUME NEW S, Spoiled(S), NEW s \in Sessions, s \in lost \cup S
  PROVE  Excused(s)
  BY DEF Spoiled, Excused

\* Steps that let no worker take up a file and excuse the sessions whose task they
\* change, the sessions that were lost and those whose hook has come to its end.
LEMMA QuietStep ==
  ASSUME Concluded,
         \A w \in Workers : worker'[w] \in {"run", "touch", "move"} =>
             worker'[w] = worker[w] /\ at'[w] = at[w] /\ reading'[w] = reading[w],
         \A s \in lost : s \in Sessions => Excused(s),
         \A s \in Sessions, n \in Names : WillEvaluate(s, n) =>
             Excused(s) \/ (queue'[n].there /\ queue'[n].session = s),
         UNCHANGED evaluated,
         \A s \in Sessions : ended'[s] =>
             \/ hook'[<<s, "end">>] \in {"create", "write"}
             \/ hook'[<<s, "end">>] \in {"spawn", "idle"} /\ Excused(s)
             \/ /\ ended[s] /\ version'[s] = version[s]
                /\ \/ hook'[<<s, "end">>] = hook[<<s, "end">>]
                   \/ hook[<<s, "end">>] = "spawn" /\ hook'[<<s, "end">>] = "idle"
  PROVE  Concluded'
  <1>. SUFFICES ASSUME NEW s \in Sessions, ended'[s]
                PROVE  /\ hook'[<<s, "end">>] \in {"create", "write", "spawn", "idle"}
                       /\ hook'[<<s, "end">>] \in {"spawn", "idle"} => s \in lost' \/ Heard(s)'
    BY DEF Concluded
  <1>1. Excused(s) => s \in lost' \/ Heard(s)'
    BY DEF Excused, Waiting, Heard, WillEvaluate, Taken, Queued
  <1>2. ASSUME Heard(s), version'[s] = version[s] PROVE s \in lost' \/ Heard(s)'
    <2>1. CASE evaluated[s] = version[s]
      BY <1>2, <2>1 DEF Heard
    <2>2. ASSUME NEW n \in Names, WillEvaluate(s, n), queue'[n].there, queue'[n].session = s
          PROVE  WillEvaluate(s, n)'
      <3>1. ASSUME NEW w \in Workers, worker'[w] \in {"run", "touch", "move"}, at'[w] = n
            PROVE  worker'[w] = "run" /\ reading'[w].session = s /\ reading'[w].version = version'[s]
        <4>1. worker'[w] = worker[w] /\ at'[w] = at[w] /\ reading'[w] = reading[w]
          BY <3>1
        <4>. QED BY <1>2, <2>2, <3>1, <4>1 DEF WillEvaluate, Taken
      <3>. QED BY <2>2, <3>1 DEF WillEvaluate, Taken
    <2>. QED BY <1>1, <1>2, <2>1, <2>2 DEF Heard
  <1>3. CASE /\ ended[s] /\ version'[s] = version[s]
             /\ \/ hook'[<<s, "end">>] = hook[<<s, "end">>]
                \/ hook[<<s, "end">>] = "spawn" /\ hook'[<<s, "end">>] = "idle"
    BY <1>1, <1>2, <1>3 DEF Concluded
  <1>. QED BY <1>1, <1>3

\* The steps of a session.
LEMMA SessionsConclude ==
  ASSUME Inductive, Concluded, NEW s \in Sessions, SessionStep(s)
  PROVE  Concluded'
  <1>. USE DEF Inductive
  <1>1. UNCHANGED <<queue, worker, at, reading, lost, evaluated>>
    BY SessionsAdd DEF OnlyAdds, workers
  <1>2. ASSUME NEW x \in Sessions, ended'[x]
        PROVE  \/ hook'[<<x, "end">>] = "create"
               \/ /\ ended[x] /\ version'[x] = version[x]
                  /\ hook'[<<x, "end">>] = hook[<<x, "end">>]
    <2>0. \A y \in Sessions, k \in {"stop", "end", "handoff"} :
             <<y, k>> \in Producers /\ (<<y, k>> = <<x, "end">> => y = x /\ k = "end")
      BY DEF Producers
    <2>1. CASE Grow(s)
      BY <1>2, <2>1 DEF Grow, TypeOK, hooks
    <2>2. CASE Stop(s)
      BY <1>2, <2>0, <2>2 DEF Stop, StartHook, HookGoto, TypeOK
    <2>3. CASE SessionEnd(s)
      <3>1. CASE x = s
        BY <2>0, <2>3, <3>1 DEF SessionEnd, StartHook, HookGoto, TypeOK
      <3>2. CASE x # s
        BY <1>2, <2>0, <2>3, <3>2 DEF SessionEnd, StartHook, HookGoto, TypeOK
      <3>. QED BY <3>1, <3>2
    <2>4. CASE HandoffNow(s)
      BY <1>2, <2>0, <2>4 DEF HandoffNow, HookGoto, TypeOK, session
    <2>. QED BY <2>1, <2>2, <2>3, <2>4 DEF SessionStep
  <1>. QED BY <1>1, <1>2, QuietStep DEF WillEvaluate, Excused

\* The steps of a producer.
LEMMA ProducersConclude ==
  ASSUME Inductive, Concluded, NEW p \in Producers, HookMoves(p)
  PROVE  Concluded'
  <1>. USE DEF Inductive
  <1>0. /\ p[1] \in Sessions
        /\ \A x \in Sessions : /\ <<x, "end">> \in Producers
                              /\ <<x, "end">> = p <=> p[1] = x /\ p[2] = "end"
    BY DEF Producers
  <1>1. \A w \in Workers : worker'[w] \in {"run", "touch", "move"} =>
             worker'[w] = worker[w] /\ at'[w] = at[w] /\ reading'[w] = reading[w]
    BY ProducersAdd DEF OnlyAdds
  <1>2. UNCHANGED <<version, ended, evaluated>>
    BY DEF HookMoves, HookStep, CheckDebounce, CheckGrowth, CreateTask, WriteTask, Spawn,
           HookDies, session
  <1>3. CASE CheckDebounce(p) \/ CheckGrowth(p) \/ Spawn(p)
    <2>1. PICK label \in {"idle", "growth", "create"} :
            /\ hook' = [hook EXCEPT ![p] = label]
            /\ hook[p] \in {"debounce", "growth"} \/ (hook[p] = "spawn" /\ label = "idle")
            /\ UNCHANGED <<queue, lost>>
      BY <1>3 DEF CheckDebounce, CheckGrowth, Spawn, HookGoto, files
    <2>2. ASSUME NEW x \in Sessions, ended[x]
          PROVE  \/ hook'[<<x, "end">>] = hook[<<x, "end">>]
                 \/ hook[<<x, "end">>] = "spawn" /\ hook'[<<x, "end">>] = "idle"
      <3>1. CASE p = <<x, "end">>
        <4>1. hook[p] = "spawn"
          BY <2>1, <2>2, <3>1 DEF Concluded
        <4>. QED BY <1>0, <2>1, <3>1, <4>1 DEF TypeOK
      <3>2. CASE p # <<x, "end">>
        BY <1>0, <2>1, <3>2 DEF TypeOK
      <3>. QED BY <3>1, <3>2
    <2>. QED BY <1>1, <1>2, <2>1, <2>2, QuietStep DEF WillEvaluate, Excused
  <1>4. ASSUME NEW S, Spoiled(S), NEW label \in {"write", "spawn", "idle"},
               hook' = [hook EXCEPT ![p] = label],
               \A x \in Sessions, n \in Names :
                  WillEvaluate(x, n) /\ x \notin S => queue'[n].there /\ queue'[n].session = x,
               p[2] = "end" /\ label # "write" =>
                  (hook[p] = "spawn" /\ label = "idle") \/ p[1] \in S
        PROVE  Concluded'
    <2>1. \A s \in lost \cup S : s \in Sessions => Excused(s)
      BY <1>4, SpoiledExcused
    <2>2. \A x \in Sessions, n \in Names : WillEvaluate(x, n) =>
             Excused(x) \/ (queue'[n].there /\ queue'[n].session = x)
      BY <1>4, <2>1
    <2>3. ASSUME NEW x \in Sessions, ended'[x]
          PROVE  \/ hook'[<<x, "end">>] \in {"create", "write"}
                 \/ hook'[<<x, "end">>] \in {"spawn", "idle"} /\ Excused(x)
                 \/ /\ ended[x] /\ version'[x] = version[x]
                    /\ \/ hook'[<<x, "end">>] = hook[<<x, "end">>]
                       \/ hook[<<x, "end">>] = "spawn" /\ hook'[<<x, "end">>] = "idle"
      <3>1. CASE p = <<x, "end">>
        <4>1. hook'[p] = label /\ p[1] = x /\ p[2] = "end"
          BY <1>0, <1>4, <3>1 DEF TypeOK
        <4>. QED BY <1>2, <1>4, <2>1, <2>3, <3>1, <4>1
      <3>2. CASE p # <<x, "end">>
        BY <1>0, <1>2, <1>4, <2>3, <3>2 DEF TypeOK
      <3>. QED BY <3>1, <3>2
    <2>. QED BY <1>1, <1>2, <2>1, <2>2, <2>3, QuietStep
  <1>5. CASE CreateTask(p)
    <2>. DEFINE name == <<now, ShortId[p[1]]>>
                t == [NoTask EXCEPT !.there = TRUE, !.mtime = now]
                S == {queue[name].session} \ {NoSession}
    <2>1. /\ queue' = [queue EXCEPT ![name] = t]
          /\ hook' = [hook EXCEPT ![p] = "write"] /\ Spoiled(S)
      BY <1>5 DEF CreateTask, HookGoto
    <2>. HIDE DEF t, name
    <2>2. ASSUME NEW x \in Sessions, NEW n \in Names, WillEvaluate(x, n), x \notin S
          PROVE  queue'[n].there /\ queue'[n].session = x
      <3>1. n # name
        BY <2>2, QueueAssumption DEF WillEvaluate, QueueAssumption
      <3>. QED BY <2>1, <2>2, <3>1 DEF WillEvaluate, TypeOK
    <2>. HIDE DEF S
    <2>. QED BY <1>4, <2>1, <2>2
  <1>6. CASE WriteTask(p)
    <2>. DEFINE name == naming[p]
                t == [NoTask EXCEPT !.there = TRUE, !.mtime = now, !.session = p[1],
                                    !.forced = p[2] # "stop"]
                S == {p[1], queue[name].session} \ {NoSession}
    <2>1. /\ UNCHANGED queue \/ queue' = [queue EXCEPT ![name] = t]
          /\ hook' = [hook EXCEPT ![p] = "spawn"] /\ Spoiled(S)
      BY <1>6 DEF WriteTask, HookGoto
    <2>3. p[1] \in S
      BY <1>0, QueueAssumption DEF QueueAssumption
    <2>. HIDE DEF t, name
    <2>2. ASSUME NEW x \in Sessions, NEW n \in Names, WillEvaluate(x, n), x \notin S
          PROVE  queue'[n].there /\ queue'[n].session = x
      <3>1. n # name
        BY <2>2, QueueAssumption DEF WillEvaluate, QueueAssumption
      <3>. QED BY <2>1, <2>2, <3>1 DEF WillEvaluate, TypeOK
    <2>. HIDE DEF S
    <2>. QED BY <1>4, <2>1, <2>2, <2>3
  <1>7. CASE HookDies(p)
    <2>. DEFINE S == IF p[2] = "end" /\ hook[p] # "spawn" THEN {p[1]} ELSE {}
    <2>1. UNCHANGED queue /\ hook' = [hook EXCEPT ![p] = "idle"] /\ Spoiled(S)
      BY <1>7 DEF HookDies, HookGoto, files
    <2>2. p[2] = "end" => hook[p] = "spawn" \/ p[1] \in S
      OBVIOUS
    <2>. HIDE DEF S
    <2>. QED BY <1>4, <2>1, <2>2 DEF WillEvaluate
  <1>. QED BY <1>3, <1>5, <1>6, <1>7 DEF HookMoves, HookStep

\* The steps of the workers.
LEMMA WorkersConclude ==
  ASSUME Inductive, Concluded, NEW w \in Workers, WorkerMoves(w)
  PROVE  Concluded'
  <1>. USE DEF Inductive
  <1>0. \A x \in Sessions : <<x, "end">> \in Producers
    BY DEF Producers
  <1>1. UNCHANGED <<version, ended, hook>>
    BY DEF WorkerMoves, WorkerStep, Wake, ArchiveFails, WorkerDies, Lock, List, EndPass, Begin,
           Evaluate, Touch, Move, Prune, session, hooks
  <1>2. ASSUME UNCHANGED <<queue, evaluated, lost>>,
               \A v \in Workers : worker'[v] \in {"run", "touch", "move"} =>
                   worker'[v] = worker[v] /\ at'[v] = at[v] /\ reading'[v] = reading[v]
        PROVE  Concluded'
    BY <1>1, <1>2, QuietStep DEF WillEvaluate, Excused
  <1>3. CASE WorkerExits(w) /\ UNCHANGED <<queue, evaluated, lost>>
    BY <1>2, <1>3 DEF WorkerExits, WorkerGoto, TypeOK
  <1>4. CASE Wake(w) \/ List(w) \/ EndPass(w)
    <2>1. /\ UNCHANGED <<queue, at, reading, evaluated, lost>>
          /\ worker'[w] \in {"lock", "next", "prune", "list"}
          /\ \A v \in Workers : v # w => worker'[v] = worker[v]
      BY <1>4 DEF Wake, List, EndPass, WorkerGoto, files, TypeOK
    <2>. QED BY <1>2, <2>1
  <1>5. CASE Lock(w)
    <2>1. CASE holder = NoWorker
      <3>1. /\ UNCHANGED <<queue, at, reading, evaluated, lost>>
            /\ worker'[w] = "list"
            /\ \A v \in Workers : v # w => worker'[v] = worker[v]
        BY <1>5, <2>1 DEF Lock, WorkerGoto, files, TypeOK
      <3>. QED BY <1>2, <3>1
    <2>2. CASE holder # NoWorker
      BY <1>3, <1>5, <2>2 DEF Lock, files
    <2>. QED BY <2>1, <2>2
  <1>6. CASE ArchiveFails(w) \/ Prune(w) \/ WorkerDies(w)
    BY <1>3, <1>6 DEF ArchiveFails, Prune, WorkerDies, files
  <1>7. ASSUME \A s \in Sessions, n \in Names : s \notin lost' /\ WillEvaluate(s, n) =>
                   WillEvaluate(s, n)' \/ evaluated'[s] = version[s],
               \A s \in Sessions : evaluated[s] = version[s] => evaluated'[s] = version[s],
               lost \subseteq lost' \/ \A s \in lost : s \in Sessions => Excused(s)
        PROVE  Concluded'
    <2>1. ASSUME NEW s \in Sessions, Excused(s) PROVE s \in lost' \/ Heard(s)'
      BY <2>1 DEF Excused, Waiting, Heard, WillEvaluate, Taken, Queued
    <2>2. ASSUME NEW s \in Sessions, Heard(s) PROVE s \in lost' \/ Heard(s)'
      BY <1>1, <1>7, <2>2 DEF Heard
    <2>. QED BY <1>1, <1>7, <2>1, <2>2 DEF Concluded
  <1>8. CASE Begin(w)
    <2>1. PICK n \in todo[w] :
            /\ worker[w] = "next" /\ queue[n].there
            /\ at' = [at EXCEPT ![w] = n]
            /\ IF queue[n].session = NoSession
               THEN WorkerGoto(w, "touch") /\ UNCHANGED reading
               ELSE /\ WorkerGoto(w, "run")
                    /\ reading' = [reading EXCEPT ![w] =
                         [session |-> queue[n].session, version |-> version[queue[n].session]]]
            /\ UNCHANGED <<queue, evaluated, lost>>
      BY <1>8 DEF Begin, files
    <2>2. /\ n \in Names /\ at'[w] = n
          /\ queue[n].session # NoSession =>
                /\ worker'[w] = "run"
                /\ reading'[w].session = queue[n].session
                /\ reading'[w].version = version[queue[n].session]
      BY <2>1 DEF TypeOK, WorkerGoto
    <2>3. \A v \in Workers : v # w => /\ worker'[v] = worker[v] /\ at'[v] = at[v]
                                       /\ reading'[v] = reading[v]
      BY OthersLists
    <2>4. ASSUME NEW x \in Sessions, NEW m \in Names, WillEvaluate(x, m) PROVE WillEvaluate(x, m)'
      <3>1. ASSUME NEW v \in Workers, worker'[v] \in {"run", "touch", "move"}, at'[v] = m
            PROVE  worker'[v] = "run" /\ reading'[v].session = x /\ reading'[v].version = version[x]
        <4>1. CASE v = w
          <5>1. m = n /\ queue[n].session = x /\ x # NoSession
            BY <2>2, <2>4, <3>1, <4>1, QueueAssumption DEF WillEvaluate, QueueAssumption
          <5>. QED BY <2>2, <4>1, <5>1
        <4>2. CASE v # w
          BY <2>3, <2>4, <3>1, <4>2 DEF WillEvaluate, Taken
        <4>. QED BY <4>1, <4>2
      <3>. QED BY <1>1, <2>1, <2>4, <3>1 DEF WillEvaluate, Taken
    <2>. QED BY <1>7, <2>1, <2>4
  <1>9. CASE Evaluate(w)
    <2>. DEFINE x == reading[w].session
                n == at[w]
    <2>1. worker[w] = "run" /\ x \in Sessions /\ n \in Names /\ queue[n].there /\ Taken(w, n)
      BY <1>9 DEF Evaluate, ReadsAhead, ListedStays, Queued, Taken
    <2>2. /\ worker' = [worker EXCEPT ![w] = "touch"]
          /\ reading' = [reading EXCEPT ![w] = Nothing]
          /\ UNCHANGED at
          /\ \/ /\ evaluated' = [evaluated EXCEPT ![x] = reading[w].version]
                /\ queue' = [queue EXCEPT ![n].runs = @ + 1]
                /\ UNCHANGED lost
             \/ UNCHANGED <<evaluated, queue>> /\ Spoiled({x})
      BY <1>9 DEF Evaluate, WorkerGoto
    <2>. HIDE DEF x, n
    <2>3. /\ \A m \in Names : queue'[m].there = queue[m].there /\ queue'[m].session = queue[m].session
          /\ worker'[w] = "touch"
          /\ \A v \in Workers : v # w => worker'[v] = worker[v] /\ reading'[v] = reading[v]
          /\ \A y \in Sessions : y # x => evaluated'[y] = evaluated[y]
          /\ \A y \in Sessions : y = x => evaluated'[y] \in {evaluated[y], reading[w].version}
      BY <2>1, <2>2 DEF TypeOK, Tasks
    <2>4. \A s \in lost : s \in Sessions => Excused(s)
      <3>1. CASE UNCHANGED lost
        BY <3>1 DEF Excused
      <3>2. CASE Spoiled({x})
        BY <3>2, SpoiledExcused
      <3>. QED BY <2>2, <3>1, <3>2
    <2>5. ASSUME NEW y \in Sessions, NEW m \in Names, WillEvaluate(y, m), m # n
          PROVE  WillEvaluate(y, m)'
      <3>1. ASSUME NEW v \in Workers, worker'[v] \in {"run", "touch", "move"}, at'[v] = m
            PROVE  worker'[v] = "run" /\ reading'[v].session = y
                   /\ reading'[v].version = version[y]
        <4>1. v # w
          BY <2>2, <2>5, <3>1 DEF n
        <4>. QED BY <2>2, <2>3, <2>5, <3>1, <4>1 DEF WillEvaluate, Taken
      <3>. QED BY <1>1, <2>2, <2>3, <2>5, <3>1 DEF WillEvaluate, Taken
    <2>6. ASSUME NEW y \in Sessions, WillEvaluate(y, n)
          PROVE  evaluated'[y] = version[y] \/ Excused(y)
      <3>1. y = x /\ reading[w].version = version[y]
        BY <2>1, <2>6 DEF WillEvaluate, x
      <3>2. CASE evaluated' = [evaluated EXCEPT ![x] = reading[w].version]
        BY <2>1, <3>1, <3>2 DEF TypeOK
      <3>3. CASE Spoiled({x})
        BY <3>1, <3>3, SpoiledExcused
      <3>. QED BY <2>2, <3>2, <3>3
    <2>7. \A y \in Sessions : evaluated[y] = version[y] => evaluated'[y] = version[y]
      <3>1. /\ evaluated[x] <= reading[w].version /\ reading[w].version <= version[x]
            /\ version[x] \in Nat /\ reading[w].version \in Nat
        BY <2>1, QueueAssumption DEF ReadsAhead, x, TypeOK, Versions, QueueAssumption
      <3>. QED BY <2>3, <3>1
    <2>9. ASSUME NEW s \in Sessions, Excused(s) PROVE s \in lost' \/ Heard(s)'
      BY <2>9 DEF Excused, Waiting, Heard, WillEvaluate, Taken, Queued
    <2>10. ASSUME NEW s \in Sessions, Heard(s) PROVE s \in lost' \/ Heard(s)'
      BY <1>1, <2>5, <2>6, <2>7, <2>9, <2>10 DEF Heard
    <2>. QED BY <1>1, <2>4, <2>9, <2>10 DEF Concluded
  <1>10. CASE Touch(w)
    <2>1. at[w] \in Names /\ worker[w] = "touch"
      BY <1>10 DEF Touch, ListedStays, Queued
    <2>2. /\ UNCHANGED <<at, reading, evaluated, lost>>
          /\ queue' = [queue EXCEPT ![at[w]].mtime = now]
          /\ worker' = [worker EXCEPT ![w] = "move"]
      BY <1>10 DEF Touch, WorkerGoto
    <2>3. /\ \A m \in Names : queue'[m].there = queue[m].there /\ queue'[m].session = queue[m].session
          /\ worker'[w] = "move"
          /\ \A v \in Workers : v # w => worker'[v] = worker[v]
      BY <2>1, <2>2 DEF TypeOK, Tasks
    <2>6. ASSUME NEW y \in Sessions, NEW m \in Names, WillEvaluate(y, m) PROVE WillEvaluate(y, m)'
      <3>1. m # at[w]
        BY <2>1, <2>6 DEF WillEvaluate, Taken
      <3>2. ASSUME NEW v \in Workers, worker'[v] \in {"run", "touch", "move"}, at'[v] = m
            PROVE  worker'[v] = "run" /\ reading'[v].session = y /\ reading'[v].version = version[y]
        <4>1. v # w
          BY <2>2, <3>1, <3>2
        <4>. QED BY <2>2, <2>3, <2>6, <3>2, <4>1 DEF WillEvaluate, Taken
      <3>. QED BY <1>1, <2>2, <2>3, <2>6, <3>2 DEF WillEvaluate, Taken
    <2>. QED BY <1>7, <2>2, <2>6
  <1>11. CASE Move(w)
    <2>1. at[w] \in Names /\ worker[w] = "move"
      BY <1>11 DEF Move, ListedStays, Queued
    <2>2. /\ UNCHANGED <<reading, evaluated, lost>>
          /\ queue' = [queue EXCEPT ![at[w]] = NoTask]
          /\ at' = [at EXCEPT ![w] = NoName]
          /\ worker' = [worker EXCEPT ![w] = "next"]
      BY <1>11 DEF Move, WorkerGoto
    <2>3. /\ \A m \in Names : m # at[w] => queue'[m] = queue[m]
          /\ worker'[w] = "next"
          /\ \A v \in Workers : v # w => worker'[v] = worker[v] /\ at'[v] = at[v]
      BY <2>1, <2>2 DEF TypeOK
    <2>7. ASSUME NEW y \in Sessions, NEW m \in Names, WillEvaluate(y, m) PROVE WillEvaluate(y, m)'
      <3>1. m # at[w]
        BY <2>1, <2>7 DEF WillEvaluate, Taken
      <3>2. ASSUME NEW v \in Workers, worker'[v] \in {"run", "touch", "move"}, at'[v] = m
            PROVE  worker'[v] = "run" /\ reading'[v].session = y /\ reading'[v].version = version[y]
        <4>1. v # w
          BY <2>3, <3>2
        <4>. QED BY <2>2, <2>3, <2>7, <3>2, <4>1 DEF WillEvaluate, Taken
      <3>. QED BY <1>1, <2>2, <2>3, <2>7, <3>1, <3>2 DEF WillEvaluate, Taken
    <2>. QED BY <1>7, <2>2, <2>7
  <1>. QED
    BY <1>4, <1>5, <1>6, <1>8, <1>9, <1>10, <1>11 DEF WorkerMoves, WorkerStep

\* Once the SessionEnd hook has returned, the final state of the session was
\* evaluated or a task in the queue will evaluate it, unless its request was lost:
\* for every number of sessions and workers, names that are shared or not, and
\* whatever dies, fails or is read half-written.
THEOREM FinalStateEvaluatedAlways == Spec => []FinalStateEvaluated
  <1>1. Init => Concluded
    BY DEF Init, Concluded
  <1>2. Inductive /\ Concluded /\ [Next]_vars => Concluded'
    <2>. SUFFICES ASSUME Inductive, Concluded, [Next]_vars PROVE Concluded'
      OBVIOUS
    <2>1. CASE Tick \/ UNCHANGED vars
      <3>1. UNCHANGED <<queue, worker, at, reading, hook, lost, version, evaluated, ended>>
        BY <2>1 DEF Tick, vars, session, files, hooks, workers
      <3>. QED BY <3>1, QuietStep DEF WillEvaluate, Excused
    <2>2. ASSUME NEW s \in Sessions, SessionStep(s) PROVE Concluded'
      BY <2>2, SessionsConclude
    <2>3. ASSUME NEW p \in Producers, HookMoves(p) PROVE Concluded'
      BY <2>3, ProducersConclude
    <2>4. ASSUME NEW w \in Workers, WorkerMoves(w) PROVE Concluded'
      BY <2>4, WorkersConclude
    <2>. QED BY <2>1, <2>2, <2>3, <2>4 DEF Next, WorkerMoves, HookMoves
  <1>3. Concluded => FinalStateEvaluated
    BY DEF Concluded, FinalStateEvaluated, Heard, WillEvaluate, Queued
  <1>. QED BY <1>1, <1>2, <1>3, InductiveAlways, PTL DEF Spec

-----------------------------------------------------------------------------
(* One evaluation of a task. *)

\* A file in the queue was evaluated no more often than workers failed, but for the
\* one that a worker is archiving.
BeingArchived ==
    \A n \in Names :
        \/ queue[n].runs <= failures
        \/ /\ queue[n].runs <= failures + 1
           /\ \E w \in Workers : at[w] = n /\ worker[w] \in {"touch", "move"}

\* The producers start every file they open from zero.
LEMMA ProducersStartAfresh ==
  ASSUME Inductive, BeingArchived, OnlyAdds,
         \A n \in Names : queue'[n] = queue[n] \/ queue'[n].runs = 0
  PROVE  BeingArchived'
  <1>1. failures \in Nat /\ UNCHANGED <<at, failures>>
    BY QueueAssumption DEF Inductive, TypeOK, QueueAssumption, OnlyAdds
  <1>2. \A w \in Workers : worker[w] \in {"touch", "move"} => worker'[w] = worker[w]
    BY DEF OnlyAdds
  <1>. QED BY <1>1, <1>2 DEF BeingArchived

\* Which files a producer leaves as they are, or starts from zero.
LEMMA ProducersZero ==
  ASSUME Inductive, NEW p \in Producers, HookMoves(p)
  PROVE  \A n \in Names : queue'[n] = queue[n] \/ queue'[n].runs = 0
  <1>. DEFINE t == [NoTask EXCEPT !.there = TRUE, !.mtime = now]
              u == [NoTask EXCEPT !.there = TRUE, !.mtime = now, !.session = p[1],
                                  !.forced = p[2] # "stop"]
  <1>1. t.runs = 0 /\ u.runs = 0
    BY DEF NoTask
  <1>2. \E n : \/ queue' = [queue EXCEPT ![n] = t]
              \/ queue' = [queue EXCEPT ![n] = u]
              \/ UNCHANGED queue
    BY DEF HookMoves, HookStep, CheckDebounce, CheckGrowth, CreateTask, WriteTask, Spawn, HookDies,
           files
  <1>. HIDE DEF t, u
  <1>. QED BY <1>1, <1>2 DEF Inductive, TypeOK

\* A worker evaluates a file and archives it before it lists again; if it fails
\* to, that is a failure more.
LEMMA WorkersEvaluateOnce ==
  ASSUME Inductive, BeingArchived, NEW w \in Workers, WorkerMoves(w)
  PROVE  BeingArchived'
  <1>. USE DEF Inductive
  <1>0. failures \in Nat /\ \A n \in Names : queue[n].runs \in Nat
    BY QueueAssumption DEF TypeOK, QueueAssumption, Tasks
  <1>1. CASE ArchiveFails(w) \/ WorkerDies(w)
    <2>1. failures' = failures + 1 /\ UNCHANGED queue
      BY <1>1 DEF ArchiveFails, WorkerDies, files
    <2>2. \A n \in Names : queue[n].runs <= failures + 1
      BY <1>0 DEF BeingArchived
    <2>. QED BY <2>1, <2>2 DEF BeingArchived
  <1>2. CASE worker[w] \notin {"run", "touch", "move"} /\ ~ArchiveFails(w) /\ ~WorkerDies(w)
    <2>1. UNCHANGED <<queue, failures>>
      BY <1>2 DEF WorkerMoves, WorkerStep, Wake, Lock, List, EndPass, Begin, Evaluate, Touch, Move,
                  Prune, files
    <2>2. ASSUME NEW v \in Workers, worker[v] \in {"touch", "move"}
          PROVE  worker'[v] = worker[v] /\ at'[v] = at[v]
      BY <1>2, <2>2, OthersLists
    <2>. QED BY <2>1, <2>2 DEF BeingArchived
  <1>3. ASSUME worker[w] \in {"run", "touch", "move"}
        PROVE  /\ at[w] \in Names
               /\ \A v \in Workers : worker[v] \in {"run", "touch", "move"} => v = w
    BY <1>3 DEF Locked, Draining, ListedStays, Queued
  <1>4. CASE Evaluate(w)
    <2>. DEFINE c == queue[at[w]].runs + 1
    <2>1. /\ worker[w] = "run" /\ worker'[w] = "touch" /\ UNCHANGED <<at, failures>>
          /\ at[w] \in Names
      BY <1>3, <1>4 DEF Evaluate, WorkerGoto, TypeOK
    <2>2. \A n \in Names : queue[n].runs <= failures
      BY <1>3, <2>1 DEF BeingArchived
    <2>3. c <= failures + 1
      BY <1>0, <2>1, <2>2
    <2>4. UNCHANGED queue \/ queue' = [queue EXCEPT ![at[w]].runs = c]
      BY <1>4 DEF Evaluate
    <2>. HIDE DEF c
    <2>5. \A n \in Names : n # at[w] => queue'[n] = queue[n]
      BY <2>4 DEF TypeOK
    <2>6. queue'[at[w]].runs \in {queue[at[w]].runs, c}
      BY <2>1, <2>4 DEF TypeOK, Tasks
    <2>. QED BY <1>0, <2>1, <2>2, <2>3, <2>5, <2>6 DEF BeingArchived
  <1>5. CASE Touch(w)
    <2>1. /\ worker[w] = "touch" /\ worker'[w] = "move" /\ UNCHANGED <<at, failures>>
          /\ at[w] \in Names
      BY <1>3, <1>5 DEF Touch, WorkerGoto, TypeOK
    <2>2. \A n \in Names : queue'[n].runs = queue[n].runs
      BY <1>5, <2>1 DEF Touch, TypeOK, Tasks
    <2>3. \A v \in Workers : v # w => worker'[v] = worker[v]
      BY OthersLists
    <2>. QED BY <2>1, <2>2, <2>3 DEF BeingArchived
  <1>6. CASE Move(w)
    <2>1. worker[w] = "move" /\ at[w] \in Names /\ UNCHANGED failures
      BY <1>3, <1>6 DEF Move
    <2>2. /\ queue'[at[w]].runs = 0
          /\ \A n \in Names : n # at[w] => queue'[n] = queue[n]
      BY <1>6, <2>1 DEF Move, TypeOK, NoTask
    <2>3. \A n \in Names : n # at[w] => queue[n].runs <= failures
      BY <1>3, <2>1 DEF BeingArchived
    <2>. QED BY <1>0, <2>1, <2>2, <2>3 DEF BeingArchived
  <1>. QED
    BY <1>1, <1>2, <1>4, <1>5, <1>6
       DEF WorkerMoves, WorkerStep, Wake, Lock, List, EndPass, Begin, Prune

\* A task is evaluated once, and again only for a worker that died or failed to
\* archive, whoever else drains or queues meanwhile, and with every other fault.
THEOREM EvaluatedOnceAlways == Spec => []EvaluatedOnce
  <1>1. Init => BeingArchived
    BY DEF Init, BeingArchived, NoTask
  <1>2. Inductive /\ BeingArchived /\ [Next]_vars => BeingArchived'
    <2>. SUFFICES ASSUME Inductive, BeingArchived, [Next]_vars PROVE BeingArchived'
      OBVIOUS
    <2>1. CASE Tick \/ UNCHANGED vars
      BY <2>1 DEF Tick, vars, files, workers, BeingArchived
    <2>2. ASSUME NEW s \in Sessions, SessionStep(s) PROVE BeingArchived'
      BY <2>2, SessionsAdd, ProducersStartAfresh
    <2>3. ASSUME NEW p \in Producers, HookMoves(p) PROVE BeingArchived'
      BY <2>3, ProducersAdd, ProducersZero, ProducersStartAfresh
    <2>4. ASSUME NEW w \in Workers, WorkerMoves(w) PROVE BeingArchived'
      BY <2>4, WorkersEvaluateOnce
    <2>. QED BY <2>1, <2>2, <2>3, <2>4 DEF Next, WorkerMoves, HookMoves
  <1>3. Inductive /\ BeingArchived => EvaluatedOnce
    <2>. SUFFICES ASSUME Inductive, BeingArchived, NEW n \in Queued PROVE queue[n].runs <= 1 + failures
      BY DEF EvaluatedOnce
    <2>1. n \in Names /\ queue[n].runs \in Nat /\ failures \in Nat
      BY QueueAssumption DEF Queued, Inductive, TypeOK, Tasks, QueueAssumption
    <2>. QED BY <2>1 DEF BeingArchived
  <1>. QED BY <1>1, <1>2, <1>3, InductiveAlways, PTL DEF Spec

-----------------------------------------------------------------------------
(* The tasks of a session's Stop hooks. *)

\* A file is stamped no earlier than its name says, never in the future, and
\* named by the short id of its session.
Dated ==
    \A n \in Queued :
        /\ n[1] <= queue[n].mtime /\ queue[n].mtime <= now
        /\ queue[n].session \in Sessions => n[2] = ShortId[queue[n].session]

\* The file a hook is writing has the name the hook gave it.
NamedNow ==
    \A p \in Producers :
        hook[p] = "write" => naming[p][1] <= now /\ naming[p][2] = ShortId[p[1]]

\* The second of the task that a Stop hook has opened or would open now.
Second(p) == IF hook[p] = "write" THEN naming[p][1] ELSE now

\* A Stop hook that passed the gate finds the tasks of earlier ones in the queue a
\* window back, however long it takes to open and write its own.
PassedDebounce ==
    \A p \in Producers :
        hook[p] \in {"growth", "create", "write"} /\ p[2] = "stop" =>
            \A n \in Queued :
                /\ queue[n].session = p[1] /\ ~queue[n].forced
                /\ hook[p] = "write" => n # naming[p]
                => n[1] + Debounce <= Second(p)

Spaced == Dated /\ NamedNow /\ PassedDebounce /\ StopTasksSpaced

\* A step that writes no task file and opens no gate keeps the spacing.
LEMMA QuietSpaced ==
  ASSUME Inductive, Spaced, Inductive',
         now' = now \/ now' = now + 1,
         \A n \in Names :
            queue'[n].there =>
                /\ queue[n].there
                /\ queue'[n].session = queue[n].session /\ queue'[n].forced = queue[n].forced
                /\ queue'[n].mtime \in {queue[n].mtime, now},
         \A p \in Producers :
            hook'[p] \in {"growth", "create", "write"} =>
                /\ hook[p] \in {"growth", "create", "write"}
                    \/ (\A n \in Queued' : queue[n].session = p[1] => n[1] + Debounce <= now)
                    \/ p[2] # "stop"
                /\ hook'[p] = "write" <=> hook[p] = "write",
         \A p \in Producers : hook'[p] = "write" => naming'[p] = naming[p]
  PROVE  Spaced'
  <1>. USE DEF Inductive
  <1>1. now \in Nat /\ Debounce \in Nat /\ now' \in Nat /\ now <= now'
    BY QueueAssumption DEF QueueAssumption, TypeOK, Times
  <1>2. \A n \in Names : n[1] \in Nat /\ queue[n].mtime \in Nat
    BY QueueAssumption DEF QueueAssumption, TypeOK, Names, Times, Tasks
  <1>3. \A n \in Names : n \in Queued' => n \in Queued
    BY DEF Queued
  <1>4. Queued' \subseteq Names
    BY DEF Queued
  <1>5. Dated'
    <2>. SUFFICES ASSUME NEW n \in Queued'
                  PROVE  /\ n[1] <= queue'[n].mtime /\ queue'[n].mtime <= now'
                         /\ queue'[n].session \in Sessions => n[2] = ShortId[queue'[n].session]
      BY DEF Dated
    <2>1. n \in Names /\ n \in Queued /\ queue'[n].there
      BY <1>3, <1>4 DEF Queued
    <2>2. /\ n[1] <= queue[n].mtime /\ queue[n].mtime <= now
          /\ queue[n].session \in Sessions => n[2] = ShortId[queue[n].session]
      BY <2>1 DEF Spaced, Dated
    <2>. QED BY <1>1, <1>2, <2>1, <2>2
  <1>6. NamedNow'
    <2>. SUFFICES ASSUME NEW p \in Producers, hook'[p] = "write"
                  PROVE  naming'[p][1] <= now' /\ naming'[p][2] = ShortId[p[1]]
      BY DEF NamedNow
    <2>1. hook[p] = "write" /\ naming'[p] = naming[p] /\ naming[p] \in Names
      BY DEF Named
    <2>2. naming[p][1] <= now /\ naming[p][2] = ShortId[p[1]]
      BY <2>1 DEF Spaced, NamedNow
    <2>. QED BY <1>1, <1>2, <2>1, <2>2
  <1>7. PassedDebounce'
    <2>. SUFFICES ASSUME NEW p \in Producers,
                         hook'[p] \in {"growth", "create", "write"}, p[2] = "stop",
                         NEW n \in Queued', queue'[n].session = p[1], ~queue'[n].forced,
                         hook'[p] = "write" => n # naming'[p]
                  PROVE  n[1] + Debounce <= Second(p)'
      BY DEF PassedDebounce
    <2>1. n \in Names /\ n \in Queued /\ queue[n].session = p[1] /\ ~queue[n].forced
      BY <1>3, <1>4 DEF Queued
    <2>2. CASE hook[p] \in {"growth", "create", "write"}
      <3>1. hook[p] = "write" => n # naming[p]
        BY <2>2
      <3>2. n[1] + Debounce <= Second(p)
        BY <2>1, <2>2, <3>1 DEF Spaced, PassedDebounce
      <3>3. CASE hook[p] = "write"
        BY <3>2, <3>3 DEF Second
      <3>4. CASE hook[p] # "write"
        BY <1>1, <1>2, <2>1, <3>2, <3>4 DEF Second
      <3>. QED BY <3>3, <3>4
    <2>3. CASE hook[p] \notin {"growth", "create", "write"}
      BY <1>1, <1>2, <2>1, <2>3 DEF Second
    <2>. QED BY <2>2, <2>3
  <1>8. StopTasksSpaced'
    <2>. SUFFICES ASSUME NEW n \in Queued', NEW m \in Queued', n # m, n[1] <= m[1],
                         queue'[n].session = queue'[m].session, queue'[n].session \in Sessions,
                         ~queue'[n].forced, ~queue'[m].forced
                  PROVE  n[1] + Debounce <= m[1]
      BY DEF StopTasksSpaced
    <2>1. n \in Names /\ m \in Names /\ n \in Queued /\ m \in Queued /\ queue'[n].there /\ queue'[m].there
      BY <1>3, <1>4 DEF Queued
    <2>. QED BY <2>1 DEF Spaced, StopTasksSpaced
  <1>. QED BY <1>5, <1>6, <1>7, <1>8 DEF Spaced

\* The steps of a session.
LEMMA SessionsSpaced ==
  ASSUME Inductive, Inductive', Spaced, NEW s \in Sessions, SessionStep(s)
  PROVE  Spaced'
  <1>. USE DEF Inductive
  <1>0. UNCHANGED <<now, queue, naming>>
    BY SessionsAdd
  <1>1. CASE Grow(s)
    <2>1. UNCHANGED hook
      BY <1>1 DEF Grow, hooks
    <2>. QED BY <1>0, <2>1, QuietSpaced
  <1>2. CASE Stop(s) \/ SessionEnd(s) \/ HandoffNow(s)
    <2>1. PICK kind \in {"stop", "end", "handoff"}, label \in {"debounce", "create"} :
            /\ kind = "stop" => label = "debounce"
            /\ hook' = [hook EXCEPT ![<<s, kind>>] = label]
            /\ hook[<<s, kind>>] = "idle"
      BY <1>2 DEF Stop, SessionEnd, HandoffNow, StartHook, HookGoto
    <2>. DEFINE q == <<s, kind>>
    <2>2. /\ q \in Producers /\ hook'[q] = label /\ q[2] = kind
          /\ \A p \in Producers : p # q => hook'[p] = hook[p]
      BY <2>1 DEF TypeOK, Producers
    <2>. HIDE DEF q
    <2>. QED BY <1>0, <2>1, <2>2, QuietSpaced
  <1>. QED BY <1>1, <1>2 DEF SessionStep

\* The steps of a producer.
LEMMA ProducersSpaced ==
  ASSUME Inductive, Inductive', Spaced, NEW p \in Producers, HookMoves(p)
  PROVE  Spaced'
  <1>. USE DEF Inductive
  <1>0. /\ now \in Nat /\ Debounce \in Nat
        /\ \A n \in Names : n[1] \in Nat /\ queue[n].mtime \in Nat
        /\ p[1] \in Sessions
    BY QueueAssumption DEF QueueAssumption, TypeOK, Names, Times, Tasks, Producers
  <1>3. CASE CheckDebounce(p)
    <2>1. /\ UNCHANGED <<now, queue, naming>> /\ hook[p] = "debounce"
          /\ hook'[p] = IF Debounced(p[1]) THEN "idle" ELSE "growth"
          /\ \A x \in Producers : x # p => hook'[x] = hook[x]
      BY <1>3 DEF CheckDebounce, HookGoto, files, TypeOK
    <2>2. ASSUME ~Debounced(p[1]), NEW n \in Queued, queue[n].session = p[1]
          PROVE  n[1] + Debounce <= now
      <3>1. n \in Names /\ n[1] <= queue[n].mtime /\ queue[n].mtime <= now /\ n[2] = ShortId[p[1]]
        BY <1>0, <2>2 DEF Spaced, Dated, Queued
      <3>2. ~(now - queue[n].mtime < Debounce)
        BY <2>2, <3>1 DEF Debounced, OfId
      <3>. QED BY <1>0, <3>1, <3>2
    <2>3. Queued' = Queued
      BY <2>1 DEF Queued
    <2>. QED BY <2>1, <2>2, <2>3, QuietSpaced
  <1>4. CASE CheckGrowth(p) \/ Spawn(p) \/ HookDies(p)
    <2>1. PICK label \in {"idle", "create"} :
            /\ hook' = [hook EXCEPT ![p] = label]
            /\ label = "create" => hook[p] = "growth"
      BY <1>4 DEF CheckGrowth, Spawn, HookDies, HookGoto
    <2>2. /\ UNCHANGED <<now, queue>>
          /\ \A x \in Producers : x # p => naming'[x] = naming[x]
      BY <1>4 DEF CheckGrowth, Spawn, HookDies, files, TypeOK
    <2>3. hook'[p] = label /\ \A x \in Producers : x # p => hook'[x] = hook[x]
      BY <2>1 DEF TypeOK
    <2>. QED BY <2>1, <2>2, <2>3, QuietSpaced
  <1>5. CASE CreateTask(p)
    <2>. DEFINE name == <<now, ShortId[p[1]]>>
                t == [NoTask EXCEPT !.there = TRUE, !.mtime = now]
    <2>1. name \in Names /\ name[1] = now /\ name[2] = ShortId[p[1]]
      BY <1>0, QueueAssumption DEF Names, TypeOK, QueueAssumption
    <2>2. t.there /\ t.mtime = now /\ t.session = NoSession
      BY DEF NoTask
    <2>3. /\ queue' = [queue EXCEPT ![name] = t]
          /\ naming' = [naming EXCEPT ![p] = name]
          /\ hook' = [hook EXCEPT ![p] = "write"]
          /\ UNCHANGED now /\ hook[p] = "create"
      BY <1>5 DEF CreateTask, HookGoto
    <2>. HIDE DEF name, t
    <2>4. /\ \A n \in Names : n # name => queue'[n] = queue[n]
          /\ queue'[name] = t /\ naming'[p] = name /\ hook'[p] = "write"
          /\ \A x \in Producers : x # p => hook'[x] = hook[x] /\ naming'[x] = naming[x]
      BY <2>1, <2>3 DEF TypeOK
    <2>5. \A n \in Queued' : n \in Names /\ (n = name \/ (n \in Queued /\ queue'[n] = queue[n]))
      BY <2>4 DEF Queued
    <2>6. \A n \in Queued' : queue'[n].session \in Sessions => n \in Queued /\ queue'[n] = queue[n]
      BY <2>2, <2>4, <2>5, QueueAssumption DEF QueueAssumption
    <2>7. Dated'
      <3>1. ASSUME NEW n \in Queued', n # name
            PROVE  /\ n[1] <= queue'[n].mtime /\ queue'[n].mtime <= now
                   /\ queue'[n].session \in Sessions => n[2] = ShortId[queue'[n].session]
        <4>1. n \in Queued /\ queue'[n] = queue[n]
          BY <2>5, <3>1
        <4>. QED BY <4>1 DEF Spaced, Dated
      <3>2. /\ name[1] <= queue'[name].mtime /\ queue'[name].mtime <= now
            /\ queue'[name].session \notin Sessions
        BY <1>0, <2>1, <2>2, <2>4, QueueAssumption DEF QueueAssumption
      <3>. QED BY <2>3, <3>1, <3>2 DEF Dated
    <2>8. NamedNow'
      BY <1>0, <2>1, <2>3, <2>4 DEF Spaced, NamedNow
    <2>9. PassedDebounce'
      <3>. SUFFICES ASSUME NEW x \in Producers,
                           hook'[x] \in {"growth", "create", "write"}, x[2] = "stop",
                           NEW n \in Queued', queue'[n].session = x[1], ~queue'[n].forced,
                           hook'[x] = "write" => n # naming'[x]
                    PROVE  n[1] + Debounce <= Second(x)'
        BY DEF PassedDebounce
      <3>1. n \in Queued /\ queue[n].session = x[1] /\ ~queue[n].forced
        <4>1. x[1] \in Sessions
          BY DEF Producers
        <4>. QED BY <2>6, <4>1
      <3>2. CASE x = p
        <4>1. n[1] + Debounce <= now
          BY <2>3, <3>1, <3>2 DEF Spaced, PassedDebounce, Second
        <4>. QED BY <2>1, <2>4, <3>2, <4>1 DEF Second
      <3>3. CASE x # p
        <4>1. n[1] + Debounce <= Second(x)
          BY <2>4, <3>1, <3>3 DEF Spaced, PassedDebounce
        <4>. QED BY <2>3, <2>4, <3>3, <4>1 DEF Second
      <3>. QED BY <3>2, <3>3
    <2>10. StopTasksSpaced'
      BY <2>6 DEF Spaced, StopTasksSpaced
    <2>. QED BY <2>7, <2>8, <2>9, <2>10 DEF Spaced
  <1>6. CASE WriteTask(p) /\ place[p] # "queue"
    <2>1. /\ UNCHANGED <<now, queue>> /\ hook'[p] = "spawn"
          /\ \A x \in Producers : x # p => hook'[x] = hook[x] /\ naming'[x] = naming[x]
      BY <1>6 DEF WriteTask, HookGoto, TypeOK
    <2>. QED BY <2>1, QuietSpaced
  <1>7. CASE WriteTask(p) /\ place[p] = "queue"
    <2>. DEFINE name == naming[p]
                t == [NoTask EXCEPT !.there = TRUE, !.mtime = now, !.session = p[1],
                                    !.forced = p[2] # "stop"]
    <2>1. /\ name \in Names /\ name[1] <= now /\ name[2] = ShortId[p[1]] /\ hook[p] = "write"
      BY <1>7 DEF WriteTask, Named, Spaced, NamedNow
    <2>2. t.there /\ t.mtime = now /\ t.session = p[1] /\ (~t.forced => p[2] = "stop")
      BY DEF NoTask
    <2>3. /\ queue' = [queue EXCEPT ![name] = t]
          /\ naming' = [naming EXCEPT ![p] = NoName]
          /\ hook' = [hook EXCEPT ![p] = "spawn"]
          /\ UNCHANGED now
      BY <1>7 DEF WriteTask, HookGoto
    <2>11. p[2] = "stop" =>
             \A n \in Queued : queue[n].session = p[1] /\ ~queue[n].forced /\ n # name
                               => n[1] + Debounce <= name[1]
      BY <2>1 DEF Spaced, PassedDebounce, Second
    <2>. HIDE DEF name, t
    <2>4. /\ \A n \in Names : n # name => queue'[n] = queue[n]
          /\ queue'[name] = t /\ hook'[p] = "spawn"
          /\ \A x \in Producers : x # p => hook'[x] = hook[x] /\ naming'[x] = naming[x]
      BY <2>1, <2>3 DEF TypeOK
    <2>5. \A n \in Queued' : n \in Names /\ (n # name => n \in Queued /\ queue'[n] = queue[n])
      BY <2>4 DEF Queued
    <2>7. Dated'
      <3>1. ASSUME NEW n \in Queued', n # name
            PROVE  /\ n[1] <= queue'[n].mtime /\ queue'[n].mtime <= now
                   /\ queue'[n].session \in Sessions => n[2] = ShortId[queue'[n].session]
        <4>1. n \in Queued /\ queue'[n] = queue[n]
          BY <2>5, <3>1
        <4>. QED BY <4>1 DEF Spaced, Dated
      <3>2. /\ name[1] <= queue'[name].mtime /\ queue'[name].mtime <= now
            /\ name[2] = ShortId[queue'[name].session]
        BY <1>0, <2>1, <2>2, <2>4
      <3>. QED BY <2>3, <3>1, <3>2 DEF Dated
    <2>8. NamedNow'
      BY <2>3, <2>4 DEF Spaced, NamedNow
    <2>9. PassedDebounce'
      <3>. SUFFICES ASSUME NEW x \in Producers,
                           hook'[x] \in {"growth", "create", "write"}, x[2] = "stop",
                           NEW n \in Queued', queue'[n].session = x[1], ~queue'[n].forced,
                           hook'[x] = "write" => n # naming'[x]
                    PROVE  n[1] + Debounce <= Second(x)'
        BY DEF PassedDebounce
      <3>1. x # p /\ hook'[x] = hook[x] /\ naming'[x] = naming[x]
        BY <2>4
      <3>2. n # name /\ n \in Queued /\ queue'[n] = queue[n]
        <4>1. n = name => x = p
          BY <2>2, <2>4 DEF Producers
        <4>. QED BY <2>5, <3>1, <4>1
      <3>3. n[1] + Debounce <= Second(x)
        BY <2>3, <3>1, <3>2 DEF Spaced, PassedDebounce
      <3>. QED BY <2>3, <3>1, <3>3 DEF Second
    <2>10. StopTasksSpaced'
      <3>. SUFFICES ASSUME NEW n \in Queued', NEW m \in Queued', n # m, n[1] <= m[1],
                           queue'[n].session = queue'[m].session, queue'[n].session \in Sessions,
                           ~queue'[n].forced, ~queue'[m].forced
                    PROVE  n[1] + Debounce <= m[1]
        BY DEF StopTasksSpaced
      <3>1. CASE n # name /\ m # name
        <4>1. n \in Queued /\ m \in Queued /\ queue'[n] = queue[n] /\ queue'[m] = queue[m]
          BY <2>5, <3>1
        <4>. QED BY <4>1 DEF Spaced, StopTasksSpaced
      <3>2. CASE m = name
        <4>1. /\ n \in Queued /\ queue'[n] = queue[n]
              /\ queue[n].session = p[1] /\ ~queue[n].forced /\ p[2] = "stop"
          BY <2>2, <2>4, <2>5, <3>2
        <4>. QED BY <2>11, <3>2, <4>1
      <3>3. CASE n = name
        <4>1. /\ m \in Queued /\ queue'[m] = queue[m]
              /\ queue[m].session = p[1] /\ ~queue[m].forced /\ p[2] = "stop"
          BY <2>2, <2>4, <2>5, <3>3
        <4>2. m[1] + Debounce <= n[1]
          BY <2>11, <3>3, <4>1
        <4>3. n \in Names /\ m \in Names
          BY <2>5
        <4>. QED BY <1>0, <4>2, <4>3
      <3>. QED BY <3>1, <3>2, <3>3
    <2>. QED BY <2>7, <2>8, <2>9, <2>10 DEF Spaced
  <1>. QED BY <1>3, <1>4, <1>5, <1>6, <1>7 DEF HookMoves, HookStep

\* Workers only stamp the files and take them away.
LEMMA WorkersSpaced ==
  ASSUME Inductive, Inductive', Spaced, NEW w \in Workers, WorkerMoves(w)
  PROVE  Spaced'
  <1>. USE DEF Inductive
  <1>1. UNCHANGED <<now, hook, naming>>
    BY DEF WorkerMoves, WorkerStep, Wake, ArchiveFails, WorkerDies, Lock, List, EndPass, Begin,
           Evaluate, Touch, Move, Prune, hooks
  <1>2. \A n \in Names : queue[n] \in Tasks
    BY DEF TypeOK
  <1>3. \A n \in Names :
           queue'[n].there =>
               /\ queue[n].there
               /\ queue'[n].session = queue[n].session /\ queue'[n].forced = queue[n].forced
               /\ queue'[n].mtime \in {queue[n].mtime, now}
    <2>1. CASE Touch(w)
      BY <1>2, <2>1 DEF Touch, TypeOK, Tasks
    <2>2. CASE Move(w)
      BY <1>2, <2>2 DEF Move, TypeOK, NoTask
    <2>3. CASE Evaluate(w)
      <3>. DEFINE c == queue[at[w]].runs + 1
      <3>1. UNCHANGED queue \/ queue' = [queue EXCEPT ![at[w]].runs = c]
        BY <2>3 DEF Evaluate
      <3>. HIDE DEF c
      <3>2. \A n \in Names : n # at[w] => queue'[n] = queue[n]
        BY <3>1 DEF TypeOK
      <3>3. at[w] \in Names =>
              /\ queue'[at[w]].there = queue[at[w]].there
              /\ queue'[at[w]].session = queue[at[w]].session
              /\ queue'[at[w]].forced = queue[at[w]].forced
              /\ queue'[at[w]].mtime = queue[at[w]].mtime
        BY <1>2, <3>1 DEF TypeOK, Tasks
      <3>. QED BY <3>2, <3>3
    <2>4. CASE ~Touch(w) /\ ~Move(w) /\ ~Evaluate(w)
      BY <2>4 DEF WorkerMoves, WorkerStep, Wake, ArchiveFails, WorkerDies, Lock, List, EndPass,
                  Begin, Prune, files
    <2>. QED BY <2>1, <2>2, <2>3, <2>4
  <1>. QED BY <1>1, <1>3, QuietSpaced

\* The tasks that the Stop hooks of a session left in the queue are a debounce
\* window apart, with every fault and however names are shared.
THEOREM StopTasksSpacedAlways == Spec => []StopTasksSpaced
  <1>1. Init => Spaced
    <2>. SUFFICES ASSUME Init PROVE Spaced
      OBVIOUS
    <2>1. Queued = {}
      BY DEF Init, Queued, NoTask
    <2>. QED BY <2>1 DEF Init, Spaced, Dated, NamedNow, PassedDebounce, StopTasksSpaced
  <1>2. Inductive /\ Inductive' /\ Spaced /\ [Next]_vars => Spaced'
    <2>. SUFFICES ASSUME Inductive, Inductive', Spaced, [Next]_vars PROVE Spaced'
      OBVIOUS
    <2>1. CASE Tick
      <3>1. now' = now + 1 /\ UNCHANGED <<queue, hook, naming>>
        BY <2>1 DEF Tick, files, hooks
      <3>. QED BY <3>1, QuietSpaced
    <2>2. CASE UNCHANGED vars
      <3>1. UNCHANGED <<now, queue, hook, naming>>
        BY <2>2 DEF vars, files, hooks
      <3>. QED BY <3>1, QuietSpaced
    <2>3. ASSUME NEW s \in Sessions, SessionStep(s) PROVE Spaced'
      BY <2>3, SessionsSpaced
    <2>5. ASSUME NEW p \in Producers, HookMoves(p) PROVE Spaced'
      BY <2>5, ProducersSpaced
    <2>4. ASSUME NEW w \in Workers, WorkerMoves(w) PROVE Spaced'
      BY <2>4, WorkersSpaced
    <2>. QED BY <2>1, <2>2, <2>3, <2>4, <2>5 DEF Next, WorkerMoves, HookMoves
  <1>3. Spaced => StopTasksSpaced
    BY DEF Spaced
  <1>. QED BY <1>1, <1>2, <1>3, InductiveAlways, PTL DEF Spec

=============================================================================
