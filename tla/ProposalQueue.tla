--------------------------- MODULE ProposalQueue ---------------------------
(***************************************************************************)
(* The CLAUDE.md proposals of one memory directory: the review queue        *)
(* claude-md.proposal.md, the overflow it refuses (proposals-held.jsonl     *)
(* and its dispositions), what grew too old, and what a person accepted or  *)
(* rejected.  Compound-loop workers of several profiles and the commands    *)
(* `lh memory proposals ...` share these files under memory_dir_lock; each   *)
(* file is replaced atomically, no two of them together.                    *)
(***************************************************************************)
EXTENDS Naturals, FiniteSets, Sequences

CONSTANTS
    Rules,        \* texts of rules
    Workers,      \* compound-loop workers, one per profile
    People,       \* terminals where the commands are typed
    NoProc,
    MaxDay,       \* bound on the clock
    MaxAge,       \* proposal_max_age_days, in ticks (0: a tick is longer than that)
    Cap,          \* max_pending_proposals, which the workers keep to
    Caps,         \* the caps of a requeue: Cap, or what --max-pending says
    MaxNew,       \* proposals in one answer of the grader
    MaxEntries,   \* bound on the bullets ever written to the queue
    MaxHeld       \* bound on the lines of proposals-held.jsonl

Procs == Workers \cup People
Days == 0 .. MaxDay
HeldLines == 1 .. MaxHeld
\* A bullet of the queue.  Bullets are only ever appended, so the order of the
\* ids is their order in the file.  `ts` is the header above the bullet, `from` the
\* held line it came from (0: none), `back` the day a person put it back in the queue.
Never == MaxDay + 1
Entries == [id : 1 .. MaxEntries, rule : Rules, ts : Days, from : 0 .. MaxHeld,
            back : Days \cup {Never}]
\* What the registry of a judged bullet is good for.
Judged == [id : 1 .. MaxEntries, rule : Rules, from : 0 .. MaxHeld]
HeldRows == [rule : Rules, ts : Days]

ASSUME ProposalAssumption ==
    /\ NoProc \notin Procs /\ Workers \cap People = {}
    /\ {MaxDay, MaxAge, Cap, MaxNew, MaxEntries, MaxHeld} \subseteq Nat
    /\ Cap > 0 /\ Cap \in Caps /\ Caps \subseteq Nat \ {0}

VARIABLES
    day,
    pending, markers,        \* claude-md.proposal.md: bullets, held-requeue comments
    held, dispositions,      \* proposals-held.jsonl, proposals-held-requeued.jsonl
    expired,                 \* claude-md.expired.md
    judged,                  \* claude-md.accepted.md and claude-md.rejected.md
    written,                 \* bullets written so far
    recorded,                \* rules that were ever put in the queue or held
    lock,                    \* who holds .memory.lock
    proc                     \* proc[p]: where a process is, and its locals

queue == <<pending, markers, written>>
overflow == <<held, dispositions>>
vars == <<day, queue, overflow, expired, judged, recorded, lock, proc>>

\* Locals: the timestamp of a task, the expired entries still to be registered, the
\* rules of the grader's answer; the listing a person looks at, the positions still
\* to be judged, the queue as it will be written; the line or entry to requeue.
Idle == [at |-> "idle", clock |-> 0, todo |-> {}, rules |-> << >>, shown |-> {},
         verdicts |-> {}, text |-> {}, line |-> 0]

\* The bullet at position i, from 1, of a document with these ids.
Bullets(S) == {e.id : e \in S}
Nth(ids, i) == CHOOSE n \in ids : Cardinality({m \in ids : m <= n}) = i
RulesOf(S) == {e.rule : e \in S}

\* The n-th bullet after what is written.
Bullet(n, rule, ts, from, back) ==
    [id |-> written + n, rule |-> rule, ts |-> ts, from |-> from, back |-> back]

At(p, label) == proc[p].at = label
Goto(p, label) == proc' = [proc EXCEPT ![p].at = label]

\* memory_dir_lock: blocking, released when its holder ends or dies.
Acquire(p) == lock = NoProc /\ lock' = p
Finish(p) == lock' = NoProc /\ proc' = [proc EXCEPT ![p] = Idle]

Tick ==
    /\ day < MaxDay
    /\ day' = day + 1
    /\ UNCHANGED <<queue, overflow, expired, judged, recorded, lock, proc>>

-----------------------------------------------------------------------------
(* The worker: expiry before the prompt, the grader, expiry and cap again.  *)

\* A task carries its own timestamp, which may be days old.
BeginTask(p) ==
    /\ At(p, "idle")
    /\ \E ts \in 0 .. day : proc' = [proc EXCEPT ![p] = [Idle EXCEPT !.at = "gate", !.clock = ts]]
    /\ UNCHANGED <<day, queue, overflow, expired, judged, recorded, lock>>

TooOld(p) == {e \in pending : proc[p].clock > e.ts + MaxAge}
Registered(e) == \E x \in expired : x.ts = e.ts /\ x.rule = e.rule

\* expire_pending reads the queue, and the registry once for the whole loop.
StartExpiry(p) ==
    /\ At(p, "gate") \/ At(p, "persist")
    /\ Acquire(p)
    /\ proc' = [proc EXCEPT ![p].todo = {e \in TooOld(p) : ~Registered(e)},
                            ![p].at = IF @ = "gate" THEN "expireGate" ELSE "expirePersist"]
    /\ UNCHANGED <<day, queue, overflow, expired, judged, recorded>>

Expiring(p) == At(p, "expireGate") \/ At(p, "expirePersist")

\* One block of the registry, one replacement of its file.
Register(p) ==
    /\ Expiring(p)
    /\ \E e \in proc[p].todo :
        /\ \A x \in proc[p].todo : e.id <= x.id
        /\ expired' = expired \cup {e}
        /\ proc' = [proc EXCEPT ![p].todo = @ \ {e}]
    /\ UNCHANGED <<day, queue, overflow, judged, recorded, lock>>

\* Mutant: the queue is written before the registry.
QueueFirst(p) == Expiring(p)

\* The registry has everything that is to leave the queue.
RegistryWritten(p) == Expiring(p) /\ proc[p].todo = {}

\* The second file; in process_task the lock is given back before the grader runs.
DropExpired(p) ==
    /\ RegistryWritten(p)
    /\ pending' = pending \ TooOld(p)
    /\ \/ At(p, "expireGate") /\ lock' = NoProc /\ Goto(p, "infer")
       \/ At(p, "expirePersist") /\ Goto(p, "record") /\ UNCHANGED lock
    /\ UNCHANGED <<day, markers, written, overflow, expired, judged, recorded>>

\* The grader fails or proposes nothing, or it proposes rules: a full queue is kept
\* out of its prompt, and nothing else keeps it from proposing.
Infer(p) ==
    /\ At(p, "infer")
    /\ \/ proc' = [proc EXCEPT ![p] = Idle]
       \/ \E k \in 1 .. MaxNew : \E r \in [1 .. k -> Rules] :
            proc' = [proc EXCEPT ![p].rules = r, ![p].at = "persist"]
    /\ UNCHANGED <<day, queue, overflow, expired, judged, recorded, lock>>

\* Mutant: only the queue as it is counts against the cap.
FullOfOld(p) == Cardinality(pending) > Cap

Full(p) == Cardinality(pending) + Len(proc[p].rules) > Cap

\* persist_results: all of them in the queue, or all of them held.
Record(p) ==
    /\ At(p, "record")
    /\ LET rules == proc[p].rules
           n == Len(rules)
       IN /\ \/ /\ Full(p) /\ Len(held) + n <= MaxHeld
                /\ held' = held \o [i \in 1 .. n |-> [rule |-> rules[i], ts |-> proc[p].clock]]
                /\ UNCHANGED <<pending, written>>
             \/ /\ ~Full(p) /\ written + n <= MaxEntries
                /\ pending' = pending \cup
                     {Bullet(i, rules[i], proc[p].clock, 0, Never) : i \in 1 .. n}
                /\ written' = written + n
                /\ UNCHANGED held
          /\ recorded' = recorded \cup {rules[i] : i \in 1 .. n}
    /\ Finish(p)
    /\ UNCHANGED <<day, markers, dispositions, expired, judged>>

-----------------------------------------------------------------------------
(* The commands. *)

\* `proposals list` reads the queue without the lock.
List(p) ==
    /\ At(p, "idle") /\ pending # {}
    /\ proc' = [proc EXCEPT ![p].shown = Bullets(pending), ![p].at = "deciding"]
    /\ UNCHANGED <<day, queue, overflow, expired, judged, recorded, lock>>

\* `accept N` and `reject N` (one position) and `apply` (one or more), by the
\* positions of the listing.
Judge(p) ==
    /\ At(p, "deciding")
    /\ Acquire(p)
    /\ \E P \in (SUBSET (1 .. Cardinality(proc[p].shown))) \ {{}} :
        proc' = [proc EXCEPT ![p].verdicts = P, ![p].shown = {}, ![p].at = "reconcile"]
    /\ UNCHANGED <<day, queue, overflow, expired, judged, recorded>>

\* `held requeue N`.
HeldRequeue(p) ==
    /\ At(p, "idle")
    /\ Acquire(p)
    /\ \E i \in 1 .. Len(held) :
        proc' = [proc EXCEPT ![p].line = i, ![p].at = "reconcileHeld"]
    /\ UNCHANGED <<day, queue, overflow, expired, judged, recorded>>

\* _reconcile_held: a marker in the queue without a disposition is a requeue that
\* died in the middle; its disposition is written now, one file write per marker.
Reconcile(p) ==
    /\ At(p, "reconcile") \/ At(p, "reconcileHeld")
    /\ \E i \in markers \ dispositions :
        /\ \A j \in markers \ dispositions : i <= j
        /\ dispositions' = dispositions \cup {i}
    /\ UNCHANGED <<day, queue, held, expired, judged, recorded, lock, proc>>

\* Mutant: no look at the markers of the queue.
ReconciledBlindly(p, label) == At(p, label)

Reconciled(p, label) == At(p, label) /\ markers \subseteq dispositions

\* A position that the queue does not have refuses the whole command.
Load(p) ==
    /\ Reconciled(p, "reconcile")
    /\ \/ /\ proc[p].verdicts \subseteq 1 .. Cardinality(pending)
          /\ proc' = [proc EXCEPT ![p].text = Bullets(pending), ![p].at = "archive"]
          /\ UNCHANGED lock
       \/ /\ ~(proc[p].verdicts \subseteq 1 .. Cardinality(pending))
          /\ Finish(p)
    /\ UNCHANGED <<day, queue, overflow, expired, judged, recorded>>

\* Mutant: the verdicts are applied in the order of the document.
FirstVerdict(P) == CHOOSE i \in P : \A j \in P : i <= j

\* Back to front: every removal shifts the positions after it.
NextVerdict(P) == CHOOSE i \in P : \A j \in P : i >= j

\* One verdict: its block goes to a registry, the bullet at its position leaves the text.
Archive(p) ==
    /\ At(p, "archive") /\ proc[p].verdicts # {}
    /\ LET i == NextVerdict(proc[p].verdicts)
           target == CHOOSE e \in pending : e.id = Nth(Bullets(pending), i)
           text == proc[p].text
       IN /\ judged' = judged \cup {[id |-> target.id, rule |-> target.rule, from |-> target.from]}
          /\ proc' = [proc EXCEPT ![p].verdicts = @ \ {i},
                ![p].text = IF i <= Cardinality(text) THEN text \ {Nth(text, i)} ELSE text]
    /\ UNCHANGED <<day, queue, overflow, expired, recorded, lock>>

Replace(p) ==
    /\ At(p, "archive") /\ proc[p].verdicts = {}
    /\ pending' = {e \in pending : e.id \in proc[p].text}
    /\ Finish(p)
    /\ UNCHANGED <<day, markers, written, overflow, expired, judged, recorded>>

\* The rest of `held requeue`: the line was requeued before, its rule is known, the
\* queue is full, or it goes to the queue under its own timestamp and with a marker.
RequeueHeld(p) ==
    /\ Reconciled(p, "reconcileHeld")
    /\ LET i == proc[p].line
           rule == held[i].rule
           known == RulesOf(pending) \cup {held[j].rule : j \in dispositions}
       IN \/ /\ i \in dispositions \/ (rule \notin known /\ \E cap \in Caps : Cardinality(pending) >= cap)
             /\ Finish(p)
             /\ UNCHANGED queue
          \/ /\ i \notin dispositions /\ rule \in known
             /\ Goto(p, "dispose")
             /\ UNCHANGED <<queue, lock>>
          \/ /\ i \notin dispositions /\ rule \notin known
             /\ (\E cap \in Caps : Cardinality(pending) < cap) /\ written < MaxEntries
             /\ pending' = pending \cup {Bullet(1, rule, held[i].ts, i, day)}
             /\ markers' = markers \cup {i}
             /\ written' = written + 1
             /\ Goto(p, "dispose")
             /\ UNCHANGED lock
    /\ UNCHANGED <<day, overflow, expired, judged, recorded>>

Dispose(p) ==
    /\ At(p, "dispose")
    /\ dispositions' = dispositions \cup {proc[p].line}
    /\ Finish(p)
    /\ UNCHANGED <<day, queue, held, expired, judged, recorded>>

\* Mutant: the bullet comes back under its old header.
RevivedAsItWas(e) == Bullet(1, e.rule, e.ts, 0, day)

\* The bullet comes back under a header dated now.
Revived(e) == Bullet(1, e.rule, day, 0, day)

\* `expired requeue N`: the queue first, then the registry.
RequeueExpired(p) ==
    /\ At(p, "idle")
    /\ Acquire(p)
    /\ (\E cap \in Caps : Cardinality(pending) < cap) /\ written < MaxEntries
    /\ \E e \in expired :
        /\ pending' = pending \cup {Revived(e)}
        /\ proc' = [proc EXCEPT ![p].line = e.id, ![p].at = "forget"]
    /\ written' = written + 1
    /\ UNCHANGED <<day, markers, overflow, expired, judged, recorded>>

Forget(p) ==
    /\ At(p, "forget")
    /\ expired' = {e \in expired : e.id # proc[p].line}
    /\ Finish(p)
    /\ UNCHANGED <<day, queue, overflow, judged, recorded>>

\* A process dies: the kernel releases its lock.
Crash(p) ==
    /\ ~At(p, "idle")
    /\ proc' = [proc EXCEPT ![p] = Idle]
    /\ lock' = IF lock = p THEN NoProc ELSE lock
    /\ UNCHANGED <<day, queue, overflow, expired, judged, recorded>>

-----------------------------------------------------------------------------
\* An empty queue; lines may be held since it was full.
Init ==
    /\ day = 0
    /\ pending = {} /\ markers = {} /\ written = 0
    /\ \E n \in 0 .. MaxHeld : held \in [1 .. n -> [rule : Rules, ts : {0}]]
    /\ recorded = RulesOf({held[i] : i \in 1 .. Len(held)})
    /\ dispositions = {} /\ expired = {} /\ judged = {}
    /\ lock = NoProc
    /\ proc = [p \in Procs |-> Idle]

Step(p) ==
    \/ p \in Workers /\ BeginTask(p)
    \/ p \in People /\ (List(p) \/ HeldRequeue(p) \/ RequeueExpired(p))
    \/ StartExpiry(p) \/ Register(p) \/ DropExpired(p) \/ Infer(p) \/ Record(p)
    \/ Judge(p) \/ Reconcile(p) \/ Load(p) \/ Archive(p) \/ Replace(p)
    \/ RequeueHeld(p) \/ Dispose(p) \/ Forget(p)

Next == Tick \/ \E p \in Procs : Step(p) \/ Crash(p)

Spec == Init /\ [][Next]_vars

-----------------------------------------------------------------------------
(* Properties. *)

Places == {"idle", "gate", "expireGate", "infer", "persist", "expirePersist", "record",
           "deciding", "reconcile", "archive", "reconcileHeld", "dispose", "forget"}
Critical == Places \ {"idle", "gate", "infer", "persist", "deciding"}

\* Every variable has its type; whoever is in a critical section holds the lock.
TypeOK ==
    /\ day \in Days /\ written \in 0 .. MaxEntries
    /\ pending \subseteq Entries /\ expired \subseteq Entries
    /\ judged \subseteq Judged
    /\ held \in Seq(HeldRows) /\ Len(held) <= MaxHeld
    /\ markers \subseteq 1 .. Len(held) /\ dispositions \subseteq 1 .. Len(held)
    /\ recorded \subseteq Rules
    /\ lock \in Procs \cup {NoProc}
    /\ DOMAIN proc = Procs
    /\ \A p \in Procs :
        /\ proc[p].at \in Places /\ proc[p].clock \in Days
        /\ proc[p].todo \subseteq Entries /\ proc[p].text \cup proc[p].shown \subseteq 1 .. MaxEntries
        /\ (proc[p].at \in Critical) <=> (lock = p)

\* A rule that was ever queued or held can still be found: in the queue, in the
\* overflow, in the expired registry or among the judged ones.  Two files change in
\* every transition and a process may die between them.
NothingLost ==
    recorded \subseteq RulesOf(pending \cup expired \cup judged)
                       \cup {held[i].rule : i \in (1 .. Len(held)) \ dispositions}

\* A held line enters the queue once, although requeueing it takes two files and may
\* die between them, and the command is then given again.
RequeuedOnce ==
    \A e, f \in pending \cup expired \cup judged :
        e.from # 0 /\ e.from = f.from => e.id = f.id

\* Both: the transitions of a rule, two file writes each, neither drop nor copy it.
RulesConserved == NothingLost /\ RequeuedOnce

\* The place of a bullet in the queue.
Position(e) == Cardinality({f \in pending : f.id <= e.id})

\* No interleaving of workers and commands takes the queue over its cap: a bullet of a
\* worker has never more than Cap - 1 before it, and one that was requeued no more than
\* a command's cap allows, because count and write are in one critical section.
CapRespected ==
    \A e \in pending : \E cap \in (IF e.back = Never THEN {Cap} ELSE Caps) : Position(e) <= cap

\* Every verdict of an `apply` takes out of the queue the bullet whose block it wrote to
\* a registry, however many verdicts came before it.
VerdictsExact ==
    [][\A p \in Procs : Archive(p) =>
        \E n \in {j.id : j \in judged'} : proc'[p].text = proc[p].text \ {n}
                                        /\ n \in proc[p].text]_vars

\* A verdict falls on the bullet that the listing showed at its position.
JudgedAsShown ==
    [][\A p \in Procs : Judge(p) =>
        \A i \in proc'[p].verdicts :
            /\ i <= Cardinality(pending)
            /\ Nth(Bullets(pending), i) = Nth(proc[p].shown, i)]_vars

\* What a person took back from the expired registry gets its full time in the queue:
\* an expiry takes it away again only MaxAge days later.
RevivedKept ==
    [][\A p \in Procs : DropExpired(p) =>
        \A e \in pending \ pending' : e.from = 0 /\ e.back # Never => day > e.back + MaxAge]_vars

\* The same for a held line a person requeued: not so, it keeps its old header.
RequeuedKept ==
    [][\A p \in Procs : DropExpired(p) =>
        \A e \in pending \ pending' : e.from # 0 => day > e.back + MaxAge]_vars

\* What the queue, the registries and the overflow amount to for who reviews the
\* proposals; a marker in the queue speaks for its line before the disposition does.
Bare(e) == [id |-> e.id, rule |-> e.rule, from |-> e.from]

Review == INSTANCE ProposalReview WITH
    open <- {Bare(e) : e \in pending},
    settled <- judged,
    lapsed <- {Bare(e) : e \in expired},
    lines <- [i \in 1 .. Len(held) |-> held[i].rule],
    dealt <- markers \cup dispositions,
    entered <- written

\* Two processes, a lock and two files per transition still do, step by step, what the
\* review promises: whatever leaves the queue is on record by then, whatever enters it
\* is new and fits, and every line of the overflow is dealt with once.
ReviewSpec == Review!Spec
=============================================================================
