------------------------------- MODULE StoreSync -------------------------------
(***************************************************************************)
(* The knowledge store: a git work tree on every machine and one remote.    *)
(* The workers of a machine (MemoryDir, EngramPersist) write the files of   *)
(* the work tree at any time; a scheduled cycle commits, fetches, merges    *)
(* and pushes them (push_once).  Three kinds of file are shared: journals,  *)
(* which merge by union, the handoff, of which the newest wins, and         *)
(* insights/.cursor.json, for which there is no rule.                       *)
(***************************************************************************)
EXTENDS Naturals, FiniteSets, Sequences, SequencesExt

CONSTANTS
    Machines,
    Mirrors,       \* the machines with an engram
    Garbled,       \* a file with conflict markers in it
    MaxWrites,     \* bound on what workers write
    MaxFaults      \* bound on cycles that die and calls of git that fail

ASSUME SyncAssumption == Mirrors \subseteq Machines /\ {MaxWrites, MaxFaults} \subseteq Nat

VARIABLES
    tree,       \* tree[m]: the files of the work tree
    commits,    \* every commit ever made: its files and its history
    head,       \* head[m]: the branch of m
    seen,       \* seen[m]: the remote-tracking branch of m
    remote,     \* the branch of the remote
    merging,    \* merging[m]: MERGE_HEAD of m, or 0
    cycle,      \* cycle[m]: where the cycle of m is, and what it found out
    author,     \* author[n]: the machine that made write n
    offset,     \* offset[m]: lines of the journal behind the engram cursor of m
    mirrored,   \* mirrored[m]: lines saved to the engram of m
    faults

git == <<commits, head, seen, remote, merging>>
engram == <<offset, mirrored>>
vars == <<tree, git, cycle, author, engram, faults>>

Files == {"journal", "handoff", "cursor"}
Empty == [journal |-> << >>, handoff |-> 0, cursor |-> 0]
Rest == [at |-> "idle", owed |-> FALSE]

At(m, place) == cycle[m].at = place
Goto(m, place) == cycle' = [cycle EXCEPT ![m].at = place]
Stop(m) == cycle' = [cycle EXCEPT ![m] = Rest]
Pushes(m) == IF cycle[m].owed THEN Goto(m, "push") ELSE Stop(m)

Fault == faults < MaxFaults /\ faults' = faults + 1

Past(c) == commits[c].past
Base(c, d) == CHOOSE b \in Past(c) \cap Past(d) : \A e \in Past(c) \cap Past(d) : e \in Past(b)

-----------------------------------------------------------------------------
(* Workers.  A write is its number: the time it was made at.               *)

Write(m, file, value) ==
    /\ Len(author) < MaxWrites
    /\ tree' = [tree EXCEPT ![m][file] = value]
    /\ author' = Append(author, m)
    /\ UNCHANGED <<git, cycle, engram, faults>>

Now == Len(author) + 1

AppendLine(m) == Write(m, "journal", Append(tree[m].journal, Now))
WriteHandoff(m) == Write(m, "handoff", Now)
RemoveHandoff(m) == tree[m].handoff # 0 /\ Write(m, "handoff", 0)
WriteCursor(m) == Write(m, "cursor", Now)

\* engram_persist: from the cursor to the end; a cursor past the end starts again.
Mirror(m) ==
    LET from == IF offset[m] > Len(tree[m].journal) THEN 0 ELSE offset[m]
        lines == SubSeq(tree[m].journal, from + 1, Len(tree[m].journal))
    IN /\ lines # << >>
       /\ mirrored' = [mirrored EXCEPT ![m] = @ \cup Range(lines)]
       /\ offset' = [offset EXCEPT ![m] = Len(tree[m].journal)]
       /\ UNCHANGED <<tree, git, cycle, author, faults>>

-----------------------------------------------------------------------------
(* The merge of git. *)

\* What a journal has between line i of the base and the next one.
Gap(base, journal, i) ==
    LET place(k) == CHOOSE j \in DOMAIN journal : journal[j] = base[k]
        from == IF i = 0 THEN 1 ELSE place(i) + 1
        to == IF i = Len(base) THEN Len(journal) ELSE place(i + 1) - 1
    IN SubSeq(journal, from, to)

\* Mutant: where both have changed the journal, ours is taken.
Ours(base, ours, theirs) == IF ours = base THEN theirs ELSE ours

\* Mutant: the lines added last come first.
LastFirst(base, ours, theirs) ==
    Reverse(SelectSeq(theirs, LAMBDA n : n \notin Range(ours))) \o ours

\* merge=union: where both have added lines, ours and then theirs.
Union(base, ours, theirs) ==
    FlattenSeq([k \in 1 .. Len(base) + 1 |->
        (IF k = 1 THEN << >> ELSE <<base[k - 1]>>)
            \o Gap(base, ours, k - 1) \o Gap(base, theirs, k - 1)])

\* Any other file: whichever side has changed it, and a conflict if both did.
Either(base, ours, theirs) ==
    IF ours = base \/ ours = theirs THEN theirs ELSE IF theirs = base THEN ours ELSE Garbled

Merged(b, o, t) ==
    [journal |-> Union(b.journal, o.journal, t.journal),
     handoff |-> Either(b.handoff, o.handoff, t.handoff),
     cursor |-> Either(b.cursor, o.cursor, t.cursor)]

\* The merge of the remote's branch, or of the one a merge was begun with, and the files
\* that both sides have changed; a branch that is behind moves forward.
Theirs(m) == IF merging[m] # 0 THEN merging[m] ELSE remote
Trails(m) == head[m] # Theirs(m) /\ head[m] \in Past(Theirs(m))
Diverged(m) == head[m] \notin Past(Theirs(m)) /\ Theirs(m) \notin Past(head[m])
BaseOf(m) == commits[Base(head[m], Theirs(m))].tree
OursOf(m) == commits[head[m]].tree
TheirsOf(m) == commits[Theirs(m)].tree
Result(m) == IF Trails(m) THEN TheirsOf(m) ELSE Merged(BaseOf(m), OursOf(m), TheirsOf(m))
Conflicts(m) == {f \in {"handoff", "cursor"} :
    Diverged(m) /\ Cardinality({BaseOf(m)[f], OursOf(m)[f], TheirsOf(m)[f]}) = 3}
\* The files it would write, which must not have changes that are not committed.
Touched(m) == {f \in Files : Result(m)[f] # OursOf(m)[f]}
Refused(m) == \E f \in Touched(m) : tree[m][f] # OursOf(m)[f]

Commit(m, files, parents) ==
    /\ commits' = Append(commits, [tree |-> files,
            past |-> (UNION {Past(p) : p \in parents}) \cup {Len(commits) + 1}])
    /\ head' = [head EXCEPT ![m] = Len(commits) + 1]
    /\ merging' = [merging EXCEPT ![m] = 0]

-----------------------------------------------------------------------------
(* push_once. *)

\* Mutant: a push is owed for what this cycle commits.
OwedNow(m) == FALSE

\* git log --branches --not --remotes: what an earlier cycle could not push.
Owed(m) == head[m] \notin Past(seen[m])

\* status, add -A and commit; a merge that was left half done is concluded by it.  The
\* lock is free: a cycle that runs holds it, and one that died let go.
CommitAll(m) ==
    /\ At(m, "idle")
    /\ LET dirty == tree[m] # commits[head[m]].tree \/ merging[m] # 0
       IN /\ IF dirty THEN Commit(m, tree[m], {head[m], merging[m]} \ {0})
             ELSE UNCHANGED <<commits, head, merging>>
          /\ cycle' = [cycle EXCEPT ![m] = [at |-> "pull", owed |-> dirty \/ Owed(m)]]
    /\ UNCHANGED <<tree, seen, remote, author, engram, faults>>

\* fetch; then nothing to do, refused, merged, or left with conflicts in the work tree.
Pull(m) ==
    /\ At(m, "pull")
    /\ seen' = [seen EXCEPT ![m] = remote]
    /\ IF ~Trails(m) /\ ~Diverged(m) THEN Pushes(m) /\ UNCHANGED <<tree, commits, head, merging>>
       ELSE IF Refused(m) THEN Stop(m) /\ UNCHANGED <<tree, commits, head, merging>>
       ELSE /\ tree' = [tree EXCEPT ![m] =
                    [f \in Files |-> IF f \in Touched(m) THEN Result(m)[f] ELSE @[f]]]
            /\ IF Conflicts(m) # {}
               THEN /\ merging' = [merging EXCEPT ![m] = remote]
                    /\ Goto(m, "conflict") /\ UNCHANGED <<commits, head>>
               ELSE /\ Pushes(m)
                    /\ IF Trails(m)
                       THEN head' = [head EXCEPT ![m] = remote] /\ UNCHANGED <<commits, merging>>
                       ELSE Commit(m, Result(m), {head[m], remote})
    /\ UNCHANGED <<remote, author, engram, faults>>

\* _resolve_handoffs: both sides have one, each with a time.
Resolvable(m) ==
    Conflicts(m) = {"handoff"} /\ {OursOf(m).handoff, TheirsOf(m).handoff} \cap {0, Garbled} = {}

\* Mutant: the machine at hand wins.
OursWins(m) == OursOf(m).handoff

Newest(m) == IF TheirsOf(m).handoff > OursOf(m).handoff THEN TheirsOf(m).handoff ELSE OursOf(m).handoff

\* checkout --ours or --theirs, add, commit: whatever the work tree has by now.
Resolve(m) ==
    /\ At(m, "conflict") /\ Resolvable(m)
    /\ tree' = [tree EXCEPT ![m].handoff = Newest(m)]
    /\ Commit(m, [Result(m) EXCEPT !.handoff = Newest(m)], {head[m], merging[m]})
    /\ Pushes(m)
    /\ UNCHANGED <<seen, remote, author, engram, faults>>

\* merge --abort puts the files back, unless one of them was written to meanwhile; its
\* failure is not looked at.
Abort(m) ==
    /\ At(m, "conflict") /\ ~Resolvable(m)
    /\ IF \E f \in Touched(m) \ Conflicts(m) : tree[m][f] # Result(m)[f]
       THEN UNCHANGED <<tree, merging>>
       ELSE /\ tree' = [tree EXCEPT ![m] =
                    [f \in Files |-> IF f \in Touched(m) THEN OursOf(m)[f] ELSE @[f]]]
            /\ merging' = [merging EXCEPT ![m] = 0]
    /\ Stop(m)
    /\ UNCHANGED <<commits, head, seen, remote, author, engram, faults>>

\* The remote takes what has its own branch in its past.
Push(m) ==
    /\ At(m, "push")
    /\ IF remote \in Past(head[m])
       THEN remote' = head[m] /\ seen' = [seen EXCEPT ![m] = head[m]]
       ELSE UNCHANGED <<remote, seen>>
    /\ Stop(m)
    /\ UNCHANGED <<tree, commits, head, merging, author, engram, faults>>

\* The network fails, or the cycle dies; the next one starts over.
Fail(m) ==
    /\ Fault
    /\ ~At(m, "idle")
    /\ Stop(m)
    /\ UNCHANGED <<tree, git, author, engram>>

-----------------------------------------------------------------------------
Init ==
    /\ tree = [m \in Machines |-> Empty]
    /\ commits = <<[tree |-> Empty, past |-> {1}]>>
    /\ head = [m \in Machines |-> 1] /\ seen = head /\ remote = 1
    /\ merging = [m \in Machines |-> 0]
    /\ cycle = [m \in Machines |-> Rest]
    /\ author = << >> /\ faults = 0
    /\ offset = [m \in Mirrors |-> 0] /\ mirrored = [m \in Mirrors |-> {}]

Cycle(m) ==
    CommitAll(m) \/ Pull(m) \/ Resolve(m) \/ Abort(m) \/ Push(m)

Next ==
    \E m \in Machines :
        \/ AppendLine(m) \/ WriteHandoff(m) \/ RemoveHandoff(m) \/ WriteCursor(m)
        \/ Cycle(m) \/ Fail(m) \/ (m \in Mirrors /\ Mirror(m))

\* The scheduler runs the cycle for ever, and every Stop hook mirrors.
Fairness ==
    /\ \A m \in Machines : WF_vars(Cycle(m))
    /\ \A m \in Mirrors : WF_vars(Mirror(m))

Spec == Init /\ [][Next]_vars
FairSpec == Spec /\ Fairness

-----------------------------------------------------------------------------
(* Properties. *)

Lines(m) == Range(tree[m].journal)
OwnLines(m) == {n \in Lines(m) : author[n] = m}

\* A machine never loses sight of a line it wrote, and the remote of none it has:
\* through commits, merges, conflicts, aborts and cycles that die.
LinesKept ==
    [][/\ \A m \in Machines : OwnLines(m) \subseteq Lines(m)'
       /\ Range(commits[remote].tree.journal) \subseteq Range(commits[remote].tree.journal)']_vars

\* A handoff without markers, and not removed.
Dated(handoff) == handoff \notin {0, Garbled}

\* The remote's handoff is never replaced by an older one: whichever machine merges or
\* concludes the merge of a cycle that died, and however old the base is they compare with.
HandoffAdvances ==
    [][LET old == commits[remote].tree.handoff
           new == commits'[remote'].tree.handoff
       IN Dated(old) /\ Dated(new) => new >= old]_vars

\* A handoff on a machine is replaced by newer ones only: not so, the one a worker writes
\* between the merge and its resolution is overwritten by the newer of the two that were merged.
LocalHandoffAdvances ==
    [][\A m \in Machines : Dated(tree[m].handoff) /\ Dated(tree'[m].handoff)
          => tree'[m].handoff >= tree[m].handoff]_vars

Saved(m) == {tree[m].journal[i] : i \in (1 .. offset[m]) \cap DOMAIN tree[m].journal}

\* A line that a machine wrote itself and has not saved to its engram stays in front of
\* the cursor, although merges put lines of other machines between.
OwnAhead ==
    [][\A m \in Mirrors : Pull(m) \/ Resolve(m) => OwnLines(m) \cap Saved(m)' \subseteq Saved(m)]_vars

\* All lines a machine has are in its engram or in front of the cursor: not so, a merge
\* done by another machine puts lines before it.
AllMirrored == \A m \in Mirrors : Saved(m) \subseteq mirrored[m]

Alike == \A m, n \in Machines : tree[m].journal = tree[n].journal /\ tree[m].handoff = tree[n].handoff
Stuck == \E m \in Machines : Diverged(m) /\ ~Resolvable(m) /\ Conflicts(m) # {}

\* When workers rest, all machines have the same journals and handoff, or one of them
\* is stuck on a conflict no rule covers.
EventuallyAlike == <>[]Alike \/ <>[]Stuck

\* No file is committed with the markers of a conflict in it: not so, a merge that was left
\* half done, by a death or by an abort that failed, is committed by the next cycle.
NoMarkers == \A i \in DOMAIN commits : Garbled \notin {commits[i].tree.handoff, commits[i].tree.cursor}
=============================================================================
