--------------------------- MODULE ProposalReview ---------------------------
(***************************************************************************)
(* What the review of CLAUDE.md proposals promises, without processes,      *)
(* locks, clocks or files that are written one after the other: a bullet    *)
(* enters a queue that has a limit and leaves it judged or lapsed; a rule   *)
(* the queue had no room for waits on a line of the overflow, which is      *)
(* dealt with once; what has lapsed is forgotten only for a bullet with the *)
(* same rule.                                                               *)
(***************************************************************************)
EXTENDS Naturals, FiniteSets, Sequences

CONSTANTS Rules, Cap, Caps, MaxNew, MaxHeld

VARIABLES open,       \* bullets in the queue
          settled,    \* bullets a person accepted or rejected
          lapsed,     \* bullets that grew too old
          lines,      \* the rules of the overflow, oldest first
          dealt,      \* lines that were put in the queue, or found known
          entered     \* bullets that ever entered the queue

vars == <<open, settled, lapsed, lines, dealt, entered>>

RulesOf(S) == {b.rule : b \in S}
Enter(n, rule, from) == [id |-> entered + n, rule |-> rule, from |-> from]

\* A rule that a line of the overflow would only repeat.
Known(rule) == rule \in RulesOf(open) \cup {lines[j] : j \in dealt}

Init ==
    /\ open = {} /\ settled = {} /\ lapsed = {} /\ dealt = {} /\ entered = 0
    /\ \E n \in 0 .. MaxHeld : lines \in [1 .. n -> Rules]

\* The grader's rules enter together when there is room for all of them ...
Propose(rules) ==
    /\ Cardinality(open) + Len(rules) <= Cap
    /\ open' = open \cup {Enter(i, rules[i], 0) : i \in 1 .. Len(rules)}
    /\ entered' = entered + Len(rules)
    /\ UNCHANGED <<settled, lapsed, lines, dealt>>

\* ... and otherwise wait together.
Hold(rules) ==
    /\ Cardinality(open) + Len(rules) > Cap
    /\ lines' = lines \o rules
    /\ UNCHANGED <<open, settled, lapsed, dealt, entered>>

\* A waiting line enters once, and only with a rule that is new.
Requeue(i) ==
    /\ i \in (1 .. Len(lines)) \ dealt
    /\ ~Known(lines[i])
    /\ \E cap \in Caps : Cardinality(open) < cap
    /\ open' = open \cup {Enter(1, lines[i], i)}
    /\ dealt' = dealt \cup {i}
    /\ entered' = entered + 1
    /\ UNCHANGED <<settled, lapsed, lines>>

Merge(i) ==
    /\ i \in (1 .. Len(lines)) \ dealt
    /\ Known(lines[i])
    /\ dealt' = dealt \cup {i}
    /\ UNCHANGED <<open, settled, lapsed, lines, entered>>

\* A bullet of the queue is put on record before it leaves the queue.
Settle(b) ==
    /\ b \in open
    /\ settled' = settled \cup {b}
    /\ UNCHANGED <<open, lapsed, lines, dealt, entered>>

Lapse(b) ==
    /\ b \in open
    /\ lapsed' = lapsed \cup {b}
    /\ UNCHANGED <<open, settled, lines, dealt, entered>>

Leave(B) ==
    /\ B \subseteq settled \/ RulesOf(B) \subseteq RulesOf(lapsed)
    /\ open' = open \ B
    /\ UNCHANGED <<settled, lapsed, lines, dealt, entered>>

\* A lapsed rule enters again as a new bullet, and is then taken off the record.
Reopen(b) ==
    /\ b \in lapsed
    /\ \E cap \in Caps : Cardinality(open) < cap
    /\ open' = open \cup {Enter(1, b.rule, 0)}
    /\ entered' = entered + 1
    /\ UNCHANGED <<settled, lapsed, lines, dealt>>

Forget(b) ==
    /\ b \in lapsed /\ b.rule \in RulesOf(open)
    /\ lapsed' = lapsed \ {b}
    /\ UNCHANGED <<open, settled, lines, dealt, entered>>

Next ==
    \/ \E k \in 1 .. MaxNew : \E rules \in [1 .. k -> Rules] : Propose(rules) \/ Hold(rules)
    \/ \E i \in 1 .. MaxHeld : Requeue(i) \/ Merge(i)
    \/ \E b \in open : Settle(b) \/ Lapse(b)
    \/ \E B \in SUBSET open : Leave(B)
    \/ \E b \in lapsed : Reopen(b) \/ Forget(b)

Spec == Init /\ [][Next]_vars
=============================================================================
