---------------------------- MODULE Scoreboards ----------------------------
(***************************************************************************)
(* Checking behind the monitors: a reference model publishes what it       *)
(* predicts to two scoreboards, an InOrderScoreboard and a                 *)
(* KeyedScoreboard, and what the design does reaches them through an       *)
(* AnalysisBuffer of bounded capacity and one consumer coroutine.  The     *)
(* same values go to both scoreboards.                                     *)
(***************************************************************************)
EXTENDS Integers, Sequences, SequencesExt, FiniteSetsExt

CONSTANTS
    Keys, Vals,   \* a transaction is a key and a value
    Capacity,     \* of the buffer
    Policy,       \* its AnalysisOverflowPolicy
    Observes     \* bound: observations of each monitor

\* What an instance gives the constants.
ScoreboardAssumption ==
    /\ Capacity \in Nat \ {0} /\ Observes \in Nat
    /\ Policy \in {"DropNewest", "DropOldest", "Error"}

VARIABLES
    items,      \* the queue of the buffer
    dropped,    \* dropped_
    thrown,     \* overflow_errors thrown into the monitor
    consumer,   \* the consumer coroutine: running, waiting in get, or woken for the front item
    inorder,    \* InOrderScoreboard: expected_, actual_, compared_ and failed checks
    keyed,      \* KeyedScoreboard: expected_, actual_, their counts, compared_ and failed checks
    predicted, observed, taken  \* what the model predicted, the monitor published, the consumer got

vars == <<items, dropped, thrown, consumer, inorder, keyed, predicted, observed, taken>>

Observations == [key: Keys, val: Vals, completed: BOOLEAN]
Sides == {"expected", "actual"}
Other(side) == CHOOSE s \in Sides : s # side

Init ==
    /\ items = <<>> /\ dropped = 0 /\ thrown = 0 /\ consumer = "waiting"
    /\ inorder = [expected |-> <<>>, actual |-> <<>>, compared |-> 0, failed |-> 0]
    /\ keyed = [pending |-> [s \in Sides |-> [k \in Keys |-> <<>>]],
                count |-> [s \in Sides |-> 0], compared |-> 0, failed |-> 0]
    /\ predicted = <<>> /\ observed = <<>> /\ taken = <<>>

\* The failed checks of one comparison, which sees the value and not the disposition.
Differ(a, b) == IF a.key = b.key /\ a.val = b.val THEN 0 ELSE 1

-----------------------------------------------------------------------------
(* InOrderScoreboard *)

\* compare_available: the loop runs at most once, since it leaves one side empty after every write.
CompareAvailable(s) ==
    IF s.expected = <<>> \/ s.actual = <<>> THEN s
    ELSE [expected |-> Tail(s.expected), actual |-> Tail(s.actual), compared |-> s.compared + 1,
          failed |-> s.failed + Differ(Head(s.actual), Head(s.expected))]

WriteInOrder(s, side, o) ==
    CompareAvailable(IF side = "expected" THEN [s EXCEPT !.expected = Append(@, o)]
                                          ELSE [s EXCEPT !.actual = Append(@, o)])

-----------------------------------------------------------------------------
(* KeyedScoreboard *)

\* Mutant: the newest value pending under the key is compared.
WriteKeyedNewest(s, side, o) ==
    LET peer == s.pending[Other(side)][o.key] IN
    IF peer = <<>>
    THEN [s EXCEPT !.pending[side][o.key] = Append(@, o), !.count[side] = @ + 1]
    ELSE [s EXCEPT !.pending[Other(side)][o.key] = Front(@), !.count[Other(side)] = @ - 1,
                   !.compared = @ + 1, !.failed = @ + Differ(Last(peer), o)]

\* KeyedScoreboard::write: against the oldest value the other side holds under the key.
WriteKeyed(s, side, o) ==
    LET peer == s.pending[Other(side)][o.key] IN
    IF peer = <<>>
    THEN [s EXCEPT !.pending[side][o.key] = Append(@, o), !.count[side] = @ + 1]
    ELSE [s EXCEPT !.pending[Other(side)][o.key] = Tail(@), !.count[Other(side)] = @ - 1,
                   !.compared = @ + 1, !.failed = @ + Differ(Head(peer), o)]

\* Input::write of an observation, in both scoreboards: only a completed one counts.
Input(side, o) ==
    IF o.completed
    THEN /\ inorder' = WriteInOrder(inorder, side, o)
         /\ keyed' = WriteKeyed(keyed, side, o)
    ELSE UNCHANGED <<inorder, keyed>>

-----------------------------------------------------------------------------
(* The paths into them *)

\* The model publishes a prediction, whatever it computes; the adapter skips what did not complete.
Predict == \E o \in Observations :
    /\ Len(predicted) < Observes
    /\ predicted' = Append(predicted, o)
    /\ Input("expected", o)
    /\ UNCHANGED <<items, dropped, thrown, consumer, observed, taken>>

\* Items of the queue promised to the consumer that waits for one.
Reserved == IF consumer = "woken" THEN 1 ELSE 0

\* Queue::put_nowait and wake_consumers; the queue has room.
Put(q, o) ==
    /\ items' = Append(q, o)
    /\ consumer' = IF consumer = "waiting" THEN "woken" ELSE consumer

\* The room get_nowait makes: the oldest item that is not promised.
WithoutOldest == RemoveAt(items, Reserved + 1)

\* AnalysisBuffer::write when the queue is full.
Overflow(o) ==
    IF Policy = "DropOldest" /\ Len(items) > Reserved
    THEN Put(WithoutOldest, o) /\ dropped' = dropped + 1 /\ UNCHANGED thrown
    ELSE /\ dropped' = dropped + (IF Policy = "Error" THEN 0 ELSE 1)
         /\ thrown' = thrown + (IF Policy = "Error" THEN 1 ELSE 0)
         /\ UNCHANGED <<items, consumer>>

\* The monitor of the design publishes: AnalysisBuffer::write.
Observe == \E o \in Observations :
    /\ Len(observed) < Observes
    /\ observed' = Append(observed, o)
    /\ IF Len(items) < Capacity
       THEN Put(items, o) /\ UNCHANGED <<dropped, thrown>>
       ELSE Overflow(o)
    /\ UNCHANGED <<inorder, keyed, predicted, taken>>

\* The consumer's get returns the front item, and the consumer writes it to the scoreboards.
Consume ==
    /\ items # <<>> /\ consumer \in {"woken", "running"}
    /\ items' = Tail(items)
    /\ consumer' = "running"
    /\ taken' = Append(taken, Head(items))
    /\ Input("actual", Head(items))
    /\ UNCHANGED <<dropped, thrown, predicted, observed>>

\* Its next get finds the queue empty and waits.
Wait ==
    /\ items = <<>> /\ consumer = "running"
    /\ consumer' = "waiting"
    /\ UNCHANGED <<items, dropped, thrown, inorder, keyed, predicted, observed, taken>>

Next == Predict \/ Observe \/ Consume \/ Wait

Spec == Init /\ [][Next]_vars

-----------------------------------------------------------------------------
(* Properties *)

Completed(s) == SelectSeq(s, LAMBDA o : o.completed)
OfKey(s, k) == SelectSeq(Completed(s), LAMBDA o : o.key = k)

\* Pairs of equal rank of two sequences, and those of them that differ.
Pairs(e, a) == Min({Len(e), Len(a)})
Mismatches(e, a) == Cardinality({i \in 1..Pairs(e, a) : e[i] # a[i]})
Rest(s, n) == SubSeq(s, n + 1, Len(s))

\* The queue and the counters have their types; the queue keeps its capacity.
TypeOK ==
    /\ items \in Seq(Observations) /\ Len(items) <= Capacity
    /\ consumer \in {"running", "waiting", "woken"}
    /\ consumer = "woken" => items # <<>>
    /\ {dropped, thrown} \subseteq 0..Observes

\* Whatever the order in which the two sides arrive, the in-order scoreboard has compared exactly the
\* pairs of equal rank among the completed transactions, failed one check for each pair that differs,
\* and still holds the rest.
InOrderExact ==
    LET e == Completed(predicted)
        a == Completed(taken) IN
    /\ inorder.compared = Pairs(e, a)
    /\ inorder.failed = Mismatches(e, a)
    /\ inorder.expected = Rest(e, inorder.compared) /\ inorder.actual = Rest(a, inorder.compared)

\* The keyed scoreboard does the same for each key by itself, and its counts are what it holds.
KeyedExact ==
    LET e(k) == OfKey(predicted, k)
        a(k) == OfKey(taken, k) IN
    /\ keyed.compared = FoldSet(LAMBDA k, n : n + Pairs(e(k), a(k)), 0, Keys)
    /\ keyed.failed = FoldSet(LAMBDA k, n : n + Mismatches(e(k), a(k)), 0, Keys)
    /\ \A k \in Keys : /\ keyed.pending["expected"][k] = Rest(e(k), Pairs(e(k), a(k)))
                       /\ keyed.pending["actual"][k] = Rest(a(k), Pairs(e(k), a(k)))
    /\ \A s \in Sides :
           keyed.count[s] = FoldSet(LAMBDA k, n : n + Len(keyed.pending[s][k]), 0, Keys)

\* Every observation published is taken, in the queue, counted as dropped or thrown back, and those
\* that are kept come out in the order they were published.
BufferAccounted ==
    /\ Len(observed) = Len(taken) + Len(items) + dropped + thrown
    /\ \E kept \in SUBSET DOMAIN observed :
           taken \o items = [i \in 1..Cardinality(kept) |->
               observed[CHOOSE j \in kept : Cardinality({l \in kept : l <= j}) = i]]

\* A test that finds every check passed, nothing pending at finalize, the buffer drained and nothing
\* dropped or thrown has seen a design that did, key by key, what the model predicted.
PassMeansEqual ==
    (/\ keyed.failed = 0 /\ keyed.count["expected"] = 0 /\ keyed.count["actual"] = 0
     /\ items = <<>> /\ dropped = 0 /\ thrown = 0)
    => \A k \in Keys : OfKey(predicted, k) = OfKey(observed, k)
=============================================================================
