------------------------------ MODULE MCTasks ------------------------------
(* Processes, tasks, Join and with_timeout, once with two processes and once *)
(* with one process whose Joins and with_timeouts nest.  A run explores them *)
(* one beside the other: the initial state chooses the subject.              *)
EXTENDS Tasks, TLC

CONSTANT Subjects  \* what the run explores

VARIABLE subject

MCInit == subject \in Subjects /\ Init

\* Bounds: with two processes, one JoinState and one slot less are used; with
\* one, where Joins nest, no coroutine awaits a plain task.
InBounds ==
  CASE subject = "tasks" ->
         /\ \E s \in Slots : Free(s)
         /\ Cardinality(Joins \cap JoinsInUse) <= 1
    [] subject = "nested" ->
         /\ Cardinality({p \in Processes : control[p].spawned}) <= 1
         /\ \A s \in Slots :
              link[s].kind = "task" => awaits[s].kind \in {"starting", "timeout"}

MCNext == Next /\ UNCHANGED subject /\ InBounds'

MCSpec == MCInit /\ [][MCNext]_<<subject, vars>>

\* Slots and processes are interchangeable.
Symmetry == Permutations(Slots) \cup Permutations(Processes)
=============================================================================
