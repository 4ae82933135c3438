----------------------------- MODULE TasksProofs -----------------------------
(***************************************************************************)
(* Structured concurrency, for every finite set of slots, any processes    *)
(* and joins and any depth of inline starts: no coroutine outlives its     *)
(* parent, none runs after it has finished or was cancelled, nobody waits  *)
(* for something that has happened, and a Join returns when both children  *)
(* have ended, with the exception that was thrown first.                   *)
(***************************************************************************)
EXTENDS Tasks, WaitListProofs

-----------------------------------------------------------------------------
(* What the types say.                                                     *)

\* A reference names what its kind says.
LEMMA LinkIs ==
  ASSUME NEW l \in Links
  PROVE  /\ l.kind = "none" <=> l = Nothing
         /\ l.kind = "process" => l.id \in Processes /\ l = Ref("process", l.id)
         /\ l.kind = "task" => l.id \in Slots /\ l = Ref("task", l.id)
         /\ l.kind = "join" => l.id \in Joins /\ l = Ref("join", l.id)
         /\ l.kind \in {"none", "process", "task", "join"}
BY DEF Links, Nothing, Ref

LEMMA AwaitIs ==
  ASSUME NEW a \in Awaits
  PROVE  /\ a.kind = "none" <=> a = Nothing
         /\ a.kind = "trigger" => a = Ref("trigger", None)
         /\ a.kind = "process" => a.id \in Processes /\ a = Ref("process", a.id)
         /\ a.kind \in {"join", "starting", "timeout"} =>
              a.id \in Joins /\ a = Ref(a.kind, a.id)
         /\ a.kind \in {"none", "trigger", "process", "join", "starting", "timeout"}
BY DEF Awaits, Nothing, Ref

LEMMA RefIs ==
  /\ \A k, x, l, y : Ref(k, x) = Ref(l, y) <=> k = l /\ x = y
  /\ \A k, x : Ref(k, x).kind = k /\ Ref(k, x).id = x
  /\ Nothing.kind = "none"
  /\ \A s \in Slots : Ref("task", s) \in Links
  /\ \A p \in Processes : Ref("process", p) \in Links /\ Ref("process", p) \in Awaits
  /\ \A j \in Joins : /\ Ref("join", j) \in Links
                      /\ \A k \in {"join", "starting", "timeout"} : Ref(k, j) \in Awaits
  /\ Ref("trigger", None) \in Awaits
  /\ Nothing \in Links /\ Nothing \in Awaits
<1>1. /\ \A k, x, l, y : Ref(k, x) = Ref(l, y) <=> k = l /\ x = y
      /\ \A k, x : Ref(k, x).kind = k /\ Ref(k, x).id = x
      /\ Nothing.kind = "none"
  BY DEF Ref, Nothing
<1>2. Nothing \in Links /\ Nothing \in Awaits /\ Ref("trigger", None) \in Awaits
  BY DEF Links, Awaits
<1>3. ASSUME NEW s \in Slots PROVE Ref("task", s) \in Links
  BY DEF Links
<1>4. ASSUME NEW p \in Processes PROVE Ref("process", p) \in Links /\ Ref("process", p) \in Awaits
  BY DEF Links, Awaits
<1>5. ASSUME NEW j \in Joins PROVE Ref("join", j) \in Links
  BY DEF Links
<1>6. ASSUME NEW j \in Joins, NEW k \in {"join", "starting", "timeout"} PROVE Ref(k, j) \in Awaits
  BY DEF Awaits
<1> QED
  BY <1>1, <1>2, <1>3, <1>4, <1>5, <1>6

\* The ProcessControls, field by field.
ControlTypeOK(ctl) ==
  /\ ctl = [p \in Processes |-> ctl[p]]
  /\ \A p \in Processes : \E W \in SUBSET Slots : ctl[p] \in ControlsOf(W)

LEMMA ControlIs ==
  ASSUME NEW W \in SUBSET Slots, NEW c \in ControlsOf(W)
  PROVE  /\ c.spawned \in BOOLEAN /\ c.done \in BOOLEAN /\ c.cancelled \in BOOLEAN
         /\ c.requested \in BOOLEAN /\ c.threw \in BOOLEAN
         /\ c.waiters \in [W -> SUBSET Slots]
         /\ Waiters(c.waiters) = W
         /\ c.waiters \in ListsOver(Slots)
BY DEF ControlsOf, Waiters, ListsOver

LEMMA ControlWith ==
  ASSUME NEW W \in SUBSET Slots, NEW c \in ControlsOf(W), NEW w \in ListsOver(Slots)
  PROVE  /\ Waiters(w) \in SUBSET Slots
         /\ [c EXCEPT !.waiters = w] \in ControlsOf(Waiters(w))
<1>1. PICK V \in SUBSET Slots : w \in [V -> SUBSET Slots]
  BY DEF ListsOver
<1>2. Waiters(w) = V /\ w \in [Waiters(w) -> SUBSET Slots]
  BY <1>1 DEF Waiters
<1> QED
  BY <1>1, <1>2 DEF ControlsOf

\* The record of a process that has completed: nobody is registered any more.
EndsAs(c, d) ==
  d \in ControlsOf({}) /\ d.spawned = c.spawned /\ d.done /\ d.waiters = EmptyList

LEMMA EndsAsFacts ==
  ASSUME NEW W \in SUBSET Slots, NEW c \in ControlsOf(W), NEW b \in BOOLEAN, NEW x \in BOOLEAN
  PROVE  EndsAs(c, [c EXCEPT !.done = TRUE, !.cancelled = b, !.requested = FALSE, !.threw = x,
                             !.waiters = EmptyList])
<1>1. EmptyList \in [{} -> SUBSET Slots]
  BY DEF EmptyList
<1> QED
  BY <1>1 DEF ControlsOf, EndsAs

\* complete_process: the others' records are untouched.
CompletesIn(ctl, c, p) ==
  /\ ControlTypeOK(c)
  /\ \A q \in Processes \ {p} : c[q] = ctl[q]
  /\ c[p].spawned = ctl[p].spawned /\ c[p].done /\ c[p].waiters = EmptyList

LEMMA CompleteFacts ==
  ASSUME NEW ctl, ControlTypeOK(ctl), NEW p \in Processes, NEW d, EndsAs(ctl[p], d)
  PROVE  CompletesIn(ctl, [ctl EXCEPT ![p] = d], p)
<1> DEFINE c == [ctl EXCEPT ![p] = d]
<1>1. ctl = [q \in Processes |-> ctl[q]]
  BY DEF ControlTypeOK
<1>2. /\ c = [q \in Processes |-> c[q]] /\ c[p] = d
      /\ \A q \in Processes \ {p} : c[q] = ctl[q]
  BY <1>1
<1>3. d \in ControlsOf({}) /\ d.spawned = ctl[p].spawned /\ d.done /\ d.waiters = EmptyList
  BY DEF EndsAs
<1> HIDE DEF c
<1>4. ControlTypeOK(c)
  BY <1>2, <1>3 DEF ControlTypeOK
<1>5. CompletesIn(ctl, c, p)
  BY <1>2, <1>3, <1>4 DEF CompletesIn
<1> QED
  BY <1>5 DEF c

-----------------------------------------------------------------------------
(* The descendants of a coroutine.                                         *)

\* cancel_state reaches s, all children of what it reaches, and nobody else: who
\* is reached and is not s is the child of one that is.
LEMMA CancelSetFacts ==
  ASSUME NEW s \in Slots
  PROVE  /\ CancelSet(s) \subseteq Slots
         /\ s \in CancelSet(s)
         /\ \A t \in CancelSet(s) : ChildrenOf(t) \subseteq CancelSet(s)
         /\ \A t \in CancelSet(s) \ {s} : \E u \in CancelSet(s) : t \in ChildrenOf(u)
         /\ \A t \in CancelSet(s) \ {s} : Live(t)
<1>1. CancelSet(s) \subseteq Slots /\ s \in CancelSet(s)
  BY DEF CancelSet
<1>2. ASSUME NEW t \in CancelSet(s), NEW u \in ChildrenOf(t)
      PROVE  u \in CancelSet(s)
  <2>1. u \in Slots
    BY <1>2 DEF ChildrenOf
  <2>2. ASSUME NEW D \in SUBSET Slots, s \in D, ClosedBelow(D)
        PROVE  u \in D
    <3>1. t \in D
      BY <1>2, <2>2 DEF CancelSet
    <3> QED
      BY <2>2, <3>1 DEF ClosedBelow
  <2> QED
    BY <2>1, <2>2 DEF CancelSet
<1>3. ASSUME NEW t \in CancelSet(s) \ {s}
      PROVE  \E u \in CancelSet(s) : t \in ChildrenOf(u)
  <2> SUFFICES ASSUME \A u \in CancelSet(s) : t \notin ChildrenOf(u)
               PROVE  FALSE
    OBVIOUS
  <2> DEFINE D == CancelSet(s) \ {t}
  <2>1. D \in SUBSET Slots /\ s \in D
    BY <1>1
  <2>2. ClosedBelow(D)
    BY <1>2 DEF ClosedBelow
  <2>3. t \in D
    BY <2>1, <2>2 DEF CancelSet
  <2> QED
    BY <2>3
<1>4. \A t \in CancelSet(s) \ {s} : Live(t)
  BY <1>3 DEF ChildrenOf
<1> QED
  BY <1>1, <1>2, <1>3, <1>4

-----------------------------------------------------------------------------
(* What the steps have in common.                                          *)

\* A step after which nobody has a new child keeps the families finite trees.
LEMMA RootedShrinks ==
  ASSUME Rooted, \A s \in Slots : ChildrenOf(s)' \subseteq ChildrenOf(s)
  PROVE  Rooted'
BY DEF Rooted

\* A step that adds the coroutines in N below the others keeps them too.
LEMMA RootedGrows ==
  ASSUME Rooted, NEW N \in SUBSET Slots,
         \A x \in Slots, r \in Slots \ N :
           r \in ChildrenOf(x)' => r \in ChildrenOf(x) /\ x \notin N,
         \A D \in SUBSET N : D # {} => \E t \in D : \A s \in D : t \notin ChildrenOf(s)'
  PROVE  Rooted'
<1> SUFFICES ASSUME NEW D \in SUBSET Slots, D # {}
             PROVE  \E t \in D : \A s \in D : t \notin ChildrenOf(s)'
  BY DEF Rooted
<1>1. CASE D \subseteq N
  BY <1>1
<1>2. CASE ~(D \subseteq N)
  <2>1. PICK t \in D \ N : \A s \in D \ N : t \notin ChildrenOf(s)
    BY <1>2 DEF Rooted
  <2> QED
    BY <2>1
<1> QED
  BY <1>1, <1>2

\* What a step that leaves the coroutines and their JoinStates alone keeps.
LEMMA FramesKept ==
  ASSUME UNCHANGED <<frameVars, join, thrown>>,
         FramesFit, NoOrphans, Calls, Rooted, JoinBooks
  PROVE  FramesFit' /\ NoOrphans' /\ Calls' /\ Rooted' /\ JoinBooks'
<1> USE DEF frameVars
<1>1. FramesFit' /\ NoOrphans' /\ Calls'
  BY DEF FramesFit, NoOrphans, Calls, Free, Live
<1>2. Rooted'
  BY DEF Rooted, ChildrenOf, Live
<1>3. JoinBooks'
  BY DEF JoinBooks, JoinCounts, FirstKept, LiveChildren, Live, HasSize
<1> QED
  BY <1>1, <1>2, <1>3

\* What the entries of the queues and of stack are.
LEMMA EntryTypes ==
  ASSUME TypeOK
  PROVE  /\ \A i \in DOMAIN pending : pending[i] \in Processes
         /\ \A i \in DOMAIN ready : ready[i] \in Slots
         /\ \A i \in DOMAIN stack : stack[i] \in Activations /\ stack[i].slot \in Slots
<1>1. pending \in Seq(Processes) /\ ready \in Seq(Slots) /\ stack \in Seq(Activations)
  BY DEF TypeOK
<1>2. \A i \in DOMAIN stack : stack[i] \in Activations
  BY <1>1
<1> QED
  BY <1>1, <1>2 DEF Activations

\* What is known of stack while a coroutine runs.
LEMMA StackFacts ==
  ASSUME TypeOK, Activity, pc \in {"run", "return"}
  PROVE  /\ stack \in Seq(Activations)
         /\ Len(stack) \in Nat /\ Len(stack) > 0
         /\ DOMAIN stack = 1..Len(stack)
         /\ \A i \in 1..Len(stack) :
              stack[i] \in Activations /\ stack[i].slot \in Slots
                /\ stack[i].by \in {"drain", "inline", "timeout"}
         /\ Top.slot \in Slots
<1>1. stack \in Seq(Activations) /\ stack # <<>>
  BY DEF TypeOK, Activity
<1>2. Len(stack) \in Nat /\ Len(stack) > 0 /\ DOMAIN stack = 1..Len(stack)
  BY <1>1
<1>3. \A i \in 1..Len(stack) : stack[i] \in Activations
  BY <1>1, <1>2
<1> QED
  BY <1>1, <1>2, <1>3 DEF Activations, Top

-----------------------------------------------------------------------------
(* Activations that end.                                                   *)

LEMMA ReturnDrainStep ==
  ASSUME IInv, ReturnDrain
  PROVE  IInv'
<1> USE DEF IInv, ReturnDrain
<1>1. FramesFit' /\ NoOrphans' /\ Calls' /\ Rooted' /\ JoinBooks'
  BY FramesKept
<1>2. TypeOK'
  BY DEF TypeOK, frameVars
<1>3. ProcessBooks' /\ NoneStranded' /\ NoneLost'
  BY DEF ProcessBooks, NoneStranded, NoneLost, frameVars, Live
<1>4. Len(stack) = 1
  <2>1. DOMAIN stack = 1..Len(stack) /\ Len(stack) \in Nat /\ Len(stack) > 0
    BY StackFacts
  <2>2. Len(stack) \in DOMAIN stack /\ stack[Len(stack)].by = "drain"
    BY <2>1 DEF Top
  <2> QED
    BY <2>2 DEF Activity
<1>5. Activity'
  BY <1>4 DEF Activity, TypeOK, frameVars
<1> QED
  BY <1>1, <1>2, <1>3, <1>5

LEMMA StartDrainStep ==
  ASSUME IInv, StartDrain
  PROVE  IInv'
<1> USE DEF IInv, StartDrain
<1>1. FramesFit' /\ NoOrphans' /\ Calls' /\ Rooted' /\ JoinBooks'
  BY FramesKept
<1>2. TypeOK'
  BY DEF TypeOK, frameVars
<1>3. ProcessBooks' /\ NoneStranded' /\ NoneLost'
  BY DEF ProcessBooks, NoneStranded, NoneLost, frameVars, Live
<1>4. Activity'
  BY DEF Activity, frameVars, Top
<1> QED
  BY <1>1, <1>2, <1>3, <1>4

LEMMA CancelStep ==
  ASSUME IInv, NEW p \in Processes, Cancel(p)
  PROVE  IInv'
<1> USE DEF IInv, Cancel
<1>1. FramesFit' /\ NoOrphans' /\ Calls' /\ Rooted' /\ JoinBooks'
  BY FramesKept
<1>2. TypeOK'
  <2>1. ControlTypeOK(control)'
    <3>1. PICK W \in SUBSET Slots : control[p] \in ControlsOf(W)
      BY DEF TypeOK
    <3>2. control[p].requested \in BOOLEAN /\ [control[p] EXCEPT !.requested = TRUE] \in ControlsOf(W)
      BY <3>1 DEF ControlsOf
    <3> QED
      BY <3>1, <3>2 DEF TypeOK, ControlTypeOK
  <2>2. pending' \in Seq(Processes)
    BY SeqType DEF TypeOK
  <2>3. UNCHANGED <<status, link, awaits, join, thrown, ready, roots, finished, stack, pc>>
    BY DEF frameVars
  <2> QED
    BY <2>1, <2>2, <2>3 DEF TypeOK, ControlTypeOK
<1>3. \A q \in Processes : /\ control'[q].spawned = control[q].spawned
                           /\ control'[q].done = control[q].done
                           /\ control'[q].waiters = control[q].waiters
  <2>1. control = [q \in Processes |-> control[q]]
    BY DEF TypeOK
  <2>2. PICK W \in SUBSET Slots : control[p] \in ControlsOf(W)
    BY DEF TypeOK
  <2>3. /\ [control[p] EXCEPT !.requested = TRUE].spawned = control[p].spawned
        /\ [control[p] EXCEPT !.requested = TRUE].done = control[p].done
        /\ [control[p] EXCEPT !.requested = TRUE].waiters = control[p].waiters
    BY <2>2 DEF ControlsOf
  <2> QED
    BY <2>1, <2>3
<1>4. ProcessBooks' /\ NoneStranded' /\ NoneLost'
  BY <1>3 DEF ProcessBooks, NoneStranded, NoneLost, frameVars, Live
<1>5. Activity'
  BY DEF Activity, frameVars, Top
<1> QED
  BY <1>1, <1>2, <1>4, <1>5

\* A step that ends no coroutine and starts none leaves the families alone.
LEMMA SameFamilies ==
  ASSUME Rooted, UNCHANGED join,
         \A t \in Slots : (Live(t)' <=> Live(t)) /\ (Live(t) => link'[t] = link[t])
  PROVE  /\ Rooted'
         /\ \A j \in Joins : LiveChildren(j)' = LiveChildren(j)
<1>1. \A s \in Slots : ChildrenOf(s)' = ChildrenOf(s)
  BY DEF ChildrenOf
<1> QED
  BY <1>1, RootedShrinks DEF LiveChildren

\* A step that touches neither a JoinState that is awaited nor a child of it, or
\* that keeps its books.
LEMMA JoinBooksKept ==
  ASSUME TypeOK, JoinBooks,
         \A j \in Joins : FirstKept(j)' \/ (join'[j] = join[j] /\ thrown'[j] = thrown[j]),
         \A s \in Slots : awaits'[s].kind \in {"join", "starting", "timeout"} =>
           \/ \E j \in Joins : j = awaits'[s].id /\ JoinCounts(s, j)'
           \/ /\ awaits[s].kind \in {"join", "starting", "timeout"}
              /\ awaits'[s].id = awaits[s].id
              /\ awaits'[s].kind = "join" <=> awaits[s].kind = "join"
              /\ \/ status'[s] = status[s]
                 \/ awaits[s].kind # "join" /\ status'[s] # "waiting"
              /\ \A j \in Joins : j = awaits[s].id =>
                   /\ join'[j] = join[j] /\ thrown'[j] = thrown[j]
                   /\ LiveChildren(j)' = LiveChildren(j)
                   /\ \A t \in Slots : link'[t] = Ref("join", j) <=> link[t] = Ref("join", j)
  PROVE  JoinBooks'
<1>1. ASSUME NEW s \in Slots, awaits'[s].kind \in {"join", "starting", "timeout"}
      PROVE  JoinCounts(s, awaits[s].id)'
  <2>1. CASE \E j \in Joins : j = awaits'[s].id /\ JoinCounts(s, j)'
    <3>1. PICK j \in Joins : j = awaits'[s].id /\ JoinCounts(s, j)'
      BY <2>1
    <3> QED
      BY <3>1 DEF JoinCounts
  <2>2. CASE ~\E j \in Joins : j = awaits'[s].id /\ JoinCounts(s, j)'
    <3>1. /\ awaits[s].kind \in {"join", "starting", "timeout"}
          /\ awaits'[s].id = awaits[s].id
          /\ awaits'[s].kind = "join" <=> awaits[s].kind = "join"
          /\ \/ status'[s] = status[s]
             \/ awaits[s].kind # "join" /\ status'[s] # "waiting"
      BY <1>1, <2>2
    <3>2. awaits[s].id \in Joins
      BY <3>1, AwaitIs DEF TypeOK
    <3>3. PICK j \in Joins : j = awaits[s].id /\ j = awaits'[s].id
      BY <3>1, <3>2
    <3>4. /\ join'[j] = join[j] /\ thrown'[j] = thrown[j]
          /\ LiveChildren(j)' = LiveChildren(j)
          /\ \A t \in Slots : link'[t] = Ref("join", j) <=> link[t] = Ref("join", j)
      BY <1>1, <2>2, <3>3
    <3>5. JoinCounts(s, j)
      BY <3>1, <3>3 DEF JoinBooks
    <3>6. JoinCounts(s, j)'
      BY <3>1, <3>4, <3>5 DEF JoinCounts, HasSize
    <3> QED
      BY <3>3, <3>6 DEF JoinCounts
  <2> QED
    BY <2>1, <2>2
<1>2. \A j \in Joins : FirstKept(j)'
  BY DEF JoinBooks, FirstKept
<1> QED
  BY <1>1, <1>2 DEF JoinBooks

LEMMA WaitersAreSlots ==
  ASSUME TypeOK
  PROVE  /\ \A p \in Processes : Waiters(control[p].waiters) \subseteq Slots
         /\ \A p \in Processes : control[p].waiters \in ListsOver(Slots)
<1> SUFFICES ASSUME NEW p \in Processes
             PROVE  Waiters(control[p].waiters) \subseteq Slots /\ control[p].waiters \in ListsOver(Slots)
  OBVIOUS
<1>1. PICK W \in SUBSET Slots : control[p] \in ControlsOf(W)
  BY DEF TypeOK
<1> QED
  BY <1>1, ControlIs

\* A step in which no process completes and nobody begins or ceases to wait for
\* one keeps the books of the processes.
LEMMA ProcessBooksKept ==
  ASSUME TypeOK, ProcessBooks, NoneStranded, UNCHANGED control,
         \A s \in Slots :
           /\ link'[s].kind = "process" => link'[s] = link[s] /\ (Live(s)' <=> Live(s))
           /\ link[s].kind = "process" /\ Live(s) => link'[s] = link[s]
           /\ status[s] = "waiting" /\ awaits[s].kind = "process" =>
                status'[s] = "waiting" /\ awaits'[s] = awaits[s]
           /\ status'[s] = "waiting" /\ awaits'[s].kind = "process" =>
                status[s] = "waiting" /\ awaits'[s] = awaits[s],
         \A i \in DOMAIN pending' : \E k \in DOMAIN pending : pending'[i] = pending[k],
         \A s \in roots' : link'[s].kind = "process"
  PROVE  ProcessBooks' /\ NoneStranded'
<1>1. \A s \in Slots : link'[s].kind = "process" =>
        control'[link'[s].id].spawned /\ (Live(s)' <=> ~control'[link'[s].id].done)
  BY DEF ProcessBooks
<1>2. \A s, t \in Slots : link'[s].kind = "process" /\ link'[s] = link'[t] => s = t
  BY DEF ProcessBooks
<1>3. ASSUME NEW p \in Processes, control'[p].spawned, ~control'[p].done
      PROVE  \E s \in Slots : link'[s] = Ref("process", p)
  <2>1. PICK s \in Slots : link[s] = Ref("process", p)
    BY <1>3 DEF ProcessBooks
  <2>2. link[s].kind = "process" /\ link[s].id = p
    BY <2>1, RefIs
  <2>3. Live(s)
    BY <1>3, <2>2 DEF ProcessBooks
  <2> QED
    BY <2>1, <2>2, <2>3
<1>4. /\ \A i \in DOMAIN pending' : control'[pending'[i]].spawned
      /\ \A p \in Processes : control'[p].done => control'[p].spawned
  BY DEF ProcessBooks
<1>5. ASSUME NEW p \in Processes
      PROVE  /\ IsWaitList(control'[p].waiters)
             /\ \A s \in Waiters(control'[p].waiters) :
                  status'[s] = "waiting" /\ awaits'[s] = Ref("process", p)
  <2>1. Waiters(control[p].waiters) \subseteq Slots
    BY WaitersAreSlots
  <2>2. IsWaitList(control[p].waiters)
    BY DEF ProcessBooks
  <2>3. \A s \in Waiters(control[p].waiters) :
          status[s] = "waiting" /\ awaits[s] = Ref("process", p)
    BY DEF ProcessBooks
  <2> QED
    BY <2>1, <2>2, <2>3, RefIs
<1>6. ProcessBooks'
  BY <1>1, <1>2, <1>3, <1>4, <1>5 DEF ProcessBooks
<1>7. NoneStranded'
  BY DEF NoneStranded
<1> QED
  BY <1>6, <1>7

LEMMA ReturnTimeoutStep ==
  ASSUME IInv, ReturnTimeout
  PROVE  IInv'
<1> USE DEF IInv
<1> DEFINE n == Len(stack)
           s == stack[n - 1].slot
<1>1. /\ pc = "return" /\ Top.by = "timeout"
      /\ awaits' = [awaits EXCEPT ![s] = Ref("timeout", awaits[s].id)]
      /\ stack' = SubSeq(stack, 1, n - 1)
      /\ UNCHANGED <<status, link, control, join, thrown, ready, pending, roots, finished, pc>>
  BY DEF ReturnTimeout
<1>2. /\ stack \in Seq(Activations) /\ n \in Nat /\ n > 0 /\ DOMAIN stack = 1..n
      /\ \A i \in 1..n : stack[i] \in Activations /\ stack[i].slot \in Slots
  BY <1>1, StackFacts
<1>3. n > 1
  <2>1. stack[n].by = "timeout" /\ n \in DOMAIN stack
    BY <1>1, <1>2 DEF Top
  <2> QED
    BY <1>2, <2>1 DEF Activity
<1>4. s \in Slots /\ awaits[s].kind = "starting"
  <2>1. n - 1 \in DOMAIN stack /\ n - 1 < n /\ stack[n - 1 + 1].by # "inline"
    BY <1>1, <1>2, <1>3 DEF Top
  <2> QED
    BY <1>2, <2>1 DEF Activity
<1>5. /\ awaits \in [Slots -> Awaits]
      /\ awaits[s].id \in Joins /\ awaits[s] = Ref("starting", awaits[s].id)
  BY <1>4, AwaitIs DEF TypeOK
<1>6. /\ awaits' \in [Slots -> Awaits]
      /\ awaits'[s].kind = "timeout" /\ awaits'[s].id = awaits[s].id
      /\ awaits'[s] = Ref("timeout", awaits[s].id)
      /\ \A t \in Slots \ {s} : awaits'[t] = awaits[t]
  BY <1>1, <1>4, <1>5, RefIs
<1>7. /\ stack' \in Seq(Activations) /\ Len(stack') = n - 1 /\ DOMAIN stack' = 1..(n - 1)
      /\ \A i \in 1..(n - 1) : stack'[i] = stack[i]
  BY <1>1, <1>2, <1>3
<1>8. /\ Rooted'
      /\ \A j \in Joins : LiveChildren(j)' = LiveChildren(j)
  BY <1>1, SameFamilies DEF Live
<1>9. TypeOK'
  BY <1>1, <1>6, <1>7 DEF TypeOK
<1>10. FramesFit'
  BY <1>1, <1>4, <1>5, <1>6, RefIs DEF FramesFit, Live, Free
<1>11. NoOrphans'
  BY <1>1, <1>4, <1>5, <1>6, RefIs DEF NoOrphans, Live
<1>12. Calls'
  BY <1>1 DEF Calls, Live
<1>13. ProcessBooks' /\ NoneStranded' /\ NoneLost'
  <2>1. \A t \in Slots : \/ awaits'[t] = awaits[t]
                         \/ awaits'[t].kind # "process" /\ awaits[t].kind # "process"
    BY <1>4, <1>6
  <2>2. \A t \in roots : link[t].kind = "process"
    BY DEF ProcessBooks
  <2>3. ProcessBooks' /\ NoneStranded'
    BY <1>1, <2>1, <2>2, ProcessBooksKept DEF Live
  <2> QED
    BY <1>1, <2>3 DEF NoneLost
<1>14. JoinBooks'
  <2>1. \A t \in Slots : awaits'[t].kind \in {"join", "starting", "timeout"} =>
          /\ awaits[t].kind \in {"join", "starting", "timeout"}
          /\ awaits'[t].id = awaits[t].id
          /\ awaits'[t].kind = "join" <=> awaits[t].kind = "join"
    BY <1>4, <1>6
  <2> QED
    BY <1>1, <1>8, <2>1, JoinBooksKept
<1>15. Activity'
  <2>1. ASSUME NEW i \in 1..(n - 2)
        PROVE  stack[i].slot # s
    <3>1. i \in DOMAIN stack /\ n - 1 \in DOMAIN stack /\ i < n - 1 /\ n - 1 < Len(stack)
      BY <1>2, <1>3
    <3> QED
      BY <3>1 DEF Activity
  <2>2. \A i \in DOMAIN stack' :
          /\ stack'[i].by = "drain" <=> i = 1
          /\ stack'[i].by = "inline" => stack'[i].id \in Processes
          /\ i < Len(stack') => IF stack'[i + 1].by = "inline"
                               THEN status'[stack'[i].slot] = "running"
                               ELSE awaits'[stack'[i].slot].kind = "starting"
    BY <1>1, <1>2, <1>3, <1>6, <1>7, <2>1 DEF Activity
  <2>3. \A i, k \in DOMAIN stack' : i < k /\ k < Len(stack') => stack'[i].slot # stack'[k].slot
    BY <1>2, <1>3, <1>7 DEF Activity
  <2>4. \A t \in Slots : awaits'[t].kind = "starting" =>
          \E i \in DOMAIN stack' : i < Len(stack') /\ stack'[i].slot = t
    <3> SUFFICES ASSUME NEW t \in Slots, awaits'[t].kind = "starting"
                 PROVE  \E i \in DOMAIN stack' : i < Len(stack') /\ stack'[i].slot = t
      OBVIOUS
    <3>1. t # s /\ awaits[t].kind = "starting"
      BY <1>6
    <3>2. PICK i \in 1..n : i < n /\ stack[i].slot = t
      BY <1>2, <3>1 DEF Activity
    <3>3. i < n - 1
      BY <1>2, <1>3, <3>1, <3>2
    <3> QED
      BY <1>2, <1>3, <1>7, <3>2, <3>3
  <2>5. stack' # <<>> /\ pc' = "return"
    <3>1. Len(stack') # 0
      BY <1>2, <1>3, <1>7
    <3> QED
      BY <1>1, <3>1
  <2> QED
    BY <2>2, <2>3, <2>4, <2>5 DEF Activity
<1> QED
  BY <1>8, <1>9, <1>10, <1>11, <1>12, <1>13, <1>14, <1>15

\* The parent of a coroutine, if it has one, awaits it.
HasParent(t) ==
  /\ link[t].kind = "task" => status[link[t].id] = "called"
  /\ link[t].kind = "join" =>
       LET s == join[link[t].id].parent
       IN /\ s \in Slots /\ Live(s)
          /\ awaits[s] \in {Ref(k, link[t].id) : k \in {"join", "starting", "timeout"}}

LEMMA ParentFacts ==
  ASSUME TypeOK, NoOrphans, NEW t \in Slots, Live(t)
  PROVE  /\ HasParent(t)
         /\ link[t].kind = "task" =>
              /\ link[t].id \in Slots /\ status[link[t].id] = "called"
              /\ Live(link[t].id) /\ t \in ChildrenOf(link[t].id)
         /\ link[t].kind = "join" =>
              /\ link[t].id \in Joins /\ join[link[t].id].parent \in Slots
              /\ Live(join[link[t].id].parent)
              /\ awaits[join[link[t].id].parent].kind \in {"join", "starting", "timeout"}
              /\ awaits[join[link[t].id].parent].id = link[t].id
              /\ t \in ChildrenOf(join[link[t].id].parent)
<1>1. HasParent(t)
  BY DEF NoOrphans, HasParent
<1>2. link[t] \in Links
  BY DEF TypeOK
<1>3. CASE link[t].kind = "task"
  <2>1. link[t].id \in Slots /\ link[t] = Ref("task", link[t].id)
    BY <1>2, <1>3, LinkIs
  <2>2. status[link[t].id] = "called"
    BY <1>1, <1>3 DEF HasParent
  <2> QED
    BY <1>1, <1>3, <2>1, <2>2 DEF ChildrenOf, Live
<1>4. CASE link[t].kind = "join"
  <2> DEFINE j == link[t].id
             s == join[j].parent
  <2>1. j \in Joins
    BY <1>2, <1>4, LinkIs
  <2>2. s \in Slots /\ Live(s) /\ awaits[s] \in {Ref(k, j) : k \in {"join", "starting", "timeout"}}
    BY <1>1, <1>4 DEF HasParent
  <2>3. awaits[s].kind \in {"join", "starting", "timeout"} /\ awaits[s].id = j
    BY <2>2, RefIs
  <2>4. t \in ChildrenOf(s)
    BY <1>4, <2>2 DEF ChildrenOf
  <2> QED
    BY <1>1, <1>4, <2>1, <2>2, <2>3, <2>4
<1> QED
  BY <1>1, <1>3, <1>4

\* A step that leaves every child the parent it has, or gives it one.
LEMMA NoOrphansKept ==
  ASSUME TypeOK, NoOrphans, awaits' \in [Slots -> Awaits],
         \A t \in Slots : Live(t)' =>
           \/ HasParent(t)'
           \/ /\ Live(t) /\ link'[t] = link[t]
              /\ link[t].kind = "join" => join'[link[t].id].parent = join[link[t].id].parent,
         \A s \in Slots :
           \/ \A t \in ChildrenOf(s) : ~Live(t)'
           \/ /\ status[s] = "called" => status'[s] = "called"
              /\ awaits[s].kind \in {"join", "starting", "timeout"} =>
                   /\ Live(s) => Live(s)'
                   /\ awaits'[s].kind \in {"join", "starting", "timeout"}
                   /\ awaits'[s].id = awaits[s].id
  PROVE  NoOrphans'
<1> SUFFICES ASSUME NEW t \in Slots, Live(t)', Live(t), link'[t] = link[t],
                    link[t].kind = "join" =>
                      join'[link[t].id].parent = join[link[t].id].parent
             PROVE  HasParent(t)'
  BY DEF NoOrphans, HasParent
<1>1. CASE link[t].kind = "task"
  <2>1. /\ link[t].id \in Slots /\ status[link[t].id] = "called"
        /\ t \in ChildrenOf(link[t].id)
    BY <1>1, ParentFacts
  <2> QED
    BY <1>1, <2>1 DEF HasParent
<1>2. CASE link[t].kind = "join"
  <2>0. link[t].id \in Joins /\ join[link[t].id].parent \in Slots
    BY <1>2, ParentFacts
  <2>9. PICK j \in Joins, s \in Slots : j = link[t].id /\ s = join[j].parent
    BY <2>0
  <2>1. /\ Live(s) /\ t \in ChildrenOf(s)
        /\ awaits[s].kind \in {"join", "starting", "timeout"} /\ awaits[s].id = j
    BY <1>2, <2>9, ParentFacts
  <2>2. Live(s)' /\ awaits'[s].kind \in {"join", "starting", "timeout"} /\ awaits'[s].id = j
    BY <2>1
  <2>3. awaits'[s] = Ref(awaits'[s].kind, j)
    <3>1. awaits'[s] \in Awaits
      BY <2>1
    <3> QED
      BY <2>2, <3>1, AwaitIs
  <2>4. awaits'[s] \in {Ref(k, j) : k \in {"join", "starting", "timeout"}}
    BY <2>2, <2>3
  <2>5. join'[j].parent = s
    BY <1>2, <2>9
  <2> QED
    BY <1>2, <2>1, <2>2, <2>4, <2>5, <2>9 DEF HasParent, Live
<1>3. CASE link[t].kind \notin {"task", "join"}
  BY <1>3 DEF HasParent
<1> QED
  BY <1>1, <1>2, <1>3

-----------------------------------------------------------------------------
(* The running coroutine suspends.                                         *)

\* The running coroutine is the one of the innermost activation.
LEMMA RunningFacts ==
  ASSUME TypeOK, FramesFit, Activity, NEW s \in Slots, Running(s)
  PROVE  /\ pc = "run" /\ s = Top.slot
         /\ status[s] = "running" /\ Live(s) /\ awaits[s] = Nothing /\ link[s] # Nothing
         /\ stack \in Seq(Activations) /\ Len(stack) \in Nat /\ Len(stack) > 0
         /\ DOMAIN stack = 1..Len(stack)
         /\ \A i \in 1..Len(stack) : stack[i] \in Activations /\ stack[i].slot \in Slots
         /\ stack[Len(stack)].slot = s
         /\ \A i \in 1..Len(stack) : i < Len(stack) => stack[i].slot # s
<1>1. pc = "run" /\ s = Top.slot
  BY DEF Running
<1>2. /\ stack \in Seq(Activations) /\ Len(stack) \in Nat /\ Len(stack) > 0
      /\ DOMAIN stack = 1..Len(stack)
      /\ \A i \in 1..Len(stack) : stack[i] \in Activations /\ stack[i].slot \in Slots
  BY <1>1, StackFacts
<1>3. status[s] = "running"
  BY <1>1 DEF Activity
<1>4. Live(s) /\ awaits[s] = Nothing /\ link[s] # Nothing
  BY <1>3 DEF FramesFit, Live
<1>5. stack[Len(stack)].slot = s
  BY <1>1 DEF Top
<1>6. ASSUME NEW i \in 1..Len(stack), i < Len(stack)
      PROVE  stack[i].slot # s
  <2>1. i \in DOMAIN stack /\ Len(stack) \in DOMAIN stack
    BY <1>2
  <2> QED
    BY <1>1, <1>5, <1>6, <2>1 DEF Activity
<1> QED
  BY <1>1, <1>2, <1>3, <1>4, <1>5, <1>6

\* It may suspend, finish or be cancelled: the activations around it stay.
LEMMA SuspendedKept ==
  ASSUME TypeOK, FramesFit, Activity, NEW s \in Slots, Running(s), Suspended,
         \A t \in Slots :
           /\ t # s /\ status[t] = "running" => status'[t] = "running"
           /\ awaits'[t].kind = "starting" <=> awaits[t].kind = "starting"
  PROVE  Activity'
<1>1. /\ pc = "run" /\ DOMAIN stack = 1..Len(stack) /\ Len(stack) \in Nat /\ Len(stack) > 0
      /\ \A i \in 1..Len(stack) : stack[i].slot \in Slots
      /\ \A i \in 1..Len(stack) : i < Len(stack) => stack[i].slot # s
  BY RunningFacts
<1>2. stack' = stack /\ pc' = "return" /\ stack # <<>>
  BY <1>1 DEF Suspended, Activity
<1>3. \A i \in DOMAIN stack :
        /\ stack[i].by = "drain" <=> i = 1
        /\ stack[i].by = "inline" => stack[i].id \in Processes
        /\ i < Len(stack) => IF stack[i + 1].by = "inline"
                             THEN status'[stack[i].slot] = "running"
                             ELSE awaits'[stack[i].slot].kind = "starting"
  BY <1>1 DEF Activity
<1>4. \A i, k \in DOMAIN stack : i < k /\ k < Len(stack) => stack[i].slot # stack[k].slot
  BY DEF Activity
<1>5. \A t \in Slots : awaits'[t].kind = "starting" =>
        \E i \in DOMAIN stack : i < Len(stack) /\ stack[i].slot = t
  BY DEF Activity
<1> QED
  BY <1>2, <1>3, <1>4, <1>5 DEF Activity

LEMMA AwaitTriggerStep ==
  ASSUME IInv, NEW s \in Slots, AwaitTrigger(s)
  PROVE  IInv'
<1> USE DEF IInv
<1>1. /\ Running(s) /\ Suspended
      /\ status' = [status EXCEPT ![s] = "waiting"]
      /\ awaits' = [awaits EXCEPT ![s] = Ref("trigger", None)]
      /\ UNCHANGED <<link, control, join, thrown, ready, pending, roots, finished>>
  BY DEF AwaitTrigger
<1>2. status[s] = "running" /\ awaits[s] = Nothing /\ link[s] # Nothing
  BY <1>1, RunningFacts
<1>3. status \in [Slots -> Statuses] /\ awaits \in [Slots -> Awaits]
  BY DEF TypeOK
<1>4. /\ status' \in [Slots -> Statuses] /\ awaits' \in [Slots -> Awaits]
      /\ status'[s] = "waiting"
      /\ awaits'[s].kind = "trigger" /\ awaits'[s] # Nothing /\ awaits[s].kind = "none"
      /\ \A t \in Slots \ {s} : status'[t] = status[t] /\ awaits'[t] = awaits[t]
  BY <1>1, <1>2, <1>3, RefIs DEF Statuses
<1>5. \A t \in Slots : Live(t)' <=> Live(t)
  BY <1>2, <1>4 DEF Live
<1>6. Rooted' /\ \A j \in Joins : LiveChildren(j)' = LiveChildren(j)
  BY <1>1, <1>5, SameFamilies
<1>7. TypeOK'
  BY <1>1, <1>4 DEF TypeOK, Suspended
<1>8. FramesFit'
  BY <1>1, <1>2, <1>4, <1>5 DEF FramesFit, Free
<1>9. NoOrphans'
  <2>1. \A t \in Slots : Live(t)' => Live(t) /\ link'[t] = link[t] /\ join' = join
    BY <1>1, <1>5
  <2>2. awaits[s].kind \notin {"join", "starting", "timeout"} /\ status[s] # "called"
    BY <1>2, <1>4
  <2> QED
    BY <1>4, <1>5, <2>1, <2>2, NoOrphansKept
<1>10. Calls'
  BY <1>1, <1>4, <1>5 DEF Calls
<1>11. ProcessBooks' /\ NoneStranded'
  <2>1. \A t \in roots : link[t].kind = "process"
    BY DEF ProcessBooks
  <2> QED
    BY <1>1, <1>2, <1>4, <1>5, <2>1, ProcessBooksKept
<1>12. NoneLost'
  BY <1>1, <1>4 DEF NoneLost
<1>13. JoinBooks'
  BY <1>1, <1>2, <1>4, <1>6, JoinBooksKept
<1>14. Activity'
  BY <1>1, <1>4, SuspendedKept
<1> QED
  BY <1>6, <1>7, <1>8, <1>9, <1>10, <1>11, <1>12, <1>13, <1>14

LEMMA FireStep ==
  ASSUME IInv, NEW s \in Slots, Fire(s)
  PROVE  IInv'
<1> USE DEF IInv
<1>1. /\ status[s] = "waiting" /\ awaits[s].kind \in {"trigger", "timeout"}
      /\ \/ pc \in {"idle", "fire"} /\ pc' = "fire"
         \/ pc = "run" /\ pc' = pc
      /\ status' = [status EXCEPT ![s] = "ready"]
      /\ ready' = Append(ready, s)
      /\ UNCHANGED <<link, awaits, control, join, thrown, pending, roots, finished, stack>>
  BY DEF Fire
<1>2. status \in [Slots -> Statuses] /\ ready \in Seq(Slots)
  BY DEF TypeOK
<1>3. /\ status' \in [Slots -> Statuses] /\ status'[s] = "ready"
      /\ \A t \in Slots \ {s} : status'[t] = status[t]
  BY <1>1, <1>2 DEF Statuses
<1>4. \A t \in Slots : Live(t)' <=> Live(t)
  BY <1>1, <1>3 DEF Live
<1>5. Rooted' /\ \A j \in Joins : LiveChildren(j)' = LiveChildren(j)
  BY <1>1, <1>4, SameFamilies
<1>6. TypeOK'
  <2>1. ready' \in Seq(Slots)
    BY <1>1, <1>2
  <2>2. pc' \in {"idle", "fire", "drain", "run", "return", "apply"}
    BY <1>1
  <2> QED
    BY <1>1, <1>3, <2>1, <2>2 DEF TypeOK
<1>7. FramesFit' /\ NoOrphans' /\ Calls'
  <2>1. FramesFit' /\ Calls'
    BY <1>1, <1>3, <1>4 DEF FramesFit, Free, Calls
  <2>2. awaits' \in [Slots -> Awaits]
    BY <1>1 DEF TypeOK
  <2>3. NoOrphans'
    BY <1>1, <1>3, <1>4, <2>2, NoOrphansKept
  <2> QED
    BY <2>1, <2>3
<1>8. ProcessBooks' /\ NoneStranded'
  <2>1. \A t \in roots : link[t].kind = "process"
    BY DEF ProcessBooks
  <2> QED
    BY <1>1, <1>3, <1>4, <2>1, ProcessBooksKept
<1>9. NoneLost'
  <2>1. /\ \A i \in DOMAIN ready : i \in DOMAIN ready' /\ ready'[i] = ready[i]
        /\ Len(ready) + 1 \in DOMAIN ready' /\ ready'[Len(ready) + 1] = s
    BY <1>1, <1>2
  <2> QED
    BY <1>3, <2>1 DEF NoneLost
<1>10. JoinBooks'
  BY <1>1, <1>3, <1>5, JoinBooksKept
<1>11. Activity'
  <2>1. CASE pc = "run"
    <3>1. /\ DOMAIN stack = 1..Len(stack) /\ Len(stack) \in Nat /\ Len(stack) > 0
          /\ \A i \in 1..Len(stack) : stack[i].slot \in Slots
      BY <2>1, StackFacts
    <3>2. status[Top.slot] = "running" /\ Top.slot \in Slots
      BY <2>1, <3>1 DEF Activity, Top
    <3>3. status'[Top.slot] = "running"
      BY <1>1, <1>3, <3>2
    <3>4. \A i \in DOMAIN stack : i < Len(stack) =>
            IF stack[i + 1].by = "inline" THEN status'[stack[i].slot] = "running"
                                          ELSE awaits'[stack[i].slot].kind = "starting"
      BY <1>1, <1>3, <3>1 DEF Activity
    <3> QED
      BY <1>1, <2>1, <3>3, <3>4 DEF Activity, Top
  <2>2. CASE pc # "run"
    BY <1>1, <2>2 DEF Activity
  <2> QED
    BY <2>1, <2>2
<1> QED
  BY <1>5, <1>6, <1>7, <1>8, <1>9, <1>10, <1>11

\* park_process: one more coroutine waits for the process p.
LEMMA ProcessBooksParked ==
  ASSUME TypeOK, ProcessBooks, NoneStranded, NEW s \in Slots, NEW p \in Processes,
         status[s] # "waiting", ~control[p].done,
         status'[s] = "waiting", awaits'[s] = Ref("process", p),
         control' = [control EXCEPT ![p].waiters = PushBack(@, s)],
         \A t \in Slots :
           /\ link'[t].kind = "process" => link'[t] = link[t] /\ (Live(t)' <=> Live(t))
           /\ link[t].kind = "process" /\ Live(t) => link'[t] = link[t],
         \A t \in Slots \ {s} :
           /\ status[t] = "waiting" /\ awaits[t].kind = "process" =>
                status'[t] = "waiting" /\ awaits'[t] = awaits[t]
           /\ status'[t] = "waiting" /\ awaits'[t].kind = "process" =>
                status[t] = "waiting" /\ awaits'[t] = awaits[t],
         \A i \in DOMAIN pending' : \E k \in DOMAIN pending : pending'[i] = pending[k],
         \A t \in roots' : link'[t].kind = "process"
  PROVE  ProcessBooks' /\ NoneStranded' /\ ControlTypeOK(control')
<1> DEFINE w == control[p].waiters
<1>1. /\ control = [q \in Processes |-> control[q]]
      /\ w \in ListsOver(Slots) /\ IsWaitList(w)
  BY WaitersAreSlots DEF TypeOK, ProcessBooks
<1>2. s \notin Waiters(w)
  BY DEF ProcessBooks
<1>3. /\ PushBack(w, s) \in ListsOver(Slots) /\ IsWaitList(PushBack(w, s))
      /\ Waiters(PushBack(w, s)) = Waiters(w) \cup {s}
  BY <1>1, <1>2, ListType, ListOrder
<1>4. PICK W \in SUBSET Slots : control[p] \in ControlsOf(W)
  BY DEF TypeOK
<1>5. /\ control'[p] \in ControlsOf(Waiters(PushBack(w, s)))
      /\ Waiters(PushBack(w, s)) \in SUBSET Slots
  <2>1. control'[p] = [control[p] EXCEPT !.waiters = PushBack(w, s)]
    BY <1>1
  <2> HIDE DEF w
  <2>2. \A v \in ListsOver(Slots) :
          /\ Waiters(v) \in SUBSET Slots
          /\ [control[p] EXCEPT !.waiters = v] \in ControlsOf(Waiters(v))
    BY <1>4, ControlWith
  <2> QED
    BY <1>3, <2>1, <2>2
<1>6. /\ control'[p].spawned = control[p].spawned /\ control'[p].done = control[p].done
      /\ control'[p].waiters = PushBack(w, s)
      /\ \A q \in Processes \ {p} : control'[q] = control[q]
      /\ control' = [q \in Processes |-> control'[q]]
  BY <1>1, <1>4 DEF ControlsOf
<1>7. ControlTypeOK(control')
  BY <1>5, <1>6 DEF ControlTypeOK, TypeOK
<1>8. \A q \in Processes : control'[q].spawned = control[q].spawned
                           /\ control'[q].done = control[q].done
  BY <1>6
<1>9. \A t \in Slots : link'[t].kind = "process" =>
        /\ link'[t].id \in Processes
        /\ control'[link'[t].id].spawned /\ (Live(t)' <=> ~control'[link'[t].id].done)
  BY <1>8, LinkIs DEF ProcessBooks, TypeOK
<1>10. \A t, u \in Slots : link'[t].kind = "process" /\ link'[t] = link'[u] => t = u
  BY DEF ProcessBooks
<1>11. ASSUME NEW q \in Processes, control'[q].spawned, ~control'[q].done
       PROVE  \E t \in Slots : link'[t] = Ref("process", q)
  <2>1. PICK t \in Slots : link[t] = Ref("process", q)
    BY <1>8, <1>11 DEF ProcessBooks
  <2>2. link[t].kind = "process" /\ link[t].id = q
    BY <2>1, RefIs
  <2>3. Live(t)
    BY <1>8, <1>11, <2>2 DEF ProcessBooks
  <2> QED
    BY <2>1, <2>2, <2>3
<1>12. ASSUME NEW i \in DOMAIN pending'
       PROVE  control'[pending'[i]].spawned
  <2>1. PICK k \in DOMAIN pending : pending'[i] = pending[k]
    OBVIOUS
  <2>2. pending[k] \in Processes
    BY <2>1 DEF TypeOK
  <2> QED
    BY <1>8, <2>1, <2>2 DEF ProcessBooks
<1>13. ASSUME NEW q \in Processes
       PROVE  /\ IsWaitList(control'[q].waiters)
              /\ \A t \in Waiters(control'[q].waiters) :
                   status'[t] = "waiting" /\ awaits'[t] = Ref("process", q)
  <2>1. /\ Waiters(control[q].waiters) \subseteq Slots /\ IsWaitList(control[q].waiters)
        /\ \A t \in Waiters(control[q].waiters) :
             status[t] = "waiting" /\ awaits[t] = Ref("process", q)
    BY WaitersAreSlots DEF ProcessBooks
  <2>2. \A t \in Waiters(control[q].waiters) :
          status'[t] = "waiting" /\ awaits'[t] = Ref("process", q)
    BY <2>1, RefIs
  <2>3. CASE q = p
    BY <1>3, <1>6, <2>2, <2>3
  <2>4. CASE q # p
    BY <1>6, <2>1, <2>2, <2>4
  <2> QED
    BY <2>3, <2>4
<1>14. ProcessBooks'
  <2>1. \A q \in Processes : control'[q].done => control'[q].spawned
    BY <1>8 DEF ProcessBooks
  <2> QED
    BY <1>9, <1>10, <1>11, <1>12, <1>13, <2>1 DEF ProcessBooks
<1>15. NoneStranded'
  <2> SUFFICES ASSUME NEW t \in Slots, status'[t] = "waiting", awaits'[t].kind = "process"
               PROVE  ~control'[awaits'[t].id].done /\ t \in Waiters(control'[awaits'[t].id].waiters)
    BY DEF NoneStranded
  <2>1. CASE t = s
    BY <1>3, <1>6, <2>1, RefIs
  <2>2. CASE t # s
    <3>1. status[t] = "waiting" /\ awaits'[t] = awaits[t] /\ awaits[t].kind = "process"
      BY <2>2
    <3>2. /\ ~control[awaits[t].id].done /\ t \in Waiters(control[awaits[t].id].waiters)
          /\ awaits[t].id \in Processes
      BY <3>1, AwaitIs DEF NoneStranded, TypeOK
    <3> QED
      BY <1>3, <1>6, <3>1, <3>2
  <2> QED
    BY <2>1, <2>2
<1> QED
  BY <1>7, <1>14, <1>15

LEMMA AwaitProcessStep ==
  ASSUME IInv, NEW s \in Slots, NEW p \in Processes, AwaitProcess(s, p)
  PROVE  IInv'
<1> USE DEF IInv
<1>1. /\ Running(s) /\ Suspended
      /\ ~control[p].done
      /\ status' = [status EXCEPT ![s] = "waiting"]
      /\ awaits' = [awaits EXCEPT ![s] = Ref("process", p)]
      /\ control' = [control EXCEPT ![p].waiters = PushBack(@, s)]
      /\ UNCHANGED <<link, join, thrown, ready, pending, roots, finished>>
  BY DEF AwaitProcess
<1>2. status[s] = "running" /\ awaits[s] = Nothing /\ link[s] # Nothing
  BY <1>1, RunningFacts
<1>3. status \in [Slots -> Statuses] /\ awaits \in [Slots -> Awaits]
  BY DEF TypeOK
<1>4. /\ status' \in [Slots -> Statuses] /\ awaits' \in [Slots -> Awaits]
      /\ status'[s] = "waiting" /\ awaits'[s] = Ref("process", p)
      /\ awaits'[s].kind = "process" /\ awaits'[s] # Nothing /\ awaits[s].kind = "none"
      /\ \A t \in Slots \ {s} : status'[t] = status[t] /\ awaits'[t] = awaits[t]
  BY <1>1, <1>2, <1>3, RefIs DEF Statuses
<1>5. \A t \in Slots : Live(t)' <=> Live(t)
  BY <1>2, <1>4 DEF Live
<1>6. Rooted' /\ \A j \in Joins : LiveChildren(j)' = LiveChildren(j)
  BY <1>1, <1>5, SameFamilies
<1>7. ProcessBooks' /\ NoneStranded' /\ ControlTypeOK(control')
  <2>1. \A t \in roots : link[t].kind = "process"
    BY DEF ProcessBooks
  <2> QED
    BY <1>1, <1>2, <1>4, <1>5, <2>1, ProcessBooksParked
<1>8. TypeOK'
  BY <1>1, <1>4, <1>7 DEF TypeOK, Suspended, ControlTypeOK
<1>9. FramesFit'
  BY <1>1, <1>2, <1>4, <1>5 DEF FramesFit, Free
<1>10. NoOrphans'
  <2>1. \A t \in Slots : Live(t)' => Live(t) /\ link'[t] = link[t] /\ join' = join
    BY <1>1, <1>5
  <2>2. awaits[s].kind \notin {"join", "starting", "timeout"} /\ status[s] # "called"
    BY <1>2, <1>4
  <2> QED
    BY <1>4, <1>5, <2>1, <2>2, NoOrphansKept
<1>11. Calls'
  BY <1>1, <1>4, <1>5 DEF Calls
<1>12. NoneLost'
  BY <1>1, <1>4 DEF NoneLost
<1>13. JoinBooks'
  BY <1>1, <1>2, <1>4, <1>6, JoinBooksKept
<1>14. Activity'
  BY <1>1, <1>4, SuspendedKept
<1> QED
  BY <1>6, <1>7, <1>8, <1>9, <1>10, <1>11, <1>12, <1>13, <1>14

-----------------------------------------------------------------------------
(* run_process_if_only_ready returns.                                      *)

LEMMA ReturnInlineStep ==
  ASSUME IInv, ReturnInline
  PROVE  IInv'
<1> USE DEF IInv
<1>1. PICK p, s : p = Top.id /\ s = stack[Len(stack) - 1].slot
  OBVIOUS
<1> DEFINE n == Len(stack)
           parked == ~control[p].done
           deferred == control[p].done /\ (control[p].threw \/ pending # <<>> \/ LiveReady # 0)
           S == {t \in roots : status[t] = "done"}
<1>2. /\ pc = "return" /\ Top.by = "inline"
      /\ Reclaim([status EXCEPT ![s] = IF parked THEN "waiting" ELSE IF deferred THEN "ready" ELSE @],
                 [awaits EXCEPT ![s] = IF parked THEN Ref("process", p) ELSE @], S)
      /\ roots' = {}
      /\ stack' = SubSeq(stack, 1, n - 1)
      /\ pc' = IF parked \/ deferred THEN "return" ELSE "run"
      /\ ready' = IF deferred THEN Append(ready, s) ELSE ready
      /\ control' = IF parked THEN [control EXCEPT ![p].waiters = PushBack(@, s)] ELSE control
      /\ UNCHANGED <<join, thrown, pending, finished>>
  BY <1>1 DEF ReturnInline
<1>3. /\ stack \in Seq(Activations) /\ n \in Nat /\ n > 0 /\ DOMAIN stack = 1..n
      /\ \A i \in 1..n : stack[i] \in Activations /\ stack[i].slot \in Slots
  BY <1>2, StackFacts
<1>4. n > 1 /\ p \in Processes
  <2>1. n \in DOMAIN stack /\ stack[n].by = "inline" /\ p = stack[n].id
    BY <1>1, <1>2, <1>3 DEF Top
  <2> QED
    BY <1>3, <2>1 DEF Activity
<1>5. s \in Slots /\ status[s] = "running" /\ awaits[s] = Nothing /\ link[s] # Nothing
  <2>1. n - 1 \in DOMAIN stack /\ n - 1 < Len(stack) /\ stack[n - 1 + 1].by = "inline"
    BY <1>2, <1>3, <1>4 DEF Top
  <2>2. s \in Slots /\ status[s] = "running"
    BY <1>1, <1>3, <2>1 DEF Activity
  <2> QED
    BY <2>2 DEF FramesFit, Live
<1>6. /\ status \in [Slots -> Statuses] /\ awaits \in [Slots -> Awaits]
      /\ link \in [Slots -> Links] /\ roots \subseteq Slots /\ ready \in Seq(Slots)
  BY DEF TypeOK
<1>7. S \subseteq Slots /\ s \notin S /\ \A t \in S : link[t].kind = "process"
  BY <1>5, <1>6 DEF ProcessBooks
<1>8. /\ status'[s] = IF parked THEN "waiting" ELSE IF deferred THEN "ready" ELSE "running"
      /\ awaits'[s] = IF parked THEN Ref("process", p) ELSE Nothing
      /\ link'[s] = link[s]
      /\ \A t \in S : status'[t] = "free" /\ link'[t] = Nothing /\ awaits'[t] = Nothing
      /\ \A t \in Slots \ S : t # s =>
           status'[t] = status[t] /\ awaits'[t] = awaits[t] /\ link'[t] = link[t]
  BY <1>2, <1>5, <1>6, <1>7 DEF Reclaim
<1>9. Ref("process", p) # Nothing /\ Ref("process", p).kind = "process"
      /\ Nothing.kind = "none" /\ Ref("process", p) \in Awaits /\ Nothing \in Awaits /\ Nothing \in Links
  BY <1>4, RefIs
<1> HIDE DEF S, parked, deferred
<1>10. /\ status' \in [Slots -> Statuses] /\ awaits' \in [Slots -> Awaits]
       /\ link' \in [Slots -> Links]
  <2>1. \A t \in Slots : status'[t] \in Statuses /\ awaits'[t] \in Awaits /\ link'[t] \in Links
    BY <1>5, <1>6, <1>7, <1>8, <1>9 DEF Statuses
  <2>2. /\ status' = [t \in Slots |-> status'[t]] /\ awaits' = [t \in Slots |-> awaits'[t]]
        /\ link' = [t \in Slots |-> link'[t]]
    BY <1>2 DEF Reclaim
  <2> QED
    BY <2>1, <2>2
<1>11. \A t \in Slots : (Live(t)' <=> Live(t)) /\ (Live(t) => link'[t] = link[t] /\ t \notin S)
  BY <1>5, <1>7, <1>8 DEF Live, S
<1>12. Rooted' /\ \A j \in Joins : LiveChildren(j)' = LiveChildren(j)
  BY <1>2, <1>11, SameFamilies
<1>13. /\ ControlTypeOK(control') /\ ProcessBooks' /\ NoneStranded'
  <2>1. \A t \in Slots :
           /\ link'[t].kind = "process" => link'[t] = link[t] /\ (Live(t)' <=> Live(t))
           /\ link[t].kind = "process" /\ Live(t) => link'[t] = link[t]
    BY <1>8, <1>9, <1>11
  <2>2. \A t \in Slots \ {s} :
           /\ status[t] = "waiting" /\ awaits[t].kind = "process" =>
                status'[t] = "waiting" /\ awaits'[t] = awaits[t]
           /\ status'[t] = "waiting" /\ awaits'[t].kind = "process" =>
                status[t] = "waiting" /\ awaits'[t] = awaits[t]
    BY <1>8 DEF S
  <2>3. CASE parked
    BY <1>2, <1>4, <1>5, <1>8, <2>1, <2>2, <2>3, ProcessBooksParked DEF parked
  <2>4. CASE ~parked
    <3>1. control' = control /\ status'[s] # "waiting"
      BY <1>2, <1>8, <2>4
    <3> QED
      BY <1>2, <1>5, <2>1, <2>2, <3>1, ProcessBooksKept DEF TypeOK, ControlTypeOK
  <2> QED
    BY <2>3, <2>4
<1>14. /\ stack' \in Seq(Activations) /\ Len(stack') = n - 1 /\ DOMAIN stack' = 1..(n - 1)
       /\ \A i \in 1..(n - 1) : stack'[i] = stack[i]
       /\ stack' # <<>>
  <2>1. /\ stack' \in Seq(Activations) /\ Len(stack') = n - 1 /\ DOMAIN stack' = 1..(n - 1)
        /\ \A i \in 1..(n - 1) : stack'[i] = stack[i]
    BY <1>2, <1>3, <1>4
  <2>2. Len(stack') # 0
    BY <1>3, <1>4, <2>1
  <2> QED
    BY <2>1, <2>2
<1>15. TypeOK'
  <2>1. /\ ready' \in Seq(Slots)
    BY <1>2, <1>5, <1>6
  <2>2. pc' \in {"return", "run"} /\ UNCHANGED <<join, thrown, pending, finished>> /\ roots' = {}
    BY <1>2
  <2> QED
    BY <1>10, <1>13, <1>14, <2>1, <2>2 DEF TypeOK, ControlTypeOK
<1>16. FramesFit'
  <2> SUFFICES ASSUME NEW t \in Slots
               PROVE  /\ status'[t] = "free" => link'[t] = Nothing /\ awaits'[t] = Nothing
                      /\ Live(t)' => link'[t] # Nothing
                      /\ awaits'[t] # Nothing => status'[t] \in {"waiting", "ready"}
                      /\ status'[t] = "waiting" => awaits'[t] # Nothing
                      /\ awaits'[t].kind \in {"starting", "timeout"} => link'[t].kind = "task"
    BY DEF FramesFit, Free
  <2>1. CASE t = s
    BY <1>5, <1>8, <1>9, <2>1
  <2>2. CASE t \in S
    BY <1>8, <1>9, <2>2 DEF Live
  <2>3. CASE t \notin S /\ t # s
    BY <1>8, <2>3 DEF FramesFit, Free, Live
  <2> QED
    BY <2>1, <2>2, <2>3
<1>17. NoOrphans' /\ Calls'
  <2>1. \A t \in Slots : Live(t)' => Live(t) /\ link'[t] = link[t] /\ join' = join
    BY <1>2, <1>11
  <2>2. \A t \in Slots : \/ t = s
                         \/ ~Live(t) /\ awaits[t] = Nothing /\ ~Live(t)'
                         \/ status'[t] = status[t] /\ awaits'[t] = awaits[t]
    BY <1>7, <1>8 DEF FramesFit, S, Live
  <2>3. status[s] # "called" /\ awaits[s].kind \notin {"join", "starting", "timeout"}
    BY <1>5, <1>9
  <2>4. \A t \in Slots : status[t] = "called" => Live(t)
    BY DEF Live
  <2>5. NoOrphans'
    BY <1>9, <1>10, <1>11, <2>1, <2>2, <2>3, <2>4, NoOrphansKept
  <2>6. Calls'
    BY <1>8, <1>11, <2>1 DEF Calls
  <2> QED
    BY <2>5, <2>6
<1>18. NoneLost'
  <2>1. /\ \A i \in DOMAIN ready : i \in DOMAIN ready' /\ ready'[i] = ready[i]
        /\ deferred => Len(ready) + 1 \in DOMAIN ready' /\ ready'[Len(ready) + 1] = s
    BY <1>2, <1>5, <1>6
  <2> QED
    BY <1>8, <2>1 DEF NoneLost
<1>19. JoinBooks'
  <2>1. \A t \in Slots : awaits'[t].kind \in {"join", "starting", "timeout"} =>
          awaits'[t] = awaits[t] /\ status'[t] = status[t]
    BY <1>8, <1>9
  <2>2. \A j \in Joins, t \in Slots : link'[t] = Ref("join", j) <=> link[t] = Ref("join", j)
    BY <1>7, <1>8, RefIs
  <2> QED
    BY <1>2, <1>12, <2>1, <2>2, JoinBooksKept
<1>20. Activity'
  <2>1. ASSUME NEW i \in 1..(n - 2)
        PROVE  stack[i].slot # s
    <3>1. i \in DOMAIN stack /\ n - 1 \in DOMAIN stack /\ i < n - 1 /\ n - 1 < Len(stack)
      BY <1>3, <1>4
    <3> QED
      BY <1>1, <3>1 DEF Activity
  <2>2. ASSUME NEW i \in DOMAIN stack'
        PROVE  /\ stack'[i].by = "drain" <=> i = 1
               /\ stack'[i].by = "inline" => stack'[i].id \in Processes
               /\ i < Len(stack') => IF stack'[i + 1].by = "inline"
                                     THEN status'[stack'[i].slot] = "running"
                                     ELSE awaits'[stack'[i].slot].kind = "starting"
    <3>1. i \in DOMAIN stack /\ stack'[i] = stack[i] /\ stack[i].slot \in Slots
      BY <1>3, <1>4, <1>14
    <3>2. CASE i < Len(stack')
      <4>1. i \in 1..(n - 2) /\ stack'[i + 1] = stack[i + 1]
        BY <1>3, <1>4, <1>14, <3>2
      <4>2. stack[i].slot # s
        BY <2>1, <4>1
      <4>3. IF stack[i + 1].by = "inline" THEN status[stack[i].slot] = "running"
                                          ELSE awaits[stack[i].slot].kind = "starting"
        BY <1>3, <1>4, <3>1, <4>1 DEF Activity
      <4>4. stack[i].slot \notin S
        BY <1>9, <3>1, <4>3 DEF S, FramesFit
      <4> QED
        BY <1>8, <3>1, <4>1, <4>2, <4>3, <4>4 DEF Activity
    <3> QED
      BY <3>1, <3>2 DEF Activity
  <2>3. ASSUME NEW i \in DOMAIN stack', NEW k \in DOMAIN stack', i < k
        PROVE  stack'[i].slot # stack'[k].slot
    <3>1. i \in DOMAIN stack /\ k \in DOMAIN stack /\ k < Len(stack)
      BY <1>3, <1>4, <1>14
    <3>2. stack[i].slot # stack[k].slot
      BY <2>3, <3>1 DEF Activity
    <3> QED
      BY <1>3, <1>4, <1>14, <3>2
  <2>4. \A t \in Slots : awaits'[t].kind = "starting" =>
          \E i \in DOMAIN stack' : i < Len(stack') /\ stack'[i].slot = t
    <3> SUFFICES ASSUME NEW t \in Slots, awaits'[t].kind = "starting"
                 PROVE  \E i \in DOMAIN stack' : i < Len(stack') /\ stack'[i].slot = t
      OBVIOUS
    <3>1. t # s /\ awaits[t].kind = "starting"
      BY <1>8, <1>9
    <3>2. PICK i \in 1..n : i < n /\ stack[i].slot = t
      BY <1>3, <3>1 DEF Activity
    <3>3. i < n - 1
      BY <1>1, <1>3, <1>4, <3>1, <3>2
    <3> QED
      BY <1>3, <1>4, <1>14, <3>2, <3>3
  <2>5. pc' \in {"return", "run"} /\ (pc' = "run" => status'[s] = "running")
    BY <1>2, <1>8
  <2>6. stack'[Len(stack')].slot = s
    BY <1>1, <1>3, <1>4, <1>14
  <2> QED
    BY <1>14, <2>2, <2>3, <2>4, <2>5, <2>6 DEF Activity, Top
<1> QED
  BY <1>12, <1>13, <1>15, <1>16, <1>17, <1>18, <1>19, <1>20

-----------------------------------------------------------------------------
(* Frames that are done are reclaimed.                                     *)

\* Who awaits a with_timeout finds its child: the frames in S are those of
\* processes, or nobody is inside a with_timeout whose child has ended.
LEMMA ReclaimStep ==
  ASSUME IInv, NEW S \in SUBSET Slots, Reclaim(status, awaits, S),
         \A t \in S : status[t] = "done",
         \A t \in S, s \in Slots :
           awaits[s].kind \in {"starting", "timeout"} => link[t] # Ref("join", awaits[s].id),
         roots' = {}, finished' \subseteq finished,
         pc \notin {"run", "return"}, pc' \in {"drain", "idle"},
         UNCHANGED <<control, join, thrown, ready, pending, stack>>
  PROVE  IInv'
<1> USE DEF IInv
<1>1. /\ status \in [Slots -> Statuses] /\ awaits \in [Slots -> Awaits]
      /\ link \in [Slots -> Links] /\ roots \subseteq Slots /\ finished \subseteq Slots
  BY DEF TypeOK
<1>2. Nothing \in Awaits /\ Nothing \in Links /\ Nothing.kind = "none"
  BY RefIs
<1>3. /\ \A t \in S : status'[t] = "free" /\ link'[t] = Nothing /\ awaits'[t] = Nothing
      /\ \A t \in Slots \ S :
           status'[t] = status[t] /\ awaits'[t] = awaits[t] /\ link'[t] = link[t]
      /\ status' \in [Slots -> Statuses] /\ awaits' \in [Slots -> Awaits]
      /\ link' \in [Slots -> Links]
  BY <1>1, <1>2 DEF Reclaim, Statuses
<1>4. \A t \in Slots : (Live(t)' <=> Live(t)) /\ (Live(t) => link'[t] = link[t] /\ t \notin S)
  BY <1>3 DEF Live
<1>5. \A t \in S : awaits[t] = Nothing
  BY DEF FramesFit
<1>6. Rooted' /\ \A j \in Joins : LiveChildren(j)' = LiveChildren(j)
  BY <1>4, SameFamilies
<1>7. TypeOK'
  BY <1>1, <1>3 DEF TypeOK
<1>8. FramesFit'
  BY <1>2, <1>3, <1>4 DEF FramesFit, Free
<1>9. NoOrphans'
  <2>1. \A t \in Slots : status[t] = "called" => status'[t] = "called"
    BY <1>3
  <2>2. \A t \in Slots : awaits[t].kind \in {"join", "starting", "timeout"} => awaits'[t] = awaits[t]
    BY <1>2, <1>3, <1>5
  <2> QED
    BY <1>3, <1>4, <2>1, <2>2, NoOrphansKept
<1>10. Calls'
  BY <1>3, <1>4 DEF Calls
<1>11. ProcessBooks' /\ NoneStranded'
  <2>1. \A t \in Slots :
           /\ link'[t].kind = "process" => link'[t] = link[t] /\ (Live(t)' <=> Live(t))
           /\ link[t].kind = "process" /\ Live(t) => link'[t] = link[t]
           /\ status[t] = "waiting" /\ awaits[t].kind = "process" =>
                status'[t] = "waiting" /\ awaits'[t] = awaits[t]
           /\ status'[t] = "waiting" /\ awaits'[t].kind = "process" =>
                status[t] = "waiting" /\ awaits'[t] = awaits[t]
    BY <1>2, <1>3, <1>4
  <2> QED
    BY <2>1, ProcessBooksKept
<1>12. NoneLost'
  BY <1>3 DEF NoneLost
<1>13. JoinBooks'
  <2>1. \A s \in Slots : awaits'[s].kind \in {"join", "starting", "timeout"} =>
          s \notin S /\ awaits'[s] = awaits[s] /\ status'[s] = status[s]
    BY <1>2, <1>3
  <2>2. \A s \in Slots, j \in Joins :
          awaits[s].kind \in {"starting", "timeout"} /\ j = awaits[s].id =>
            \A t \in Slots : link'[t] = Ref("join", j) <=> link[t] = Ref("join", j)
    BY <1>2, <1>3, RefIs
  <2>3. ASSUME NEW s \in Slots, awaits'[s].kind \in {"join", "starting", "timeout"},
               NEW j \in Joins, j = awaits[s].id
        PROVE  JoinCounts(s, j)'
    <3>1. JoinCounts(s, j) /\ s \notin S /\ awaits'[s] = awaits[s] /\ status'[s] = status[s]
      BY <2>1, <2>3 DEF JoinBooks
    <3>2. LiveChildren(j)' = LiveChildren(j)
      BY <1>6
    <3>3. CASE awaits[s].kind = "join"
      BY <3>1, <3>2, <3>3 DEF JoinCounts, HasSize
    <3>4. CASE awaits[s].kind \in {"starting", "timeout"}
      BY <2>2, <2>3, <3>1, <3>2, <3>4 DEF JoinCounts, HasSize
    <3> QED
      BY <2>3, <3>1, <3>3, <3>4
  <2>4. \A s \in Slots : awaits'[s].kind \in {"join", "starting", "timeout"} =>
          awaits[s].id \in Joins /\ awaits'[s].id = awaits[s].id
    BY <1>1, <2>1, AwaitIs
  <2> QED
    BY <2>3, <2>4, JoinBooksKept
<1>14. Activity'
  <2>1. stack = <<>> /\ DOMAIN stack = {}
    BY DEF Activity
  <2>2. \A t \in Slots : awaits'[t].kind # "starting"
    BY <1>2, <1>3, <2>1 DEF Activity
  <2> QED
    BY <2>1, <2>2 DEF Activity
<1> QED
  BY <1>6, <1>7, <1>8, <1>9, <1>10, <1>11, <1>12, <1>13, <1>14

LEMMA CollectRootsStep ==
  ASSUME IInv, CollectRoots
  PROVE  IInv'
<1> DEFINE S == {s \in roots : status[s] = "done"}
<1>1. \A t \in roots : link[t].kind = "process" /\ t \in Slots
  BY DEF IInv, ProcessBooks, TypeOK
<1>2. \A t \in S, s \in Slots : link[t] # Ref("join", awaits[s].id)
  BY <1>1, RefIs
<1>3. /\ Reclaim(status, awaits, S) /\ S \in SUBSET Slots /\ \A t \in S : status[t] = "done"
      /\ pc = "apply" /\ pc' = "drain" /\ roots' = {}
      /\ UNCHANGED <<control, join, thrown, ready, pending, finished, stack>>
  BY <1>1 DEF CollectRoots
<1> HIDE DEF S
<1> QED
  BY <1>2, <1>3, ReclaimStep

LEMMA DrainEndStep ==
  ASSUME IInv, DrainEnd
  PROVE  IInv'
<1> USE DEF IInv
<1> DEFINE S == {s \in roots \cup finished : status[s] = "done"}
<1>1. S \in SUBSET Slots
  BY DEF TypeOK
<1>2. /\ pc = "drain" /\ ready = <<>>
      /\ Reclaim(status, awaits, S)
      /\ roots' = {} /\ finished' = {} /\ pc' = "idle"
      /\ UNCHANGED <<control, join, thrown, ready, pending, stack>>
  BY DEF DrainEnd
<1>3. \A s \in Slots : status[s] # "ready"
  BY <1>2 DEF NoneLost
<1>4. ASSUME NEW t \in S, NEW s \in Slots, awaits[s].kind \in {"starting", "timeout"},
             link[t] = Ref("join", awaits[s].id)
      PROVE  FALSE
  <2>1. PICK j : j = awaits[s].id
    OBVIOUS
  <2>2. JoinCounts(s, j)
    BY <1>4, <2>1 DEF JoinBooks
  <2>3. awaits[s] # Nothing
    BY <1>4, RefIs
  <2>4. status[s] = "waiting"
    BY <1>3, <2>3 DEF FramesFit
  <2>5. LiveChildren(j) # {}
    BY <2>2, <2>4 DEF JoinCounts, HasSize
  <2>6. PICK c \in Slots : Live(c) /\ link[c] = Ref("join", j)
    BY <2>5 DEF LiveChildren
  <2>7. c = t
    BY <1>1, <1>4, <2>1, <2>2, <2>6 DEF JoinCounts
  <2> QED
    BY <2>6, <2>7 DEF Live
<1>5. \A t \in S : status[t] = "done"
  OBVIOUS
<1> HIDE DEF S
<1> QED
  BY <1>1, <1>2, <1>4, <1>5, ReclaimStep

-----------------------------------------------------------------------------
(* Coroutines that start.                                                  *)

\* A free slot belongs to nobody and nobody belongs to it.
LEMMA FreeFacts ==
  ASSUME TypeOK, FramesFit, NoOrphans, NEW t \in Slots, Free(t)
  PROVE  /\ ~Live(t) /\ link[t] = Nothing /\ awaits[t] = Nothing
         /\ ChildrenOf(t) = {}
<1>1. ~Live(t) /\ link[t] = Nothing /\ awaits[t] = Nothing
  BY DEF FramesFit, Free, Live
<1>2. ASSUME NEW u \in ChildrenOf(t)
      PROVE  FALSE
  <2>1. u \in Slots /\ Live(u)
    BY <1>2 DEF ChildrenOf
  <2>2. CASE link[u] = Ref("task", t)
    <3>1. link[u].kind = "task" /\ link[u].id = t
      BY <2>2, RefIs
    <3> QED
      BY <2>1, <3>1, ParentFacts DEF Free
  <2>3. CASE link[u].kind = "join" /\ join[link[u].id].parent = t
    BY <1>1, <2>1, <2>3, ParentFacts
  <2> QED
    BY <1>2, <2>2, <2>3 DEF ChildrenOf
<1> QED
  BY <1>1, <1>2

\* No coroutine refers to the JoinState that a Join or a with_timeout takes.
LEMMA FreshJoinFacts ==
  ASSUME TypeOK, Joins \ JoinsInUse # {}
  PROVE  /\ FreshJoin \in Joins
         /\ \A s \in Slots : awaits[s].id # FreshJoin
         /\ \A t \in Slots : link[t] # Ref("join", FreshJoin)
<1>1. FreshJoin \in Joins \ JoinsInUse
  <2>1. \E j \in Joins : j \notin JoinsInUse
    OBVIOUS
  <2> QED
    BY <2>1 DEF FreshJoin
<1>2. \A s \in Slots : awaits[s].id # FreshJoin
  BY <1>1 DEF JoinsInUse
<1>3. ASSUME NEW t \in Slots, link[t] = Ref("join", FreshJoin)
      PROVE  FALSE
  <2>1. link[t].kind = "join" /\ link[t].id = FreshJoin
    BY <1>3, RefIs
  <2> QED
    BY <1>1, <2>1 DEF JoinsInUse
<1> QED
  BY <1>1, <1>2, <1>3

LEMMA SpawnStep ==
  ASSUME IInv, NEW t \in Slots, NEW p \in Processes, Spawn(t, p)
  PROVE  IInv'
<1> USE DEF IInv
<1>1. /\ pc \in {"run", "idle"} /\ Free(t) /\ ~control[p].spawned
      /\ status' = [status EXCEPT ![t] = "ready"]
      /\ link' = [link EXCEPT ![t] = Ref("process", p)]
      /\ control' = [control EXCEPT ![p].spawned = TRUE]
      /\ ready' = Append(ready, t)
      /\ pc' = IF pc = "idle" THEN "drain" ELSE pc
      /\ UNCHANGED <<awaits, join, thrown, pending, roots, finished, stack>>
  BY DEF Spawn
<1>2. /\ status \in [Slots -> Statuses] /\ link \in [Slots -> Links] /\ ready \in Seq(Slots)
      /\ awaits \in [Slots -> Awaits]
  BY DEF TypeOK
<1>3. ~Live(t) /\ link[t] = Nothing /\ awaits[t] = Nothing /\ ChildrenOf(t) = {}
  BY <1>1, FreeFacts
<1>4. /\ Ref("process", p) \in Links /\ Ref("process", p) # Nothing
      /\ Ref("process", p).kind = "process" /\ Ref("process", p).id = p /\ Nothing.kind = "none"
  BY RefIs
<1>5. /\ status' \in [Slots -> Statuses] /\ link' \in [Slots -> Links]
      /\ status'[t] = "ready" /\ link'[t] = Ref("process", p)
      /\ \A s \in Slots \ {t} : status'[s] = status[s] /\ link'[s] = link[s]
  BY <1>1, <1>2, <1>4 DEF Statuses
<1>6. /\ \A s \in Slots \ {t} : Live(s)' <=> Live(s)
      /\ Live(t)'
  BY <1>5 DEF Live
<1>7. \A s \in Slots : ChildrenOf(s)' \subseteq ChildrenOf(s)
  BY <1>1, <1>4, <1>5, <1>6, RefIs DEF ChildrenOf
<1>8. Rooted'
  BY <1>7, RootedShrinks
<1>9. /\ control = [q \in Processes |-> control[q]]
      /\ control'[p].spawned /\ control'[p].done = control[p].done
      /\ control'[p].waiters = control[p].waiters
      /\ \A q \in Processes \ {p} : control'[q] = control[q]
      /\ ControlTypeOK(control')
  <2>1. PICK W \in SUBSET Slots : control[p] \in ControlsOf(W)
    BY DEF TypeOK
  <2>2. control = [q \in Processes |-> control[q]]
    BY DEF TypeOK
  <2>3. control'[p] = [control[p] EXCEPT !.spawned = TRUE]
    BY <1>1, <2>2
  <2>4. /\ control'[p] \in ControlsOf(W)
        /\ control'[p].spawned /\ control'[p].done = control[p].done
        /\ control'[p].waiters = control[p].waiters
    BY <2>1, <2>3 DEF ControlsOf
  <2>5. \A q \in Processes \ {p} : control'[q] = control[q]
    BY <1>1, <2>2
  <2>6. control' = [q \in Processes |-> control'[q]]
    BY <1>1, <2>2
  <2> QED
    BY <2>2, <2>4, <2>5, <2>6 DEF TypeOK, ControlTypeOK
<1>10. TypeOK'
  <2>1. ready' \in Seq(Slots)
    BY <1>1, <1>2
  <2>2. pc' \in {"drain", "run"}
    BY <1>1
  <2> QED
    BY <1>1, <1>5, <1>9, <2>1, <2>2 DEF TypeOK, ControlTypeOK
<1>11. FramesFit'
  BY <1>1, <1>3, <1>4, <1>5, <1>6 DEF FramesFit, Free
<1>12. NoOrphans'
  <2>1. HasParent(t)'
    BY <1>4, <1>5 DEF HasParent
  <2> QED
    BY <1>1, <1>2, <1>3, <1>4, <1>5, <1>6, <2>1, NoOrphansKept
<1>13. Calls'
  <2>1. \A s \in Slots : Live(s) => s # t
    BY <1>3
  <2> QED
    BY <1>4, <1>5, <1>6, <2>1 DEF Calls
<1>14. \A s \in Slots : link[s] # Ref("process", p)
  BY <1>1, <1>4 DEF ProcessBooks
<1>15. ~control[p].done
  BY <1>1 DEF ProcessBooks
<1>16. ProcessBooks'
  <2>1. \A s \in Slots : link'[s].kind = "process" =>
          control'[link'[s].id].spawned /\ (Live(s)' <=> ~control'[link'[s].id].done)
    <3> SUFFICES ASSUME NEW s \in Slots, link'[s].kind = "process"
                 PROVE  control'[link'[s].id].spawned /\ (Live(s)' <=> ~control'[link'[s].id].done)
      OBVIOUS
    <3>1. CASE s = t
      BY <1>4, <1>5, <1>6, <1>9, <1>15, <3>1
    <3>2. CASE s # t
      <4>1. link'[s] = link[s] /\ link[s].id \in Processes /\ link[s] = Ref("process", link[s].id)
        BY <1>2, <1>5, <3>2, LinkIs
      <4>2. link[s].id # p
        BY <1>14, <4>1
      <4> QED
        BY <1>6, <1>9, <3>2, <4>1, <4>2 DEF ProcessBooks
    <3> QED
      BY <3>1, <3>2
  <2>2. \A s, u \in Slots : link'[s].kind = "process" /\ link'[s] = link'[u] => s = u
    BY <1>5, <1>14 DEF ProcessBooks
  <2>3. \A q \in Processes : control'[q].spawned /\ ~control'[q].done =>
          \E s \in Slots : link'[s] = Ref("process", q)
    <3> SUFFICES ASSUME NEW q \in Processes, control'[q].spawned, ~control'[q].done
                 PROVE  \E s \in Slots : link'[s] = Ref("process", q)
      OBVIOUS
    <3>1. CASE q = p
      BY <1>5, <3>1
    <3>2. CASE q # p
      <4>1. PICK s \in Slots : link[s] = Ref("process", q)
        BY <1>9, <3>2 DEF ProcessBooks
      <4>2. s # t
        BY <1>3, <4>1, RefIs
      <4> QED
        BY <1>5, <4>1, <4>2
    <3> QED
      BY <3>1, <3>2
  <2>4. \A i \in DOMAIN pending' : control'[pending'[i]].spawned
    <3>1. \A i \in DOMAIN pending : pending[i] \in Processes /\ control[pending[i]].spawned
      BY EntryTypes DEF ProcessBooks
    <3> QED
      BY <1>1, <1>9, <3>1
  <2>5. \A q \in Processes : control'[q].done => control'[q].spawned
    BY <1>9 DEF ProcessBooks
  <2>6. \A s \in roots' : link'[s].kind = "process"
    BY <1>1, <1>2, <1>3, <1>4, <1>5 DEF ProcessBooks, TypeOK
  <2>7. ASSUME NEW q \in Processes
        PROVE  /\ IsWaitList(control'[q].waiters)
               /\ \A s \in Waiters(control'[q].waiters) :
                    status'[s] = "waiting" /\ awaits'[s] = Ref("process", q)
    <3>1. /\ control'[q].waiters = control[q].waiters
          /\ Waiters(control[q].waiters) \subseteq Slots /\ IsWaitList(control[q].waiters)
          /\ \A s \in Waiters(control[q].waiters) :
               status[s] = "waiting" /\ awaits[s] = Ref("process", q)
      BY <1>9, WaitersAreSlots DEF ProcessBooks
    <3> QED
      BY <1>1, <1>5, <3>1 DEF Free
  <2> QED
    BY <2>1, <2>2, <2>3, <2>4, <2>5, <2>6, <2>7 DEF ProcessBooks
<1>17. NoneStranded'
  <2> SUFFICES ASSUME NEW s \in Slots, status'[s] = "waiting", awaits'[s].kind = "process"
               PROVE  ~control'[awaits'[s].id].done /\ s \in Waiters(control'[awaits'[s].id].waiters)
    BY DEF NoneStranded
  <2>1. status[s] = "waiting" /\ awaits'[s] = awaits[s] /\ awaits[s].id \in Processes
    BY <1>1, <1>2, <1>5, AwaitIs
  <2> QED
    BY <1>9, <2>1 DEF NoneStranded
<1>18. NoneLost'
  <2>1. /\ \A i \in DOMAIN ready : i \in DOMAIN ready' /\ ready'[i] = ready[i]
        /\ Len(ready) + 1 \in DOMAIN ready' /\ ready'[Len(ready) + 1] = t
    BY <1>1, <1>2
  <2> QED
    BY <1>5, <2>1 DEF NoneLost
<1>19. JoinBooks'
  <2>1. \A j \in Joins : /\ \A s \in Slots : link'[s] = Ref("join", j) <=> link[s] = Ref("join", j)
                         /\ LiveChildren(j)' = LiveChildren(j)
    BY <1>3, <1>5, <1>6, RefIs DEF LiveChildren
  <2>2. \A s \in Slots : awaits[s].kind \in {"join", "starting", "timeout"} => s # t
    BY <1>3, <1>4
  <2> QED
    BY <1>1, <1>5, <2>1, <2>2, JoinBooksKept
<1>20. Activity'
  <2>1. \A i \in DOMAIN stack : stack[i].slot \in Slots
    BY EntryTypes
  <2>2. CASE pc = "idle"
    BY <1>1, <2>2 DEF Activity
  <2>3. CASE pc = "run"
    <3>1. stack # <<>> /\ status'[Top.slot] = "running" /\ Top.slot \in Slots
      BY <1>1, <1>5, <2>3, StackFacts DEF Activity, Free
    <3>2. \A i \in DOMAIN stack : i < Len(stack) =>
            IF stack[i + 1].by = "inline" THEN status'[stack[i].slot] = "running"
                                          ELSE awaits'[stack[i].slot].kind = "starting"
      BY <1>1, <1>5, <2>1 DEF Activity, Free
    <3> QED
      BY <1>1, <2>3, <3>1, <3>2 DEF Activity, Top
  <2> QED
    BY <1>1, <2>2, <2>3
<1> QED
  BY <1>8, <1>10, <1>11, <1>12, <1>13, <1>16, <1>17, <1>18, <1>19, <1>20

\* What a step that only starts children of the running coroutine keeps: those
\* that were there before are as they were.
LEMMA StartedBooksKept ==
  ASSUME IInv, NEW s \in Slots, status[s] = "running",
         NEW N \in SUBSET Slots, \A t \in N : Free(t),
         status' \in [Slots -> Statuses], awaits' \in [Slots -> Awaits], link' \in [Slots -> Links],
         \A t \in Slots \ N : link'[t] = link[t],
         \A t \in Slots \ (N \cup {s}) : status'[t] = status[t] /\ awaits'[t] = awaits[t],
         Live(s)', awaits'[s].kind # "process",
         \A t \in N : link'[t].kind # "process" /\ awaits'[t].kind # "process" /\ Live(t)',
         UNCHANGED <<control, pending, roots>>
  PROVE  ProcessBooks' /\ NoneStranded'
<1> USE DEF IInv
<1>1. \A t \in N : link[t] = Nothing /\ ~Live(t) /\ status[t] = "free"
  BY FreeFacts DEF Free
<1>2. Nothing.kind = "none"
  BY RefIs
<1>3. s \notin N /\ Live(s)
  BY <1>1 DEF Live
<1>4. \A t \in Slots :
           /\ link'[t].kind = "process" => link'[t] = link[t] /\ (Live(t)' <=> Live(t))
           /\ link[t].kind = "process" /\ Live(t) => link'[t] = link[t]
  <2>1. \A t \in Slots \ (N \cup {s}) : Live(t)' <=> Live(t)
    BY DEF Live
  <2> QED
    BY <1>1, <1>2, <1>3, <2>1
<1>5. \A t \in Slots :
           /\ status[t] = "waiting" /\ awaits[t].kind = "process" =>
                status'[t] = "waiting" /\ awaits'[t] = awaits[t]
           /\ status'[t] = "waiting" /\ awaits'[t].kind = "process" =>
                status[t] = "waiting" /\ awaits'[t] = awaits[t]
  BY <1>1
<1>6. \A t \in roots : link'[t].kind = "process"
  <2>1. \A t \in roots : link[t].kind = "process" /\ t \in Slots
    BY DEF ProcessBooks, TypeOK
  <2> QED
    BY <1>1, <1>2, <2>1
<1> QED
  BY <1>4, <1>5, <1>6, ProcessBooksKept

LEMMA AwaitTaskStep ==
  ASSUME IInv, NEW s \in Slots, NEW t \in Slots, AwaitTask(s, t)
  PROVE  IInv'
<1> USE DEF IInv
<1> DEFINE n == Len(stack)
<1>1. /\ Running(s) /\ Free(t)
      /\ status' = [status EXCEPT ![s] = "called", ![t] = "running"]
      /\ link' = [link EXCEPT ![t] = Ref("task", s)]
      /\ stack' = [stack EXCEPT ![n].slot = t]
      /\ UNCHANGED <<awaits, control, join, thrown, ready, pending, roots, finished, pc>>
  BY DEF AwaitTask
<1>2. /\ pc = "run" /\ status[s] = "running" /\ Live(s) /\ awaits[s] = Nothing
      /\ stack \in Seq(Activations) /\ n \in Nat /\ n > 0 /\ DOMAIN stack = 1..n
      /\ \A i \in 1..n : stack[i] \in Activations /\ stack[i].slot \in Slots
      /\ stack[n].slot = s
      /\ \A i \in 1..n : i < n => stack[i].slot # s
  BY <1>1, RunningFacts
<1>3. ~Live(t) /\ link[t] = Nothing /\ awaits[t] = Nothing /\ ChildrenOf(t) = {} /\ s # t
      /\ status[t] = "free"
  BY <1>1, <1>2, FreeFacts DEF Free
<1>4. /\ status \in [Slots -> Statuses] /\ link \in [Slots -> Links] /\ awaits \in [Slots -> Awaits]
  BY DEF TypeOK
<1>5. /\ Ref("task", s) \in Links /\ Ref("task", s) # Nothing
      /\ Ref("task", s).kind = "task" /\ Ref("task", s).id = s /\ Nothing.kind = "none"
  BY RefIs
<1>6. /\ status' \in [Slots -> Statuses] /\ link' \in [Slots -> Links]
      /\ status'[s] = "called" /\ status'[t] = "running" /\ link'[t] = Ref("task", s)
      /\ \A u \in Slots \ {s, t} : status'[u] = status[u]
      /\ \A u \in Slots \ {t} : link'[u] = link[u]
  BY <1>1, <1>3, <1>4, <1>5 DEF Statuses
<1>7. /\ \A u \in Slots \ {t} : Live(u)' <=> Live(u)
      /\ Live(t)' /\ Live(s)'
  BY <1>2, <1>6 DEF Live
<1>8. Rooted'
  <2>1. \A x \in Slots, r \in Slots \ {t} :
          r \in ChildrenOf(x)' => r \in ChildrenOf(x) /\ x \notin {t}
    BY <1>1, <1>3, <1>6, <1>7 DEF ChildrenOf
  <2>2. t \notin ChildrenOf(t)'
    BY <1>3, <1>5, <1>6, RefIs DEF ChildrenOf
  <2>3. PICK N \in SUBSET Slots : N = {t}
    OBVIOUS
  <2>4. \A D \in SUBSET N : D # {} => \E u \in D : \A x \in D : u \notin ChildrenOf(x)'
    BY <2>2, <2>3
  <2> QED
    BY <2>1, <2>3, <2>4, RootedGrows
<1>9. /\ stack' \in Seq(Activations) /\ Len(stack') = n /\ DOMAIN stack' = 1..n
      /\ stack'[n].slot = t /\ stack'[n].by = stack[n].by /\ stack'[n].id = stack[n].id
      /\ \A i \in 1..n : i < n => stack'[i] = stack[i]
      /\ \A i \in 1..n : stack'[i].by = stack[i].by /\ stack'[i].id = stack[i].id
  <2>1. [stack[n] EXCEPT !.slot = t] \in Activations
        /\ [stack[n] EXCEPT !.slot = t].slot = t
        /\ [stack[n] EXCEPT !.slot = t].by = stack[n].by
        /\ [stack[n] EXCEPT !.slot = t].id = stack[n].id
    BY <1>2 DEF Activations
  <2> QED
    BY <1>1, <1>2, <2>1
<1>10. TypeOK'
  BY <1>1, <1>6, <1>9 DEF TypeOK
<1>11. FramesFit'
  BY <1>1, <1>2, <1>3, <1>5, <1>6, <1>7 DEF FramesFit, Free
<1>12. NoOrphans'
  <2>1. HasParent(t)'
    BY <1>5, <1>6 DEF HasParent
  <2>2. \A u \in Slots : status[u] = "called" => status'[u] = "called"
    BY <1>2, <1>3, <1>6
  <2> QED
    BY <1>1, <1>2, <1>4, <1>6, <1>7, <2>1, <2>2, NoOrphansKept
<1>13. Calls'
  <2>1. \A u \in Slots : Live(u) => u # t /\ link[u] # Ref("task", s)
    BY <1>2, <1>3, <1>5, ParentFacts
  <2>2. \A u \in Slots : status'[u] = "called" => \E v \in Slots : Live(v)' /\ link'[v] = Ref("task", u)
    BY <1>6, <1>7, <2>1 DEF Calls
  <2>3. \A u, v \in Slots : Live(u)' /\ Live(v)' /\ link'[u].kind = "task" /\ link'[u] = link'[v] => u = v
    BY <1>5, <1>6, <1>7, <2>1 DEF Calls
  <2> QED
    BY <2>2, <2>3 DEF Calls
<1>14. ProcessBooks' /\ NoneStranded'
  <2>1. PICK N \in SUBSET Slots : N = {t}
    OBVIOUS
  <2>2. \A u \in N : Free(u) /\ link'[u].kind # "process" /\ awaits'[u].kind # "process" /\ Live(u)'
    BY <1>1, <1>3, <1>5, <1>6, <1>7, <2>1
  <2>3. \A u \in Slots \ (N \cup {s}) : status'[u] = status[u] /\ awaits'[u] = awaits[u]
    BY <1>1, <1>6, <2>1
  <2>4. /\ \A u \in Slots \ N : link'[u] = link[u]
        /\ awaits' \in [Slots -> Awaits] /\ awaits'[s].kind # "process"
    BY <1>1, <1>2, <1>4, <1>5, <1>6, <2>1
  <2> QED
    BY <1>1, <1>2, <1>6, <1>7, <2>2, <2>3, <2>4, StartedBooksKept
<1>15. NoneLost'
  BY <1>1, <1>6 DEF NoneLost
<1>16. JoinBooks'
  <2>1. \A j \in Joins : /\ \A u \in Slots : link'[u] = Ref("join", j) <=> link[u] = Ref("join", j)
                         /\ LiveChildren(j)' = LiveChildren(j)
    BY <1>3, <1>6, <1>7, RefIs DEF LiveChildren
  <2>2. \A u \in Slots : awaits[u].kind \in {"join", "starting", "timeout"} => u # t /\ u # s
    BY <1>2, <1>3, <1>5
  <2> QED
    BY <1>1, <1>6, <2>1, <2>2, JoinBooksKept
<1>17. Activity'
  <2>1. ASSUME NEW i \in 1..n, i < n
        PROVE  stack[i].slot # t /\ stack[i].slot # s
    <3>1. IF stack[i + 1].by = "inline" THEN status[stack[i].slot] = "running"
                                        ELSE awaits[stack[i].slot].kind = "starting"
      BY <1>2, <2>1 DEF Activity
    <3> QED
      BY <1>2, <1>3, <1>5, <2>1, <3>1
  <2>2. ASSUME NEW i \in 1..n
        PROVE  /\ stack'[i].by = "drain" <=> i = 1
               /\ stack'[i].by = "inline" => stack'[i].id \in Processes
               /\ i < n => IF stack'[i + 1].by = "inline"
                           THEN status'[stack'[i].slot] = "running"
                           ELSE awaits'[stack'[i].slot].kind = "starting"
    <3>1. /\ stack[i].by = "drain" <=> i = 1
          /\ stack[i].by = "inline" => stack[i].id \in Processes
          /\ i < n => IF stack[i + 1].by = "inline" THEN status[stack[i].slot] = "running"
                                                    ELSE awaits[stack[i].slot].kind = "starting"
      BY <1>2 DEF Activity
    <3>2. i < n => stack'[i] = stack[i] /\ stack'[i + 1].by = stack[i + 1].by
                    /\ status'[stack[i].slot] = status[stack[i].slot]
      BY <1>2, <1>6, <1>9, <2>1
    <3> QED
      BY <1>1, <1>9, <3>1, <3>2
  <2>3. ASSUME NEW i \in 1..n, NEW k \in 1..n, i < k
        PROVE  stack'[i].slot # stack'[k].slot
    <3>1. CASE k < n
      BY <1>2, <1>9, <2>3, <3>1 DEF Activity
    <3>2. CASE k = n
      BY <1>2, <1>9, <2>1, <2>3, <3>2
    <3> QED
      BY <1>2, <3>1, <3>2
  <2>4. \A u \in Slots : awaits'[u].kind = "starting" =>
          \E i \in 1..n : i < n /\ stack'[i].slot = u
    BY <1>1, <1>2, <1>9 DEF Activity
  <2>5. stack' # <<>> /\ pc' = "run" /\ status'[stack'[n].slot] = "running"
    <3>1. Len(stack') # 0
      BY <1>2, <1>9
    <3> QED
      BY <1>1, <1>2, <1>6, <1>9, <3>1
  <2> QED
    BY <1>9, <2>2, <2>3, <2>4, <2>5 DEF Activity, Top
<1> QED
  BY <1>8, <1>10, <1>11, <1>12, <1>13, <1>14, <1>15, <1>16, <1>17

LEMMA AwaitJoinStep ==
  ASSUME IInv, NEW s \in Slots, NEW t \in Slots, NEW u \in Slots, AwaitJoin(s, t, u)
  PROVE  IInv'
<1> USE DEF IInv
<1>1. PICK j : j = FreshJoin
  OBVIOUS
<1>2. /\ Running(s) /\ Suspended /\ t # u /\ Free(t) /\ Free(u)
      /\ Joins \ JoinsInUse # {}
      /\ status' = [status EXCEPT ![s] = "waiting", ![t] = "ready", ![u] = "ready"]
      /\ link' = [link EXCEPT ![t] = Ref("join", j), ![u] = Ref("join", j)]
      /\ awaits' = [awaits EXCEPT ![s] = Ref("join", j)]
      /\ join' = [join EXCEPT ![j] = [remaining |-> 2, parent |-> s, threw |-> 0]]
      /\ thrown' = [thrown EXCEPT ![j] = <<>>]
      /\ ready' = ready \o <<t, u>>
      /\ UNCHANGED <<control, pending, roots, finished>>
  BY <1>1 DEF AwaitJoin
<1>3. j \in Joins /\ \A x \in Slots : awaits[x].id # j /\ link[x] # Ref("join", j)
  BY <1>1, <1>2, FreshJoinFacts
<1>4. /\ status[s] = "running" /\ Live(s) /\ awaits[s] = Nothing /\ link[s] # Nothing
  BY <1>2, RunningFacts
<1>5. /\ ~Live(t) /\ link[t] = Nothing /\ awaits[t] = Nothing /\ ChildrenOf(t) = {} /\ s # t
      /\ ~Live(u) /\ link[u] = Nothing /\ awaits[u] = Nothing /\ ChildrenOf(u) = {} /\ s # u
      /\ status[t] = "free" /\ status[u] = "free"
  BY <1>2, <1>4, FreeFacts DEF Free
<1>6. /\ status \in [Slots -> Statuses] /\ link \in [Slots -> Links] /\ awaits \in [Slots -> Awaits]
      /\ join \in [Joins -> [remaining: 0..2, parent: {None} \cup Slots, threw: 0..2]]
      /\ thrown \in [Joins -> Seq(BOOLEAN)] /\ ready \in Seq(Slots)
  BY DEF TypeOK
<1>7. /\ Ref("join", j) \in Links /\ Ref("join", j) \in Awaits /\ Ref("join", j) # Nothing
      /\ Ref("join", j).kind = "join" /\ Ref("join", j).id = j /\ Nothing.kind = "none"
  BY <1>3, RefIs
<1>8. /\ status' \in [Slots -> Statuses] /\ link' \in [Slots -> Links] /\ awaits' \in [Slots -> Awaits]
      /\ status'[s] = "waiting" /\ status'[t] = "ready" /\ status'[u] = "ready"
      /\ link'[t] = Ref("join", j) /\ link'[u] = Ref("join", j) /\ awaits'[s] = Ref("join", j)
      /\ \A x \in Slots \ {s, t, u} : status'[x] = status[x]
      /\ \A x \in Slots \ {t, u} : link'[x] = link[x]
      /\ \A x \in Slots \ {s} : awaits'[x] = awaits[x]
  BY <1>2, <1>5, <1>6, <1>7 DEF Statuses
<1>9. /\ join' \in [Joins -> [remaining: 0..2, parent: {None} \cup Slots, threw: 0..2]]
      /\ thrown' \in [Joins -> Seq(BOOLEAN)]
      /\ join'[j].parent = s /\ join'[j].remaining = 2 /\ join'[j].threw = 0
      /\ thrown'[j] = <<>>
      /\ \A i \in Joins \ {j} : join'[i] = join[i] /\ thrown'[i] = thrown[i]
  <2>1. [remaining |-> 2, parent |-> s, threw |-> 0]
          \in [remaining: 0..2, parent: {None} \cup Slots, threw: 0..2]
    OBVIOUS
  <2>2. <<>> \in Seq(BOOLEAN)
    OBVIOUS
  <2> QED
    BY <1>2, <1>3, <1>6, <2>1, <2>2
<1>10. /\ \A x \in Slots \ {t, u} : Live(x)' <=> Live(x)
       /\ Live(t)' /\ Live(u)' /\ Live(s)'
  BY <1>4, <1>8 DEF Live
<1>11. \A x \in Slots : Live(x) => x \notin {t, u} /\ (link[x].kind = "join" => link[x].id \in Joins \ {j})
  BY <1>3, <1>5, <1>6, LinkIs
<1>12. \A x \in Slots : Live(x) /\ link[x].kind = "join" =>
         join'[link[x].id].parent = join[link[x].id].parent
  BY <1>9, <1>11
<1>13. PICK N \in SUBSET Slots : N = {t, u}
  OBVIOUS
<1>14. Rooted'
  <2>1. \A x \in Slots, r \in Slots \ N :
          r \in ChildrenOf(x)' => r \in ChildrenOf(x) /\ x \notin N
    <3> SUFFICES ASSUME NEW x \in Slots, NEW r \in Slots \ N, r \in ChildrenOf(x)'
                 PROVE  r \in ChildrenOf(x)
      BY <1>5, <1>13
    <3>1. Live(r) /\ link'[r] = link[r]
      BY <1>8, <1>10, <1>13 DEF ChildrenOf
    <3>2. link[r].kind = "join" => join'[link[r].id].parent = join[link[r].id].parent
      BY <1>12, <3>1
    <3> QED
      BY <3>1, <3>2 DEF ChildrenOf
  <2>2. \A x \in N, y \in N : x \notin ChildrenOf(y)'
    BY <1>5, <1>7, <1>8, <1>9, <1>13, RefIs DEF ChildrenOf
  <2>3. \A D \in SUBSET N : D # {} => \E y \in D : \A x \in D : y \notin ChildrenOf(x)'
    BY <2>2
  <2> QED
    BY <2>1, <2>3, RootedGrows
<1>15. TypeOK'
  <2>1. ready' \in Seq(Slots)
    BY <1>2, <1>6
  <2> QED
    BY <1>2, <1>8, <1>9, <2>1 DEF TypeOK, Suspended
<1>16. FramesFit'
  <2> SUFFICES ASSUME NEW x \in Slots
               PROVE  /\ status'[x] = "free" => link'[x] = Nothing /\ awaits'[x] = Nothing
                      /\ Live(x)' => link'[x] # Nothing
                      /\ awaits'[x] # Nothing => status'[x] \in {"waiting", "ready"}
                      /\ status'[x] = "waiting" => awaits'[x] # Nothing
                      /\ awaits'[x].kind \in {"starting", "timeout"} => link'[x].kind = "task"
    BY DEF FramesFit, Free
  <2>1. CASE x = s
    BY <1>4, <1>5, <1>7, <1>8, <2>1
  <2>2. CASE x \in {t, u}
    BY <1>5, <1>7, <1>8, <2>2
  <2>3. CASE x \notin {s, t, u}
    BY <1>8, <1>10, <2>3 DEF FramesFit, Free
  <2> QED
    BY <2>1, <2>2, <2>3
<1>17. NoOrphans'
  <2>1. \A x \in N : HasParent(x)'
    <3>1. awaits'[s] \in {Ref(k, j) : k \in {"join", "starting", "timeout"}}
      BY <1>8
    <3> QED
      BY <1>7, <1>8, <1>9, <1>10, <1>13, <3>1 DEF HasParent
  <2>2. \A x \in Slots : /\ status[x] = "called" => status'[x] = "called"
                         /\ awaits[x].kind \in {"join", "starting", "timeout"} => awaits'[x] = awaits[x]
                         /\ Live(x) => Live(x)'
    BY <1>4, <1>5, <1>7, <1>8, <1>10
  <2> QED
    BY <1>8, <1>10, <1>12, <1>13, <2>1, <2>2, NoOrphansKept
<1>18. Calls'
  <2>1. \A x \in Slots : status'[x] = "called" =>
          \E y \in Slots : Live(y)' /\ link'[y] = Ref("task", x)
    BY <1>8, <1>10, <1>11 DEF Calls
  <2>2. \A x, y \in Slots : Live(x)' /\ Live(y)' /\ link'[x].kind = "task" /\ link'[x] = link'[y] => x = y
    BY <1>7, <1>8, <1>10 DEF Calls
  <2> QED
    BY <2>1, <2>2 DEF Calls
<1>19. ProcessBooks' /\ NoneStranded'
  <2>1. \A x \in N : Free(x) /\ link'[x].kind # "process" /\ awaits'[x].kind # "process" /\ Live(x)'
    BY <1>2, <1>5, <1>7, <1>8, <1>10, <1>13
  <2>2. \A x \in Slots \ (N \cup {s}) : status'[x] = status[x] /\ awaits'[x] = awaits[x]
    BY <1>8, <1>13
  <2>3. (\A x \in Slots \ N : link'[x] = link[x]) /\ awaits'[s].kind # "process"
    BY <1>7, <1>8, <1>13
  <2> QED
    BY <1>2, <1>4, <1>8, <1>10, <2>1, <2>2, <2>3, StartedBooksKept
<1>20. NoneLost'
  <2>1. /\ \A i \in DOMAIN ready : i \in DOMAIN ready' /\ ready'[i] = ready[i]
        /\ Len(ready) + 1 \in DOMAIN ready' /\ ready'[Len(ready) + 1] = t
        /\ Len(ready) + 2 \in DOMAIN ready' /\ ready'[Len(ready) + 2] = u
    BY <1>2, <1>6
  <2> QED
    BY <1>8, <2>1 DEF NoneLost
<1>21. JoinBooks'
  <2>1. \A i \in Joins \ {j} :
          /\ \A x \in Slots : link'[x] = Ref("join", i) <=> link[x] = Ref("join", i)
          /\ LiveChildren(i)' = LiveChildren(i)
    BY <1>5, <1>8, <1>10, RefIs DEF LiveChildren
  <2>2. LiveChildren(j)' = {t, u}
    BY <1>3, <1>8, <1>10 DEF LiveChildren
  <2>3. JoinCounts(s, j)'
    BY <1>2, <1>7, <1>8, <1>9, <2>2 DEF JoinCounts, HasSize
  <2>4. FirstKept(j)'
    BY <1>9 DEF FirstKept
  <2>5. \A x \in Slots : awaits'[x].kind \in {"join", "starting", "timeout"} =>
          \/ x = s
          \/ awaits'[x] = awaits[x] /\ status'[x] = status[x] /\ awaits[x].id # j
    BY <1>3, <1>5, <1>7, <1>8
  <2>6. ASSUME NEW x \in Slots, awaits'[x].kind \in {"join", "starting", "timeout"}
        PROVE \/ \E i \in Joins : i = awaits'[x].id /\ JoinCounts(x, i)'
              \/ /\ awaits'[x] = awaits[x] /\ status'[x] = status[x]
                 /\ \A i \in Joins : i = awaits[x].id =>
                      /\ join'[i] = join[i] /\ thrown'[i] = thrown[i]
                      /\ LiveChildren(i)' = LiveChildren(i)
                      /\ \A y \in Slots : link'[y] = Ref("join", i) <=> link[y] = Ref("join", i)
    <3>1. CASE x = s
      BY <1>3, <1>7, <1>8, <2>3, <3>1
    <3>2. CASE x # s
      BY <1>9, <2>1, <2>5, <2>6, <3>2
    <3> QED
      BY <3>1, <3>2
  <2> QED
    BY <1>9, <2>4, <2>6, JoinBooksKept
<1>22. Activity'
  <2>1. \A x \in Slots : /\ x # s /\ status[x] = "running" => status'[x] = "running"
                         /\ awaits'[x].kind = "starting" <=> awaits[x].kind = "starting"
    BY <1>4, <1>5, <1>7, <1>8
  <2> QED
    BY <1>2, <2>1, SuspendedKept
<1> QED
  BY <1>14, <1>15, <1>16, <1>17, <1>18, <1>19, <1>20, <1>21, <1>22

LEMMA AwaitTimeoutStep ==
  ASSUME IInv, NEW s \in Slots, NEW w \in Slots, NEW t \in Slots, AwaitTimeout(s, w, t)
  PROVE  IInv'
<1> USE DEF IInv
<1> DEFINE n == Len(stack)
<1>1. PICK j : j = FreshJoin
  OBVIOUS
<1>2. /\ Running(s) /\ w # t /\ Free(w) /\ Free(t)
      /\ Joins \ JoinsInUse # {}
      /\ status' = [status EXCEPT ![s] = "called", ![w] = "waiting", ![t] = "running"]
      /\ link' = [link EXCEPT ![w] = Ref("task", s), ![t] = Ref("join", j)]
      /\ awaits' = [awaits EXCEPT ![w] = Ref("starting", j)]
      /\ join' = [join EXCEPT ![j] = [remaining |-> 1, parent |-> w, threw |-> 0]]
      /\ thrown' = [thrown EXCEPT ![j] = <<>>]
      /\ stack' = Append([stack EXCEPT ![n].slot = w],
                         [slot |-> t, by |-> "timeout", id |-> None])
      /\ UNCHANGED <<control, ready, pending, roots, finished, pc>>
  BY <1>1 DEF AwaitTimeout
<1>3. j \in Joins /\ \A x \in Slots : awaits[x].id # j /\ link[x] # Ref("join", j)
  BY <1>1, <1>2, FreshJoinFacts
<1>4. /\ pc = "run" /\ status[s] = "running" /\ Live(s) /\ awaits[s] = Nothing /\ link[s] # Nothing
      /\ stack \in Seq(Activations) /\ n \in Nat /\ n > 0 /\ DOMAIN stack = 1..n
      /\ \A i \in 1..n : stack[i] \in Activations /\ stack[i].slot \in Slots
      /\ \A i \in 1..n : i < n => stack[i].slot # s
  BY <1>2, RunningFacts
<1>5. /\ ~Live(w) /\ link[w] = Nothing /\ awaits[w] = Nothing /\ ChildrenOf(w) = {} /\ s # w
      /\ ~Live(t) /\ link[t] = Nothing /\ awaits[t] = Nothing /\ ChildrenOf(t) = {} /\ s # t
      /\ status[w] = "free" /\ status[t] = "free"
  BY <1>2, <1>4, FreeFacts DEF Free
<1>6. /\ status \in [Slots -> Statuses] /\ link \in [Slots -> Links] /\ awaits \in [Slots -> Awaits]
      /\ join \in [Joins -> [remaining: 0..2, parent: {None} \cup Slots, threw: 0..2]]
      /\ thrown \in [Joins -> Seq(BOOLEAN)]
  BY DEF TypeOK
<1>7. /\ Ref("join", j) \in Links /\ Ref("join", j) # Nothing /\ Ref("starting", j) \in Awaits
      /\ Ref("join", j).kind = "join" /\ Ref("join", j).id = j /\ Nothing.kind = "none"
      /\ Ref("starting", j).kind = "starting" /\ Ref("starting", j).id = j
      /\ Ref("starting", j) # Nothing
      /\ Ref("task", s) \in Links /\ Ref("task", s) # Nothing
      /\ Ref("task", s).kind = "task" /\ Ref("task", s).id = s
      /\ \A x : Ref("task", s) # Ref("join", x)
  BY <1>3, RefIs
<1>8. /\ status' \in [Slots -> Statuses] /\ link' \in [Slots -> Links] /\ awaits' \in [Slots -> Awaits]
      /\ status'[s] = "called" /\ status'[w] = "waiting" /\ status'[t] = "running"
      /\ link'[w] = Ref("task", s) /\ link'[t] = Ref("join", j) /\ awaits'[w] = Ref("starting", j)
      /\ \A x \in Slots \ {s, w, t} : status'[x] = status[x]
      /\ \A x \in Slots \ {w, t} : link'[x] = link[x]
      /\ \A x \in Slots \ {w} : awaits'[x] = awaits[x]
  BY <1>2, <1>5, <1>6, <1>7 DEF Statuses
<1>9. /\ join' \in [Joins -> [remaining: 0..2, parent: {None} \cup Slots, threw: 0..2]]
      /\ thrown' \in [Joins -> Seq(BOOLEAN)]
      /\ join'[j].parent = w /\ join'[j].remaining = 1 /\ join'[j].threw = 0
      /\ thrown'[j] = <<>>
      /\ \A i \in Joins \ {j} : join'[i] = join[i] /\ thrown'[i] = thrown[i]
  <2>1. [remaining |-> 1, parent |-> w, threw |-> 0]
          \in [remaining: 0..2, parent: {None} \cup Slots, threw: 0..2]
    OBVIOUS
  <2>2. <<>> \in Seq(BOOLEAN)
    OBVIOUS
  <2> QED
    BY <1>2, <1>3, <1>6, <2>1, <2>2
<1>10. /\ \A x \in Slots \ {w, t} : Live(x)' <=> Live(x)
       /\ Live(t)' /\ Live(w)' /\ Live(s)'
  BY <1>4, <1>8 DEF Live
<1>11. \A x \in Slots : Live(x) => x \notin {w, t} /\ (link[x].kind = "join" => link[x].id \in Joins \ {j})
  BY <1>3, <1>5, <1>6, LinkIs
<1>12. \A x \in Slots : Live(x) /\ link[x].kind = "join" =>
         join'[link[x].id].parent = join[link[x].id].parent
  BY <1>9, <1>11
<1>13. PICK N \in SUBSET Slots : N = {w, t}
  OBVIOUS
<1>14. Rooted'
  <2>1. \A x \in Slots, r \in Slots \ N :
          r \in ChildrenOf(x)' => r \in ChildrenOf(x) /\ x \notin N
    <3> SUFFICES ASSUME NEW x \in Slots, NEW r \in Slots \ N, r \in ChildrenOf(x)'
                 PROVE  r \in ChildrenOf(x)
      BY <1>5, <1>13
    <3>1. Live(r) /\ link'[r] = link[r]
      BY <1>8, <1>10, <1>13 DEF ChildrenOf
    <3>2. link[r].kind = "join" => join'[link[r].id].parent = join[link[r].id].parent
      BY <1>12, <3>1
    <3> QED
      BY <3>1, <3>2 DEF ChildrenOf
  <2>2. w \notin ChildrenOf(w)' /\ w \notin ChildrenOf(t)'
    BY <1>5, <1>7, <1>8, RefIs DEF ChildrenOf
  <2>3. t \notin ChildrenOf(t)'
    BY <1>2, <1>7, <1>8, <1>9, RefIs DEF ChildrenOf
  <2>4. \A D \in SUBSET N : D # {} => \E y \in D : \A x \in D : y \notin ChildrenOf(x)'
    <3> SUFFICES ASSUME NEW D \in SUBSET N, D # {}
                 PROVE  \E y \in D : \A x \in D : y \notin ChildrenOf(x)'
      OBVIOUS
    <3>1. CASE w \in D
      BY <1>13, <2>2, <3>1
    <3>2. CASE w \notin D
      BY <1>13, <2>3, <3>2
    <3> QED
      BY <3>1, <3>2
  <2> QED
    BY <2>1, <2>4, RootedGrows
<1>15. /\ stack' \in Seq(Activations) /\ Len(stack') = n + 1 /\ DOMAIN stack' = 1..(n + 1)
       /\ stack'[n + 1].slot = t /\ stack'[n + 1].by = "timeout"
       /\ stack'[n].slot = w
       /\ \A i \in 1..n : i < n => stack'[i] = stack[i]
       /\ \A i \in 1..n : stack'[i].by = stack[i].by /\ stack'[i].id = stack[i].id
  <2>1. /\ [stack[n] EXCEPT !.slot = w] \in Activations
        /\ [stack[n] EXCEPT !.slot = w].slot = w
        /\ [stack[n] EXCEPT !.slot = w].by = stack[n].by
        /\ [stack[n] EXCEPT !.slot = w].id = stack[n].id
    BY <1>4 DEF Activations
  <2>2. [slot |-> t, by |-> "timeout", id |-> None] \in Activations
    BY DEF Activations
  <2>3. PICK q : q = [stack EXCEPT ![n].slot = w]
    OBVIOUS
  <2>4. /\ q \in Seq(Activations) /\ Len(q) = n /\ DOMAIN q = 1..n
        /\ q[n].slot = w
        /\ \A i \in 1..n : i < n => q[i] = stack[i]
        /\ \A i \in 1..n : q[i].by = stack[i].by /\ q[i].id = stack[i].id
    BY <1>4, <2>1, <2>3
  <2>5. PICK a \in Activations : a = [slot |-> t, by |-> "timeout", id |-> None]
    BY <2>2
  <2>6. stack' = Append(q, a) /\ a.slot = t /\ a.by = "timeout"
    BY <1>2, <2>3, <2>5
  <2>7. /\ stack' \in Seq(Activations) /\ Len(stack') = n + 1 /\ DOMAIN stack' = 1..(n + 1)
        /\ stack'[n + 1] = a
        /\ \A i \in 1..n : stack'[i] = q[i]
    BY <1>4, <2>4, <2>6
  <2>8. n \in 1..n /\ stack'[n].slot = w
    BY <1>4, <2>4, <2>7
  <2>9. /\ \A i \in 1..n : i < n => stack'[i] = stack[i]
        /\ \A i \in 1..n : stack'[i].by = stack[i].by /\ stack'[i].id = stack[i].id
    BY <2>4, <2>7
  <2>10. stack'[n + 1].slot = t /\ stack'[n + 1].by = "timeout"
    BY <2>6, <2>7
  <2> QED
    BY <2>7, <2>8, <2>9, <2>10
<1>16. TypeOK'
  BY <1>2, <1>8, <1>9, <1>15 DEF TypeOK
<1>17. FramesFit'
  <2> SUFFICES ASSUME NEW x \in Slots
               PROVE  /\ status'[x] = "free" => link'[x] = Nothing /\ awaits'[x] = Nothing
                      /\ Live(x)' => link'[x] # Nothing
                      /\ awaits'[x] # Nothing => status'[x] \in {"waiting", "ready"}
                      /\ status'[x] = "waiting" => awaits'[x] # Nothing
                      /\ awaits'[x].kind \in {"starting", "timeout"} => link'[x].kind = "task"
    BY DEF FramesFit, Free
  <2>1. CASE x \in {s, w, t}
    BY <1>2, <1>4, <1>5, <1>7, <1>8, <2>1
  <2>2. CASE x \notin {s, w, t}
    BY <1>8, <1>10, <2>2 DEF FramesFit, Free
  <2> QED
    BY <2>1, <2>2
<1>18. NoOrphans'
  <2>1. HasParent(w)'
    BY <1>7, <1>8 DEF HasParent
  <2>2. HasParent(t)'
    <3>1. awaits'[w] \in {Ref(k, j) : k \in {"join", "starting", "timeout"}}
      BY <1>8
    <3> QED
      BY <1>7, <1>8, <1>9, <1>10, <3>1 DEF HasParent
  <2>3. \A x \in Slots : /\ status[x] = "called" => status'[x] = "called"
                         /\ awaits[x].kind \in {"join", "starting", "timeout"} => awaits'[x] = awaits[x]
                         /\ Live(x) => Live(x)'
    BY <1>4, <1>5, <1>7, <1>8, <1>10
  <2> QED
    BY <1>8, <1>10, <1>12, <1>13, <2>1, <2>2, <2>3, NoOrphansKept
<1>19. Calls'
  <2>1. \A x \in Slots : Live(x) => x \notin {w, t} /\ link[x] # Ref("task", s)
    BY <1>4, <1>7, <1>11, ParentFacts
  <2>2. \A x \in Slots : status'[x] = "called" =>
          \E y \in Slots : Live(y)' /\ link'[y] = Ref("task", x)
    BY <1>8, <1>10, <2>1 DEF Calls
  <2>3. \A x, y \in Slots : Live(x)' /\ Live(y)' /\ link'[x].kind = "task" /\ link'[x] = link'[y] => x = y
    BY <1>7, <1>8, <1>10, <2>1 DEF Calls
  <2> QED
    BY <2>2, <2>3 DEF Calls
<1>20. ProcessBooks' /\ NoneStranded'
  <2>1. \A x \in N : Free(x) /\ link'[x].kind # "process" /\ awaits'[x].kind # "process" /\ Live(x)'
    BY <1>2, <1>5, <1>7, <1>8, <1>10, <1>13
  <2>2. \A x \in Slots \ (N \cup {s}) : status'[x] = status[x] /\ awaits'[x] = awaits[x]
    BY <1>8, <1>13
  <2>3. (\A x \in Slots \ N : link'[x] = link[x]) /\ awaits'[s].kind # "process"
    BY <1>4, <1>5, <1>7, <1>8, <1>13
  <2> QED
    BY <1>2, <1>4, <1>8, <1>10, <2>1, <2>2, <2>3, StartedBooksKept
<1>21. NoneLost'
  BY <1>2, <1>8 DEF NoneLost
<1>22. JoinBooks'
  <2>1. \A i \in Joins \ {j} :
          /\ \A x \in Slots : link'[x] = Ref("join", i) <=> link[x] = Ref("join", i)
          /\ LiveChildren(i)' = LiveChildren(i)
    BY <1>5, <1>7, <1>8, <1>10, RefIs DEF LiveChildren
  <2>2. \A x \in Slots : link'[x] = Ref("join", j) <=> x = t
    BY <1>2, <1>3, <1>7, <1>8
  <2>3. LiveChildren(j)' = {t}
    BY <1>10, <2>2 DEF LiveChildren
  <2>4. JoinCounts(w, j)'
    BY <1>2, <1>7, <1>8, <1>9, <2>2, <2>3 DEF JoinCounts, HasSize
  <2>5. FirstKept(j)'
    BY <1>9 DEF FirstKept
  <2>6. \A x \in Slots : awaits'[x].kind \in {"join", "starting", "timeout"} =>
          \/ x = w
          \/ awaits'[x] = awaits[x] /\ status'[x] = status[x] /\ awaits[x].id # j
    BY <1>3, <1>4, <1>5, <1>7, <1>8
  <2>7. ASSUME NEW x \in Slots, awaits'[x].kind \in {"join", "starting", "timeout"}
        PROVE \/ \E i \in Joins : i = awaits'[x].id /\ JoinCounts(x, i)'
              \/ /\ awaits'[x] = awaits[x] /\ status'[x] = status[x]
                 /\ \A i \in Joins : i = awaits[x].id =>
                      /\ join'[i] = join[i] /\ thrown'[i] = thrown[i]
                      /\ LiveChildren(i)' = LiveChildren(i)
                      /\ \A y \in Slots : link'[y] = Ref("join", i) <=> link[y] = Ref("join", i)
    <3>1. CASE x = w
      BY <1>3, <1>7, <1>8, <2>4, <3>1
    <3>2. CASE x # w
      BY <1>9, <2>1, <2>6, <2>7, <3>2
    <3> QED
      BY <3>1, <3>2
  <2> QED
    BY <1>9, <2>5, <2>7, JoinBooksKept
<1>23. Activity'
  <2>1. ASSUME NEW i \in 1..n, i < n
        PROVE  stack[i].slot \notin {s, w, t}
    <3>1. IF stack[i + 1].by = "inline" THEN status[stack[i].slot] = "running"
                                        ELSE awaits[stack[i].slot].kind = "starting"
      BY <1>4, <2>1 DEF Activity
    <3> QED
      BY <1>4, <1>5, <1>7, <2>1, <3>1
  <2>2. ASSUME NEW i \in 1..(n + 1)
        PROVE  /\ stack'[i].by = "drain" <=> i = 1
               /\ stack'[i].by = "inline" => stack'[i].id \in Processes
               /\ i < n + 1 => IF stack'[i + 1].by = "inline"
                               THEN status'[stack'[i].slot] = "running"
                               ELSE awaits'[stack'[i].slot].kind = "starting"
    <3>1. CASE i = n + 1
      BY <1>4, <1>15, <3>1
    <3>2. CASE i = n
      BY <1>4, <1>7, <1>8, <1>15, <3>2 DEF Activity
    <3>3. CASE i < n
      <4>1. i \in 1..n /\ i + 1 \in 1..n
        BY <1>4, <3>3
      <4>2. /\ stack[i].by = "drain" <=> i = 1
            /\ stack[i].by = "inline" => stack[i].id \in Processes
            /\ IF stack[i + 1].by = "inline" THEN status[stack[i].slot] = "running"
                                             ELSE awaits[stack[i].slot].kind = "starting"
        BY <1>4, <3>3, <4>1 DEF Activity
      <4>3. /\ stack'[i] = stack[i] /\ stack'[i + 1].by = stack[i + 1].by
            /\ status'[stack[i].slot] = status[stack[i].slot]
            /\ awaits'[stack[i].slot] = awaits[stack[i].slot]
        BY <1>4, <1>8, <1>15, <2>1, <3>3, <4>1
      <4> QED
        BY <4>2, <4>3
    <3>4. i = n + 1 \/ i = n \/ i < n
      <4>1. PICK m : m = n
        OBVIOUS
      <4>2. m \in Nat /\ i \in 1..(m + 1)
        BY <1>4, <4>1
      <4>3. i = m + 1 \/ i = m \/ i < m
        BY ONLY <4>2
      <4> QED
        BY <4>1, <4>3
    <3> QED
      BY <3>1, <3>2, <3>3, <3>4
  <2>3. ASSUME NEW i \in 1..(n + 1), NEW k \in 1..(n + 1), i < k
        PROVE  stack'[i].slot # stack'[k].slot
    <3>1. CASE k < n
      <4>1. i \in DOMAIN stack /\ k \in DOMAIN stack /\ stack'[i] = stack[i] /\ stack'[k] = stack[k]
        BY <1>4, <1>15, <2>3, <3>1
      <4> QED
        BY <2>3, <3>1, <4>1 DEF Activity
    <3>2. CASE k = n
      BY <1>4, <1>15, <2>1, <2>3, <3>2
    <3>3. CASE k = n + 1
      <4>1. CASE i = n
        BY <1>2, <1>15, <3>3, <4>1
      <4>2. CASE i < n
        BY <1>4, <1>15, <2>1, <2>3, <3>3, <4>2
      <4>3. PICK m : m = n
        OBVIOUS
      <4>4. m \in Nat /\ i \in 1..(m + 1) /\ i < k /\ k = m + 1
        BY <1>4, <2>3, <3>3, <4>3
      <4>5. i = m \/ i < m
        BY ONLY <4>4
      <4> QED
        BY <4>1, <4>2, <4>3, <4>5
    <3>4. k < n \/ k = n \/ k = n + 1
      <4>1. PICK m : m = n
        OBVIOUS
      <4>2. m \in Nat /\ k \in 1..(m + 1)
        BY <1>4, <4>1
      <4>3. k < m \/ k = m \/ k = m + 1
        BY ONLY <4>2
      <4> QED
        BY <4>1, <4>3
    <3> QED
      BY <3>1, <3>2, <3>3, <3>4
  <2>4. ASSUME NEW x \in Slots, awaits'[x].kind = "starting"
        PROVE  \E i \in 1..(n + 1) : i < n + 1 /\ stack'[i].slot = x
    <3>1. CASE x = w
      BY <1>4, <1>15, <3>1
    <3>2. CASE x # w
      <4>1. PICK i \in 1..n : i < n /\ stack[i].slot = x
        BY <1>4, <1>8, <2>4, <3>2 DEF Activity
      <4>2. i \in 1..(n + 1) /\ i < n + 1 /\ stack'[i].slot = x
        BY <1>4, <1>15, <4>1
      <4> QED
        BY <4>2
    <3> QED
      BY <3>1, <3>2
  <2>5. stack' # <<>> /\ pc' = "run" /\ status'[stack'[n + 1].slot] = "running"
    <3>1. Len(stack') # 0
      BY <1>4, <1>15
    <3> QED
      BY <1>2, <1>4, <1>8, <1>15, <3>1
  <2>6. \A i \in DOMAIN stack' :
          /\ stack'[i].by = "drain" <=> i = 1
          /\ stack'[i].by = "inline" => stack'[i].id \in Processes
          /\ i < Len(stack') => IF stack'[i + 1].by = "inline"
                               THEN status'[stack'[i].slot] = "running"
                               ELSE awaits'[stack'[i].slot].kind = "starting"
    BY <1>15, <2>2
  <2>7. \A i, k \in DOMAIN stack' : i < k => stack'[i].slot # stack'[k].slot
    BY <1>15, <2>3
  <2>8. \A x \in Slots : awaits'[x].kind = "starting" =>
          \E i \in DOMAIN stack' : i < Len(stack') /\ stack'[i].slot = x
    BY <1>15, <2>4
  <2>9. stack'[Len(stack')] = stack'[n + 1]
    BY <1>15
  <2> QED
    BY <2>5, <2>6, <2>7, <2>8, <2>9 DEF Activity, Top
<1> QED
  BY <1>14, <1>16, <1>17, <1>18, <1>19, <1>20, <1>21, <1>22, <1>23

-----------------------------------------------------------------------------
(* Coroutines that end.                                                    *)

\* When the coroutines in D end, the processes in G, whose coroutines are among
\* them, complete: who waited for one of them is resumed, and nobody in D waits
\* any longer.
LEMMA ProcessBooksEnded ==
  ASSUME TypeOK, ProcessBooks, NoneStranded, NEW D \in SUBSET Slots, NEW G \in SUBSET Processes,
         \A q \in Processes : q \in G <=> \E t \in D : Live(t) /\ link[t] = Ref("process", q),
         \A q \in Processes :
           /\ control'[q].spawned = control[q].spawned
           /\ control'[q].done <=> control[q].done \/ q \in G
           /\ IsWaitList(control'[q].waiters)
           /\ Waiters(control'[q].waiters)
                = IF q \in G THEN {} ELSE Waiters(control[q].waiters) \ D,
         \A t \in D : ~Live(t)',
         \A t \in Slots \ D : Live(t)' <=> Live(t),
         \A t \in Slots :
           /\ link'[t].kind = "process" => link'[t] = link[t]
           /\ link[t].kind = "process" /\ Live(t) /\ t \notin D => link'[t] = link[t],
         \A t \in Slots \ D, q \in Processes :
           status[t] = "waiting" /\ awaits[t] = Ref("process", q) =>
             IF q \in G THEN status'[t] = "ready"
                        ELSE status'[t] = "waiting" /\ awaits'[t] = awaits[t],
         \A t \in Slots \ D : status'[t] = "waiting" /\ awaits'[t].kind = "process" =>
           status[t] = "waiting" /\ awaits'[t] = awaits[t],
         \A i \in DOMAIN pending' : \E k \in DOMAIN pending : pending'[i] = pending[k],
         \A t \in roots' : link'[t].kind = "process"
  PROVE  ProcessBooks' /\ NoneStranded'
<1>1. ASSUME NEW t \in Slots, link'[t].kind = "process"
      PROVE  control'[link'[t].id].spawned /\ (Live(t)' <=> ~control'[link'[t].id].done)
  <2>1. PICK q \in Processes : link'[t] = link[t] /\ q = link[t].id /\ link[t] = Ref("process", q)
                               /\ link[t].kind = "process"
    BY <1>1, LinkIs DEF TypeOK
  <2>2. control[q].spawned /\ (Live(t) <=> ~control[q].done)
    BY <2>1 DEF ProcessBooks
  <2>3. CASE t \in D
    <3>1. ~Live(t)' /\ control'[q].spawned
      BY <2>2, <2>3
    <3>2. control'[q].done
      <4>1. CASE Live(t)
        BY <2>1, <2>3, <4>1
      <4>2. CASE ~Live(t)
        BY <2>2, <4>2
      <4> QED
        BY <4>1, <4>2
    <3> QED
      BY <2>1, <3>1, <3>2
  <2>4. CASE t \notin D
    <3>1. q \notin G
      <4> SUFFICES ASSUME q \in G PROVE FALSE
        OBVIOUS
      <4>1. PICK u \in D : Live(u) /\ link[u] = Ref("process", q)
        OBVIOUS
      <4>2. u = t
        BY <2>1, <4>1 DEF ProcessBooks
      <4> QED
        BY <2>4, <4>1, <4>2
    <3> QED
      BY <2>1, <2>2, <2>4, <3>1
  <2> QED
    BY <2>3, <2>4
<1>2. \A t, u \in Slots : link'[t].kind = "process" /\ link'[t] = link'[u] => t = u
  BY DEF ProcessBooks
<1>3. ASSUME NEW q \in Processes, control'[q].done
      PROVE  control'[q].spawned
  <2>1. CASE q \in G
    <3>1. PICK u \in D : link[u] = Ref("process", q)
      BY <2>1
    <3>2. link[u].kind = "process" /\ link[u].id = q
      BY <3>1, RefIs
    <3> QED
      BY <3>2 DEF ProcessBooks
  <2>2. CASE q \notin G
    BY <1>3, <2>2 DEF ProcessBooks
  <2> QED
    BY <2>1, <2>2
<1>4. ASSUME NEW q \in Processes, control'[q].spawned, ~control'[q].done
      PROVE  \E t \in Slots : link'[t] = Ref("process", q)
  <2>1. PICK t \in Slots : link[t] = Ref("process", q)
    BY <1>4 DEF ProcessBooks
  <2>2. link[t].kind = "process" /\ link[t].id = q
    BY <2>1, RefIs
  <2>3. Live(t)
    BY <1>4, <2>2 DEF ProcessBooks
  <2>4. t \notin D
    BY <1>4, <2>1, <2>3
  <2> QED
    BY <2>1, <2>2, <2>3, <2>4
<1>5. ASSUME NEW i \in DOMAIN pending'
      PROVE  control'[pending'[i]].spawned
  <2>1. PICK k \in DOMAIN pending : pending'[i] = pending[k]
    OBVIOUS
  <2>2. pending[k] \in Processes
    BY EntryTypes
  <2> QED
    BY <2>1, <2>2 DEF ProcessBooks
<1>6. ASSUME NEW q \in Processes, NEW t \in Waiters(control'[q].waiters)
      PROVE  status'[t] = "waiting" /\ awaits'[t] = Ref("process", q)
  <2>1. q \notin G /\ t \in Waiters(control[q].waiters) \ D
    BY <1>6
  <2>2. t \in Slots \ D /\ status[t] = "waiting" /\ awaits[t] = Ref("process", q)
    BY <2>1, WaitersAreSlots DEF ProcessBooks
  <2> QED
    BY <2>1, <2>2
<1>7. ProcessBooks'
  BY <1>1, <1>2, <1>3, <1>4, <1>5, <1>6 DEF ProcessBooks
<1>8. NoneStranded'
  <2> SUFFICES ASSUME NEW t \in Slots, status'[t] = "waiting", awaits'[t].kind = "process"
               PROVE  ~control'[awaits'[t].id].done /\ t \in Waiters(control'[awaits'[t].id].waiters)
    BY DEF NoneStranded
  <2>1. t \notin D
    BY DEF Live
  <2>2. status[t] = "waiting" /\ awaits'[t] = awaits[t]
    BY <2>1
  <2>3. PICK q \in Processes : q = awaits[t].id /\ awaits[t] = Ref("process", q)
    BY <2>2, AwaitIs DEF TypeOK
  <2>4. ~control[q].done /\ t \in Waiters(control[q].waiters)
    BY <2>2, <2>3 DEF NoneStranded
  <2>5. q \notin G
    BY <2>1, <2>2, <2>3
  <2>6. ~control'[q].done
    BY <2>4, <2>5
  <2>7. t \in Waiters(control'[q].waiters)
    <3>1. Waiters(control'[q].waiters) = Waiters(control[q].waiters) \ D
      BY <2>5
    <3> QED
      BY <2>1, <2>4, <3>1
  <2>8. awaits'[t].id = q
    BY <2>2, <2>3
  <2> QED
    BY <2>6, <2>7, <2>8
<1> QED
  BY <1>7, <1>8

\* Everyone who waits is resumed.
LEMMA WokenFacts ==
  ASSUME NEW w \in ListsOver(Slots), IsWaitList(w), NEW q \in Seq(Slots)
  PROVE  /\ q \o Woken(w) \in Seq(Slots)
         /\ \A i \in DOMAIN q : i \in DOMAIN (q \o Woken(w)) /\ (q \o Woken(w))[i] = q[i]
         /\ \A c \in Waiters(w) : \E i \in DOMAIN (q \o Woken(w)) : (q \o Woken(w))[i] = c
<1> DEFINE o == Woken(w)
<1>1. Waiters(w) \subseteq Slots
  BY ListType
<1>2. IsFiniteSet(Waiters(w))
  BY <1>1, FS_Subset, TasksAssumption
<1>3. o \in Seq(Waiters(w)) /\ \A c \in Waiters(w) : \E i \in DOMAIN o : o[i] = c
  BY <1>2, InOrderComplete DEF Woken, Waiters
<1>4. o \in Seq(Slots)
  BY <1>1, <1>3
<1> HIDE DEF o
<1>5. /\ q \o o \in Seq(Slots)
      /\ \A i \in DOMAIN q : i \in DOMAIN (q \o o) /\ (q \o o)[i] = q[i]
  BY <1>4
<1>6. \A i \in DOMAIN o : Len(q) + i \in DOMAIN (q \o o) /\ (q \o o)[Len(q) + i] = o[i]
  BY <1>4
<1>7. \A c \in Waiters(w) : \E i \in DOMAIN (q \o o) : (q \o o)[i] = c
  BY <1>3, <1>6
<1> QED
  BY <1>5, <1>7 DEF o

LEMMA EmptyListFacts ==
  /\ EmptyList \in ListsOver(Slots) /\ Waiters(EmptyList) = {} /\ IsWaitList(EmptyList)
BY DEF EmptyList, ListsOver, Waiters, IsWaitList

LEMMA FinishTaskStep ==
  ASSUME IInv, NEW s \in Slots, FinishTask(s)
  PROVE  IInv'
<1> USE DEF IInv
<1> DEFINE n == Len(stack)
<1>1. Running(s) /\ link[s].kind = "task"
  BY DEF FinishTask
<1>2. /\ pc = "run" /\ status[s] = "running" /\ Live(s) /\ awaits[s] = Nothing
      /\ stack \in Seq(Activations) /\ n \in Nat /\ n > 0 /\ DOMAIN stack = 1..n
      /\ \A i \in 1..n : stack[i] \in Activations /\ stack[i].slot \in Slots
      /\ stack[n].slot = s
      /\ \A i \in 1..n : i < n => stack[i].slot # s
  BY <1>1, RunningFacts
<1>3. PICK u \in Slots : /\ u = link[s].id /\ status[u] = "called" /\ Live(u) /\ s \in ChildrenOf(u)
                         /\ link[s] = Ref("task", u)
  BY <1>1, <1>2, ParentFacts, LinkIs DEF TypeOK
<1>4. /\ status' = [status EXCEPT ![s] = "free", ![u] = "running"]
      /\ stack' = [stack EXCEPT ![n].slot = u]
      /\ link' = [link EXCEPT ![s] = Nothing]
      /\ UNCHANGED <<awaits, control, join, thrown, ready, pending, roots, finished, pc>>
  BY <1>3 DEF FinishTask
<1>5. s # u /\ awaits[u] = Nothing
  BY <1>2, <1>3 DEF FramesFit
<1>6. /\ status \in [Slots -> Statuses] /\ link \in [Slots -> Links] /\ awaits \in [Slots -> Awaits]
  BY DEF TypeOK
<1>7. Nothing \in Links /\ Nothing.kind = "none"
  BY RefIs
<1>8. /\ status' \in [Slots -> Statuses] /\ link' \in [Slots -> Links]
      /\ status'[s] = "free" /\ status'[u] = "running" /\ link'[s] = Nothing
      /\ \A x \in Slots \ {s, u} : status'[x] = status[x]
      /\ \A x \in Slots \ {s} : link'[x] = link[x]
  BY <1>4, <1>5, <1>6, <1>7 DEF Statuses
<1>9. /\ \A x \in Slots \ {s} : Live(x)' <=> Live(x)
      /\ ~Live(s)'
  BY <1>3, <1>8 DEF Live
<1>10. \A x \in Slots : ChildrenOf(x)' \subseteq ChildrenOf(x)
  BY <1>4, <1>8, <1>9 DEF ChildrenOf
<1>11. Rooted'
  BY <1>10, RootedShrinks
<1>12. /\ stack' \in Seq(Activations) /\ Len(stack') = n /\ DOMAIN stack' = 1..n
       /\ stack'[n].slot = u
       /\ \A i \in 1..n : i < n => stack'[i] = stack[i]
       /\ \A i \in 1..n : stack'[i].by = stack[i].by /\ stack'[i].id = stack[i].id
  <2>1. [stack[n] EXCEPT !.slot = u] \in Activations
        /\ [stack[n] EXCEPT !.slot = u].slot = u
        /\ [stack[n] EXCEPT !.slot = u].by = stack[n].by
        /\ [stack[n] EXCEPT !.slot = u].id = stack[n].id
    BY <1>2 DEF Activations
  <2> QED
    BY <1>2, <1>4, <2>1
<1>13. TypeOK'
  BY <1>4, <1>8, <1>12 DEF TypeOK
<1>14. FramesFit'
  BY <1>2, <1>4, <1>5, <1>7, <1>8, <1>9 DEF FramesFit, Free
<1>15. \A x \in ChildrenOf(u) : x = s
  <2> SUFFICES ASSUME NEW x \in ChildrenOf(u) PROVE x = s
    OBVIOUS
  <2>1. x \in Slots /\ Live(x)
    BY DEF ChildrenOf
  <2>2. CASE link[x] = Ref("task", u)
    BY <1>1, <1>2, <1>3, <2>1, <2>2 DEF Calls
  <2>3. CASE link[x].kind = "join" /\ join[link[x].id].parent = u
    BY <1>5, <1>7, <2>1, <2>3, ParentFacts
  <2> QED
    BY <2>2, <2>3 DEF ChildrenOf
<1>16. NoOrphans'
  <2>1. \A x \in Slots : Live(x)' => Live(x) /\ link'[x] = link[x] /\ join' = join
    BY <1>4, <1>8, <1>9
  <2>2. \A y \in ChildrenOf(u) : ~Live(y)'
    BY <1>9, <1>15
  <2>3. \A x \in Slots \ {u} : /\ status[x] = "called" => status'[x] = "called"
                               /\ awaits'[x] = awaits[x]
                               /\ awaits[x].kind \in {"join", "starting", "timeout"} /\ Live(x) => Live(x)'
    BY <1>2, <1>4, <1>7, <1>8, <1>9
  <2> QED
    BY <1>4, <1>6, <2>1, <2>2, <2>3, NoOrphansKept
<1>17. Calls'
  <2>1. \A x \in Slots : status'[x] = "called" => x # u /\ status[x] = "called"
    BY <1>5, <1>8
  <2>2. \A x \in Slots : x # u => link[s] # Ref("task", x)
    BY <1>3, RefIs
  <2>3. \A x \in Slots : status'[x] = "called" => \E y \in Slots : Live(y)' /\ link'[y] = Ref("task", x)
    BY <1>8, <1>9, <2>1, <2>2 DEF Calls
  <2>4. \A x, y \in Slots : Live(x)' /\ Live(y)' /\ link'[x].kind = "task" /\ link'[x] = link'[y] => x = y
    BY <1>8, <1>9 DEF Calls
  <2> QED
    BY <2>3, <2>4 DEF Calls
<1>18. ProcessBooks' /\ NoneStranded'
  <2>1. \A x \in roots : link'[x].kind = "process"
    BY <1>1, <1>6, <1>8 DEF ProcessBooks, TypeOK
  <2>2. \A x \in Slots :
           /\ link'[x].kind = "process" => link'[x] = link[x] /\ (Live(x)' <=> Live(x))
           /\ link[x].kind = "process" /\ Live(x) => link'[x] = link[x]
           /\ status[x] = "waiting" => status'[x] = "waiting"
           /\ status'[x] = "waiting" => status[x] = "waiting"
    BY <1>1, <1>2, <1>3, <1>7, <1>8, <1>9
  <2> QED
    BY <1>4, <2>1, <2>2, ProcessBooksKept
<1>19. NoneLost'
  BY <1>4, <1>8 DEF NoneLost
<1>20. JoinBooks'
  <2>1. \A j \in Joins : /\ \A x \in Slots : link'[x] = Ref("join", j) <=> link[x] = Ref("join", j)
                         /\ LiveChildren(j)' = LiveChildren(j)
    <3>1. \A j \in Joins : link[s] # Ref("join", j) /\ link'[s] # Ref("join", j)
      BY <1>1, <1>7, <1>8, RefIs
    <3> QED
      BY <1>8, <1>9, <3>1 DEF LiveChildren
  <2>2. \A x \in Slots : awaits[x].kind \in {"join", "starting", "timeout"} => x # s /\ x # u
    BY <1>2, <1>5, <1>7
  <2> QED
    BY <1>4, <1>8, <2>1, <2>2, JoinBooksKept
<1>21. Activity'
  <2>1. ASSUME NEW i \in 1..n, i < n
        PROVE  stack[i].slot # u /\ stack[i].slot # s
    <3>1. IF stack[i + 1].by = "inline" THEN status[stack[i].slot] = "running"
                                        ELSE awaits[stack[i].slot].kind = "starting"
      BY <1>2, <2>1 DEF Activity
    <3> QED
      BY <1>2, <1>3, <1>5, <1>7, <2>1, <3>1
  <2>2. ASSUME NEW i \in 1..n
        PROVE  /\ stack'[i].by = "drain" <=> i = 1
               /\ stack'[i].by = "inline" => stack'[i].id \in Processes
               /\ i < n => IF stack'[i + 1].by = "inline"
                           THEN status'[stack'[i].slot] = "running"
                           ELSE awaits'[stack'[i].slot].kind = "starting"
    <3>1. /\ stack[i].by = "drain" <=> i = 1
          /\ stack[i].by = "inline" => stack[i].id \in Processes
          /\ i < n => IF stack[i + 1].by = "inline" THEN status[stack[i].slot] = "running"
                                                    ELSE awaits[stack[i].slot].kind = "starting"
      BY <1>2 DEF Activity
    <3>2. i < n => stack'[i] = stack[i] /\ stack'[i + 1].by = stack[i + 1].by
                    /\ status'[stack[i].slot] = status[stack[i].slot]
      BY <1>2, <1>8, <1>12, <2>1
    <3> QED
      BY <1>4, <1>12, <3>1, <3>2
  <2>3. ASSUME NEW i \in 1..n, NEW k \in 1..n, i < k
        PROVE  stack'[i].slot # stack'[k].slot
    <3>1. CASE k < n
      BY <1>2, <1>12, <2>3, <3>1 DEF Activity
    <3>2. CASE k = n
      BY <1>2, <1>12, <2>1, <2>3, <3>2
    <3> QED
      BY <1>2, <3>1, <3>2
  <2>4. \A x \in Slots : awaits'[x].kind = "starting" =>
          \E i \in 1..n : i < n /\ stack'[i].slot = x
    BY <1>2, <1>4, <1>12 DEF Activity
  <2>5. stack' # <<>> /\ pc' = "run" /\ status'[stack'[n].slot] = "running"
    <3>1. Len(stack') # 0
      BY <1>2, <1>12
    <3> QED
      BY <1>2, <1>4, <1>8, <1>12, <3>1
  <2> QED
    BY <1>12, <2>2, <2>3, <2>4, <2>5 DEF Activity, Top
<1> QED
  BY <1>11, <1>13, <1>14, <1>16, <1>17, <1>18, <1>19, <1>20, <1>21

\* Who runs has no children.
LEMMA RunningIsLeaf ==
  ASSUME TypeOK, NoOrphans, NEW s \in Slots, status[s] = "running", awaits[s] = Nothing
  PROVE  ChildrenOf(s) = {}
<1> SUFFICES ASSUME NEW t \in ChildrenOf(s) PROVE FALSE
  OBVIOUS
<1>1. t \in Slots /\ Live(t) /\ Nothing.kind = "none"
  BY RefIs DEF ChildrenOf
<1>2. CASE link[t] = Ref("task", s)
  <2>1. link[t].kind = "task" /\ link[t].id = s
    BY <1>2, RefIs
  <2> QED
    BY <1>1, <2>1, ParentFacts
<1>3. CASE link[t].kind = "join" /\ join[link[t].id].parent = s
  BY <1>1, <1>3, ParentFacts
<1> QED
  BY <1>2, <1>3 DEF ChildrenOf

LEMMA FinishProcessStep ==
  ASSUME IInv, NEW s \in Slots, NEW x \in BOOLEAN, FinishProcess(s, x)
  PROVE  IInv'
<1> USE DEF IInv
<1>1. Running(s) /\ Suspended /\ link[s].kind \in {"process", "none"}
  BY DEF FinishProcess
<1>2. /\ pc = "run" /\ status[s] = "running" /\ Live(s) /\ awaits[s] = Nothing /\ link[s] # Nothing
  BY <1>1, RunningFacts
<1>3. PICK p \in Processes : p = link[s].id /\ link[s] = Ref("process", p) /\ link[s].kind = "process"
  BY <1>1, <1>2, LinkIs DEF TypeOK
<1>22. /\ \A q : link[s] = Ref("process", q) <=> q = p
       /\ \A j : link[s] # Ref("join", j) /\ link[s] # Ref("task", j)
  BY <1>3, RefIs
<1>4. PICK w : w = control[p].waiters
  OBVIOUS
<1>5. /\ w \in ListsOver(Slots) /\ IsWaitList(w) /\ Waiters(w) \subseteq Slots
      /\ \A t \in Waiters(w) : status[t] = "waiting" /\ awaits[t] = Ref("process", p)
  BY <1>4, WaitersAreSlots DEF ProcessBooks
<1>6. /\ status' = Readied([status EXCEPT ![s] = "done"], Waiters(w))
      /\ control' = Complete(control, p, FALSE, x)
      /\ ready' = ready \o Woken(w)
      /\ roots' = roots \cup {s}
      /\ UNCHANGED <<link, awaits, join, thrown, pending, finished>>
  BY <1>3, <1>4 DEF FinishProcess, WaitersOf, Completed
<1>7. /\ status \in [Slots -> Statuses] /\ awaits \in [Slots -> Awaits] /\ link \in [Slots -> Links]
      /\ ready \in Seq(Slots)
  BY DEF TypeOK
<1>8. /\ status' \in [Slots -> Statuses]
      /\ status'[s] = "done" /\ s \notin Waiters(w)
      /\ \A t \in Waiters(w) : status'[t] = "ready"
      /\ \A t \in Slots : t # s /\ t \notin Waiters(w) => status'[t] = status[t]
  BY <1>2, <1>5, <1>6, <1>7 DEF Readied, Statuses
<1>9. /\ \A t \in Slots \ {s} : Live(t)' <=> Live(t)
      /\ ~Live(s)'
  BY <1>5, <1>8 DEF Live
<1>10. /\ \A q \in Processes \ {p} : control'[q] = control[q]
       /\ control'[p].spawned = control[p].spawned /\ control'[p].done
       /\ control'[p].waiters = EmptyList
       /\ ControlTypeOK(control')
  <2>1. ControlTypeOK(control)
    BY DEF TypeOK, ControlTypeOK
  <2>2. PICK W \in SUBSET Slots : control[p] \in ControlsOf(W)
    BY <2>1 DEF ControlTypeOK
  <2>3. PICK d : d = [control[p] EXCEPT !.done = TRUE, !.cancelled = FALSE, !.requested = FALSE,
                                        !.threw = x, !.waiters = EmptyList]
    OBVIOUS
  <2>4. EndsAs(control[p], d)
    BY <2>2, <2>3, EndsAsFacts, Zenon
  <2>5. control' = [control EXCEPT ![p] = d]
    BY <1>6, <2>3 DEF Complete
  <2>6. CompletesIn(control, [control EXCEPT ![p] = d], p)
    BY <2>1, <2>4, CompleteFacts, Zenon
  <2> QED
    BY <2>5, <2>6 DEF CompletesIn
<1>11. ChildrenOf(s) = {}
  BY <1>2, RunningIsLeaf
<1>12. Rooted'
  <2>1. \A t \in Slots : ChildrenOf(t)' \subseteq ChildrenOf(t)
    BY <1>6, <1>9 DEF ChildrenOf
  <2> QED
    BY <2>1, RootedShrinks
<1>13. /\ ready' \in Seq(Slots)
       /\ \A i \in DOMAIN ready : i \in DOMAIN ready' /\ ready'[i] = ready[i]
       /\ \A t \in Waiters(w) : \E i \in DOMAIN ready' : ready'[i] = t
  BY <1>5, <1>6, <1>7, WokenFacts
<1>14. TypeOK'
  BY <1>1, <1>6, <1>8, <1>10, <1>13 DEF TypeOK, ControlTypeOK, Suspended
<1>15. FramesFit'
  <2>1. \A t \in Waiters(w) : awaits[t] # Nothing /\ awaits[t].kind = "process" /\ Live(t)
    BY <1>5, RefIs DEF Live
  <2>2. link' = link /\ awaits' = awaits
    BY <1>6
  <2>3. awaits[s].kind = "none"
    BY <1>2, RefIs
  <2> QED
    BY <1>2, <1>8, <1>9, <2>1, <2>2, <2>3 DEF FramesFit, Free
<1>16. NoOrphans'
  <2>1. \A t \in Slots : Live(t)' => Live(t) /\ link'[t] = link[t] /\ join' = join
    BY <1>6, <1>9
  <2>2. \A t \in Slots \ {s} : /\ status[t] = "called" => status'[t] = "called"
                               /\ Live(t) => Live(t)'
    BY <1>5, <1>8, <1>9
  <2> QED
    BY <1>6, <1>7, <1>11, <2>1, <2>2, NoOrphansKept
<1>17. Calls'
  <2>1. \A t \in Slots : status'[t] = "called" => status[t] = "called"
    BY <1>8
  <2>2. \A t \in Slots : link[s] # Ref("task", t)
    BY <1>3, RefIs
  <2> QED
    BY <1>6, <1>9, <2>1, <2>2 DEF Calls
<1>18. ProcessBooks' /\ NoneStranded'
  <2>1. PICK D \in SUBSET Slots, G \in SUBSET Processes : D = {s} /\ G = {p}
    OBVIOUS
  <2>2. \A q \in Processes : q \in G <=> \E t \in D : Live(t) /\ link[t] = Ref("process", q)
    BY <1>2, <1>22, <2>1
  <2>3. \A q \in Processes :
           /\ control'[q].spawned = control[q].spawned
           /\ control'[q].done <=> control[q].done \/ q \in G
           /\ IsWaitList(control'[q].waiters)
           /\ Waiters(control'[q].waiters)
                = IF q \in G THEN {} ELSE Waiters(control[q].waiters) \ D
    <3>1. \A q \in Processes : s \notin Waiters(control[q].waiters) /\ IsWaitList(control[q].waiters)
      BY <1>2 DEF ProcessBooks
    <3>2. \A q \in Processes : Waiters(control[q].waiters) = Waiters(control[q].waiters) \ D
      BY <2>1, <3>1
    <3> QED
      BY <1>10, <2>1, <3>1, <3>2, EmptyListFacts
  <2>4. \A t \in Slots \ D, q \in Processes :
           status[t] = "waiting" /\ awaits[t] = Ref("process", q) =>
             IF q \in G THEN status'[t] = "ready"
                        ELSE status'[t] = "waiting" /\ awaits'[t] = awaits[t]
    <3> SUFFICES ASSUME NEW t \in Slots \ D, NEW q \in Processes,
                        status[t] = "waiting", awaits[t] = Ref("process", q)
                 PROVE  IF q \in G THEN status'[t] = "ready"
                                   ELSE status'[t] = "waiting" /\ awaits'[t] = awaits[t]
      OBVIOUS
    <3>1. t \in Waiters(control[q].waiters)
      BY RefIs DEF NoneStranded
    <3>2. CASE q = p
      BY <1>4, <1>8, <2>1, <3>1, <3>2
    <3>3. CASE q # p
      <4>1. t \notin Waiters(w)
        BY <1>5, <3>3, RefIs
      <4> QED
        BY <1>6, <1>8, <2>1, <3>3, <4>1
    <3> QED
      BY <3>2, <3>3
  <2>5. \A t \in Slots \ D : status'[t] = "waiting" =>
           status[t] = "waiting" /\ awaits'[t] = awaits[t]
    BY <1>6, <1>8, <2>1
  <2>6. \A t \in roots' : link'[t].kind = "process"
    BY <1>3, <1>6 DEF ProcessBooks
  <2>7. /\ \A t \in D : ~Live(t)'
        /\ \A t \in Slots \ D : Live(t)' <=> Live(t)
    BY <1>9, <2>1
  <2>8. link' = link /\ \A i \in DOMAIN pending' : i \in DOMAIN pending /\ pending'[i] = pending[i]
    BY <1>6
  <2>9. /\ \A t \in Slots :
             /\ link'[t].kind = "process" => link'[t] = link[t]
             /\ link[t].kind = "process" /\ Live(t) /\ t \notin D => link'[t] = link[t]
        /\ \A t \in Slots \ D : status'[t] = "waiting" /\ awaits'[t].kind = "process" =>
             status[t] = "waiting" /\ awaits'[t] = awaits[t]
        /\ \A i \in DOMAIN pending' : \E k \in DOMAIN pending : pending'[i] = pending[k]
    BY <2>5, <2>8
  <2>10. TypeOK /\ ProcessBooks /\ NoneStranded
    OBVIOUS
  <2> QED
    BY ONLY <2>2, <2>3, <2>4, <2>6, <2>7, <2>9, <2>10, ProcessBooksEnded
<1>19. NoneLost'
  BY <1>8, <1>13 DEF NoneLost
<1>20. JoinBooks'
  <2>1. \A j \in Joins : LiveChildren(j)' = LiveChildren(j)
    BY <1>6, <1>9, <1>22 DEF LiveChildren
  <2>2. \A t \in Slots : awaits[t].kind \in {"join", "starting", "timeout"} =>
          t # s /\ t \notin Waiters(w)
    BY <1>2, <1>5, RefIs
  <2> QED
    BY <1>6, <1>8, <2>1, <2>2, JoinBooksKept
<1>21. Activity'
  <2>1. \A t \in Slots : t # s /\ status[t] = "running" => status'[t] = "running"
    BY <1>5, <1>8
  <2> QED
    BY <1>1, <1>6, <2>1, SuspendedKept
<1> QED
  BY <1>12, <1>14, <1>15, <1>16, <1>17, <1>18, <1>19, <1>20, <1>21

\* A set that loses a member has one member less.
LEMMA SizeLess ==
  ASSUME NEW S, NEW n \in 0..2, HasSize(S, n), NEW s \in S
  PROVE  n \in 1..2 /\ HasSize(S \ {s}, n - 1)
<1>1. CASE n = 0
  BY <1>1 DEF HasSize
<1>2. CASE n = 1
  BY <1>2 DEF HasSize
<1>3. CASE n = 2
  <2>1. PICK t, u \in S : t # u /\ S = {t, u}
    BY <1>3 DEF HasSize
  <2>2. CASE s = t
    <3>1. S \ {s} = {u} /\ u \in S \ {s}
      BY <2>1, <2>2
    <3> QED
      BY <1>3, <3>1 DEF HasSize
  <2>3. CASE s = u
    <3>1. S \ {s} = {t} /\ t \in S \ {s}
      BY <2>1, <2>3
    <3> QED
      BY <1>3, <3>1 DEF HasSize
  <2> QED
    BY <2>1, <2>2, <2>3
<1> QED
  BY <1>1, <1>2, <1>3

\* finish_join_child: the exception kept stays the first one, and there is room for
\* its ordinal.
LEMMA JoinAfterFacts ==
  ASSUME TypeOK, NEW j \in Joins, FirstKept(j), NEW x \in BOOLEAN, NEW u, JoinCounts(u, j),
         join[j].remaining \in 1..2, thrown'[j] = Append(thrown[j], x), join'[j] = JoinAfter(j, x)
  PROVE  /\ join'[j] \in [remaining: 0..2, parent: {None} \cup Slots, threw: 0..2]
         /\ join'[j].remaining = join[j].remaining - 1 /\ join'[j].parent = join[j].parent
         /\ Len(thrown'[j]) = Len(thrown[j]) + 1
         /\ FirstKept(j)'
<1>1. PICK n, o : n = Len(thrown[j]) /\ o = join[j]
  OBVIOUS
<1>2. /\ thrown[j] \in Seq(BOOLEAN) /\ n \in Nat /\ DOMAIN thrown[j] = 1..n
      /\ o \in [remaining: 0..2, parent: {None} \cup Slots, threw: 0..2]
  BY <1>1 DEF TypeOK
<1>3. n + o.remaining \in 1..2 /\ n \in 0..1
  <2>1. n + o.remaining = IF awaits[u].kind = "join" THEN 2 ELSE 1
    BY <1>1 DEF JoinCounts
  <2>2. n \in Nat /\ o.remaining \in 1..2
    BY <1>2, <1>1
  <2> QED
    BY <2>1, <2>2
<1>4. /\ Len(thrown'[j]) = n + 1 /\ DOMAIN thrown'[j] = 1..n + 1
      /\ thrown'[j][n + 1] = x
      /\ \A i \in 1..n : thrown'[j][i] = thrown[j][i]
  BY <1>2, <1>1
<1>5. /\ o.threw \in 0..n
      /\ o.threw # 0 => thrown[j][o.threw]
      /\ \A i \in 1..n : thrown[j][i] => o.threw # 0 /\ o.threw <= i
  BY <1>2, <1>1 DEF FirstKept
<1>6. CASE x /\ o.threw = 0
  <2>1. join'[j] = [o EXCEPT !.remaining = o.remaining - 1, !.threw = n + 1]
    BY <1>2, <1>6, <1>1 DEF JoinAfter
  <2>4. n + 1 \in 0..2 /\ o.remaining - 1 \in 0..2
    BY <1>3, <1>1
  <2>2. /\ join'[j].threw = n + 1 /\ join'[j].remaining = o.remaining - 1
        /\ join'[j].parent = o.parent
        /\ join'[j] \in [remaining: 0..2, parent: {None} \cup Slots, threw: 0..2]
    BY <1>2, <2>1, <2>4
  <2>3. \A i \in 1..n + 1 : thrown'[j][i] => n + 1 <= i
    <3> SUFFICES ASSUME NEW i \in 1..n + 1, thrown'[j][i], i \in 1..n
                 PROVE  FALSE
      BY <1>2
    <3> QED
      BY <1>4, <1>5, <1>6
  <2>5. n + 1 # 0 /\ n + 1 \in 0..n + 1 /\ thrown'[j][n + 1]
    BY <1>2, <1>4, <1>6
  <2>6. FirstKept(j)'
    BY <1>4, <2>2, <2>3, <2>5 DEF FirstKept
  <2> QED
    BY <1>4, <1>1, <2>2, <2>6
<1>7. CASE ~(x /\ o.threw = 0)
  <2>1. join'[j] = [o EXCEPT !.remaining = o.remaining - 1]
    BY <1>2, <1>7, <1>1 DEF JoinAfter
  <2>6. o.threw \in 0..2 /\ o.remaining - 1 \in 0..2
    BY <1>2, <1>3, <1>1
  <2>2. /\ join'[j].threw = o.threw /\ join'[j].remaining = o.remaining - 1
        /\ join'[j].parent = o.parent
        /\ join'[j] \in [remaining: 0..2, parent: {None} \cup Slots, threw: 0..2]
    BY <1>2, <2>1, <2>6
  <2>3. \A i \in 1..n + 1 : thrown'[j][i] => o.threw # 0 /\ o.threw <= i
    <3> SUFFICES ASSUME NEW i \in 1..n + 1, thrown'[j][i]
                 PROVE  o.threw # 0 /\ o.threw <= i
      OBVIOUS
    <3>1. CASE i \in 1..n
      BY <1>4, <1>5, <3>1
    <3>2. CASE i = n + 1
      <4>1. x /\ o.threw # 0
        BY <1>4, <1>7, <3>2
      <4> QED
        BY <1>2, <1>5, <3>2, <4>1
    <3> QED
      BY <1>2, <3>1, <3>2
  <2>4. o.threw \in 0..n + 1 /\ (o.threw # 0 => thrown'[j][o.threw])
    BY <1>2, <1>4, <1>5
  <2>5. FirstKept(j)'
    BY <1>4, <2>2, <2>3, <2>4 DEF FirstKept
  <2> QED
    BY <1>4, <1>1, <2>2, <2>5
<1> QED
  BY <1>6, <1>7

LEMMA FinishJoinedStep ==
  ASSUME IInv, NEW s \in Slots, NEW x \in BOOLEAN, FinishJoined(s, x)
  PROVE  IInv'
<1> USE DEF IInv
<1>1. Running(s) /\ Suspended /\ link[s].kind = "join"
  BY DEF FinishJoined
<1>2. /\ pc = "run" /\ status[s] = "running" /\ Live(s) /\ awaits[s] = Nothing /\ link[s] # Nothing
  BY <1>1, RunningFacts
<1>3. /\ status \in [Slots -> Statuses] /\ awaits \in [Slots -> Awaits] /\ link \in [Slots -> Links]
      /\ ready \in Seq(Slots) /\ thrown \in [Joins -> Seq(BOOLEAN)]
      /\ join \in [Joins -> [remaining: 0..2, parent: {None} \cup Slots, threw: 0..2]]
  BY DEF TypeOK
<1>4. link[s].id \in Joins /\ join[link[s].id].parent \in Slots
  BY <1>1, <1>2, ParentFacts
<1>5. PICK j \in Joins, u \in Slots : j = link[s].id /\ u = join[j].parent
  BY <1>4
<1>6. /\ Live(u) /\ awaits[u].kind \in {"join", "starting", "timeout"} /\ awaits[u].id = j
      /\ link[s] = Ref("join", j)
  BY <1>1, <1>2, <1>3, <1>5, LinkIs, ParentFacts
<1>7. /\ JoinCounts(u, j) /\ s # u /\ status[u] \in {"waiting", "ready"}
      /\ FirstKept(j)
  BY <1>2, <1>6, RefIs DEF JoinBooks, FramesFit
<1>8. \A v \in Slots : awaits[v].kind \in {"join", "starting", "timeout"} /\ awaits[v].id = j => v = u
  BY <1>5 DEF JoinBooks, JoinCounts
<1>9. /\ join[j].remaining \in 1..2
      /\ HasSize(LiveChildren(j) \ {s}, join[j].remaining - 1)
  <2>1. s \in LiveChildren(j) /\ HasSize(LiveChildren(j), join[j].remaining)
    BY <1>2, <1>6, <1>7 DEF LiveChildren, JoinCounts
  <2>2. join[j].remaining \in 0..2
    BY <1>3
  <2> QED
    BY <2>1, <2>2, SizeLess
<1> DEFINE wakes == join[j].remaining = 1 /\ status[u] = "waiting"
<1>10. /\ join' = [join EXCEPT ![j] = JoinAfter(j, x)]
       /\ thrown' = [thrown EXCEPT ![j] = Append(@, x)]
       /\ finished' = finished \cup {s}
       /\ UNCHANGED <<link, awaits, control, pending, roots>>
  BY <1>5 DEF FinishJoined
<1>11. /\ status' = Readied([status EXCEPT ![s] = "done"], IF wakes THEN {u} ELSE {})
       /\ ready' = IF wakes THEN Append(ready, u) ELSE ready
  <2>1. JoinAfter(j, x).remaining = join[j].remaining - 1
    BY <1>3 DEF JoinAfter
  <2>2. JoinAfter(j, x).remaining = 0 <=> join[j].remaining = 1
    BY <1>9, <2>1
  <2> QED
    BY <1>5, <2>2 DEF FinishJoined
<1>12. /\ status' \in [Slots -> Statuses] /\ status'[s] = "done"
       /\ \A t \in Slots \ {s, u} : status'[t] = status[t]
       /\ status'[u] = IF wakes THEN "ready" ELSE status[u]
  BY <1>3, <1>7, <1>11 DEF Readied, Statuses
<1>13. /\ \A t \in Slots \ {s} : Live(t)' <=> Live(t)
       /\ ~Live(s)'
  BY <1>6, <1>7, <1>12 DEF Live
<1>14. /\ join' \in [Joins -> [remaining: 0..2, parent: {None} \cup Slots, threw: 0..2]]
       /\ join'[j].remaining = join[j].remaining - 1
       /\ \A k \in Joins : join'[k].parent = join[k].parent
       /\ thrown' \in [Joins -> Seq(BOOLEAN)] /\ Len(thrown'[j]) = Len(thrown[j]) + 1
       /\ \A k \in Joins \ {j} : join'[k] = join[k] /\ thrown'[k] = thrown[k]
       /\ FirstKept(j)'
  <2>1. /\ join'[j] = JoinAfter(j, x) /\ thrown'[j] = Append(thrown[j], x)
        /\ \A k \in Joins \ {j} : join'[k] = join[k] /\ thrown'[k] = thrown[k]
    BY <1>3, <1>10
  <2>2. /\ join'[j] \in [remaining: 0..2, parent: {None} \cup Slots, threw: 0..2]
        /\ join'[j].remaining = join[j].remaining - 1 /\ join'[j].parent = join[j].parent
        /\ Len(thrown'[j]) = Len(thrown[j]) + 1
        /\ FirstKept(j)'
    BY <1>7, <1>9, <2>1, JoinAfterFacts
  <2>3. Append(thrown[j], x) \in Seq(BOOLEAN)
    BY <1>3
  <2>4. join' \in [Joins -> [remaining: 0..2, parent: {None} \cup Slots, threw: 0..2]]
    BY <1>3, <1>10, <2>1, <2>2
  <2>5. thrown' \in [Joins -> Seq(BOOLEAN)]
    BY <1>3, <1>10, <2>3
  <2> QED
    BY <2>1, <2>2, <2>4, <2>5
<1>15. TypeOK'
  <2>1. Append(ready, u) \in Seq(Slots)
    BY <1>3
  <2> QED
    BY <1>1, <1>10, <1>11, <1>12, <1>14, <2>1 DEF TypeOK, Suspended
<1>16. FramesFit'
  BY <1>2, <1>6, <1>10, <1>12, <1>13, RefIs DEF FramesFit, Free
<1>17. ChildrenOf(s) = {}
  BY <1>2, RunningIsLeaf
<1>18. NoOrphans' /\ Rooted'
  <2>1. \A t \in Slots : Live(t)' => /\ Live(t) /\ link'[t] = link[t]
                                     /\ link[t].kind = "join" =>
                                          join'[link[t].id].parent = join[link[t].id].parent
    <3>1. \A t \in Slots : link[t].kind = "join" => link[t].id \in Joins
      BY <1>3, LinkIs
    <3> QED
      BY <1>10, <1>13, <1>14, <3>1
  <2>2. \A t \in Slots \ {s} : /\ status[t] = "called" => status'[t] = "called"
                               /\ Live(t) => Live(t)'
    BY <1>7, <1>12, <1>13
  <2>3. NoOrphans'
    BY <1>3, <1>10, <1>17, <2>1, <2>2, NoOrphansKept
  <2>4. \A t \in Slots : ChildrenOf(t)' \subseteq ChildrenOf(t)
    BY <2>1 DEF ChildrenOf
  <2> QED
    BY <2>3, <2>4, RootedShrinks
<1>19. Calls'
  <2>1. \A t \in Slots : status'[t] = "called" => status[t] = "called"
    BY <1>12
  <2>2. \A t \in Slots : link[s] # Ref("task", t)
    BY <1>6, RefIs
  <2> QED
    BY <1>10, <1>13, <2>1, <2>2 DEF Calls
<1>20. ProcessBooks' /\ NoneStranded'
  <2>1. \A t \in roots' : link'[t].kind = "process"
    BY <1>10 DEF ProcessBooks
  <2>2. \A t \in Slots :
           /\ link'[t].kind = "process" => link'[t] = link[t] /\ (Live(t)' <=> Live(t))
           /\ link[t].kind = "process" /\ Live(t) => link'[t] = link[t]
           /\ status[t] = "waiting" /\ awaits[t].kind = "process" =>
                status'[t] = "waiting" /\ awaits'[t] = awaits[t]
           /\ status'[t] = "waiting" /\ awaits'[t].kind = "process" =>
                status[t] = "waiting" /\ awaits'[t] = awaits[t]
    BY <1>1, <1>2, <1>6, <1>10, <1>12, <1>13
  <2> QED
    BY <1>10, <2>1, <2>2, ProcessBooksKept
<1>21. NoneLost'
  <2>1. /\ \A i \in DOMAIN ready : i \in DOMAIN ready' /\ ready'[i] = ready[i]
        /\ wakes => \E i \in DOMAIN ready' : ready'[i] = u
    <3>1. CASE wakes
      <4>1. ready' = Append(ready, u) /\ Len(ready) \in Nat
        BY <1>3, <1>11, <3>1
      <4>2. Len(ready) + 1 \in DOMAIN ready' /\ ready'[Len(ready) + 1] = u
        BY <1>3, <4>1
      <4> QED
        BY <1>3, <4>1, <4>2
    <3>2. CASE ~wakes
      BY <1>11, <3>2
    <3> QED
      BY <3>1, <3>2
  <2> QED
    BY <1>12, <2>1 DEF NoneLost
<1>22. JoinBooks'
  <2>1. LiveChildren(j)' = LiveChildren(j) \ {s}
    BY <1>10, <1>13 DEF LiveChildren
  <2>2. \A k \in Joins \ {j} : LiveChildren(k)' = LiveChildren(k)
    <3>1. \A k \in Joins \ {j} : link[s] # Ref("join", k)
      BY <1>6, RefIs
    <3> QED
      BY <1>10, <1>13, <3>1 DEF LiveChildren
  <2>3. JoinCounts(u, j)'
    <3>1. HasSize(LiveChildren(j)', join'[j].remaining)
      BY <1>9, <1>14, <2>1
    <3>2. status'[u] = "waiting" => join'[j].remaining > 0
      BY <1>9, <1>12, <1>14
    <3>3. awaits[u].kind = "join" /\ status'[u] = "ready" => join'[j].remaining = 0
      BY <1>7, <1>9, <1>12, <1>14 DEF JoinCounts
    <3>4. Len(thrown'[j]) + join'[j].remaining = Len(thrown[j]) + join[j].remaining
      <4>1. Len(thrown[j]) \in Nat
        BY <1>3
      <4> QED
        BY <1>9, <1>14, <4>1
    <3>5. /\ join[j].parent = u /\ join'[j].parent = u
          /\ Len(thrown[j]) + join[j].remaining = IF awaits[u].kind = "join" THEN 2 ELSE 1
          /\ awaits[u].kind # "join" =>
               \E t \in Slots : /\ link[t] = Ref("join", j)
                                /\ \A v \in Slots : link[v] = Ref("join", j) => v = t
      BY <1>5, <1>7, <1>14 DEF JoinCounts
    <3>6. HasSize(LiveChildren(j), join[j].remaining)'
      BY <3>1 DEF HasSize
    <3> QED
      BY <1>10, <3>2, <3>3, <3>4, <3>5, <3>6 DEF JoinCounts
  <2>4. \A v \in Slots : awaits'[v].kind \in {"join", "starting", "timeout"} =>
           \/ \E k \in Joins : k = awaits'[v].id /\ JoinCounts(v, k)'
           \/ v # u /\ v # s /\ awaits[v].id # j
    BY <1>2, <1>6, <1>8, <1>10, <2>3, RefIs
  <2>5. \A k \in Joins : FirstKept(k)' \/ (join'[k] = join[k] /\ thrown'[k] = thrown[k])
    BY <1>14
  <2>6. \A v \in Slots : awaits'[v].kind \in {"join", "starting", "timeout"} =>
           \/ \E k \in Joins : k = awaits'[v].id /\ JoinCounts(v, k)'
           \/ /\ awaits[v].kind \in {"join", "starting", "timeout"}
              /\ awaits'[v].id = awaits[v].id
              /\ awaits'[v].kind = "join" <=> awaits[v].kind = "join"
              /\ \/ status'[v] = status[v]
                 \/ awaits[v].kind # "join" /\ status'[v] # "waiting"
              /\ \A k \in Joins : k = awaits[v].id =>
                   /\ join'[k] = join[k] /\ thrown'[k] = thrown[k]
                   /\ LiveChildren(k)' = LiveChildren(k)
                   /\ \A t \in Slots : link'[t] = Ref("join", k) <=> link[t] = Ref("join", k)
    BY <1>10, <1>12, <1>14, <2>2, <2>4
  <2> HIDE DEF wakes
  <2> QED
    BY <2>5, <2>6, JoinBooksKept
<1>23. Activity'
  <2>1. \A t \in Slots : t # s /\ status[t] = "running" => status'[t] = "running"
    BY <1>7, <1>12
  <2> QED
    BY <1>1, <1>10, <2>1, SuspendedKept
<1> QED
  BY <1>15, <1>16, <1>18, <1>19, <1>20, <1>21, <1>22, <1>23

-----------------------------------------------------------------------------
(* Cancellation.                                                           *)

\* What cancel_state of s reaches: a tree of live coroutines with s at its root.
LEMMA CancelTree ==
  ASSUME TypeOK, Rooted, NEW s \in Slots, Live(s), NEW D, D = CancelSet(s)
  PROVE  /\ D \in SUBSET Slots /\ s \in D
         /\ \A t \in D : Live(t) /\ ChildrenOf(t) \subseteq D
         /\ \A t \in D \ {s} : /\ link[t].kind \in {"task", "join"}
                               /\ \A x \in Slots : t \in ChildrenOf(x) => x \in D
         /\ \A x \in Slots : s \in ChildrenOf(x) => x \notin D
<1>1. /\ D \in SUBSET Slots /\ s \in D
      /\ \A t \in D : Live(t) /\ ChildrenOf(t) \subseteq D
      /\ \A t \in D \ {s} : \E x \in D : t \in ChildrenOf(x)
  BY CancelSetFacts
<1>2. ASSUME NEW t \in D \ {s}
      PROVE  /\ link[t].kind \in {"task", "join"}
             /\ \A x \in Slots : t \in ChildrenOf(x) => x \in D
  <2>1. PICK y \in D : t \in ChildrenOf(y)
    BY <1>1
  <2>2. CASE link[t] = Ref("task", y)
    <3>1. link[t].kind = "task" /\ link[t].id = y
      BY <2>2, RefIs
    <3>2. ASSUME NEW x \in Slots, t \in ChildrenOf(x)
          PROVE  x = y
      <4>1. link[t] = Ref("task", x)
        BY <3>1, <3>2 DEF ChildrenOf
      <4> QED
        BY <3>1, <4>1, RefIs
    <3> QED
      BY <2>1, <3>1, <3>2
  <2>3. CASE link[t].kind = "join" /\ join[link[t].id].parent = y
    <3>1. ASSUME NEW x \in Slots, t \in ChildrenOf(x)
          PROVE  x = y
      <4>1. link[t] # Ref("task", x)
        BY <2>3, RefIs
      <4> QED
        BY <2>3, <3>1, <4>1 DEF ChildrenOf
    <3> QED
      BY <2>1, <2>3, <3>1
  <2> QED
    BY <2>1, <2>2, <2>3 DEF ChildrenOf
<1>3. \A x \in Slots : s \in ChildrenOf(x) => x \notin D
  <2>1. PICK r \in D : \A x \in D : r \notin ChildrenOf(x)
    BY <1>1 DEF Rooted
  <2>2. r = s
    BY <1>1, <2>1
  <2> QED
    BY <2>1, <2>2
<1> QED
  BY <1>1, <1>2, <1>3

\* Who is cancelled is taken from every list of waiters.
LEMMA WithdrawnFacts ==
  ASSUME TypeOK, ProcessBooks, NEW D \in SUBSET Slots, NEW ctl, ctl = Withdrawn(D)
  PROVE  /\ ControlTypeOK(ctl)
         /\ \A p \in Processes :
              /\ ctl[p].spawned = control[p].spawned /\ ctl[p].done = control[p].done
              /\ ctl[p].waiters \in ListsOver(Slots) /\ IsWaitList(ctl[p].waiters)
              /\ Waiters(ctl[p].waiters) = Waiters(control[p].waiters) \ D
<1>1. ASSUME NEW p \in Processes
      PROVE  /\ ctl[p].spawned = control[p].spawned /\ ctl[p].done = control[p].done
             /\ ctl[p].waiters \in ListsOver(Slots) /\ IsWaitList(ctl[p].waiters)
             /\ Waiters(ctl[p].waiters) = Waiters(control[p].waiters) \ D
             /\ \E W \in SUBSET Slots : ctl[p] \in ControlsOf(W)
  <2>1. PICK W \in SUBSET Slots : control[p] \in ControlsOf(W)
    BY DEF TypeOK
  <2>2. PICK v \in ListsOver(Slots) : v = control[p].waiters
    BY <2>1, ControlIs
  <2>3. IsWaitList(v)
    BY <2>2 DEF ProcessBooks
  <2>4. PICK w : w = EraseAll(v, D)
    OBVIOUS
  <2>5. w \in ListsOver(Slots) /\ Waiters(w) = Waiters(v) \ D /\ IsWaitList(w)
    BY <2>3, <2>4, ListType, ListOrder
  <2>6. ctl[p] = [control[p] EXCEPT !.waiters = w]
    BY <2>2, <2>4 DEF Withdrawn
  <2>7. ctl[p] \in ControlsOf(Waiters(w)) /\ Waiters(w) \in SUBSET Slots
    <3>1. PICK c \in ControlsOf(W) : c = control[p]
      BY <2>1
    <3>2. [c EXCEPT !.waiters = w] \in ControlsOf(Waiters(w)) /\ Waiters(w) \in SUBSET Slots
      BY <2>5, ControlWith
    <3> QED
      BY <2>6, <3>1, <3>2
  <2>8. ctl[p].spawned = control[p].spawned /\ ctl[p].done = control[p].done /\ ctl[p].waiters = w
    BY <2>1, <2>6 DEF ControlsOf
  <2> QED
    BY <2>2, <2>5, <2>7, <2>8
<1>2. ctl = [p \in Processes |-> ctl[p]]
  BY DEF Withdrawn
<1> QED
  BY <1>1, <1>2 DEF ControlTypeOK

\* Those whom the end of s resumes
Resumed(s, D) ==
  {t \in Slots \ D : \E p \in Processes :
     link[s] = Ref("process", p) /\ t \in Waiters(control[p].waiters)}

\* What the ProcessControls are afterwards, when D has been cancelled with s.
CancelledIn(s, D) ==
  /\ ControlTypeOK(control')
  /\ \A p \in Processes :
       /\ control'[p].spawned = control[p].spawned
       /\ control'[p].done <=> control[p].done \/ link[s] = Ref("process", p)
       /\ IsWaitList(control'[p].waiters)
       /\ Waiters(control'[p].waiters)
            = IF link[s] = Ref("process", p) THEN {} ELSE Waiters(control[p].waiters) \ D

LEMMA CancelControl ==
  ASSUME TypeOK, ProcessBooks, NEW s \in Slots, NEW st, NEW F, NEW q, CancelState(s, st, F, q),
         NEW D \in SUBSET Slots, D = CancelSet(s)
  PROVE  /\ CancelledIn(s, D)
         /\ \E w \in ListsOver(Slots) :
              /\ IsWaitList(w) /\ Waiters(w) = Resumed(s, D)
              /\ status' = Readied([t \in Slots |-> IF t \in D THEN "done" ELSE st[t]], Waiters(w))
              /\ ready' = q \o Woken(w)
<1>1. PICK ctl : ctl = Withdrawn(D)
  OBVIOUS
<1>2. /\ ControlTypeOK(ctl)
      /\ \A p \in Processes :
           /\ ctl[p].spawned = control[p].spawned /\ ctl[p].done = control[p].done
           /\ ctl[p].waiters \in ListsOver(Slots) /\ IsWaitList(ctl[p].waiters)
           /\ Waiters(ctl[p].waiters) = Waiters(control[p].waiters) \ D
  BY <1>1, WithdrawnFacts
<1>3. /\ status' = Readied([t \in Slots |-> IF t \in D THEN "done" ELSE st[t]],
                          Waiters(WaitersOf(ctl, s)))
      /\ control' = Completed(ctl, s, TRUE, FALSE)
      /\ ready' = q \o Woken(WaitersOf(ctl, s))
  BY <1>1 DEF CancelState
<1>4. link[s] \in Links
  BY DEF TypeOK
<1>5. CASE link[s].kind = "process"
  <2>1. PICK p \in Processes : p = link[s].id /\ link[s] = Ref("process", p)
    BY <1>4, <1>5, LinkIs
  <2>2. PICK w \in ListsOver(Slots) : w = ctl[p].waiters
    BY <1>2
  <2>3. WaitersOf(ctl, s) = w
    BY <1>5, <2>1, <2>2 DEF WaitersOf
  <2>4. \A r \in Processes : link[s] = Ref("process", r) <=> r = p
    BY <2>1, RefIs
  <2>5. Waiters(w) = Resumed(s, D)
    <3>1. Waiters(w) = Waiters(control[p].waiters) \ D /\ Waiters(control[p].waiters) \subseteq Slots
      BY <1>2, <2>2, WaitersAreSlots
    <3> QED
      BY <2>4, <3>1 DEF Resumed
  <2>6. CompletesIn(ctl, control', p)
    <3>1. PICK W \in SUBSET Slots : ctl[p] \in ControlsOf(W)
      BY <1>2 DEF ControlTypeOK
    <3>2. PICK d : d = [ctl[p] EXCEPT !.done = TRUE, !.cancelled = TRUE, !.requested = FALSE,
                                      !.threw = FALSE, !.waiters = EmptyList]
      OBVIOUS
    <3>3. EndsAs(ctl[p], d)
      BY <3>1, <3>2, EndsAsFacts, Zenon
    <3>4. control' = [ctl EXCEPT ![p] = d]
      BY <1>3, <1>5, <2>1, <3>2 DEF Complete, Completed
    <3>5. CompletesIn(ctl, [ctl EXCEPT ![p] = d], p)
      BY <1>2, <3>3, CompleteFacts, Zenon
    <3> QED
      BY <3>4, <3>5
  <2>7. CancelledIn(s, D)
    <3>1. /\ ControlTypeOK(control')
          /\ \A r \in Processes \ {p} : control'[r] = ctl[r]
          /\ control'[p].spawned = ctl[p].spawned /\ control'[p].done
          /\ control'[p].waiters = EmptyList
      BY <2>6 DEF CompletesIn
    <3> QED
      BY <1>2, <2>4, <3>1, EmptyListFacts DEF CancelledIn
  <2> QED
    BY <1>2, <1>3, <2>2, <2>3, <2>5, <2>7
<1>6. CASE link[s].kind # "process"
  <2>1. WaitersOf(ctl, s) = EmptyList /\ control' = ctl
    BY <1>3, <1>6 DEF WaitersOf, Completed
  <2>2. \A p \in Processes : link[s] # Ref("process", p)
    BY <1>6, RefIs
  <2>3. Waiters(EmptyList) = Resumed(s, D)
    BY <2>2, EmptyListFacts DEF Resumed
  <2>4. CancelledIn(s, D)
    BY <1>2, <2>1, <2>2 DEF CancelledIn
  <2> QED
    BY <1>3, <2>1, <2>3, <2>4, EmptyListFacts
<1> QED
  BY <1>5, <1>6

\* The books of everybody, without what a drain loop or an activation does next.
Books ==
  /\ FramesFit /\ NoOrphans /\ Calls /\ Rooted /\ ProcessBooks
  /\ NoneStranded /\ NoneLost /\ JoinBooks

FramesTypeOK ==
  /\ status \in [Slots -> Statuses] /\ link \in [Slots -> Links] /\ awaits \in [Slots -> Awaits]
  /\ ControlTypeOK(control)
  /\ ready \in Seq(Slots) /\ roots \subseteq Slots /\ finished \subseteq Slots

\* cancel_state of s, a process or the child of a with_timeout.  In the second case
\* the with_timeout, in F, returns to the one that awaits it.
CancelCase(s, st, F, q) ==
  /\ Live(s) /\ link[s].kind \in {"process", "join"}
  /\ st \in [Slots -> Statuses]
  /\ q \in Seq(Slots)
  /\ \A x \in Slots : s \in ChildrenOf(x) <=> x \in F
  /\ \A x \in F : /\ st[x] = "free" /\ link[x].kind = "task" /\ status[x] = "ready"
                  /\ ChildrenOf(x) \subseteq {s}
  /\ \A x \in Slots \ F :
       \/ st[x] = status[x] /\ \A t \in F : t \notin ChildrenOf(x)
       \/ st[x] = "running" /\ status[x] = "called" /\ ChildrenOf(x) \subseteq F
  /\ \A x \in Slots : st[x] = "ready" => \E i \in DOMAIN q : q[i] = x

LEMMA CancelStateStep ==
  ASSUME IInv, NEW s \in Slots, NEW F \in SUBSET Slots, NEW st, NEW q,
         CancelCase(s, st, F, q), CancelState(s, st, F, q), UNCHANGED <<join, thrown>>,
         \A i \in DOMAIN pending' : \E k \in DOMAIN pending : pending'[i] = pending[k]
  PROVE  /\ FramesTypeOK' /\ Books'
         /\ \A t \in Slots : awaits'[t].kind = "starting" => awaits[t].kind = "starting"
         /\ \A t \in Slots : status[t] = "called" /\ st[t] = "running" => status'[t] = "running"
<1> USE DEF IInv
<1>1. /\ Live(s) /\ link[s].kind \in {"process", "join"}
      /\ st \in [Slots -> Statuses] /\ q \in Seq(Slots)
      /\ \A x \in Slots : s \in ChildrenOf(x) <=> x \in F
      /\ \A x \in F : /\ st[x] = "free" /\ link[x].kind = "task" /\ status[x] = "ready"
                      /\ ChildrenOf(x) \subseteq {s}
      /\ \A x \in Slots \ F :
           \/ st[x] = status[x] /\ \A t \in F : t \notin ChildrenOf(x)
           \/ st[x] = "running" /\ status[x] = "called" /\ ChildrenOf(x) \subseteq F
      /\ \A x \in Slots : st[x] = "ready" => \E i \in DOMAIN q : q[i] = x
  BY DEF CancelCase
<1>2. PICK D : D = CancelSet(s)
  OBVIOUS
<1>3. /\ D \in SUBSET Slots /\ s \in D
      /\ \A t \in D : Live(t) /\ ChildrenOf(t) \subseteq D
      /\ \A t \in D \ {s} : /\ link[t].kind \in {"task", "join"}
                            /\ \A x \in Slots : t \in ChildrenOf(x) => x \in D
      /\ \A x \in Slots : s \in ChildrenOf(x) => x \notin D
  BY <1>1, <1>2, CancelTree
<1>4. PICK w \in ListsOver(Slots) :
        /\ IsWaitList(w) /\ Waiters(w) = Resumed(s, D)
        /\ status' = Readied([t \in Slots |-> IF t \in D THEN "done" ELSE st[t]], Waiters(w))
        /\ ready' = q \o Woken(w)
  BY <1>2, <1>3, CancelControl
<1>5. CancelledIn(s, D)
  BY <1>2, <1>3, CancelControl
<1>6. /\ link' = [t \in Slots |-> IF t \in F \/ (t \in D /\ link[t].kind # "process")
                                  THEN Nothing ELSE link[t]]
      /\ awaits' = [t \in Slots |-> IF t \in D \cup F THEN Nothing ELSE awaits[t]]
      /\ roots' = roots \cup {t \in D : link[t].kind = "process"}
      /\ finished' = finished \cup {t \in D : link[t].kind # "process"}
  BY <1>2 DEF CancelState
<1> DEFINE Wk == Resumed(s, D)
<1>7. /\ \A x \in F : x \notin D
      /\ \A x \in Slots \ F : st[x] = status[x] \/ x \notin D
  <2>1. \A x \in F : x \notin D
    BY <1>1, <1>3
  <2>2. ASSUME NEW x \in Slots \ F, st[x] # status[x], x \in D
        PROVE  FALSE
    <3>1. status[x] = "called" /\ ChildrenOf(x) \subseteq F
      BY <1>1, <2>2
    <3>2. PICK t \in Slots : Live(t) /\ link[t] = Ref("task", x)
      BY <3>1 DEF Calls
    <3>3. t \in ChildrenOf(x)
      BY <3>2 DEF ChildrenOf
    <3> QED
      BY <1>3, <2>1, <2>2, <3>1, <3>3
  <2> QED
    BY <2>1, <2>2
<1>8. /\ Wk \subseteq Slots \ (D \cup F)
      /\ \A t \in Wk : status[t] = "waiting" /\ awaits[t].kind = "process" /\ st[t] = "waiting"
      /\ \A t \in Wk : \E p \in Processes : link[s] = Ref("process", p) /\ awaits[t] = Ref("process", p)
  <2>1. Wk \subseteq Slots \ D
    BY DEF Resumed
  <2>2. ASSUME NEW t \in Wk
        PROVE  /\ status[t] = "waiting" /\ awaits[t].kind = "process"
               /\ \E p \in Processes : link[s] = Ref("process", p) /\ awaits[t] = Ref("process", p)
    <3>1. PICK p \in Processes : link[s] = Ref("process", p) /\ t \in Waiters(control[p].waiters)
      BY <2>2 DEF Resumed
    <3>2. status[t] = "waiting" /\ awaits[t] = Ref("process", p)
      BY <3>1 DEF ProcessBooks
    <3> QED
      BY <3>1, <3>2, RefIs
  <2>3. \A t \in Wk : t \notin F /\ st[t] = "waiting"
    BY <1>1, <2>1, <2>2
  <2> QED
    BY <2>1, <2>2, <2>3
<1> HIDE DEF Wk
<1>9. /\ status \in [Slots -> Statuses] /\ link \in [Slots -> Links] /\ awaits \in [Slots -> Awaits]
      /\ roots \subseteq Slots /\ finished \subseteq Slots
  BY DEF TypeOK
<1>10. /\ \A t \in D : status'[t] = "done"
       /\ \A t \in F : status'[t] = "free"
       /\ \A t \in Wk : status'[t] = "ready"
       /\ \A t \in Slots \ (D \cup F) : t \notin Wk => status'[t] = st[t]
       /\ status' \in [Slots -> Statuses]
  <2>1. status' = [t \in Slots |-> IF t \in Wk THEN "ready" ELSE IF t \in D THEN "done" ELSE st[t]]
    BY <1>4 DEF Readied, Wk
  <2> QED
    BY <1>1, <1>3, <1>7, <1>8, <2>1 DEF Statuses
<1>11. /\ \A t \in D : /\ link[t].kind = "process" => link'[t] = link[t]
                       /\ link[t].kind # "process" => link'[t] = Nothing
                       /\ awaits'[t] = Nothing
       /\ \A t \in F : link'[t] = Nothing /\ awaits'[t] = Nothing
       /\ \A t \in Slots \ (D \cup F) : link'[t] = link[t] /\ awaits'[t] = awaits[t]
       /\ link' \in [Slots -> Links] /\ awaits' \in [Slots -> Awaits]
       /\ Nothing.kind = "none"
  BY <1>3, <1>6, <1>7, <1>9, RefIs
<1>12. /\ \A t \in D \cup F : ~Live(t)'
       /\ \A t \in Slots \ (D \cup F) : Live(t)' <=> Live(t)
  <2>1. \A t \in Slots \ (D \cup F) :
          \/ status'[t] = status[t]
          \/ /\ status[t] \in {"waiting", "called"}
             /\ status'[t] \in {"ready", "running"}
    BY <1>1, <1>8, <1>10
  <2> QED
    BY <1>10, <2>1 DEF Live
<1>13. /\ ready' \in Seq(Slots)
       /\ \A i \in DOMAIN q : i \in DOMAIN ready' /\ ready'[i] = q[i]
       /\ \A t \in Wk : \E i \in DOMAIN ready' : ready'[i] = t
  <2>1. q \in Seq(Slots)
    BY <1>1
  <2>2. IsWaitList(w) /\ Waiters(w) = Wk /\ ready' = q \o Woken(w)
    BY <1>4 DEF Wk
  <2> QED
    BY <2>1, <2>2, WokenFacts
<1>14. FramesTypeOK'
  BY <1>3, <1>5, <1>6, <1>9, <1>10, <1>11, <1>13 DEF FramesTypeOK, CancelledIn
<1>15. FramesFit'
  <2>1. ASSUME NEW t \in D
        PROVE  status'[t] = "done" /\ awaits'[t] = Nothing /\ ~Live(t)'
    BY <1>10, <1>11, <1>12
  <2>2. ASSUME NEW t \in F
        PROVE  status'[t] = "free" /\ awaits'[t] = Nothing /\ link'[t] = Nothing /\ ~Live(t)'
    BY <1>10, <1>11, <1>12
  <2>3. ASSUME NEW t \in Wk
        PROVE  status'[t] = "ready" /\ awaits'[t] = awaits[t] /\ link'[t] = link[t]
               /\ Live(t)' /\ Live(t) /\ awaits[t] # Nothing /\ awaits[t].kind = "process"
    BY <1>8, <1>10, <1>11, <1>12 DEF Live
  <2>4. ASSUME NEW t \in Slots \ (D \cup F), t \notin Wk
        PROVE  /\ awaits'[t] = awaits[t] /\ link'[t] = link[t] /\ (Live(t)' <=> Live(t))
               /\ \/ status'[t] = status[t]
                  \/ status'[t] = "running" /\ status[t] = "called"
    BY <1>1, <1>10, <1>11, <1>12, <2>4
  <2> QED
    BY <1>11, <2>1, <2>2, <2>3, <2>4 DEF FramesFit, Free
<1>16. \A t \in Slots : Live(t)' => /\ t \notin D \cup F /\ Live(t) /\ link'[t] = link[t]
                                    /\ join' = join
  BY <1>11, <1>12
<1>17. Rooted'
  <2>1. \A t \in Slots : ChildrenOf(t)' \subseteq ChildrenOf(t)
    BY <1>16 DEF ChildrenOf
  <2> QED
    BY <2>1, RootedShrinks
<1>18. NoOrphans'
  <2>1. ASSUME NEW x \in Slots
        PROVE  \/ \A t \in ChildrenOf(x) : ~Live(t)'
               \/ /\ status[x] = "called" => status'[x] = "called"
                  /\ awaits[x].kind \in {"join", "starting", "timeout"} =>
                       /\ Live(x) => Live(x)'
                       /\ awaits'[x].kind \in {"join", "starting", "timeout"}
                       /\ awaits'[x].id = awaits[x].id
    <3>1. CASE x \in D
      BY <1>3, <1>12, <3>1
    <3>2. CASE x \in F
      BY <1>1, <1>3, <1>12, <3>2
    <3>3. CASE x \notin D \cup F /\ st[x] # status[x]
      BY <1>1, <1>12, <3>3
    <3>4. CASE x \notin D \cup F /\ st[x] = status[x]
      BY <1>8, <1>10, <1>11, <1>12, <3>4
    <3> QED
      BY <3>1, <3>2, <3>3, <3>4
  <2> QED
    BY <1>11, <1>16, <2>1, NoOrphansKept
<1>19. Calls'
  <2>1. ASSUME NEW x \in Slots, status'[x] = "called"
        PROVE  \E t \in Slots : Live(t)' /\ link'[t] = Ref("task", x)
    <3>1. /\ x \notin D /\ x \notin F /\ x \notin Wk /\ status[x] = "called"
          /\ \A t \in F : t \notin ChildrenOf(x)
      BY <1>1, <1>10, <2>1
    <3>2. PICK t \in Slots : Live(t) /\ link[t] = Ref("task", x)
      BY <3>1 DEF Calls
    <3>3. t \in ChildrenOf(x)
      BY <3>2 DEF ChildrenOf
    <3>4. t # s
      BY <1>1, <3>2, RefIs
    <3>5. t \notin D /\ t \notin F
      BY <1>3, <3>1, <3>3, <3>4
    <3> QED
      BY <1>11, <1>12, <3>2, <3>5
  <2>2. \A t, u \in Slots :
          Live(t)' /\ Live(u)' /\ link'[t].kind = "task" /\ link'[t] = link'[u] => t = u
    BY <1>16 DEF Calls
  <2> QED
    BY <2>1, <2>2 DEF Calls
<1>20. ProcessBooks' /\ NoneStranded'
  <2>1. PICK E \in SUBSET Slots, G \in SUBSET Processes :
           E = D \cup F /\ G = {p \in Processes : link[s] = Ref("process", p)}
    BY <1>3
  <2>2. \A p \in Processes : p \in G <=> \E t \in E : Live(t) /\ link[t] = Ref("process", p)
    <3>1. \A t \in E \ {s} : link[t].kind # "process"
      BY <1>1, <1>3, <2>1
    <3>2. \A t \in E \ {s}, p \in Processes : link[t] # Ref("process", p)
      BY <3>1, RefIs
    <3> QED
      BY <1>1, <1>3, <2>1, <3>2
  <2>3. \A p \in Processes :
           /\ control'[p].spawned = control[p].spawned
           /\ control'[p].done <=> control[p].done \/ p \in G
           /\ IsWaitList(control'[p].waiters)
           /\ Waiters(control'[p].waiters)
                = IF p \in G THEN {} ELSE Waiters(control[p].waiters) \ E
    <3>1. \A p \in Processes : Waiters(control[p].waiters) \ D = Waiters(control[p].waiters) \ E
      <4>1. \A p \in Processes, t \in F : t \notin Waiters(control[p].waiters)
        BY <1>1 DEF ProcessBooks
      <4> QED
        BY <2>1, <4>1
    <3>2. \A p \in Processes : p \in G <=> link[s] = Ref("process", p)
      BY <2>1
    <3> QED
      BY <1>5, <3>1, <3>2 DEF CancelledIn
  <2>4. \A t \in Slots \ E, p \in Processes :
           status[t] = "waiting" /\ awaits[t] = Ref("process", p) =>
             IF p \in G THEN status'[t] = "ready"
                        ELSE status'[t] = "waiting" /\ awaits'[t] = awaits[t]
    <3> SUFFICES ASSUME NEW t \in Slots \ E, NEW p \in Processes,
                        status[t] = "waiting", awaits[t] = Ref("process", p)
                 PROVE  IF p \in G THEN status'[t] = "ready"
                                   ELSE status'[t] = "waiting" /\ awaits'[t] = awaits[t]
      OBVIOUS
    <3>1. t \in Waiters(control[p].waiters)
      BY RefIs DEF NoneStranded
    <3>2. CASE p \in G
      <4>1. t \in Wk
        BY <2>1, <3>1, <3>2 DEF Wk, Resumed
      <4> QED
        BY <1>10, <3>2, <4>1
    <3>3. CASE p \notin G
      <4>1. t \notin Wk
        <5> SUFFICES ASSUME t \in Wk PROVE FALSE
          OBVIOUS
        <5>1. PICK r \in Processes : link[s] = Ref("process", r) /\ awaits[t] = Ref("process", r)
          BY <1>8
        <5> QED
          BY <2>1, <3>3, <5>1, RefIs
      <4>2. st[t] = status[t]
        BY <1>1, <2>1
      <4> QED
        BY <1>10, <1>11, <2>1, <3>3, <4>1, <4>2
    <3> QED
      BY <3>2, <3>3
  <2>5. \A t \in Slots \ E : status'[t] = "waiting" /\ awaits'[t].kind = "process" =>
           status[t] = "waiting" /\ awaits'[t] = awaits[t]
    BY <1>1, <1>10, <1>11, <2>1
  <2>6. \A t \in roots' : link'[t].kind = "process"
    <3>1. \A t \in roots : t \in Slots /\ link[t].kind = "process"
      BY <1>9 DEF ProcessBooks
    <3>2. \A t \in Slots : link[t].kind = "process" => link'[t] = link[t]
      BY <1>1, <1>11
    <3> QED
      BY <1>3, <1>6, <3>1, <3>2
  <2>7. /\ \A t \in E : ~Live(t)'
        /\ \A t \in Slots \ E : Live(t)' <=> Live(t)
    BY <1>12, <2>1
  <2>8. \A t \in Slots :
             /\ link'[t].kind = "process" => link'[t] = link[t]
             /\ link[t].kind = "process" /\ Live(t) /\ t \notin E => link'[t] = link[t]
    BY <1>11, <2>1
  <2>9. TypeOK /\ ProcessBooks /\ NoneStranded
    OBVIOUS
  <2>10. \A i \in DOMAIN pending' : \E k \in DOMAIN pending : pending'[i] = pending[k]
    OBVIOUS
  <2> QED
    BY ONLY <2>2, <2>3, <2>4, <2>5, <2>6, <2>7, <2>8, <2>9, <2>10, ProcessBooksEnded
<1>21. NoneLost'
  <2> SUFFICES ASSUME NEW t \in Slots, status'[t] = "ready"
               PROVE  \E i \in DOMAIN ready' : ready'[i] = t
    BY DEF NoneLost
  <2>1. CASE t \in Wk
    BY <1>13, <2>1
  <2>2. CASE t \notin Wk
    <3>1. st[t] = "ready"
      BY <1>10, <2>2
    <3> QED
      BY <1>1, <1>13, <3>1
  <2> QED
    BY <2>1, <2>2
<1>22. JoinBooks'
  <2>1. ASSUME NEW v \in Slots, awaits'[v].kind \in {"join", "starting", "timeout"}
        PROVE  /\ v \notin D /\ v \notin F /\ awaits'[v] = awaits[v] /\ status'[v] = status[v]
               /\ awaits[v].kind \in {"join", "starting", "timeout"}
    <3>1. v \notin D /\ v \notin F /\ awaits'[v] = awaits[v]
      BY <1>11, <2>1
    <3>2. v \notin Wk /\ status[v] # "called"
      BY <1>8, <1>11, <2>1, <3>1 DEF FramesFit
    <3> QED
      BY <1>1, <1>10, <2>1, <3>1, <3>2
  <2>2. ASSUME NEW v \in Slots, awaits'[v].kind \in {"join", "starting", "timeout"},
               NEW j \in Joins, j = awaits[v].id
        PROVE  /\ LiveChildren(j)' = LiveChildren(j)
               /\ \A t \in Slots : link'[t] = Ref("join", j) <=> link[t] = Ref("join", j)
    <3>1. v \notin D /\ v \notin F /\ awaits[v].kind \in {"join", "starting", "timeout"}
      BY <2>1, <2>2
    <3>2. join[j].parent = v
      BY <2>2, <3>1 DEF JoinBooks, JoinCounts
    <3>3. ASSUME NEW t \in D \cup F
          PROVE  link[t] # Ref("join", j) /\ link'[t] # Ref("join", j)
      <4>1. CASE t \in F
        BY <1>1, <1>11, <4>1, RefIs
      <4>2. CASE t \in D
        <5>1. ASSUME link[t] = Ref("join", j)
              PROVE  FALSE
          <6>1. t \in ChildrenOf(v)
            <7>1. link[t].kind = "join" /\ link[t].id = j
              BY <5>1, RefIs
            <7> QED
              BY <1>3, <3>2, <4>2, <7>1 DEF ChildrenOf
          <6> QED
            BY <1>1, <1>3, <3>1, <4>2, <6>1
        <5>2. link'[t] = link[t] \/ link'[t] = Nothing
          BY <1>11, <4>2
        <5>3. Nothing # Ref("join", j)
          BY RefIs
        <5> QED
          BY <5>1, <5>2, <5>3
      <4> QED
        BY <4>1, <4>2
    <3>4. \A t \in Slots : link'[t] = Ref("join", j) <=> link[t] = Ref("join", j)
      BY <1>11, <3>3
    <3>5. \A t \in Slots : link[t] = Ref("join", j) => (Live(t)' <=> Live(t))
      BY <1>12, <3>3
    <3> QED
      BY <3>4, <3>5 DEF LiveChildren
  <2> QED
    BY <2>1, <2>2, JoinBooksKept
<1>23. \A t \in Slots : awaits'[t].kind = "starting" => awaits[t].kind = "starting"
  BY <1>11
<1>24. ASSUME NEW t \in Slots, status[t] = "called", st[t] = "running"
       PROVE  status'[t] = "running"
  <2>1. t \notin D /\ t \notin F /\ t \notin Wk
    BY <1>1, <1>7, <1>8, <1>24
  <2> QED
    BY <1>10, <1>24, <2>1
<1> QED
  BY <1>14, <1>15, <1>17, <1>18, <1>19, <1>20, <1>21, <1>22, <1>23, <1>24 DEF Books

\* The coroutine of a process that has not completed.
LEMMA SlotOfFacts ==
  ASSUME TypeOK, FramesFit, ProcessBooks, NEW p \in Processes, control[p].spawned, ~control[p].done,
         NEW s, s = SlotOf(p)
  PROVE  /\ s \in Slots /\ Live(s) /\ link[s] = Ref("process", p) /\ link[s].kind = "process"
         /\ \A x : s \notin ChildrenOf(x)
<1>1. PICK t \in Slots : link[t] = Ref("process", p)
  BY DEF ProcessBooks
<1>2. ~Free(t)
  BY <1>1, RefIs DEF FramesFit
<1>3. s \in Slots /\ link[s] = Ref("process", p)
  <2>1. \E x \in Slots : link[x] = Ref("process", p) /\ ~Free(x)
    BY <1>1, <1>2
  <2>2. s = CHOOSE x \in Slots : link[x] = Ref("process", p) /\ ~Free(x)
    BY DEF SlotOf
  <2> QED
    BY <2>1, <2>2
<1>4. link[s].kind = "process" /\ link[s].id = p
  BY <1>3, RefIs
<1>5. Live(s)
  BY <1>3, <1>4 DEF ProcessBooks
<1>6. ASSUME NEW x
      PROVE  s \notin ChildrenOf(x)
  <2>1. link[s] # Ref("task", x)
    BY <1>3, RefIs
  <2> QED
    BY <1>4, <2>1 DEF ChildrenOf
<1> QED
  BY <1>3, <1>4, <1>5, <1>6

\* Process::cancel applied between two activations
LEMMA CancelProcessStep ==
  ASSUME IInv, NEW p \in Processes, control[p].spawned, ~control[p].done,
         CancelState(SlotOf(p), status, {}, ready), UNCHANGED <<join, thrown, stack>>,
         pc \in {"idle", "apply"}, pc' \in {"drain", "apply"}, pending' \in Seq(Processes),
         \A i \in DOMAIN pending' : \E k \in DOMAIN pending : pending'[i] = pending[k]
  PROVE  IInv'
<1> USE DEF IInv
<1>1. PICK s \in Slots : s = SlotOf(p) /\ Live(s) /\ link[s].kind = "process"
                         /\ \A x : s \notin ChildrenOf(x)
  BY SlotOfFacts
<1>2. PICK F \in SUBSET Slots : F = {}
  OBVIOUS
<1>3. CancelCase(s, status, F, ready)
  <2>1. status \in [Slots -> Statuses] /\ ready \in Seq(Slots)
    BY DEF TypeOK
  <2>2. \A x \in Slots : status[x] = "ready" => \E i \in DOMAIN ready : ready[i] = x
    BY DEF NoneLost
  <2> QED
    BY <1>1, <1>2, <2>1, <2>2 DEF CancelCase
<1>4. CancelState(s, status, F, ready)
  BY <1>1, <1>2
<1>5. /\ FramesTypeOK' /\ Books'
      /\ \A t \in Slots : awaits'[t].kind = "starting" => awaits[t].kind = "starting"
  BY <1>3, <1>4, CancelStateStep
<1>6. stack = <<>> /\ DOMAIN stack = {}
  BY DEF Activity
<1>7. TypeOK'
  BY <1>5 DEF TypeOK, FramesTypeOK, ControlTypeOK
<1>8. Activity'
  <2>1. \A t \in Slots : awaits'[t].kind # "starting"
    BY <1>5, <1>6 DEF Activity
  <2> QED
    BY <1>6, <2>1 DEF Activity
<1> QED
  BY <1>5, <1>7, <1>8 DEF Books

LEMMA CancelOutsideStep ==
  ASSUME IInv, NEW p \in Processes, CancelOutside(p)
  PROVE  IInv'
<1>1. /\ pc = "idle" /\ control[p].spawned /\ ~control[p].done
      /\ CancelState(SlotOf(p), status, {}, ready)
      /\ pc' = "drain" /\ UNCHANGED <<join, thrown, pending, stack>>
  BY DEF CancelOutside
<1>2. pending \in Seq(Processes)
  BY DEF IInv, TypeOK
<1> QED
  BY <1>1, <1>2, CancelProcessStep

LEMMA ApplyPendingStep ==
  ASSUME IInv, ApplyPending
  PROVE  IInv'
<1>1. /\ pc = "apply" /\ pending # <<>> /\ pending' = Tail(pending)
      /\ UNCHANGED <<join, thrown, stack, pc>>
  BY DEF ApplyPending
<1>2. pending \in Seq(Processes)
  BY DEF IInv, TypeOK
<1>3. /\ Head(pending) \in Processes /\ pending' \in Seq(Processes)
      /\ Head(pending) = pending[1] /\ 1 \in DOMAIN pending
      /\ \A i \in DOMAIN pending' : i + 1 \in DOMAIN pending /\ pending'[i] = pending[i + 1]
  BY <1>1, <1>2
<1>4. \A i \in DOMAIN pending' : \E k \in DOMAIN pending : pending'[i] = pending[k]
  BY <1>3
<1>5. PICK p \in Processes : p = Head(pending)
  BY <1>3
<1>6. CASE control[p].done
  <2>1. UNCHANGED <<frameVars, control, ready, roots, finished>>
    BY <1>5, <1>6 DEF ApplyPending
  <2>2. FramesFit' /\ NoOrphans' /\ Calls' /\ Rooted' /\ JoinBooks'
    BY <1>1, <2>1, FramesKept DEF IInv
  <2>3. TypeOK'
    BY <1>1, <1>3, <2>1 DEF IInv, TypeOK, frameVars
  <2>4. ProcessBooks' /\ NoneStranded'
    <3>1. /\ TypeOK /\ ProcessBooks /\ NoneStranded
          /\ \A s \in roots : link[s].kind = "process"
      BY DEF IInv, ProcessBooks
    <3>2. UNCHANGED <<status, link, awaits, control, roots>>
      BY <2>1 DEF frameVars
    <3>3. \A s \in Slots : Live(s)' <=> Live(s)
      BY <3>2 DEF Live
    <3> QED
      BY <1>4, <3>1, <3>2, <3>3, ProcessBooksKept
  <2>5. NoneLost'
    BY <2>1 DEF IInv, NoneLost, frameVars
  <2>6. Activity'
    BY <1>1, <2>1 DEF IInv, Activity, frameVars, Top
  <2> QED
    BY <2>2, <2>3, <2>4, <2>5, <2>6 DEF IInv
<1>7. CASE ~control[p].done
  <2>1. CancelState(SlotOf(p), status, {}, ready)
    BY <1>5, <1>7 DEF ApplyPending
  <2>2. control[p].spawned
    BY <1>3, <1>5 DEF IInv, ProcessBooks
  <2> QED
    BY <1>1, <1>3, <1>4, <1>7, <2>1, <2>2, CancelProcessStep
<1> QED
  BY <1>6, <1>7

-----------------------------------------------------------------------------
(* A coroutine is resumed.                                                 *)

\* It goes on where it waited: nobody else notices.
LEMMA ResumeBooks ==
  ASSUME IInv, NEW s \in Slots, status[s] = "ready", awaits[s].kind \notin {"starting", "timeout"},
         status' = [status EXCEPT ![s] = "running"], awaits' = [awaits EXCEPT ![s] = Nothing],
         ready' \in Seq(Slots),
         \A t \in Slots \ {s} : status[t] = "ready" => \E i \in DOMAIN ready' : ready'[i] = t,
         UNCHANGED <<link, control, roots, finished, join, thrown, pending>>
  PROVE  FramesTypeOK' /\ Books'
<1> USE DEF IInv
<1>1. /\ status \in [Slots -> Statuses] /\ awaits \in [Slots -> Awaits] /\ link \in [Slots -> Links]
  BY DEF TypeOK
<1>2. /\ status' \in [Slots -> Statuses] /\ awaits' \in [Slots -> Awaits]
      /\ status'[s] = "running" /\ awaits'[s] = Nothing /\ Nothing.kind = "none"
      /\ \A t \in Slots \ {s} : status'[t] = status[t] /\ awaits'[t] = awaits[t]
  BY <1>1, RefIs DEF Statuses
<1>3. \A t \in Slots : Live(t)' <=> Live(t)
  BY <1>2 DEF Live
<1>4. Rooted' /\ \A j \in Joins : LiveChildren(j)' = LiveChildren(j)
  BY <1>3, SameFamilies
<1>5. FramesTypeOK'
  BY <1>1, <1>2 DEF TypeOK, FramesTypeOK, ControlTypeOK
<1>6. FramesFit'
  BY <1>2, <1>3 DEF FramesFit, Free
<1>7. ChildrenOf(s) = {}
  <2> SUFFICES ASSUME NEW t \in ChildrenOf(s) PROVE FALSE
    OBVIOUS
  <2>1. t \in Slots /\ Live(t)
    BY DEF ChildrenOf
  <2>2. CASE link[t] = Ref("task", s)
    <3>1. link[t].kind = "task" /\ link[t].id = s
      BY <2>2, RefIs
    <3> QED
      BY <2>1, <3>1, ParentFacts
  <2>3. CASE link[t].kind = "join" /\ join[link[t].id].parent = s
    <3>1. PICK j \in Joins : j = link[t].id /\ link[t] = Ref("join", j)
      BY <1>1, <2>1, <2>3, LinkIs
    <3>2. awaits[s].kind = "join" /\ awaits[s].id = j
      BY <2>1, <2>3, <3>1, ParentFacts
    <3>3. LiveChildren(j) = {}
      <4>1. JoinCounts(s, j)
        BY <3>2 DEF JoinBooks
      <4>2. join[j].remaining = 0
        BY <3>2, <4>1 DEF JoinCounts
      <4> QED
        BY <4>1, <4>2 DEF JoinCounts, HasSize
    <3> QED
      BY <2>1, <3>1, <3>3 DEF LiveChildren
  <2> QED
    BY <2>2, <2>3 DEF ChildrenOf
<1>8. NoOrphans'
  <2>1. \A t \in Slots : Live(t)' => Live(t) /\ link'[t] = link[t] /\ join' = join
    BY <1>3
  <2>2. \A t \in Slots \ {s} : /\ status[t] = "called" => status'[t] = "called"
                               /\ Live(t) => Live(t)'
    BY <1>2, <1>3
  <2> QED
    BY <1>2, <1>7, <2>1, <2>2, NoOrphansKept
<1>9. Calls'
  BY <1>2, <1>3 DEF Calls
<1>10. ProcessBooks' /\ NoneStranded'
  <2>1. \A t \in roots : link[t].kind = "process"
    BY DEF ProcessBooks
  <2> QED
    BY <1>2, <1>3, <2>1, ProcessBooksKept
<1>11. NoneLost'
  BY <1>2 DEF NoneLost
<1>12. JoinBooks'
  BY <1>2, <1>4, JoinBooksKept
<1> QED
  BY <1>4, <1>5, <1>6, <1>8, <1>9, <1>10, <1>11, <1>12 DEF Books

\* The with_timeout in s that is resumed, its awaiter u and its child c.
IsTimeout(s, u, c) ==
  /\ status[s] = "ready" /\ awaits[s].kind = "timeout" /\ u = link[s].id
  /\ c = CHOOSE d \in Slots : link[d] = Ref("join", awaits[s].id)

\* The statuses when it returns to u
Returned(s, u) == [status EXCEPT ![s] = "free", ![u] = "running"]

ReturnsAfter(s, u, c) == Reclaim(Returned(s, u), awaits, {s, c})
ReturnsInTime(s, u, c, q) == CancelState(c, Returned(s, u), {s}, q)

LEMMA TimeoutFacts ==
  ASSUME IInv, NEW s \in Slots, NEW u, NEW c, IsTimeout(s, u, c), NEW j, j = awaits[s].id
  PROVE  /\ u \in Slots /\ status[u] = "called" /\ Live(u) /\ awaits[u] = Nothing
         /\ link[s] = Ref("task", u) /\ link[s].kind = "task" /\ Live(s)
         /\ j \in Joins /\ c \in Slots /\ link[c] = Ref("join", j) /\ link[c].kind = "join"
         /\ c # s /\ c # u /\ s # u
         /\ \A t \in Slots : link[t] = Ref("join", j) => t = c
         /\ \A t \in Slots : t \in ChildrenOf(u) <=> t = s
         /\ ChildrenOf(s) \subseteq {c}
         /\ join[j].parent = s
         /\ \A x \in Slots : s \in ChildrenOf(x) => x = u
         /\ \A x : c \in ChildrenOf(x) => x = s
         /\ Live(c) => c \in ChildrenOf(s)
<1> USE DEF IInv, IsTimeout
<1>1. /\ status \in [Slots -> Statuses] /\ awaits \in [Slots -> Awaits] /\ link \in [Slots -> Links]
  BY DEF TypeOK
<1>2. link[s].kind = "task" /\ Live(s)
  BY DEF FramesFit, Live
<1>3. /\ u \in Slots /\ status[u] = "called" /\ Live(u) /\ s \in ChildrenOf(u)
      /\ link[s] = Ref("task", u)
  BY <1>1, <1>2, ParentFacts, LinkIs
<1>4. awaits[u] = Nothing /\ s # u
  BY <1>3 DEF FramesFit
<1>5. j \in Joins
  BY <1>1, AwaitIs
<1>6. JoinCounts(s, j)
  BY DEF JoinBooks
<1>7. /\ join[j].parent = s
      /\ \E t \in Slots : /\ link[t] = Ref("join", j)
                          /\ \A x \in Slots : link[x] = Ref("join", j) => x = t
  BY <1>6 DEF JoinCounts
<1>8. c \in Slots /\ link[c] = Ref("join", j)
  BY <1>7
<1>9. \A t \in Slots : link[t] = Ref("join", j) => t = c
  BY <1>7, <1>8
<1>10. link[c].kind = "join" /\ link[c].id = j
  BY <1>8, RefIs
<1>11. \A x : c \in ChildrenOf(x) => x = s
  <2>1. \A x : link[c] # Ref("task", x)
    BY <1>8, RefIs
  <2> QED
    BY <1>7, <1>10, <2>1 DEF ChildrenOf
<1>12. \A x \in Slots : s \in ChildrenOf(x) => x = u
  <2>1. \A x \in Slots : link[s] = Ref("task", x) => x = u
    BY <1>3, RefIs
  <2> QED
    BY <1>2, <2>1 DEF ChildrenOf
<1>13. ASSUME NEW t \in ChildrenOf(u)
       PROVE  t = s
  <2>1. t \in Slots /\ Live(t)
    BY <1>13 DEF ChildrenOf
  <2>2. CASE link[t] = Ref("task", u)
    BY <1>2, <1>3, <2>1, <2>2 DEF Calls
  <2>3. CASE link[t].kind = "join" /\ join[link[t].id].parent = u
    <3>1. Nothing.kind = "none"
      BY RefIs
    <3> QED
      BY <1>4, <2>1, <2>3, <3>1, ParentFacts
  <2> QED
    BY <1>13, <2>2, <2>3 DEF ChildrenOf
<1>14. ASSUME NEW t \in ChildrenOf(s)
       PROVE  t = c
  <2>1. t \in Slots /\ Live(t)
    BY <1>14 DEF ChildrenOf
  <2>2. CASE link[t] = Ref("task", s)
    <3>1. link[t].kind = "task" /\ link[t].id = s
      BY <2>2, RefIs
    <3> QED
      BY <2>1, <3>1, ParentFacts
  <2>3. CASE link[t].kind = "join" /\ join[link[t].id].parent = s
    <3>1. link[t].id = j
      BY <2>1, <2>3, ParentFacts
    <3>2. link[t] = Ref("join", j)
      BY <1>1, <2>1, <2>3, <3>1, LinkIs
    <3> QED
      BY <1>9, <2>1, <3>2
  <2> QED
    BY <1>14, <2>2, <2>3 DEF ChildrenOf
<1>15. Live(c) => c \in ChildrenOf(s)
  BY <1>7, <1>8, <1>10 DEF ChildrenOf
<1>16. c # s
  BY <1>2, <1>10
<1>17. c # u
  <2> SUFFICES ASSUME c = u PROVE FALSE
    OBVIOUS
  <2>1. u \in ChildrenOf(s)
    BY <1>3, <1>15
  <2>2. PICK D \in SUBSET Slots : D = {s, u}
    BY <1>3
  <2>3. \E t \in D : \A x \in D : t \notin ChildrenOf(x)
    BY <2>2 DEF Rooted
  <2> QED
    BY <1>3, <2>1, <2>2, <2>3
<1> QED
  BY <1>2, <1>3, <1>4, <1>5, <1>7, <1>8, <1>9, <1>10, <1>11, <1>12, <1>13, <1>14, <1>15, <1>16, <1>17

\* The child of the with_timeout in s has ended: both frames are reclaimed, and u,
\* who awaits the with_timeout, goes on.
LEMMA TimeoutReturnBooks ==
  ASSUME IInv, NEW s \in Slots, NEW u, NEW c, IsTimeout(s, u, c),
         status[c] = "done", ReturnsAfter(s, u, c),
         finished' = finished \ {c},
         ready' \in Seq(Slots),
         \A t \in Slots \ {s} : status[t] = "ready" => \E i \in DOMAIN ready' : ready'[i] = t,
         UNCHANGED <<control, roots, join, thrown, pending>>
  PROVE  /\ FramesTypeOK' /\ Books'
         /\ \A t \in Slots : awaits'[t].kind = "starting" => awaits[t].kind = "starting"
         /\ status'[u] = "running"
<1> USE DEF IInv
<1>1. PICK j : j = awaits[s].id
  OBVIOUS
<1>2. /\ status \in [Slots -> Statuses] /\ awaits \in [Slots -> Awaits] /\ link \in [Slots -> Links]
  BY DEF TypeOK
<1>3. /\ u \in Slots /\ status[u] = "called" /\ Live(u) /\ awaits[u] = Nothing
      /\ link[s] = Ref("task", u) /\ link[s].kind = "task" /\ Live(s)
      /\ j \in Joins /\ c \in Slots /\ link[c] = Ref("join", j) /\ link[c].kind = "join"
      /\ c # s /\ c # u /\ s # u
      /\ \A t \in Slots : link[t] = Ref("join", j) => t = c
      /\ \A t \in Slots : t \in ChildrenOf(u) <=> t = s
      /\ ChildrenOf(s) \subseteq {c}
      /\ join[j].parent = s
  BY <1>1, TimeoutFacts
<1>4. /\ status'[s] = "free" /\ status'[c] = "free" /\ status'[u] = "running"
      /\ link'[s] = Nothing /\ link'[c] = Nothing /\ awaits'[s] = Nothing /\ awaits'[c] = Nothing
      /\ \A t \in Slots \ {s, c, u} : status'[t] = status[t]
      /\ \A t \in Slots \ {s, c} : link'[t] = link[t] /\ awaits'[t] = awaits[t]
      /\ status' \in [Slots -> Statuses] /\ link' \in [Slots -> Links] /\ awaits' \in [Slots -> Awaits]
      /\ Nothing.kind = "none"
  BY <1>2, <1>3, RefIs DEF Reclaim, Statuses, ReturnsAfter, Returned
<1>5. awaits[c] = Nothing
  BY <1>3 DEF FramesFit
<1>6. /\ \A t \in Slots : Live(t)' <=> Live(t) /\ t # s
      /\ ~Live(c)
  BY <1>3, <1>4 DEF Live
<1>7. \A t \in Slots : Live(t)' => Live(t) /\ link'[t] = link[t] /\ join' = join
  BY <1>4, <1>6
<1>8. Rooted'
  <2>1. \A t \in Slots : ChildrenOf(t)' \subseteq ChildrenOf(t)
    BY <1>7 DEF ChildrenOf
  <2> QED
    BY <2>1, RootedShrinks
<1>9. FramesTypeOK'
  BY <1>4 DEF TypeOK, FramesTypeOK, ControlTypeOK
<1>10. FramesFit'
  <2>1. ASSUME NEW t \in {s, c}
        PROVE  status'[t] = "free" /\ link'[t] = Nothing /\ awaits'[t] = Nothing /\ ~Live(t)'
    BY <1>3, <1>4, <1>6
  <2>2. /\ status'[u] = "running" /\ link'[u] = link[u] /\ awaits'[u] = Nothing
        /\ Live(u)' /\ Live(u)
    BY <1>3, <1>4, <1>6
  <2>3. ASSUME NEW t \in Slots \ {s, c, u}
        PROVE  /\ status'[t] = status[t] /\ link'[t] = link[t] /\ awaits'[t] = awaits[t]
               /\ Live(t)' <=> Live(t)
    BY <1>4, <1>6
  <2>4. Nothing.kind = "none" /\ u \in Slots
    BY <1>3, <1>4
  <2>5. FramesFit
    OBVIOUS
  <2> QED
    BY ONLY <2>1, <2>2, <2>3, <2>4, <2>5 DEF FramesFit, Free
<1>11. NoOrphans'
  <2>1. \A t \in ChildrenOf(s) \cup ChildrenOf(c) : ~Live(t)'
    <3>1. ChildrenOf(c) = {}
      <4> SUFFICES ASSUME NEW t \in ChildrenOf(c) PROVE FALSE
        OBVIOUS
      <4>1. t \in Slots /\ Live(t)
        BY DEF ChildrenOf
      <4>2. CASE link[t] = Ref("task", c)
        <5>1. link[t].kind = "task" /\ link[t].id = c
          BY <4>2, RefIs
        <5> QED
          BY <1>6, <4>1, <5>1, ParentFacts
      <4>3. CASE link[t].kind = "join" /\ join[link[t].id].parent = c
        BY <1>6, <4>1, <4>3, ParentFacts
      <4> QED
        BY <4>2, <4>3 DEF ChildrenOf
    <3> QED
      BY <1>3, <1>6, <3>1
  <2>2. \A t \in ChildrenOf(u) : ~Live(t)'
    <3>1. ChildrenOf(u) \subseteq Slots
      BY DEF ChildrenOf
    <3> QED
      BY <1>3, <1>6, <3>1
  <2>3. \A t \in Slots \ {s, c, u} : /\ status'[t] = status[t] /\ awaits'[t] = awaits[t]
                                     /\ Live(t) => Live(t)'
    BY <1>4, <1>6
  <2> QED
    BY <1>4, <1>7, <2>1, <2>2, <2>3, NoOrphansKept
<1>12. Calls'
  <2>1. ASSUME NEW x \in Slots, status'[x] = "called"
        PROVE  \E t \in Slots : Live(t)' /\ link'[t] = Ref("task", x)
    <3>1. status[x] = "called" /\ x # u
      BY <1>4, <2>1
    <3>2. PICK t \in Slots : Live(t) /\ link[t] = Ref("task", x)
      BY <3>1 DEF Calls
    <3>3. t # s /\ t # c
      BY <1>3, <1>6, <3>1, <3>2, RefIs
    <3> QED
      BY <1>4, <1>6, <3>2, <3>3
  <2>2. \A t, v \in Slots :
          Live(t)' /\ Live(v)' /\ link'[t].kind = "task" /\ link'[t] = link'[v] => t = v
    BY <1>7 DEF Calls
  <2> QED
    BY <2>1, <2>2 DEF Calls
<1>13. ProcessBooks' /\ NoneStranded'
  <2>1. \A t \in roots' : link'[t].kind = "process"
    <3>1. \A t \in roots : t \in Slots /\ link[t].kind = "process"
      BY DEF ProcessBooks, TypeOK
    <3> QED
      BY <1>3, <1>4, <3>1
  <2>2. \A t \in Slots :
           /\ link'[t].kind = "process" => link'[t] = link[t] /\ (Live(t)' <=> Live(t))
           /\ link[t].kind = "process" /\ Live(t) => link'[t] = link[t]
           /\ status[t] = "waiting" /\ awaits[t].kind = "process" =>
                status'[t] = "waiting" /\ awaits'[t] = awaits[t]
           /\ status'[t] = "waiting" /\ awaits'[t].kind = "process" =>
                status[t] = "waiting" /\ awaits'[t] = awaits[t]
    <3>1. \A t \in {s, c} : /\ status[t] # "waiting" /\ status'[t] # "waiting"
                             /\ link[t].kind # "process" /\ link'[t].kind # "process"
      <4>1. status[s] = "ready" /\ status[c] = "done"
        BY DEF IsTimeout
      <4>2. /\ link[s].kind = "task" /\ link[c].kind = "join"
            /\ link'[s] = Nothing /\ link'[c] = Nothing /\ Nothing.kind = "none"
            /\ status'[s] = "free" /\ status'[c] = "free"
        BY <1>3, <1>4
      <4> QED
        BY ONLY <4>1, <4>2
    <3>2. /\ status[u] # "waiting" /\ status'[u] # "waiting" /\ link'[u] = link[u]
          /\ Live(u)' <=> Live(u)
      BY <1>3, <1>4, <1>6
    <3>3. \A t \in Slots \ {s, c, u} :
            /\ status'[t] = status[t] /\ link'[t] = link[t] /\ awaits'[t] = awaits[t]
            /\ Live(t)' <=> Live(t)
      BY <1>4, <1>6
    <3> QED
      BY ONLY <3>1, <3>2, <3>3
  <2> QED
    BY <2>1, <2>2, ProcessBooksKept
<1>14. NoneLost'
  BY <1>4 DEF NoneLost
<1>15. JoinBooks'
  <2>1. ASSUME NEW v \in Slots, awaits'[v].kind \in {"join", "starting", "timeout"}
        PROVE  /\ v # s /\ v # c /\ v # u /\ awaits'[v] = awaits[v] /\ status'[v] = status[v]
               /\ awaits[v].id # j
    <3>0. awaits'[u] = Nothing
      BY <1>3, <1>4
    <3>1. v # s /\ v # c /\ v # u
      BY <1>4, <2>1, <3>0
    <3>2. awaits'[v] = awaits[v] /\ status'[v] = status[v]
      BY <1>4, <3>1
    <3>3. awaits[v].id = j => join[j].parent = v
      BY <2>1, <3>2 DEF JoinBooks, JoinCounts
    <3> QED
      BY <1>3, <3>1, <3>2, <3>3
  <2>2. ASSUME NEW k \in Joins, k # j
        PROVE  /\ LiveChildren(k)' = LiveChildren(k)
               /\ \A t \in Slots : link'[t] = Ref("join", k) <=> link[t] = Ref("join", k)
    <3>1. /\ link[s] # Ref("join", k) /\ link[c] # Ref("join", k) /\ Nothing # Ref("join", k)
      BY <1>3, <2>2, RefIs
    <3>2. \A t \in Slots : link'[t] = Ref("join", k) <=> link[t] = Ref("join", k)
      BY <1>4, <3>1
    <3> QED
      BY <1>6, <3>1, <3>2 DEF LiveChildren
  <2> QED
    BY <2>1, <2>2, JoinBooksKept
<1>16. \A t \in Slots : awaits'[t].kind = "starting" => awaits[t].kind = "starting"
  BY <1>4
<1> QED
  BY <1>4, <1>8, <1>9, <1>10, <1>11, <1>12, <1>13, <1>14, <1>15, <1>16 DEF Books

\* The deadline was first: the child is cancelled.
LEMMA TimeoutCancelBooks ==
  ASSUME IInv, NEW s \in Slots, NEW u, NEW c, IsTimeout(s, u, c),
         status[c] # "done", NEW q \in Seq(Slots), ReturnsInTime(s, u, c, q),
         \A t \in Slots \ {s} : status[t] = "ready" => \E i \in DOMAIN q : q[i] = t,
         UNCHANGED <<join, thrown, pending>>
  PROVE  /\ FramesTypeOK' /\ Books'
         /\ \A t \in Slots : awaits'[t].kind = "starting" => awaits[t].kind = "starting"
         /\ status'[u] = "running"
<1> USE DEF IInv
<1>1. /\ u \in Slots /\ status[u] = "called" /\ status[s] = "ready"
      /\ link[s].kind = "task" /\ c \in Slots /\ link[c].kind = "join"
      /\ c # s /\ c # u /\ s # u
      /\ \A t \in Slots : t \in ChildrenOf(u) <=> t = s
      /\ ChildrenOf(s) \subseteq {c}
      /\ \A x \in Slots : s \in ChildrenOf(x) => x = u
      /\ \A x : c \in ChildrenOf(x) => x = s
      /\ Live(c) => c \in ChildrenOf(s)
  BY TimeoutFacts DEF IsTimeout
<1>2. PICK F, st : F \in SUBSET Slots /\ F = {s} /\ st = Returned(s, u)
  OBVIOUS
<1>3. status \in [Slots -> Statuses]
  BY DEF TypeOK
<1>4. /\ st \in [Slots -> Statuses] /\ st[s] = "free" /\ st[u] = "running"
      /\ \A t \in Slots \ {s, u} : st[t] = status[t]
  BY <1>1, <1>2, <1>3 DEF Statuses, Returned
<1>5. Live(c)
  <2>1. link[c] # Nothing
    BY <1>1, RefIs
  <2> QED
    BY <1>1, <2>1 DEF FramesFit, Free, Live
<1>6. CancelCase(c, st, F, q)
  <2>1. \A x \in Slots : c \in ChildrenOf(x) <=> x \in F
    BY <1>1, <1>2, <1>5
  <2>2. \A x \in F : /\ st[x] = "free" /\ link[x].kind = "task" /\ status[x] = "ready"
                     /\ ChildrenOf(x) \subseteq {c}
    BY <1>1, <1>2, <1>4
  <2>3. ChildrenOf(u) \subseteq F
    <3>1. ChildrenOf(u) \subseteq Slots
      BY DEF ChildrenOf
    <3> QED
      BY <1>1, <1>2, <3>1
  <2>4. \A x \in Slots \ F :
          \/ st[x] = status[x] /\ \A t \in F : t \notin ChildrenOf(x)
          \/ st[x] = "running" /\ status[x] = "called" /\ ChildrenOf(x) \subseteq F
    BY <1>1, <1>2, <1>4, <2>3
  <2>5. \A x \in Slots : st[x] = "ready" => \E i \in DOMAIN q : q[i] = x
    BY <1>4
  <2> QED
    BY <1>1, <1>4, <1>5, <2>1, <2>2, <2>4, <2>5 DEF CancelCase
<1>7. CancelState(c, st, F, q)
  BY <1>2 DEF ReturnsInTime
<1>8. \A i \in DOMAIN pending' : \E k \in DOMAIN pending : pending'[i] = pending[k]
  OBVIOUS
<1>9. /\ FramesTypeOK' /\ Books'
      /\ \A t \in Slots : awaits'[t].kind = "starting" => awaits[t].kind = "starting"
      /\ \A t \in Slots : status[t] = "called" /\ st[t] = "running" => status'[t] = "running"
  <2>1. c \in Slots /\ F \in SUBSET Slots /\ IInv /\ UNCHANGED <<join, thrown>>
    BY <1>1, <1>2
  <2> QED
    BY ONLY <1>6, <1>7, <1>8, <2>1, CancelStateStep
<1> QED
  BY <1>1, <1>4, <1>9

\* The drain loop begins an activation.
LEMMA ActivationBegins ==
  ASSUME IInv, pc = "drain", FramesTypeOK', Books', NEW u \in Slots, status'[u] = "running",
         stack' = <<[slot |-> u, by |-> "drain", id |-> None]>>, pc' = "run",
         \A t \in Slots : awaits'[t].kind = "starting" => awaits[t].kind = "starting",
         UNCHANGED <<join, thrown, pending>>
  PROVE  IInv'
<1> USE DEF IInv
<1>1. PICK e : e = [slot |-> u, by |-> "drain", id |-> None]
  OBVIOUS
<1>2. e \in Activations /\ e.slot = u /\ e.by = "drain"
  BY <1>1 DEF Activations
<1>3. /\ stack' \in Seq(Activations) /\ Len(stack') = 1 /\ DOMAIN stack' = {1}
      /\ stack'[1].slot = u /\ stack'[1].by = "drain" /\ stack' # <<>>
  <2>1. stack' = <<e>>
    BY <1>1
  <2> QED
    BY <1>2, <2>1
<1>4. TypeOK'
  BY <1>3 DEF TypeOK, FramesTypeOK, ControlTypeOK
<1>5. Activity'
  <2>1. stack = <<>> /\ DOMAIN stack = {}
    BY DEF Activity
  <2>2. \A t \in Slots : awaits'[t].kind # "starting"
    BY <2>1 DEF Activity
  <2> QED
    BY <1>3, <2>2 DEF Activity, Top
<1> QED
  BY <1>4, <1>5 DEF Books

LEMMA PopStep ==
  ASSUME IInv, Pop
  PROVE  IInv'
<1> USE DEF IInv
<1>1. pc = "drain" /\ ready # <<>>
  BY DEF Pop
<1>2. ready \in Seq(Slots) /\ status \in [Slots -> Statuses] /\ awaits \in [Slots -> Awaits]
  BY DEF TypeOK
<1>3. PICK s \in Slots, q \in Seq(Slots) : s = Head(ready) /\ q = Tail(ready)
  <2>1. Head(ready) \in Slots /\ Tail(ready) \in Seq(Slots)
    BY ONLY <1>1, <1>2, SeqType
  <2> QED
    BY <2>1
<1>4. \A t \in Slots : (\E i \in DOMAIN ready : ready[i] = t) => t = s \/ \E i \in DOMAIN q : q[i] = t
  <2>1. ASSUME NEW i \in DOMAIN ready, i # 1
        PROVE  i - 1 \in DOMAIN q /\ q[i - 1] = ready[i]
    BY ONLY <1>1, <1>2, <1>3, <2>1
  <2>2. ready[1] = s
    BY ONLY <1>1, <1>2, <1>3
  <2> QED
    BY <2>1, <2>2
<1>5. \A t \in Slots \ {s} : status[t] = "ready" => \E i \in DOMAIN q : q[i] = t
  BY <1>4 DEF NoneLost
<1>6. CASE status[s] # "ready"
  <2>1. /\ ready' = q
        /\ UNCHANGED <<frameVars, control, join, thrown, pending, roots, finished, stack, pc>>
    BY <1>3, <1>6 DEF Pop
  <2>2. FramesFit' /\ NoOrphans' /\ Calls' /\ Rooted' /\ JoinBooks'
    BY <2>1, FramesKept
  <2>3. TypeOK'
    BY <2>1 DEF TypeOK, frameVars
  <2>4. ProcessBooks' /\ NoneStranded'
    BY <2>1 DEF ProcessBooks, NoneStranded, frameVars, Live
  <2>5. NoneLost'
    BY <1>5, <1>6, <2>1 DEF NoneLost, frameVars
  <2>6. Activity'
    BY <2>1 DEF Activity, frameVars, Top
  <2> QED
    BY <2>2, <2>3, <2>4, <2>5, <2>6
<1>7. CASE status[s] = "ready"
  <2>1. /\ Activate(s, q)
        /\ stack' = <<[slot |-> Continues(s), by |-> "drain", id |-> None]>>
    BY <1>3, <1>7 DEF Pop
  <2>2. pc' = "run" /\ UNCHANGED <<join, thrown, pending>>
    BY <2>1 DEF Activate
  <2>3. CASE awaits[s].kind # "timeout"
    <3>1. Continues(s) = s
      BY <2>3 DEF Continues
    <3>2. /\ status' = [status EXCEPT ![s] = "running"]
          /\ awaits' = [awaits EXCEPT ![s] = Nothing]
          /\ ready' = q
          /\ UNCHANGED <<link, control, roots, finished>>
      <4>1. /\ status' = [status EXCEPT ![s] = "free", ![s] = "running"]
            /\ awaits' = [awaits EXCEPT ![s] = Nothing]
            /\ ready' = q
            /\ UNCHANGED <<link, control, roots, finished>>
        BY <2>1, <2>3, <3>1 DEF Activate
      <4> QED
        BY <1>2, <4>1
    <3>3. awaits[s].kind # "starting"
      <4>1. stack = <<>> /\ DOMAIN stack = {}
        BY <1>1 DEF Activity
      <4> QED
        BY <4>1 DEF Activity
    <3>4. FramesTypeOK' /\ Books'
      BY <1>5, <1>7, <2>2, <2>3, <3>2, <3>3, ResumeBooks
    <3>5. /\ status'[s] = "running"
          /\ \A t \in Slots : awaits'[t].kind = "starting" => awaits[t].kind = "starting"
      BY <1>2, <3>2, RefIs
    <3> QED
      BY <1>1, <2>1, <2>2, <3>1, <3>4, <3>5, ActivationBegins
  <2>4. CASE awaits[s].kind = "timeout"
    <3>1. PICK u : u = link[s].id
      OBVIOUS
    <3>2. PICK c : c = CHOOSE d \in Slots : link[d] = Ref("join", awaits[s].id)
      OBVIOUS
    <3>5. IsTimeout(s, u, c)
      BY <1>7, <2>4, <3>1, <3>2 DEF IsTimeout
    <3>3. Continues(s) = u /\ u \in Slots
      <4>1. u \in Slots
        BY <3>5, TimeoutFacts
      <4> QED
        BY <2>4, <3>1, <4>1 DEF Continues
    <3>4. /\ FramesTypeOK' /\ Books'
          /\ \A t \in Slots : awaits'[t].kind = "starting" => awaits[t].kind = "starting"
          /\ status'[u] = "running"
      <4>1. CASE status[c] = "done"
        <5>1. /\ ReturnsAfter(s, u, c)
              /\ finished' = finished \ {c} /\ ready' = q
              /\ UNCHANGED <<control, roots>>
          BY <2>1, <2>4, <3>1, <3>2, <3>3, <4>1 DEF Activate, ReturnsAfter, Returned
        <5>2. /\ ready' \in Seq(Slots)
              /\ \A t \in Slots \ {s} : status[t] = "ready" => \E i \in DOMAIN ready' : ready'[i] = t
          BY <1>5, <5>1
        <5>3. UNCHANGED <<control, roots, join, thrown, pending>> /\ s \in Slots /\ IInv
          BY <2>2, <5>1
        <5> QED
          BY ONLY <3>5, <4>1, <5>1, <5>2, <5>3, TimeoutReturnBooks
      <4>2. CASE status[c] # "done"
        <5>1. ReturnsInTime(s, u, c, q)
          BY <2>1, <2>4, <3>1, <3>2, <3>3, <4>2 DEF Activate, ReturnsInTime, Returned
        <5>2. s \in Slots /\ q \in Seq(Slots) /\ IInv
          OBVIOUS
        <5>3. UNCHANGED <<join, thrown, pending>>
          BY <2>2
        <5> QED
          BY ONLY <1>5, <3>5, <4>2, <5>1, <5>2, <5>3, TimeoutCancelBooks
      <4> QED
        BY <4>1, <4>2
    <3> QED
      BY <1>1, <2>1, <2>2, <3>3, <3>4, ActivationBegins
  <2> QED
    BY <2>3, <2>4
<1> QED
  BY <1>6, <1>7

LEMMA AwaitInlineStep ==
  ASSUME IInv, NEW s \in Slots, NEW p \in Processes, AwaitInline(s, p)
  PROVE  IInv'
<1> USE DEF IInv
<1>1. /\ Running(s) /\ control[p].spawned /\ ~control[p].done /\ OnlyReady(p)
      /\ Activate(SlotOf(p), <<>>)
      /\ stack' = Append(stack, [slot |-> Continues(SlotOf(p)), by |-> "inline", id |-> p])
  BY DEF AwaitInline
<1>2. PICK v \in Slots : v = SlotOf(p) /\ Live(v) /\ link[v].kind = "process"
  BY <1>1, SlotOfFacts
<1>3. /\ status[v] = "ready" /\ awaits[v].kind \notin {"starting", "timeout"} /\ Continues(v) = v
      /\ Cardinality({t \in Slots : status[t] = "ready"}) = 1
  BY <1>1, <1>2 DEF OnlyReady, LiveReady, FramesFit, Continues
<1>4. /\ status \in [Slots -> Statuses] /\ awaits \in [Slots -> Awaits]
  BY DEF TypeOK
<1>5. \A t \in Slots \ {v} : status[t] # "ready"
  <2>1. PICK S \in SUBSET Slots : S = {t \in Slots : status[t] = "ready"}
    OBVIOUS
  <2>2. IsFiniteSet(S)
    BY FS_Subset, TasksAssumption
  <2>3. \E x : S = {x}
    BY <1>3, <2>1, <2>2, FS_Singleton
  <2> QED
    BY <1>3, <2>1, <2>3
<1>6. /\ status' = [status EXCEPT ![v] = "running"]
      /\ awaits' = [awaits EXCEPT ![v] = Nothing]
      /\ ready' = <<>>
      /\ UNCHANGED <<link, control, roots, finished, join, thrown, pending>>
      /\ pc' = "run"
  <2>1. Activate(v, <<>>)
    BY <1>1, <1>2
  <2>2. /\ status' = [status EXCEPT ![v] = "free", ![v] = "running"]
        /\ awaits' = [awaits EXCEPT ![v] = Nothing]
        /\ ready' = <<>>
        /\ UNCHANGED <<link, control, roots, finished, join, thrown, pending>>
        /\ pc' = "run"
    BY <1>3, <2>1 DEF Activate
  <2> QED
    BY <1>4, <2>2
<1>7. FramesTypeOK' /\ Books'
  <2>1. ready' \in Seq(Slots)
    BY <1>6
  <2> QED
    BY <1>3, <1>5, <1>6, <2>1, ResumeBooks
<1> DEFINE n == Len(stack)
<1>8. /\ pc = "run" /\ status[s] = "running" /\ awaits[s] = Nothing
      /\ stack \in Seq(Activations) /\ n \in Nat /\ n > 0 /\ DOMAIN stack = 1..n
      /\ \A i \in 1..n : stack[i] \in Activations /\ stack[i].slot \in Slots
      /\ stack[n].slot = s
  BY <1>1, RunningFacts
<1>9. PICK e \in Activations : e = [slot |-> v, by |-> "inline", id |-> p]
  BY DEF Activations
<1>10. e.slot = v /\ e.by = "inline" /\ e.id = p
  BY <1>9
<1>11. /\ stack' \in Seq(Activations) /\ Len(stack') = n + 1 /\ DOMAIN stack' = 1..n + 1
       /\ stack'[n + 1] = e
       /\ \A i \in 1..n : stack'[i] = stack[i]
       /\ stack' # <<>>
  <2>1. stack' = Append(stack, e)
    BY <1>1, <1>2, <1>3, <1>9
  <2> QED
    BY <1>8, <2>1
<1>12. TypeOK'
  BY <1>6, <1>7, <1>11 DEF TypeOK, FramesTypeOK, ControlTypeOK
<1>13. /\ status'[v] = "running"
       /\ \A t \in Slots \ {v} : status'[t] = status[t] /\ awaits'[t] = awaits[t]
       /\ awaits'[v] = Nothing /\ Nothing.kind = "none"
  BY <1>4, <1>6, RefIs
<1>14. ASSUME NEW i \in 1..n
       PROVE  /\ stack[i].slot # v
              /\ stack[i].by = "drain" <=> i = 1
              /\ stack[i].by = "inline" => stack[i].id \in Processes
              /\ i < n => IF stack[i + 1].by = "inline" THEN status[stack[i].slot] = "running"
                                                         ELSE awaits[stack[i].slot].kind = "starting"
              /\ i = n => status[stack[i].slot] = "running"
  <2>1. /\ stack[i].by = "drain" <=> i = 1
        /\ stack[i].by = "inline" => stack[i].id \in Processes
        /\ i < n => IF stack[i + 1].by = "inline" THEN status[stack[i].slot] = "running"
                                                   ELSE awaits[stack[i].slot].kind = "starting"
    BY <1>8 DEF Activity
  <2>2. i = n => status[stack[i].slot] = "running"
    BY <1>8
  <2>3. i < n \/ i = n
    <3>1. n \in Nat
      BY <1>8
    <3> HIDE DEF n
    <3> QED
      BY <3>1
  <2>4. status[stack[i].slot] = "running" \/ awaits[stack[i].slot].kind = "starting"
    BY <2>1, <2>2, <2>3
  <2> QED
    BY <1>3, <2>1, <2>2, <2>4
<1>15. ASSUME NEW i \in 1..n + 1
       PROVE  /\ stack'[i].by = "drain" <=> i = 1
              /\ stack'[i].by = "inline" => stack'[i].id \in Processes
              /\ i < n + 1 => IF stack'[i + 1].by = "inline"
                              THEN status'[stack'[i].slot] = "running"
                              ELSE awaits'[stack'[i].slot].kind = "starting"
  <2>1. CASE i = n + 1
    BY <1>8, <1>10, <1>11, <2>1
  <2>2. CASE i = n
    <3>1. i \in 1..n /\ stack'[i] = stack[i] /\ stack'[i + 1] = e
      BY <1>8, <1>11, <2>2
    <3>2. stack[i].slot \in Slots \ {v} /\ status[stack[i].slot] = "running"
      BY <1>8, <1>14, <2>2, <3>1
    <3>3. stack'[i + 1].by = "inline" /\ status'[stack'[i].slot] = "running"
      BY <1>10, <1>13, <3>1, <3>2
    <3>4. /\ stack[i].by = "drain" <=> i = 1
          /\ stack[i].by = "inline" => stack[i].id \in Processes
      BY <1>14, <3>1
    <3> QED
      BY <3>1, <3>3, <3>4
  <2>3. CASE i \in 1..n /\ i # n
    <3>1. i + 1 \in 1..n /\ i < n
      <4>1. n \in Nat
        BY <1>8
      <4> HIDE DEF n
      <4> QED
        BY <2>3, <4>1
    <3>2. stack'[i] = stack[i] /\ stack'[i + 1] = stack[i + 1] /\ stack[i].slot \in Slots \ {v}
      BY <1>8, <1>11, <1>14, <2>3, <3>1
    <3> QED
      BY <1>13, <1>14, <2>3, <3>1, <3>2
  <2>4. i = n + 1 \/ i \in 1..n
    <3>1. n \in Nat
      BY <1>8
    <3> HIDE DEF n
    <3> QED
      BY <3>1
  <2> QED
    BY <2>1, <2>2, <2>3, <2>4
<1>16. ASSUME NEW i \in 1..n + 1, NEW k \in 1..n + 1, i < k
       PROVE  stack'[i].slot # stack'[k].slot
  <2>1. i \in 1..n
    BY <1>8, <1>16
  <2>2. CASE k = n + 1
    BY <1>10, <1>11, <1>14, <2>1, <2>2
  <2>3. CASE k \in 1..n
    BY <1>8, <1>11, <1>16, <2>1, <2>3 DEF Activity
  <2> QED
    BY <1>8, <2>2, <2>3
<1>17. \A t \in Slots : awaits'[t].kind = "starting" =>
         \E i \in 1..n + 1 : i < n + 1 /\ stack'[i].slot = t
  <2> SUFFICES ASSUME NEW t \in Slots, awaits'[t].kind = "starting"
               PROVE  \E i \in 1..n + 1 : i < n + 1 /\ stack'[i].slot = t
    OBVIOUS
  <2>1. awaits[t].kind = "starting"
    BY <1>13
  <2>2. PICK i \in 1..n : stack[i].slot = t
    BY <1>8, <2>1 DEF Activity
  <2>3. i \in 1..n + 1 /\ i < n + 1 /\ stack'[i].slot = t
    BY <1>8, <1>11, <2>2
  <2> QED
    BY <2>3
<1>18. Activity'
  <2>1. stack'[Len(stack')].slot = v
    BY <1>10, <1>11
  <2>2. pc' = "run" /\ stack' # <<>> /\ status'[v] = "running"
    BY <1>6, <1>11, <1>13
  <2>3. PICK m : m = n + 1
    OBVIOUS
  <2>4. Len(stack') = m /\ DOMAIN stack' = 1..m
    BY <1>11, <2>3
  <2>5. \A i \in 1..m :
          /\ stack'[i].by = "drain" <=> i = 1
          /\ stack'[i].by = "inline" => stack'[i].id \in Processes
          /\ i < m => IF stack'[i + 1].by = "inline"
                      THEN status'[stack'[i].slot] = "running"
                      ELSE awaits'[stack'[i].slot].kind = "starting"
    BY <1>15, <2>3
  <2>6. \A i, k \in 1..m : i < k => stack'[i].slot # stack'[k].slot
    BY <1>16, <2>3
  <2>7. \A t \in Slots : awaits'[t].kind = "starting" => \E i \in 1..m : i < m /\ stack'[i].slot = t
    BY <1>17, <2>3
  <2> QED
    BY ONLY <2>1, <2>2, <2>4, <2>5, <2>6, <2>7 DEF Activity, Top
<1> QED
  BY <1>7, <1>12, <1>18 DEF Books

-----------------------------------------------------------------------------
(* The theorems.                                                           *)

LEMMA InitIInv ==
  Init => IInv
<1> SUFFICES ASSUME Init PROVE IInv
  OBVIOUS
<1>1. /\ \A s \in Slots : status[s] = "free" /\ link[s] = Nothing /\ awaits[s] = Nothing
      /\ \A s \in Slots : ~Live(s)
      /\ Nothing.kind = "none" /\ Nothing \in Links /\ Nothing \in Awaits
      /\ stack = <<>> /\ DOMAIN stack = {} /\ pending = <<>> /\ DOMAIN pending = {}
      /\ pc = "idle" /\ roots = {}
  BY RefIs DEF Init, Live
<1>2. TypeOK
  <2>1. status \in [Slots -> Statuses] /\ link \in [Slots -> Links] /\ awaits \in [Slots -> Awaits]
    BY <1>1 DEF Init, Statuses
  <2>2. \A p \in Processes : control[p] = NoControl /\ NoControl \in ControlsOf({})
    <3>1. EmptyList \in [{} -> SUBSET Slots]
      BY DEF EmptyList
    <3> QED
      BY <3>1 DEF Init, NoControl, ControlsOf
  <2>3. control = [p \in Processes |-> control[p]]
    BY DEF Init
  <2>4. /\ join \in [Joins -> [remaining: 0..2, parent: {None} \cup Slots, threw: 0..2]]
        /\ thrown \in [Joins -> Seq(BOOLEAN)]
    <3>1. NoJoin \in [remaining: 0..2, parent: {None} \cup Slots, threw: 0..2]
      BY DEF NoJoin
    <3> QED
      BY <3>1 DEF Init
  <2> QED
    BY <1>1, <2>1, <2>2, <2>3, <2>4 DEF Init, TypeOK
<1>3. FramesFit /\ NoOrphans /\ Calls /\ NoneStranded /\ NoneLost
  BY <1>1 DEF FramesFit, NoOrphans, Calls, NoneStranded, NoneLost
<1>4. Rooted
  BY <1>1 DEF Rooted, ChildrenOf
<1>5. ProcessBooks
  <2>1. \A p \in Processes : /\ ~control[p].spawned /\ ~control[p].done
                             /\ control[p].waiters = EmptyList
    BY DEF Init, NoControl
  <2> QED
    BY <1>1, <2>1, EmptyListFacts DEF ProcessBooks
<1>6. JoinBooks
  <2>1. \A j \in Joins : join[j].threw = 0 /\ thrown[j] = <<>>
    BY DEF Init, NoJoin
  <2> QED
    BY <1>1, <2>1 DEF JoinBooks, FirstKept
<1>7. Activity
  BY <1>1 DEF Activity
<1> QED
  BY <1>2, <1>3, <1>4, <1>5, <1>6, <1>7 DEF IInv

LEMMA StutterStep ==
  ASSUME IInv, UNCHANGED vars
  PROVE  IInv'
<1> USE DEF IInv, vars
<1>1. FramesFit' /\ NoOrphans' /\ Calls' /\ Rooted' /\ JoinBooks'
  BY FramesKept
<1>2. TypeOK'
  BY DEF TypeOK, frameVars
<1>3. ProcessBooks' /\ NoneStranded' /\ NoneLost'
  BY DEF ProcessBooks, NoneStranded, NoneLost, frameVars, Live
<1>4. Activity'
  BY DEF Activity, frameVars, Top
<1> QED
  BY <1>1, <1>2, <1>3, <1>4

LEMMA NextIInv ==
  IInv /\ [Next]_vars => IInv'
<1> SUFFICES ASSUME IInv, [Next]_vars PROVE IInv'
  OBVIOUS
<1>1. CASE Scheduler
  BY <1>1, ApplyPendingStep, CollectRootsStep, PopStep, DrainEndStep, ReturnDrainStep,
     ReturnInlineStep, ReturnTimeoutStep, StartDrainStep DEF Scheduler
<1>2. ASSUME NEW p \in Processes, Cancel(p) \/ CancelOutside(p)
      PROVE  IInv'
  BY <1>2, CancelStep, CancelOutsideStep
<1>3. ASSUME NEW s \in Slots, AwaitTrigger(s) \/ Fire(s)
      PROVE  IInv'
  BY <1>3, AwaitTriggerStep, FireStep
<1>4. ASSUME NEW s \in Slots, Finish(s)
      PROVE  IInv'
  <2>1. CASE FinishTask(s)
    BY <2>1, FinishTaskStep
  <2>2. ASSUME NEW x \in BOOLEAN, FinishProcess(s, x) \/ FinishJoined(s, x)
        PROVE  IInv'
    BY <2>2, FinishProcessStep, FinishJoinedStep
  <2> QED
    BY <1>4, <2>1, <2>2 DEF Finish
<1>5. ASSUME NEW s \in Slots, NEW p \in Processes,
             AwaitInline(s, p) \/ AwaitProcess(s, p) \/ Spawn(s, p)
      PROVE  IInv'
  BY <1>5, AwaitInlineStep, AwaitProcessStep, SpawnStep
<1>6. ASSUME NEW s \in Slots, NEW t \in Slots, AwaitTask(s, t)
      PROVE  IInv'
  BY <1>6, AwaitTaskStep
<1>7. ASSUME NEW s \in Slots, NEW t \in Slots, NEW u \in Slots,
             AwaitTimeout(s, t, u) \/ AwaitJoin(s, t, u)
      PROVE  IInv'
  BY <1>7, AwaitTimeoutStep, AwaitJoinStep
<1>8. CASE UNCHANGED vars
  BY <1>8, StutterStep
<1> QED
  BY <1>1, <1>2, <1>3, <1>4, <1>5, <1>6, <1>7, <1>8 DEF Next

\* In every reachable state the coroutines are in families that are finite trees, and
\* the books of the processes, of the JoinStates and of the activations are right.
THEOREM TasksInvariant ==
  Spec => []IInv
BY InitIInv, NextIInv, PTL DEF Spec

\* No coroutine outlives the parent that awaits it, none runs after it has finished
\* or was cancelled, who awaits a process is registered with it as long as it lives,
\* and whoever is ready is in the ready queue.
THEOREM TasksFamiliesIntact ==
  Spec => []FamiliesIntact
<1>1. ASSUME IInv PROVE FamiliesIntact
  <2> USE <1>1 DEF IInv
  <2>1. ASSUME NEW i \in DOMAIN stack, i < Len(stack) \/ pc = "run"
        PROVE  Live(stack[i].slot)
    <3>1. pc \in {"run", "return"}
      BY EntryTypes DEF Activity
    <3>2. DOMAIN stack = 1..Len(stack) /\ Len(stack) \in Nat /\ stack[i].slot \in Slots
      BY <3>1, StackFacts
    <3>3. CASE i < Len(stack)
      <4>1. status[stack[i].slot] = "running" \/ awaits[stack[i].slot].kind = "starting"
        BY <3>3 DEF Activity
      <4>2. Nothing.kind = "none"
        BY RefIs
      <4> QED
        BY <3>2, <4>1, <4>2 DEF FramesFit, Live
    <3>4. CASE i = Len(stack)
      <4>1. status[stack[i].slot] = "running"
        BY <2>1, <3>2, <3>4 DEF Activity, Top
      <4> QED
        BY <4>1 DEF Live
    <3> QED
      BY <3>2, <3>3, <3>4
  <2> QED
    BY <2>1 DEF FamiliesIntact, NoZombie
<1> QED
  BY <1>1, TasksInvariant, PTL

\* The parent of a Join goes on only when both children have ended, and gets the
\* exception of the one that threw first.
THEOREM TasksJoinReturns ==
  Spec => JoinReturns
<1> DEFINE Returns ==
             \A s \in DOMAIN status :
               LET j == awaits[s].id
               IN awaits[s].kind = "join" /\ status[s] = "ready" /\ status'[s] = "running"
                    => /\ Len(thrown[j]) = 2
                       /\ join[j].threw = IF \E i \in 1..2 : thrown[j][i]
                                          THEN CHOOSE i \in 1..2 : thrown[j][i] /\ \A k \in 1..i - 1 : ~thrown[j][k]
                                          ELSE 0
<1>1. ASSUME IInv PROVE Returns
  <2> DEFINE First(j) == IF \E i \in 1..2 : thrown[j][i]
                         THEN CHOOSE i \in 1..2 : thrown[j][i] /\ \A k \in 1..i - 1 : ~thrown[j][k]
                         ELSE 0
  <2> USE <1>1 DEF IInv
  <2> SUFFICES ASSUME NEW s \in DOMAIN status, awaits[s].kind = "join", status[s] = "ready"
               PROVE  Len(thrown[awaits[s].id]) = 2 /\ join[awaits[s].id].threw = First(awaits[s].id)
    OBVIOUS
  <2>1. s \in Slots /\ awaits[s].id \in Joins
    BY AwaitIs DEF TypeOK
  <2>2. PICK j \in Joins : j = awaits[s].id
    BY <2>1
  <2>3. JoinCounts(s, j) /\ FirstKept(j)
    BY <2>1, <2>2 DEF JoinBooks
  <2>4. /\ thrown[j] \in Seq(BOOLEAN) /\ Len(thrown[j]) \in Nat
        /\ DOMAIN thrown[j] = 1..Len(thrown[j])
    BY DEF TypeOK
  <2>5. Len(thrown[j]) = 2 /\ DOMAIN thrown[j] = 1..2
    <3>1. /\ join[j].remaining = 0
          /\ Len(thrown[j]) + join[j].remaining = 2
      BY <2>2, <2>3 DEF JoinCounts
    <3>2. PICK n, r : n = Len(thrown[j]) /\ r = join[j].remaining
      OBVIOUS
    <3>3. n \in Nat /\ r = 0 /\ n + r = 2
      BY <2>4, <3>1, <3>2
    <3>4. n = 2
      BY ONLY <3>3
    <3> QED
      BY <2>4, <3>2, <3>4, Zenon
  <2>6. PICK r : r = join[j].threw
    OBVIOUS
  <2>7. /\ r \in 0..2 /\ (r # 0 => thrown[j][r])
        /\ \A i \in 1..2 : thrown[j][i] => r # 0 /\ r <= i
    BY <2>3, <2>5, <2>6 DEF FirstKept
  <2>8. r = First(j)
    <3>1. CASE r = 0
      BY <2>7, <3>1
    <3>2. CASE r # 0
      <4>1. r \in 1..2 /\ thrown[j][r] /\ \A k \in 1..r - 1 : ~thrown[j][k]
        BY <2>7, <3>2
      <4>2. ASSUME NEW i \in 1..2, thrown[j][i], \A k \in 1..i - 1 : ~thrown[j][k]
            PROVE  i = r
        <5>1. r <= i
          BY <2>7, <4>2
        <5>2. ~(r < i)
          BY <4>1, <4>2
        <5> QED
          BY <4>1, <5>1, <5>2
      <4> QED
        BY <4>1, <4>2
    <3> QED
      BY <3>1, <3>2
  <2> QED
    BY <2>2, <2>5, <2>6, <2>8
<1>2. IInv /\ [Next]_vars => [Returns]_vars
  BY <1>1
<1>3. Init /\ [][Next]_vars => []IInv
  BY TasksInvariant DEF Spec
<1> QED
  BY <1>2, <1>3, PTL DEF Spec, JoinReturns
=============================================================================
