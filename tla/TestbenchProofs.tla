--------------------------- MODULE TestbenchProofs ---------------------------
(***************************************************************************)
(* Proofs about the components a testbench is made of, for any number of   *)
(* them and any bounds.                                                    *)
(*                                                                         *)
(* Apb: a write or a read that returns Ok was one complete transfer on the *)
(* bus, with the data it names; one that failed to get the bus never       *)
(* reached the device; and the monitor and the checker report what         *)
(* happened, whoever is cancelled where.                                   *)
(*                                                                         *)
(* AnalysisPort: a write calls those who were connected when it began and  *)
(* still are, once each, under every nesting of writes, connections and    *)
(* disconnections.                                                         *)
(*                                                                         *)
(* TransactionRecorder: the traces are in order, a finalized one without a *)
(* silent gap and in whole lines, and final once they are called final.    *)
(***************************************************************************)
EXTENDS Apb, WaitListProofs

CONSTANTS
  \* those of AnalysisPort
  Handles, Depth, Connects, Writes,
  \* those of TransactionRecorder
  Names, Memories, Files, Publications, Reconnects

VARIABLES
  \* AnalysisPort
  slots, next_id, depth, compacting, handle, portAlive, frames, portBudget,
  \* TransactionRecorder
  streams, enabled, output, kept, file, written, torn, constant, thrown, recorderBudget

Port == INSTANCE AnalysisPort WITH
  pending <- compacting, alive <- portAlive, budget <- portBudget

Recorder == INSTANCE TransactionRecorder WITH budget <- recorderBudget

-----------------------------------------------------------------------------
(* Queues of distinct elements.                                            *)

Holds(q, d) == \E k \in DOMAIN q : q[k] = d

\* Concatenation, element by element
LEMMA Joined ==
  ASSUME NEW T, NEW a, a \in Seq(T), NEW b, b \in Seq(T), NEW r, r = a \o b
  PROVE  /\ r \in Seq(T) /\ Len(r) = Len(a) + Len(b)
         /\ \A k \in 1..Len(a) + Len(b) : r[k] = IF k <= Len(a) THEN a[k] ELSE b[k - Len(a)]
  OBVIOUS

\* Erasing a connection leaves the others connected once each.
LEMMA RemovedOne ==
  ASSUME NEW T, NEW q, q \in Seq(T), IsInjective(q), NEW i, i \in DOMAIN q,
         NEW r, r = RemoveAt(q, i)
  PROVE  /\ r \in Seq(T) /\ IsInjective(r)
         /\ \A d : Holds(r, d) <=> Holds(q, d) /\ d # q[i]
<1>1. Len(q) \in Nat /\ DOMAIN q = 1..Len(q) /\ i \in 1..Len(q)
  OBVIOUS
<1> DEFINE a == SubSeq(q, 1, i - 1)
           b == SubSeq(q, i + 1, Len(q))
<1>2. /\ a \in Seq(T) /\ Len(a) = i - 1
      /\ \A k \in 1..i - 1 : a[k] = q[k]
  BY <1>1
<1>3. /\ b \in Seq(T) /\ Len(b) = Len(q) - i
      /\ \A k \in 1..Len(q) - i : b[k] = q[k + i]
  BY <1>1
<1>4. r = a \o b
  BY DEF RemoveAt
<1> HIDE DEF a, b
<1>5. /\ r \in Seq(T) /\ Len(r) = Len(q) - 1
      /\ \A k \in 1..Len(q) - 1 : r[k] = IF k < i THEN q[k] ELSE q[k + 1]
  <2>1. PICK m \in Nat : m = Len(q)
    BY <1>1
  <2>2. i \in 1..m /\ Len(a) = i - 1 /\ Len(b) = m - i /\ a \in Seq(T) /\ b \in Seq(T)
    BY <1>1, <1>2, <1>3, <2>1
  <2>6. PICK x : x = a
    OBVIOUS
  <2>7. PICK y : y = b
    OBVIOUS
  <2>8. x \in Seq(T) /\ y \in Seq(T) /\ r = x \o y
    BY <1>4, <2>2, <2>6, <2>7
  <2>9. /\ r \in Seq(T) /\ Len(r) = Len(x) + Len(y)
        /\ \A k \in 1..Len(x) + Len(y) : r[k] = IF k <= Len(x) THEN x[k] ELSE y[k - Len(x)]
    BY ONLY <2>8, Joined
  <2>3. r \in Seq(T) /\ Len(r) = Len(a) + Len(b)
    BY <2>6, <2>7, <2>9
  <2>4. Len(r) = m - 1
    BY <2>2, <2>3
  <2>5. ASSUME NEW k \in 1..m - 1
        PROVE  r[k] = IF k < i THEN q[k] ELSE q[k + 1]
    <3>1. r[k] = IF k <= Len(a) THEN a[k] ELSE b[k - Len(a)]
      <4>1. \A l \in 1..Len(a) + Len(b) : r[l] = IF l <= Len(a) THEN a[l] ELSE b[l - Len(a)]
        BY <2>6, <2>7, <2>9
      <4>2. k \in 1..Len(a) + Len(b)
        BY <2>2
      <4> QED
        BY <4>1, <4>2
    <3>2. CASE k < i
      BY <1>2, <2>2, <3>1, <3>2
    <3>3. CASE ~(k < i)
      <4>1. k - (i - 1) \in 1..m - i /\ (k - (i - 1)) + i = k + 1
        BY <2>2, <3>3
      <4>2. r[k] = b[k - (i - 1)]
        BY <2>2, <3>1, <3>3
      <4> QED
        BY <1>3, <2>1, <3>3, <4>1, <4>2
    <3> QED
      BY <3>2, <3>3
  <2> QED
    BY <2>1, <2>3, <2>4, <2>5
<1>6. ASSUME NEW k \in DOMAIN r, NEW l \in DOMAIN r, r[k] = r[l]
      PROVE  k = l
  <2>1. k \in 1..Len(q) - 1 /\ l \in 1..Len(q) - 1
    BY <1>5
  <2>2. PICK m \in DOMAIN q : q[m] = r[k] /\ m = IF k < i THEN k ELSE k + 1
    BY <1>1, <1>5, <2>1
  <2>3. PICK n \in DOMAIN q : q[n] = r[l] /\ n = IF l < i THEN l ELSE l + 1
    BY <1>1, <1>5, <2>1
  <2>4. m = n
    BY <1>6, <2>2, <2>3 DEF IsInjective
  <2> QED
    BY <1>1, <2>1, <2>2, <2>3, <2>4
<1>7. ASSUME NEW d
      PROVE  Holds(r, d) <=> Holds(q, d) /\ d # q[i]
  <2>1. DOMAIN r = 1..Len(q) - 1
    BY <1>1, <1>5
  <2>2. ASSUME NEW k \in DOMAIN r, r[k] = d
        PROVE  Holds(q, d) /\ d # q[i]
    <3>1. PICK m \in DOMAIN q : q[m] = d /\ m = IF k < i THEN k ELSE k + 1
      BY <1>1, <1>5, <2>1, <2>2
    <3>2. m # i
      BY <1>1, <2>1, <3>1
    <3> QED
      BY <3>1, <3>2 DEF Holds, IsInjective
  <2>3. ASSUME NEW m \in DOMAIN q, q[m] = d, d # q[i]
        PROVE  Holds(r, d)
    <3>1. m # i
      BY <2>3
    <3>2. PICK k \in 1..Len(q) - 1 : m = IF k < i THEN k ELSE k + 1
      <4>1. CASE m < i
        <5>1. m \in 1..Len(q) - 1
          BY <1>1, <4>1
        <5> QED
          BY <4>1, <5>1
      <4>2. CASE ~(m < i)
        <5>1. m - 1 \in 1..Len(q) - 1 /\ ~(m - 1 < i)
          BY <1>1, <3>1, <4>2
        <5>2. m = (m - 1) + 1
          BY <1>1
        <5> QED
          BY <5>1, <5>2
      <4> QED
        BY <4>1, <4>2
    <3>3. r[k] = d
      BY <1>5, <2>3, <3>2
    <3> QED
      BY <2>1, <3>3 DEF Holds
  <2> QED
    BY <2>2, <2>3 DEF Holds
<1> QED
  BY <1>5, <1>6, <1>7 DEF IsInjective

\* A sink that is not connected is connected once.
LEMMA AddedOne ==
  ASSUME NEW T, NEW q, q \in Seq(T), IsInjective(q), NEW x, x \in T, ~Holds(q, x),
         NEW r, r = Append(q, x)
  PROVE  /\ r \in Seq(T) /\ IsInjective(r)
         /\ \A d : Holds(r, d) <=> Holds(q, d) \/ d = x
<1>1. /\ Len(q) \in Nat /\ DOMAIN q = 1..Len(q)
      /\ r \in Seq(T) /\ DOMAIN r = 1..Len(q) + 1
      /\ \A k \in 1..Len(q) : r[k] = q[k] /\ r[k] # x
      /\ r[Len(q) + 1] = x
  BY DEF Holds
<1>2. \A k \in DOMAIN r : k \in 1..Len(q) \/ k = Len(q) + 1
  BY <1>1
<1>3. \A k, l \in DOMAIN r : r[k] = r[l] => k = l
  BY <1>1, <1>2 DEF IsInjective
<1>4. \A d : Holds(r, d) <=> Holds(q, d) \/ d = x
  <2>1. DOMAIN q \subseteq DOMAIN r /\ Len(q) + 1 \in DOMAIN r
    BY <1>1
  <2> QED
    BY <1>1, <1>2, <2>1 DEF Holds
<1> QED
  BY <1>1, <1>3, <1>4 DEF IsInjective

\* The first of a queue leaves it.
LEMMA FirstOut ==
  ASSUME NEW T, NEW q, q \in Seq(T), IsInjective(q), q # <<>>, NEW r, r = Tail(q)
  PROVE  /\ r \in Seq(T) /\ IsInjective(r) /\ Head(q) \in T
         /\ Holds(q, Head(q))
         /\ \A d : Holds(r, d) <=> Holds(q, d) /\ d # Head(q)
<1>1. /\ Len(q) \in Nat \ {0} /\ DOMAIN q = 1..Len(q) /\ Head(q) = q[1] /\ 1 \in DOMAIN q
      /\ r \in Seq(T) /\ DOMAIN r = 1..Len(q) - 1
      /\ \A k \in 1..Len(q) - 1 : r[k] = q[k + 1]
  OBVIOUS
<1>2. \A k \in 1..Len(q) - 1 : k + 1 \in DOMAIN q /\ k + 1 # 1
  BY <1>1
<1>3. \A m \in DOMAIN q : m # 1 => m - 1 \in 1..Len(q) - 1 /\ (m - 1) + 1 = m
  BY <1>1
<1>4. IsInjective(r)
  <2> SUFFICES ASSUME NEW k \in DOMAIN r, NEW l \in DOMAIN r, r[k] = r[l] PROVE k = l
    BY DEF IsInjective
  <2>1. k + 1 = l + 1
    BY <1>1, <1>2 DEF IsInjective
  <2> QED
    BY <1>1, <2>1
<1>5. \A d : Holds(r, d) => Holds(q, d) /\ d # Head(q)
  BY <1>1, <1>2 DEF Holds, IsInjective
<1>6. \A d : Holds(q, d) /\ d # Head(q) => Holds(r, d)
  BY <1>1, <1>3 DEF Holds
<1>7. Head(q) \in T /\ Holds(q, Head(q))
  <2>1. q[1] \in T
    OBVIOUS
  <2>2. q[1] = Head(q) /\ 1 \in DOMAIN q
    BY <1>1
  <2> QED
    BY ONLY <2>1, <2>2 DEF Holds
<1> QED
  BY <1>1, <1>4, <1>5, <1>6, <1>7

-----------------------------------------------------------------------------
(* The lock.                                                               *)

Held == {"anchor", "setup", "turn", "access", "drop"}

\* What the invariant says of types, as the steps use it.
LEMMA ApbTypes ==
  ASSUME TypeOK
  PROVE  /\ clk \in {"low", "high"}
         /\ {bus.select, bus.enable, bus.write} \subseteq BOOLEAN
         /\ bus.address \in Party /\ bus.data \in Party /\ bus.strobe \in Strobes
         /\ bus = [select |-> bus.select, enable |-> bus.enable, write |-> bus.write,
                   address |-> bus.address, data |-> bus.data, strobe |-> bus.strobe]
         /\ Owner \in Party /\ lock.queue \in Seq(Clients)
         /\ lock = [owner |-> Owner, queue |-> lock.queue]
         /\ pc \in [Clients -> Places] /\ req \in [Clients -> Requests]
         /\ waits \in [Clients -> Nat] /\ answer \in [Clients -> Responses]
         /\ monitor.at \in {"off", "seek", "access"} /\ monitor.waits \in Nat
         /\ monitor.write \in BOOLEAN /\ monitor.address \in Party /\ monitor.data \in Party
         /\ monitor.strobe \in Strobes
         /\ {checker.on, checker.fresh, checker.setup, checker.waiting, checker.write} \subseteq BOOLEAN
         /\ checker.address \in Party /\ checker.data \in Party /\ checker.strobe \in Strobes
         /\ stall \in 0..Stalls
         /\ budget.calls \in [Clients -> 0..Transfers]
         /\ budget.cancels \in 0..Cancels /\ budget.starts \in 0..Starts
         /\ history.served \in [Clients -> Seq(Events)]
         /\ history.published \in [Clients -> Seq(Observations)]
         /\ history.watched \in [Clients -> BOOLEAN]
         /\ history.excused \in BOOLEAN /\ history.reports \in BOOLEAN
BY DEF TypeOK, Owner

\* Only the owner of the lock uses the bus.
LEMMA OneOwner ==
  ASSUME TypeOK, Locked
  PROVE  /\ Owner # Nobody => Owner \in Clients
         /\ \A c \in Clients : c = Owner => pc[c] \in Held
         /\ \A c \in Clients : c # Owner => pc[c] \in {"idle", "queued", "gone"}
         /\ \A c \in Clients : pc[c] = "queued" <=> Holds(lock.queue, c)
         /\ IsInjective(lock.queue)
         /\ Owner = Nobody => lock.queue = <<>>
<1>1. Owner \in Party /\ pc \in [Clients -> Places]
  BY ApbTypes
<1> QED
  BY <1>1 DEF Locked, Serialised, Held, Places, Party, Holds

\* The lock changes hands: the first of the queue owns it, whatever became of the owner.
LEMMA ReleaseFacts ==
  ASSUME ApbAssumption, TypeOK, Locked, NEW c \in Clients, c = Owner, NEW to, to \in {"idle", "gone"},
         lock' = Released, pc' = Moves(c, to)
  PROVE  /\ Locked'
         /\ lock' \in [owner: Party, queue: Seq(Clients)]
         /\ pc' \in [Clients -> Places]
         /\ pc'[c] = to
         /\ \A d \in Clients : /\ pc'[d] \in {"idle", "queued", "gone", "anchor"}
                               /\ d # c => pc'[d] = pc[d] \/ (pc[d] = "queued" /\ pc'[d] = "anchor")
<1>1. Nobody \notin Clients /\ pc \in [Clients -> Places] /\ lock.queue \in Seq(Clients)
  BY ApbTypes DEF ApbAssumption
<1>2. CASE lock.queue = <<>>
  <2>1. lock' = [owner |-> Nobody, queue |-> <<>>]
    BY <1>2 DEF Released
  <2>2. pc' = [d \in Clients |-> IF d = c THEN to ELSE pc[d]]
    BY <1>1, <1>2 DEF Moves, Released
  <2>3. Owner' = Nobody /\ lock'.queue = <<>> /\ <<>> \in Seq(Clients) /\ IsInjective(<<>>)
    BY <2>1 DEF Owner, IsInjective
  <2>4. \A d \in Clients : ~Holds(lock.queue, d) /\ ~Holds(lock'.queue, d)
    BY <1>2, <2>3 DEF Holds
  <2>5. \A d \in Clients : pc'[d] \in {"idle", "gone"} /\ (d # c => pc'[d] = pc[d])
    BY <2>2, <2>4, OneOwner
  <2>6. Serialised'
    BY <1>1, <2>3, <2>4, <2>5 DEF Serialised, Holds
  <2>7. lock' \in [owner: Party, queue: Seq(Clients)]
    BY <2>1, <2>3 DEF Party
  <2>8. pc' \in [Clients -> Places] /\ pc'[c] = to
    BY <1>1, <2>2, <2>5 DEF Places
  <2> QED
    BY <2>3, <2>5, <2>6, <2>7, <2>8 DEF Locked
<1>3. CASE lock.queue # <<>>
  <2>a. PICK q : q = lock.queue
    OBVIOUS
  <2>b. PICK r : r = Tail(q)
    OBVIOUS
  <2>c. PICK h : h = Head(q)
    OBVIOUS
  <2>d. q \in Seq(Clients) /\ IsInjective(q) /\ q # <<>>
    BY <1>1, <1>3, <2>a, OneOwner
  <2>e. /\ r \in Seq(Clients) /\ IsInjective(r) /\ h \in Clients /\ Holds(q, h)
        /\ \A d : Holds(r, d) <=> Holds(q, d) /\ d # h
    BY ONLY <2>b, <2>c, <2>d, FirstOut
  <2>1. lock' = [owner |-> h, queue |-> r]
    BY <1>3, <2>a, <2>b, <2>c DEF Released
  <2>2. /\ r \in Seq(Clients) /\ IsInjective(r) /\ h \in Clients /\ Holds(lock.queue, h)
        /\ \A d : Holds(r, d) <=> Holds(lock.queue, d) /\ d # h
    BY <2>a, <2>e
  <2>3. pc' = [d \in Clients |-> IF d = c THEN to ELSE IF d = h THEN "anchor" ELSE pc[d]]
    BY <1>3, <2>a, <2>c DEF Moves, Released
  <2>4. Owner' = h /\ lock'.queue = r
    BY <2>1 DEF Owner
  <2>5. pc[h] = "queued" /\ h # c
    BY <2>2, OneOwner DEF Held
  <2>6. /\ pc'[h] = "anchor" /\ pc'[c] = to
        /\ \A d \in Clients : d # c /\ d # h => pc'[d] = pc[d] /\ pc[d] \in {"idle", "queued", "gone"}
    BY <2>2, <2>3, <2>5, OneOwner
  <2>7. \A d \in Clients : /\ pc'[d] \in {"anchor", "setup", "turn", "access", "drop"} <=> d = h
                           /\ pc'[d] = "queued" <=> Holds(r, d)
    <3>1. ~Holds(lock.queue, c)
      BY OneOwner DEF Held
    <3> QED
      BY <2>2, <2>5, <2>6, <3>1, OneOwner
  <2>8. Serialised'
    BY <2>4, <2>7 DEF Serialised, Holds
  <2>9. lock' \in [owner: Party, queue: Seq(Clients)]
    BY <2>1, <2>2 DEF Party
  <2>10. pc' \in [Clients -> Places]
    BY <1>1, <2>3 DEF Places
  <2>11. \A d \in Clients : /\ pc'[d] \in {"idle", "queued", "gone", "anchor"}
                            /\ d # c => pc'[d] = pc[d] \/ (pc[d] = "queued" /\ pc'[d] = "anchor")
    BY <2>5, <2>6
  <2>12. Owner' # Nobody
    BY <1>1, <2>2, <2>4
  <2> QED
    BY <2>2, <2>4, <2>6, <2>8, <2>9, <2>10, <2>11, <2>12 DEF Locked
<1> QED
  BY <1>2, <1>3

-----------------------------------------------------------------------------
(* What a sample records.                                                  *)

\* The event the device records and the observation the monitor publishes.
Event(failed, value) ==
    [request |-> [write |-> bus.write, strobe |-> bus.strobe, data |-> bus.data],
     status |-> IF failed THEN "error" ELSE "okay",
     value |-> IF bus.write THEN Nobody ELSE value, waits |-> stall]
Observation(failed, value) ==
    [address |-> monitor.address, data |-> monitor.data, strobe |-> monitor.strobe,
     answer |-> [status |-> IF failed THEN "error" ELSE "okay", waits |-> monitor.waits,
                 value |-> IF monitor.write THEN Nobody ELSE value]]

\* The excuses, and the faults, once a sample has been taken.
Excuses ==
    \/ history.excused
    \/ checker.fresh /\ (checker.waiting \/ (bus.select /\ bus.enable))
    \/ \E d \in Clients : answer'[d].status = "timeout"
Faults == history.reports \/ (checker.on /\ Violates)

\* A sample changes nothing of the clients whose request is not on the bus, records what was served
\* and published for the one whose request is, and remembers whether its setup phase was watched.
Recorded(ready, failed, value) ==
    /\ \A d \in Clients : ~(bus.select /\ d = bus.address) =>
           /\ history'.served[d] = history.served[d]
           /\ history'.published[d] = history.published[d]
           /\ history'.watched[d] = history.watched[d]
    /\ \A d \in Clients : ~ready =>
           /\ history'.served[d] = history.served[d]
           /\ history'.published[d] = history.published[d]
    /\ \A d \in Clients : bus.enable => history'.watched[d] = history.watched[d]
    /\ bus.select /\ ~bus.enable => history'.watched[bus.address] = (monitor.at # "off")
    /\ ready =>
           /\ history'.served[bus.address] =
                 IF Len(history.served[bus.address]) < 2
                 THEN Append(history.served[bus.address], Event(failed, value))
                 ELSE history.served[bus.address]
           /\ history'.published[bus.address] =
                 IF monitor.at = "access"
                 THEN Append(history.published[bus.address], Observation(failed, value))
                 ELSE history.published[bus.address]
    /\ history'.reports = Faults
    /\ history'.excused = Excuses

HistoryType == [served: [Clients -> Seq(Events)], published: [Clients -> Seq(Observations)],
                watched: [Clients -> BOOLEAN], excused: BOOLEAN, reports: BOOLEAN]

LEMMA SampleRecorded ==
  ASSUME ApbAssumption, TypeOK, Driven, Monitored,
         NEW ready \in BOOLEAN, NEW failed \in BOOLEAN, NEW value \in Values \cup {Nobody},
         ready => bus.select /\ bus.enable,
         Watch(ready, failed, value)
  PROVE  history' \in HistoryType /\ Recorded(ready, failed, value)
<1>1. PICK a : a = bus.address
  OBVIOUS
<1>2. PICK e : e = Event(failed, value)
  OBVIOUS
<1>3. PICK o : o = Observation(failed, value)
  OBVIOUS
<1>4. e \in Events
  BY <1>2, ApbTypes DEF Event, Events, Data, Statuses, Party
<1>5. o \in Observations
  BY <1>3, ApbTypes DEF Observation, Observations, Responses, Data, Statuses, Party
<1>6. bus.select => a \in Clients
  BY <1>1 DEF Driven
<1>7. history \in HistoryType
  BY DEF TypeOK, HistoryType
<1>8. Published(ready, failed, value) =
         IF monitor.at = "access" /\ ready THEN {o} ELSE {}
  BY <1>3 DEF Published, Observation
<1>9. monitor.at = "access" /\ ready => o.address = a
  BY <1>1, <1>3 DEF Monitored, Captured, Observation
<1> DEFINE served == IF ready /\ Len(history.served[a]) < 2
                     THEN [history.served EXCEPT ![a] = Append(@, e)] ELSE history.served
           published == [d \in Clients |->
               IF monitor.at = "access" /\ ready /\ d = a
               THEN Append(history.published[d], o) ELSE history.published[d]]
           watched == IF bus.select /\ ~bus.enable
                      THEN [history.watched EXCEPT ![a] = monitor.at # "off"] ELSE history.watched
<1>10. history' = [history EXCEPT !.served = served, !.published = published, !.watched = watched,
                                  !.reports = Faults, !.excused = Excuses]
  <2>1. published = [d \in Clients |->
            IF \E t \in Published(ready, failed, value) : t.address = d
            THEN Append(history.published[d], CHOOSE t \in Published(ready, failed, value) : TRUE)
            ELSE history.published[d]]
    <3>1. CASE monitor.at = "access" /\ ready
      <4>1. Published(ready, failed, value) = {o}
        BY <1>8, <3>1
      <4>2. (CHOOSE t \in {o} : TRUE) = o
        OBVIOUS
      <4>3. \A d : (\E t \in {o} : t.address = d) <=> d = a
        BY <1>9, <3>1
      <4>4. PICK P : P = Published(ready, failed, value)
        OBVIOUS
      <4>5. \A d : (\E t \in P : t.address = d) <=> d = a
        BY <4>1, <4>3, <4>4
      <4>6. (CHOOSE t \in P : TRUE) = o
        BY <4>1, <4>2, <4>4
      <4>7. published = [d \in Clients |->
               IF \E t \in P : t.address = d
               THEN Append(history.published[d], CHOOSE t \in P : TRUE)
               ELSE history.published[d]]
        <5>1. ASSUME NEW d \in Clients
              PROVE  (IF monitor.at = "access" /\ ready /\ d = a
                      THEN Append(history.published[d], o) ELSE history.published[d])
                     = (IF \E t \in P : t.address = d
                        THEN Append(history.published[d], CHOOSE t \in P : TRUE)
                        ELSE history.published[d])
          <6>1. CASE d = a
            <7>1. \E t \in P : t.address = d
              BY <4>5, <6>1
            <7> QED
              BY <3>1, <4>6, <6>1, <7>1
          <6>2. CASE d # a
            <7>1. ~\E t \in P : t.address = d
              BY <4>5, <6>2
            <7> QED
              BY <6>2, <7>1
          <6> QED
            BY <6>1, <6>2
        <5> QED
          BY <5>1
      <4> QED
        BY <4>4, <4>7
    <3>2. CASE ~(monitor.at = "access" /\ ready)
      BY <1>8, <3>2
    <3> QED
      BY <3>1, <3>2
  <2>2. Serves(ready) <=> ready
    BY DEF Serves
  <2> HIDE DEF published
  <2> QED
    BY <1>1, <1>2, <2>1, <2>2 DEF Watch, Event, Excuses, Faults
<1>11. served \in [Clients -> Seq(Events)]
  <2>1. history.served \in [Clients -> Seq(Events)]
    BY ApbTypes
  <2> QED
    BY <1>4, <1>6, <2>1
<1>12. published \in [Clients -> Seq(Observations)]
  <2>1. history.published \in [Clients -> Seq(Observations)]
    BY ApbTypes
  <2> QED
    BY <1>5, <2>1
<1>13. watched \in [Clients -> BOOLEAN]
  BY <1>6, ApbTypes
<1>14. Faults \in BOOLEAN /\ Excuses \in BOOLEAN
  BY ApbTypes DEF Faults, Excuses
<1>15. \A d \in Clients : ~(bus.select /\ d = a) =>
           /\ served[d] = history.served[d]
           /\ published[d] = history.published[d]
           /\ watched[d] = history.watched[d]
  BY <1>6, ApbTypes
<1>16. \A d \in Clients : ~ready => served[d] = history.served[d] /\ published[d] = history.published[d]
  OBVIOUS
<1>17. \A d \in Clients : bus.enable => watched[d] = history.watched[d]
  OBVIOUS
<1>18. bus.select /\ ~bus.enable => watched[a] = (monitor.at # "off")
  BY <1>6, ApbTypes
<1>19. ready =>
         /\ served[a] = IF Len(history.served[a]) < 2 THEN Append(history.served[a], e)
                        ELSE history.served[a]
         /\ published[a] = IF monitor.at = "access" THEN Append(history.published[a], o)
                           ELSE history.published[a]
  BY <1>6, ApbTypes
<1> HIDE DEF served, published, watched
<1>20. /\ history'.served = served /\ history'.published = published /\ history'.watched = watched
       /\ history'.reports = Faults /\ history'.excused = Excuses /\ history' \in HistoryType
  BY <1>7, <1>10, <1>11, <1>12, <1>13, <1>14 DEF HistoryType
<1>23. /\ \A d \in Clients : ~(bus.select /\ d = bus.address) =>
           /\ history'.served[d] = history.served[d]
           /\ history'.published[d] = history.published[d]
           /\ history'.watched[d] = history.watched[d]
       /\ \A d \in Clients : ~ready =>
           /\ history'.served[d] = history.served[d]
           /\ history'.published[d] = history.published[d]
       /\ \A d \in Clients : bus.enable => history'.watched[d] = history.watched[d]
       /\ bus.select /\ ~bus.enable => history'.watched[bus.address] = (monitor.at # "off")
  BY <1>1, <1>15, <1>16, <1>17, <1>18, <1>20
<1>24. ready =>
           /\ history'.served[bus.address] =
                 IF Len(history.served[bus.address]) < 2
                 THEN Append(history.served[bus.address], Event(failed, value))
                 ELSE history.served[bus.address]
           /\ history'.published[bus.address] =
                 IF monitor.at = "access"
                 THEN Append(history.published[bus.address], Observation(failed, value))
                 ELSE history.published[bus.address]
  BY <1>1, <1>2, <1>3, <1>19, <1>20
<1> QED
  BY <1>20, <1>23, <1>24 DEF Recorded

-----------------------------------------------------------------------------
(* The callers                                                             *)

\* Nothing is known to have happened for a client whose coroutine, response and history stand still.
LEMMA KeptSettled ==
  ASSUME NEW c \in Clients, Settled(c), req'[c] = req[c], answer'[c] = answer[c],
         history'.served[c] = history.served[c], history'.published[c] = history.published[c],
         history'.watched[c] = history.watched[c],
         pc'[c] = pc[c] \/ (pc[c] = "queued" /\ pc'[c] = "anchor") \/ pc'[c] = "gone"
  PROVE  Settled(c)'
BY DEF Settled, Waiting, ServedAsAnswered, PublishedAsAnswered

LEMMA KeptCounts ==
  ASSUME NEW c \in Clients, Counts(c), waits'[c] = waits[c],
         \/ pc'[c] = pc[c] /\ (pc[c] \in {"turn", "access"} => stall' = stall)
         \/ pc[c] = "queued" /\ pc'[c] = "anchor"
         \/ pc'[c] = "gone"
  PROVE  Counts(c)'
BY DEF Counts

\* The types of what a call changes are those of the state.
LEMMA Retyped ==
  ASSUME TypeOK, UNCHANGED <<clk, bus, monitor, checker, stall>>,
         lock' \in [owner: Party, queue: Seq(Clients)], pc' \in [Clients -> Places],
         req' \in [Clients -> Requests], waits' \in [Clients -> Nat],
         answer' \in [Clients -> Responses], history' \in HistoryType,
         budget' \in [calls: [Clients -> 0..Transfers], cancels: 0..Cancels, starts: 0..Starts]
  PROVE  TypeOK'
<1>1. /\ clk' \in {"low", "high"} /\ stall' \in 0..Stalls
      /\ bus' \in [select: BOOLEAN, enable: BOOLEAN, write: BOOLEAN, address: Party, data: Party,
                   strobe: Strobes]
  BY DEF TypeOK
<1>2. /\ monitor' \in [at: {"off", "seek", "access"}, waits: Nat, write: BOOLEAN, address: Party,
                       data: Party, strobe: Strobes]
      /\ checker' \in [on: BOOLEAN, fresh: BOOLEAN, setup: BOOLEAN, waiting: BOOLEAN,
                       write: BOOLEAN, address: Party, data: Party, strobe: Strobes]
  BY DEF TypeOK
<1> QED
  BY <1>1, <1>2 DEF TypeOK, HistoryType

\* A cancellation, or a start or stop, leaves the budget within its bounds.
LEMMA SpentTypes ==
  ASSUME ApbAssumption, TypeOK,
         \/ budget.cancels > 0 /\ budget' = [budget EXCEPT !.cancels = @ - 1]
         \/ budget.starts > 0 /\ budget' = [budget EXCEPT !.starts = @ - 1]
  PROVE  budget' \in [calls: [Clients -> 0..Transfers], cancels: 0..Cancels, starts: 0..Starts]
<1>1. budget \in [calls: [Clients -> 0..Transfers], cancels: 0..Cancels, starts: 0..Starts]
  BY DEF TypeOK
<1>2. Cancels \in Nat /\ Starts \in Nat
  BY DEF ApbAssumption
<1>3. PICK F : F = [Clients -> 0..Transfers]
  OBVIOUS
<1>4. PICK b : b = budget
  OBVIOUS
<1>5. b \in [calls: F, cancels: 0..Cancels, starts: 0..Starts]
  BY <1>1, <1>3, <1>4
<1>6. b.cancels > 0 => [b EXCEPT !.cancels = @ - 1] \in [calls: F, cancels: 0..Cancels, starts: 0..Starts]
  BY <1>2, <1>5
<1>7. b.starts > 0 => [b EXCEPT !.starts = @ - 1] \in [calls: F, cancels: 0..Cancels, starts: 0..Starts]
  BY <1>2, <1>5
<1> QED
  BY <1>3, <1>4, <1>6, <1>7

\* A call takes the lock or queues for it, or is refused, and what it did before is forgotten.
LEMMA CallStep ==
  ASSUME ApbAssumption, IInv, NEW c \in Clients, Call(c)
  PROVE  IInv'
<1> USE DEF IInv
<1>1. PICK r \in Requests :
        /\ pc[c] = "idle" /\ budget.calls[c] > 0
        /\ r.write \/ r.strobe = "all"
        /\ budget' = [budget EXCEPT !.calls[c] = @ - 1]
        /\ req' = [req EXCEPT ![c] = r]
        /\ history' = [history EXCEPT !.served[c] = <<>>, !.published[c] = <<>>, !.watched[c] = FALSE]
        /\ waits' = [waits EXCEPT ![c] = 0]
        /\ \/ /\ r.strobe = "part" /\ ~HasStrobe
              /\ answer' = [answer EXCEPT ![c] = [Unanswered EXCEPT !.status = "invalid"]]
              /\ UNCHANGED <<lock, pc>>
           \/ /\ r.strobe = "part" => HasStrobe
              /\ answer' = [answer EXCEPT ![c] = Unanswered]
              /\ \/ /\ Owner = Nobody /\ lock' = [lock EXCEPT !.owner = c]
                    /\ pc' = [pc EXCEPT ![c] = "anchor"]
                 \/ /\ Owner # Nobody /\ lock' = [lock EXCEPT !.queue = Append(@, c)]
                    /\ pc' = [pc EXCEPT ![c] = "queued"]
        /\ UNCHANGED <<clk, bus, monitor, checker, stall>>
  BY DEF Call
<1>2. /\ pc \in [Clients -> Places] /\ answer \in [Clients -> Responses]
      /\ req \in [Clients -> Requests] /\ waits \in [Clients -> Nat]
      /\ history \in HistoryType
  BY DEF TypeOK, HistoryType
<1>3. /\ history' \in HistoryType
      /\ history'.served[c] = <<>> /\ history'.published[c] = <<>> /\ history'.watched[c] = FALSE
      /\ history'.excused = history.excused /\ history'.reports = history.reports
      /\ \A d \in Clients : d # c =>
             /\ history'.served[d] = history.served[d]
             /\ history'.published[d] = history.published[d]
             /\ history'.watched[d] = history.watched[d]
  <2>1. PICK s : s = history.served
    OBVIOUS
  <2>2. PICK p : p = history.published
    OBVIOUS
  <2>3. PICK w : w = history.watched
    OBVIOUS
  <2>4. s \in [Clients -> Seq(Events)] /\ p \in [Clients -> Seq(Observations)] /\ w \in [Clients -> BOOLEAN]
    BY <1>2, <2>1, <2>2, <2>3 DEF HistoryType
  <2>5. history' = [history EXCEPT !.served = [s EXCEPT ![c] = <<>>],
                                   !.published = [p EXCEPT ![c] = <<>>],
                                   !.watched = [w EXCEPT ![c] = FALSE]]
    BY <1>1, <1>2, <2>1, <2>2, <2>3 DEF HistoryType
  <2>6. /\ [s EXCEPT ![c] = <<>>] \in [Clients -> Seq(Events)]
        /\ [p EXCEPT ![c] = <<>>] \in [Clients -> Seq(Observations)]
        /\ [w EXCEPT ![c] = FALSE] \in [Clients -> BOOLEAN]
    BY <2>4
  <2>7. history' \in HistoryType
    BY <1>2, <2>5, <2>6 DEF HistoryType
  <2> QED
    BY <1>2, <2>1, <2>2, <2>3, <2>4, <2>5, <2>7 DEF HistoryType
<1>4. req' \in [Clients -> Requests] /\ waits' \in [Clients -> Nat] /\ answer' \in [Clients -> Responses]
  BY <1>1, <1>2 DEF Unanswered, Responses, Statuses, Data
<1>5. Locked' /\ lock' \in [owner: Party, queue: Seq(Clients)] /\ pc' \in [Clients -> Places]
      /\ \/ pc' = pc
         \/ pc' = [pc EXCEPT ![c] = "anchor"]
         \/ pc' = [pc EXCEPT ![c] = "queued"]
  <2>1. CASE UNCHANGED <<lock, pc>>
    <3>1. Locked'
      BY <2>1 DEF Locked, Serialised, Owner
    <3>2. lock' \in [owner: Party, queue: Seq(Clients)] /\ pc' \in [Clients -> Places]
      BY <2>1 DEF TypeOK
    <3> QED
      BY <2>1, <3>1, <3>2
  <2>2. CASE Owner = Nobody /\ lock' = [lock EXCEPT !.owner = c] /\ pc' = [pc EXCEPT ![c] = "anchor"]
    <3>1. lock' = [owner |-> c, queue |-> <<>>] /\ Owner' = c /\ lock'.queue = <<>>
      BY <2>2, ApbTypes, OneOwner DEF Owner
    <3>2. lock' \in [owner: Party, queue: Seq(Clients)] /\ IsInjective(lock'.queue)
      BY <3>1 DEF Party, IsInjective
    <3>3. pc' \in [Clients -> Places]
      BY <1>2, <2>2 DEF Places
    <3>4. \A d \in Clients : ~Holds(lock.queue, d) /\ ~Holds(lock'.queue, d)
      BY <2>2, <3>1, OneOwner DEF Holds
    <3>5. \A d \in Clients : IF d = c THEN pc'[d] = "anchor" ELSE pc'[d] \in {"idle", "gone"}
      BY <1>2, <2>2, <3>4, OneOwner DEF ApbAssumption
    <3>6. Serialised'
      BY <3>1, <3>4, <3>5 DEF Serialised, Holds
    <3>7. c # Nobody
      BY DEF ApbAssumption
    <3> QED
      BY <2>2, <3>1, <3>2, <3>3, <3>6, <3>7 DEF Locked
  <2>3. CASE Owner # Nobody /\ lock' = [lock EXCEPT !.queue = Append(@, c)] /\ pc' = [pc EXCEPT ![c] = "queued"]
    <3>1. PICK q : q = lock.queue
      OBVIOUS
    <3>2. PICK x : x = Append(q, c)
      OBVIOUS
    <3>3. q \in Seq(Clients) /\ IsInjective(q) /\ ~Holds(q, c)
      BY <1>1, <3>1, ApbTypes, OneOwner
    <3>4. /\ x \in Seq(Clients) /\ IsInjective(x)
          /\ \A d : Holds(x, d) <=> Holds(q, d) \/ d = c
      BY ONLY <3>2, <3>3, c \in Clients, AddedOne
    <3>5. lock' = [owner |-> Owner, queue |-> x]
      BY <2>3, <3>1, <3>2, ApbTypes DEF Owner
    <3>6. Owner' = Owner /\ lock'.queue = x
      BY <3>5 DEF Owner
    <3>7. lock' \in [owner: Party, queue: Seq(Clients)] /\ pc' \in [Clients -> Places]
      <4>1. Owner \in Party
        BY ApbTypes
      <4>2. PICK o : o = Owner
        OBVIOUS
      <4>3. lock' = [owner |-> o, queue |-> x]
        BY <3>5, <4>2
      <4>4. lock' \in [owner: Party, queue: Seq(Clients)]
        BY ONLY <3>4, <4>1, <4>2, <4>3
      <4>5. pc' \in [Clients -> Places]
        BY <1>2, <2>3 DEF Places
      <4> QED
        BY <4>4, <4>5
    <3>8. c # Owner
      BY <1>1, OneOwner DEF Held
    <3>9. Serialised'
      <4>1. /\ \A d \in Clients : (pc[d] \in {"anchor", "setup", "turn", "access", "drop"}) <=> d = Owner
            /\ \A d \in Clients : pc[d] = "queued" <=> Holds(q, d)
        BY <3>1 DEF Serialised, Holds, Locked
      <4>2. pc'[c] = "queued" /\ \A d \in Clients : d # c => pc'[d] = pc[d]
        BY <1>2, <2>3
      <4>3. \A d \in Clients : pc'[d] = "queued" <=> Holds(x, d)
        BY <3>4, <4>1, <4>2
      <4>4. \A d \in Clients : (pc'[d] \in {"anchor", "setup", "turn", "access", "drop"}) <=> d = Owner
        BY <3>8, <4>1, <4>2
      <4> QED
        BY <3>6, <4>3, <4>4 DEF Serialised, Holds
    <3> QED
      BY <2>3, <3>4, <3>6, <3>7, <3>9 DEF Locked
  <2> QED
    BY <1>1, <2>1, <2>2, <2>3
<1>6. /\ pc'[c] \in {"idle", "anchor", "queued"}
      /\ \A d \in Clients : d # c => pc'[d] = pc[d]
  BY <1>1, <1>2, <1>5
<1>7. TypeOK'
  <2>1. budget' \in [calls: [Clients -> 0..Transfers], cancels: 0..Cancels, starts: 0..Starts]
    <3>1. PICK b : b = budget.calls
      OBVIOUS
    <3>2. b \in [Clients -> 0..Transfers] /\ b[c] > 0
      BY <1>1, <3>1, ApbTypes
    <3>3. Transfers \in Nat
      BY DEF ApbAssumption
    <3>4. [b EXCEPT ![c] = @ - 1] \in [Clients -> 0..Transfers]
      BY <3>2, <3>3
    <3>5. budget' = [budget EXCEPT !.calls = [b EXCEPT ![c] = @ - 1]]
      BY <1>1, <3>1
    <3> QED
      BY ONLY TypeOK, <3>4, <3>5 DEF TypeOK
  <2> QED
    <3>1. UNCHANGED <<clk, bus, monitor, checker, stall>>
      BY <1>1
    <3> QED
      <4>1. lock' \in [owner: Party, queue: Seq(Clients)] /\ pc' \in [Clients -> Places] /\ history' \in HistoryType
        BY <1>3, <1>5
      <4> QED
        BY <1>4, <2>1, <3>1, <4>1, Retyped
<1>8. Driven'
  <2>1. \A d \in Clients : pc'[d] \in OnBus => d # c
    BY <1>6 DEF OnBus
  <2>2. \A d \in Clients : pc'[d] \in OnBus => Carries(d)'
    BY <1>1, <1>2, <1>6, <2>1 DEF Driven, Carries
  <2>3. bus.select => bus.address # c
    BY <1>1 DEF Driven, OnBus
  <2>4. \A d \in Clients : pc'[d] = "drop" => clk' = "high" /\ ~DeferredWrites
    BY <1>1, <1>6 DEF Driven
  <2> QED
    BY <1>1, <1>6, <2>2, <2>3, <2>4 DEF Driven
<1>9. \A d \in Clients : Counts(d)'
  <2> TAKE d \in Clients
  <2>1. CASE d = c
    BY <1>1, <1>2, <1>6, <2>1 DEF Counts, ApbAssumption
  <2>2. CASE d # c
    <3>1. waits'[d] = waits[d] /\ pc'[d] = pc[d] /\ stall' = stall
      BY <1>1, <1>2, <1>6, <2>2
    <3> QED
      BY <3>1, KeptCounts
  <2> QED
    BY <2>1, <2>2
<1>10. \A d \in Clients : Settled(d)'
  <2> TAKE d \in Clients
  <2>1. CASE d = c
    <3>1. /\ req'[c] = r
          /\ answer'[c].status = "none" \/ (answer'[c].status = "invalid" /\ pc'[c] = "idle")
          /\ pc'[c] \in {"anchor", "queued"} => answer'[c].status = "none" /\ (r.strobe = "part" => HasStrobe)
      BY <1>1, <1>2 DEF Unanswered
    <3>2. r.strobe = "part" => r.write
      BY <1>1 DEF Requests
    <3>3. history'.served[c] = <<>> /\ history'.published[c] = <<>> /\ history'.watched[c] = FALSE
      BY <1>3
    <3>4. answer'[c].status = "invalid" => ServedAsAnswered(c)' /\ PublishedAsAnswered(c)'
      BY <3>3 DEF ServedAsAnswered, PublishedAsAnswered
    <3> QED
      BY <1>6, <2>1, <3>1, <3>2, <3>3, <3>4 DEF Settled, Waiting
  <2>2. CASE d # c
    <3>1. /\ req'[d] = req[d] /\ answer'[d] = answer[d] /\ pc'[d] = pc[d]
          /\ history'.served[d] = history.served[d] /\ history'.published[d] = history.published[d]
          /\ history'.watched[d] = history.watched[d]
      BY <1>1, <1>2, <1>3, <1>6, <2>2
    <3> QED
      BY <3>1, KeptSettled
  <2> QED
    BY <2>1, <2>2
<1>11. Monitored'
  <2>1. Turning' => Turning
    BY <1>6 DEF Turning
  <2>2. bus.enable => bus.address \in Clients /\ bus.address # c
    BY <1>1 DEF Driven, OnBus
  <2>3. Captured' = Captured
    BY <1>1 DEF Captured
  <2>4. monitor.at = "access" /\ bus.enable => history'.published[bus.address] = <<>>
    BY <1>3, <2>2 DEF Monitored
  <2>5. \A d \in Clients :
           /\ pc'[d] \in {"turn", "access"} => (history'.watched[d] <=> monitor.at = "access")
           /\ Len(history'.published[d]) <= 1
           /\ Len(history'.published[d]) <= Len(history'.served[d])
    <3>1. Len(<<>>) = 0
      OBVIOUS
    <3> QED
      BY <1>3, <1>6, <3>1 DEF Monitored
  <2> QED
    BY <1>1, <2>1, <2>3, <2>4, <2>5 DEF Monitored
<1>12. Checked'
  <2>1. Turning' => Turning
    BY <1>6 DEF Turning
  <2>2. bus.enable => bus.address \in Clients /\ bus.address # c
    BY <1>1 DEF Driven, OnBus
  <2>3. bus.enable => pc'[bus.address] = pc[bus.address]
    BY <1>6, <2>2
  <2>4. Changed' = Changed
    BY <1>1 DEF Changed
  <2> QED
    BY <1>1, <1>3, <2>1, <2>3, <2>4 DEF Checked
<1>13. ReportsExcused'
  BY <1>3 DEF ReportsExcused
<1> QED
  BY <1>5, <1>7, <1>8, <1>9, <1>10, <1>11, <1>12, <1>13

\* A killed caller leaves the queue, or releases the lock and leaves the bus as it drove it.
LEMMA CancelStep ==
  ASSUME ApbAssumption, IInv, NEW c \in Clients, Cancel(c)
  PROVE  IInv'
<1> USE DEF IInv
<1>1. /\ pc[c] \notin {"idle", "gone"} /\ budget.cancels > 0
      /\ budget' = [budget EXCEPT !.cancels = @ - 1]
      /\ pc' = Moves(c, "gone")
      /\ history' = [history EXCEPT !.excused = history.excused \/ bus.enable]
      /\ UNCHANGED <<clk, bus, req, waits, answer, monitor, checker, stall>>
  BY DEF Cancel
<1>2. /\ Locked' /\ lock' \in [owner: Party, queue: Seq(Clients)] /\ pc' \in [Clients -> Places]
      /\ pc'[c] = "gone"
      /\ \A d \in Clients : d # c => pc'[d] = pc[d] \/ (pc[d] = "queued" /\ pc'[d] = "anchor")
  <2>1. CASE c = Owner /\ lock' = Released
    BY <1>1, <2>1, ReleaseFacts
  <2>2. ASSUME NEW i \in DOMAIN lock.queue, lock.queue[i] = c,
               lock' = [lock EXCEPT !.queue = RemoveAt(@, i)]
        PROVE  /\ Locked' /\ lock' \in [owner: Party, queue: Seq(Clients)] /\ pc' \in [Clients -> Places]
               /\ pc'[c] = "gone"
               /\ \A d \in Clients : d # c => pc'[d] = pc[d]
    <3>1. PICK q : q = lock.queue
      OBVIOUS
    <3>2. PICK x : x = RemoveAt(q, i)
      OBVIOUS
    <3>3. q \in Seq(Clients) /\ IsInjective(q) /\ i \in DOMAIN q /\ q[i] = c
      BY <2>2, <3>1, ApbTypes, OneOwner
    <3>4. /\ x \in Seq(Clients) /\ IsInjective(x)
          /\ \A d : Holds(x, d) <=> Holds(q, d) /\ d # q[i]
      BY ONLY <3>2, <3>3, RemovedOne
    <3>5. lock' = [owner |-> Owner, queue |-> x]
      BY <2>2, <3>1, <3>2, ApbTypes DEF Owner
    <3>6. Owner' = Owner /\ lock'.queue = x
      BY <3>5 DEF Owner
    <3>7. pc[c] = "queued" /\ c # Owner
      BY <3>1, <3>3, OneOwner DEF Holds, Held
    <3>8. pc \in [Clients -> Places]
      BY ApbTypes
    <3>9. pc' = [pc EXCEPT ![c] = "gone"]
      BY <1>1, <3>7, <3>8 DEF Moves
    <3>10. lock' \in [owner: Party, queue: Seq(Clients)] /\ pc' \in [Clients -> Places]
      <4>1. Owner \in Party
        BY ApbTypes
      <4>2. PICK o : o = Owner
        OBVIOUS
      <4>3. lock' = [owner |-> o, queue |-> x]
        BY <3>5, <4>2
      <4>4. lock' \in [owner: Party, queue: Seq(Clients)]
        BY ONLY <3>4, <4>1, <4>2, <4>3
      <4>5. pc' \in [Clients -> Places]
        BY <3>8, <3>9 DEF Places
      <4> QED
        BY <4>4, <4>5
    <3>11. Serialised'
      <4>1. /\ \A d \in Clients : (pc[d] \in {"anchor", "setup", "turn", "access", "drop"}) <=> d = Owner
            /\ \A d \in Clients : pc[d] = "queued" <=> Holds(q, d)
        BY <3>1 DEF Serialised, Holds, Locked
      <4>2. pc'[c] = "gone" /\ \A d \in Clients : d # c => pc'[d] = pc[d]
        BY <3>8, <3>9
      <4>3. \A d \in Clients : pc'[d] = "queued" <=> Holds(x, d)
        BY <3>3, <3>4, <4>1, <4>2
      <4>4. \A d \in Clients : (pc'[d] \in {"anchor", "setup", "turn", "access", "drop"}) <=> d = Owner
        BY <3>7, <4>1, <4>2
      <4> QED
        BY <3>6, <4>3, <4>4 DEF Serialised, Holds
    <3>12. Owner # Nobody
      BY <3>1, <3>3, OneOwner
    <3> QED
      BY <3>4, <3>6, <3>8, <3>9, <3>10, <3>11, <3>12 DEF Locked
  <2> QED
    BY <2>1, <2>2 DEF Cancel
<1>3. /\ history' \in HistoryType
      /\ history'.served = history.served /\ history'.published = history.published
      /\ history'.watched = history.watched /\ history'.reports = history.reports
      /\ history'.excused = (history.excused \/ bus.enable)
  BY <1>1, ApbTypes DEF TypeOK, HistoryType
<1>4. TypeOK'
  <2>1. budget' \in [calls: [Clients -> 0..Transfers], cancels: 0..Cancels, starts: 0..Starts]
    BY <1>1, SpentTypes
  <2>2. UNCHANGED <<clk, bus, req, waits, answer, monitor, checker, stall>>
    BY <1>1
  <2> QED
    BY ONLY TypeOK, <1>2, <1>3, <2>1, <2>2 DEF TypeOK, HistoryType
<1>5. \A d \in Clients : /\ pc'[d] \in OnBus => d # c /\ pc'[d] = pc[d]
                         /\ pc[d] \in OnBus => pc'[d] \in {pc[d], "gone"}
                         /\ pc[d] = "gone" => pc'[d] = "gone"
  BY <1>2 DEF OnBus
<1>6. Driven'
  <2>1. \A d \in Clients : pc'[d] \in OnBus => Carries(d)'
    BY <1>1, <1>5 DEF Driven, Carries
  <2>2. bus.select => bus.address \in Clients /\ pc'[bus.address] \in OnBus \cup {"gone"}
    BY <1>5 DEF Driven
  <2>3. \A d \in Clients : pc'[d] = "drop" => clk' = "high" /\ ~DeferredWrites
    BY <1>1, <1>5 DEF Driven, OnBus
  <2> QED
    BY <1>1, <2>1, <2>2, <2>3 DEF Driven
<1>7. \A d \in Clients : Counts(d)' /\ Settled(d)'
  <2> TAKE d \in Clients
  <2>1. pc'[d] = pc[d] \/ (pc[d] = "queued" /\ pc'[d] = "anchor") \/ pc'[d] = "gone"
    BY <1>2
  <2>2. Counts(d)'
    BY <1>1, <2>1, KeptCounts
  <2>3. Settled(d)'
    BY <1>1, <1>3, <2>1, KeptSettled
  <2> QED
    BY <2>2, <2>3
<1>8. Turning' => Turning
  BY <1>5 DEF Turning, OnBus
<1>9. Monitored'
  <2>1. Captured' = Captured
    BY <1>1 DEF Captured
  <2>2. \A d \in Clients : pc'[d] \in {"turn", "access"} => pc'[d] = pc[d]
    BY <1>5 DEF OnBus
  <2> QED
    BY <1>1, <1>3, <1>8, <2>1, <2>2 DEF Monitored
<1>10. Checked'
  BY <1>1, <1>3, <1>8 DEF Checked, Changed
<1>11. ReportsExcused'
  BY <1>3 DEF ReportsExcused
<1> QED
  BY <1>2, <1>4, <1>6, <1>7, <1>9, <1>10, <1>11

-----------------------------------------------------------------------------
(* The monitor and the checker                                             *)

\* The types of what a start or a stop changes are those of the state.
LEMMA Rewatched ==
  ASSUME TypeOK, UNCHANGED <<clk, bus, lock, pc, req, waits, answer, stall, history>>,
         monitor' \in [at: {"off", "seek", "access"}, waits: Nat, write: BOOLEAN, address: Party,
                       data: Party, strobe: Strobes],
         checker' \in [on: BOOLEAN, fresh: BOOLEAN, setup: BOOLEAN, waiting: BOOLEAN,
                       write: BOOLEAN, address: Party, data: Party, strobe: Strobes],
         budget' \in [calls: [Clients -> 0..Transfers], cancels: 0..Cancels, starts: 0..Starts]
  PROVE  TypeOK'
<1>1. /\ clk' \in {"low", "high"} /\ stall' \in 0..Stalls
      /\ bus' \in [select: BOOLEAN, enable: BOOLEAN, write: BOOLEAN, address: Party, data: Party,
                   strobe: Strobes]
  BY DEF TypeOK
<1>2. /\ lock' \in [owner: Party, queue: Seq(Clients)] /\ pc' \in [Clients -> Places]
      /\ req' \in [Clients -> Requests] /\ waits' \in [Clients -> Nat]
      /\ answer' \in [Clients -> Responses]
  BY DEF TypeOK
<1>3. history' \in [served: [Clients -> Seq(Events)], published: [Clients -> Seq(Observations)],
                    watched: [Clients -> BOOLEAN], excused: BOOLEAN, reports: BOOLEAN]
  BY DEF TypeOK
<1> QED
  BY <1>1, <1>2, <1>3 DEF TypeOK

\* A monitor that is started has captured nothing.
LEMMA StartMonitorStep ==
  ASSUME ApbAssumption, IInv, StartMonitor
  PROVE  IInv'
<1> USE DEF IInv
<1>1. /\ monitor.at = "off" /\ budget.starts > 0 /\ budget' = [budget EXCEPT !.starts = @ - 1]
      /\ monitor' = Watching("seek")
      /\ UNCHANGED <<clk, bus, lock, pc, req, waits, answer, checker, stall, history>>
  BY DEF StartMonitor
<1>2. TypeOK'
  <2>1. monitor' \in [at: {"off", "seek", "access"}, waits: Nat, write: BOOLEAN, address: Party,
                      data: Party, strobe: Strobes]
    BY <1>1 DEF Watching, Party, Strobes
  <2>2. budget' \in [calls: [Clients -> 0..Transfers], cancels: 0..Cancels, starts: 0..Starts]
    BY <1>1, SpentTypes
  <2>3. checker' \in [on: BOOLEAN, fresh: BOOLEAN, setup: BOOLEAN, waiting: BOOLEAN,
                      write: BOOLEAN, address: Party, data: Party, strobe: Strobes]
    BY <1>1 DEF TypeOK
  <2> QED
    BY <1>1, <2>1, <2>2, <2>3, Rewatched
<1>3. monitor'.at = "seek"
  BY <1>1 DEF Watching
<1>4. Locked' /\ Driven' /\ Checked' /\ ReportsExcused'
  BY <1>1 DEF Locked, Serialised, Owner, Driven, Carries, Checked, Changed, Turning, ReportsExcused
<1>5. Monitored'
  BY <1>1, <1>3 DEF Monitored
<1>6. \A d \in Clients : Counts(d)' /\ Settled(d)'
  BY <1>1 DEF Counts, Settled, ServedAsAnswered, PublishedAsAnswered
<1> QED
  BY <1>2, <1>4, <1>5, <1>6

\* A checker that is started has sampled nothing.
LEMMA StartStopCheckerStep ==
  ASSUME ApbAssumption, IInv, StartStopChecker
  PROVE  IInv'
<1> USE DEF IInv
<1>1. /\ budget.starts > 0 /\ budget' = [budget EXCEPT !.starts = @ - 1]
      /\ checker' = [checker EXCEPT !.on = ~@, !.fresh = ~checker.on]
      /\ UNCHANGED <<clk, bus, lock, pc, req, waits, answer, monitor, stall, history>>
  BY DEF StartStopChecker
<1>2. TypeOK'
  <2>1. checker' \in [on: BOOLEAN, fresh: BOOLEAN, setup: BOOLEAN, waiting: BOOLEAN,
                      write: BOOLEAN, address: Party, data: Party, strobe: Strobes]
    BY <1>1, ApbTypes DEF TypeOK
  <2>2. budget' \in [calls: [Clients -> 0..Transfers], cancels: 0..Cancels, starts: 0..Starts]
    BY <1>1, SpentTypes
  <2>3. monitor' \in [at: {"off", "seek", "access"}, waits: Nat, write: BOOLEAN, address: Party,
                      data: Party, strobe: Strobes]
    BY <1>1 DEF TypeOK
  <2> QED
    BY <1>1, <2>1, <2>2, <2>3, Rewatched
<1>3. checker'.on => checker'.fresh
  BY <1>1 DEF TypeOK
<1>4. Locked' /\ Driven' /\ Monitored' /\ ReportsExcused'
  BY <1>1 DEF Locked, Serialised, Owner, Driven, Carries, Monitored, Captured, Turning, ReportsExcused
<1>5. Checked'
  BY <1>1, <1>3 DEF Checked
<1>6. \A d \in Clients : Counts(d)' /\ Settled(d)'
  BY <1>1 DEF Counts, Settled, ServedAsAnswered, PublishedAsAnswered
<1> QED
  BY <1>2, <1>4, <1>5, <1>6

-----------------------------------------------------------------------------
(* The master                                                              *)

BusType == [select: BOOLEAN, enable: BOOLEAN, write: BOOLEAN, address: Party, data: Party,
            strobe: Strobes]

\* The owner of the lock goes on and keeps it.
LEMMA HeldOn ==
  ASSUME ApbAssumption, TypeOK, Locked, NEW c \in Clients, c = Owner, NEW to \in Held,
         pc' = [pc EXCEPT ![c] = to], lock' = lock
  PROVE  /\ Locked' /\ lock' \in [owner: Party, queue: Seq(Clients)] /\ pc' \in [Clients -> Places]
         /\ pc'[c] = to
         /\ \A d \in Clients : d # c => pc'[d] = pc[d] /\ pc[d] \in {"idle", "queued", "gone"}
<1>1. pc \in [Clients -> Places]
  BY ApbTypes
<1>2. pc' \in [Clients -> Places] /\ pc'[c] = to
  BY <1>1 DEF Held, Places
<1>3. \A d \in Clients : d # c => pc'[d] = pc[d] /\ pc[d] \in {"idle", "queued", "gone"}
  BY <1>1, OneOwner
<1>4. /\ \A d \in Clients : (pc[d] \in {"anchor", "setup", "turn", "access", "drop"}) <=> d = Owner
      /\ \A d \in Clients : pc[d] = "queued" <=> Holds(lock.queue, d)
  BY DEF Serialised, Holds, Locked
<1>5. /\ \A d \in Clients : (pc'[d] \in {"anchor", "setup", "turn", "access", "drop"}) <=> d = Owner
      /\ \A d \in Clients : pc'[d] = "queued" <=> Holds(lock.queue, d)
  BY <1>2, <1>3, <1>4 DEF Held
<1>6. Owner' = Owner
  BY DEF Owner
<1>7. Serialised'
  BY <1>5, <1>6 DEF Serialised, Holds
<1>8. Locked'
  BY <1>6, <1>7 DEF Locked
<1> QED
  BY <1>2, <1>3, <1>8 DEF TypeOK

\* The request of the owner is on the bus from its first drive.
LEMMA OwnerDrives ==
  ASSUME ApbAssumption, TypeOK, Locked, Driven, NEW c \in Clients, pc[c] \in OnBus
  PROVE  c = Owner /\ bus.address = c /\ bus.select /\ Carries(c)
BY OneOwner DEF Driven, Carries, OnBus

\* What is on the bus at a rising edge is the owner's request, or what a killed owner left there.
LEMMA OnTheBus ==
  ASSUME ApbAssumption, TypeOK, Locked, Driven, bus.select, pc[bus.address] # "gone"
  PROVE  /\ bus.address \in Clients /\ bus.address = Owner /\ pc[bus.address] \in OnBus
         /\ Carries(bus.address)
BY OneOwner DEF Driven, OnBus

LEMMA MasterSetsUp ==
  ASSUME ApbAssumption, TypeOK, Locked, Driven, NEW c \in Clients, c = Owner, pc[c] = "anchor",
         pc' = [pc EXCEPT ![c] = "setup"], lock' = lock, req' = req, bus' = Setup(c)
  PROVE  Driven' /\ bus' \in BusType /\ ~Turning' /\ ~bus'.enable
<1>1. /\ pc'[c] = "setup"
      /\ \A d \in Clients : d # c => pc'[d] = pc[d] /\ pc[d] \in {"idle", "queued", "gone"}
  BY HeldOn DEF Held
<1>2. req[c] \in Requests /\ bus.data \in Party /\ HasStrobe \in BOOLEAN
  BY ApbTypes DEF ApbAssumption
<1>3. bus' \in BusType
  BY <1>2 DEF Setup, BusType, Requests, Party, Strobes
<1>4. /\ bus'.select /\ ~bus'.enable /\ bus'.address = c /\ bus'.write = req[c].write
      /\ bus'.write => bus'.data = c
      /\ bus'.strobe = IF ~HasStrobe THEN "all" ELSE IF bus'.write THEN req[c].strobe ELSE "none"
  BY DEF Setup
<1>5. Carries(c)'
  BY <1>1, <1>4 DEF Carries
<1>6. \A d \in Clients : pc'[d] \in OnBus => d = c
  BY <1>1 DEF OnBus
<1>7. Driven'
  BY <1>1, <1>4, <1>5, <1>6 DEF Driven, OnBus
<1> QED
  BY <1>1, <1>3, <1>4, <1>7 DEF Turning

LEMMA MasterEnables ==
  ASSUME ApbAssumption, TypeOK, Locked, Driven, NEW c \in Clients, c = Owner,
         pc[c] \in {"setup", "turn"},
         pc' = [pc EXCEPT ![c] = "access"], lock' = lock, req' = req,
         bus' = [bus EXCEPT !.enable = TRUE]
  PROVE  /\ Driven' /\ bus' \in BusType /\ ~Turning' /\ bus'.enable /\ bus'.select
         /\ bus'.write = bus.write /\ bus'.address = bus.address /\ bus'.data = bus.data
         /\ bus'.strobe = bus.strobe
         /\ bus.address = c /\ bus.select /\ ~bus.enable /\ Carries(c)
<1>1. /\ pc'[c] = "access"
      /\ \A d \in Clients : d # c => pc'[d] = pc[d] /\ pc[d] \in {"idle", "queued", "gone"}
  BY HeldOn DEF Held
<1>2. bus.address = c /\ bus.select /\ Carries(c)
  BY OwnerDrives DEF OnBus
<1>3. bus \in BusType
  BY DEF TypeOK, BusType
<1>4. /\ bus' \in BusType /\ bus'.enable
      /\ bus'.write = bus.write /\ bus'.address = bus.address /\ bus'.data = bus.data
      /\ bus'.strobe = bus.strobe /\ bus'.select = bus.select
  BY <1>3 DEF BusType
<1>5. Carries(c)'
  BY <1>1, <1>2, <1>4 DEF Carries
<1>6. \A d \in Clients : pc'[d] \in OnBus => d = c
  BY <1>1 DEF OnBus
<1>7. Driven'
  BY <1>1, <1>2, <1>4, <1>5, <1>6 DEF Driven, OnBus
<1>8. ~bus.enable
  BY <1>2 DEF Carries
<1> QED
  BY <1>1, <1>2, <1>4, <1>7, <1>8 DEF Turning

LEMMA MasterTurns ==
  ASSUME ApbAssumption, TypeOK, Locked, Driven, NEW c \in Clients, c = Owner,
         NEW to, \/ pc[c] = "setup" /\ to = "turn"
                 \/ pc[c] = "access" /\ to = "drop" /\ clk' = "high" /\ ~DeferredWrites,
         pc' = [pc EXCEPT ![c] = to], lock' = lock, req' = req, bus' = bus
  PROVE  Driven' /\ bus.address = c /\ bus.select /\ Carries(c)
<1>1. /\ pc'[c] = to
      /\ \A d \in Clients : d # c => pc'[d] = pc[d] /\ pc[d] \in {"idle", "queued", "gone"}
  BY HeldOn DEF Held
<1>2. bus.address = c /\ bus.select /\ Carries(c)
  BY OwnerDrives DEF OnBus
<1>3. Carries(c)'
  BY <1>1, <1>2 DEF Carries
<1>4. \A d \in Clients : pc'[d] \in OnBus => d = c
  BY <1>1 DEF OnBus
<1> QED
  BY <1>1, <1>2, <1>3, <1>4 DEF Driven, OnBus

LEMMA MasterReleases ==
  ASSUME ApbAssumption, TypeOK, Locked, Driven, NEW c \in Clients, c = Owner,
         pc[c] \in {"access", "drop"},
         pc' = Moves(c, "idle"), lock' = Released, req' = req, bus' = Idle
  PROVE  /\ Driven' /\ bus' \in BusType /\ ~Turning' /\ ~bus'.enable
         /\ bus.address = c /\ bus.select /\ bus.enable /\ Carries(c)
<1>1. \A d \in Clients : pc'[d] \in {"idle", "queued", "gone", "anchor"}
  BY ReleaseFacts
<1>2. bus.address = c /\ bus.select /\ Carries(c)
  BY OwnerDrives DEF OnBus
<1>3. bus \in BusType
  BY DEF TypeOK, BusType
<1>4. bus' \in BusType /\ ~bus'.enable /\ ~bus'.select
  BY <1>3 DEF BusType, Idle
<1>5. Driven'
  BY <1>1, <1>4 DEF Driven, OnBus
<1>6. bus.enable
  BY <1>2 DEF Carries
<1> QED
  BY <1>1, <1>2, <1>4, <1>5, <1>6 DEF Turning

-----------------------------------------------------------------------------
(* The falling edge                                                        *)

FallFrame == UNCHANGED <<req, waits, answer, monitor, checker, stall, budget, history>>

LEMMA FallTyped ==
  ASSUME TypeOK, clk' \in {"low", "high"}, FallFrame, bus' \in BusType,
         lock' \in [owner: Party, queue: Seq(Clients)], pc' \in [Clients -> Places]
  PROVE  TypeOK'
<1>1. UNCHANGED <<req, waits, answer, monitor, checker, stall, budget, history>>
  BY DEF FallFrame
<1> QED
  BY <1>1 DEF TypeOK, BusType

\* The request of a client is settled by its response, whatever is driven.
LEMMA FallSettled ==
  ASSUME NEW c \in Clients, Settled(c), FallFrame,
         \/ pc'[c] = pc[c]
         \/ pc[c] = "queued" /\ pc'[c] = "anchor"
         \/ pc[c] = "anchor" /\ pc'[c] = "setup"
         \/ pc[c] = "turn" /\ pc'[c] = "access"
         \/ pc[c] = "drop" /\ pc'[c] = "idle"
  PROVE  Settled(c)'
<1>1. UNCHANGED <<req, answer, history>>
  BY DEF FallFrame
<1>2. ServedAsAnswered(c)' = ServedAsAnswered(c) /\ PublishedAsAnswered(c)' = PublishedAsAnswered(c)
  BY <1>1 DEF ServedAsAnswered, PublishedAsAnswered
<1> QED
  BY <1>1, <1>2 DEF Settled, Waiting

LEMMA FallStep ==
  ASSUME ApbAssumption, IInv, Fall
  PROVE  IInv'
<1> USE DEF IInv
<1>1. clk = "high" /\ clk' = "low" /\ MasterFalls /\ FallFrame
  BY DEF Fall, FallFrame
<1>2. UNCHANGED <<req, waits, answer, monitor, checker, stall, budget, history>>
  BY <1>1 DEF FallFrame
<1>3. ReportsExcused'
  BY <1>2 DEF ReportsExcused
<1>4. \A a \in Clients : bus.enable /\ a = bus.address /\ pc[a] # "gone" =>
          a = Owner /\ pc[a] \in {"access", "drop"} /\ Carries(a)
  BY OnTheBus DEF Driven, Carries
<1>5. CASE UNCHANGED <<bus, lock, pc>> /\ \A d \in Clients : pc[d] # "drop"
  <2>1. TypeOK'
    BY <1>1, <1>2, <1>5 DEF TypeOK
  <2>2. Locked'
    BY <1>5 DEF Locked, Serialised, Owner
  <2>3. Driven'
    BY <1>2, <1>5 DEF Driven, Carries
  <2>4. Monitored' /\ Checked'
    BY <1>2, <1>5 DEF Monitored, Captured, Turning, Checked, Changed
  <2>5. \A d \in Clients : Counts(d)' /\ Settled(d)'
    BY <1>1, <1>2, <1>5, FallSettled DEF Counts
  <2> QED
    BY <1>3, <2>1, <2>2, <2>3, <2>4, <2>5
<1>6. ASSUME NEW c \in Clients, c = Owner, pc[c] = "anchor", bus' = Setup(c),
             pc' = [pc EXCEPT ![c] = "setup"], lock' = lock
      PROVE  IInv'
  <2>1. /\ Locked' /\ lock' \in [owner: Party, queue: Seq(Clients)] /\ pc' \in [Clients -> Places]
        /\ pc'[c] = "setup"
        /\ \A d \in Clients : d # c => pc'[d] = pc[d] /\ pc[d] \in {"idle", "queued", "gone"}
    BY <1>6, HeldOn DEF Held
  <2>2. Driven' /\ bus' \in BusType /\ ~Turning' /\ ~bus'.enable
    BY <1>2, <1>6, MasterSetsUp
  <2>3. TypeOK'
    BY <1>1, <2>1, <2>2, FallTyped
  <2>4. \A d \in Clients : Counts(d)' /\ Settled(d)'
    BY <1>1, <1>2, <1>6, <2>1, FallSettled DEF Counts
  <2>5. Monitored'
    BY <1>2, <2>1, <2>2 DEF Monitored
  <2>6. Checked'
    <3>1. checker.waiting => ~(bus.enable /\ pc[bus.address] = "access")
      BY <1>4, <1>6, ApbTypes DEF Driven
    <3> QED
      BY <1>2, <2>2, <3>1 DEF Checked
  <2> QED
    BY <1>3, <2>1, <2>2, <2>3, <2>4, <2>5, <2>6
<1>7. ASSUME NEW c \in Clients, c = Owner, pc[c] = "turn", bus' = [bus EXCEPT !.enable = TRUE],
             pc' = [pc EXCEPT ![c] = "access"], lock' = lock
      PROVE  IInv'
  <2>1. /\ Locked' /\ lock' \in [owner: Party, queue: Seq(Clients)] /\ pc' \in [Clients -> Places]
        /\ pc'[c] = "access"
        /\ \A d \in Clients : d # c => pc'[d] = pc[d] /\ pc[d] \in {"idle", "queued", "gone"}
    BY <1>7, HeldOn DEF Held
  <2>2. /\ Driven' /\ bus' \in BusType /\ ~Turning' /\ bus'.enable /\ bus'.select
        /\ bus'.write = bus.write /\ bus'.address = bus.address /\ bus'.data = bus.data
        /\ bus'.strobe = bus.strobe
        /\ bus.address = c /\ bus.select /\ ~bus.enable
    BY <1>2, <1>7, MasterEnables
  <2>3. TypeOK'
    BY <1>1, <2>1, <2>2, FallTyped
  <2>4. \A d \in Clients : Counts(d)' /\ Settled(d)'
    <3> TAKE d \in Clients
    <3>1. Settled(d)'
      BY <1>1, <1>7, <2>1, FallSettled
    <3>2. Counts(d)'
      <4>1. CASE d = c
        <5>1. waits[c] = 0 /\ stall = 0
          BY <1>7 DEF Counts
        <5>2. MaxWaitCycles \in Nat
          BY DEF ApbAssumption
        <5> QED
          BY <1>2, <2>1, <4>1, <5>1, <5>2 DEF Counts
      <4>2. CASE d # c
        BY <1>2, <2>1, <4>2, KeptCounts
      <4> QED
        BY <4>1, <4>2
    <3> QED
      BY <3>1, <3>2
  <2>5. Turning
    BY <1>7 DEF Turning
  <2>6. Monitored'
    <3>1. Captured' = Captured
      BY <1>2, <2>2 DEF Captured
    <3>2. history.published[c] = <<>>
      BY <1>7 DEF Settled, Waiting
    <3> QED
      BY <1>2, <1>7, <2>1, <2>2, <2>5, <3>1, <3>2 DEF Monitored
  <2>7. Checked'
    <3>1. Changed' = Changed
      BY <1>2, <2>2 DEF Changed
    <3> QED
      BY <1>2, <2>1, <2>2, <2>5, <3>1 DEF Checked
  <2> QED
    BY <1>3, <2>1, <2>2, <2>3, <2>4, <2>6, <2>7
<1>8. ASSUME NEW c \in Clients, c = Owner, pc[c] = "drop", bus' = Idle,
             pc' = Moves(c, "idle"), lock' = Released
      PROVE  IInv'
  <2>1. /\ Locked' /\ lock' \in [owner: Party, queue: Seq(Clients)] /\ pc' \in [Clients -> Places]
        /\ pc'[c] = "idle"
        /\ \A d \in Clients : /\ pc'[d] \in {"idle", "queued", "gone", "anchor"}
                              /\ d # c => pc'[d] = pc[d] \/ (pc[d] = "queued" /\ pc'[d] = "anchor")
    BY <1>8, ReleaseFacts
  <2>2. /\ Driven' /\ bus' \in BusType /\ ~Turning' /\ ~bus'.enable
        /\ bus.address = c /\ bus.select /\ bus.enable
    BY <1>2, <1>8, MasterReleases
  <2>3. TypeOK'
    BY <1>1, <2>1, <2>2, FallTyped
  <2>4. \A d \in Clients : Counts(d)' /\ Settled(d)'
    <3> TAKE d \in Clients
    <3>1. Settled(d)'
      BY <1>1, <1>8, <2>1, FallSettled
    <3>2. Counts(d)'
      <4>1. CASE d = c
        BY <1>2, <2>1, <4>1 DEF Counts
      <4>2. CASE d # c
        BY <1>2, <2>1, <4>2, KeptCounts
      <4> QED
        BY <4>1, <4>2
    <3> QED
      BY <3>1, <3>2
  <2>5. Monitored'
    BY <1>2, <2>1, <2>2 DEF Monitored
  <2>6. Checked'
    BY <1>2, <1>8, <2>2 DEF Checked
  <2> QED
    BY <1>3, <2>1, <2>2, <2>3, <2>4, <2>5, <2>6
<1>9. \A d \in Clients : d # Owner => pc[d] # "drop"
  BY OneOwner
<1>10. Owner # Nobody => Owner \in Clients
  BY OneOwner
<1>11. CASE DeferredWrites
  BY <1>1, <1>5, <1>11 DEF MasterFalls, Driven
<1>12. CASE Owner = Nobody
  BY <1>1, <1>5, <1>9, <1>12 DEF MasterFalls, ApbAssumption
<1>13. CASE ~DeferredWrites /\ Owner # Nobody
  <2>1. PICK c \in Clients : c = Owner
    BY <1>10, <1>13
  <2>2. CASE pc[c] = "anchor"
    BY <1>1, <1>6, <1>13, <2>1, <2>2 DEF MasterFalls
  <2>3. CASE pc[c] = "turn"
    BY <1>1, <1>7, <1>13, <2>1, <2>3 DEF MasterFalls
  <2>4. CASE pc[c] = "drop"
    BY <1>1, <1>8, <1>13, <2>1, <2>4 DEF MasterFalls
  <2>5. CASE pc[c] \notin {"anchor", "turn", "drop"}
    <3>1. UNCHANGED <<bus, lock, pc>>
      BY <1>1, <1>13, <2>1, <2>5 DEF MasterFalls
    <3>2. \A d \in Clients : pc[d] # "drop"
      BY <1>9, <2>1, <2>5
    <3> QED
      BY <1>5, <3>1, <3>2
  <2> QED
    BY <2>2, <2>3, <2>4, <2>5
<1> QED
  BY <1>11, <1>12, <1>13

-----------------------------------------------------------------------------
(* The samples of a rising edge                                            *)

\* What a rising edge does apart from the master.
Sampled(ready, failed, value) ==
    /\ clk = "low" /\ clk' = "high"
    /\ ready => bus.select /\ bus.enable
    /\ bus.select /\ bus.enable /\ stall = Stalls => ready
    /\ MonitorSamples(ready)
    /\ CheckerSamples(ready)
    /\ stall' = IF bus.select /\ bus.enable /\ ~ready THEN stall + 1 ELSE 0
    /\ req' = req /\ budget' = budget
    /\ history' \in HistoryType /\ Recorded(ready, failed, value)

\* The signals a transfer keeps are those the edge sampled.
BusKept ==
    /\ bus'.address = bus.address /\ bus'.write = bus.write /\ bus'.data = bus.data
    /\ bus'.strobe = bus.strobe

\* At a rising edge the owner is before its last drive.
LEMMA AtRise ==
  ASSUME IInv, clk = "low"
  PROVE  /\ \A c \in Clients : pc[c] # "drop"
         /\ \A c \in Clients : pc[c] \in {"setup", "turn", "access"} =>
                c = Owner /\ c = bus.address /\ bus.select /\ Carries(c)
         /\ bus.enable => bus.select
         /\ bus.select => bus.address \in Clients
         /\ bus.enable /\ pc[bus.address] # "gone" => pc[bus.address] = "access" /\ bus.address = Owner
         /\ bus.select /\ ~bus.enable /\ pc[bus.address] # "gone" =>
                pc[bus.address] \in {"setup", "turn"} /\ bus.address = Owner
<1> USE DEF IInv
<1>1. \A c \in Clients : pc[c] # "drop"
  BY DEF Driven
<1>2. \A c \in Clients : pc[c] \in {"setup", "turn", "access"} =>
                c = Owner /\ c = bus.address /\ bus.select /\ Carries(c)
  BY DEF Driven, Carries, Locked, Serialised, OnBus
<1>3. (bus.enable => bus.select) /\ (bus.select => bus.address \in Clients)
  BY DEF Driven
<1>4. bus.select /\ pc[bus.address] # "gone" => bus.address = Owner /\ pc[bus.address] \in OnBus /\ Carries(bus.address)
  <2> SUFFICES ASSUME bus.select, pc[bus.address] # "gone"
               PROVE  bus.address = Owner /\ pc[bus.address] \in OnBus /\ Carries(bus.address)
    OBVIOUS
  <2>1. bus.address \in Clients /\ pc[bus.address] \in OnBus
    BY DEF Driven
  <2>2. PICK a \in Clients : a = bus.address
    BY <2>1
  <2>3. Carries(a)
    BY <2>1, <2>2 DEF Driven
  <2>4. a = Owner
    BY <2>1, <2>2 DEF Locked, Serialised, OnBus
  <2> QED
    BY <2>1, <2>2, <2>3, <2>4
<1>5. bus.select /\ pc[bus.address] # "gone" => (bus.enable <=> pc[bus.address] \in {"access", "drop"})
  BY <1>4 DEF Carries
<1> QED
  BY <1>1, <1>2, <1>3, <1>4, <1>5 DEF OnBus

\* One sample of the monitor.
LEMMA MonitorSampled ==
  ASSUME TypeOK, NEW ready \in BOOLEAN, MonitorSamples(ready), bus.enable => bus.select
  PROVE  /\ monitor' \in [at: {"off", "seek", "access"}, waits: Nat, write: BOOLEAN, address: Party,
                          data: Party, strobe: Strobes]
         /\ bus.select /\ ~bus.enable =>
                /\ monitor'.at = "access" <=> monitor.at # "off"
                /\ monitor'.at = "access" =>
                      /\ monitor'.waits = 0
                      /\ monitor'.write = bus.write /\ monitor'.address = bus.address
                      /\ monitor'.data = IF bus.write THEN bus.data ELSE Nobody
                      /\ monitor'.strobe = IF bus.write THEN bus.strobe ELSE "all"
         /\ ~(bus.select /\ ~bus.enable) /\ monitor'.at = "access" =>
                /\ monitor.at = "access" /\ bus.select /\ ~ready
                /\ monitor'.waits = monitor.waits + 1
                /\ monitor'.write = monitor.write /\ monitor'.address = monitor.address
                /\ monitor'.data = monitor.data /\ monitor'.strobe = monitor.strobe
         /\ bus.select /\ bus.enable /\ ~ready => monitor'.at = monitor.at
<1> DEFINE T == [at: {"off", "seek", "access"}, waits: Nat, write: BOOLEAN, address: Party,
                 data: Party, strobe: Strobes]
<1>1. monitor \in T
  BY DEF TypeOK
<1>2. CASE monitor.at = "off"
  BY <1>1, <1>2 DEF MonitorSamples
<1>3. CASE monitor.at # "off" /\ bus.select /\ ~bus.enable
  <2>1. monitor' = CaptureSetup
    BY <1>3 DEF MonitorSamples
  <2>2. /\ bus.write \in BOOLEAN /\ bus.address \in Party /\ bus.data \in Party /\ bus.strobe \in Strobes
        /\ Nobody \in Party /\ "all" \in Strobes
    BY ApbTypes DEF Party, Strobes
  <2>3. monitor' \in T
    BY <2>1, <2>2 DEF CaptureSetup
  <2> QED
    BY <1>3, <2>1, <2>3 DEF CaptureSetup
<1>4. CASE monitor.at = "seek" /\ ~(bus.select /\ ~bus.enable)
  BY <1>1, <1>4 DEF MonitorSamples
<1>5. CASE monitor.at = "access" /\ ~bus.select
  <2>1. monitor' = Watching("seek")
    BY <1>5 DEF MonitorSamples
  <2>2. monitor' \in T /\ monitor'.at = "seek"
    BY <2>1 DEF Watching, Party, Strobes
  <2> QED
    BY <1>5, <2>2
<1>6. CASE monitor.at = "access" /\ bus.select /\ bus.enable /\ ~ready
  <2>1. monitor' = [monitor EXCEPT !.waits = @ + 1]
    BY <1>6 DEF MonitorSamples
  <2> QED
    BY <1>1, <1>6, <2>1
<1>7. CASE monitor.at = "access" /\ bus.select /\ bus.enable /\ ready
  <2>1. PICK next \in {"seek", "off"} : monitor' = Watching(next)
    BY <1>7 DEF MonitorSamples
  <2>2. monitor' \in T /\ monitor'.at = next
    BY <2>1 DEF Watching, Party, Strobes
  <2> QED
    BY <1>7, <2>1, <2>2
<1>8. monitor.at \in {"off", "seek", "access"} /\ {bus.select, bus.enable} \subseteq BOOLEAN
  BY ApbTypes
<1> QED
  BY <1>2, <1>3, <1>4, <1>5, <1>6, <1>7, <1>8

\* One sample of the checker.
LEMMA CheckerSampled ==
  ASSUME TypeOK, NEW ready \in BOOLEAN, CheckerSamples(ready)
  PROVE  /\ checker' \in [on: BOOLEAN, fresh: BOOLEAN, setup: BOOLEAN, waiting: BOOLEAN,
                          write: BOOLEAN, address: Party, data: Party, strobe: Strobes]
         /\ checker'.on = checker.on
         /\ checker.on /\ bus.select /\ ~bus.enable =>
                /\ checker'.setup /\ ~checker'.waiting
                /\ checker'.write = bus.write /\ checker'.address = bus.address
                /\ checker'.data = bus.data /\ checker'.strobe = bus.strobe
         /\ checker.on /\ bus.select /\ bus.enable /\ ~ready =>
                /\ checker'.waiting
                /\ checker'.write = checker.write /\ checker'.address = checker.address
                /\ checker'.data = checker.data /\ checker'.strobe = checker.strobe
         /\ checker.on /\ (~bus.select \/ (bus.enable /\ ready)) => ~checker'.waiting
<1> DEFINE T == [on: BOOLEAN, fresh: BOOLEAN, setup: BOOLEAN, waiting: BOOLEAN,
                 write: BOOLEAN, address: Party, data: Party, strobe: Strobes]
<1>1. checker \in T
  BY DEF TypeOK
<1>2. CASE ~checker.on
  BY <1>1, <1>2 DEF CheckerSamples
<1>3. CASE checker.on /\ bus.select /\ ~bus.enable
  <2>1. checker' = [on |-> TRUE, fresh |-> FALSE, setup |-> TRUE, waiting |-> FALSE,
                    write |-> bus.write, address |-> bus.address, data |-> bus.data,
                    strobe |-> bus.strobe]
    BY <1>3 DEF CheckerSamples
  <2>2. bus.write \in BOOLEAN /\ bus.address \in Party /\ bus.data \in Party /\ bus.strobe \in Strobes
    BY ApbTypes
  <2>3. checker' \in T
    BY <2>1, <2>2
  <2> QED
    BY <1>1, <1>3, <2>1, <2>3
<1>4. CASE checker.on /\ bus.select /\ bus.enable /\ ~ready
  <2>1. checker' = [checker EXCEPT !.fresh = FALSE, !.setup = FALSE, !.waiting = TRUE]
    BY <1>4 DEF CheckerSamples
  <2> QED
    BY <1>1, <1>4, <2>1
<1>5. CASE checker.on /\ (~bus.select \/ (bus.enable /\ ready))
  <2>1. checker' = Checking(TRUE, FALSE, FALSE)
    BY <1>5 DEF CheckerSamples
  <2>2. checker' \in T /\ checker'.on /\ ~checker'.waiting
    BY <2>1 DEF Checking, Party, Strobes
  <2> QED
    BY <1>1, <1>5, <2>2
<1>6. {bus.select, bus.enable, checker.on} \subseteq BOOLEAN
  BY ApbTypes
<1> QED
  BY <1>2, <1>3, <1>4, <1>5, <1>6

\* The checker reports nothing without an excuse.
LEMMA ReportsSampled ==
  ASSUME IInv, NEW ready \in BOOLEAN, NEW failed, NEW value, Sampled(ready, failed, value)
  PROVE  ReportsExcused'
<1> USE DEF IInv
<1>1. history'.reports = Faults /\ history'.excused = Excuses
  BY DEF Sampled, Recorded
<1> SUFFICES ASSUME ~Excuses PROVE ~Faults
  BY <1>1 DEF ReportsExcused
<1>2. ~history.excused /\ ~(checker.fresh /\ (checker.waiting \/ (bus.select /\ bus.enable)))
  BY DEF Excuses
<1>3. ~history.reports
  BY <1>2 DEF ReportsExcused
<1>4. ASSUME checker.on, Violates
      PROVE  FALSE
  <2>1. bus.enable => bus.select
    BY DEF Driven
  <2>2. ~(bus.select /\ ~bus.enable /\ HasStrobe /\ ~bus.write /\ bus.strobe # "none")
    BY DEF Driven
  <2>3. bus.enable => pc[bus.address] = "access"
    BY <1>2, AtRise DEF Checked, Sampled
  <2>4. bus.enable => ~checker.fresh /\ (checker.setup \/ checker.waiting) /\ ~Changed
    BY <1>2, <1>4, <2>1, <2>3 DEF Checked
  <2>5. checker.waiting => ~checker.fresh /\ bus.enable
    BY <1>2, <1>4 DEF Checked
  <2> QED
    BY <1>4, <2>1, <2>2, <2>4, <2>5 DEF Violates
<1> QED
  BY <1>3, <1>4 DEF Faults

\* The monitor follows a master that keeps its signals while a transfer is on the bus.
LEMMA RiseMonitored ==
  ASSUME ApbAssumption, IInv, NEW ready \in BOOLEAN, NEW failed, NEW value,
         Sampled(ready, failed, value),
         bus'.enable \/ Turning' => BusKept,
         bus'.enable /\ ~bus.enable => pc[bus.address] = "setup" /\ bus.select,
         \A c \in Clients : pc'[c] \in {"turn", "access"} =>
             /\ c = bus.address /\ bus.select /\ ~ready
             /\ bus.enable => pc[c] = "access"
  PROVE  Monitored'
<1> USE DEF IInv
<1>1. /\ bus.enable => bus.select
      /\ bus.select => bus.address \in Clients
  BY AtRise DEF Sampled
<1>2. /\ bus.select /\ ~bus.enable =>
                /\ monitor'.at = "access" <=> monitor.at # "off"
                /\ monitor'.at = "access" =>
                      /\ monitor'.waits = 0
                      /\ monitor'.write = bus.write /\ monitor'.address = bus.address
                      /\ monitor'.data = IF bus.write THEN bus.data ELSE Nobody
                      /\ monitor'.strobe = IF bus.write THEN bus.strobe ELSE "all"
      /\ ~(bus.select /\ ~bus.enable) /\ monitor'.at = "access" =>
                /\ monitor.at = "access" /\ bus.select /\ ~ready
                /\ monitor'.waits = monitor.waits + 1
                /\ monitor'.write = monitor.write /\ monitor'.address = monitor.address
                /\ monitor'.data = monitor.data /\ monitor'.strobe = monitor.strobe
      /\ bus.select /\ bus.enable /\ ~ready => monitor'.at = monitor.at
  BY <1>1, MonitorSampled DEF Sampled
<1>3. stall' = IF bus.select /\ bus.enable /\ ~ready THEN stall + 1 ELSE 0
  BY DEF Sampled
<1>4. ready => bus.select /\ bus.enable
  BY DEF Sampled
<1>5. {bus.select, bus.enable} \subseteq BOOLEAN
  BY ApbTypes
<1>6. monitor'.at = "access" => monitor'.waits = stall'
  BY <1>2, <1>3, <1>5 DEF Monitored
<1>7. monitor'.at = "access" /\ (bus'.enable \/ Turning') => Captured'
  <2> SUFFICES ASSUME monitor'.at = "access", bus'.enable \/ Turning' PROVE Captured'
    OBVIOUS
  <2>1. BusKept
    OBVIOUS
  <2>2. CASE bus.select /\ ~bus.enable
    BY <1>2, <2>1, <2>2 DEF Captured, BusKept
  <2>3. CASE ~(bus.select /\ ~bus.enable)
    <3>1. monitor.at = "access" /\ bus.enable
      BY <1>2, <1>5, <2>3
    <3>2. Captured
      BY <3>1 DEF Monitored
    <3> QED
      BY <1>2, <2>1, <2>3, <3>2 DEF Captured, BusKept
  <2> QED
    BY <2>2, <2>3
<1>8. /\ \A d \in Clients : ~(bus.select /\ d = bus.address) =>
             /\ history'.served[d] = history.served[d]
             /\ history'.published[d] = history.published[d]
             /\ history'.watched[d] = history.watched[d]
      /\ \A d \in Clients : ~ready =>
             /\ history'.served[d] = history.served[d]
             /\ history'.published[d] = history.published[d]
      /\ \A d \in Clients : bus.enable => history'.watched[d] = history.watched[d]
      /\ bus.select /\ ~bus.enable => history'.watched[bus.address] = (monitor.at # "off")
  BY DEF Sampled, Recorded
<1>9. monitor'.at = "access" /\ bus'.enable => history'.published[bus'.address] = <<>>
  <2> SUFFICES ASSUME monitor'.at = "access", bus'.enable
               PROVE  history'.published[bus'.address] = <<>>
    OBVIOUS
  <2>1. bus'.address = bus.address
    BY DEF BusKept
  <2>2. CASE ~bus.enable
    <3>1. bus.address \in Clients /\ pc[bus.address] = "setup" /\ ~ready
      BY <1>1, <1>4, <2>2
    <3>2. history.published[bus.address] = <<>>
      BY <3>1 DEF Settled, Waiting
    <3> QED
      BY <1>8, <2>1, <3>1, <3>2
  <2>3. CASE bus.enable
    <3>1. monitor.at = "access" /\ ~ready /\ bus.address \in Clients
      BY <1>1, <1>2, <2>3
    <3>2. history.published[bus.address] = <<>>
      BY <2>3, <3>1 DEF Monitored
    <3> QED
      BY <1>8, <2>1, <3>1, <3>2
  <2> QED
    BY <1>5, <2>2, <2>3
<1>10. ASSUME NEW c \in Clients
       PROVE  /\ pc'[c] \in {"turn", "access"} => (history'.watched[c] <=> monitor'.at = "access")
              /\ Len(history'.published[c]) <= 1
              /\ Len(history'.published[c]) <= Len(history'.served[c])
  <2>1. pc'[c] \in {"turn", "access"} => (history'.watched[c] <=> monitor'.at = "access")
    <3> SUFFICES ASSUME pc'[c] \in {"turn", "access"}
                 PROVE  history'.watched[c] <=> monitor'.at = "access"
      OBVIOUS
    <3>1. c = bus.address /\ bus.select /\ ~ready
      BY <1>10
    <3>2. CASE ~bus.enable
      BY <1>2, <1>8, <3>1, <3>2
    <3>3. CASE bus.enable
      <4>1. pc[c] = "access"
        BY <1>10, <3>3
      <4>2. history.watched[c] <=> monitor.at = "access"
        BY <4>1 DEF Monitored
      <4> QED
        BY <1>2, <1>8, <3>1, <3>3, <4>2
    <3> QED
      BY <1>5, <3>2, <3>3
  <2>2. Len(history.published[c]) <= 1 /\ Len(history.published[c]) <= Len(history.served[c])
    BY DEF Monitored
  <2>3. history.published \in [Clients -> Seq(Observations)] /\ history.served \in [Clients -> Seq(Events)]
    BY ApbTypes
  <2>4. CASE ready /\ c = bus.address
    <3>1. PICK p \in Seq(Observations) : p = history.published[c]
      BY <2>3
    <3>2. PICK s \in Seq(Events) : s = history.served[c]
      BY <2>3
    <3>3. PICK o : o = Observation(failed, value)
      OBVIOUS
    <3>4. PICK e : e = Event(failed, value)
      OBVIOUS
    <3>5. /\ history'.served[c] = IF Len(s) < 2 THEN Append(s, e) ELSE s
          /\ history'.published[c] = IF monitor.at = "access" THEN Append(p, o) ELSE p
      BY <2>4, <3>1, <3>2, <3>3, <3>4 DEF Sampled, Recorded
    <3>6. monitor.at = "access" => p = <<>>
      BY <1>4, <2>4, <3>1 DEF Monitored
    <3>7. Len(p) <= 1 /\ Len(p) <= Len(s) /\ Len(p) \in Nat /\ Len(s) \in Nat
      BY <2>2, <3>1, <3>2
    <3>8. Len(Append(s, e)) = Len(s) + 1
      OBVIOUS
    <3>9. p = <<>> => Len(Append(p, o)) = 1
      OBVIOUS
    <3>10. Len(history'.served[c]) \in {Len(s), Len(s) + 1} /\ (Len(history'.served[c]) = Len(s) => Len(s) >= 2)
      BY <3>5, <3>7, <3>8
    <3>11. Len(history'.published[c]) = Len(p) \/ Len(history'.published[c]) = 1
      BY <3>5, <3>6, <3>9
    <3>12. PICK m : m = Len(history'.served[c])
      OBVIOUS
    <3>13. PICK n : n = Len(history'.published[c])
      OBVIOUS
    <3>14. PICK i \in Nat : i = Len(p)
      BY <3>7
    <3>15. PICK j \in Nat : j = Len(s)
      BY <3>7
    <3>16. i <= 1 /\ i <= j
      BY <3>7, <3>14, <3>15
    <3>17. m \in {j, j + 1} /\ (m = j => j >= 2) /\ n \in {i, 1}
      BY <3>10, <3>11, <3>12, <3>13, <3>14, <3>15
    <3>18. n <= 1 /\ n <= m
      BY ONLY <3>16, <3>17, i \in Nat, j \in Nat
    <3> QED
      BY <2>1, <3>12, <3>13, <3>18
  <2>5. CASE ~(ready /\ c = bus.address)
    <3>1. history'.served[c] = history.served[c] /\ history'.published[c] = history.published[c]
      BY <1>4, <1>8, <2>5
    <3> QED
      BY <2>1, <2>2, <3>1
  <2> QED
    BY <2>4, <2>5
<1> QED
  BY <1>6, <1>7, <1>9, <1>10 DEF Monitored

\* The checker follows a master that answers every access it finds ready, and no other.
LEMMA RiseChecked ==
  ASSUME ApbAssumption, IInv, NEW ready \in BOOLEAN, NEW failed, NEW value,
         Sampled(ready, failed, value),
         bus'.enable => /\ bus'.address = bus.address
                        /\ pc'[bus.address] = "gone" => bus.enable /\ pc[bus.address] = "gone",
         bus.enable /\ ~ready /\ pc[bus.address] # "gone" =>
             \/ bus'.enable /\ pc'[bus'.address] = "access"
             \/ \E d \in Clients : answer'[d].status = "timeout",
         (bus'.enable /\ pc'[bus'.address] = "access") \/ Turning' =>
             /\ bus.select /\ ~ready /\ BusKept
             /\ bus.enable => pc[bus.address] = "access"
  PROVE  Checked'
<1> USE DEF IInv
<1> SUFFICES ASSUME ~Excuses
             PROVE  /\ bus'.enable => pc'[bus'.address] # "gone"
                    /\ checker'.on /\ ~checker'.fresh =>
                          /\ checker'.waiting => bus'.enable /\ pc'[bus'.address] = "access"
                          /\ (bus'.enable /\ pc'[bus'.address] = "access") \/ Turning' =>
                                 (checker'.setup \/ checker'.waiting) /\ ~Changed'
  BY DEF Checked, Sampled, Recorded
<1>1. /\ ~history.excused /\ ~(checker.fresh /\ (checker.waiting \/ (bus.select /\ bus.enable)))
      /\ ~\E d \in Clients : answer'[d].status = "timeout"
  BY DEF Excuses
<1>2. bus'.enable => pc'[bus'.address] # "gone"
  BY <1>1 DEF Checked
<1>3. /\ checker'.on = checker.on
      /\ checker.on /\ bus.select /\ ~bus.enable =>
                /\ checker'.setup /\ ~checker'.waiting
                /\ checker'.write = bus.write /\ checker'.address = bus.address
                /\ checker'.data = bus.data /\ checker'.strobe = bus.strobe
      /\ checker.on /\ bus.select /\ bus.enable /\ ~ready =>
                /\ checker'.waiting
                /\ checker'.write = checker.write /\ checker'.address = checker.address
                /\ checker'.data = checker.data /\ checker'.strobe = checker.strobe
      /\ checker.on /\ (~bus.select \/ (bus.enable /\ ready)) => ~checker'.waiting
  BY CheckerSampled DEF Sampled
<1>4. (bus.enable => bus.select) /\ (ready => bus.select /\ bus.enable)
  BY AtRise DEF Sampled
<1>5. bus.enable => pc[bus.address] # "gone"
  BY <1>1 DEF Checked
<1>6. {bus.select, bus.enable} \subseteq BOOLEAN
  BY ApbTypes
<1>7. ASSUME checker.on, checker'.waiting
      PROVE  bus'.enable /\ pc'[bus'.address] = "access"
  BY <1>1, <1>3, <1>4, <1>5, <1>6, <1>7
<1>8. ASSUME checker.on, (bus'.enable /\ pc'[bus'.address] = "access") \/ Turning'
      PROVE  (checker'.setup \/ checker'.waiting) /\ ~Changed'
  <2>1. bus.select /\ ~ready /\ BusKept /\ (bus.enable => pc[bus.address] = "access")
    BY <1>8
  <2>2. CASE ~bus.enable
    BY <1>3, <1>8, <2>1, <2>2 DEF Changed, BusKept
  <2>3. CASE bus.enable
    <3>1. ~checker.fresh
      BY <1>1, <2>1, <2>3
    <3>2. ~Changed
      BY <1>1, <1>8, <2>1, <2>3, <3>1 DEF Checked
    <3> QED
      BY <1>3, <1>8, <2>1, <2>3, <3>2 DEF Changed, BusKept
  <2> QED
    BY <1>6, <2>2, <2>3
<1> QED
  BY <1>2, <1>3, <1>7, <1>8

\* The types of what a rising edge changes are those of the state.
LEMMA RiseTyped ==
  ASSUME ApbAssumption, IInv, NEW ready \in BOOLEAN, NEW failed, NEW value,
         Sampled(ready, failed, value), bus' \in BusType,
         lock' \in [owner: Party, queue: Seq(Clients)], pc' \in [Clients -> Places],
         waits' \in [Clients -> Nat], answer' \in [Clients -> Responses]
  PROVE  TypeOK'
<1> USE DEF IInv
<1>1. stall' \in 0..Stalls
  <2>1. stall \in 0..Stalls /\ Stalls \in Nat
    BY ApbTypes DEF ApbAssumption
  <2> QED
    BY <2>1 DEF Sampled
<1>2. monitor' \in [at: {"off", "seek", "access"}, waits: Nat, write: BOOLEAN, address: Party,
                    data: Party, strobe: Strobes]
  BY MonitorSampled DEF Sampled, Driven
<1>3. checker' \in [on: BOOLEAN, fresh: BOOLEAN, setup: BOOLEAN, waiting: BOOLEAN,
                    write: BOOLEAN, address: Party, data: Party, strobe: Strobes]
  BY CheckerSampled DEF Sampled
<1>4. clk' = "high" /\ req' = req /\ budget' = budget /\ history' \in HistoryType
  BY DEF Sampled
<1>5. req' \in [Clients -> Requests]
      /\ budget' \in [calls: [Clients -> 0..Transfers], cancels: 0..Cancels, starts: 0..Starts]
  BY <1>4 DEF TypeOK
<1> QED
  BY ONLY <1>1, <1>2, <1>3, <1>4, <1>5, bus' \in BusType,
         lock' \in [owner: Party, queue: Seq(Clients)], pc' \in [Clients -> Places],
         waits' \in [Clients -> Nat], answer' \in [Clients -> Responses]
     DEF TypeOK, BusType, HistoryType

\* A rising edge changes nothing of a client that does not own the lock, and is not killed.
LEMMA RiseOthers ==
  ASSUME ApbAssumption, IInv, NEW ready \in BOOLEAN, NEW failed, NEW value,
         Sampled(ready, failed, value), NEW d \in Clients, d # Owner,
         waits'[d] = waits[d], answer'[d] = answer[d],
         pc'[d] = pc[d] \/ (pc[d] = "queued" /\ pc'[d] = "anchor")
  PROVE  Counts(d)' /\ Settled(d)'
<1> USE DEF IInv
<1>1. pc[d] \in {"idle", "queued", "gone"}
  BY OneOwner
<1>2. Counts(d)'
  BY <1>1, KeptCounts
<1>3. CASE pc[d] = "gone"
  BY <1>2, <1>3 DEF Settled, Waiting
<1>4. CASE pc[d] # "gone"
  <2>1. bus.select => bus.address # d
    BY <1>1, <1>4 DEF Driven, OnBus
  <2>2. req'[d] = req[d]
    BY DEF Sampled
  <2>3. /\ history'.served[d] = history.served[d]
        /\ history'.published[d] = history.published[d]
        /\ history'.watched[d] = history.watched[d]
    BY <2>1 DEF Sampled, Recorded
  <2> QED
    BY <1>2, <2>2, <2>3, KeptSettled
<1> QED
  BY <1>3, <1>4

-----------------------------------------------------------------------------
(* The rising edge                                                         *)

\* The owner is between two edges of its own, or the lock is free.
LEMMA RiseAsleep ==
  ASSUME ApbAssumption, IInv, NEW ready \in BOOLEAN, NEW failed, NEW value,
         Sampled(ready, failed, value),
         bus' = bus, lock' = lock, pc' = pc, waits' = waits, answer' = answer,
         \A c \in Clients : pc[c] \notin {"setup", "access"}
  PROVE  IInv'
<1> USE DEF IInv
<1>1. clk = "low" /\ clk' = "high" /\ req' = req /\ (ready => bus.select /\ bus.enable)
  BY DEF Sampled
<1>2. TypeOK'
  <2>1. /\ bus' \in BusType /\ lock' \in [owner: Party, queue: Seq(Clients)]
        /\ pc' \in [Clients -> Places] /\ waits' \in [Clients -> Nat] /\ answer' \in [Clients -> Responses]
    BY DEF TypeOK, BusType
  <2> QED
    BY <2>1, RiseTyped
<1>3. Locked'
  BY DEF Locked, Serialised, Owner
<1>4. Driven'
  BY <1>1 DEF Driven, Carries
<1>5. BusKept
  BY DEF BusKept
<1>6. \A c \in Clients : pc[c] = "turn" =>
          c = bus.address /\ bus.select /\ ~bus.enable /\ ~ready
  BY <1>1, AtRise DEF Carries
<1>7. Monitored'
  <2>1. bus'.enable = bus.enable
    OBVIOUS
  <2>2. \A c \in Clients : pc'[c] \in {"turn", "access"} =>
             /\ c = bus.address /\ bus.select /\ ~ready
             /\ bus.enable => pc[c] = "access"
    BY <1>6
  <2> QED
    BY <1>5, <2>1, <2>2, RiseMonitored
<1>8. Checked'
  <2>1. bus.enable => pc[bus.address] = "gone"
    BY <1>1, AtRise
  <2>2. Turning' => bus.select /\ ~bus.enable /\ ~ready
    BY <1>6 DEF Turning
  <2>3. bus'.enable => /\ bus'.address = bus.address
                       /\ pc'[bus.address] = "gone" => bus.enable /\ pc[bus.address] = "gone"
    OBVIOUS
  <2>4. bus'.enable /\ pc'[bus'.address] = "access" => FALSE
    BY <2>1
  <2> QED
    BY <1>5, <2>1, <2>2, <2>3, <2>4, RiseChecked
<1>9. ReportsExcused'
  BY ReportsSampled
<1>10. ASSUME NEW d \in Clients
       PROVE  Counts(d)' /\ Settled(d)'
  <2>1. CASE d # Owner
    BY <2>1, RiseOthers
  <2>2. CASE d = Owner
    <3>1. pc[d] \in {"anchor", "turn"}
      BY <1>1, <2>2, OneOwner, AtRise DEF Held
    <3>2. CASE pc[d] = "turn"
      <4>1. ~ready /\ d = bus.address /\ bus.select /\ ~bus.enable
        BY <1>6, <3>2
      <4>2. stall' = 0
        BY <4>1 DEF Sampled
      <4>3. history'.served[d] = history.served[d] /\ history'.published[d] = history.published[d]
        BY <4>1 DEF Sampled, Recorded
      <4>4. Counts(d)'
        BY <3>2, <4>2 DEF Counts
      <4>5. Settled(d)'
        BY <1>1, <3>2, <4>3 DEF Settled, Waiting
      <4> QED
        BY <4>4, <4>5
    <3>3. CASE pc[d] = "anchor"
      <4>1. bus.select => bus.address # d
        BY <3>3 DEF Driven, OnBus
      <4>2. /\ history'.served[d] = history.served[d]
            /\ history'.published[d] = history.published[d]
            /\ history'.watched[d] = history.watched[d]
        BY <4>1 DEF Sampled, Recorded
      <4>3. Counts(d)'
        BY <3>3 DEF Counts
      <4>4. Settled(d)'
        BY <1>1, <4>2, KeptSettled
      <4> QED
        BY <4>3, <4>4
    <3> QED
      BY <3>1, <3>2, <3>3
  <2> QED
    BY <2>1, <2>2
<1> QED
  BY <1>2, <1>3, <1>4, <1>7, <1>8, <1>9, <1>10

\* The owner drives its request (deferred writes).
LEMMA RiseSetup ==
  ASSUME ApbAssumption, IInv, NEW ready \in BOOLEAN, NEW failed, NEW value,
         Sampled(ready, failed, value), NEW c \in Clients, c = Owner, pc[c] = "anchor",
         bus' = Setup(c), pc' = [pc EXCEPT ![c] = "setup"],
         lock' = lock, waits' = waits, answer' = answer
  PROVE  IInv'
<1> USE DEF IInv
<1>1. clk = "low" /\ clk' = "high" /\ req' = req
  BY DEF Sampled
<1>2. /\ Locked' /\ lock' \in [owner: Party, queue: Seq(Clients)] /\ pc' \in [Clients -> Places]
      /\ pc'[c] = "setup"
      /\ \A d \in Clients : d # c => pc'[d] = pc[d] /\ pc[d] \in {"idle", "queued", "gone"}
  BY HeldOn DEF Held
<1>3. Driven' /\ bus' \in BusType /\ ~Turning' /\ ~bus'.enable
  BY <1>1, MasterSetsUp
<1>4. TypeOK'
  <2>1. waits' \in [Clients -> Nat] /\ answer' \in [Clients -> Responses]
    BY DEF TypeOK
  <2> QED
    BY <1>2, <1>3, <2>1, RiseTyped
<1>5. \A d \in Clients : pc'[d] \notin {"turn", "access"}
  BY <1>2
<1>6. Monitored'
  BY <1>3, <1>5, RiseMonitored
<1>7. Checked'
  <2>1. bus.enable => pc[bus.address] = "gone"
    <3>1. bus.enable /\ pc[bus.address] # "gone" => pc[bus.address] = "access" /\ bus.address = Owner
      BY <1>1, AtRise
    <3> QED
      BY <3>1
  <2> QED
    BY <1>3, <2>1, RiseChecked
<1>8. ReportsExcused'
  BY ReportsSampled
<1>9. ASSUME NEW d \in Clients
      PROVE  Counts(d)' /\ Settled(d)'
  <2>1. CASE d # c
    <3>1. waits'[d] = waits[d] /\ answer'[d] = answer[d] /\ pc'[d] = pc[d]
      BY <1>2, <2>1
    <3> QED
      BY <2>1, <3>1, RiseOthers
  <2>2. CASE d = c
    <3>1. bus.select => bus.address # d
      BY <2>2 DEF Driven, OnBus
    <3>2. /\ history'.served[d] = history.served[d]
          /\ history'.published[d] = history.published[d]
          /\ history'.watched[d] = history.watched[d]
      BY <3>1 DEF Sampled, Recorded
    <3>3. Counts(d)'
      BY <1>2, <2>2 DEF Counts
    <3>4. Settled(d)'
      BY <1>1, <1>2, <2>2, <3>2 DEF Settled, Waiting
    <3> QED
      BY <3>3, <3>4
  <2> QED
    BY <2>1, <2>2
<1> QED
  BY <1>2, <1>3, <1>4, <1>6, <1>7, <1>8, <1>9

\* The owner sees its setup phase, and enables at once (deferred writes) or at the falling edge.
LEMMA RiseEnables ==
  ASSUME ApbAssumption, IInv, NEW ready \in BOOLEAN, NEW failed, NEW value,
         Sampled(ready, failed, value), NEW c \in Clients, c = Owner, pc[c] = "setup",
         \/ bus' = [bus EXCEPT !.enable = TRUE] /\ pc' = [pc EXCEPT ![c] = "access"]
         \/ bus' = bus /\ pc' = [pc EXCEPT ![c] = "turn"],
         lock' = lock, waits' = waits, answer' = answer
  PROVE  IInv'
<1> USE DEF IInv
<1>1. clk = "low" /\ clk' = "high" /\ req' = req /\ (ready => bus.select /\ bus.enable)
  BY DEF Sampled
<1>2. /\ Locked' /\ lock' \in [owner: Party, queue: Seq(Clients)] /\ pc' \in [Clients -> Places]
      /\ pc'[c] \in {"access", "turn"}
      /\ \A d \in Clients : d # c => pc'[d] = pc[d] /\ pc[d] \in {"idle", "queued", "gone"}
  BY HeldOn DEF Held
<1>3. c = bus.address /\ bus.select /\ Carries(c) /\ ~bus.enable
  BY <1>1, AtRise DEF Carries
<1>4. Driven' /\ bus' \in BusType /\ BusKept
      /\ (bus'.enable => pc'[c] = "access")
  <2>1. CASE bus' = [bus EXCEPT !.enable = TRUE] /\ pc' = [pc EXCEPT ![c] = "access"]
    <3>1. pc'[c] = "access"
      BY <2>1, ApbTypes
    <3> QED
      BY <1>1, <2>1, <3>1, MasterEnables DEF BusKept
  <2>2. CASE bus' = bus /\ pc' = [pc EXCEPT ![c] = "turn"]
    <3>1. Driven'
      BY <1>1, <2>2, MasterTurns
    <3> QED
      BY <1>3, <2>2, <3>1 DEF BusKept, TypeOK, BusType
  <2> QED
    BY <2>1, <2>2
<1>5. TypeOK'
  <2>1. waits' \in [Clients -> Nat] /\ answer' \in [Clients -> Responses]
    BY DEF TypeOK
  <2> QED
    BY <1>2, <1>4, <2>1, RiseTyped
<1>6. \A d \in Clients : pc'[d] \in {"turn", "access"} =>
             d = bus.address /\ bus.select /\ ~ready /\ ~bus.enable
  BY <1>1, <1>2, <1>3
<1>7. Monitored'
  BY <1>3, <1>4, <1>6, RiseMonitored
<1>8. Checked'
  <2>1. bus'.address = bus.address /\ pc'[bus.address] # "gone"
    BY <1>2, <1>3, <1>4 DEF BusKept
  <2>2. bus.select /\ ~ready /\ ~bus.enable
    BY <1>1, <1>3
  <2> QED
    BY <1>4, <2>1, <2>2, RiseChecked
<1>9. ReportsExcused'
  BY ReportsSampled
<1>10. ASSUME NEW d \in Clients
       PROVE  Counts(d)' /\ Settled(d)'
  <2>1. CASE d # c
    <3>1. waits'[d] = waits[d] /\ answer'[d] = answer[d] /\ pc'[d] = pc[d]
      BY <1>2, <2>1
    <3> QED
      BY <2>1, <3>1, RiseOthers
  <2>2. CASE d = c
    <3>1. history'.served[c] = history.served[c] /\ history'.published[c] = history.published[c]
      BY <1>1, <1>3 DEF Sampled, Recorded
    <3>2. stall' = 0 /\ MaxWaitCycles \in Nat
      BY <1>3 DEF Sampled, ApbAssumption
    <3>3. Counts(c)'
      BY <1>2, <3>2 DEF Counts
    <3>4. Settled(c)'
      BY <1>1, <1>2, <3>1 DEF Settled, Waiting
    <3> QED
      BY <2>2, <3>3, <3>4
  <2> QED
    BY <2>1, <2>2
<1> QED
  BY <1>2, <1>4, <1>5, <1>7, <1>8, <1>9, <1>10

\* The owner finds its access not ready.
LEMMA RiseWaits ==
  ASSUME ApbAssumption, IInv, NEW ready \in BOOLEAN, NEW failed, NEW value,
         Sampled(ready, failed, value), NEW c \in Clients, c = Owner, pc[c] = "access",
         ~ready, MaxWaitCycles # 0 => waits[c] + 1 < MaxWaitCycles,
         waits' = [waits EXCEPT ![c] = @ + 1],
         bus' = bus, lock' = lock, pc' = pc, answer' = answer
  PROVE  IInv'
<1> USE DEF IInv
<1>1. clk = "low" /\ clk' = "high" /\ req' = req
  BY DEF Sampled
<1>2. c = bus.address /\ bus.select /\ Carries(c) /\ bus.enable
  BY <1>1, AtRise DEF Carries
<1>3. /\ bus' \in BusType /\ lock' \in [owner: Party, queue: Seq(Clients)]
      /\ pc' \in [Clients -> Places] /\ answer' \in [Clients -> Responses]
  BY DEF TypeOK, BusType
<1>4. waits' \in [Clients -> Nat]
  BY ApbTypes
<1>5. TypeOK'
  BY <1>3, <1>4, RiseTyped
<1>6. Locked'
  BY DEF Locked, Serialised, Owner
<1>7. Driven'
  <2>1. \A d \in Clients : pc[d] # "drop"
    BY <1>1, AtRise
  <2> QED
    BY <1>1, <2>1 DEF Driven, Carries
<1>8. BusKept
  BY DEF BusKept
<1>9. \A d \in Clients : pc'[d] \in {"turn", "access"} => d = bus.address /\ pc[d] = "access"
  BY <1>1, <1>2, AtRise
<1>10. Monitored'
  BY <1>2, <1>8, <1>9, RiseMonitored
<1>11. Checked'
  <2>1. pc'[bus.address] = "access" /\ pc[bus.address] = "access" /\ bus'.address = bus.address /\ bus'.enable
    BY <1>2
  <2> QED
    BY <1>2, <1>8, <2>1, RiseChecked
<1>12. ReportsExcused'
  BY ReportsSampled
<1>13. ASSUME NEW d \in Clients
       PROVE  Counts(d)' /\ Settled(d)'
  <2>1. CASE d # c
    <3>1. waits'[d] = waits[d] /\ answer'[d] = answer[d] /\ pc'[d] = pc[d]
      BY <2>1, ApbTypes
    <3> QED
      BY <2>1, <3>1, RiseOthers
  <2>2. CASE d = c
    <3>1. /\ history'.served[c] = history.served[c]
          /\ history'.published[c] = history.published[c]
          /\ history'.watched[c] = history.watched[c]
      BY <1>2 DEF Sampled, Recorded
    <3>2. stall' = stall + 1 /\ MaxWaitCycles \in Nat /\ waits[c] = stall /\ stall \in Nat
      BY <1>2, ApbTypes DEF Sampled, ApbAssumption, Counts
    <3>3. waits'[c] = waits[c] + 1
      BY ApbTypes
    <3>4. Counts(c)'
      BY <3>2, <3>3 DEF Counts
    <3>5. Settled(c)'
      BY <1>1, <3>1, KeptSettled
    <3> QED
      BY <2>2, <3>4, <3>5
  <2> QED
    BY <2>1, <2>2
<1> QED
  BY <1>5, <1>6, <1>7, <1>10, <1>11, <1>12, <1>13

\* The response the owner takes is what the device answers in this very sample.
Answered(c, ready, failed, value) ==
    /\ waits' = [waits EXCEPT ![c] = IF ready THEN @ ELSE @ + 1]
    /\ answer' = [answer EXCEPT ![c] =
           [status |-> IF ready THEN IF failed THEN "error" ELSE "okay" ELSE "timeout",
            waits |-> waits'[c],
            value |-> IF ~ready \/ req[c].write THEN Nobody ELSE value]]

\* The response of the owner is settled: it is what was served, and what was published.
LEMMA AnswerSettled ==
  ASSUME ApbAssumption, IInv, NEW ready \in BOOLEAN, NEW failed \in BOOLEAN,
         NEW value \in Values \cup {Nobody},
         Sampled(ready, failed, value), NEW c \in Clients, c = Owner, pc[c] = "access",
         Answered(c, ready, failed, value)
  PROVE  /\ answer'[c].status \notin {"none", "invalid"}
         /\ ~ready => answer'[c].status = "timeout"
         /\ ServedAsAnswered(c)' /\ PublishedAsAnswered(c)'
<1> USE DEF IInv
<1>1. clk = "low" /\ req' = req
  BY DEF Sampled
<1>2. c = bus.address /\ bus.select /\ Carries(c) /\ bus.enable
  BY <1>1, AtRise DEF Carries
<1>3. req'[c] = req[c] /\ req[c] \in Requests /\ waits[c] = stall
  BY <1>1, ApbTypes DEF Counts
<1>4. history.served[c] = <<>> /\ history.published[c] = <<>>
      /\ (history.watched[c] <=> monitor.at = "access")
      /\ (req[c].strobe = "part" => HasStrobe /\ req[c].write)
  BY DEF Settled, Waiting, Monitored
<1>5. history'.watched[c] = history.watched[c]
  BY <1>2 DEF Sampled, Recorded
<1>6. PICK x : x = [status |-> IF ready THEN IF failed THEN "error" ELSE "okay" ELSE "timeout",
                    waits |-> waits'[c],
                    value |-> IF ~ready \/ req[c].write THEN Nobody ELSE value]
  OBVIOUS
<1>7. answer'[c] = x
  BY <1>6, ApbTypes DEF Answered
<1>8. CASE ~ready
  <2>1. x.status = "timeout"
    BY <1>6, <1>8
  <2>2. history'.served[c] = <<>> /\ history'.published[c] = <<>>
    BY <1>4, <1>8 DEF Sampled, Recorded
  <2>3. answer'[c].status = "timeout"
    BY <1>7, <2>1
  <2> QED
    BY <2>2, <2>3 DEF ServedAsAnswered, PublishedAsAnswered
<1>9. CASE ready
  <2>1. waits'[c] = waits[c]
    BY <1>9, ApbTypes DEF Answered
  <2>2. PICK e : e = Event(failed, value)
    OBVIOUS
  <2>3. PICK o : o = Observation(failed, value)
    OBVIOUS
  <2>4. /\ history'.served[c] =
              IF Len(history.served[c]) < 2 THEN Append(history.served[c], e) ELSE history.served[c]
        /\ history'.published[c] =
              IF monitor.at = "access" THEN Append(history.published[c], o) ELSE history.published[c]
    BY <1>2, <1>9, <2>2, <2>3 DEF Sampled, Recorded
  <2>5. Len(<<>>) = 0 /\ Append(<<>>, e) = <<e>> /\ Append(<<>>, o) = <<o>>
    OBVIOUS
  <2>6. history'.served[c] = <<e>>
    BY <1>4, <2>4, <2>5
  <2>7. history'.published[c] = IF monitor.at = "access" THEN <<o>> ELSE <<>>
    BY <1>4, <2>4, <2>5
  <2>8. /\ x.status \in {"okay", "error"} /\ x.status = IF failed THEN "error" ELSE "okay"
        /\ x.waits = stall
        /\ x.value = IF req[c].write THEN Nobody ELSE value
    BY <1>3, <1>6, <1>9, <2>1
  <2>9. bus.write = req[c].write /\ (bus.write => bus.data = c)
        /\ (bus.write => bus.strobe = req[c].strobe)
    <3>1. req[c].strobe \in {"all", "part"}
      BY <1>3 DEF Requests
    <3> QED
      BY <1>2, <1>4, <3>1 DEF Carries
  <2>10. /\ e.status = x.status /\ e.value = x.value /\ e.waits = x.waits
         /\ e.request.write = req[c].write
         /\ req[c].write => e.request.data = c /\ e.request.strobe = req[c].strobe
    BY <2>2, <2>8, <2>9 DEF Event
  <2>11. ServedAsAnswered(c)'
    <3>1. Len(<<e>>) = 1 /\ <<e>>[1] = e
      OBVIOUS
    <3>2. PICK h : h = history'.served[c]
      OBVIOUS
    <3>3. Len(h) = 1 /\ h[1] = e
      BY <2>6, <3>1, <3>2
    <3> QED
      BY <1>3, <1>7, <2>8, <2>10, <3>2, <3>3 DEF ServedAsAnswered
  <2>12. PublishedAsAnswered(c)'
    <3>1. CASE monitor.at # "access"
      BY <1>4, <1>5, <2>7, <3>1 DEF PublishedAsAnswered
    <3>2. CASE monitor.at = "access"
      <4>1. monitor.waits = stall /\ Captured
        BY <1>2, <3>2 DEF Monitored
      <4>2. /\ monitor.address = c /\ monitor.write = req[c].write
            /\ monitor.data = IF req[c].write THEN c ELSE Nobody
            /\ monitor.strobe = IF req[c].write THEN req[c].strobe ELSE "all"
        BY <1>2, <2>9, <4>1 DEF Captured
      <4>3. x = [status |-> IF failed THEN "error" ELSE "okay", waits |-> stall,
                 value |-> IF req[c].write THEN Nobody ELSE value]
        BY <1>3, <1>6, <1>9, <2>1
      <4>4. o = [address |-> c, data |-> IF req[c].write THEN c ELSE Nobody,
                 strobe |-> IF req[c].write THEN req[c].strobe ELSE "all", answer |-> x]
        BY <2>3, <4>1, <4>2, <4>3 DEF Observation
      <4> QED
        BY <1>3, <1>4, <1>5, <1>7, <2>7, <2>8, <3>2, <4>4 DEF PublishedAsAnswered
    <3> QED
      BY <3>1, <3>2
  <2>13. answer'[c].status \in {"okay", "error"}
    BY <1>7, <2>8
  <2> QED
    BY <1>9, <2>11, <2>12, <2>13
<1> QED
  BY <1>8, <1>9

\* The owner takes its response, and returns the bus to idle at once (deferred writes) or at the
\* falling edge.
LEMMA RiseAnswers ==
  ASSUME ApbAssumption, IInv, NEW ready \in BOOLEAN, NEW failed \in BOOLEAN,
         NEW value \in Values \cup {Nobody},
         Sampled(ready, failed, value), NEW c \in Clients, c = Owner, pc[c] = "access",
         Answered(c, ready, failed, value),
         \/ DeferredWrites /\ bus' = Idle /\ pc' = Moves(c, "idle") /\ lock' = Released
         \/ ~DeferredWrites /\ bus' = bus /\ pc' = [pc EXCEPT ![c] = "drop"] /\ lock' = lock
  PROVE  IInv'
<1> USE DEF IInv
<1>1. clk = "low" /\ clk' = "high" /\ req' = req
  BY DEF Sampled
<1>2. c = bus.address /\ bus.select /\ Carries(c) /\ bus.enable
  BY <1>1, AtRise DEF Carries
<1>3. /\ Locked' /\ lock' \in [owner: Party, queue: Seq(Clients)] /\ pc' \in [Clients -> Places]
      /\ pc'[c] \in {"idle", "drop"}
      /\ \A d \in Clients : /\ pc'[d] \notin {"turn", "access"}
                            /\ d # c => pc'[d] = pc[d] \/ (pc[d] = "queued" /\ pc'[d] = "anchor")
  <2>1. CASE DeferredWrites /\ bus' = Idle /\ pc' = Moves(c, "idle") /\ lock' = Released
    BY <2>1, ReleaseFacts
  <2>2. CASE bus' = bus /\ pc' = [pc EXCEPT ![c] = "drop"] /\ lock' = lock
    BY <2>2, HeldOn DEF Held
  <2> QED
    BY <2>1, <2>2
<1>4. Driven' /\ bus' \in BusType /\ ~Turning' /\ (bus'.enable => BusKept)
  <2>1. CASE DeferredWrites /\ bus' = Idle /\ pc' = Moves(c, "idle") /\ lock' = Released
    BY <1>1, <2>1, MasterReleases
  <2>2. CASE ~DeferredWrites /\ bus' = bus /\ pc' = [pc EXCEPT ![c] = "drop"] /\ lock' = lock
    <3>1. Driven'
      BY <1>1, <2>2, MasterTurns
    <3> QED
      BY <1>3, <2>2, <3>1 DEF BusKept, TypeOK, BusType, Turning
  <2> QED
    BY <2>1, <2>2
<1>5. waits' \in [Clients -> Nat] /\ answer' \in [Clients -> Responses]
  <2>1. waits' \in [Clients -> Nat]
    BY ApbTypes DEF Answered
  <2>2. PICK x : x = [status |-> IF ready THEN IF failed THEN "error" ELSE "okay" ELSE "timeout",
                      waits |-> waits'[c],
                      value |-> IF ~ready \/ req[c].write THEN Nobody ELSE value]
    OBVIOUS
  <2>3. waits'[c] \in Nat
    BY <2>1
  <2>4. x \in Responses
    BY <2>2, <2>3 DEF Responses, Statuses, Data
  <2>5. answer' = [answer EXCEPT ![c] = x]
    BY <2>2 DEF Answered
  <2> QED
    BY <2>1, <2>4, <2>5, ApbTypes
<1>6. TypeOK'
  BY <1>3, <1>4, <1>5, RiseTyped
<1>7. /\ answer'[c].status \notin {"none", "invalid"}
      /\ ~ready => answer'[c].status = "timeout"
      /\ ServedAsAnswered(c)' /\ PublishedAsAnswered(c)'
  BY AnswerSettled
<1>8. Monitored'
  BY <1>2, <1>3, <1>4, RiseMonitored
<1>9. Checked'
  <2>1. bus'.enable => bus'.address = bus.address /\ pc'[bus.address] \notin {"gone", "access"}
    BY <1>2, <1>3, <1>4 DEF BusKept
  <2>2. bus'.enable /\ pc'[bus'.address] = "access" => FALSE
    BY <2>1
  <2>3. ~ready => \E d \in Clients : answer'[d].status = "timeout"
    BY <1>7
  <2> QED
    BY <1>4, <2>1, <2>2, <2>3, RiseChecked
<1>10. ReportsExcused'
  BY ReportsSampled
<1>11. ASSUME NEW d \in Clients
       PROVE  Counts(d)' /\ Settled(d)'
  <2>1. CASE d # c
    <3>1. waits'[d] = waits[d] /\ answer'[d] = answer[d]
      BY <2>1, ApbTypes DEF Answered
    <3> QED
      BY <1>3, <2>1, <3>1, RiseOthers
  <2>2. CASE d = c
    <3>1. waits'[c] = IF ready THEN waits[c] ELSE waits[c] + 1
      BY ApbTypes DEF Answered
    <3>2. waits[c] \in Nat /\ MaxWaitCycles \in Nat
          /\ (MaxWaitCycles # 0 => waits[c] < MaxWaitCycles)
      BY ApbTypes DEF Counts, ApbAssumption
    <3>3. MaxWaitCycles # 0 => waits'[c] <= MaxWaitCycles
      BY <3>1, <3>2
    <3>4. Counts(c)'
      BY <1>3, <3>3 DEF Counts
    <3>5. req'[c].strobe = "part" => HasStrobe /\ req'[c].write
      BY <1>1 DEF Settled, Waiting
    <3>6. Settled(c)'
      BY <1>3, <1>7, <3>5 DEF Settled, Waiting
    <3> QED
      BY <2>2, <3>4, <3>6
  <2> QED
    BY <2>1, <2>2
<1> QED
  BY <1>3, <1>4, <1>6, <1>8, <1>9, <1>10, <1>11

\* Everyone samples the same bus, and the master goes on.
LEMMA RiseStep ==
  ASSUME ApbAssumption, IInv, Rise
  PROVE  IInv'
<1> USE DEF IInv
<1>1. PICK ready \in BOOLEAN, failed \in BOOLEAN, value \in Values \cup {Nobody} :
        /\ clk = "low" /\ clk' = "high"
        /\ ready => bus.select /\ bus.enable
        /\ bus.select /\ bus.enable /\ stall = Stalls => ready
        /\ MasterRises(ready, failed, value)
        /\ MonitorSamples(ready) /\ CheckerSamples(ready)
        /\ stall' = IF bus.select /\ bus.enable /\ ~ready THEN stall + 1 ELSE 0
        /\ Watch(ready, failed, value)
        /\ req' = req /\ budget' = budget
  BY DEF Rise
<1>2. history' \in HistoryType /\ Recorded(ready, failed, value)
  BY <1>1, SampleRecorded
<1>3. Sampled(ready, failed, value)
  BY <1>1, <1>2 DEF Sampled
<1>4. \A d \in Clients : d # Owner => pc[d] \in {"idle", "queued", "gone"}
  BY OneOwner
<1>5. CASE Owner = Nobody
  <2>1. UNCHANGED <<bus, lock, pc, waits, answer>>
    BY <1>1, <1>5 DEF MasterRises
  <2>2. \A d \in Clients : pc[d] \notin {"setup", "access"}
    BY <1>4, <1>5 DEF ApbAssumption
  <2> QED
    BY <1>3, <2>1, <2>2, RiseAsleep
<1>6. CASE Owner # Nobody
  <2>1. PICK c \in Clients : c = Owner
    BY <1>6, OneOwner
  <2>2. CASE /\ pc[c] = "anchor" /\ DeferredWrites
             /\ bus' = Setup(c)
             /\ pc' = [pc EXCEPT ![c] = "setup"]
             /\ UNCHANGED <<lock, waits, answer>>
    BY <1>3, <2>1, <2>2, RiseSetup
  <2>3. CASE /\ pc[c] = "setup"
             /\ bus' = IF DeferredWrites THEN [bus EXCEPT !.enable = TRUE] ELSE bus
             /\ pc' = [pc EXCEPT ![c] = IF DeferredWrites THEN "access" ELSE "turn"]
             /\ UNCHANGED <<lock, waits, answer>>
    <3>1. CASE DeferredWrites
      BY <1>3, <2>1, <2>3, <3>1, RiseEnables
    <3>2. CASE ~DeferredWrites
      BY <1>3, <2>1, <2>3, <3>2, RiseEnables
    <3> QED
      BY <3>1, <3>2
  <2>4. CASE /\ pc[c] = "access" /\ Completion(c, ready, failed) = "none"
             /\ waits' = [waits EXCEPT ![c] = @ + 1]
             /\ UNCHANGED <<bus, lock, pc, answer>>
    <3>1. ~ready /\ ~(MaxWaitCycles # 0 /\ waits[c] + 1 >= MaxWaitCycles)
      BY <2>4 DEF Completion
    <3>2. waits[c] \in Nat /\ MaxWaitCycles \in Nat
      BY ApbTypes DEF ApbAssumption
    <3>3. MaxWaitCycles # 0 => waits[c] + 1 < MaxWaitCycles
      BY <3>1, <3>2
    <3> QED
      BY <1>3, <2>1, <2>4, <3>1, <3>3, RiseWaits
  <2>5. CASE /\ pc[c] = "access" /\ Completion(c, ready, failed) # "none"
             /\ waits' = [waits EXCEPT ![c] = IF ready THEN @ ELSE @ + 1]
             /\ answer' = [answer EXCEPT ![c] =
                   [status |-> Completion(c, ready, failed), waits |-> waits'[c],
                    value |-> IF Completion(c, ready, failed) = "timeout" \/ req[c].write
                              THEN Nobody ELSE value]]
             /\ IF DeferredWrites
                THEN bus' = Idle /\ pc' = Moves(c, "idle") /\ lock' = Released
                ELSE UNCHANGED <<bus, lock>> /\ pc' = [pc EXCEPT ![c] = "drop"]
    <3>1. Completion(c, ready, failed) =
             IF ready THEN IF failed THEN "error" ELSE "okay" ELSE "timeout"
      BY <2>5 DEF Completion
    <3>2. (Completion(c, ready, failed) = "timeout") <=> ~ready
      BY <3>1
    <3>3. Answered(c, ready, failed, value)
      BY <2>5, <3>1, <3>2 DEF Answered
    <3> QED
      BY <1>3, <2>1, <2>5, <3>3, RiseAnswers
  <2>6. CASE /\ pc[c] \notin {"setup", "access"}
             /\ UNCHANGED <<bus, lock, pc, waits, answer>>
    <3>1. \A d \in Clients : pc[d] \notin {"setup", "access"}
      BY <1>4, <2>1, <2>6
    <3> QED
      BY <1>3, <2>6, <3>1, RiseAsleep
  <2> QED
    BY <1>1, <1>6, <2>1, <2>2, <2>3, <2>4, <2>5, <2>6 DEF MasterRises
<1> QED
  BY <1>5, <1>6

-----------------------------------------------------------------------------
(* The theorems                                                            *)

LEMMA ApbStarts ==
  ASSUME ApbAssumption, Init
  PROVE  IInv
<1>1. Nobody \notin Clients /\ {Transfers, Stalls, Cancels, Starts, MaxWaitCycles} \subseteq Nat
  BY DEF ApbAssumption
<1>2. /\ clk = "low" /\ lock = [owner |-> Nobody, queue |-> <<>>]
      /\ pc = [c \in Clients |-> "idle"]
      /\ req = [c \in Clients |-> [write |-> FALSE, strobe |-> "all"]]
      /\ waits = [c \in Clients |-> 0] /\ answer = [c \in Clients |-> Unanswered] /\ stall = 0
      /\ bus = [select |-> FALSE, enable |-> FALSE, write |-> FALSE, address |-> Nobody,
                data |-> Nobody, strobe |-> "none"]
  BY DEF Init
<1>3. /\ \E at \in {"off", "seek"} : monitor = Watching(at)
      /\ \E on \in BOOLEAN : checker = Checking(on, on, FALSE)
      /\ budget = [calls |-> [c \in Clients |-> Transfers], cancels |-> Cancels, starts |-> Starts]
  BY DEF Init
<1>4. history = [served |-> [c \in Clients |-> <<>>], published |-> [c \in Clients |-> <<>>],
                 watched |-> [c \in Clients |-> FALSE], excused |-> FALSE, reports |-> FALSE]
  BY DEF Init
<1>5. TypeOK
  <2>1. clk \in {"low", "high"} /\ stall \in 0..Stalls
        /\ bus \in [select: BOOLEAN, enable: BOOLEAN, write: BOOLEAN, address: Party, data: Party,
                strobe: Strobes]
        /\ lock \in [owner: Party, queue: Seq(Clients)]
    BY <1>1, <1>2 DEF Party, Strobes
  <2>2. pc \in [Clients -> Places] /\ req \in [Clients -> Requests] /\ waits \in [Clients -> Nat]
    BY <1>2 DEF Places, Requests
  <2>3. answer \in [Clients -> Responses]
    BY <1>2 DEF Unanswered, Responses, Statuses, Data
  <2>4. monitor \in [at: {"off", "seek", "access"}, waits: Nat, write: BOOLEAN, address: Party,
                     data: Party, strobe: Strobes]
    BY <1>3 DEF Watching, Party, Strobes
  <2>5. checker \in [on: BOOLEAN, fresh: BOOLEAN, setup: BOOLEAN, waiting: BOOLEAN,
                     write: BOOLEAN, address: Party, data: Party, strobe: Strobes]
    BY <1>3 DEF Checking, Party, Strobes
  <2>6. budget \in [calls: [Clients -> 0..Transfers], cancels: 0..Cancels, starts: 0..Starts]
    BY <1>1, <1>3
  <2>7. history \in [served: [Clients -> Seq(Events)], published: [Clients -> Seq(Observations)],
                     watched: [Clients -> BOOLEAN], excused: BOOLEAN, reports: BOOLEAN]
    <3>1. <<>> \in Seq(Events) /\ <<>> \in Seq(Observations)
      OBVIOUS
    <3> QED
      BY <1>4, <3>1
  <2> QED
    BY <2>1, <2>2, <2>3, <2>4, <2>5, <2>6, <2>7 DEF TypeOK
<1>6. Owner = Nobody /\ lock.queue = <<>> /\ \A c \in Clients : pc[c] = "idle"
  BY <1>2 DEF Owner
<1>7. Locked
  <2>1. DOMAIN <<>> = {} /\ IsInjective(<<>>)
    BY DEF IsInjective
  <2> QED
    BY <1>1, <1>6, <2>1 DEF Locked, Serialised
<1>8. ~bus.select /\ ~bus.enable /\ ~Turning
  BY <1>2, <1>6 DEF Turning
<1>9. Driven
  BY <1>6, <1>8 DEF Driven, OnBus
<1>10. monitor.at # "access" /\ ~checker.waiting
  BY <1>3 DEF Watching, Checking
<1>11. Monitored
  <2>1. Len(<<>>) = 0
    OBVIOUS
  <2> QED
    BY <1>4, <1>6, <1>10, <2>1 DEF Monitored
<1>12. Checked /\ ReportsExcused
  BY <1>4, <1>8, <1>10 DEF Checked, ReportsExcused
<1>13. \A c \in Clients : Counts(c)
  BY <1>1, <1>2 DEF Counts
<1>14. \A c \in Clients : Settled(c)
  BY <1>2, <1>6 DEF Settled, Waiting, Unanswered
<1> QED
  BY <1>5, <1>7, <1>9, <1>11, <1>12, <1>13, <1>14 DEF IInv

\* The inductive invariant: one owner and a queue that forgets nobody (Locked), the owner's request
\* on the bus or what a killed owner left there (Driven), counts that are the device's stalls, a
\* monitor and a checker that hold what is on the bus, and nothing recorded for a call without a
\* response (Settled): for any callers, values, stalls, limits and either write mode.
THEOREM ApbInvariant ==
  ASSUME ApbAssumption
  PROVE  Spec => []IInv
<1>1. Init => IInv
  BY ApbStarts
<1>2. IInv /\ [Next]_vars => IInv'
  <2> SUFFICES ASSUME IInv, [Next]_vars PROVE IInv'
    OBVIOUS
  <2>1. CASE Rise
    BY <2>1, RiseStep
  <2>2. CASE Fall
    BY <2>2, FallStep
  <2>3. CASE StartMonitor
    BY <2>3, StartMonitorStep
  <2>4. CASE StartStopChecker
    BY <2>4, StartStopCheckerStep
  <2>5. ASSUME NEW c \in Clients, Call(c)
        PROVE  IInv'
    BY <2>5, CallStep
  <2>6. ASSUME NEW c \in Clients, Cancel(c)
        PROVE  IInv'
    BY <2>6, CancelStep
  <2>7. CASE UNCHANGED vars
    <3> USE <2>7 DEF vars, IInv
    <3>1. TypeOK'
      BY DEF TypeOK
    <3>2. Locked' /\ Driven' /\ ReportsExcused'
      BY DEF Locked, Serialised, Owner, Driven, Carries, ReportsExcused
    <3>3. Monitored' /\ Checked'
      BY DEF Monitored, Captured, Turning, Checked, Changed
    <3>4. \A c \in Clients : Counts(c)' /\ Settled(c)'
      BY DEF Counts, Settled, ServedAsAnswered, PublishedAsAnswered
    <3> QED
      BY <3>1, <3>2, <3>3, <3>4
  <2> QED
    BY <2>1, <2>2, <2>3, <2>4, <2>5, <2>6, <2>7 DEF Next
<1> QED
  BY <1>1, <1>2, PTL DEF Spec

\* Whoever shares the bus, is killed, stalled or times out: a transfer happens once, its caller and
\* the monitor learn what the device answered (write, read, wait_for_completion, observe_one), and
\* the checker finds no fault without an excuse.
THEOREM ApbTransfersOnce ==
  ASSUME ApbAssumption
  PROVE  Spec => []TransfersOnce
<1>1. IInv => TransfersOnce
  <2> SUFFICES ASSUME IInv PROVE TransfersOnce
    OBVIOUS
  <2>1. TypeOK /\ Serialised /\ ReportsExcused
    BY DEF IInv, Locked
  <2>2. ServedOnce
    BY DEF IInv, ServedOnce, Finished, Settled
  <2>3. ObservedAsAnswered
    BY DEF IInv, ObservedAsAnswered, Finished, Settled, Monitored
  <2> QED
    BY <2>1, <2>2, <2>3 DEF TransfersOnce
<1> QED
  BY <1>1, ApbInvariant, PTL

-----------------------------------------------------------------------------
(* AnalysisPort.                                                           *)

\* The size of a set is the same in AnalysisPort as here.
LEMMA PortSizes ==
  \A S : Port!Cardinality(S) = Cardinality(S)
PROOF BY DEF Port!Cardinality, Cardinality

\* The slots of a port that has handed out the ids below m
SlotOf(m) == [id: 1..m - 1, connected: BOOLEAN]

\* No two slots have one id.
Unique(s) == \A i, j \in DOMAIN s : s[i].id = s[j].id => i = j

\* Nothing is left to erase.
AllConnected(s) == \A i \in DOMAIN s : s[i].connected

\* t is s with the slot of id x disconnected.
Lessened(t, s, x) ==
  /\ DOMAIN t = DOMAIN s
  /\ \A i \in DOMAIN s : /\ t[i].id = s[i].id
                         /\ t[i].connected <=> s[i].connected /\ s[i].id # x

\* The slots and pending of a port: what is left to erase is remembered.
Slotted(s, m, p) ==
  /\ s \in Seq(SlotOf(m)) /\ Unique(s)
  /\ p \in BOOLEAN
  /\ ~p => AllConnected(s)

\* The outcome c of dropping x from s.
Dropped(c, s, m, d, x) ==
  /\ Slotted(c.slots, m, c.pending)
  /\ d = 0 => ~c.pending
  /\ portAlive => Port!Connected(c.slots) = Port!Connected(s) \ {x}
  /\ portAlive /\ d # 0 => Lessened(c.slots, s, x)

\* The members of a sequence.
LEMMA SeqMembers ==
  ASSUME NEW T, NEW s, s \in Seq(T)
  PROVE  /\ DOMAIN s = 1..Len(s) /\ Len(s) \in Nat
         /\ \A i \in DOMAIN s : s[i] \in T
  OBVIOUS

\* Erasing keeps the connected slots, once each.
LEMMA ErasedFacts ==
  ASSUME NEW T, NEW s, s \in Seq(T), NEW e, e = Port!Erased(s),
         Unique(s)
  PROVE  /\ e \in Seq(T)
         /\ \A k \in DOMAIN e : \E i \in DOMAIN s : e[k] = s[i] /\ s[i].connected
         /\ \A i \in DOMAIN s : s[i].connected => \E k \in DOMAIN e : e[k] = s[i]
         /\ Unique(e)
<1> DEFINE K == Port!Kept(s)
           n == Cardinality(K)
           w == [i \in K |-> {j \in K : j < i}]
           place == PlaceIn(w, K)
           source(k) == CHOOSE i \in K : Port!KeptBefore(s, i) = k - 1
<1>1. /\ DOMAIN s = 1..Len(s) /\ Len(s) \in Nat
      /\ \A i \in DOMAIN s : s[i] \in T
  OBVIOUS
<1>2. K \subseteq DOMAIN s /\ K \subseteq Int /\ \A i \in DOMAIN s : i \in K <=> s[i].connected
  BY <1>1 DEF Port!Kept
<1>3. IsFiniteSet(K)
  <2>1. IsFiniteSet(1..Len(s)) /\ K \in SUBSET (1..Len(s))
    BY <1>1, <1>2, FS_Interval
  <2> HIDE DEF K
  <2> QED
    BY <2>1, FS_Subset
<1>4. IsWaitList(w)
  BY <1>2 DEF IsWaitList
<1>5. /\ n \in Nat
      /\ place \in [K -> 0..n - 1]
      /\ \A c, d \in K : c # d => place[c] # place[d]
      /\ \A i \in 0..n - 1 : \E c \in K : place[c] = i
  <2>1. K \in SUBSET DOMAIN w
    OBVIOUS
  <2> HIDE DEF K, w
  <2> QED
    BY ONLY <1>3, <1>4, <2>1, PlaceBijection
<1>6. \A i \in K : place[i] = Port!KeptBefore(s, i)
  <2> SUFFICES ASSUME NEW i \in K PROVE place[i] = Port!KeptBefore(s, i)
    OBVIOUS
  <2>1. w[i] \cap K = {j \in K : j < i}
    OBVIOUS
  <2> QED
    BY <2>1, PortSizes DEF PlaceIn, Port!KeptBefore
<1>7. e = [k \in 1..n |-> s[source(k)]]
  BY PortSizes DEF Port!Erased
<1> HIDE DEF n, place, w
<1>8. ASSUME NEW k \in 1..n
      PROVE  source(k) \in K /\ place[source(k)] = k - 1
  <2>1. PICK c \in K : place[c] = k - 1
    BY <1>5
  <2>2. Port!KeptBefore(s, c) = k - 1
    BY <1>6, <2>1
  <2>3. source(k) \in K /\ Port!KeptBefore(s, source(k)) = k - 1
    BY <2>2
  <2> QED
    BY <1>6, <2>3
<1> HIDE DEF K, source
<1>9. ASSUME NEW i \in K
      PROVE  \E k \in 1..n : source(k) = i
  <2>1. place[i] + 1 \in 1..n /\ (place[i] + 1) - 1 = place[i]
    BY <1>5
  <2>2. source(place[i] + 1) \in K /\ place[source(place[i] + 1)] = place[i]
    BY <1>8, <2>1
  <2>3. source(place[i] + 1) = i
    BY <1>5, <2>2
  <2> QED
    BY <2>1, <2>3
<1>10. ASSUME NEW k \in 1..n, NEW l \in 1..n, source(k) = source(l)
       PROVE  k = l
  <2>1. k - 1 = l - 1
    BY <1>8, <1>10
  <2> QED
    BY <1>5, <2>1
<1>11. DOMAIN e = 1..n /\ \A k \in 1..n : e[k] = s[source(k)]
  BY <1>7
<1>12. e \in Seq(T)
  BY <1>1, <1>2, <1>5, <1>7, <1>8
<1> QED
  BY <1>2, <1>8, <1>9, <1>10, <1>11, <1>12 DEF Unique

\* What compaction does to slots of which none is disconnected unless it is pending.
LEMMA CompactFacts ==
  ASSUME NEW T, NEW s \in Seq(T), NEW d, NEW p \in BOOLEAN,
         Unique(s),
         ~p => AllConnected(s),
         NEW c, c = Port!Compact(s, d, p)
  PROVE  /\ c.slots \in Seq(T) /\ c.pending \in BOOLEAN
         /\ Unique(c.slots)
         /\ ~c.pending => AllConnected(c.slots)
         /\ d = 0 => ~c.pending
         /\ d # 0 => c.slots = s
         /\ Port!Connected(c.slots) = Port!Connected(s)
<1>1. CASE d # 0 \/ ~p
  <2>1. c = [slots |-> s, pending |-> p]
    BY <1>1 DEF Port!Compact
  <2> QED
    BY <1>1, <2>1
<1>2. CASE ~(d # 0 \/ ~p)
  <2>1. c = [slots |-> Port!Erased(s), pending |-> FALSE]
    BY <1>2 DEF Port!Compact
  <2>2. c.slots = Port!Erased(s) /\ c.pending = FALSE /\ d = 0
    BY <1>2, <2>1
  <2>3. PICK e : e = Port!Erased(s)
    OBVIOUS
  <2>4. /\ e \in Seq(T)
        /\ \A k \in DOMAIN e : \E i \in DOMAIN s : e[k] = s[i] /\ s[i].connected
        /\ \A i \in DOMAIN s : s[i].connected => \E k \in DOMAIN e : e[k] = s[i]
        /\ Unique(e)
    <3>1. Unique(s)
      OBVIOUS
    <3>2. s \in Seq(T)
      OBVIOUS
    <3> QED
      BY ONLY <2>3, <3>1, <3>2, ErasedFacts
  <2>5. AllConnected(e)
    BY <2>4 DEF AllConnected
  <2>6. Port!Connected(e) = Port!Connected(s)
    BY <2>4, <2>5 DEF Port!Connected
  <2>7. c.slots = e /\ c.pending = FALSE /\ d = 0
    BY <2>2, <2>3
  <2> QED
    BY ONLY <2>4, <2>5, <2>6, <2>7
<1> QED
  BY <1>1, <1>2

\* compact keeps the connected slots: at depth zero it erases the others, else nothing.
LEMMA CompactKeeps ==
  ASSUME NEW m, NEW s, NEW d, NEW p, Slotted(s, m, p), NEW c, c = Port!Compact(s, d, p)
  PROVE  /\ Slotted(c.slots, m, c.pending)
         /\ d = 0 => ~c.pending
         /\ d # 0 => c.slots = s
         /\ Port!Connected(c.slots) = Port!Connected(s)
<1>1. PICK T : T = SlotOf(m)
  OBVIOUS
<1>2. /\ s \in Seq(T) /\ Unique(s) /\ p \in BOOLEAN /\ (~p => AllConnected(s))
      /\ c = Port!Compact(s, d, p)
  BY <1>1 DEF Slotted
<1>3. /\ c.slots \in Seq(T) /\ c.pending \in BOOLEAN /\ Unique(c.slots)
      /\ ~c.pending => AllConnected(c.slots)
      /\ d = 0 => ~c.pending
      /\ d # 0 => c.slots = s
      /\ Port!Connected(c.slots) = Port!Connected(s)
  BY ONLY <1>2, CompactFacts
<1> QED
  BY <1>1, <1>3 DEF Slotted

\* Disconnecting an id from a port that exists
LEMMA DropFacts ==
  ASSUME NEW m, m \in Nat \ {0}, NEW s, NEW d, NEW p, NEW x,
         Slotted(s, m, p), NEW c, c = Port!Drop(s, d, p, x), d = 0 => ~p
  PROVE  Dropped(c, s, m, d, x)
<1>16. /\ s \in Seq(SlotOf(m)) /\ Unique(s)
      /\ p \in BOOLEAN /\ (~p => AllConnected(s))
  BY DEF Slotted
<1> SUFFICES
      /\ c.slots \in Seq(SlotOf(m)) /\ c.pending \in BOOLEAN
      /\ Unique(c.slots)
      /\ ~c.pending => AllConnected(c.slots)
      /\ d = 0 /\ ~p => ~c.pending
      /\ portAlive => Port!Connected(c.slots) = Port!Connected(s) \ {x}
      /\ portAlive /\ d # 0 => Lessened(c.slots, s, x)
  BY DEF Dropped, Slotted
<1> DEFINE Slot == [id: 1..m - 1, connected: BOOLEAN]
<1>1. s \in Seq(Slot)
  BY <1>16 DEF SlotOf
<1>0. \A i \in DOMAIN s : s[i] \in Slot
  <2> HIDE DEF Slot
  <2> QED
    BY ONLY <1>1, SeqMembers
<1>2. CASE x = 0 \/ ~portAlive
  <2>1. c = [slots |-> s, pending |-> p]
    BY <1>2 DEF Port!Drop
  <2>2. c.slots = s /\ c.pending = p
    BY <2>1
  <2>3. \A i \in DOMAIN s : s[i].id # 0
    BY <1>0
  <2>4. 0 \notin Port!Connected(s)
    BY <2>3 DEF Port!Connected
  <2>5. Port!Connected(s) \ {x} = Port!Connected(s) \/ ~portAlive
    BY <1>2, <2>4
  <2>6. ~(d = 0 /\ ~p) \/ ~c.pending
    BY <2>2
  <2>7. /\ c.slots \in Seq(SlotOf(m)) /\ c.pending \in BOOLEAN /\ Unique(c.slots)
        /\ ~c.pending => AllConnected(c.slots)
        /\ Port!Connected(c.slots) = Port!Connected(s)
    BY <1>16, <2>2
  <2>8. ASSUME portAlive
        PROVE  Lessened(c.slots, s, x)
    <3>1. \A i \in DOMAIN s : s[i].id # x
      BY <1>2, <2>3, <2>8
    <3> QED
      BY <2>2, <3>1 DEF Lessened
  <2> QED
    BY <2>5, <2>6, <2>7, <2>8
<1>3. CASE ~(x = 0 \/ ~portAlive)
  <2> DEFINE marked == [i \in DOMAIN s |-> IF s[i].id = x THEN [s[i] EXCEPT !.connected = FALSE] ELSE s[i]]
             q == p \/ \E i \in DOMAIN s : s[i].id = x
  <2>1. c = Port!Compact(marked, d, q)
    BY <1>3 DEF Port!Drop
  <2>2. /\ DOMAIN marked = DOMAIN s
        /\ \A i \in DOMAIN s : /\ marked[i] \in Slot
                               /\ marked[i].id = s[i].id
                               /\ marked[i].connected <=> s[i].connected /\ s[i].id # x
    BY <1>0
  <2>3. marked \in Seq(Slot)
    <3>1. DOMAIN s = 1..Len(s) /\ Len(s) \in Nat
      BY ONLY <1>1, SeqMembers
    <3> HIDE DEF Slot
    <3> QED
      BY ONLY <2>2, <3>1 DEF marked
  <2>4. ~q => \A i \in DOMAIN s : marked[i].connected
    BY <1>16, <2>2 DEF AllConnected
  <2>5. d = 0 /\ ~p /\ ~q => ~q
    OBVIOUS
  <2> HIDE DEF marked, Slot
  <2>6. PICK t : t = marked
    OBVIOUS
  <2>7. PICK b \in BOOLEAN : b = q
    OBVIOUS
  <2> HIDE DEF q
  <2>8. /\ c = Port!Compact(t, d, b) /\ t \in Seq(Slot)
        /\ DOMAIN t = DOMAIN s
        /\ Unique(t)
        /\ ~b => AllConnected(t)
    BY <1>16, <2>1, <2>2, <2>3, <2>4, <2>6, <2>7 DEF Unique, AllConnected
  <2>9. /\ c.slots \in Seq(Slot) /\ c.pending \in BOOLEAN
        /\ Unique(c.slots)
        /\ ~c.pending => AllConnected(c.slots)
        /\ d = 0 => ~c.pending
        /\ d # 0 => c.slots = t
        /\ Port!Connected(c.slots) = Port!Connected(t)
    BY ONLY <2>8, CompactFacts
  <2>10. Port!Connected(t) = Port!Connected(s) \ {x}
    BY <2>2, <2>6 DEF Port!Connected
  <2> QED
    BY <2>2, <2>6, <2>9, <2>10 DEF Slot, SlotOf, Unique, AllConnected, Lessened
<1> QED
  BY <1>2, <1>3

-----------------------------------------------------------------------------
\* The writes under way on such a port
FrameOf(m) == [limit: Nat, at: Nat \ {0}, calling: BOOLEAN,
               audience: SUBSET (1..m - 1), sent: SUBSET (1..m - 1)]

\* The slots that the write f still has to visit.
Ahead(f, s) == {k \in f.at + (IF f.calling THEN 1 ELSE 0)..f.limit : s[k].connected}

\* Each subscriber the write f is for has been called or is ahead, if it is still connected.
Served(f, s) ==
  /\ f.sent \subseteq f.audience
  /\ f.sent \cap {s[k].id : k \in Ahead(f, s)} = {}
  /\ f.audience \cap Port!Connected(s) = (f.sent \cap Port!Connected(s)) \cup {s[k].id : k \in Ahead(f, s)}

\* A disconnection during a write takes the subscriber out of what it has to visit.
LEMMA ServedDrop ==
  ASSUME NEW m, m \in Nat \ {0}, NEW f, f \in FrameOf(m), NEW s, s \in Seq(SlotOf(m)),
         f.limit <= Len(s), Served(f, s), NEW t, NEW x,
         Lessened(t, s, x)
  PROVE  Served(f, t)
<1>1. /\ f.limit \in Nat /\ f.at \in Nat \ {0} /\ f.calling \in BOOLEAN
      /\ DOMAIN s = 1..Len(s) /\ Len(s) \in Nat
  BY DEF FrameOf
<1>2. PICK a \in Nat \ {0} : a = f.at + (IF f.calling THEN 1 ELSE 0)
  BY <1>1
<1>3. /\ \A k \in a..f.limit : k \in DOMAIN s
      /\ DOMAIN t = DOMAIN s
      /\ \A i \in DOMAIN s : /\ t[i].id = s[i].id
                             /\ t[i].connected <=> s[i].connected /\ s[i].id # x
  BY <1>1 DEF Lessened
<1>4. ASSUME NEW y
      PROVE  /\ y \in Port!Connected(t) <=> y \in Port!Connected(s) /\ y # x
             /\ y \in {t[k].id : k \in Ahead(f, t)} <=> y \in {s[k].id : k \in Ahead(f, s)} /\ y # x
  <2>1. y \in Port!Connected(t) <=> y \in Port!Connected(s) /\ y # x
    BY DEF Port!Connected, Lessened
  <2>2. y \in {t[k].id : k \in Ahead(f, t)} <=> \E k \in a..f.limit : t[k].connected /\ t[k].id = y
    BY <1>2 DEF Ahead
  <2>3. y \in {s[k].id : k \in Ahead(f, s)} <=> \E k \in a..f.limit : s[k].connected /\ s[k].id = y
    BY <1>2 DEF Ahead
  <2>4. (\E k \in a..f.limit : t[k].connected /\ t[k].id = y) <=>
          (\E k \in a..f.limit : s[k].connected /\ s[k].id = y) /\ y # x
    BY <1>3 DEF Lessened
  <2> QED
    BY <2>1, <2>2, <2>3, <2>4
<1> DEFINE S == {s[k].id : k \in Ahead(f, s)}
           T == {t[k].id : k \in Ahead(f, t)}
<1>5. /\ f.sent \subseteq f.audience
      /\ f.sent \cap S = {}
      /\ f.audience \cap Port!Connected(s) = (f.sent \cap Port!Connected(s)) \cup S
  BY DEF Served
<1>6. \A y : /\ y \in Port!Connected(t) <=> y \in Port!Connected(s) /\ y # x
             /\ y \in T <=> y \in S /\ y # x
  BY <1>4
<1>7. /\ f.audience \cap Port!Connected(t) = (f.sent \cap Port!Connected(t)) \cup T
      /\ f.sent \cap T = {}
  <2> HIDE DEF S, T
  <2> QED
    BY <1>5, <1>6
<1> QED
  BY <1>5, <1>7 DEF Served

\* A subscriber that connects during a write is not one the write is for.
LEMMA ServedConnect ==
  ASSUME NEW m, m \in Nat \ {0}, NEW f, f \in FrameOf(m), NEW s, s \in Seq(SlotOf(m)),
         f.limit <= Len(s), Served(f, s),
         NEW t, t = Append(s, [id |-> m, connected |-> TRUE])
  PROVE  Served(f, t)
<1>1. /\ f.limit \in Nat /\ f.at \in Nat \ {0} /\ f.calling \in BOOLEAN
      /\ f.audience \subseteq 1..m - 1
      /\ DOMAIN s = 1..Len(s) /\ Len(s) \in Nat
  BY DEF FrameOf
<1>2. PICK a \in Nat \ {0} : a = f.at + (IF f.calling THEN 1 ELSE 0)
  BY <1>1
<1>3. /\ DOMAIN t = 1..Len(s) + 1
      /\ \A i \in DOMAIN s : t[i] = s[i]
      /\ t[Len(s) + 1] = [id |-> m, connected |-> TRUE]
  OBVIOUS
<1>4. \A k \in a..f.limit : k \in DOMAIN s /\ t[k] = s[k]
  BY <1>1, <1>3
<1>5. \A y : y \in Port!Connected(t) <=> y \in Port!Connected(s) \/ y = m
  <2> SUFFICES ASSUME NEW y PROVE y \in Port!Connected(t) <=> y \in Port!Connected(s) \/ y = m
    OBVIOUS
  <2>1. t[Len(s) + 1].id = m /\ t[Len(s) + 1].connected
    BY <1>3
  <2>2. \A i \in DOMAIN t : i \in DOMAIN s \/ i = Len(s) + 1
    BY <1>1, <1>3
  <2>3. DOMAIN s \subseteq DOMAIN t /\ Len(s) + 1 \in DOMAIN t
    BY <1>1, <1>3
  <2>4. (\E i \in DOMAIN t : t[i].connected /\ t[i].id = y) <=>
          (\E i \in DOMAIN s : s[i].connected /\ s[i].id = y) \/ y = m
    BY <1>3, <2>1, <2>2, <2>3
  <2> QED
    BY <2>4 DEF Port!Connected
<1>6. {t[k].id : k \in Ahead(f, t)} = {s[k].id : k \in Ahead(f, s)}
  <2>1. Ahead(f, t) = Ahead(f, s)
    BY <1>2, <1>4 DEF Ahead
  <2>2. \A k \in Ahead(f, s) : t[k].id = s[k].id
    BY <1>2, <1>4 DEF Ahead
  <2> QED
    BY <2>1, <2>2
<1>7. m \notin f.audience /\ f.sent \subseteq f.audience
  BY <1>1 DEF Served
<1>8. /\ f.audience \cap Port!Connected(t) = f.audience \cap Port!Connected(s)
      /\ f.sent \cap Port!Connected(t) = f.sent \cap Port!Connected(s)
  BY <1>5, <1>7
<1> QED
  BY <1>6, <1>8 DEF Served

\* AudienceServed, one write at a time.
LEMMA AudienceIs ==
  /\ Port!AudienceServed <=> \A i \in DOMAIN frames : Served(frames[i], slots)
  /\ Port!AudienceServed' <=> \A i \in DOMAIN frames' : Served(frames'[i], slots')
BY DEF Port!AudienceServed, Served, Ahead

\* An id that is handed out once stays one.
LEMMA TypesGrow ==
  ASSUME NEW m \in Nat \ {0}, NEW n \in Nat \ {0}, m <= n
  PROVE  /\ SlotOf(m) \subseteq SlotOf(n)
         /\ FrameOf(m) \subseteq FrameOf(n)
<1>1. 1..m - 1 \subseteq 1..n - 1
  OBVIOUS
<1>2. FrameOf(m) \subseteq FrameOf(n)
  <2> DEFINE A == SUBSET (1..m - 1)
             B == SUBSET (1..n - 1)
  <2>1. A \subseteq B
    BY <1>1
  <2> HIDE DEF A, B
  <2>2. [limit: Nat, at: Nat \ {0}, calling: BOOLEAN, audience: A, sent: A] \subseteq
          [limit: Nat, at: Nat \ {0}, calling: BOOLEAN, audience: B, sent: B]
    BY <2>1
  <2> QED
    BY <2>2 DEF FrameOf, A, B
<1> QED
  BY <1>1, <1>2 DEF SlotOf

\* A sequence over a set is one over a larger set.
LEMMA SeqGrow ==
  ASSUME NEW S, NEW T, S \subseteq T, NEW s, s \in Seq(S)
  PROVE  s \in Seq(T)
  OBVIOUS

\* The slots and the connections change, while the writes under way stay.
LEMMA SlotsChange ==
  ASSUME Port!IInv, UNCHANGED <<depth, portAlive, frames, portBudget>>,
         next_id' \in Nat \ {0}, next_id <= next_id',
         slots' \in Seq(SlotOf(next_id')),
         Unique(slots'),
         compacting' \in BOOLEAN,
         ~compacting' => AllConnected(slots'),
         frames = <<>> => ~compacting',
         handle' \in [Handles -> 0..next_id' - 1],
         \A g, h \in Handles : handle'[g] = handle'[h] => g = h \/ handle'[g] = 0,
         portAlive => Port!Connected(slots') = {handle'[h] : h \in Handles} \ {0},
         frames # <<>> => Len(slots) <= Len(slots')
                          /\ \A i \in DOMAIN frames : Served(frames[i], slots')
  PROVE  Port!IInv'
<1>1. /\ slots \in Seq(SlotOf(next_id)) /\ next_id \in Nat \ {0}
      /\ frames \in Seq(FrameOf(next_id))
      /\ depth \in 0..Depth /\ portBudget \in 0..Writes /\ portAlive \in BOOLEAN
      /\ \A i \in DOMAIN frames : frames[i].limit <= Len(slots)
      /\ depth = Len(frames)
      /\ \A i \in DOMAIN frames : i < Len(frames) => frames[i].calling
      /\ frames # <<>> => portAlive
  BY DEF Port!IInv, Port!TypeOK, Port!InBounds, Port!Compacted, Port!Nested, SlotOf, FrameOf,
     Port!Slots, Port!Frames
<1>2. frames' \in Seq(FrameOf(next_id'))
  <2>1. FrameOf(next_id) \subseteq FrameOf(next_id')
    BY <1>1, TypesGrow
  <2> QED
    BY <1>1, <2>1, SeqGrow
<1>3. Port!TypeOK'
  <2>1. slots' \in Seq(Port!Slots')
    BY DEF Port!Slots, SlotOf
  <2>2. frames' \in Seq(Port!Frames')
    BY <1>2 DEF Port!Frames, FrameOf
  <2>3. {compacting', portAlive'} \subseteq BOOLEAN
    BY <1>1
  <2>4. depth' \in 0..Depth /\ portBudget' \in 0..Writes
    BY <1>1
  <2> QED
    BY <2>1, <2>2, <2>3, <2>4 DEF Port!TypeOK, Unique
<1>4. Port!InBounds'
  <2> SUFFICES ASSUME NEW i \in DOMAIN frames' PROVE frames'[i].limit <= Len(slots')
    BY DEF Port!InBounds
  <2>1. frames[i].limit <= Len(slots) /\ frames[i] \in FrameOf(next_id) /\ frames # <<>>
    BY <1>1, SeqMembers
  <2>2. frames[i].limit \in Nat
    BY <2>1 DEF FrameOf
  <2>3. Len(slots) \in Nat /\ Len(slots') \in Nat
    BY <1>1
  <2> QED
    BY <2>1, <2>2, <2>3
<1>5. Port!HeldExactly'
  BY DEF Port!HeldExactly
<1>6. Port!AudienceServed'
  <2>1. \A i \in DOMAIN frames' : Served(frames'[i], slots')
    <3>1. CASE frames = <<>>
      BY <3>1
    <3>2. CASE frames # <<>>
      BY <3>2
    <3> QED
      BY <3>1, <3>2
  <2> QED
    BY <2>1, AudienceIs
<1>7. Port!Compacted'
  BY <1>1 DEF Port!Compacted, AllConnected
<1>8. Port!Nested'
  BY <1>1 DEF Port!Nested, AllConnected
<1> QED
  BY <1>3, <1>4, <1>5, <1>6, <1>7, <1>8 DEF Port!IInv

\* The writes under way change, while the slots and the connections stay.
LEMMA FramesChange ==
  ASSUME Port!IInv, UNCHANGED <<slots, next_id, compacting, handle, portAlive>>, portAlive,
         frames' \in Seq(FrameOf(next_id)), frames' # <<>>,
         depth' = Len(frames'), depth' \in 0..Depth, portBudget' \in 0..Writes,
         \A i \in DOMAIN frames' : /\ frames'[i].limit <= Len(slots)
                                   /\ Served(frames'[i], slots)
                                   /\ i < Len(frames') => frames'[i].calling
  PROVE  Port!IInv'
<1>1. Port!TypeOK'
  BY DEF Port!IInv, Port!TypeOK, Port!Slots, Port!Frames, FrameOf
<1>2. Port!InBounds'
  BY DEF Port!InBounds
<1>3. Port!HeldExactly'
  BY DEF Port!IInv, Port!HeldExactly
<1>4. Port!AudienceServed'
  BY AudienceIs
<1>5. Port!Compacted'
  BY DEF Port!Compacted
<1>6. Port!Nested'
  BY DEF Port!IInv, Port!Nested
<1> QED
  BY <1>1, <1>2, <1>3, <1>4, <1>5, <1>6 DEF Port!IInv

\* What IInv says, as the steps use it.
LEMMA PortFacts ==
  ASSUME Port!IInv
  PROVE  /\ slots \in Seq(SlotOf(next_id)) /\ next_id \in Nat \ {0}
         /\ frames \in Seq(FrameOf(next_id))
         /\ depth \in 0..Depth /\ portBudget \in 0..Writes
         /\ portAlive \in BOOLEAN /\ compacting \in BOOLEAN
         /\ Unique(slots)
         /\ handle \in [Handles -> 0..next_id - 1]
         /\ \A g, h \in Handles : handle[g] = handle[h] => g = h \/ handle[g] = 0
         /\ portAlive => Port!Connected(slots) = {handle[h] : h \in Handles} \ {0}
         /\ ~compacting => AllConnected(slots)
         /\ frames = <<>> => ~compacting
         /\ depth = Len(frames)
         /\ \A i \in DOMAIN frames : /\ frames[i].limit <= Len(slots)
                                     /\ Served(frames[i], slots)
                                     /\ i < Len(frames) => frames[i].calling
         /\ frames # <<>> => portAlive
<1>1. \A i \in DOMAIN frames : Served(frames[i], slots)
  BY AudienceIs DEF Port!IInv
<1> QED
  BY <1>1 DEF Port!IInv, Port!TypeOK, Port!InBounds, Port!HeldExactly, Port!Compacted,
     Port!Nested, SlotOf, FrameOf, Port!Slots, Port!Frames, Unique, AllConnected

\* What it does to a write under way.
LEMMA DropServes ==
  ASSUME NEW m, m \in Nat \ {0}, NEW s, s \in Seq(SlotOf(m)), NEW t, t \in Seq(SlotOf(m)),
         NEW x, Lessened(t, s, x)
  PROVE  /\ Len(t) = Len(s)
         /\ \A f \in FrameOf(m) : f.limit <= Len(s) /\ Served(f, s) => Served(f, t)
<1>1. Len(s) \in Nat /\ DOMAIN s = 1..Len(s) /\ Len(t) \in Nat /\ DOMAIN t = 1..Len(t)
  BY SeqMembers
<1>2. Len(t) = Len(s)
  BY <1>1 DEF Lessened
<1>3. ASSUME NEW f \in FrameOf(m), f.limit <= Len(s), Served(f, s)
      PROVE  Served(f, t)
  <2>1. m \in Nat \ {0} /\ s \in Seq(SlotOf(m)) /\ f \in FrameOf(m) /\ Lessened(t, s, x)
    OBVIOUS
  <2> QED
    BY ONLY <1>3, <2>1, ServedDrop
<1> QED
  BY <1>2, <1>3

\* A subscriber connects, and the connection it had is dropped.
LEMMA ConnectStep ==
  ASSUME Port!IInv, NEW h \in Handles, Port!Connect(h)
  PROVE  Port!IInv'
<1>1. PICK s : s = Append(slots, [id |-> next_id, connected |-> TRUE])
  OBVIOUS
<1>2. PICK c : c = Port!Drop(s, depth, compacting, handle[h])
  OBVIOUS
<1>3. /\ portAlive /\ slots' = c.slots /\ compacting' = c.pending
      /\ next_id' = next_id + 1
      /\ handle' = [handle EXCEPT ![h] = next_id]
      /\ UNCHANGED <<depth, portAlive, frames, portBudget>>
  BY <1>1, <1>2 DEF Port!Connect
<1> DEFINE m == next_id + 1
<1>4. /\ slots \in Seq(SlotOf(next_id)) /\ next_id \in Nat \ {0} /\ m \in Nat \ {0}
      /\ SlotOf(next_id) \subseteq SlotOf(m) /\ FrameOf(next_id) \subseteq FrameOf(m)
  BY PortFacts, TypesGrow
<1>5. /\ s \in Seq(SlotOf(m))
      /\ DOMAIN slots = 1..Len(slots) /\ DOMAIN s = 1..Len(slots) + 1 /\ Len(s) = Len(slots) + 1
      /\ \A i \in DOMAIN slots : s[i] = slots[i] /\ s[i].id \in 1..next_id - 1
      /\ s[Len(slots) + 1].id = next_id /\ s[Len(slots) + 1].connected
  <2>1. [id |-> next_id, connected |-> TRUE] \in SlotOf(m)
    BY <1>4 DEF SlotOf
  <2>2. slots \in Seq(SlotOf(m))
    BY <1>4, SeqGrow
  <2>3. \A i \in DOMAIN slots : slots[i].id \in 1..next_id - 1
    <3>1. \A i \in DOMAIN slots : slots[i] \in SlotOf(next_id)
      BY <1>4, SeqMembers
    <3> QED
      BY <3>1 DEF SlotOf
  <2> HIDE DEF m
  <2> QED
    BY <1>1, <1>4, <2>1, <2>2, <2>3
<1>6. Unique(s)
  <2>1. \A i \in DOMAIN s : i \in DOMAIN slots \/ i = Len(slots) + 1
    BY <1>5
  <2>2. \A i \in DOMAIN slots : s[i].id # next_id
    BY <1>4, <1>5
  <2> QED
    BY <1>5, <2>1, <2>2, PortFacts DEF Unique
<1>7. ~compacting => AllConnected(s)
  <2>1. \A i \in DOMAIN s : i \in DOMAIN slots \/ i = Len(slots) + 1
    BY <1>5
  <2> QED
    BY <1>5, <2>1, PortFacts DEF AllConnected
<1>8. Port!Connected(s) = Port!Connected(slots) \cup {next_id}
  <2>1. \A i \in DOMAIN s : i \in DOMAIN slots \/ i = Len(slots) + 1
    BY <1>5
  <2>2. DOMAIN slots \subseteq DOMAIN s /\ Len(slots) + 1 \in DOMAIN s
    BY <1>4, <1>5
  <2> QED
    BY <1>5, <2>1, <2>2 DEF Port!Connected
<1>9. /\ depth = 0 => ~compacting
      /\ frames # <<>> => depth # 0
      /\ frames = <<>> => depth = 0
      /\ compacting \in BOOLEAN
  BY PortFacts
<1> HIDE DEF m
<1>10. Dropped(c, s, m, depth, handle[h])
  BY <1>2, <1>4, <1>5, <1>6, <1>7, <1>9, DropFacts DEF Slotted
<1>11. /\ handle' \in [Handles -> 0..next_id' - 1]
       /\ \A g, k \in Handles : handle'[g] = handle'[k] => g = k \/ handle'[g] = 0
  <2>1. \A g \in Handles : handle[g] \in 0..next_id - 1 /\ handle[g] # next_id
    BY PortFacts
  <2>2. \A g \in Handles : handle'[g] = IF g = h THEN next_id ELSE handle[g]
    BY <1>3, PortFacts
  <2>3. \A g \in Handles : handle'[g] \in 0..next_id' - 1
    BY <1>3, <1>4, <2>1, <2>2
  <2> QED
    BY <1>3, <2>1, <2>2, <2>3, PortFacts
<1>12. Port!Connected(slots') = {handle'[g] : g \in Handles} \ {0}
  <2>1. Port!Connected(slots') = (({handle[g] : g \in Handles} \ {0}) \cup {next_id}) \ {handle[h]}
    BY <1>3, <1>8, <1>10, PortFacts DEF Dropped
  <2>2. /\ \A g \in Handles : handle'[g] = IF g = h THEN next_id ELSE handle[g]
        /\ \A g \in Handles : handle[g] # next_id
        /\ next_id # 0
        /\ \A g \in Handles : handle[g] = handle[h] => g = h \/ handle[g] = 0
    BY <1>3, PortFacts
  <2> QED
    BY <2>1, <2>2
<1>13. ASSUME frames # <<>>
       PROVE  /\ Len(slots) <= Len(slots')
              /\ \A i \in DOMAIN frames : Served(frames[i], slots')
  <2> DEFINE x == handle[h]
  <2>3. /\ m \in Nat \ {0} /\ s \in Seq(SlotOf(m)) /\ slots' \in Seq(SlotOf(m))
        /\ Lessened(slots', s, x)
    BY <1>3, <1>4, <1>5, <1>9, <1>10, <1>13 DEF Dropped, Slotted
  <2> HIDE DEF x
  <2>4. /\ Len(slots') = Len(s)
        /\ \A f \in FrameOf(m) : f.limit <= Len(s) /\ Served(f, s) => Served(f, slots')
    BY <2>3, DropServes
  <2>1. Len(slots') = Len(slots) + 1 /\ Len(slots) \in Nat
    BY <1>4, <1>5, <2>4
  <2>2. ASSUME NEW i \in DOMAIN frames
        PROVE  Served(frames[i], slots')
    <3>1. PICK f : f = frames[i]
      OBVIOUS
    <3>2. /\ f \in FrameOf(next_id) /\ f.limit <= Len(slots) /\ Served(f, slots)
          /\ f.limit \in Nat /\ f \in FrameOf(m)
      <4>1. f \in FrameOf(next_id)
        BY <3>1, PortFacts, SeqMembers
      <4> QED
        BY <1>4, <3>1, <4>1, PortFacts DEF FrameOf
    <3>3. Served(f, s)
      BY <1>1, <1>4, <3>2, ServedConnect
    <3>4. f.limit <= Len(s)
      BY <1>5, <2>1, <3>2
    <3>5. Served(f, slots')
      BY <2>4, <3>2, <3>3, <3>4
    <3> QED
      BY <3>1, <3>5
  <2> QED
    BY <2>1, <2>2
<1>14. /\ next_id' \in Nat \ {0} /\ next_id <= next_id'
       /\ slots' \in Seq(SlotOf(next_id'))
       /\ Unique(slots')
       /\ compacting' \in BOOLEAN
       /\ ~compacting' => AllConnected(slots')
       /\ frames = <<>> => ~compacting'
  BY <1>3, <1>4, <1>9, <1>10 DEF m, Dropped, Slotted
<1> QED
  BY <1>3, <1>11, <1>12, <1>13, <1>14, SlotsChange

\* A connection lets go of its subscriber.
LEMMA LetGo ==
  ASSUME Port!IInv, NEW h \in Handles, NEW c, c = Port!Drop(slots, depth, compacting, handle[h]),
         slots' = c.slots, compacting' = c.pending,
         UNCHANGED <<next_id, depth, portAlive, frames, portBudget>>,
         handle' \in [Handles -> 0..next_id - 1],
         \A g, k \in Handles : handle'[g] = handle'[k] => g = k \/ handle'[g] = 0,
         {handle'[g] : g \in Handles} \ {0} = ({handle[g] : g \in Handles} \ {0}) \ {handle[h]}
  PROVE  Port!IInv'
<1> DEFINE x == handle[h]
<1>1. /\ next_id \in Nat \ {0}
      /\ Slotted(slots, next_id, compacting)
      /\ depth = 0 => ~compacting
      /\ c = Port!Drop(slots, depth, compacting, x)
      /\ frames # <<>> => portAlive /\ depth # 0
      /\ frames = <<>> => depth = 0
      /\ portAlive => Port!Connected(slots) = {handle[g] : g \in Handles} \ {0}
  BY PortFacts DEF Slotted
<1> HIDE DEF x
<1>2. Dropped(c, slots, next_id, depth, x)
  BY <1>1, DropFacts
<1>3. /\ slots' \in Seq(SlotOf(next_id)) /\ Unique(slots')
      /\ compacting' \in BOOLEAN
      /\ ~compacting' => AllConnected(slots')
      /\ depth = 0 => ~compacting'
      /\ portAlive => Port!Connected(slots') = Port!Connected(slots) \ {x}
      /\ portAlive /\ depth # 0 => Lessened(slots', slots, x)
  BY <1>2 DEF Dropped, Slotted
<1>4. portAlive => Port!Connected(slots') = {handle'[g] : g \in Handles} \ {0}
  BY <1>1, <1>3 DEF x
<1>5. ASSUME frames # <<>>
      PROVE  /\ Len(slots) <= Len(slots')
             /\ \A i \in DOMAIN frames : Served(frames[i], slots')
  <2>1. slots \in Seq(SlotOf(next_id)) /\ Lessened(slots', slots, x)
    BY <1>1, <1>3, <1>5 DEF Slotted
  <2>2. /\ Len(slots') = Len(slots)
        /\ \A f \in FrameOf(next_id) : f.limit <= Len(slots) /\ Served(f, slots) => Served(f, slots')
    BY <1>1, <1>3, <2>1, DropServes
  <2>3. Len(slots) \in Nat
    BY <2>1
  <2>4. \A i \in DOMAIN frames : /\ frames[i] \in FrameOf(next_id)
                                 /\ frames[i].limit <= Len(slots)
                                 /\ Served(frames[i], slots)
    <3>1. \A i \in DOMAIN frames : frames[i] \in FrameOf(next_id)
      BY PortFacts, SeqMembers
    <3> QED
      BY <3>1, PortFacts
  <2> QED
    BY <2>2, <2>3, <2>4
<1>6. next_id' = next_id /\ next_id <= next_id' /\ (frames = <<>> => ~compacting')
  BY <1>1, <1>3
<1> QED
  BY <1>1, <1>3, <1>4, <1>5, <1>6, SlotsChange

\* h.disconnect(), or its destructor
LEMMA DisconnectStep ==
  ASSUME Port!IInv, NEW h \in Handles, Port!Disconnect(h)
  PROVE  Port!IInv'
<1>1. PICK c : c = Port!Drop(slots, depth, compacting, handle[h])
  OBVIOUS
<1>2. /\ slots' = c.slots /\ compacting' = c.pending
      /\ handle' = [handle EXCEPT ![h] = 0]
      /\ UNCHANGED <<next_id, depth, portAlive, frames, portBudget>>
  BY <1>1 DEF Port!Disconnect
<1>3. /\ handle \in [Handles -> 0..next_id - 1] /\ next_id \in Nat \ {0}
      /\ \A g, k \in Handles : handle[g] = handle[k] => g = k \/ handle[g] = 0
  BY PortFacts
<1>4. \A g \in Handles : handle'[g] = IF g = h THEN 0 ELSE handle[g]
  BY <1>2, <1>3
<1>5. /\ handle' \in [Handles -> 0..next_id - 1]
      /\ \A g, k \in Handles : handle'[g] = handle'[k] => g = k \/ handle'[g] = 0
  <2>1. 0 \in 0..next_id - 1
    BY <1>3
  <2> QED
    BY <1>2, <1>3, <1>4, <2>1
<1>6. {handle'[g] : g \in Handles} \ {0} = ({handle[g] : g \in Handles} \ {0}) \ {handle[h]}
  BY <1>3, <1>4
<1> QED
  BY <1>1, <1>2, <1>5, <1>6, LetGo

\* h = std::move(from): what h held is dropped, what from held has a new owner.
LEMMA MoveStep ==
  ASSUME Port!IInv, NEW h \in Handles, NEW from \in Handles, Port!Move(h, from)
  PROVE  Port!IInv'
<1>1. PICK c : c = Port!Drop(slots, depth, compacting, handle[h])
  OBVIOUS
<1>2. /\ slots' = c.slots /\ compacting' = c.pending
      /\ handle' = [handle EXCEPT ![h] = handle[from], ![from] = 0]
      /\ h # from /\ handle[from] # 0
      /\ UNCHANGED <<next_id, depth, portAlive, frames, portBudget>>
  BY <1>1 DEF Port!Move
<1>3. /\ handle \in [Handles -> 0..next_id - 1] /\ next_id \in Nat \ {0}
      /\ \A g, k \in Handles : handle[g] = handle[k] => g = k \/ handle[g] = 0
  BY PortFacts
<1>4. \A g \in Handles : handle'[g] = IF g = from THEN 0 ELSE IF g = h THEN handle[from] ELSE handle[g]
  BY <1>2, <1>3
<1>5. /\ handle' \in [Handles -> 0..next_id - 1]
      /\ \A g, k \in Handles : handle'[g] = handle'[k] => g = k \/ handle'[g] = 0
  <2>1. 0 \in 0..next_id - 1
    BY <1>3
  <2>2. \A g \in Handles : handle'[g] \in 0..next_id - 1
    BY <1>3, <1>4, <2>1
  <2>3. handle' \in [Handles -> 0..next_id - 1]
    BY <1>2, <1>3, <2>2
  <2> QED
    BY <1>2, <1>3, <1>4, <2>3
<1>6. {handle'[g] : g \in Handles} \ {0} = ({handle[g] : g \in Handles} \ {0}) \ {handle[h]}
  <2>1. \A y : (\E g \in Handles : y = handle'[g] /\ y # 0) <=>
               (\E g \in Handles : y = handle[g] /\ y # 0) /\ y # handle[h]
    BY <1>2, <1>3, <1>4
  <2> QED
    BY <2>1
<1> QED
  BY <1>1, <1>2, <1>5, <1>6, LetGo

\* The port is destroyed before its connections.
LEMMA DestroyPortStep ==
  ASSUME Port!IInv, Port!Destroy
  PROVE  Port!IInv'
<1>1. /\ frames = <<>> /\ portAlive' = FALSE /\ slots' = <<>> /\ compacting' = FALSE
      /\ UNCHANGED <<next_id, depth, handle, frames, portBudget>>
  BY DEF Port!Destroy
<1>2. Port!TypeOK'
  <2>1. slots' \in Seq(Port!Slots') /\ DOMAIN slots' = {}
    BY <1>1
  <2> QED
    BY <1>1, <2>1 DEF Port!IInv, Port!TypeOK, Port!Slots, Port!Frames
<1>3. DOMAIN frames' = {} /\ DOMAIN slots' = {}
  BY <1>1
<1>4. Port!InBounds' /\ Port!AudienceServed'
  BY <1>3 DEF Port!InBounds, Port!AudienceServed
<1>5. Port!HeldExactly'
  BY <1>1 DEF Port!IInv, Port!HeldExactly
<1>6. Port!Compacted'
  BY <1>1, <1>3 DEF Port!IInv, Port!Compacted
<1>7. Port!Nested'
  BY <1>1, <1>3 DEF Port!Nested
<1> QED
  BY <1>2, <1>4, <1>5, <1>6, <1>7 DEF Port!IInv

\* A write begins: its audience is who is connected now.
LEMMA WriteStep ==
  ASSUME Port!PortAssumption, Port!IInv, Port!Write
  PROVE  Port!IInv'
<1> DEFINE n == Len(frames)
           f == [limit |-> Len(slots), at |-> 1, calling |-> FALSE,
                 audience |-> Port!Connected(slots), sent |-> {}]
<1>1. /\ portAlive /\ n < Depth /\ portBudget > 0
      /\ frames # <<>> => frames[n].calling
      /\ frames' = Append(frames, f) /\ depth' = depth + 1 /\ portBudget' = portBudget - 1
      /\ UNCHANGED <<slots, next_id, compacting, handle, portAlive>>
  BY DEF Port!Write, Port!Running, Port!Last
<1>2. /\ slots \in Seq(SlotOf(next_id)) /\ frames \in Seq(FrameOf(next_id))
      /\ next_id \in Nat \ {0} /\ depth = n /\ n \in Nat /\ portBudget \in 0..Writes
      /\ Len(slots) \in Nat /\ DOMAIN slots = 1..Len(slots)
      /\ \A i \in DOMAIN slots : slots[i] \in SlotOf(next_id)
      /\ Depth \in Nat /\ Writes \in Nat
  <2>1. \A i \in DOMAIN slots : slots[i] \in SlotOf(next_id)
    BY PortFacts, SeqMembers
  <2> QED
    BY <2>1, PortFacts DEF Port!PortAssumption
<1>3. Port!Connected(slots) \subseteq 1..next_id - 1
  BY <1>2 DEF Port!Connected, SlotOf
<1>4. f \in FrameOf(next_id) /\ f.limit <= Len(slots)
  BY <1>2, <1>3 DEF FrameOf
<1>5. Served(f, slots)
  <2>1. Ahead(f, slots) = {k \in DOMAIN slots : slots[k].connected}
    BY <1>2 DEF Ahead
  <2>2. {slots[k].id : k \in Ahead(f, slots)} = Port!Connected(slots)
    BY <2>1 DEF Port!Connected
  <2> QED
    BY <2>2 DEF Served
<1> HIDE DEF f
<1>6. /\ frames' \in Seq(FrameOf(next_id)) /\ frames' # <<>>
      /\ Len(frames') = n + 1 /\ DOMAIN frames' = 1..n + 1 /\ DOMAIN frames = 1..n
      /\ \A i \in DOMAIN frames : frames'[i] = frames[i]
      /\ frames'[n + 1] = f
  BY <1>1, <1>2, <1>4
<1>7. ASSUME NEW i \in DOMAIN frames'
      PROVE  /\ frames'[i].limit <= Len(slots)
             /\ Served(frames'[i], slots)
             /\ i < Len(frames') => frames'[i].calling
  <2>1. CASE i = n + 1
    BY <1>2, <1>4, <1>5, <1>6, <2>1
  <2>2. CASE i # n + 1
    <3>1. i \in DOMAIN frames /\ frames'[i] = frames[i] /\ (i = n \/ i < n)
      BY <1>2, <1>6, <2>2
    <3>2. frames # <<>>
      BY <3>1
    <3>3. frames[i].calling
      BY <1>1, <3>1, <3>2, PortFacts
    <3> QED
      BY <3>1, <3>3, PortFacts
  <2> QED
    BY <2>1, <2>2
<1>8. depth' = Len(frames') /\ depth' \in 0..Depth /\ portBudget' \in 0..Writes
  BY <1>1, <1>2, <1>6
<1> QED
  BY <1>1, <1>6, <1>7, <1>8, FramesChange

\* The innermost write goes on.
LEMMA TopChange ==
  ASSUME Port!IInv, frames # <<>>, NEW f, f \in FrameOf(next_id),
         f.limit <= Len(slots), Served(f, slots), Port!Replace(f),
         UNCHANGED <<slots, next_id, depth, compacting, handle, portAlive, portBudget>>
  PROVE  Port!IInv'
<1> DEFINE n == Len(frames)
<1>1. /\ frames \in Seq(FrameOf(next_id)) /\ n \in Nat /\ n \in DOMAIN frames /\ DOMAIN frames = 1..n
      /\ depth = n /\ depth \in 0..Depth /\ portBudget \in 0..Writes /\ portAlive
  BY PortFacts
<1>2. /\ frames' \in Seq(FrameOf(next_id)) /\ frames' # <<>> /\ Len(frames') = n
      /\ DOMAIN frames' = DOMAIN frames
      /\ \A i \in DOMAIN frames : frames'[i] = IF i = n THEN f ELSE frames[i]
  BY <1>1 DEF Port!Replace
<1>3. ASSUME NEW i \in DOMAIN frames'
      PROVE  /\ frames'[i].limit <= Len(slots)
             /\ Served(frames'[i], slots)
             /\ i < Len(frames') => frames'[i].calling
  <2>1. CASE i = n
    BY <1>1, <1>2, <2>1
  <2>2. CASE i # n
    BY <1>2, <2>2, PortFacts
  <2> QED
    BY <2>1, <2>2
<1> QED
  BY <1>1, <1>2, <1>3, FramesChange

\* The innermost write
LEMMA TopFacts ==
  ASSUME Port!IInv, frames # <<>>
  PROVE  /\ Port!Top \in FrameOf(next_id) /\ Port!Top = frames[Len(frames)]
         /\ Port!Top.limit <= Len(slots) /\ Served(Port!Top, slots)
         /\ Port!Top.limit \in Nat /\ Port!Top.at \in Nat \ {0} /\ Port!Top.calling \in BOOLEAN
         /\ Len(slots) \in Nat /\ DOMAIN slots = 1..Len(slots)
         /\ \A i \in DOMAIN slots : slots[i] \in SlotOf(next_id)
<1>1. Len(frames) \in DOMAIN frames
  BY PortFacts
<1>2. Port!Top = frames[Len(frames)]
  BY DEF Port!Top, Port!Last
<1>3. Port!Top \in FrameOf(next_id)
  BY <1>1, <1>2, PortFacts, SeqMembers
<1>4. /\ Len(slots) \in Nat /\ DOMAIN slots = 1..Len(slots)
      /\ \A i \in DOMAIN slots : slots[i] \in SlotOf(next_id)
  BY PortFacts, SeqMembers
<1> QED
  BY <1>1, <1>2, <1>3, <1>4, PortFacts DEF FrameOf

\* A turn of the loop calls the slot's subscriber, or passes over it.
LEMMA VisitStep ==
  ASSUME Port!IInv, Port!Visit
  PROVE  Port!IInv'
<1>1. frames # <<>> /\ ~Port!Top.calling
  BY DEF Port!Visit, Port!Running, Port!Top
<1>2. PICK f : f = Port!Top
  OBVIOUS
<1>3. PICK x : x = slots[f.at].id
  OBVIOUS
<1>4. PICK g : g = IF slots[f.at].connected THEN [f EXCEPT !.calling = TRUE, !.sent = @ \cup {x}]
                                            ELSE [f EXCEPT !.at = @ + 1]
  OBVIOUS
<1>5. /\ f.at <= f.limit /\ Port!Replace(g)
      /\ UNCHANGED <<slots, next_id, depth, compacting, handle, portAlive, portBudget>>
  BY <1>2, <1>3, <1>4 DEF Port!Visit
<1>6. /\ f \in FrameOf(next_id) /\ f.limit <= Len(slots) /\ Served(f, slots)
      /\ f.limit \in Nat /\ f.at \in Nat \ {0} /\ f.calling = FALSE
      /\ Len(slots) \in Nat /\ DOMAIN slots = 1..Len(slots)
      /\ \A i \in DOMAIN slots : slots[i] \in SlotOf(next_id)
  BY <1>1, <1>2, TopFacts
<1>7. f.at \in DOMAIN slots /\ x \in 1..next_id - 1
  BY <1>3, <1>5, <1>6 DEF SlotOf
<1>8. /\ f.sent \subseteq f.audience
      /\ f.sent \cap {slots[k].id : k \in Ahead(f, slots)} = {}
      /\ f.audience \cap Port!Connected(slots) =
           (f.sent \cap Port!Connected(slots)) \cup {slots[k].id : k \in Ahead(f, slots)}
  BY <1>6 DEF Served
<1>9. Ahead(f, slots) = {k \in f.at..f.limit : slots[k].connected}
  BY <1>6 DEF Ahead
<1>10. CASE slots[f.at].connected
  <2>1. g = [f EXCEPT !.calling = TRUE, !.sent = @ \cup {x}]
    BY <1>4, <1>10
  <2>2. /\ g \in FrameOf(next_id) /\ g.limit = f.limit /\ g.audience = f.audience
        /\ g.sent = f.sent \cup {x} /\ g.at = f.at /\ g.calling = TRUE
    BY <1>6, <1>7, <2>1 DEF FrameOf
  <2>3. Ahead(g, slots) = {k \in f.at + 1..f.limit : slots[k].connected}
    BY <2>2 DEF Ahead
  <2>4. Ahead(f, slots) = Ahead(g, slots) \cup {f.at}
    BY <1>5, <1>6, <1>9, <1>10, <2>3
  <2>5. {slots[k].id : k \in Ahead(f, slots)} = {slots[k].id : k \in Ahead(g, slots)} \cup {x}
    BY <1>3, <2>4
  <2>6. x \in Port!Connected(slots)
    BY <1>3, <1>7, <1>10 DEF Port!Connected
  <2>7. x \notin {slots[k].id : k \in Ahead(g, slots)}
    <3>1. \A k \in Ahead(g, slots) : k \in DOMAIN slots /\ k # f.at
      BY <1>6, <2>3
    <3> QED
      BY <1>3, <1>7, <3>1, PortFacts DEF Unique
  <2>8. Served(g, slots)
    <3> DEFINE Before == {slots[k].id : k \in Ahead(f, slots)}
               After == {slots[k].id : k \in Ahead(g, slots)}
    <3>1. /\ f.sent \subseteq f.audience /\ f.sent \cap Before = {}
          /\ f.audience \cap Port!Connected(slots) = (f.sent \cap Port!Connected(slots)) \cup Before
          /\ Before = After \cup {x} /\ x \notin After
      BY <1>8, <2>5, <2>7
    <3> HIDE DEF Before, After
    <3>2. /\ g.sent \subseteq g.audience /\ g.sent \cap After = {}
          /\ g.audience \cap Port!Connected(slots) = (g.sent \cap Port!Connected(slots)) \cup After
      BY <2>2, <2>6, <3>1
    <3> QED
      BY <3>2 DEF Served, After
  <2> QED
    BY <1>1, <1>5, <1>6, <2>2, <2>8, TopChange
<1>11. CASE ~slots[f.at].connected
  <2>1. g = [f EXCEPT !.at = @ + 1]
    BY <1>4, <1>11
  <2>2. /\ g \in FrameOf(next_id) /\ g.limit = f.limit /\ g.audience = f.audience
        /\ g.sent = f.sent /\ g.at = f.at + 1 /\ g.calling = FALSE
    BY <1>6, <2>1 DEF FrameOf
  <2>3. Ahead(g, slots) = {k \in f.at + 1..f.limit : slots[k].connected}
    BY <1>6, <2>2 DEF Ahead
  <2>4. Ahead(f, slots) = Ahead(g, slots)
    BY <1>5, <1>6, <1>9, <1>11, <2>3
  <2>5. Served(g, slots)
    BY <1>8, <2>2, <2>4 DEF Served
  <2> QED
    BY <1>1, <1>5, <1>6, <2>2, <2>5, TopChange
<1> QED
  BY <1>10, <1>11

\* The subscriber returns.
LEMMA ReturnStep ==
  ASSUME Port!IInv, Port!Return
  PROVE  Port!IInv'
<1>1. frames # <<>> /\ Port!Top.calling
  BY DEF Port!Return, Port!Running, Port!Top
<1>2. PICK f : f = Port!Top
  OBVIOUS
<1>3. PICK g : g = [f EXCEPT !.calling = FALSE, !.at = @ + 1]
  OBVIOUS
<1>4. /\ Port!Replace(g)
      /\ UNCHANGED <<slots, next_id, depth, compacting, handle, portAlive, portBudget>>
  BY <1>2, <1>3 DEF Port!Return
<1>5. /\ f \in FrameOf(next_id) /\ f.limit <= Len(slots) /\ Served(f, slots)
      /\ f.at \in Nat \ {0} /\ f.calling = TRUE
  BY <1>1, <1>2, TopFacts
<1>6. /\ g \in FrameOf(next_id) /\ g.limit = f.limit /\ g.audience = f.audience
      /\ g.sent = f.sent /\ g.at = f.at + 1 /\ g.calling = FALSE
  <2>1. g.limit = f.limit /\ g.audience = f.audience /\ g.sent = f.sent /\ g.calling = FALSE
    BY <1>3, <1>5 DEF FrameOf
  <2>2. f.at + 1 \in Nat \ {0}
    BY <1>5
  <2>3. g.at = f.at + 1
    BY <1>3, <1>5 DEF FrameOf
  <2>4. g \in FrameOf(next_id)
    BY <1>3, <1>5, <2>2 DEF FrameOf
  <2> QED
    BY <2>1, <2>3, <2>4
<1>7. Ahead(g, slots) = Ahead(f, slots)
  BY <1>5, <1>6 DEF Ahead
<1>8. Served(g, slots)
  BY <1>5, <1>6, <1>7 DEF Served
<1> QED
  BY <1>1, <1>4, <1>5, <1>6, <1>8, TopChange

\* A write ends: with the last one, the disconnected are erased.
LEMMA LeaveStep ==
  ASSUME Port!PortAssumption, Port!IInv, frames # <<>>, Port!Leave
  PROVE  Port!IInv'
<1> DEFINE n == Len(frames)
<1>1. /\ frames' = SubSeq(frames, 1, n - 1) /\ depth' = depth - 1
      /\ Port!Compacts(slots, depth - 1, compacting)
      /\ UNCHANGED <<next_id, handle, portAlive, portBudget>>
  BY DEF Port!Leave, Port!Front
<1>2. /\ frames \in Seq(FrameOf(next_id)) /\ n \in Nat \ {0} /\ DOMAIN frames = 1..n
      /\ depth = n /\ depth \in 0..Depth /\ portBudget \in 0..Writes /\ portAlive
      /\ next_id \in Nat \ {0} /\ Slotted(slots, next_id, compacting)
  BY PortFacts DEF Slotted
<1>3. /\ frames' \in Seq(FrameOf(next_id)) /\ Len(frames') = n - 1
      /\ DOMAIN frames' = 1..n - 1
      /\ \A i \in DOMAIN frames' : i \in DOMAIN frames /\ frames'[i] = frames[i] /\ i < n
  <2>1. n - 1 \in 0..n
    BY <1>2
  <2> QED
    BY <1>1, <1>2, <2>1
<1>4. PICK d : d = depth - 1
  OBVIOUS
<1>5. PICK c : c = Port!Compact(slots, d, compacting)
  OBVIOUS
<1>6. slots' = c.slots /\ compacting' = c.pending
  BY <1>1, <1>4, <1>5 DEF Port!Compacts
<1>7. /\ Slotted(c.slots, next_id, c.pending)
      /\ d = 0 => ~c.pending
      /\ d # 0 => c.slots = slots
      /\ Port!Connected(c.slots) = Port!Connected(slots)
  BY <1>2, <1>5, CompactKeeps
<1>8. frames' = <<>> <=> d = 0
  BY <1>2, <1>3, <1>4
<1>9. /\ slots' \in Seq(SlotOf(next_id)) /\ Unique(slots') /\ compacting' \in BOOLEAN
      /\ ~compacting' => AllConnected(slots')
      /\ frames' = <<>> => ~compacting'
      /\ Port!Connected(slots') = Port!Connected(slots)
  BY <1>6, <1>7, <1>8 DEF Slotted
<1>10. \A i \in DOMAIN frames' : /\ frames'[i].limit <= Len(slots')
                                 /\ Served(frames'[i], slots')
                                 /\ frames'[i].calling
  <2>1. \A i \in DOMAIN frames' : slots' = slots
    BY <1>3, <1>6, <1>7, <1>8
  <2> QED
    BY <1>3, <2>1, PortFacts
<1>11. Port!TypeOK'
  <2>1. depth' \in 0..Depth
    BY <1>1, <1>2 DEF Port!PortAssumption
  <2>2. handle' \in [Handles -> 0..next_id' - 1] /\ next_id' \in Nat \ {0}
    BY <1>1, PortFacts
  <2>3. slots' \in Seq(Port!Slots') /\ frames' \in Seq(Port!Frames')
    BY <1>1, <1>3, <1>9 DEF Port!Slots, Port!Frames, SlotOf, FrameOf
  <2> QED
    BY <1>1, <1>2, <1>9, <2>1, <2>2, <2>3, PortFacts DEF Port!TypeOK, Unique
<1>12. Port!InBounds'
  BY <1>10 DEF Port!InBounds
<1>13. Port!HeldExactly'
  BY <1>1, <1>9, PortFacts DEF Port!HeldExactly
<1>14. Port!AudienceServed'
  BY <1>10, AudienceIs
<1>15. Port!Compacted'
  BY <1>1, <1>2, <1>3, <1>9 DEF Port!Compacted, AllConnected
<1>16. Port!Nested'
  BY <1>1, <1>2, <1>9, <1>10 DEF Port!Nested, AllConnected
<1> QED
  BY <1>11, <1>12, <1>13, <1>14, <1>15, <1>16 DEF Port!IInv

\* A new port
LEMMA PortInit ==
  ASSUME Port!PortAssumption, Port!Init
  PROVE  Port!IInv
<1>1. /\ slots = <<>> /\ next_id = 1 /\ depth = 0 /\ compacting = FALSE
      /\ handle = [h \in Handles |-> 0] /\ portAlive = TRUE /\ frames = <<>> /\ portBudget = Writes
      /\ DOMAIN slots = {} /\ DOMAIN frames = {} /\ Len(frames) = 0
  BY DEF Port!Init
<1>2. Port!TypeOK
  <2>1. slots \in Seq(Port!Slots) /\ frames \in Seq(Port!Frames)
    BY <1>1
  <2>2. handle \in [Handles -> 0..next_id - 1]
    BY <1>1
  <2>3. depth \in 0..Depth /\ portBudget \in 0..Writes
    BY <1>1 DEF Port!PortAssumption
  <2>4. /\ \A i, j \in DOMAIN slots : slots[i].id = slots[j].id => i = j
        /\ next_id \in Nat \ {0} /\ {compacting, portAlive} \subseteq BOOLEAN
    <3>1. DOMAIN slots = {}
      BY ONLY <1>1
    <3>2. \A i, j \in DOMAIN slots : slots[i].id = slots[j].id => i = j
      BY ONLY <3>1
    <3>3. next_id \in Nat \ {0}
      BY ONLY <1>1
    <3>4. {compacting, portAlive} \subseteq BOOLEAN
      BY ONLY <1>1
    <3> QED
      BY <3>2, <3>3, <3>4
  <2> QED
    BY ONLY <2>1, <2>2, <2>3, <2>4 DEF Port!TypeOK
<1>3. Port!InBounds /\ Port!AudienceServed
  BY <1>1 DEF Port!InBounds, Port!AudienceServed
<1>4. Port!HeldExactly
  BY <1>1 DEF Port!HeldExactly, Port!Connected
<1>5. Port!Compacted /\ Port!Nested
  BY <1>1 DEF Port!Compacted, Port!Nested
<1> QED
  BY <1>2, <1>3, <1>4, <1>5 DEF Port!IInv

\* No call and no turn of a loop breaks the invariant.
LEMMA PortNext ==
  ASSUME Port!PortAssumption, Port!IInv, [Port!Next]_Port!vars
  PROVE  Port!IInv'
<1>1. CASE UNCHANGED Port!vars
  <2>1. UNCHANGED <<slots, next_id, depth, compacting, handle, portAlive, frames, portBudget>>
    BY <1>1 DEF Port!vars
  <2>2. next_id <= next_id' /\ (frames # <<>> => Len(slots) <= Len(slots'))
    BY <2>1, PortFacts
  <2> QED
    BY <2>1, <2>2, PortFacts, SlotsChange
<1>2. ASSUME NEW h \in Handles, Port!Connect(h) PROVE Port!IInv'
  BY <1>2, ConnectStep
<1>3. ASSUME NEW h \in Handles, Port!Disconnect(h) PROVE Port!IInv'
  BY <1>3, DisconnectStep
<1>4. ASSUME NEW h \in Handles, NEW from \in Handles, Port!Move(h, from) PROVE Port!IInv'
  BY <1>4, MoveStep
<1>5. CASE Port!Destroy
  BY <1>5, DestroyPortStep
<1>6. CASE Port!Write
  BY <1>6, WriteStep
<1>7. CASE Port!Visit
  BY <1>7, VisitStep
<1>8. CASE Port!Return
  BY <1>8, ReturnStep
<1>9. CASE Port!Finish
  <2>1. frames # <<>> /\ Port!Leave
    BY <1>9 DEF Port!Finish, Port!Running
  <2> QED
    BY <2>1, LeaveStep
<1>10. CASE Port!Throw
  <2>1. frames # <<>> /\ Port!Leave
    BY <1>10 DEF Port!Throw
  <2> QED
    BY <2>1, LeaveStep
<1> QED
  BY <1>1, <1>2, <1>3, <1>4, <1>5, <1>6, <1>7, <1>8, <1>9, <1>10 DEF Port!Next

\* The invariant of an analysis port and its connections.
THEOREM PortInvariant ==
  ASSUME Port!PortAssumption
  PROVE  Port!Spec => []Port!IInv
<1>1. Port!Init => Port!IInv
  BY PortInit
<1>2. Port!IInv /\ [Port!Next]_Port!vars => Port!IInv'
  BY PortNext
<1> QED
  BY <1>1, <1>2, PTL DEF Port!Spec

\* Through every nesting of writes, connections, moves and disconnections a subscriber is called
\* only while a Connection holds it, a write calls each of those it is for that stay connected and
\* nobody else, its index stays inside the slots, and the last write erases what was disconnected.
THEOREM PortServesAudience ==
  ASSUME Port!PortAssumption
  PROVE  Port!Spec => [](Port!InBounds /\ Port!HeldExactly /\ Port!AudienceServed /\ Port!Compacted)
<1>1. Port!IInv => Port!InBounds /\ Port!HeldExactly /\ Port!AudienceServed /\ Port!Compacted
  BY DEF Port!IInv
<1> QED
  BY <1>1, PortInvariant, PTL

-----------------------------------------------------------------------------
(* TransactionRecorder.                                                    *)

\* The records of the streams named N
RecordsOf(N) == [stream: N, sequence: Nat]

\* The queue of sinks is a queue as above.
LEMMA SinkAdded ==
  ASSUME NEW T, NEW q, q \in Seq(T), Recorder!IsInjective(q), NEW x, x \in T, ~Recorder!Contains(q, x),
         NEW r, r = Append(q, x)
  PROVE  r \in Seq(T) /\ Recorder!IsInjective(r)
<1>1. IsInjective(q) /\ ~Holds(q, x)
  <2>1. DOMAIN q = 1..Len(q)
    OBVIOUS
  <2> QED
    BY <2>1 DEF Recorder!IsInjective, IsInjective, Recorder!Contains, Holds
<1>2. r \in Seq(T) /\ IsInjective(r)
  BY ONLY q \in Seq(T), x \in T, r = Append(q, x), <1>1, AddedOne
<1> QED
  BY <1>2 DEF Recorder!IsInjective, IsInjective

LEMMA SinkRemoved ==
  ASSUME NEW T, NEW q, q \in Seq(T), Recorder!IsInjective(q), NEW i, i \in DOMAIN q,
         NEW r, r = Recorder!RemoveAt(q, i)
  PROVE  r \in Seq(T) /\ Recorder!IsInjective(r)
<1>1. IsInjective(q) /\ r = RemoveAt(q, i)
  BY DEF Recorder!IsInjective, IsInjective, Recorder!RemoveAt, RemoveAt
<1>2. r \in Seq(T) /\ IsInjective(r)
  BY ONLY q \in Seq(T), i \in DOMAIN q, <1>1, RemovedOne
<1> QED
  BY <1>2 DEF Recorder!IsInjective, IsInjective

\* What the invariant says, as the steps use it.
LEMMA RecorderFacts ==
  ASSUME Recorder!IInv
  PROVE  /\ DOMAIN streams \subseteq Names /\ \A n \in DOMAIN streams : streams[n] \in 0..Publications
         /\ output \in Seq(Recorder!Sinks) /\ Recorder!IsInjective(output)
         /\ kept \in [Recorder!Sinks -> Seq(RecordsOf(DOMAIN streams))]
         /\ file \in [Files -> {"good", "bad", "final"}]
         /\ written \in [Files -> 0..Publications] /\ torn \in [Files -> BOOLEAN]
         /\ constant \subseteq Recorder!Sinks
         /\ recorderBudget \in [publications: 0..Publications, connections: 0..Reconnects]
         /\ \A n \in DOMAIN streams : streams[n] + recorderBudget.publications <= Publications
         /\ \A s \in Recorder!Sinks : \A i \in DOMAIN kept[s] :
              /\ kept[s][i].stream \in DOMAIN streams /\ kept[s][i].sequence \in Nat
              /\ kept[s][i].sequence < streams[kept[s][i].stream]
<1>1. /\ DOMAIN streams \subseteq Names /\ \A n \in DOMAIN streams : streams[n] \in 0..Publications
      /\ output \in Seq(Recorder!Sinks) /\ Recorder!IsInjective(output)
      /\ kept \in [Recorder!Sinks -> Seq(RecordsOf(DOMAIN streams))]
      /\ file \in [Files -> {"good", "bad", "final"}]
      /\ written \in [Files -> 0..Publications] /\ torn \in [Files -> BOOLEAN]
      /\ constant \subseteq Recorder!Sinks
      /\ recorderBudget \in [publications: 0..Publications, connections: 0..Reconnects]
      /\ \A n \in DOMAIN streams : streams[n] + recorderBudget.publications <= Publications
      /\ \A s \in Recorder!Sinks : \A i \in DOMAIN kept[s] : kept[s][i].sequence < streams[kept[s][i].stream]
  BY DEF Recorder!IInv, Recorder!TypeOK, Recorder!NumbersTaken, RecordsOf
<1>2. ASSUME NEW s \in Recorder!Sinks, NEW i \in DOMAIN kept[s]
      PROVE  kept[s][i].stream \in DOMAIN streams /\ kept[s][i].sequence \in Nat
  <2>1. kept[s] \in Seq(RecordsOf(DOMAIN streams))
    BY <1>1
  <2>2. kept[s][i] \in RecordsOf(DOMAIN streams)
    BY <2>1
  <2> QED
    BY <2>2 DEF RecordsOf
<1> QED
  BY <1>1, <1>2

\* The numbers that threw are remembered.
LEMMA ThrewStays ==
  ASSUME UNCHANGED thrown
  PROVE  \A n, k : Recorder!Threw(n, k)' <=> Recorder!Threw(n, k)
BY Zenon DEF Recorder!Threw

\* What is recorded stays, whatever changes around it.
LEMMA KeptStays ==
  ASSUME Recorder!RecorderAssumption, Recorder!IInv, UNCHANGED <<kept, file, written, torn, thrown>>,
         DOMAIN streams \subseteq DOMAIN streams', DOMAIN streams' \subseteq Names,
         \A n \in DOMAIN streams : streams'[n] = streams[n],
         \A n \in DOMAIN streams' \ DOMAIN streams : streams'[n] = 0,
         constant' = constant,
         output' \in Seq(Recorder!Sinks), Recorder!IsInjective(output'),
         recorderBudget' \in [publications: 0..Publications, connections: 0..Reconnects],
         recorderBudget'.publications = recorderBudget.publications
  PROVE  Recorder!IInv'
<1>1. Recorder!TypeOK'
  <2>1. RecordsOf(DOMAIN streams) \subseteq RecordsOf(DOMAIN streams')
    BY DEF RecordsOf
  <2>2. kept' \in [Recorder!Sinks -> Seq(RecordsOf(DOMAIN streams'))]
    <3> DEFINE A == RecordsOf(DOMAIN streams)
               B == RecordsOf(DOMAIN streams')
    <3>1. A \subseteq B /\ kept \in [Recorder!Sinks -> Seq(A)]
      BY <2>1, RecorderFacts
    <3> HIDE DEF A, B
    <3>2. \A s \in Recorder!Sinks : kept[s] \in Seq(B)
      BY <3>1
    <3>3. kept \in [Recorder!Sinks -> Seq(B)]
      BY <3>1, <3>2
    <3> QED
      BY <3>3 DEF B
  <2>3. \A n \in DOMAIN streams' : streams'[n] \in 0..Publications
    <3>1. \A n \in DOMAIN streams : streams[n] \in 0..Publications
      BY RecorderFacts
    <3>2. recorderBudget'.publications \in 0..Publications
      OBVIOUS
    <3>3. 0 \in 0..Publications
      BY DEF Recorder!RecorderAssumption
    <3> QED
      BY <3>1, <3>3
  <2> QED
    BY <2>2, <2>3, RecorderFacts DEF Recorder!TypeOK, RecordsOf
<1>2. Recorder!NumbersTaken'
  <2>1. \A n \in DOMAIN streams' : streams'[n] + recorderBudget'.publications <= Publications
    <3>1. recorderBudget'.publications \in 0..Publications /\ 0 + recorderBudget'.publications <= Publications
      <4>1. recorderBudget'.publications \in 0..Publications
        OBVIOUS
      <4> QED
        BY <4>1
    <3> QED
      BY <3>1, RecorderFacts
  <2>2. \A s \in Recorder!Sinks : \A i \in DOMAIN kept'[s] : kept'[s][i].sequence < streams'[kept'[s][i].stream]
    BY RecorderFacts
  <2> QED
    BY <2>1, <2>2 DEF Recorder!NumbersTaken
<1>3. Recorder!NumbersIncrease' /\ Recorder!WholeLines' /\ Recorder!InOrder'
  BY DEF Recorder!IInv, Recorder!NumbersIncrease, Recorder!WholeLines, Recorder!InOrder
<1>4. Recorder!Accounted'
  <2> SUFFICES ASSUME NEW s \in constant, NEW n \in DOMAIN streams', NEW k \in 0..streams'[n] - 1
               PROVE  \/ Recorder!Threw(n, k)
                      \/ \E i \in DOMAIN kept[s] : kept[s][i].stream = n /\ kept[s][i].sequence = k
    BY ThrewStays DEF Recorder!Accounted
  <2>1. n \in DOMAIN streams
    OBVIOUS
  <2> QED
    BY <2>1 DEF Recorder!IInv, Recorder!Accounted
<1> QED
  BY <1>1, <1>2, <1>3, <1>4 DEF Recorder!IInv

\* What a publication on the stream n does to a sink.
Outcome(s, n) ==
  /\ \/ kept'[s] = kept[s]
     \/ kept'[s] = Append(kept[s], Recorder!Record(n)) /\ (s \in Files => file[s] = "good")
  /\ s \in Files =>
       \/ kept'[s] = kept[s] /\ file'[s] = file[s] /\ Recorder!Untouched(s)
       \/ /\ file[s] = "good" /\ file'[s] \in {"good", "bad"}
          /\ Recorder!Progress(s, file'[s] = "bad")

\* What it does when somebody listens.
PublishedOf(n) ==
  /\ streams' = [streams EXCEPT ![n] = @ + 1]
  /\ kept' \in [Recorder!Sinks -> {kept'[s] : s \in Recorder!Sinks}]
  /\ file' \in [Files -> {file'[f] : f \in Files}]
  /\ Recorder!OnDisk
  /\ \A s \in Recorder!Sinks : Outcome(s, n)
  /\ constant' \subseteq constant /\ \A m, k : Recorder!Threw(m, k) => Recorder!Threw(m, k)'
  /\ \/ \E k : k = streams[n] /\ Recorder!Threw(n, k)'
     \/ \A s \in constant' : kept'[s] = Append(kept[s], Recorder!Record(n))

\* write publishes to the sinks in connection order up to the first that throws.
LEMMA PublishOutcome ==
  ASSUME Recorder!IInv, NEW n \in DOMAIN streams, Recorder!Publish(n)
  PROVE  /\ recorderBudget.publications > 0
         /\ recorderBudget' = [recorderBudget EXCEPT !.publications = @ - 1]
         /\ UNCHANGED <<enabled, output>>
         /\ UNCHANGED <<streams, kept, file, written, torn, constant, thrown>> \/ PublishedOf(n)
<1>1. /\ recorderBudget.publications > 0
      /\ recorderBudget' = [recorderBudget EXCEPT !.publications = @ - 1]
      /\ UNCHANGED <<enabled, output>>
  BY DEF Recorder!Publish
<1>2. CASE ~enabled \/ output = <<>>
  <2>1. UNCHANGED <<streams, kept, file, written, torn, constant, thrown>>
    BY <1>2 DEF Recorder!Publish, Recorder!disk
  <2> QED
    BY <1>1, <2>1
<1>3. CASE ~(~enabled \/ output = <<>>)
  <2>1. streams' = [streams EXCEPT ![n] = @ + 1] /\ Recorder!Deliver(n)
    BY <1>3 DEF Recorder!Publish
  <2>2. PICK encodes \in BOOLEAN, failing \in SUBSET Files :
          LET throws(i) == Recorder!Throws(output[i], encodes, failing)
              reached == {output[i] : i \in {j \in DOMAIN output : \A k \in 1..j - 1 : ~throws(k)}}
              touched == {f \in reached \cap Files : encodes /\ file[f] = "good"} IN
          /\ constant' = constant \cap Recorder!ToSet(output)
          /\ kept' = [s \in Recorder!Sinks |-> IF s \in reached /\ ~Recorder!Throws(s, encodes, failing)
                                      THEN Append(kept[s], Recorder!Record(n)) ELSE kept[s]]
          /\ file' = [f \in Files |-> IF f \in touched \cap failing THEN "bad" ELSE file[f]]
          /\ Recorder!OnDisk
          /\ \A f \in Files : IF f \in touched THEN Recorder!Progress(f, f \in failing)
                              ELSE Recorder!Untouched(f)
          /\ thrown' = IF \E i \in DOMAIN output : throws(i)
                       THEN thrown \cup {<<n, streams[n]>>} ELSE thrown
    BY <2>1, Zenon DEF Recorder!Deliver, Recorder!Encodings
  <2> DEFINE throws(i) == Recorder!Throws(output[i], encodes, failing)
             reached == {output[i] : i \in {j \in DOMAIN output : \A k \in 1..j - 1 : ~throws(k)}}
             touched == {f \in reached \cap Files : encodes /\ file[f] = "good"}
  <2>3. /\ constant' = constant \cap Recorder!ToSet(output)
        /\ kept' = [s \in Recorder!Sinks |-> IF s \in reached /\ ~Recorder!Throws(s, encodes, failing)
                                    THEN Append(kept[s], Recorder!Record(n)) ELSE kept[s]]
        /\ file' = [f \in Files |-> IF f \in touched \cap failing THEN "bad" ELSE file[f]]
        /\ Recorder!OnDisk
        /\ \A f \in Files : IF f \in touched THEN Recorder!Progress(f, f \in failing)
                            ELSE Recorder!Untouched(f)
        /\ thrown' = IF \E i \in DOMAIN output : throws(i)
                     THEN thrown \cup {<<n, streams[n]>>} ELSE thrown
    BY <2>2
  <2>4. ASSUME NEW i \in DOMAIN output, ~\E j \in DOMAIN output : throws(j)
        PROVE  output[i] \in reached /\ ~throws(i)
    <3>1. \A k \in 1..i - 1 : k \in DOMAIN output
      BY RecorderFacts
    <3> QED
      BY <2>4, <3>1
  <2> HIDE DEF reached, throws
  <2>5. ASSUME NEW s \in Recorder!Sinks
        PROVE  Outcome(s, n)
    <3>1. kept'[s] = IF s \in reached /\ ~Recorder!Throws(s, encodes, failing)
                     THEN Append(kept[s], Recorder!Record(n)) ELSE kept[s]
      BY <2>3
    <3>2. CASE s \notin Files
      BY <3>1, <3>2 DEF Outcome
    <3>3. CASE s \in Files
      <4>1. file'[s] = IF s \in touched \cap failing THEN "bad" ELSE file[s]
        BY <2>3, <3>3
      <4>2. IF s \in touched THEN Recorder!Progress(s, s \in failing) ELSE Recorder!Untouched(s)
        BY <2>3, <3>3
      <4>3. CASE s \in touched
        <5>1. file[s] = "good" /\ s \in reached
          BY <4>3
        <5>2. /\ file'[s] \in {"good", "bad"}
              /\ (file'[s] = "bad") = (s \in failing)
          BY <4>1, <4>3, <5>1
        <5>3. Recorder!Progress(s, file'[s] = "bad")
          BY <4>2, <4>3, <5>2
        <5> QED
          BY <3>1, <5>1, <5>2, <5>3 DEF Outcome
      <4>4. CASE s \notin touched
        <5>1. Recorder!Untouched(s) /\ file'[s] = file[s]
          BY <4>1, <4>2, <4>4
        <5>2. s \notin reached \/ Recorder!Throws(s, encodes, failing)
          BY <3>3, <4>4 DEF Recorder!Throws
        <5> QED
          BY <3>1, <5>1, <5>2 DEF Outcome
      <4> QED
        BY <4>3, <4>4
    <3> QED
      BY <3>2, <3>3
  <2>6. (\E k : k = streams[n] /\ Recorder!Threw(n, k)') \/ \A s \in constant' : kept'[s] = Append(kept[s], Recorder!Record(n))
    <3>1. CASE \E i \in DOMAIN output : throws(i)
      <4>1. PICK k : k = streams[n]
        OBVIOUS
      <4>2. thrown' = thrown \cup {<<n, k>>}
        BY <2>3, <3>1, <4>1
      <4>3. Recorder!Threw(n, k)'
        BY <4>2, Zenon DEF Recorder!Threw
      <4> QED
        BY <4>1, <4>3
    <3>2. CASE ~\E i \in DOMAIN output : throws(i)
      <4> SUFFICES ASSUME NEW s \in constant'
                   PROVE  kept'[s] = Append(kept[s], Recorder!Record(n))
        OBVIOUS
      <4>1. s \in Recorder!Sinks /\ s \in Recorder!ToSet(output)
        BY <2>3, RecorderFacts
      <4>2. PICK i \in DOMAIN output : output[i] = s
        BY <4>1 DEF Recorder!ToSet
      <4>3. s \in reached /\ ~Recorder!Throws(s, encodes, failing)
        BY <2>4, <3>2, <4>2 DEF throws
      <4> QED
        BY <2>3, <4>1, <4>3
    <3> QED
      BY <3>1, <3>2
  <2>7. constant' \subseteq constant /\ \A m, k : Recorder!Threw(m, k) => Recorder!Threw(m, k)'
    <3>1. constant' \subseteq constant /\ thrown \subseteq thrown'
      BY <2>3
    <3>2. \A m, k : Recorder!Threw(m, k) => Recorder!Threw(m, k)'
      BY <3>1, Zenon DEF Recorder!Threw
    <3> QED
      BY <3>1, <3>2
  <2>8. /\ kept' \in [Recorder!Sinks -> {kept'[s] : s \in Recorder!Sinks}]
        /\ file' \in [Files -> {file'[f] : f \in Files}]
    BY <2>3
  <2> QED
    BY <1>1, <2>1, <2>3, <2>5, <2>6, <2>7, <2>8 DEF PublishedOf
<1> QED
  BY <1>2, <1>3

\* A sink after a publication: as it was, or with one record more, the first with its number.
LEMMA OneMore ==
  ASSUME Recorder!IInv, NEW n \in DOMAIN streams, PublishedOf(n), NEW s \in Recorder!Sinks
  PROVE  /\ Len(kept[s]) \in Nat /\ DOMAIN kept[s] = 1..Len(kept[s])
         /\ kept'[s] \in Seq(RecordsOf(DOMAIN streams))
         /\ \A i \in DOMAIN kept[s] : i \in DOMAIN kept'[s] /\ kept'[s][i] = kept[s][i]
         /\ \/ kept'[s] = kept[s]
            \/ /\ kept'[s] = Append(kept[s], Recorder!Record(n))
               /\ Len(kept'[s]) = Len(kept[s]) + 1
               /\ DOMAIN kept'[s] = 1..Len(kept[s]) + 1
               /\ kept'[s][Len(kept[s]) + 1] = Recorder!Record(n)
<1>1. PICK q : q = kept[s]
  OBVIOUS
<1>2. PICK R : R = RecordsOf(DOMAIN streams)
  OBVIOUS
<1>3. q \in Seq(R)
  BY <1>1, <1>2, RecorderFacts
<1>4. Recorder!Record(n) \in R
  BY <1>2, RecorderFacts DEF Recorder!Record, RecordsOf
<1>5. Outcome(s, n)
  BY DEF PublishedOf
<1>6. CASE kept'[s] = kept[s]
  BY <1>1, <1>2, <1>3, <1>6
<1>7. ASSUME kept'[s] = Append(kept[s], Recorder!Record(n))
      PROVE  /\ Len(kept[s]) \in Nat /\ DOMAIN kept[s] = 1..Len(kept[s])
             /\ kept'[s] \in Seq(RecordsOf(DOMAIN streams))
             /\ \A i \in DOMAIN kept[s] : i \in DOMAIN kept'[s] /\ kept'[s][i] = kept[s][i]
             /\ Len(kept'[s]) = Len(kept[s]) + 1
             /\ DOMAIN kept'[s] = 1..Len(kept[s]) + 1
             /\ kept'[s][Len(kept[s]) + 1] = Recorder!Record(n)
  <2>1. PICK x : x = Recorder!Record(n)
    OBVIOUS
  <2>2. PICK t : t = kept'[s]
    OBVIOUS
  <2>3. t = Append(q, x) /\ x \in R
    BY <1>1, <1>4, <1>7, <2>1, <2>2
  <2>4. /\ Len(q) \in Nat /\ DOMAIN q = 1..Len(q)
        /\ t \in Seq(R)
        /\ \A i \in DOMAIN q : i \in DOMAIN t /\ t[i] = q[i]
        /\ Len(t) = Len(q) + 1 /\ DOMAIN t = 1..Len(q) + 1 /\ t[Len(q) + 1] = x
    BY ONLY <1>3, <2>3
  <2> QED
    BY <1>1, <1>2, <2>1, <2>2, <2>4
<1> QED
  BY <1>5, <1>6, <1>7 DEF Outcome

\* The files after a publication: their lines come in the order in which they were taken.
LEMMA FilesAfter ==
  ASSUME Recorder!IInv, NEW n \in DOMAIN streams, PublishedOf(n)
  PROVE  Recorder!InOrder' /\ Recorder!WholeLines'
<1> SUFFICES ASSUME NEW f \in Files
             PROVE  /\ written'[f] <= Len(kept'[f])
                    /\ file'[f] = "final" => written'[f] = Len(kept'[f])
                    /\ torn'[f] => file'[f] = "bad" \/ (file'[f] = "good" /\ written'[f] < Len(kept'[f]))
  BY DEF Recorder!InOrder, Recorder!WholeLines
<1>1. Outcome(f, n)
  BY DEF PublishedOf, Recorder!Sinks
<1>2. CASE kept'[f] = kept[f] /\ file'[f] = file[f] /\ Recorder!Untouched(f)
  BY <1>2 DEF Recorder!Untouched, Recorder!IInv, Recorder!InOrder, Recorder!WholeLines
<1>3. CASE /\ file[f] = "good" /\ file'[f] \in {"good", "bad"}
           /\ Recorder!Progress(f, file'[f] = "bad")
  BY <1>3 DEF Recorder!Progress
<1> QED
  BY <1>1, <1>2, <1>3 DEF Outcome

\* A publication keeps the invariant, wherever it ends.
LEMMA PublishStep ==
  ASSUME Recorder!RecorderAssumption, Recorder!IInv, NEW n \in DOMAIN streams, Recorder!Publish(n)
  PROVE  Recorder!IInv'
<1>1. /\ recorderBudget.publications > 0
      /\ recorderBudget' = [recorderBudget EXCEPT !.publications = @ - 1]
      /\ UNCHANGED <<enabled, output>>
      /\ UNCHANGED <<streams, kept, file, written, torn, constant, thrown>> \/ PublishedOf(n)
  BY PublishOutcome
<1>2. /\ recorderBudget.publications \in 0..Publications /\ recorderBudget.connections \in 0..Reconnects
      /\ Publications \in Nat /\ Reconnects \in Nat
  BY RecorderFacts DEF Recorder!RecorderAssumption
<1>3. /\ recorderBudget' \in [publications: 0..Publications, connections: 0..Reconnects]
      /\ recorderBudget'.publications = recorderBudget.publications - 1
  <2>1. recorderBudget.publications - 1 \in 0..Publications
    BY <1>1, <1>2
  <2> QED
    BY <1>1, <1>2, <2>1, RecorderFacts
<1>4. CASE UNCHANGED <<streams, kept, file, written, torn, constant, thrown>>
  <2>1. Recorder!TypeOK'
    BY <1>1, <1>3, <1>4 DEF Recorder!IInv, Recorder!TypeOK
  <2>2. \A m \in DOMAIN streams : streams[m] + recorderBudget'.publications <= Publications
    <3>1. \A m \in DOMAIN streams : streams[m] + recorderBudget.publications <= Publications /\ streams[m] \in Nat
      BY RecorderFacts
    <3> QED
      BY <1>2, <1>3, <3>1
  <2>3. Recorder!NumbersTaken' /\ Recorder!NumbersIncrease' /\ Recorder!WholeLines' /\ Recorder!InOrder'
    BY <1>4, <2>2 DEF Recorder!IInv, Recorder!NumbersTaken, Recorder!NumbersIncrease,
       Recorder!WholeLines, Recorder!InOrder
  <2>4. Recorder!Accounted'
    BY <1>4, ThrewStays DEF Recorder!IInv, Recorder!Accounted
  <2> QED
    BY <2>1, <2>3, <2>4 DEF Recorder!IInv
<1>5. CASE PublishedOf(n)
  <2>1. /\ DOMAIN streams' = DOMAIN streams
        /\ \A m \in DOMAIN streams : streams'[m] = IF m = n THEN streams[m] + 1 ELSE streams[m]
        /\ \A m \in DOMAIN streams : streams[m] \in Nat /\ streams[m] + recorderBudget.publications <= Publications
    BY <1>5, RecorderFacts DEF PublishedOf
  <2>2. \A m \in DOMAIN streams' : streams'[m] \in 0..Publications
                                   /\ streams'[m] + recorderBudget'.publications <= Publications
    BY <1>1, <1>2, <1>3, <2>1
  <2>3. Recorder!TypeOK'
    <3>1. kept' \in [Recorder!Sinks -> Seq(RecordsOf(DOMAIN streams'))]
      <4>1. \A s \in Recorder!Sinks : kept'[s] \in Seq(RecordsOf(DOMAIN streams'))
        BY <1>5, <2>1, OneMore
      <4> QED
        BY <1>5, <4>1 DEF PublishedOf
    <3>2. file' \in [Files -> {"good", "bad", "final"}]
      <4>1. \A f \in Files : file'[f] \in {file[f], "good", "bad"}
        BY <1>5 DEF PublishedOf, Outcome, Recorder!Sinks
      <4>2. \A f \in Files : file'[f] \in {"good", "bad", "final"}
        BY <4>1, RecorderFacts
      <4> QED
        BY <1>5, <4>2 DEF PublishedOf
    <3>3. constant' \subseteq Recorder!Sinks
      BY <1>5, RecorderFacts DEF PublishedOf
    <3>4. DOMAIN streams' \subseteq Names /\ \A m \in DOMAIN streams' : streams'[m] \in 0..Publications
      BY <2>1, <2>2, RecorderFacts
    <3>5. output' \in Seq(Recorder!Sinks) /\ Recorder!IsInjective(output')
      BY <1>1, RecorderFacts
    <3>6. written' \in [Files -> 0..Publications] /\ torn' \in [Files -> BOOLEAN]
      BY <1>5 DEF PublishedOf, Recorder!OnDisk
    <3> QED
      BY <1>3, <3>1, <3>2, <3>3, <3>4, <3>5, <3>6 DEF Recorder!TypeOK, RecordsOf
  <2>4. ASSUME NEW s \in Recorder!Sinks, NEW i \in DOMAIN kept'[s]
        PROVE  \/ i \in DOMAIN kept[s] /\ kept'[s][i] = kept[s][i]
               \/ /\ i = Len(kept[s]) + 1
                  /\ kept'[s][i].stream = n /\ kept'[s][i].sequence = streams[n]
    <3>1. CASE kept'[s] = kept[s]
      BY <3>1
    <3>2. CASE kept'[s] # kept[s]
      <4>1. /\ DOMAIN kept'[s] = 1..Len(kept[s]) + 1
            /\ kept'[s][Len(kept[s]) + 1] = Recorder!Record(n)
        BY <1>5, <3>2, OneMore
      <4>2. i \in DOMAIN kept[s] \/ i = Len(kept[s]) + 1
        BY <1>5, <4>1, OneMore
      <4>3. Recorder!Record(n).stream = n /\ Recorder!Record(n).sequence = streams[n]
        BY DEF Recorder!Record
      <4> QED
        BY <1>5, <4>1, <4>2, <4>3, OneMore
    <3> QED
      BY <3>1, <3>2
  <2>5. Recorder!NumbersTaken'
    <3>1. ASSUME NEW s \in Recorder!Sinks, NEW i \in DOMAIN kept'[s]
          PROVE  kept'[s][i].sequence < streams'[kept'[s][i].stream]
      <4>1. CASE i \in DOMAIN kept[s] /\ kept'[s][i] = kept[s][i]
        <5>1. /\ kept[s][i].stream \in DOMAIN streams /\ kept[s][i].sequence \in Nat
              /\ kept[s][i].sequence < streams[kept[s][i].stream]
          BY <4>1, RecorderFacts
        <5> QED
          BY <2>1, <4>1, <5>1
      <4>2. CASE kept'[s][i].stream = n /\ kept'[s][i].sequence = streams[n]
        BY <2>1, <4>2
      <4> QED
        BY <2>4, <4>1, <4>2
    <3> QED
      BY <2>2, <3>1 DEF Recorder!NumbersTaken
  <2>6. Recorder!NumbersIncrease'
    <3> SUFFICES ASSUME NEW s \in Recorder!Sinks, NEW i \in DOMAIN kept'[s], NEW j \in DOMAIN kept'[s],
                        i < j, kept'[s][i].stream = kept'[s][j].stream
                 PROVE  kept'[s][i].sequence < kept'[s][j].sequence
      BY DEF Recorder!NumbersIncrease
    <3>1. Len(kept[s]) \in Nat /\ DOMAIN kept[s] = 1..Len(kept[s])
      BY <1>5, OneMore
    <3>2. CASE j \in DOMAIN kept[s] /\ kept'[s][j] = kept[s][j]
      <4>1. i \in DOMAIN kept[s]
        BY <2>4, <3>1, <3>2
      <4>2. kept'[s][i] = kept[s][i]
        BY <1>5, <4>1, OneMore
      <4> QED
        BY <3>2, <4>1, <4>2 DEF Recorder!IInv, Recorder!NumbersIncrease
    <3>3. CASE /\ j = Len(kept[s]) + 1
               /\ kept'[s][j].stream = n /\ kept'[s][j].sequence = streams[n]
      <4>1. i \in DOMAIN kept[s] /\ kept'[s][i] = kept[s][i]
        <5>1. i # Len(kept[s]) + 1
          BY <3>1, <3>3
        <5> QED
          BY <2>4, <5>1
      <4>2. kept[s][i].sequence < streams[kept[s][i].stream]
        BY <4>1, RecorderFacts
      <4> QED
        BY <3>3, <4>1, <4>2
    <3> QED
      BY <2>4, <3>2, <3>3
  <2>7. Recorder!Accounted'
    <3> SUFFICES ASSUME NEW s \in constant', NEW m \in DOMAIN streams', NEW k \in 0..streams'[m] - 1
                 PROVE  \/ Recorder!Threw(m, k)'
                        \/ \E i \in DOMAIN kept'[s] : kept'[s][i].stream = m /\ kept'[s][i].sequence = k
      BY DEF Recorder!Accounted
    <3>1. /\ s \in constant /\ s \in Recorder!Sinks /\ \A x, y : Recorder!Threw(x, y) => Recorder!Threw(x, y)'
          /\ \/ \E x : x = streams[n] /\ Recorder!Threw(n, x)'
             \/ kept'[s] = Append(kept[s], Recorder!Record(n))
      BY <1>5, RecorderFacts DEF PublishedOf
    <3>2. m \in DOMAIN streams /\ streams[m] \in Nat
      BY <2>1
    <3>3. CASE k \in 0..streams[m] - 1
      <4>1. \/ Recorder!Threw(m, k)
            \/ \E i \in DOMAIN kept[s] : kept[s][i].stream = m /\ kept[s][i].sequence = k
        BY <3>1, <3>2, <3>3 DEF Recorder!IInv, Recorder!Accounted
      <4>2. \A i \in DOMAIN kept[s] : i \in DOMAIN kept'[s] /\ kept'[s][i] = kept[s][i]
        BY <1>5, <3>1, OneMore
      <4> QED
        BY <3>1, <4>1, <4>2
    <3>4. CASE ~(k \in 0..streams[m] - 1)
      <4>1. m = n /\ k = streams[n]
        BY <2>1, <3>2, <3>4
      <4>2. CASE \E x : x = streams[n] /\ Recorder!Threw(n, x)'
        BY <4>1, <4>2
      <4>3. CASE kept'[s] = Append(kept[s], Recorder!Record(n))
        <5>1. /\ Len(kept[s]) + 1 \in DOMAIN kept'[s]
              /\ kept'[s][Len(kept[s]) + 1] = Recorder!Record(n)
          <6>1. PICK q : q = kept[s]
            OBVIOUS
          <6>2. PICK x : x = Recorder!Record(n)
            OBVIOUS
          <6>3. q \in Seq(RecordsOf(DOMAIN streams))
            BY <3>1, <6>1, RecorderFacts
          <6>4. Len(q) + 1 \in DOMAIN Append(q, x) /\ Append(q, x)[Len(q) + 1] = x
            BY ONLY <6>3
          <6> QED
            BY <4>3, <6>1, <6>2, <6>4
        <5>2. Recorder!Record(n).stream = n /\ Recorder!Record(n).sequence = streams[n]
          BY DEF Recorder!Record
        <5> QED
          BY <4>1, <5>1, <5>2
      <4> QED
        BY <3>1, <4>2, <4>3
    <3> QED
      BY <3>3, <3>4
  <2>8. Recorder!InOrder' /\ Recorder!WholeLines'
    BY <1>5, FilesAfter
  <2> QED
    BY <2>3, <2>5, <2>6, <2>7, <2>8 DEF Recorder!IInv
<1> QED
  BY <1>1, <1>4, <1>5

\* finalize writes the rest of the lines, or fails on the way; it takes no record.
LEMMA FinalizeStep ==
  ASSUME Recorder!IInv, NEW f \in Files, Recorder!Finalize(f)
  PROVE  Recorder!IInv'
<1>1. /\ UNCHANGED <<streams, enabled, output, kept, constant, thrown, recorderBudget>>
      /\ file \in [Files -> {"good", "bad", "final"}]
      /\ written' \in [Files -> 0..Publications] /\ torn' \in [Files -> BOOLEAN]
      /\ \A g \in Files \ {f} : written'[g] = written[g] /\ torn'[g] = torn[g]
  BY RecorderFacts DEF Recorder!Finalize, Recorder!OnDisk, Recorder!Untouched
<1>2. /\ file' \in [Files -> {"good", "bad", "final"}]
      /\ \A g \in Files \ {f} : file'[g] = file[g]
      /\ \/ file'[f] = file[f] /\ written'[f] = written[f] /\ torn'[f] = torn[f]
         \/ /\ file'[f] = "bad" /\ written'[f] <= Len(kept[f])
         \/ /\ file'[f] = "final" /\ written'[f] = Len(kept[f]) /\ ~torn'[f]
  BY <1>1 DEF Recorder!Finalize, Recorder!Untouched, Recorder!Progress
<1>3. Recorder!TypeOK'
  BY <1>1, <1>2 DEF Recorder!IInv, Recorder!TypeOK
<1>4. Recorder!NumbersTaken' /\ Recorder!NumbersIncrease'
  BY <1>1 DEF Recorder!IInv, Recorder!NumbersTaken, Recorder!NumbersIncrease
<1>5. Recorder!InOrder' /\ Recorder!WholeLines'
  <2> SUFFICES ASSUME NEW g \in Files
               PROVE  /\ written'[g] <= Len(kept'[g])
                      /\ file'[g] = "final" => written'[g] = Len(kept'[g])
                      /\ torn'[g] => file'[g] = "bad" \/ (file'[g] = "good" /\ written'[g] < Len(kept'[g]))
    BY DEF Recorder!InOrder, Recorder!WholeLines
  <2>1. /\ kept'[g] = kept[g] /\ written[g] <= Len(kept[g]) /\ Len(kept[g]) \in Nat
        /\ file[g] = "final" => written[g] = Len(kept[g])
        /\ torn[g] => file[g] = "bad" \/ (file[g] = "good" /\ written[g] < Len(kept[g]))
    <3>1. kept[g] \in Seq(RecordsOf(DOMAIN streams))
      BY RecorderFacts DEF Recorder!Sinks
    <3> QED
      BY <1>1, <3>1 DEF Recorder!IInv, Recorder!InOrder, Recorder!WholeLines
  <2>2. CASE g # f
    BY <1>1, <1>2, <2>1, <2>2
  <2>3. CASE g = f
    BY <1>2, <2>1, <2>3
  <2> QED
    BY <2>2, <2>3
<1>6. Recorder!Accounted'
  BY <1>1, ThrewStays DEF Recorder!IInv, Recorder!Accounted
<1> QED
  BY <1>3, <1>4, <1>5, <1>6 DEF Recorder!IInv

\* A sink in memory that was cleared is no longer one that has everything.
LEMMA ClearSinkStep ==
  ASSUME Recorder!RecorderAssumption, Recorder!IInv, NEW m \in Memories, Recorder!Clear(m)
  PROVE  Recorder!IInv'
<1>1. /\ kept' = [kept EXCEPT ![m] = <<>>]
      /\ constant' = constant \ {m}
      /\ UNCHANGED <<streams, enabled, output, file, written, torn, thrown, recorderBudget>>
      /\ kept \in [Recorder!Sinks -> Seq(RecordsOf(DOMAIN streams))]
  BY RecorderFacts DEF Recorder!Clear, Recorder!disk
<1>2. /\ kept' \in [Recorder!Sinks -> Seq(RecordsOf(DOMAIN streams))]
      /\ \A s \in Recorder!Sinks : kept'[s] = kept[s] \/ (s = m /\ kept'[s] = <<>>)
      /\ \A s \in Recorder!Sinks \ {m} : kept'[s] = kept[s]
  <2>1. <<>> \in Seq(RecordsOf(DOMAIN streams))
    OBVIOUS
  <2> QED
    BY <1>1, <2>1
<1>3. Recorder!TypeOK'
  <2>1. constant' \subseteq Recorder!Sinks
    BY <1>1, RecorderFacts
  <2> QED
    BY <1>1, <1>2, <2>1 DEF Recorder!IInv, Recorder!TypeOK, RecordsOf
<1>4. \A s \in Recorder!Sinks : \A i \in DOMAIN kept'[s] : kept'[s] = kept[s]
  BY <1>2
<1>5. Recorder!NumbersTaken' /\ Recorder!NumbersIncrease'
  BY <1>1, <1>4 DEF Recorder!IInv, Recorder!NumbersTaken, Recorder!NumbersIncrease
<1>7. Recorder!InOrder' /\ Recorder!WholeLines'
  <2>1. \A f \in Files : kept'[f] = kept[f]
    BY <1>2 DEF Recorder!RecorderAssumption, Recorder!Sinks
  <2> QED
    BY <1>1, <2>1 DEF Recorder!IInv, Recorder!InOrder, Recorder!WholeLines
<1>6. Recorder!Accounted'
  <2>1. \A s \in constant' : s \in Recorder!Sinks \ {m} /\ s \in constant
    BY <1>1, RecorderFacts
  <2>2. \A s \in constant' : s \in constant /\ kept'[s] = kept[s]
    BY <1>2, <2>1
  <2> QED
    BY <1>1, <2>2, ThrewStays DEF Recorder!IInv, Recorder!Accounted
<1> QED
  BY <1>3, <1>5, <1>6, <1>7 DEF Recorder!IInv

\* A new recorder
LEMMA RecorderInit ==
  ASSUME Recorder!RecorderAssumption, Recorder!Init
  PROVE  Recorder!IInv
<1>1. /\ DOMAIN streams = {} /\ output = <<>> /\ kept = [s \in Recorder!Sinks |-> <<>>]
      /\ file = [f \in Files |-> "good"] /\ written = [f \in Files |-> 0] /\ torn = [f \in Files |-> FALSE]
      /\ constant = Recorder!Sinks
      /\ recorderBudget = [publications |-> Publications, connections |-> Reconnects]
      /\ Publications \in Nat /\ Reconnects \in Nat
  BY DEF Recorder!Init, Recorder!RecorderAssumption
<1>2. \A s \in Recorder!Sinks : kept[s] = <<>> /\ DOMAIN kept[s] = {}
  BY <1>1
<1>3. Recorder!TypeOK
  <2>1. output \in Seq(Recorder!Sinks) /\ Recorder!IsInjective(output)
    BY <1>1 DEF Recorder!IsInjective
  <2>2. kept \in [Recorder!Sinks -> Seq([stream: DOMAIN streams, sequence: Nat])]
    BY <1>1, <1>2
  <2>3. recorderBudget \in [publications: 0..Publications, connections: 0..Reconnects]
    BY <1>1
  <2>4. written \in [Files -> 0..Publications] /\ torn \in [Files -> BOOLEAN]
    BY <1>1
  <2> QED
    BY <1>1, <2>1, <2>2, <2>3, <2>4 DEF Recorder!TypeOK
<1>4. Recorder!NumbersTaken /\ Recorder!NumbersIncrease /\ Recorder!Accounted
  BY <1>1, <1>2 DEF Recorder!NumbersTaken, Recorder!NumbersIncrease, Recorder!Accounted
<1>5. Recorder!InOrder /\ Recorder!WholeLines
  <2>1. \A f \in Files : kept[f] = <<>> /\ Len(kept[f]) = 0
    BY <1>2 DEF Recorder!Sinks
  <2> QED
    BY <1>1, <2>1 DEF Recorder!InOrder, Recorder!WholeLines
<1> QED
  BY <1>3, <1>4, <1>5 DEF Recorder!IInv

\* No call breaks the invariant.
LEMMA RecorderNext ==
  ASSUME Recorder!RecorderAssumption, Recorder!IInv, [Recorder!Next]_Recorder!vars
  PROVE  Recorder!IInv'
<1>1. CASE UNCHANGED Recorder!vars
  BY <1>1, KeptStays, RecorderFacts DEF Recorder!vars, Recorder!disk
<1>2. ASSUME NEW n \in Names, Recorder!Stream(n) PROVE Recorder!IInv'
  <2>1. /\ n \notin DOMAIN streams
        /\ streams' = [m \in DOMAIN streams \cup {n} |-> IF m = n THEN 0 ELSE streams[m]]
        /\ UNCHANGED <<enabled, output, kept, file, written, torn, constant, thrown, recorderBudget>>
    BY <1>2 DEF Recorder!Stream, Recorder!disk
  <2>2. /\ DOMAIN streams' = DOMAIN streams \cup {n} /\ DOMAIN streams' \subseteq Names
        /\ \A m \in DOMAIN streams : streams'[m] = streams[m]
        /\ \A m \in DOMAIN streams' \ DOMAIN streams : streams'[m] = 0
    BY <2>1, RecorderFacts
  <2> QED
    BY <2>1, <2>2, KeptStays, RecorderFacts
<1>3. CASE Recorder!SetEnabled
  BY <1>3, KeptStays, RecorderFacts DEF Recorder!SetEnabled, Recorder!disk
<1>4. ASSUME NEW s \in Recorder!Sinks, Recorder!Connect(s) PROVE Recorder!IInv'
  <2>1. output' \in Seq(Recorder!Sinks) /\ Recorder!IsInjective(output')
    BY <1>4, SinkAdded, RecorderFacts DEF Recorder!Connect
  <2>2. /\ recorderBudget.publications \in 0..Publications
        /\ recorderBudget.connections \in 0..Reconnects /\ recorderBudget.connections > 0 /\ Reconnects \in Nat
        /\ recorderBudget' = [recorderBudget EXCEPT !.connections = @ - 1]
    BY <1>4, RecorderFacts DEF Recorder!Connect, Recorder!RecorderAssumption
  <2>3. recorderBudget.connections - 1 \in 0..Reconnects
    BY <2>2
  <2>4. /\ recorderBudget' \in [publications: 0..Publications, connections: 0..Reconnects]
        /\ recorderBudget'.publications = recorderBudget.publications
    BY <2>2, <2>3, RecorderFacts
  <2> QED
    BY <1>4, <2>1, <2>4, KeptStays, RecorderFacts DEF Recorder!Connect, Recorder!disk
<1>5. ASSUME NEW s \in Recorder!Sinks, Recorder!Disconnect(s) PROVE Recorder!IInv'
  <2>1. output' \in Seq(Recorder!Sinks) /\ Recorder!IsInjective(output')
    BY <1>5, SinkRemoved, RecorderFacts DEF Recorder!Disconnect
  <2> QED
    BY <1>5, <2>1, KeptStays, RecorderFacts DEF Recorder!Disconnect, Recorder!disk
<1>6. ASSUME NEW n \in DOMAIN streams, Recorder!Publish(n) PROVE Recorder!IInv'
  BY <1>6, PublishStep
<1>7. ASSUME NEW f \in Files, Recorder!Finalize(f) PROVE Recorder!IInv'
  BY <1>7, FinalizeStep
<1>8. ASSUME NEW m \in Memories, Recorder!Clear(m) PROVE Recorder!IInv'
  BY <1>8, ClearSinkStep
<1> QED
  BY <1>1, <1>2, <1>3, <1>4, <1>5, <1>6, <1>7, <1>8 DEF Recorder!Next

\* The inductive invariant of a recorder with its sinks: besides what is proved from it below, every
\* number that was recorded was taken from its stream (TransactionStream::write) before, a file has
\* the first of the lines that were given to its stream, and a finalized one all of them
\* (JsonLinesTransactionSink).
THEOREM RecorderInvariant ==
  ASSUME Recorder!RecorderAssumption
  PROVE  Recorder!Spec => []Recorder!IInv
<1>1. Recorder!Init => Recorder!IInv
  BY RecorderInit
<1>2. Recorder!IInv /\ [Recorder!Next]_Recorder!vars => Recorder!IInv'
  BY RecorderNext
<1> QED
  BY <1>1, <1>2, PTL DEF Recorder!Spec

\* What a sink took is in its trace, or after it and then the file is not final.
LEMMA NoGapFollows ==
  ASSUME Recorder!IInv
  PROVE  Recorder!NoSilentGap
<1> SUFFICES ASSUME NEW s \in constant, NEW n \in DOMAIN streams, NEW k \in 0..streams[n] - 1,
                    ~Recorder!Threw(n, k)
             PROVE  \E i \in DOMAIN kept[s] :
                      /\ kept[s][i].stream = n /\ kept[s][i].sequence = k
                      /\ i \in Recorder!Lines(s) \/ (s \in Files /\ file[s] # "final")
  BY DEF Recorder!NoSilentGap
<1>1. PICK i \in DOMAIN kept[s] : kept[s][i].stream = n /\ kept[s][i].sequence = k
  BY DEF Recorder!IInv, Recorder!Accounted
<1>2. CASE i \in Recorder!Lines(s)
  BY <1>1, <1>2
<1>3. CASE i \notin Recorder!Lines(s)
  <2>1. s \in Files
    BY <1>3 DEF Recorder!Lines
  <2>2. file[s] # "final"
    <3>1. kept[s] \in Seq(RecordsOf(DOMAIN streams))
      BY <2>1, RecorderFacts DEF Recorder!Sinks
    <3>2. DOMAIN kept[s] = 1..Len(kept[s])
      BY <3>1
    <3> QED
      BY <1>3, <2>1, <3>2 DEF Recorder!IInv, Recorder!InOrder, Recorder!Lines
  <2> QED
    BY <1>1, <2>1, <2>2
<1> QED
  BY <1>2, <1>3

\* Through any order of publications, connections, disconnections, enabling and failures of values
\* and files, a sink has the records of a stream in increasing order and none twice.  From the trace
\* of a sink that was connected all along only those numbers are missing whose write threw, and, as
\* long as a file is not final, those of its last lines, which its buffer has or had when it failed:
\* a finalized trace has every record that was accepted.  A file ends in the middle of a line only
\* before that, or when it failed (TransactionRecorder::publish, JsonLinesTransactionSink).
THEOREM RecorderTracesHonest ==
  ASSUME Recorder!RecorderAssumption
  PROVE  Recorder!Spec => [](Recorder!NumbersIncrease /\ Recorder!NoSilentGap /\ Recorder!WholeLines)
<1>1. Recorder!IInv => Recorder!NumbersIncrease /\ Recorder!NoSilentGap /\ Recorder!WholeLines
  BY NoGapFollows DEF Recorder!IInv
<1> QED
  BY <1>1, RecorderInvariant, PTL

\* A JSON Lines file whose finalize returned is never written to again; one that failed is never
\* called final, and nothing more reaches it (JsonLinesTransactionSink::write and finalize).
THEOREM RecorderFinalStays ==
  ASSUME Recorder!RecorderAssumption
  PROVE  Recorder!Spec => Recorder!FinalStays
<1> DEFINE Stays == \A f \in Files :
             /\ file[f] = "final" => file'[f] = "final" /\ kept'[f] = kept[f]
             /\ file[f] = "bad" => file'[f] = "bad"
             /\ file[f] # "good" => Recorder!Untouched(f)
<1>1. ASSUME Recorder!IInv, [Recorder!Next]_Recorder!vars
      PROVE  [Stays]_Recorder!vars
  <2>1. CASE UNCHANGED Recorder!vars
    BY <2>1
  <2>2. ASSUME NEW n \in DOMAIN streams, Recorder!Publish(n) PROVE Stays
    <3>1. UNCHANGED <<kept, file, written, torn>> \/ PublishedOf(n)
      BY <1>1, <2>2, PublishOutcome
    <3>2. CASE PublishedOf(n)
      <4> SUFFICES ASSUME NEW f \in Files
                   PROVE  /\ file[f] = "final" => file'[f] = "final" /\ kept'[f] = kept[f]
                          /\ file[f] = "bad" => file'[f] = "bad"
                          /\ file[f] # "good" => Recorder!Untouched(f)
        OBVIOUS
      <4>1. Outcome(f, n)
        BY <3>2 DEF PublishedOf, Recorder!Sinks
      <4> QED
        BY <4>1 DEF Outcome
    <3>3. CASE UNCHANGED <<kept, file, written, torn>>
      BY <3>3 DEF Recorder!Untouched
    <3> QED
      BY <3>1, <3>2, <3>3
  <2>3. ASSUME NEW f \in Files, Recorder!Finalize(f) PROVE Stays
    <3>1. /\ file[f] # "final" /\ UNCHANGED kept
          /\ file \in [Files -> {"good", "bad", "final"}]
          /\ \A g \in Files \ {f} : Recorder!Untouched(g)
          /\ \/ file[f] = "bad" /\ Recorder!Untouched(f) /\ UNCHANGED file
             \/ file[f] = "good" /\ \E x : file' = [file EXCEPT ![f] = x]
      BY <1>1, <2>3, RecorderFacts DEF Recorder!Finalize
    <3> QED
      BY <3>1
  <2>4. ASSUME NEW m \in Memories, Recorder!Clear(m) PROVE Stays
    <3>1. /\ kept' = [kept EXCEPT ![m] = <<>>] /\ UNCHANGED <<file, written, torn>>
          /\ kept \in [Recorder!Sinks -> Seq(RecordsOf(DOMAIN streams))]
          /\ m \notin Files
      BY <1>1, <2>4, RecorderFacts DEF Recorder!Clear, Recorder!RecorderAssumption, Recorder!disk
    <3>2. \A f \in Files : kept'[f] = kept[f]
      BY <3>1 DEF Recorder!Sinks
    <3> QED
      BY <3>1, <3>2 DEF Recorder!Untouched
  <2>5. ASSUME NEW n \in Names, Recorder!Stream(n) PROVE Stays
    BY <2>5 DEF Recorder!Stream, Recorder!disk, Recorder!Untouched
  <2>6. CASE Recorder!SetEnabled
    BY <2>6 DEF Recorder!SetEnabled, Recorder!disk, Recorder!Untouched
  <2>7. ASSUME NEW s \in Recorder!Sinks, Recorder!Connect(s) \/ Recorder!Disconnect(s) PROVE Stays
    BY <2>7 DEF Recorder!Connect, Recorder!Disconnect, Recorder!disk, Recorder!Untouched
  <2> QED
    BY <1>1, <2>1, <2>2, <2>3, <2>4, <2>5, <2>6, <2>7 DEF Recorder!Next
<1> QED
  BY <1>1, RecorderInvariant, PTL DEF Recorder!Spec, Recorder!FinalStays

=============================================================================
