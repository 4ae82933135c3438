---------------------------- MODULE AnalysisPort ----------------------------
(***************************************************************************)
(* AnalysisPort: write calls every connected subscriber on the caller's    *)
(* stack.  While it does, a subscriber may connect, disconnect itself or   *)
(* another, write to the same port again, or throw.  The control stack is  *)
(* explicit: one frame for each write under way.                           *)
(***************************************************************************)
EXTENDS Integers, Sequences, FiniteSets, SequencesExt

CONSTANTS
    Handles,    \* the Connection objects
    Depth,      \* bound: writes under way at once
    Connects,   \* bound: calls of connect
    Writes      \* bound: calls of write

\* What an instance gives the constants.
PortAssumption == {Depth, Connects, Writes} \subseteq Nat

VARIABLES
    slots,      \* State::slots
    next_id,    \* State::next_id
    depth,      \* State::dispatch_depth
    pending,    \* State::compact_pending
    handle,     \* the id each Connection holds, 0 for none
    alive,      \* the port has not been destroyed
    frames,     \* the writes under way, the innermost last
    budget      \* writes left

vars == <<slots, next_id, depth, pending, handle, alive, frames, budget>>

Init ==
    /\ slots = <<>> /\ next_id = 1 /\ depth = 0 /\ pending = FALSE
    /\ handle = [h \in Handles |-> 0]
    /\ alive = TRUE
    /\ frames = <<>>
    /\ budget = Writes

Connected(s) == {s[i].id : i \in {j \in DOMAIN s : s[j].connected}}

\* The slots of s that are connected, in order: as many are in front of each as were before.
Kept(s) == {i \in DOMAIN s : s[i].connected}
KeptBefore(s, i) == Cardinality({j \in Kept(s) : j < i})
Erased(s) ==
    [k \in 1..Cardinality(Kept(s)) |-> s[CHOOSE i \in Kept(s) : KeptBefore(s, i) = k - 1]]

\* Mutant: disconnected slots are erased while a write is under way.
CompactAlways(s, d, p) ==
    IF ~p THEN [slots |-> s, pending |-> p] ELSE [slots |-> Erased(s), pending |-> FALSE]

\* State::compact
Compact(s, d, p) ==
    IF d # 0 \/ ~p THEN [slots |-> s, pending |-> p] ELSE [slots |-> Erased(s), pending |-> FALSE]

Compacts(s, d, p) ==
    LET c == Compact(s, d, p) IN slots' = c.slots /\ pending' = c.pending

\* Connection::disconnect of an id, on given slots; without a port it does nothing.
Drop(s, d, p, id) ==
    IF id = 0 \/ ~alive THEN [slots |-> s, pending |-> p]
    ELSE Compact([i \in DOMAIN s |->
                     IF s[i].id = id THEN [s[i] EXCEPT !.connected = FALSE] ELSE s[i]],
                 d, p \/ \E i \in DOMAIN s : s[i].id = id)

\* Code runs at the top level, or in the subscriber the innermost write is calling.
Running == frames # <<>> => Last(frames).calling

-----------------------------------------------------------------------------
\* h = port.connect(...): the new slot exists before the connection h held is dropped.
Connect(h) ==
    /\ Running /\ alive /\ next_id <= Connects
    /\ LET d == Drop(Append(slots, [id |-> next_id, connected |-> TRUE]), depth, pending, handle[h]) IN
       slots' = d.slots /\ pending' = d.pending
    /\ next_id' = next_id + 1
    /\ handle' = [handle EXCEPT ![h] = next_id]
    /\ UNCHANGED <<depth, alive, frames, budget>>

\* h.disconnect(), or the destructor of h.
Disconnect(h) ==
    /\ Running /\ handle[h] # 0
    /\ LET d == Drop(slots, depth, pending, handle[h]) IN
       slots' = d.slots /\ pending' = d.pending
    /\ handle' = [handle EXCEPT ![h] = 0]
    /\ UNCHANGED <<next_id, depth, alive, frames, budget>>

\* h = std::move(from)
Move(h, from) ==
    /\ Running /\ h # from /\ handle[from] # 0
    /\ LET d == Drop(slots, depth, pending, handle[h]) IN
       slots' = d.slots /\ pending' = d.pending
    /\ handle' = [handle EXCEPT ![h] = handle[from], ![from] = 0]
    /\ UNCHANGED <<next_id, depth, alive, frames, budget>>

\* The port is destroyed, with no write under way; the connections outlive it.
Destroy ==
    /\ frames = <<>> /\ alive
    /\ alive' = FALSE
    /\ slots' = <<>> /\ pending' = FALSE
    /\ UNCHANGED <<next_id, depth, handle, frames, budget>>

\* write, up to its loop: those subscribed now are the ones it is for.
Write ==
    /\ Running /\ alive /\ budget > 0 /\ Len(frames) < Depth
    /\ frames' = Append(frames, [limit |-> Len(slots), at |-> 1, calling |-> FALSE,
                                 audience |-> Connected(slots), sent |-> {}])
    /\ depth' = depth + 1
    /\ budget' = budget - 1
    /\ UNCHANGED <<slots, next_id, pending, handle, alive>>

Top == Last(frames)
Replace(f) == frames' = [frames EXCEPT ![Len(frames)] = f]

\* One turn of the loop: call the slot's subscriber if it is still connected.
Visit ==
    /\ ~Running /\ Top.at <= Top.limit
    /\ Replace(IF slots[Top.at].connected
               THEN [Top EXCEPT !.calling = TRUE, !.sent = @ \cup {slots[Top.at].id}]
               ELSE [Top EXCEPT !.at = @ + 1])
    /\ UNCHANGED <<slots, next_id, depth, pending, handle, alive, budget>>

\* The subscriber returns.
Return ==
    /\ frames # <<>> /\ Running
    /\ Replace([Top EXCEPT !.calling = FALSE, !.at = @ + 1])
    /\ UNCHANGED <<slots, next_id, depth, pending, handle, alive, budget>>

Leave ==
    /\ frames' = Front(frames)
    /\ depth' = depth - 1
    /\ Compacts(slots, depth - 1, pending)
    /\ UNCHANGED <<next_id, handle, alive, budget>>

\* The loop ends, and write returns to the code that called it.
Finish == ~Running /\ Top.at > Top.limit /\ Leave

\* The subscriber throws: this write is abandoned, and the code that called it may catch or throw again.
Throw == frames # <<>> /\ Running /\ Leave

Next ==
    \/ \E h \in Handles : Connect(h) \/ Disconnect(h)
    \/ \E h, from \in Handles : Move(h, from)
    \/ Destroy \/ Write \/ Visit \/ Return \/ Finish \/ Throw

Spec == Init /\ [][Next]_vars

-----------------------------------------------------------------------------
(* Properties *)

Slots == [id: 1..next_id - 1, connected: BOOLEAN]
Frames == [limit: Nat, at: Nat \ {0}, calling: BOOLEAN,
           audience: SUBSET (1..next_id - 1), sent: SUBSET (1..next_id - 1)]

\* The slots, the connections and the frames have their types, and ids are handed out once.
TypeOK ==
    /\ slots \in Seq(Slots)
    /\ \A i, j \in DOMAIN slots : slots[i].id = slots[j].id => i = j
    /\ next_id \in Nat \ {0}
    /\ handle \in [Handles -> 0..next_id - 1]
    /\ depth \in 0..Depth
    /\ frames \in Seq(Frames)
    /\ budget \in 0..Writes
    /\ {pending, alive} \subseteq BOOLEAN

\* write indexes slots up to the count it read at its start: slots never shrinks under a write.
InBounds == \A i \in DOMAIN frames : frames[i].limit <= Len(slots)

\* A subscriber is called only while some Connection holds it, through moves, reassignments and
\* disconnections in the middle of a write: no call reaches a subscriber whose owner has let go.
HeldExactly ==
    /\ alive => Connected(slots) = {handle[h] : h \in Handles} \ {0}
    /\ \A g, h \in Handles : handle[g] = handle[h] => g = h \/ handle[g] = 0

\* A write is for those connected when it began: each of them that stays connected has been called,
\* or else its slot is still ahead, so none is called twice; one that connects during the write is
\* not called.
AudienceServed == \A i \in DOMAIN frames :
    LET f == frames[i]
        ahead == {slots[j].id : j \in {k \in f.at + (IF f.calling THEN 1 ELSE 0)..f.limit :
                                           slots[k].connected}}
    IN /\ f.sent \subseteq f.audience
       /\ f.sent \cap ahead = {}
       /\ f.audience \cap Connected(slots) = (f.sent \cap Connected(slots)) \cup ahead

\* When the last write has returned or thrown, the slots of the disconnected are gone and the depth
\* is zero again, so that the port does not grow with every subscriber it ever had.
Compacted ==
    /\ depth = Len(frames)
    /\ frames = <<>> => ~pending /\ \A i \in DOMAIN slots : slots[i].connected

-----------------------------------------------------------------------------
(* The inductive invariant behind them. *)

\* Only the innermost write may be between two calls, only a port that exists is written to, and
\* what is left to erase is remembered.
Nested ==
    /\ \A i \in DOMAIN frames : i < Len(frames) => frames[i].calling
    /\ frames # <<>> => alive
    /\ ~pending => \A i \in DOMAIN slots : slots[i].connected

IInv == TypeOK /\ InBounds /\ HeldExactly /\ AudienceServed /\ Compacted /\ Nested
=============================================================================
