----------------------------- MODULE RegisterBus -----------------------------
(***************************************************************************)
(* What a register handle (register_model.hpp) works with: the register in *)
(* the device, the bus that carries its transfers, the coroutines that     *)
(* call the handle, and the operations that return at once.  Register and  *)
(* WideRegister add the coroutines of the two handle classes.              *)
(*                                                                         *)
(* The bus and the device are outside the source: a transfer takes effect  *)
(* in the device at some instant between the request and the response, or  *)
(* is refused and has none.                                                *)
(***************************************************************************)
EXTENDS RegisterBits, Sequences

CONSTANTS
  Clients,      \* coroutines that use the handle
  Nobody,       \* the lock is free
  Layouts,      \* the layouts to start from
  Kinds,        \* the calls they make
  Chunks,       \* the bits of each transfer, in transfer order
  AutoPredict,  \* auto_predict_; if FALSE a monitor feeds a RegisterPredictor
  Overlap       \* bound: whether peek, poke and reset fall into transfers too

\* What an instance gives the constants.
BusAssumption ==
  /\ Nobody \notin Clients
  /\ Kinds \subseteq {"read", "write", "update", "mirror", "field"}
  /\ \A fields \in Layouts : LayoutOk(fields)
  /\ Chunks \in Seq(SUBSET Bits) /\ Chunks # <<>>
  /\ UNION {Chunks[i] : i \in 1..Len(Chunks)} = Bits
  /\ \A i, j \in 1..Len(Chunks) : i # j => Chunks[i] \cap Chunks[j] = {}

VARIABLES
  fields,    \* the descriptor's fields; never changes
  dev,       \* the register in the device
  burnt,     \* the write-once bits the device has taken
  model,     \* the handle's state
  holder,    \* who holds lock_
  op,        \* what each client is doing
  seen,      \* completed transfers the monitor has not yet reported
  mismatch,  \* the mirror() that ended last has reported a difference
  doubted    \* the bits a peek, poke or reset during a transfer leaves unsure
vars == <<fields, dev, burnt, model, holder, op, seen, mismatch, doubted>>

Idle == [kind |-> "read", at |-> "idle", sent |-> 0, value |-> {}, data |-> {},
         valid |-> {}, failed |-> FALSE, calm |-> TRUE, was |-> ResetModel]
\* For a field's write(), valid is the field and data the value wanted.
OpType == [kind : Kinds \cup {"read"}, at : {"idle", "lock", "bus", "acted"},
           sent : 0..Len(Chunks), value : SUBSET Bits, data : SUBSET Bits,
           valid : SUBSET Bits, failed : BOOLEAN, calm : BOOLEAN, was : Model]
Writing(o) == o.kind \in {"write", "update", "field"}
Chunk(o) == Chunks[o.sent + 1]
DoneBits(o) == UNION {Chunks[i] : i \in 1..o.sent}

-----------------------------------------------------------------------------
(* The device, by the meaning SystemRDL gives the effects                  *)

BitAfterWrite(b, written) ==
  LET was == b \in dev
      one == b \in written
      effect == (CHOOSE f \in fields : b \in f.bits).write
  IN CASE fields = {} \/ effect = "none" -> {one}
       [] effect = "woset" -> {IF one THEN TRUE ELSE was}
       [] effect = "woclr" -> {IF one THEN FALSE ELSE was}
       [] effect = "wot" -> {IF one THEN ~was ELSE was}
       [] effect = "wzs" -> {IF one THEN was ELSE TRUE}
       [] effect = "wzc" -> {IF one THEN was ELSE FALSE}
       [] effect = "wzt" -> {IF one THEN was ELSE ~was}
       [] effect = "wclr" -> {FALSE}
       [] effect = "wset" -> {TRUE}
       [] effect = "wuser" -> BOOLEAN
BitAfterRead(b) ==
  LET effect == (CHOOSE f \in fields : b \in f.bits).read
  IN CASE fields = {} \/ effect = "none" -> {b \in dev}
       [] effect = "rclr" -> {FALSE}
       [] effect = "rset" -> {TRUE}
       [] effect = "ruser" -> BOOLEAN
ReadableBits == IF fields = {} THEN Bits
                ELSE BitsOf({f \in fields : Readable(f.access)})
\* A write of the enabled bits, and a read, of the device.
DeviceWrite(written, enabled) ==
  LET touched == (WritableMask(fields) \cap enabled) \ burnt IN
  /\ dev' \in {d \in SUBSET Bits : \A b \in Bits :
                 IF b \in touched THEN (b \in d) \in BitAfterWrite(b, written)
                 ELSE (b \in d) = (b \in dev)}
  /\ burnt' = burnt \cup (touched \cap OnceMask(fields))
DeviceRead(enabled) ==
  LET touched == ReadableBits \cap enabled IN
  /\ dev' \in {d \in SUBSET Bits : \A b \in Bits :
                 IF b \in touched THEN (b \in d) \in BitAfterRead(b)
                 ELSE (b \in d) = (b \in dev)}
  /\ burnt' = burnt

\* What the monitor will report of the transfer just done.
Report(kind, value, enabled) ==
  seen' = IF AutoPredict THEN seen
          ELSE Append(seen, [kind |-> kind, value |-> value, enabled |-> enabled])
RoomToReport == AutoPredict \/ Len(seen) < 2

\* The device takes the transfer of a client, or answers with an error.
Serve(c) ==
  LET o == op[c] IN
  /\ o.at = "bus" /\ RoomToReport
  /\ op' = [op EXCEPT ![c].at = "acted",
              ![c].data = IF Writing(o) THEN @
                          ELSE @ \cup (dev \cap Chunk(o) \cap ReadableBits)]
  /\ IF Writing(o)
     THEN DeviceWrite(o.value, Chunk(o)) /\ Report("write", o.value, Chunk(o))
     ELSE DeviceRead(Chunk(o)) /\ Report("read", dev \cap ReadableBits, Chunk(o))
  /\ UNCHANGED <<fields, model, holder, mismatch, doubted>>
Refuse(c) ==
  /\ op[c].at = "bus"
  /\ op' = [op EXCEPT ![c].at = "acted", ![c].failed = TRUE]
  /\ UNCHANGED <<fields, dev, burnt, model, holder, seen, mismatch, doubted>>
\* A volatile field changes by itself.
Hardware ==
  \E f \in fields : \E v \in SUBSET f.bits :
    /\ f.volatile /\ v # dev \cap f.bits
    /\ dev' = (dev \ f.bits) \cup v
    /\ UNCHANGED <<fields, burnt, model, holder, op, seen, mismatch, doubted>>
\* Another master writes some byte lanes of one transfer.
OtherWrite ==
  \E i \in 1..Len(Chunks) : \E enabled \in SUBSET Chunks[i] :
    \E value \in SUBSET enabled :
      /\ ~AutoPredict /\ RoomToReport /\ enabled # {}
      /\ DeviceWrite(value, enabled) /\ Report("write", value, enabled)
      /\ UNCHANGED <<fields, model, holder, op, mismatch, doubted>>

-----------------------------------------------------------------------------
(* Operations that return at once, between two steps of any coroutine      *)

\* The calls under way are no longer alone with the model.  What it was when
\* they began matters from here on to those that have it in their frames: a
\* mirror(), and an update of one transfer.
Disturbed ==
  [c \in Clients |->
     IF op[c].at = "idle" THEN op[c]
     ELSE [op[c] EXCEPT !.calm = FALSE,
             !.was = IF op[c].kind = "mirror" \/ (Writing(op[c]) /\ Len(Chunks) = 1)
                     THEN @ ELSE ResetModel]]

Stage ==
  \E value \in SUBSET Bits :
    /\ model' = Staged(fields, model, value) /\ model' # model
    /\ op' = Disturbed
    /\ UNCHANGED <<fields, dev, burnt, holder, seen, mismatch, doubted>>
StageField ==
  \E f \in fields : \E value \in SUBSET f.bits :
    /\ Writable(f.access)
    /\ model' = StagedField(f, model, value) /\ model' # model
    /\ op' = Disturbed
    /\ UNCHANGED <<fields, dev, burnt, holder, seen, mismatch, doubted>>

\* The bits whose effect has happened in the device while its prediction has
\* not: the transfer under way, and for a read all transfers so far, as a
\* read predicts once at its end; or all the monitor has not yet reported.
InFlight ==
  IF ~AutoPredict THEN UNION {seen[i].enabled : i \in 1..Len(seen)}
  ELSE UNION {LET served == IF op[c].at = "acted" /\ ~op[c].failed
                            THEN Chunk(op[c]) ELSE {}
              IN IF Writing(op[c]) THEN served ELSE served \cup op[c].valid :
                c \in {d \in Clients : op[d].at \in {"bus", "acted"}}}
\* An update of one transfer, never one of a wide register, commits the state
\* it computed for the whole register before the transfer.
WillCommit ==
  AutoPredict /\ Len(Chunks) = 1 /\ \E c \in Clients :
    op[c].kind \in {"update", "field"} /\ op[c].at \in {"bus", "acted"} /\ ~op[c].failed
\* What is yet to be predicted or committed will overwrite what the operation
\* tells the model now.  Bits written once are known by prediction only.
Doubted(kept) ==
  /\ Overlap \/ (holder = Nobody /\ seen = <<>>)
  /\ doubted' = kept \cup (IF WillCommit THEN Bits ELSE InFlight)

\* peek() reads the device through the backdoor and predicts what it saw.  It
\* does not take the lock, nor do poke() and reset().
Peek ==
  /\ model' = Predicted(model, dev) /\ model' # model
  /\ op' = Disturbed
  /\ Doubted(doubted \cap OnceMask(fields))
  /\ UNCHANGED <<fields, dev, burnt, holder, seen, mismatch>>
Poke ==
  \E value \in SUBSET Bits :
    /\ dev' = value /\ dev' # dev
    /\ model' = Predicted(model, value)
    /\ op' = Disturbed
    /\ Doubted(doubted \cap OnceMask(fields))
    /\ UNCHANGED <<fields, burnt, holder, seen, mismatch>>
\* The test resets the device and calls reset().
ResetAll(resetModel) ==
  /\ dev' \in {d \in SUBSET Bits : d \cap ResetMask = Reset \cap ResetMask}
  /\ burnt' = {} /\ model' = resetModel
  /\ op' = Disturbed
  /\ Doubted({})
  /\ UNCHANGED <<fields, holder, seen, mismatch>>

-----------------------------------------------------------------------------

BusInit(resetModel) ==
  /\ fields \in Layouts
  /\ dev \in {d \in SUBSET Bits : d \cap ResetMask = Reset \cap ResetMask}
  /\ burnt = {} /\ model = resetModel
  /\ holder = Nobody /\ op = [c \in Clients |-> Idle]
  /\ seen = <<>> /\ mismatch = FALSE /\ doubted = {}

\* A coroutine calls the handle and queues for the lock.
Call ==
  \E c \in Clients : \E kind \in Kinds : \E value \in SUBSET Bits :
    /\ op[c].at = "idle"
    /\ kind # "field" /\ (kind # "write" => value = {})
    /\ op' = [op EXCEPT ![c] = [Idle EXCEPT !.kind = kind, !.at = "lock",
                                            !.value = value]]
    /\ UNCHANGED <<fields, dev, burnt, model, holder, seen, mismatch, doubted>>

\* RegisterFieldHandle::write: stage the field, then call update().
CallField ==
  \E c \in Clients : \E f \in fields : \E value \in SUBSET f.bits :
    /\ op[c].at = "idle" /\ "field" \in Kinds /\ Writable(f.access)
    /\ model' = StagedField(f, model, value)
    /\ op' = [d \in Clients |->
         IF d = c THEN [Idle EXCEPT !.kind = "field", !.at = "lock",
                                    !.data = value, !.valid = f.bits]
         ELSE IF op[d].at # "idle" /\ ~(op[d].kind = "field" /\ op[d].valid # f.bits)
         THEN [op[d] EXCEPT !.calm = FALSE] ELSE op[d]]
    /\ UNCHANGED <<fields, dev, burnt, holder, seen, mismatch, doubted>>

\* enforce_write_access, and what makes update() throw before a transfer.
WriteRefused ==
  \/ ~HasWritable(fields)
  \/ model.once # {} /\ WriteOnceOnly(fields)
UpdateThrows == UnknownStaged(fields, model) # {} \/ WriteRefused

\* The client holds the lock and has issued its first transfer.
Issued(c, value) ==
  /\ holder' = c
  /\ op' = [op EXCEPT ![c].at = "bus", ![c].value = value, ![c].was = model,
                      ![c].calm = @ \/ op[c].kind # "field"]
\* The call ends at once: nothing to do, or an exception.
EndedAtOnce(c) == holder' = holder /\ op' = [op EXCEPT ![c] = Idle]
\* The response is in: the next transfer, or the end of the call.
Continued(c) ==
  LET o == op[c] IN
  IF ~o.failed /\ o.sent + 1 < Len(Chunks)
  THEN /\ op' = [op EXCEPT ![c].at = "bus", ![c].sent = @ + 1,
                           ![c].valid = IF Writing(o) THEN @ ELSE @ \cup Chunk(o)]
       /\ holder' = holder
  ELSE op' = [op EXCEPT ![c] = Idle] /\ holder' = Nobody
\* The bits a finished read has sampled.
Sampled(o) == o.valid \cup (IF o.failed THEN {} ELSE Chunk(o))
\* mirror() compares readable, nonvolatile bits known before the read.
Differing(o, valid) ==
  LET compared == NonvolatileMask(fields) \cap o.was.mirroredValid \cap valid
  IN {b \in compared : (b \in o.data) # (b \in o.was.mirrored)}
\* The end of a read or a mirror().  A read that nothing fell into tells the
\* model again what the bits are.
ReadEnds(c) ==
  LET o == op[c]
      last == o.failed \/ o.sent + 1 = Len(Chunks) IN
  /\ mismatch' = IF last /\ o.kind = "mirror" THEN Differing(o, Sampled(o)) # {}
                 ELSE mismatch
  /\ doubted' = IF last /\ o.calm /\ AutoPredict
                THEN doubted \ ((Sampled(o) \cap ReadableBits) \ OnceMask(fields))
                ELSE doubted

-----------------------------------------------------------------------------

\* Every variable stays in its type, and the lock has one holder at a time.
BusTypeOK ==
  /\ fields \in Layouts /\ dev \in SUBSET Bits
  /\ burnt \subseteq OnceMask(fields)
  /\ model \in Model /\ op \in [Clients -> OpType]
  /\ holder \in Clients \cup {Nobody}
  /\ \A c \in Clients : (op[c].at \in {"bus", "acted"}) = (holder = c)
  /\ Len(seen) <= 2 /\ mismatch \in BOOLEAN /\ doubted \in SUBSET Bits

\* Volatile bits may differ at any time; bits nobody can read or write never do.
StableBits == IF fields = {} THEN Bits
              ELSE BitsOf({f \in fields : ~f.volatile})

\* The mirror is the device: every bit the handle calls known, except volatile
\* ones and those of a transfer not yet predicted, has the device's value, and
\* the handle knows which write-once bits the device has taken.  This is what
\* the prediction of every access policy, chunk, failure and byte enable in
\* predict_write_masked and predict_read_masked is for.  A peek, poke or reset
\* that falls into a transfer costs this for the bits of the transfer (all bits,
\* if it is an update of one transfer), until they are read or peeked again.
MirrorExact ==
  /\ \A b \in (StableBits \cap model.mirroredValid) \ (InFlight \cup doubted) :
       (b \in model.mirrored) = (b \in dev)
  /\ (OnceMask(fields) \cap (burnt \ model.once)) \subseteq InFlight

\* A mirror() into which nothing fell reports a mismatch only when the device
\* did something the model was not told of: the comparison leaves out unknown,
\* volatile, unreadable and unsampled bits (mirror_locked's compare_mask).
NoFalseAlarmStep ==
  \A c \in Clients :
    op[c].kind = "mirror" /\ op[c].at = "acted" /\ op'[c].at = "idle" /\ op[c].calm =>
      (mismatch' => Differing(op[c], Sampled(op[c])) \subseteq doubted)

\* update() is over.
Updated(c) == op[c].kind \in {"update", "field"} /\ op[c].at = "acted" /\ op'[c].at = "idle"
\* After an update() that succeeded, undisturbed, no further one is needed:
\* "staged state converges to the predicted hardware state so repeated
\* update() calls do not loop forever".
ConvergesStep ==
  \A c \in Clients : Updated(c) /\ ~op[c].failed /\ op[c].calm /\ AutoPredict
    => ~NeedsUpdate(fields, model')

\* "unissued or failed chunks retain their previous value and validity": when
\* an undisturbed call ends with a failed transfer, the bits of that and of
\* the later transfers are as they were when it began.
RetainedStep ==
  \A c \in Clients :
    op[c].at = "acted" /\ op[c].failed /\ op'[c].at = "idle" /\ op[c].calm =>
      \A b \in Bits \ DoneBits(op[c]) :
        /\ (b \in model'.staged) = (b \in op[c].was.staged)
        /\ (b \in model'.stagedValid) = (b \in op[c].was.stagedValid)
        /\ (b \in model'.mirrored) = (b \in op[c].was.mirrored)
        /\ (b \in model'.mirroredValid) = (b \in op[c].was.mirroredValid)
=============================================================================
