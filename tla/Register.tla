------------------------------- MODULE Register -------------------------------
(***************************************************************************)
(* RegisterHandle of src/include/cpptb_vc/register_model.hpp: read, write, *)
(* update and mirror of a register of up to 64 bits, used by several       *)
(* coroutines, with split transfers, failing transfers and direct access   *)
(* in between.  One action runs a coroutine from one co_await to the next. *)
(***************************************************************************)
EXTENDS RegisterBus

Init == BusInit(ResetModel)

\* read_locked, mirror_locked: up to the first transfer.
StartRead(c) ==
  /\ op[c].at = "lock" /\ holder = Nobody /\ op[c].kind \in {"read", "mirror"}
  /\ IF HasReadable(fields) THEN Issued(c, {}) ELSE EndedAtOnce(c)
  /\ UNCHANGED <<fields, dev, burnt, model, seen, mismatch, doubted>>
\* read_locked predicts what it has after a failure too.  mirror_locked
\* compares with the mirror of before the first transfer, then predicts.
ReadResponse(c) ==
  LET o == op[c]
      valid == Sampled(o)
      last == o.failed \/ o.sent + 1 = Len(Chunks)
  IN /\ o.at = "acted" /\ ~Writing(o)
     /\ Continued(c) /\ ReadEnds(c)
     /\ model' = IF last /\ AutoPredict
                 THEN PredictReadMasked(fields, model, o.data, valid) ELSE model
     /\ UNCHANGED <<fields, dev, burnt, seen>>

\* write_unlocked, up to the first transfer.
StartWrite(c) ==
  /\ op[c].at = "lock" /\ holder = Nobody /\ op[c].kind = "write"
  /\ IF WriteRefused THEN EndedAtOnce(c) ELSE Issued(c, op[c].value)
  /\ UNCHANGED <<fields, dev, burnt, model, seen, mismatch, doubted>>
\* update_locked, up to the first transfer: nothing to do, an unknown staged
\* bit, a refused write, or the write that leads to the staged value.
StartUpdate(c) ==
  /\ op[c].at = "lock" /\ holder = Nobody /\ op[c].kind \in {"update", "field"}
  /\ IF ~NeedsUpdate(fields, model) \/ UpdateThrows
     THEN EndedAtOnce(c)
     ELSE Issued(c, StagedWriteValue(fields, model))
  /\ UNCHANGED <<fields, dev, burnt, model, seen, mismatch, doubted>>
\* Mutant: a failed write discards the request.
FailureUnstages(c) ==
  LET o == op[c] IN
  /\ o.at = "acted" /\ Writing(o)
  /\ Continued(c)
  /\ model' = IF o.failed THEN [model EXCEPT !.staged = model.mirrored]
              ELSE IF ~AutoPredict THEN model
              ELSE PredictWriteMasked(fields, model, o.value, Chunk(o))
  /\ UNCHANGED <<fields, dev, burnt, seen, mismatch, doubted>>

\* A write transfer is answered: predict it, go on or end.  An update of one
\* transfer commits the state it computed before the transfer.
WriteResponse(c) ==
  LET o == op[c] IN
  /\ o.at = "acted" /\ Writing(o)
  /\ Continued(c)
  /\ model' = IF o.failed \/ ~AutoPredict THEN model
              ELSE IF o.kind # "write" /\ Len(Chunks) = 1
              THEN Committed(fields, model, PredictedWriteState(fields, o.was, o.value))
              ELSE PredictWriteMasked(fields, model, o.value, Chunk(o))
  /\ UNCHANGED <<fields, dev, burnt, seen, mismatch, doubted>>

\* RegisterPredictor::write: the monitor reports the oldest transfer.
Observe ==
  /\ seen # <<>>
  /\ LET t == Head(seen) IN
       model' = IF t.kind = "read"
                THEN PredictReadMasked(fields, model, t.value, t.enabled)
                ELSE PredictWriteMasked(fields, model, t.value, t.enabled)
  /\ seen' = Tail(seen)
  /\ op' = Disturbed
  /\ UNCHANGED <<fields, dev, burnt, holder, mismatch, doubted>>
Coroutine(c) == StartRead(c) \/ ReadResponse(c) \/ StartWrite(c)
                \/ StartUpdate(c) \/ WriteResponse(c)
Next ==
  \/ Call \/ CallField \/ \E c \in Clients : Coroutine(c) \/ Serve(c) \/ Refuse(c)
  \/ Observe \/ OtherWrite \/ Hardware
  \/ Stage \/ StageField \/ Peek \/ Poke \/ ResetAll(ResetModel)
Spec == Init /\ [][Next]_vars

-----------------------------------------------------------------------------

\* Every variable stays in its type, and the lock has one holder at a time.
TypeOK == BusTypeOK

\* No call is running.
AtRest == holder = Nobody /\ \A c \in Clients : op[c].at = "idle"

\* If any write leads from the mirror to the staged value on every writable
\* bit, then the one staged_write_value computes does.
EncodingReaches ==
  LET reaches(w) == LET p == PredictedWriteState(fields, model, w) IN
        \A b \in WritableMask(fields) :
          b \in p.valid /\ (b \in p.value) = (b \in model.staged)
  IN AtRest /\ (\E w \in SUBSET Bits : reaches(w)) => reaches(StagedWriteValue(fields, model))

\* The two implementations of the register rules agree in every state at rest,
\* for every value and enabled mask, except that the wide one leaves
\* the staged value of a bit that was written once.
WideAgrees ==
  AtRest => \A value, enabled \in SUBSET Bits :
    LET n == PredictWriteMasked(fields, model, value, enabled)
        w == WidePredictWriteMasked(fields, model, value, enabled)
        free == Bits \ model.once
    IN /\ fields # {} => /\ n.staged \cap free = w.staged \cap free
                         /\ n.stagedValid \cap free = w.stagedValid \cap free
       /\ n.mirrored = w.mirrored /\ n.mirroredValid = w.mirroredValid
       /\ n.once = w.once
       /\ PredictReadMasked(fields, model, value, enabled)
            = WidePredictReadMasked(fields, model, value, enabled)
       /\ StagedWriteValue(fields, model) = WideStagedWriteValue(fields, model)

\* "Concurrent frontdoor accesses to one register are serialized": a field's
\* write() that reports success, with no other access to that field since it
\* was called, has brought the field of the device to the value.
FieldWriteLands ==
  [][\A c \in Clients :
       /\ op[c].kind = "field" /\ op[c].at # "idle" /\ op'[c].at = "idle"
       /\ op[c].calm /\ ~op[c].failed /\ doubted = {}
       /\ ~(op[c].at = "lock" /\ NeedsUpdate(fields, model) /\ UpdateThrows)
       => dev' \cap op[c].valid = op[c].data]_vars
=============================================================================
