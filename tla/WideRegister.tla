----------------------------- MODULE WideRegister -----------------------------
(***************************************************************************)
(* WideRegisterHandle of src/include/cpptb_vc/register_model.hpp: the      *)
(* handle of a register of more than 64 bits.  It predicts bit by bit, and *)
(* an update is a write of the encoded value, predicted when the response  *)
(* is in.  One action runs a coroutine from one co_await to the next.      *)
(***************************************************************************)
EXTENDS RegisterBus

\* reset() takes the reset value as it is.
WideResetModel == [ResetModel EXCEPT !.staged = Reset, !.mirrored = Reset]

Init == BusInit(WideResetModel)

\* read, mirror_unlocked: up to the first transfer.
StartRead(c) ==
  /\ op[c].at = "lock" /\ holder = Nobody /\ op[c].kind \in {"read", "mirror"}
  /\ IF HasReadable(fields) THEN Issued(c, {}) ELSE EndedAtOnce(c)
  /\ UNCHANGED <<fields, dev, burnt, model, seen, mismatch, doubted>>
\* frontdoor_read, then the comparison of mirror_unlocked, then predict.
ReadResponse(c) ==
  LET o == op[c]
      valid == Sampled(o)
      last == o.failed \/ o.sent + 1 = Len(Chunks)
  IN /\ o.at = "acted" /\ ~Writing(o)
     /\ Continued(c) /\ ReadEnds(c)
     /\ model' = IF last /\ AutoPredict
                 THEN WidePredictReadMasked(fields, model, o.data, valid) ELSE model
     /\ UNCHANGED <<fields, dev, burnt, seen>>

\* write_unlocked, up to the first transfer.
StartWrite(c) ==
  /\ op[c].at = "lock" /\ holder = Nobody /\ op[c].kind = "write"
  /\ IF WriteRefused THEN EndedAtOnce(c) ELSE Issued(c, op[c].value)
  /\ UNCHANGED <<fields, dev, burnt, model, seen, mismatch, doubted>>
\* update_unlocked, up to the first transfer.
StartUpdate(c) ==
  /\ op[c].at = "lock" /\ holder = Nobody /\ op[c].kind \in {"update", "field"}
  /\ IF ~NeedsUpdate(fields, model) \/ UpdateThrows
     THEN EndedAtOnce(c)
     ELSE Issued(c, WideStagedWriteValue(fields, model))
  /\ UNCHANGED <<fields, dev, burnt, model, seen, mismatch, doubted>>
\* A write transfer is answered: predict it, go on or end.
WriteResponse(c) ==
  LET o == op[c] IN
  /\ o.at = "acted" /\ Writing(o)
  /\ Continued(c)
  /\ model' = IF o.failed \/ ~AutoPredict THEN model
              ELSE WidePredictWriteMasked(fields, model, o.value, Chunk(o))
  /\ UNCHANGED <<fields, dev, burnt, seen, mismatch, doubted>>

\* WideRegisterPredictor::write: the monitor reports the oldest transfer.
Observe ==
  /\ seen # <<>>
  /\ LET t == Head(seen) IN
       model' = IF t.kind = "read"
                THEN WidePredictReadMasked(fields, model, t.value, t.enabled)
                ELSE WidePredictWriteMasked(fields, model, t.value, t.enabled)
  /\ seen' = Tail(seen)
  /\ op' = Disturbed
  /\ UNCHANGED <<fields, dev, burnt, holder, mismatch, doubted>>
Coroutine(c) == StartRead(c) \/ ReadResponse(c) \/ StartWrite(c)
                \/ StartUpdate(c) \/ WriteResponse(c)
Next ==
  \/ Call \/ CallField \/ \E c \in Clients : Coroutine(c) \/ Serve(c) \/ Refuse(c)
  \/ Observe \/ OtherWrite \/ Hardware
  \/ Stage \/ StageField \/ Peek \/ Poke \/ ResetAll(WideResetModel)
Spec == Init /\ [][Next]_vars

-----------------------------------------------------------------------------

\* Every variable stays in its type, and the lock has one holder at a time.
TypeOK == BusTypeOK
=============================================================================
