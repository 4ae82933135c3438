---------------------------- MODULE RegisterBits ----------------------------
(***************************************************************************)
(* The pure part of src/include/cpptb_vc/register_model.hpp: what a        *)
(* register handle predicts, encodes and compares.  A value or a mask is   *)
(* the set of its one bits.  A layout gives every field its bits, access,  *)
(* effects and volatility; fields of a layout do not overlap.              *)
(*                                                                         *)
(* The header implements the rules twice: RegisterHandle (up to 64 bits)   *)
(* works on whole fields with masks, WideRegisterHandle bit by bit.  Both  *)
(* are here, each in its own style.                                        *)
(***************************************************************************)
EXTENDS Naturals, FiniteSets

CONSTANTS
  Bits,      \* the bits of the register
  Reset,     \* reset_value
  ResetMask  \* reset_mask: the bits whose reset value is known

\* What an instance gives the constants.
ResetAssumption == Reset \subseteq Bits /\ ResetMask \subseteq Bits

Accesses == {"none", "ro", "wo", "rw", "w1", "rw1"}
ReadEffects == {"none", "rclr", "rset", "ruser"}
WriteEffects == {"none", "woset", "woclr", "wot", "wzs", "wzc", "wzt",
                 "wclr", "wset", "wuser"}
Readable(access) == access \in {"ro", "rw", "rw1"}
Writable(access) == access \in {"wo", "rw", "w1", "rw1"}
WritesOnce(access) == access \in {"w1", "rw1"}

FieldType == [bits : SUBSET Bits, access : Accesses, read : ReadEffects,
              write : WriteEffects, volatile : BOOLEAN]
\* A layout is a set of fields; validate_field_layout refuses an overlap.
LayoutOk(fields) ==
  /\ \A f \in fields : f.bits # {}
  /\ \A f, g \in fields : f # g => f.bits \cap g.bits = {}

BitsOf(fields) == UNION {f.bits : f \in fields}
WritableMask(fields) ==
  IF fields = {} THEN Bits ELSE BitsOf({f \in fields : Writable(f.access)})
NonvolatileMask(fields) ==
  IF fields = {} THEN Bits
  ELSE BitsOf({f \in fields : Readable(f.access) /\ ~f.volatile})
OnceMask(fields) == BitsOf({f \in fields : WritesOnce(f.access)})
HasReadable(fields) == fields = {} \/ \E f \in fields : Readable(f.access)
HasWritable(fields) == fields = {} \/ \E f \in fields : Writable(f.access)
WriteOnceOnly(fields) ==
  /\ \E f \in fields : Writable(f.access)
  /\ \A f \in fields : Writable(f.access) => WritesOnce(f.access)

\* What a handle keeps: staged and mirrored value, which of their bits are
\* known, and the write-once bits already written.
Model == [staged : SUBSET Bits, mirrored : SUBSET Bits,
          stagedValid : SUBSET Bits, mirroredValid : SUBSET Bits,
          once : SUBSET Bits]
ResetModel ==
  [staged |-> Reset \cap ResetMask, mirrored |-> Reset \cap ResetMask,
   stagedValid |-> ResetMask, mirroredValid |-> ResetMask, once |-> {}]

\* needs_update()
NeedsUpdate(fields, m) ==
  \E b \in WritableMask(fields) \cap m.stagedValid :
    b \notin m.mirroredValid \/ (b \in m.staged) # (b \in m.mirrored)
\* The staged bits an update would have to invent.
UnknownStaged(fields, m) == WritableMask(fields) \ m.stagedValid

\* stage(value), and stage_field for one field.
Staged(fields, m, value) ==
  LET mask == WritableMask(fields) IN
  [m EXCEPT !.staged = (@ \ mask) \cup (value \cap mask),
            !.stagedValid = @ \cup mask]
StagedField(f, m, value) ==
  [m EXCEPT !.staged = (@ \ f.bits) \cup (value \cap f.bits),
            !.stagedValid = @ \cup f.bits]
\* predict(value), Direct: the value is the truth for every bit.
Predicted(m, value) ==
  [m EXCEPT !.staged = value, !.mirrored = value,
            !.stagedValid = Bits, !.mirroredValid = Bits]

-----------------------------------------------------------------------------
(* RegisterHandle: field by field, with masks                              *)

Flip(x, y) == (x \ y) \cup (y \ x)
ApplyWriteEffect(previous, written, f) ==
  LET old == previous \cap f.bits
      new == written \cap f.bits
      zero == f.bits \ new
  IN (previous \ f.bits) \cup
     CASE f.write \in {"none", "wuser"} -> new
       [] f.write = "woset" -> old \cup new
       [] f.write = "woclr" -> old \ new
       [] f.write = "wot" -> Flip(old, new)
       [] f.write = "wzs" -> old \cup zero
       [] f.write = "wzc" -> old \ zero
       [] f.write = "wzt" -> Flip(old, zero)
       [] f.write = "wclr" -> {}
       [] f.write = "wset" -> f.bits
\* Which bits of the field are known after the write.
ApplyWriteValidMask(previous, written, f) ==
  LET old == previous \cap f.bits
      new == written \cap f.bits
  IN (previous \ f.bits) \cup
     CASE f.write \in {"none", "wclr", "wset"} -> f.bits
       [] f.write \in {"woset", "woclr"} -> old \cup new
       [] f.write \in {"wot", "wzt"} -> old
       [] f.write \in {"wzs", "wzc"} -> old \cup (f.bits \ new)
       [] f.write = "wuser" -> {}
ApplyReadEffect(sampled, f) ==
  CASE f.read \in {"none", "ruser"} -> sampled
    [] f.read = "rclr" -> sampled \ f.bits
    [] f.read = "rset" -> sampled \cup f.bits
ApplyReadValidMask(previous, f) ==
  (previous \ f.bits) \cup (IF f.read = "ruser" THEN {} ELSE f.bits)
\* Mutant: the encoding trusts mirrored bits that are not known.
EncodeTrustsUnknown(m, f) ==
  LET old == m.mirrored \cap f.bits
      want == m.staged \cap f.bits
      not(s) == f.bits \ s
  IN CASE f.write \in {"none", "wuser"} -> want
       [] f.write = "woset" -> want \ old
       [] f.write = "woclr" -> old \ want
       [] f.write = "wot" -> Flip(old, want)
       [] f.write = "wzs" -> old \cup not(want)
       [] f.write = "wzc" -> not(old) \cup want
       [] f.write = "wzt" -> not(Flip(old, want))
       [] f.write \in {"wclr", "wset"} -> {}

\* The bits to write so that the field reaches its staged value.
EncodeStagedWrite(m, f) ==
  LET old == m.mirrored \cap f.bits
      known == m.mirroredValid \cap f.bits
      want == m.staged \cap f.bits
      not(s) == f.bits \ s
  IN CASE f.write \in {"none", "wuser"} -> want
       [] f.write = "woset" -> want \cap (not(old) \cup not(known))
       [] f.write = "woclr" -> not(want) \cap (old \cup not(known))
       [] f.write = "wot" -> known \cap Flip(old, want)
       [] f.write = "wzs" -> (old \cap known) \cup not(want)
       [] f.write = "wzc" -> (not(old) \cap known) \cup want
       [] f.write = "wzt" -> not(known \cap Flip(old, want))
       [] f.write \in {"wclr", "wset"} -> {}
StagedWriteValue(fields, m) ==
  IF fields = {} THEN m.staged
  ELSE UNION {EncodeStagedWrite(m, f) : f \in {g \in fields : Writable(g.access)}}

\* next, with the bits hit[f] replaced by those of effected[f] in each field f.
Merge(next, fields, hit, effected) ==
  (next \ UNION {hit[f] : f \in fields}) \cup
  UNION {effected[f] \cap hit[f] : f \in fields}

\* predict_write_masked: a register without fields takes the enabled bits and
\* copies its whole mirror to staged; a field takes its effect on the enabled
\* bits that were not already written once, staged follows every enabled bit.
PredictWriteMasked(fields, m, value, enabled) ==
  IF fields = {} THEN
    LET next == (m.mirrored \ enabled) \cup (value \cap enabled)
        known == m.mirroredValid \cup enabled
    IN [m EXCEPT !.mirrored = next, !.staged = next,
                 !.mirroredValid = known, !.stagedValid = known]
  ELSE
    LET hit == [f \in fields |->
                  IF Writable(f.access) THEN (f.bits \cap enabled) \ m.once ELSE {}]
        next == Merge(m.mirrored, fields, hit,
                      [f \in fields |-> ApplyWriteEffect(m.mirrored, value, f)])
        known == Merge(m.mirroredValid, fields, hit,
                       [f \in fields |-> ApplyWriteValidMask(m.mirroredValid, value, f)])
        mask == WritableMask(fields) \cap enabled
    IN [mirrored |-> next, mirroredValid |-> known,
        staged |-> (m.staged \ mask) \cup (next \cap mask),
        stagedValid |-> (m.stagedValid \ mask) \cup (known \cap mask),
        once |-> m.once \cup (OnceMask(fields) \cap enabled)]

\* predict_read_masked
PredictReadMasked(fields, m, value, enabled) ==
  IF fields = {} THEN
    [m EXCEPT !.mirrored = (@ \ enabled) \cup (value \cap enabled),
              !.staged = (@ \ enabled) \cup (value \cap enabled),
              !.mirroredValid = @ \cup enabled, !.stagedValid = @ \cup enabled]
  ELSE
    LET hit == [f \in fields |->
                  IF Readable(f.access) THEN f.bits \cap enabled ELSE {}]
        sampled == (m.mirrored \ enabled) \cup (value \cap enabled)
        next == Merge(m.mirrored, fields, hit,
                      [f \in fields |-> ApplyReadEffect(sampled, f)])
        known == Merge(m.mirroredValid, fields, hit,
                       [f \in fields |-> ApplyReadValidMask(m.mirroredValid, f)])
        mask == UNION {hit[f] : f \in fields}
    IN [m EXCEPT !.mirrored = next, !.mirroredValid = known,
                 !.staged = (@ \ mask) \cup (next \cap mask),
                 !.stagedValid = (@ \ mask) \cup (known \cap mask)]

\* predicted_write_state: what update() expects a whole write to lead to.  A
\* write-once field any bit of which was written is left out as a whole.
PredictedWriteState(fields, m, written) ==
  IF fields = {} THEN [value |-> written, valid |-> Bits]
  ELSE
    LET hit == [f \in fields |->
                  IF Writable(f.access) /\ f.bits \cap m.once = {} THEN f.bits ELSE {}]
    IN [value |-> Merge(m.mirrored, fields, hit,
                        [f \in fields |-> ApplyWriteEffect(m.mirrored, written, f)]),
        valid |-> Merge(m.mirroredValid, fields, hit,
                        [f \in fields |-> ApplyWriteValidMask(m.mirroredValid, written, f)])]
\* Mutant: write-once bits are not recorded.
CommitForgetsOnce(fields, m, predicted) ==
  LET mask == WritableMask(fields) IN
  [m EXCEPT !.staged = (@ \ mask) \cup (predicted.value \cap mask),
            !.stagedValid = (@ \ mask) \cup (predicted.valid \cap mask),
            !.mirrored = predicted.value, !.mirroredValid = predicted.valid]

\* commit_predicted_write_state
Committed(fields, m, predicted) ==
  LET mask == WritableMask(fields) IN
  [staged |-> (m.staged \ mask) \cup (predicted.value \cap mask),
   stagedValid |-> (m.stagedValid \ mask) \cup (predicted.valid \cap mask),
   mirrored |-> predicted.value, mirroredValid |-> predicted.valid,
   once |-> m.once \cup OnceMask(fields)]

-----------------------------------------------------------------------------
(* WideRegisterHandle: bit by bit                                          *)

WriteEffectBit(previous, written, effect) ==
  CASE effect \in {"none", "wuser"} -> written
    [] effect = "woset" -> previous \/ written
    [] effect = "woclr" -> previous /\ ~written
    [] effect = "wot" -> previous # written
    [] effect = "wzs" -> previous \/ ~written
    [] effect = "wzc" -> previous /\ written
    [] effect = "wzt" -> previous = written
    [] effect = "wclr" -> FALSE
    [] effect = "wset" -> TRUE
WriteValidBit(valid, written, effect) ==
  CASE effect \in {"none", "wclr", "wset"} -> TRUE
    [] effect \in {"woset", "woclr"} -> valid \/ written
    [] effect \in {"wot", "wzt"} -> valid
    [] effect \in {"wzs", "wzc"} -> valid \/ ~written
    [] effect = "wuser" -> FALSE
StagedWriteBit(previous, valid, staged, effect) ==
  CASE effect \in {"none", "wuser"} -> staged
    [] effect = "woset" -> staged /\ (~previous \/ ~valid)
    [] effect = "woclr" -> ~staged /\ (previous \/ ~valid)
    [] effect = "wot" -> valid /\ previous # staged
    [] effect = "wzs" -> (previous /\ valid) \/ ~staged
    [] effect = "wzc" -> (~previous /\ valid) \/ staged
    [] effect = "wzt" -> (valid /\ previous = staged) \/ ~valid
    [] effect \in {"wclr", "wset"} -> FALSE

\* old with the bits touched replaced by those of value.
SetBits(old, touched, value) == (old \ touched) \cup (value \cap touched)
FieldAt(fields, b) == CHOOSE f \in fields : b \in f.bits

\* predict_write_masked: a bit already written once keeps its staged value.
WidePredictWriteMasked(fields, m, value, enabled) ==
  IF fields = {} THEN
    [m EXCEPT !.mirrored = (@ \ enabled) \cup (value \cap enabled),
              !.staged = (@ \ enabled) \cup (value \cap enabled),
              !.mirroredValid = @ \cup enabled, !.stagedValid = @ \cup enabled]
  ELSE
    LET touched == (WritableMask(fields) \cap enabled) \ m.once
        next == {b \in touched : WriteEffectBit(b \in m.mirrored, b \in value,
                                                FieldAt(fields, b).write)}
        valid == {b \in touched : WriteValidBit(b \in m.mirroredValid, b \in value,
                                                FieldAt(fields, b).write)}
    IN [mirrored |-> SetBits(m.mirrored, touched, next),
        staged |-> SetBits(m.staged, touched, next),
        mirroredValid |-> SetBits(m.mirroredValid, touched, valid),
        stagedValid |-> SetBits(m.stagedValid, touched, valid),
        once |-> m.once \cup (touched \cap OnceMask(fields))]

\* predict_read_masked
WidePredictReadMasked(fields, m, value, enabled) ==
  IF fields = {} THEN
    [m EXCEPT !.mirrored = (@ \ enabled) \cup (value \cap enabled),
              !.staged = (@ \ enabled) \cup (value \cap enabled),
              !.mirroredValid = @ \cup enabled, !.stagedValid = @ \cup enabled]
  ELSE
    LET touched == BitsOf({f \in fields : Readable(f.access)}) \cap enabled
        next == {b \in touched : LET effect == FieldAt(fields, b).read
                                 IN effect # "rclr" /\ (effect = "rset" \/ b \in value)}
        valid == {b \in touched : FieldAt(fields, b).read # "ruser"}
    IN [m EXCEPT !.mirrored = SetBits(@, touched, next),
                 !.staged = SetBits(@, touched, next),
                 !.mirroredValid = SetBits(@, touched, valid),
                 !.stagedValid = SetBits(@, touched, valid)]

WideStagedWriteValue(fields, m) ==
  IF fields = {} THEN m.staged
  ELSE {b \in WritableMask(fields) :
          StagedWriteBit(b \in m.mirrored, b \in m.mirroredValid, b \in m.staged,
                         FieldAt(fields, b).write)}

\* predicted_write_value and predicted_write_valid_mask
WidePredictedValue(fields, m, written) ==
  IF fields = {} THEN written
  ELSE LET touched == WritableMask(fields) \ m.once
       IN SetBits(m.mirrored, touched,
                  {b \in touched : WriteEffectBit(b \in m.mirrored, b \in written,
                                                  FieldAt(fields, b).write)})
WidePredictedValid(fields, m, written) ==
  IF fields = {} THEN Bits
  ELSE LET touched == WritableMask(fields) \ m.once
       IN SetBits(m.mirroredValid, touched,
                  {b \in touched : WriteValidBit(b \in m.mirroredValid, b \in written,
                                                 FieldAt(fields, b).write)})
=============================================================================
