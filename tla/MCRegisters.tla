---------------------------- MODULE MCRegisters ----------------------------
(* The register model and what surrounds it: the two register handles, alone,*)
(* shared by two coroutines and fed by a monitor; the address maps; the two  *)
(* memory handles; the memory model with its predictor; the register         *)
(* sequences and the register coverage.  A run explores them one beside the  *)
(* other: the initial state chooses the subject, and only the subject moves. *)
EXTENDS Naturals, Sequences, FiniteSets, TLC

CONSTANTS
  Subjects,      \* what the run explores
  c1, c2,        \* clients of a register
  Nobody, Absent, \* no client; what is not in the subject
  Custom         \* a frontdoor of the user's

VARIABLES
  subject,
  \* Register, WideRegister
  fields, dev, burnt, model, holder, op, seen, mismatch, doubted,
  \* AddressMap
  routes, entries, predicted, aliases,
  \* RegisterMemory, WideRegisterMemory
  storage, memoryOp, stray,
  \* SparseMemory
  regions, callback, access, predictor,
  \* RegisterSequences
  visited, register, defect, seq, result, failed, bus,
  \* RegisterCoverage
  counts, indices, tally, told, steps

registerVariables == <<fields, dev, burnt, model, holder, op, seen, mismatch, doubted>>
mapVariables == <<routes, entries, predicted, aliases>>
memoryVariables == <<storage, memoryOp, stray>>
sparseVariables == <<regions, callback, access, predictor>>
sequenceVariables == <<visited, register, defect, seq, result, failed, bus>>
coverageVariables == <<counts, indices, tally, told, steps>>
variables == <<registerVariables, mapVariables, memoryVariables,
               sparseVariables, sequenceVariables, coverageVariables>>

-----------------------------------------------------------------------------
(* Registers of two bits, each a byte lane of its own.                      *)
Field(bits, a, read, write, volatile) ==
  [bits |-> bits, access |-> a, read |-> read, write |-> write,
   volatile |-> volatile]
Split == <<{2}, {1}>>
Whole == <<{1, 2}>>

\* One field over both bits, under each effect; and several kinds side by side.
EffectLayouts ==
  {{Field({1, 2}, "rw", "none", w, FALSE)} :
     w \in {"none", "woset", "woclr", "wot", "wzs", "wzc", "wzt", "wclr", "wset", "wuser"}}
  \cup {{Field({1, 2}, "rw", r, "none", FALSE)} : r \in {"rclr", "rset", "ruser"}}
OnceAndToggle ==
  {Field({1}, "rw1", "none", "none", FALSE), Field({2}, "rw", "none", "wot", FALSE)}
OnceOnly ==
  {Field({1}, "rw1", "none", "none", FALSE), Field({2}, "none", "none", "none", FALSE)}
ClearOnRead ==
  {Field({1}, "ro", "rclr", "none", TRUE), Field({2}, "rw", "none", "woclr", FALSE)}
WholeClearedOnRead == {Field({1, 2}, "rw", "rclr", "none", FALSE)}
MixedLayouts ==
  {OnceAndToggle, ClearOnRead,
   {Field({1, 2}, "w1", "none", "none", FALSE)},
   {Field({1}, "wo", "none", "none", FALSE), Field({2}, "none", "none", "none", FALSE)}}
Storage ==
  {Field({1}, "rw", "none", "none", FALSE), Field({2}, "rw", "none", "none", FALSE)}

\* One client, every call
Narrow == INSTANCE Register WITH
  Clients <- {c1}, Kinds <- {"read", "write", "update", "mirror", "field"},
  Bits <- {1, 2}, Reset <- {2}, ResetMask <- {2}, Chunks <- Split,
  Layouts <- MixedLayouts \cup {WholeClearedOnRead}, AutoPredict <- TRUE, Overlap <- FALSE

\* The same for every effect, in one transfer
Effect == INSTANCE Register WITH
  Clients <- {c1}, Kinds <- {"read", "write", "update", "mirror", "field"},
  Bits <- {1, 2}, Reset <- {2}, ResetMask <- {2}, Chunks <- Whole,
  Layouts <- EffectLayouts, AutoPredict <- TRUE, Overlap <- FALSE

\* Two clients of one handle
Shared == INSTANCE Register WITH
  Clients <- {c1, c2}, Kinds <- {"write", "update", "mirror"},
  Bits <- {1, 2}, Reset <- {2}, ResetMask <- {2}, Chunks <- Whole,
  Layouts <- {OnceAndToggle}, AutoPredict <- TRUE, Overlap <- FALSE

\* Two clients that write fields
Fields == INSTANCE Register WITH
  Clients <- {c1, c2}, Kinds <- {"field"},
  Bits <- {1, 2}, Reset <- {2}, ResetMask <- {1, 2}, Chunks <- Whole,
  Layouts <- {Storage}, AutoPredict <- TRUE, Overlap <- FALSE

\* A monitor feeds the handle through a RegisterPredictor
Monitored == INSTANCE Register WITH
  Clients <- {c1}, Kinds <- {"read", "write"},
  Bits <- {1, 2}, Reset <- {2}, ResetMask <- {1, 2}, Chunks <- Split,
  Layouts <- {ClearOnRead}, AutoPredict <- FALSE, Overlap <- FALSE

\* The same with the handle of a register wider than 64 bits
Wide == INSTANCE WideRegister WITH
  Clients <- {c1}, Kinds <- {"read", "write", "update", "mirror", "field"},
  Bits <- {1, 2}, Reset <- {2}, ResetMask <- {2}, Chunks <- Split,
  Layouts <- MixedLayouts \cup {{}}, AutoPredict <- TRUE, Overlap <- FALSE
WideMonitored == INSTANCE WideRegister WITH
  Clients <- {c1}, Kinds <- {"read", "write"},
  Bits <- {1, 2}, Reset <- {2}, ResetMask <- {1, 2}, Chunks <- Split,
  Layouts <- {OnceOnly}, AutoPredict <- FALSE, Overlap <- FALSE

\* Peeks, pokes and resets fall into the transfers, of each kind of handle
Toggle == {Field({1, 2}, "rw", "none", "wot", FALSE)}
Disturbed == INSTANCE Register WITH
  Clients <- {c1}, Kinds <- {"read", "write", "update", "mirror"},
  Bits <- {1, 2}, Reset <- {2}, ResetMask <- {2}, Chunks <- Whole,
  Layouts <- {Toggle, WholeClearedOnRead}, AutoPredict <- TRUE, Overlap <- TRUE
DisturbedSplit == INSTANCE Register WITH
  Clients <- {c1}, Kinds <- {"read", "update"},
  Bits <- {1, 2}, Reset <- {2}, ResetMask <- {2}, Chunks <- Split,
  Layouts <- {OnceAndToggle}, AutoPredict <- TRUE, Overlap <- TRUE
DisturbedWide == INSTANCE WideRegister WITH
  Clients <- {c1}, Kinds <- {"read", "write"},
  Bits <- {1, 2}, Reset <- {2}, ResetMask <- {2}, Chunks <- Split,
  Layouts <- {OnceAndToggle}, AutoPredict <- TRUE, Overlap <- TRUE
DisturbedMonitored == INSTANCE Register WITH
  Clients <- {c1}, Kinds <- {"read"},
  Bits <- {1, 2}, Reset <- {2}, ResetMask <- {1, 2}, Chunks <- Whole,
  Layouts <- {WholeClearedOnRead}, AutoPredict <- FALSE, Overlap <- TRUE

-----------------------------------------------------------------------------
(* A register of two transfers, one of one transfer and a small memory.     *)
Map == INSTANCE AddressMap WITH
  Registers <- {"wide", "narrow"}, Memories <- {"buffer"}, Maps <- {"debug"},
  MapBase <- [debug |-> 8], Address <- [wide |-> 0, narrow |-> 4, buffer |-> 6],
  Bytes <- [wide |-> 4, narrow |-> 2, buffer |-> 2],
  TransferBytes <- [wide |-> 2, narrow |-> 2], Entries <- [buffer |-> 2],
  Offsets <- {0, 5, 12}, Plain <- Nobody, AddressMax <- 18

\* Three elements of two bytes; the far map, and in Ending the handle's own
\* window too, ends beyond the address type.
Memory == INSTANCE RegisterMemory WITH
  Entries <- 3, ElementBytes <- 2, Pieces <- 1, Own <- "own", Access <- "rw",
  Windows <- [own |-> 4, far |-> 18], Backdoor <- "backdoor",
  AddressMax <- 20, Slice <- [first |-> 1, size |-> 2], SplitAccess <- FALSE,
  op <- memoryOp
Ending == INSTANCE RegisterMemory WITH
  Entries <- 2, ElementBytes <- 2, Pieces <- 1, Own <- "own", Access <- "rw",
  Windows <- [own |-> 20, near |-> 4, far |-> 19], Backdoor <- "backdoor",
  AddressMax <- 20, Slice <- [first |-> 1, size |-> 1], SplitAccess <- FALSE,
  op <- memoryOp

\* Two elements of two pieces; the far map has no address for the second.
WideMemory == INSTANCE WideRegisterMemory WITH
  Entries <- 2, ElementBytes <- 4, Pieces <- 2, Own <- "own", Access <- "rw",
  Windows <- [own |-> 2, near |-> 12, far |-> 20], Backdoor <- "backdoor",
  AddressMax <- 23, Slice <- [first |-> 1, size |-> 1], op <- memoryOp

\* A memory in use, and one whose predictor is fed.
Used == INSTANCE SparseMemory WITH
  Top <- 3, Bytes <- {0, 1}, Permissions <- {"read", "write"},
  Orders <- {"big"}, Fills <- {1}, MaxRegions <- 2, Observations <- 0
Predicting == INSTANCE SparseMemory WITH
  Top <- 2, Bytes <- {0, 1}, Permissions <- {"readwrite"},
  Orders <- {"little", "big"}, Fills <- {1}, MaxRegions <- 1, Observations <- 2

-----------------------------------------------------------------------------
(* One field of every kind beside a plain one of two bits, or no fields.    *)
OddFields ==
  [bits : {{0}}, access : {"none", "ro", "wo", "rw", "w1", "rw1"},
   read : {"none", "rclr", "rset"}, write : {"none", "woclr", "wot", "wzs"},
   volatile : BOOLEAN]
PlainFields ==
  [bits : {{1, 2}}, access : {"ro", "rw"}, read : {"none"}, write : {"none"},
   volatile : {FALSE}]
Visits == INSTANCE RegisterSequences WITH
  Bits <- 0..2, Reset <- {0, 1}, ResetMask <- {0, 1},
  Layouts <- {{}} \cup {{f, g} : f \in OddFields, g \in PlainFields},
  Phase <- FALSE, Errors <- 1, fields <- visited, dev <- register

\* A register of two transfers whose fields straddle bytes and transfers, one
\* without fields, and two memories.
Part(lsb, width, a) == [lsb |-> lsb, width |-> width, access |-> a]
Straddling ==
  <<Part(0, 3, {"read"}), Part(6, 4, {"read", "write"}), Part(12, 8, {"write"}),
    Part(20, 4, {"write"}), Part(24, 8, {"read", "write"})>>
Two(big) ==
  <<[address |-> 0, bytes |-> 4, access |-> 2, big |-> big, fields |-> Straddling],
    [address |-> 5, bytes |-> 1, access |-> 1, big |-> FALSE, fields |-> <<>>]>>
Memories ==
  <<[address |-> 8, entries |-> 3, element |-> 2, access |-> {"read", "write"}],
    [address |-> 14, entries |-> 2, element |-> 1, access |-> {"read"}]>>
\* Decoded through the table, and by a scan
Table == INSTANCE RegisterCoverage WITH
  Registers <- Two(TRUE), TableLimit <- 64, WordBits <- 2, BitmapLimit <- 2,
  Enables <- SUBSET (0..1), Steps <- 3
Scan == INSTANCE RegisterCoverage WITH
  Registers <- Two(FALSE), TableLimit <- 0, WordBits <- 2, BitmapLimit <- 8,
  Enables <- SUBSET (0..1), Steps <- 2

ASSUME /\ Narrow!ResetAssumption /\ Narrow!BusAssumption
       /\ Effect!ResetAssumption /\ Effect!BusAssumption
       /\ Shared!ResetAssumption /\ Shared!BusAssumption
       /\ Fields!ResetAssumption /\ Fields!BusAssumption
       /\ Monitored!ResetAssumption /\ Monitored!BusAssumption
       /\ Wide!ResetAssumption /\ Wide!BusAssumption
       /\ WideMonitored!ResetAssumption /\ WideMonitored!BusAssumption
       /\ Disturbed!BusAssumption /\ DisturbedSplit!BusAssumption
       /\ DisturbedWide!BusAssumption /\ DisturbedMonitored!BusAssumption
       /\ Map!AddressAssumption
       /\ Memory!MemoryAssumption /\ Memory!OnePiece
       /\ Ending!MemoryAssumption /\ Ending!OnePiece
       /\ WideMemory!MemoryAssumption /\ WideMemory!SeveralPieces
       /\ Used!SparseAssumption /\ Predicting!SparseAssumption
       /\ Visits!ResetAssumption /\ Visits!SequenceAssumption
       /\ Table!CoverageAssumption /\ Scan!CoverageAssumption

-----------------------------------------------------------------------------
RegisterInit ==
  CASE subject = "narrow" -> Narrow!Init
    [] subject = "effects" -> Effect!Init
    [] subject = "shared" -> Shared!Init
    [] subject = "fields" -> Fields!Init
    [] subject = "monitored" -> Monitored!Init
    [] subject = "wide" -> Wide!Init
    [] subject = "wide monitored" -> WideMonitored!Init
    [] subject = "disturbed" -> Disturbed!Init
    [] subject = "disturbed split" -> DisturbedSplit!Init
    [] subject = "disturbed wide" -> DisturbedWide!Init
    [] subject = "disturbed monitored" -> DisturbedMonitored!Init
    [] OTHER -> /\ fields = Absent /\ dev = Absent /\ burnt = Absent
                /\ model = Absent /\ holder = Absent /\ op = Absent
                /\ seen = Absent /\ mismatch = Absent /\ doubted = Absent
MapInit ==
  IF subject = "map" THEN Map!MapInit
  ELSE routes = Absent /\ entries = Absent /\ predicted = Absent /\ aliases = Absent
MemoryInit ==
  CASE subject = "memory" -> Memory!Init
    [] subject = "ending" -> Ending!Init
    [] subject = "wide memory" -> WideMemory!Init
    [] OTHER -> storage = Absent /\ memoryOp = Absent /\ stray = Absent
SequenceInit ==
  IF subject = "sequences" THEN Visits!Init
  ELSE /\ visited = Absent /\ register = Absent /\ defect = Absent
       /\ seq = Absent /\ result = Absent /\ failed = Absent /\ bus = Absent
CoverageInit ==
  IF subject \in {"table", "scan"} THEN Table!Init
  ELSE /\ counts = Absent /\ indices = Absent /\ tally = Absent
       /\ told = Absent /\ steps = Absent

MCInit ==
  /\ subject \in Subjects
  /\ RegisterInit /\ MapInit /\ MemoryInit /\ Used!Init
  /\ SequenceInit /\ CoverageInit

MCNext ==
  \/ /\ \/ subject = "narrow" /\ Narrow!Next
        \/ subject = "effects" /\ Effect!Next
        \/ subject = "shared" /\ Shared!Next
        \/ subject = "fields" /\ Fields!Next
        \/ subject = "monitored" /\ Monitored!Next
        \/ subject = "wide" /\ Wide!Next
        \/ subject = "wide monitored" /\ WideMonitored!Next
        \/ subject = "disturbed" /\ Disturbed!Next
        \/ subject = "disturbed split" /\ DisturbedSplit!Next
        \/ subject = "disturbed wide" /\ DisturbedWide!Next
        \/ subject = "disturbed monitored" /\ DisturbedMonitored!Next
     /\ UNCHANGED <<subject, mapVariables, memoryVariables, sparseVariables,
                    sequenceVariables, coverageVariables>>
  \/ /\ subject = "map" /\ Map!MapNext
     /\ UNCHANGED <<subject, registerVariables, memoryVariables, sparseVariables,
                    sequenceVariables, coverageVariables>>
  \/ /\ \/ subject = "memory" /\ Memory!Next
        \/ subject = "ending" /\ Ending!Next
        \/ subject = "wide memory" /\ WideMemory!Next
     /\ UNCHANGED <<subject, registerVariables, mapVariables, sparseVariables,
                    sequenceVariables, coverageVariables>>
  \/ /\ \/ subject = "sparse" /\ Used!Next
        \/ subject = "predicting" /\ Predicting!Next
     /\ UNCHANGED <<subject, registerVariables, mapVariables, memoryVariables,
                    sequenceVariables, coverageVariables>>
  \/ /\ subject = "sequences" /\ Visits!Next
     /\ UNCHANGED <<subject, registerVariables, mapVariables, memoryVariables,
                    sparseVariables, coverageVariables>>
  \/ /\ \/ subject = "table" /\ Table!Next
        \/ subject = "scan" /\ Scan!Next
     /\ UNCHANGED <<subject, registerVariables, mapVariables, memoryVariables,
                    sparseVariables, sequenceVariables>>

MCSpec == MCInit /\ [][MCNext]_<<subject, variables>>

-----------------------------------------------------------------------------
\* The mirror of a register is the device's value wherever it claims to know it,
\* through every access policy, partial transfer and failure; what a peek, a poke
\* or a reset during a transfer puts out of step is confined to the bits of that
\* transfer.
MirrorsExact ==
  /\ subject = "narrow" => Narrow!TypeOK /\ Narrow!MirrorExact
  /\ subject = "effects" => Effect!TypeOK /\ Effect!MirrorExact
  /\ subject = "shared" => Shared!TypeOK /\ Shared!MirrorExact
  /\ subject = "monitored" => Monitored!TypeOK /\ Monitored!MirrorExact
  /\ subject = "wide" => Wide!TypeOK /\ Wide!MirrorExact
  /\ subject = "wide monitored" => WideMonitored!TypeOK /\ WideMonitored!MirrorExact
  /\ subject = "disturbed" => Disturbed!TypeOK /\ Disturbed!MirrorExact
  /\ subject = "disturbed split" => DisturbedSplit!TypeOK /\ DisturbedSplit!MirrorExact
  /\ subject = "disturbed wide" => DisturbedWide!TypeOK /\ DisturbedWide!MirrorExact
  /\ subject = "disturbed monitored" => DisturbedMonitored!TypeOK /\ DisturbedMonitored!MirrorExact

\* update() writes a value that leads to the staged one if any does, and the two
\* implementations of the register rules agree.
RulesAgree ==
  /\ subject = "narrow" => Narrow!EncodingReaches /\ Narrow!WideAgrees
  /\ subject = "effects" => Effect!EncodingReaches /\ Effect!WideAgrees

\* An update that succeeded leaves nothing to update, a transfer that failed
\* leaves what the handle knew of its bits, and mirror() reports no difference the
\* device is not responsible for.
UpdatesHonest ==
  [][/\ subject = "narrow" => /\ Narrow!ConvergesStep /\ Narrow!RetainedStep
                              /\ Narrow!NoFalseAlarmStep
     /\ subject = "effects" => /\ Effect!ConvergesStep /\ Effect!RetainedStep
                               /\ Effect!NoFalseAlarmStep
     /\ subject = "shared" => Shared!ConvergesStep /\ Shared!NoFalseAlarmStep
     /\ subject = "wide" => Wide!RetainedStep /\ Wide!NoFalseAlarmStep
     /\ subject = "disturbed" => Disturbed!ConvergesStep /\ Disturbed!NoFalseAlarmStep
     /\ subject = "disturbed split" => DisturbedSplit!RetainedStep
     /\ subject = "disturbed wide" => DisturbedWide!RetainedStep]_variables

\* A field's write() that reports success has written the field.
FieldWriteLands == Fields!FieldWriteLands

\* A block's lookup finds the register of an address through every alias, a map's
\* routes stay within the address type, and a register is predicted at all of its
\* addresses and no other.
MapExact ==
  subject = "map" => /\ Map!MapTypeOK /\ Map!AliasesKept /\ Map!LookupExact
                     /\ Map!PredictionInside /\ Map!RoutesReachable

\* A memory call touches the elements it names, in order, and the completed
\* elements of one that failed are those the bus carried out.  One that throws has
\* carried out whole elements from the first on: none, through the handle of narrow
\* elements.
MemoriesExact ==
  /\ subject = "memory" => /\ Memory!TypeOK /\ Memory!LandsAsNamed /\ Memory!PrefixExact
                           /\ Memory!Accounted /\ Memory!NoThrowMidBlock
  /\ subject = "ending" => /\ Ending!TypeOK /\ Ending!LandsAsNamed
                           /\ Ending!InsideMemory /\ Ending!NoThrowMidBlock
  /\ subject = "wide memory" =>
       /\ WideMemory!TypeOK /\ WideMemory!LandsAsNamed /\ WideMemory!PrefixExact
       /\ WideMemory!Accounted /\ WideMemory!InsideMemory
  /\ subject = "sparse" => Used!TypeOK /\ Used!Disjoint /\ Used!Sparse /\ Used!WordKept
  /\ subject = "predicting" => Predicting!MismatchesExact

\* The sparse memory is one flat array of bytes.
FlatSpec == Used!FlatSpec

\* A register sequence reports a difference exactly if the device has a defect it
\* can see, reports every bus error, puts back what it changed, and counts what it
\* did.
SequencesHonest ==
  subject = "sequences" => /\ Visits!TypeOK /\ Visits!DefectsFound
                           /\ Visits!ErrorsReported /\ Visits!Restored /\ Visits!Counted

\* Register coverage counts the accesses that reach what it counts, whichever of
\* its two decoders serves them, and every element of a memory once.
CoverageExact ==
  /\ subject = "table" => Table!TypeOK /\ Table!CountsExact /\ Table!IndicesExact
  /\ subject = "scan" => Scan!TypeOK /\ Scan!CountsExact /\ Scan!IndicesExact
=============================================================================
