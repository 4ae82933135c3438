------------------------ MODULE TransactionRecorder ------------------------
(***************************************************************************)
(* A TransactionRecorder with its named streams, and the sinks connected   *)
(* to it: in memory, or a JSON Lines file that may fail and is finalized   *)
(* once.  A publication calls the sinks in connection order on the         *)
(* publisher's stack; one that throws ends the publication, and the        *)
(* publisher gets the exception.  A file is written through the buffer of  *)
(* a std::ofstream: a line that was taken is in the file when the buffer   *)
(* is next written out, with the last of them when finalize flushes it, or *)
(* never when that fails.                                                  *)
(***************************************************************************)
EXTENDS Integers, Sequences, SequencesExt, FiniteSets

CONSTANTS
    Names,        \* names of streams
    Memories,     \* InMemoryTransactionSinks
    Files,        \* JsonLinesTransactionSinks
    Publications, \* bound: transactions written
    Reconnects    \* bound: connections

\* What an instance gives the constants.
RecorderAssumption ==
    /\ Memories \cap Files = {}
    /\ {Publications, Reconnects} \subseteq Nat

Sinks == Memories \cup Files

VARIABLES
    streams,    \* next_sequence_ of each stream there is, as a function on their names
    enabled,    \* enabled_
    output,     \* the sinks connected, in connection order
    kept,       \* the records each sink took: of a file, the lines given to its stream
    file,       \* of each file: "good", "bad" once the stream has failed, or "final"
    written,    \* of each file: how many of the lines it took are wholly in it
    torn,       \* of each file: whether it ends in the middle of a line
    constant,   \* sinks connected at every publication so far
    thrown,     \* the records whose publication threw
    budget      \* publications and connections left

disk == <<file, written, torn>>
vars == <<streams, enabled, output, kept, disk, constant, thrown, budget>>

Init ==
    /\ streams = [n \in {} |-> 0]
    /\ enabled = TRUE
    /\ output = <<>>
    /\ kept = [s \in Sinks |-> <<>>]
    /\ file = [f \in Files |-> "good"]
    /\ written = [f \in Files |-> 0]
    /\ torn = [f \in Files |-> FALSE]
    /\ constant = Sinks
    /\ thrown = {}
    /\ budget = [publications |-> Publications, connections |-> Reconnects]

\* recorder.stream(name): an empty or a duplicate name is refused, and changes nothing.
Stream(n) ==
    /\ n \notin DOMAIN streams
    /\ streams' = [m \in DOMAIN streams \cup {n} |-> IF m = n THEN 0 ELSE streams[m]]
    /\ UNCHANGED <<enabled, output, kept, disk, constant, thrown, budget>>

SetEnabled ==
    /\ enabled' = ~enabled
    /\ UNCHANGED <<streams, output, kept, disk, constant, thrown, budget>>

\* recorder.connect(sink), of a sink that is not connected.
Connect(s) ==
    /\ ~Contains(output, s) /\ budget.connections > 0
    /\ budget' = [budget EXCEPT !.connections = @ - 1]
    /\ output' = Append(output, s)
    /\ UNCHANGED <<streams, enabled, kept, disk, constant, thrown>>

\* The connection is disconnected or destroyed.
Disconnect(s) ==
    /\ \E i \in DOMAIN output : output[i] = s /\ output' = RemoveAt(output, i)
    /\ UNCHANGED <<streams, enabled, kept, disk, constant, thrown, budget>>

-----------------------------------------------------------------------------
\* Whether write_json_value has an encoding for the value: it throws on a number that is not finite
\* and on a type without a format.
Encodings == BOOLEAN

\* A TransactionRecordView
Record(n) == [stream |-> n, sequence |-> streams[n]]

\* Mutant: a finalized trace takes more records.
ThrowsOpen(s, encodes, failing) ==
    ~encodes \/ (s \in Files /\ (file[s] = "bad" \/ s \in failing))

\* Whether write of a sink throws.  JsonLinesTransactionSink::write is refused after finalize, and
\* throws at every write from the one on that finds the stream failed.
Throws(s, encodes, failing) ==
    ~encodes \/ (s \in Files /\ (file[s] # "good" \/ s \in failing))

\* What a write or a flush gets into a file: some more of the lines taken, perhaps up to the middle
\* of one.  The line of a write that failed is not among those taken, but may be begun.
Progress(f, failed) ==
    /\ written'[f] >= written[f] /\ written'[f] <= Len(kept'[f])
    /\ torn'[f] => failed \/ written'[f] < Len(kept'[f])
    /\ torn[f] /\ written'[f] = written[f] => torn'[f]

Untouched(f) == written'[f] = written[f] /\ torn'[f] = torn[f]

OnDisk == written' \in [Files -> 0..Publications] /\ torn' \in [Files -> BOOLEAN]

\* output_.write: the sinks up to the first that throws are reached; a line is complete before its
\* file is touched.
Deliver(n) == \E encodes \in Encodings, failing \in SUBSET Files :
    LET throws(i) == Throws(output[i], encodes, failing)
        reached == {output[i] : i \in {j \in DOMAIN output : \A k \in 1..j - 1 : ~throws(k)}}
        touched == {f \in reached \cap Files : encodes /\ file[f] = "good"} IN
    /\ constant' = constant \cap ToSet(output)
    /\ kept' = [s \in Sinks |-> IF s \in reached /\ ~Throws(s, encodes, failing)
                                THEN Append(kept[s], Record(n)) ELSE kept[s]]
    /\ file' = [f \in Files |-> IF f \in touched \cap failing THEN "bad" ELSE file[f]]
    /\ OnDisk
    /\ \A f \in Files : IF f \in touched THEN Progress(f, f \in failing) ELSE Untouched(f)
    /\ thrown' = IF \E i \in DOMAIN output : throws(i)
                 THEN thrown \cup {<<n, streams[n]>>} ELSE thrown

\* Mutant: the number is taken before it is known that anyone records it.
PublishNumbered(n) ==
    /\ budget.publications > 0
    /\ budget' = [budget EXCEPT !.publications = @ - 1]
    /\ streams' = [streams EXCEPT ![n] = @ + 1]
    /\ IF ~enabled \/ output = <<>> THEN UNCHANGED <<kept, disk, constant, thrown>> ELSE Deliver(n)
    /\ UNCHANGED <<enabled, output>>

\* TransactionStream::write, TransactionRecorder::publish: a number is taken only when the record is
\* going to somebody.
Publish(n) ==
    /\ budget.publications > 0
    /\ budget' = [budget EXCEPT !.publications = @ - 1]
    /\ IF ~enabled \/ output = <<>> THEN UNCHANGED <<streams, kept, disk, constant, thrown>>
       ELSE streams' = [streams EXCEPT ![n] = @ + 1] /\ Deliver(n)
    /\ UNCHANGED <<enabled, output>>

\* finalize: flush and close, either of which may fail; on a stream that has failed both do nothing
\* and finalize throws; a second call does nothing.
Finalize(f) ==
    /\ file[f] # "final"
    /\ UNCHANGED <<streams, enabled, output, kept, constant, thrown, budget>>
    /\ OnDisk
    /\ \A g \in Files \ {f} : Untouched(g)
    /\ \/ /\ file[f] = "bad"
          /\ Untouched(f)
          /\ UNCHANGED file
       \/ /\ file[f] = "good"
          /\ Progress(f, FALSE)
          /\ file' = [file EXCEPT ![f] = "bad"]
       \/ /\ file[f] = "good"
          /\ written'[f] = Len(kept[f]) /\ ~torn'[f]
          /\ file' = [file EXCEPT ![f] = "final"]

\* InMemoryTransactionSink::clear
Clear(m) ==
    /\ kept[m] # <<>>
    /\ kept' = [kept EXCEPT ![m] = <<>>]
    /\ constant' = constant \ {m}
    /\ UNCHANGED <<streams, enabled, output, disk, thrown, budget>>

Next ==
    \/ \E n \in Names : Stream(n)
    \/ SetEnabled
    \/ \E s \in Sinks : Connect(s) \/ Disconnect(s)
    \/ \E n \in DOMAIN streams : Publish(n)
    \/ \E f \in Files : Finalize(f)
    \/ \E m \in Memories : Clear(m)

Spec == Init /\ [][Next]_vars

-----------------------------------------------------------------------------
(* Properties *)

Threw(n, k) == <<n, k>> \in thrown

\* The places of the records a sink took that are in its trace.
Lines(s) == IF s \in Files THEN 1..written[s] ELSE DOMAIN kept[s]

\* The streams count from zero and a sink is connected once.
TypeOK ==
    /\ DOMAIN streams \subseteq Names /\ \A n \in DOMAIN streams : streams[n] \in 0..Publications
    /\ output \in Seq(Sinks) /\ IsInjective(output)
    /\ kept \in [Sinks -> Seq([stream: DOMAIN streams, sequence: Nat])]
    /\ file \in [Files -> {"good", "bad", "final"}]
    /\ written \in [Files -> 0..Publications] /\ torn \in [Files -> BOOLEAN]
    /\ constant \subseteq Sinks
    /\ budget \in [publications: 0..Publications, connections: 0..Reconnects]

\* In every sink the records of a stream come with increasing numbers: none is recorded twice,
\* whatever was disabled, disconnected, refused or failed in between.
NumbersIncrease == \A s \in Sinks : \A i, j \in DOMAIN kept[s] :
    i < j /\ kept[s][i].stream = kept[s][j].stream => kept[s][i].sequence < kept[s][j].sequence

\* A number missing from the trace of a sink that was connected for every publication belongs to one
\* that threw into its publisher, or to a line after all those written in a file that is not final:
\* it waits in the buffer, or was lost with it when the file failed.  Disabling the recorder, or a
\* recorder nobody listens to, leaves no gap, and a final trace misses nothing silently.
NoSilentGap == \A s \in constant, n \in DOMAIN streams : \A k \in 0..streams[n] - 1 :
    \/ Threw(n, k)
    \/ \E i \in DOMAIN kept[s] :
           /\ kept[s][i].stream = n /\ kept[s][i].sequence = k
           /\ i \in Lines(s) \/ (s \in Files /\ file[s] # "final")

\* A file ends in the middle of a line only while the rest is in the buffer, or when it failed.
WholeLines == \A f \in Files : torn[f] =>
    file[f] = "bad" \/ (file[f] = "good" /\ written[f] < Len(kept[f]))

\* A trace whose finalize returned stays as it is; one that has failed is never called final, and
\* nothing is written to it any more.
FinalStays == [][\A f \in Files :
    /\ file[f] = "final" => file'[f] = "final" /\ kept'[f] = kept[f]
    /\ file[f] = "bad" => file'[f] = "bad"
    /\ file[f] # "good" => Untouched(f)]_vars

-----------------------------------------------------------------------------
(* The inductive invariant behind them. *)

\* What is recorded has a number that was taken, and numbers are taken by publications.
NumbersTaken ==
    /\ \A n \in DOMAIN streams : streams[n] + budget.publications <= Publications
    /\ \A s \in Sinks : \A i \in DOMAIN kept[s] : kept[s][i].sequence < streams[kept[s][i].stream]

\* A number that a sink connected all along did not take belongs to a publication that threw.
Accounted == \A s \in constant, n \in DOMAIN streams : \A k \in 0..streams[n] - 1 :
    \/ Threw(n, k)
    \/ \E i \in DOMAIN kept[s] : kept[s][i].stream = n /\ kept[s][i].sequence = k

\* The file has the first of the lines that were taken, and all of them once it is final.
InOrder == \A f \in Files :
    /\ written[f] <= Len(kept[f])
    /\ file[f] = "final" => written[f] = Len(kept[f])

IInv == TypeOK /\ NumbersTaken /\ NumbersIncrease /\ Accounted /\ InOrder /\ WholeLines
=============================================================================
