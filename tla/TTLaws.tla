------------------------------- MODULE TTLaws -------------------------------
(* The laws the table's arithmetic must obey, stated of every call the      *)
(* engine can make: the state is the call at hand, and any call may follow  *)
(* any other, so an invariant is a law for all arguments.                   *)
EXTENDS TTMath

CONSTANTS
  Keys,           \* the 64-bit keys and cluster counts tried
  ClusterCounts,  \* the table sizes cleared
  ThreadCounts,   \* the pool sizes that clear them
  Plies,          \* the plies at which values are stored and read back
  StoredValues    \* the values considered

ASSUME KeysAssumption == Keys \subseteq Key
ASSUME ClusterCountsAssumption == ClusterCounts \subseteq Nat
ASSUME ThreadCountsAssumption == ThreadCounts \subseteq Nat \ {0}
ASSUME PliesAssumption == Plies \subseteq 0 .. MaxPly
ASSUME StoredValuesAssumption == StoredValues \subseteq Values

VARIABLE call

HashCalls  == [op : {"hash"}, key : Keys, count : Keys \ {0}]
ClearCalls == [op : {"clear"}, clusters : ClusterCounts, threads : ThreadCounts]
AgeCalls   == [op : {"age"}, later : 0 .. Generations - 1, gen : 0 .. Generations - 1,
               bound : Bounds, pv : BOOLEAN]
ValueCalls == UNION { [op : {"value"}, value : StoredValues \cap SearchValues(p),
                       ply : {p}, r50 : 0 .. 100] : p \in Plies }

Calls == HashCalls \cup ClearCalls \cup AgeCalls \cup ValueCalls

NoCall == [op |-> "none"]

Init == call = NoCall

Make   == call = NoCall /\ call' \in Calls
Return == call # NoCall /\ call' = NoCall

Next == Make \/ Return
Spec == Init /\ [][Next]_call

TypeOK == call \in Calls \cup {NoCall}

-----------------------------------------------------------------------------
(* The halves put together are the high word of the full product, carries   *)
(* included, so both builds of mul_hi64 name the same cluster.              *)
HalvesAgree ==
  call.op = "hash" => MulHi64(call.key, call.count) = FirstEntry(call.key, call.count)

(* Every key names a cluster of the table.                                  *)
EntryInTable ==
  call.op = "hash" => FirstEntry(call.key, call.count) \in 0 .. call.count - 1

(* The jobs of clear() zero every cluster, none twice, none past the end,   *)
(* for every pool and table size (a table smaller than the pool included).  *)
StripesPartition ==
  call.op = "clear" =>
    /\ \A i \in 0 .. call.threads - 1 :
         Stripe(call.clusters, call.threads, i) \subseteq 0 .. call.clusters - 1
    /\ \A c \in 0 .. call.clusters - 1 :
         \E i \in 0 .. call.threads - 1 : c \in Stripe(call.clusters, call.threads, i)
    /\ \A i, j \in 0 .. call.threads - 1 :
         i # j => Stripe(call.clusters, call.threads, i) \cap
                  Stripe(call.clusters, call.threads, j) = {}

(* An entry's age is the number of searches since it was written, counted   *)
(* like the hours of a clock, whatever bound and PV bit share its byte; and *)
(* the byte gives back the bound and the bit.                               *)
AgeIgnoresFlags ==
  call.op = "age" =>
    LET byte == PackGenBound(call.gen, call.bound, call.pv)
    IN  /\ RelativeAge((call.gen + call.later) % Generations, byte) = call.later
        /\ BoundOf(byte) = call.bound
        /\ PvOf(byte) = call.pv

(* What a node stores fits the sixteen bits of the entry and stays below    *)
(* the markers for "infinite" and "none", so save() ages it as it should.   *)
StoredValueFits ==
  call.op = "value" => /\ -ValueMate <= ValueToTT(call.value, call.ply)
                       /\ ValueToTT(call.value, call.ply) <= ValueMate

(* What a node stores and reads back at the same ply is the value it        *)
(* stored, unless the fifty-move counter takes a win or a loss away: then   *)
(* it is the undecided value nearest to it, never a value of the other side.*)
ValueRoundTrips ==
  call.op = "value" =>
    LET back == ValueFromTT(ValueToTT(call.value, call.ply), call.ply, call.r50)
    IN  \/ back = call.value
        \/ IsWin(call.value)  /\ back = TBWinInMaxPly - 1
        \/ IsLoss(call.value) /\ back = 1 - TBWinInMaxPly

(* The table's addresses: both builds name one cluster for a key, it lies   *)
(* in the table, and the jobs of clear() share the clusters out (tt.cpp     *)
(* first_entry, clear; basetypes.h mul_hi64).                               *)
IndexLaws == HalvesAgree /\ EntryInTable /\ StripesPartition

(* What an entry holds: age, bound and PV bit come apart again, and a value *)
(* fits and comes back at its own ply (tt.cpp save, relative_age; search.cpp*)
(* value_to_tt, value_from_tt).                                             *)
ValueLaws == AgeIgnoresFlags /\ StoredValueFits /\ ValueRoundTrips
=============================================================================
