------------------------------ MODULE MCTTable ------------------------------
(* Two instances of TTable side by side: threads racing on one entry, and   *)
(* one thread nesting nodes in a cluster of two. Position "a" has key 0,    *)
(* the key of an empty entry; "b" and "c" have the same key.                *)
EXTENDS TTable, TLC

CONSTANT NestingThread

VARIABLES
  part,      \* which of the two instances a behaviour is of
  nEntry, nGeneration8, nNode, nPc, nLocal   \* the variables of the second

nVars == <<nEntry, nGeneration8, nNode, nPc, nLocal>>

MCKeyOf == [p \in Positions |-> IF p = "a" THEN 0 ELSE 7]
NestedKeyOf == [p \in {"a", "b", "c"} |-> IF p = "a" THEN 0 ELSE 7]

Save(value, pv, bound, depth, move, eval) ==
  [value |-> value, pv |-> pv, bound |-> bound, depth |-> depth, move |-> move, eval |-> eval]

(* Two threads: a quiet upper bound, and a won lower bound just deep enough *)
(* to be aged.                                                              *)
MCRacySaves == [p \in Positions |->
  CASE p = "a" -> {Save(40, FALSE, BoundUpper, -2, 1, 11)}
    [] OTHER   -> {Save(31910, FALSE, BoundLower, -1, NoMove, 12)}]

MCAgingDepth == -1

Symmetry == Permutations(Threads)

(* One thread: an evaluation only, a won lower bound just deep enough to be *)
(* aged, an exact value, and a quiet upper bound.                           *)
NestedSaves == [p \in {"a", "b", "c"} |->
  CASE p = "a" -> {Save(ValueNone, FALSE, BoundNone, -2, NoMove, 11)}
    [] p = "b" -> {Save(31910, FALSE, BoundLower, 1, 2, 12), Save(20, TRUE, BoundExact, -1, 2, 12)}
    [] OTHER   -> {Save(30, FALSE, BoundUpper, -1, NoMove, 13)}]

Nested == INSTANCE TTable WITH
  Threads <- {NestingThread}, Positions <- {"a", "b", "c"}, KeyOf <- NestedKeyOf,
  Saves <- NestedSaves, ClusterSize <- 2, MaxDepth8 <- 4, AgingDepth <- 0, MaxNodes <- 2,
  entry <- nEntry, generation8 <- nGeneration8, node <- nNode, pc <- nPc, local <- nLocal

MCInit == Init /\ Nested!Init /\ part \in {"races", "nested"}

MCNext ==
  \/ part = "races" /\ Next /\ UNCHANGED <<part, nVars>>
  \/ part = "nested" /\ Nested!Next /\ UNCHANGED <<part, vars>>

MCSpec == MCInit /\ [][MCNext]_<<vars, nVars, part>>

(* With one thread, what a save leaves is one save, whole, and what a hit   *)
(* returns was searched as deep as it says (tt.cpp save, probe).            *)
NestedSavesAreKept == Nested!EntriesAreWhole /\ Nested!HitsAreHonest

(* With one thread, a miss gives up the entry worth least (tt.cpp probe).   *)
LeastIsReplaced == Nested!MissReplacesLeast
=============================================================================
