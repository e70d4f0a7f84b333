------------------------------- MODULE TTable -------------------------------
(* One cluster of the transposition table (tt.cpp), shared without a lock   *)
(* by the searching threads. Each byte or half-word of an entry is a        *)
(* relaxed atomic: a step below loads or stores one of them, and probe(),   *)
(* save() and penalize() of different threads interleave.                   *)
(*                                                                          *)
(* A thread nests nodes of the search: it holds the writer that a probe     *)
(* returned while its children probe and save, possibly in the same slot.   *)
EXTENDS TTMath, Sequences

CONSTANTS
  Threads,      \* the searching threads
  Positions,    \* the positions whose keys name this cluster
  KeyOf,        \* the low sixteen bits of a position's key
  Saves,        \* what a node of each position may save
  ClusterSize,  \* entries in the cluster
  MaxDepth8,    \* the deepest save, as depth8 counts
  KeepMargin,   \* 4: how much shallower a save may be and still replace
  AgingDepth,   \* 5: an entry this deep that keeps out a save loses a ply
  MaxNodes      \* bound: nodes a thread is in the middle of at a time

NoMove    == 0
DepthNone == -3
SaveArgs  == [value : Values, pv : BOOLEAN, bound : Bounds, depth : Int,
              move : Nat, eval : Values]

ASSUME KeyOfAssumption == KeyOf \in [Positions -> Nat]
ASSUME SizesAssumption == ClusterSize \in Nat \ {0} /\ MaxNodes \in Nat \ {0}
ASSUME MarginsAssumption == KeepMargin \in Int /\ AgingDepth \in Int
ASSUME MaxDepth8Assumption == MaxDepth8 \in 1 .. 255
ASSUME SavesAssumption ==
  \A p \in Positions : \A w \in Saves[p] :
    w \in SaveArgs /\ w.depth - DepthNone \in 1 .. MaxDepth8

VARIABLES
  entry,        \* the entries of the cluster
  generation8,  \* the age given to what is saved now
  node,         \* per thread, the nodes it is in, innermost last
  pc,           \* per thread, its next access to the cluster
  local         \* per thread, what it has loaded and not yet used

vars == <<entry, generation8, node, pc, local>>

Slots == 0 .. ClusterSize - 1

(* An entry of depth8 zero is unoccupied.                                   *)
Zero == [key16 |-> 0, depth8 |-> 0, genBound8 |-> 0,
         move16 |-> NoMove, value16 |-> 0, eval16 |-> 0]

(* What is stored in depth8, a byte.                                        *)
Byte(n) == n % 256
(* Mutant: not clamped.                                                     *)
LoweredUnclamped(depth8, penalty) == Byte(depth8 - penalty)

Lowered(depth8, penalty) == Byte(IF depth8 > penalty THEN depth8 - penalty ELSE 0)

(* What an entry is worth to the replacement strategy.                      *)
AgeWeight == 8
Worth(depth8, genBound8) == depth8 - AgeWeight * RelativeAge(generation8, genBound8)

Idle == [slot |-> 0]

Init ==
  /\ entry = [s \in Slots |-> Zero]
  /\ generation8 = 0
  /\ node = [t \in Threads |-> <<>>]
  /\ pc = [t \in Threads |-> "node"]
  /\ local = [t \in Threads |-> Idle]

-----------------------------------------------------------------------------
At(t, step) == pc[t] = step
Goto(t, step) == pc' = [pc EXCEPT ![t] = step]
Keep(t, loaded) == local' = [local EXCEPT ![t] = loaded]
Load(t, field) == entry[local[t].slot][field]

(* Go on to step; the cluster is only read.                                 *)
Read(t, step, loaded) ==
  /\ Goto(t, step) /\ Keep(t, loaded)
  /\ UNCHANGED <<entry, generation8, node>>

Store(t, field, v, step) ==
  /\ entry' = [entry EXCEPT ![local[t].slot][field] = v]
  /\ Goto(t, step)
  /\ UNCHANGED <<generation8, node, local>>

Nodes(t) == Len(node[t])
Inner(t) == node[t][Nodes(t)]

(* A probe returns, and the search of the node goes on with its answer.     *)
Enter(t, n) ==
  /\ node' = [node EXCEPT ![t] = Append(@, n)]
  /\ Goto(t, "node") /\ Keep(t, Idle)
  /\ UNCHANGED <<entry, generation8>>

-----------------------------------------------------------------------------
(* probe(): the first entry that has the key ...                            *)

Probe(t, p) ==
  /\ At(t, "node") /\ Nodes(t) < MaxNodes
  /\ Read(t, "look", [pos |-> p, slot |-> 0])

Look(t) ==
  LET l == local[t] IN
  /\ At(t, "look")
  /\ \/ Load(t, "key16") = KeyOf[l.pos] /\ Read(t, "readDepth", l)
     \/ /\ Load(t, "key16") # KeyOf[l.pos] /\ l.slot + 1 \in Slots
        /\ Read(t, "look", [l EXCEPT !.slot = @ + 1])
     \/ /\ Load(t, "key16") # KeyOf[l.pos] /\ l.slot + 1 \notin Slots
        /\ Read(t, "weigh", [pos |-> l.pos, slot |-> 0, best |-> 0, least |-> 0, d8 |-> 0])

(* ... whose depth8, loaded once, says both whether it is occupied and how  *)
(* deep it is. Of the loads that follow, the value's is what is used here.  *)
ReadDepth(t) ==
  /\ At(t, "readDepth")
  /\ Read(t, "readRest", [pos |-> local[t].pos, slot |-> local[t].slot,
                          d8 |-> Load(t, "depth8")])

(* Mutant: depth8 is loaded a second time for the copy.                     *)
ReadRestReloading(t) ==
  LET l == local[t] IN
  /\ At(t, "readRest")
  /\ Enter(t, [pos |-> l.pos, slot |-> l.slot, hit |-> l.d8 # 0,
               depth |-> DepthNone + Load(t, "depth8"),
               value |-> IF l.d8 # 0 THEN Load(t, "value16") ELSE ValueNone])

ReadRest(t) ==
  LET l == local[t] IN
  /\ At(t, "readRest")
  /\ Enter(t, [pos |-> l.pos, slot |-> l.slot, hit |-> l.d8 # 0,
               depth |-> DepthNone + l.d8,
               value |-> IF l.d8 # 0 THEN Load(t, "value16") ELSE ValueNone])

(* ... or else the entry worth least, the first of equals.                  *)
Weigh(t) ==
  /\ At(t, "weigh")
  /\ Read(t, "weighAge", [local[t] EXCEPT !.d8 = Load(t, "depth8")])

(* Mutant: the running minimum is not carried on.                           *)
WeighAgeForgetting(t) ==
  LET l     == local[t]
      worth == Worth(l.d8, Load(t, "genBound8"))
      wins  == l.slot = 0 \/ l.least >= worth
      best  == IF wins THEN l.slot ELSE l.best
  IN
  /\ At(t, "weighAge")
  /\ \/ /\ l.slot + 1 \in Slots
        /\ Read(t, "weigh", [pos |-> l.pos, slot |-> l.slot + 1, best |-> best,
                             least |-> worth, d8 |-> 0])
     \/ /\ l.slot + 1 \notin Slots
        /\ Enter(t, [pos |-> l.pos, slot |-> best, hit |-> FALSE,
                     depth |-> DepthNone, value |-> ValueNone])

WeighAge(t) ==
  LET l     == local[t]
      worth == Worth(l.d8, Load(t, "genBound8"))
      wins  == l.slot = 0 \/ l.least > worth
      best  == IF wins THEN l.slot ELSE l.best
      least == IF wins THEN worth ELSE l.least
  IN
  /\ At(t, "weighAge")
  /\ \/ /\ l.slot + 1 \in Slots
        /\ Read(t, "weigh", [pos |-> l.pos, slot |-> l.slot + 1, best |-> best,
                             least |-> least, d8 |-> 0])
     \/ /\ l.slot + 1 \notin Slots
        /\ Enter(t, [pos |-> l.pos, slot |-> best, hit |-> FALSE,
                     depth |-> DepthNone, value |-> ValueNone])

-----------------------------------------------------------------------------
(* save(), through the writer of the innermost node.                        *)

Write(t, w) ==
  /\ At(t, "node") /\ Nodes(t) > 0
  /\ Read(t, "loadKey", [slot |-> Inner(t).slot, key |-> KeyOf[Inner(t).pos], save |-> w])

(* Mutant: the old move is kept also when the entry is another position's.  *)
LoadKeyKeepingMove(t) ==
  LET l == local[t]
      other == Load(t, "key16") # l.key
      loaded == [slot |-> l.slot, key |-> l.key, save |-> l.save, other |-> other]
  IN
  /\ At(t, "loadKey")
  /\ \/ l.save.move # NoMove /\ Read(t, "storeMove", loaded)
     \/ l.save.move = NoMove /\ Read(t, "test", loaded)

LoadKey(t) ==
  LET l == local[t]
      other == Load(t, "key16") # l.key
      loaded == [slot |-> l.slot, key |-> l.key, save |-> l.save, other |-> other]
  IN
  /\ At(t, "loadKey")
  /\ \/ (l.save.move # NoMove \/ other) /\ Read(t, "storeMove", loaded)
     \/ ~(l.save.move # NoMove \/ other) /\ Read(t, "test", loaded)

StoreMove(t) == At(t, "storeMove") /\ Store(t, "move16", local[t].save.move, "test")

(* Is what is stored worth less than what is saved?                         *)
TestDepth(t) ==
  LET w == local[t].save
      better == \/ w.bound = BoundExact
                \/ local[t].other
                \/ w.depth - DepthNone + (IF w.pv THEN 2 ELSE 0) > Load(t, "depth8") - KeepMargin
  IN
  /\ At(t, "test")
  /\ \/ better /\ Read(t, "storeKey", local[t])
     \/ ~better /\ Read(t, "testAge", local[t])

TestAge(t) ==
  /\ At(t, "testAge")
  /\ \/ RelativeAge(generation8, Load(t, "genBound8")) # 0 /\ Read(t, "storeKey", local[t])
     \/ RelativeAge(generation8, Load(t, "genBound8")) = 0 /\ Read(t, "testOld", local[t])

StoreKey(t) == At(t, "storeKey") /\ Store(t, "key16", local[t].key, "storeDepth")

StoreDepth(t) ==
  /\ At(t, "storeDepth")
  /\ Store(t, "depth8", Byte(local[t].save.depth - DepthNone), "storeGenBound")

StoreGenBound(t) ==
  /\ At(t, "storeGenBound")
  /\ Store(t, "genBound8", PackGenBound(generation8, local[t].save.bound, local[t].save.pv),
           "storeValue")

StoreValue(t) == At(t, "storeValue") /\ Store(t, "value16", local[t].save.value, "storeEval")
StoreEval(t)  == At(t, "storeEval") /\ Store(t, "eval16", local[t].save.eval, "done")

(* Secondary aging: a deep, inexact and decisive entry that is kept loses a *)
(* ply for it.                                                              *)
TestOld(t) ==
  /\ At(t, "testOld")
  /\ \/ Load(t, "depth8") + DepthNone >= AgingDepth /\ Read(t, "testBound", local[t])
     \/ Load(t, "depth8") + DepthNone < AgingDepth /\ Read(t, "done", local[t])

TestBound(t) ==
  /\ At(t, "testBound")
  /\ \/ BoundOf(Load(t, "genBound8")) # BoundExact /\ Read(t, "testValue", local[t])
     \/ BoundOf(Load(t, "genBound8")) = BoundExact /\ Read(t, "done", local[t])

TestValue(t) ==
  LET v == Load(t, "value16")
      real == -ValueInfinite < v /\ v < ValueInfinite
  IN
  /\ At(t, "testValue")
  /\ \/ real /\ IsDecisive(v) /\ Read(t, "lower", [slot |-> local[t].slot])
     \/ ~(real /\ IsDecisive(v)) /\ Read(t, "done", local[t])

(* penalize(), through the writer of the innermost node, whose value was    *)
(* valid. The decrement is a load and a store.                              *)
Penalty == 1

Penalize(t) ==
  /\ At(t, "node") /\ Nodes(t) > 0 /\ Inner(t).hit /\ IsValid(Inner(t).value)
  /\ Read(t, "lower", [slot |-> Inner(t).slot])

LoadDepth(t) ==
  /\ At(t, "lower")
  /\ Read(t, "storeLower", [slot |-> local[t].slot, d8 |-> Load(t, "depth8")])

StoreLower(t) ==
  /\ At(t, "storeLower")
  /\ Store(t, "depth8", Lowered(local[t].d8, Penalty), "done")

Done(t) == At(t, "done") /\ Read(t, "node", Idle)

Leave(t) ==
  /\ At(t, "node") /\ Nodes(t) > 0
  /\ node' = [node EXCEPT ![t] = SubSeq(@, 1, Len(@) - 1)]
  /\ UNCHANGED <<entry, generation8, pc, local>>

-----------------------------------------------------------------------------
(* Between searches, when every thread is parked.                           *)
Parked == \A t \in Threads : At(t, "node") /\ Nodes(t) = 0

(* Mutant: the generation runs into the bits of the bound.                  *)
NewSearchUnmasked ==
  /\ Parked
  /\ generation8' = generation8 + 1
  /\ UNCHANGED <<entry, node, pc, local>>

NewSearch ==
  /\ Parked
  /\ generation8' = (generation8 + 1) % Generations
  /\ UNCHANGED <<entry, node, pc, local>>

Clear ==
  /\ Parked
  /\ entry' = [s \in Slots |-> Zero]
  /\ generation8' = 0
  /\ UNCHANGED <<node, pc, local>>

ProbeStep(t) ==
  \/ \E p \in Positions : Probe(t, p)
  \/ Look(t) \/ ReadDepth(t) \/ ReadRest(t) \/ Weigh(t) \/ WeighAge(t)

SaveStep(t) ==
  \/ Nodes(t) > 0 /\ \E w \in Saves[Inner(t).pos] : Write(t, w)
  \/ LoadKey(t) \/ StoreMove(t) \/ TestDepth(t) \/ TestAge(t)
  \/ StoreKey(t) \/ StoreDepth(t) \/ StoreGenBound(t) \/ StoreValue(t) \/ StoreEval(t)
  \/ TestOld(t) \/ TestBound(t) \/ TestValue(t)

LowerStep(t) == Penalize(t) \/ LoadDepth(t) \/ StoreLower(t)

Next ==
  \/ \E t \in Threads : ProbeStep(t) \/ SaveStep(t) \/ LowerStep(t) \/ Done(t) \/ Leave(t)
  \/ NewSearch
  \/ Clear

Spec == Init /\ [][Next]_vars

-----------------------------------------------------------------------------
Entry == [key16 : Nat, depth8 : 0 .. 255, genBound8 : Nat,
          move16 : Nat, value16 : Values, eval16 : Values]
Node  == [pos : Positions, slot : Slots, hit : BOOLEAN, depth : Int, value : Values]

GoodSave == { w \in SaveArgs : w.depth - DepthNone \in 1 .. MaxDepth8 }

Probing == [pos : Positions, slot : Slots]
Reading == [pos : Positions, slot : Slots, d8 : 0 .. 255]
Weighing == [pos : Positions, slot : Slots, best : Slots, least : Int, d8 : 0 .. 255]
Saving  == [slot : Slots, key : Nat, save : GoodSave]
Storing == [slot : Slots, key : Nat, save : GoodSave, other : BOOLEAN]
Lowering == [slot : Slots, d8 : 0 .. 255]

StoreSteps == {"storeMove", "test", "testAge", "storeKey", "storeDepth", "storeGenBound",
               "storeValue", "storeEval", "testOld", "testBound", "testValue"}

Steps == StoreSteps \cup {"node", "look", "readDepth", "readRest", "weigh", "weighAge",
                          "loadKey", "lower", "storeLower", "done"}

(* What a thread must have loaded by the time it reaches a step.            *)
Fits(step, loaded) ==
  /\ loaded.slot \in Slots
  /\ step \in {"look", "readDepth"}  => loaded \in Probing
  /\ step = "readRest"               => loaded \in Reading
  /\ step \in {"weigh", "weighAge"}  => loaded \in Weighing
  /\ step = "loadKey"                => loaded \in Saving
  /\ step \in StoreSteps             => loaded \in Storing
  /\ step = "storeLower"             => loaded \in Lowering

TypeOK ==
  /\ entry \in [Slots -> Entry]
  /\ generation8 \in 0 .. Generations - 1
  /\ node \in [Threads -> Seq(Node)]
  /\ pc \in [Threads -> Steps]
  /\ DOMAIN local = Threads
  /\ \A t \in Threads : Fits(pc[t], local[t])

(* However the decrements of several threads fall between one another's     *)
(* loads and stores, and between saves, no depth8 wraps below zero and makes*)
(* a worn-out entry the deepest of its cluster.                             *)
DepthNeverWraps == \A s \in Slots : entry[s].depth8 <= MaxDepth8

(* A hit is an occupied entry's, also when the entry is emptied while it is *)
(* being read: the copy a hit returns never has the depth of "none".        *)
HitHasDepth ==
  \A t \in Threads : \A i \in 1 .. Nodes(t) :
    node[t][i].hit <=> node[t][i].depth > DepthNone

(* No depth8 on its way from a load to a store is out of range either.      *)
LoadedDepthInRange ==
  \A t \in Threads : pc[t] \in {"readRest", "storeLower"} => local[t].d8 <= MaxDepth8

IInv == TypeOK /\ DepthNeverWraps /\ HitHasDepth /\ LoadedDepthInRange

(* With one thread, whatever nests inside a node between its probe and its  *)
(* save: an entry is empty or is one save to its key, whole, but for the    *)
(* move, which another save to that key may have left, and for the depth,   *)
(* which aging and penalties only lower.                                    *)
OfOneSave(e) ==
  \/ e.depth8 = 0 /\ e.value16 = 0
  \/ /\ \E p \in Positions : KeyOf[p] = e.key16 /\
          \E w \in Saves[p] :
            /\ e.value16 = w.value /\ e.eval16 = w.eval
            /\ BoundOf(e.genBound8) = w.bound /\ PvOf(e.genBound8) = w.pv
            /\ e.depth8 <= w.depth - DepthNone
     /\ e.move16 # NoMove =>
          \E p \in Positions : KeyOf[p] = e.key16 /\ \E w \in Saves[p] : w.move = e.move16

EntriesAreWhole ==
  (\A t \in Threads : At(t, "node")) => \A s \in Slots : OfOneSave(entry[s])

(* With one thread, a hit never claims more depth than its value was        *)
(* searched to.                                                             *)
HitsAreHonest ==
  \A t \in Threads : \A i \in 1 .. Nodes(t) :
    LET n == node[t][i] IN
    n.hit => \E p \in Positions : KeyOf[p] = KeyOf[n.pos] /\
               \E w \in Saves[p] : w.value = n.value /\ n.depth <= w.depth

(* With one thread, a miss gives up the entry that is worth least, and the  *)
(* first of those worth the same: the running minimum of probe() is one.    *)
WorthOf(s) == Worth(entry[s].depth8, entry[s].genBound8)
GivesLeast ==
  \A t \in Threads : pc[t] = "weighAge" /\ pc'[t] = "node" =>
    LET given == node'[t][Len(node'[t])].slot
    IN  \A s \in Slots : IF s < given THEN WorthOf(s) > WorthOf(given)
                                      ELSE WorthOf(s) >= WorthOf(given)
MissReplacesLeast == [][GivesLeast]_vars
=============================================================================
