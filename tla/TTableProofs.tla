---------------------------- MODULE TTableProofs ----------------------------
(* TLAPS proofs about the races of TTable.tla, for every set of threads and *)
(* positions, every size of cluster and every depth of nesting.             *)
EXTENDS TTable, SequenceTheorems, TLAPS

USE KeyOfAssumption, SizesAssumption, MaxDepth8Assumption, MarginsAssumption,
    GenerationsAssumption

(* A decrement that starts in range stays in range.                         *)
LEMMA LoweredInRange ==
  ASSUME NEW d \in 0 .. MaxDepth8
  PROVE  Lowered(d, Penalty) \in 0 .. MaxDepth8
  BY DEF Lowered, Byte, Penalty

(* The byte of a depth that may be saved is that depth.                     *)
LEMMA SavedDepthInRange ==
  ASSUME NEW w \in GoodSave
  PROVE  Byte(w.depth - DepthNone) \in 0 .. MaxDepth8
  BY DEF GoodSave, Byte, DepthNone, SaveArgs

LEMMA GenBoundIsNat ==
  ASSUME NEW g \in 0 .. Generations - 1, NEW w \in GoodSave
  PROVE  PackGenBound(g, w.bound, w.pv) \in Nat
<1>1. w.bound \in Nat /\ w.pv \in BOOLEAN
  BY DEF GoodSave, SaveArgs, Bounds
<1>2. Generations * w.bound \in Nat
  BY <1>1
<1> QED BY <1>1, <1>2 DEF PackGenBound

LEMMA WorthIsInt ==
  ASSUME NEW d \in Int, NEW gb \in Nat, generation8 \in 0 .. Generations - 1
  PROVE  Worth(d, gb) \in Int
<1>1. RelativeAge(generation8, gb) \in Int
  BY DEF RelativeAge
<1> QED BY <1>1 DEF Worth, AgeWeight

LEMMA InitEstablishesInvariant == Init => IInv
<1> SUFFICES ASSUME Init PROVE IInv
  OBVIOUS
<1>1. 0 \in Slots
  BY DEF Slots
<1>2. Zero \in Entry
  BY DEF Zero, Entry, Values, NoMove, ValueInfinite, ValueNone
<1>3. TypeOK
  <2>1. node \in [Threads -> Seq(Node)]
    BY DEF Init
  <2>2. \A t \in Threads : Fits(pc[t], local[t])
    BY <1>1 DEF Init, Fits, Idle, StoreSteps
  <2> QED BY <1>2, <2>1, <2>2 DEF Init, TypeOK, Steps
<1>4. DepthNeverWraps
  BY DEF Init, DepthNeverWraps, Zero
<1>5. HitHasDepth
  BY DEF Init, HitHasDepth, Nodes
<1>6. LoadedDepthInRange
  BY DEF Init, LoadedDepthInRange
<1> QED BY <1>3, <1>4, <1>5, <1>6 DEF IInv

-----------------------------------------------------------------------------
(* A step that only reads leaves the invariant alone if what it loaded is   *)
(* what the step it goes on to needs.                                       *)
LEMMA ReadPreserves ==
  ASSUME IInv, NEW t \in Threads, NEW step \in Steps, NEW loaded,
         Read(t, step, loaded), Fits(step, loaded),
         step \in {"readRest", "storeLower"} => loaded.d8 <= MaxDepth8
  PROVE  IInv'
<1> USE DEF IInv, Read, Goto, Keep
<1>1. TypeOK'
  <2>1. \A u \in Threads : Fits(pc'[u], local'[u])
    BY DEF TypeOK
  <2>2. /\ entry' \in [Slots -> Entry] /\ generation8' \in 0 .. Generations - 1
        /\ node' \in [Threads -> Seq(Node)] /\ pc' \in [Threads -> Steps]
        /\ DOMAIN local' = Threads
    BY DEF TypeOK
  <2> QED BY <2>1, <2>2 DEF TypeOK, Fits
<1>2. DepthNeverWraps'
  BY DEF DepthNeverWraps
<1>3. HitHasDepth'
  BY DEF HitHasDepth, Nodes
<1>4. LoadedDepthInRange'
  BY DEF LoadedDepthInRange, TypeOK
<1> QED BY <1>1, <1>2, <1>3, <1>4

(* A store of a value of the field's type, no deeper than a save can be.    *)
LEMMA StorePreserves ==
  ASSUME IInv, NEW t \in Threads, NEW field \in {"key16", "depth8", "genBound8", "move16",
                                                "value16", "eval16"},
         NEW v, NEW step \in Steps \ {"readRest", "storeLower"},
         Store(t, field, v, step), Fits(step, local[t]),
         \A e \in Entry : [e EXCEPT ![field] = v] \in Entry,
         field = "depth8" => v <= MaxDepth8
  PROVE  IInv'
<1> USE DEF IInv, Store, Goto
<1> DEFINE s == local[t].slot
<1>0. s \in Slots /\ entry[s] \in Entry
  BY DEF TypeOK, Fits
<1>1. TypeOK'
  <2>1. \A u \in Threads : Fits(pc'[u], local'[u])
    BY DEF TypeOK
  <2>2. entry' \in [Slots -> Entry]
    BY <1>0 DEF TypeOK
  <2>3. /\ generation8' \in 0 .. Generations - 1
        /\ node' \in [Threads -> Seq(Node)] /\ pc' \in [Threads -> Steps]
        /\ DOMAIN local' = Threads
    BY DEF TypeOK
  <2> QED BY <2>1, <2>2, <2>3 DEF TypeOK, Fits
<1>2. DepthNeverWraps'
  <2> SUFFICES ASSUME NEW r \in Slots PROVE entry'[r].depth8 <= MaxDepth8
    BY DEF DepthNeverWraps
  <2>1. CASE r = s /\ field = "depth8"
    BY <1>0, <2>1 DEF TypeOK, Entry
  <2>2. CASE r = s /\ field # "depth8"
    BY <1>0, <2>2 DEF TypeOK, Entry, DepthNeverWraps
  <2>3. CASE r # s
    BY <2>3 DEF TypeOK, DepthNeverWraps
  <2> QED BY <2>1, <2>2, <2>3
<1>3. HitHasDepth'
  BY DEF HitHasDepth, Nodes
<1>4. LoadedDepthInRange'
  BY DEF LoadedDepthInRange, TypeOK
<1> QED BY <1>1, <1>2, <1>3, <1>4

LEMMA EnterPreserves ==
  ASSUME IInv, NEW t \in Threads, NEW n \in Node, Enter(t, n), n.hit <=> n.depth > DepthNone
  PROVE  IInv'
<1> USE DEF IInv, Enter, Goto, Keep
<1>1. TypeOK'
  <2>1. Fits("node", Idle)
    BY DEF Fits, Idle, Slots, StoreSteps
  <2>2. \A u \in Threads : Fits(pc'[u], local'[u])
    BY <2>1 DEF TypeOK
  <2>3. node' \in [Threads -> Seq(Node)]
    BY DEF TypeOK
  <2>4. /\ entry' \in [Slots -> Entry] /\ generation8' \in 0 .. Generations - 1
        /\ pc' \in [Threads -> Steps] /\ DOMAIN local' = Threads
    BY DEF TypeOK, Steps
  <2> QED BY <2>2, <2>3, <2>4 DEF TypeOK, Fits
<1>2. DepthNeverWraps'
  BY DEF DepthNeverWraps
<1>3. HitHasDepth'
  <2> SUFFICES ASSUME NEW u \in Threads, NEW i \in 1 .. Len(node'[u])
               PROVE  node'[u][i].hit <=> node'[u][i].depth > DepthNone
    BY DEF HitHasDepth, Nodes
  <2>1. CASE u # t
    BY <2>1 DEF HitHasDepth, Nodes, TypeOK
  <2>2. CASE u = t
    <3>1. node'[t] = Append(node[t], n) /\ node[t] \in Seq(Node)
      BY DEF TypeOK
    <3>2. CASE i = Len(node[t]) + 1
      BY <2>2, <3>1, <3>2
    <3>3. CASE i \in 1 .. Len(node[t])
      BY <2>2, <3>1, <3>3 DEF HitHasDepth, Nodes
    <3> QED BY <2>2, <3>1, <3>2, <3>3
  <2> QED BY <2>1, <2>2
<1>4. LoadedDepthInRange'
  BY DEF LoadedDepthInRange, TypeOK
<1> QED BY <1>1, <1>2, <1>3, <1>4

-----------------------------------------------------------------------------
(* What a thread has loaded when it is at a step.                           *)
LEMMA Loaded ==
  ASSUME IInv, NEW t \in Threads
  PROVE  /\ Fits(pc[t], local[t])
         /\ pc[t] \in Steps
         /\ node[t] \in Seq(Node)
         /\ generation8 \in 0 .. Generations - 1
         /\ local[t].slot \in Slots
         /\ entry[local[t].slot] \in Entry
         /\ entry[local[t].slot].depth8 <= MaxDepth8
<1>1. Fits(pc[t], local[t])
  BY DEF IInv, TypeOK
<1>2. local[t].slot \in Slots
  BY <1>1 DEF Fits
<1> QED BY <1>1, <1>2 DEF IInv, TypeOK, DepthNeverWraps

LEMMA InnerIsNode ==
  ASSUME IInv, NEW t \in Threads, Nodes(t) > 0
  PROVE  Inner(t) \in Node
  BY Loaded DEF Inner, Nodes

LEMMA ProbePreserves ==
  ASSUME IInv, NEW t \in Threads, ProbeStep(t)
  PROVE  IInv'
<1> DEFINE l == local[t]
           e == entry[l.slot]
<1>0. /\ Fits(pc[t], l) /\ pc[t] \in Steps /\ generation8 \in 0 .. Generations - 1
      /\ e \in Entry /\ e.depth8 <= MaxDepth8
  BY Loaded
<1>1. ASSUME NEW p \in Positions, Probe(t, p) PROVE IInv'
  <2>1. Fits("look", [pos |-> p, slot |-> 0])
    BY DEF Fits, Probing, Slots, StoreSteps
  <2> QED BY <1>1, <2>1, ReadPreserves DEF Probe, Steps
<1>2. CASE Look(t)
  <2>1. l \in Probing
    BY <1>0, <1>2 DEF Look, At, Fits
  <2>2. Fits("readDepth", l)
    BY <2>1 DEF Fits, Probing, StoreSteps
  <2>3. l.slot + 1 \in Slots => Fits("look", [l EXCEPT !.slot = @ + 1])
    BY <2>1 DEF Fits, Probing, StoreSteps
  <2>4. Fits("weigh", [pos |-> l.pos, slot |-> 0, best |-> 0, least |-> 0, d8 |-> 0])
    BY <2>1 DEF Fits, Probing, Weighing, Slots, StoreSteps
  <2>5. CASE Read(t, "readDepth", l)
    BY <2>2, <2>5, ReadPreserves DEF Steps
  <2>6. CASE l.slot + 1 \in Slots /\ Read(t, "look", [l EXCEPT !.slot = @ + 1])
    BY <2>3, <2>6, ReadPreserves DEF Steps
  <2>7. CASE Read(t, "weigh", [pos |-> l.pos, slot |-> 0, best |-> 0, least |-> 0, d8 |-> 0])
    BY <2>4, <2>7, ReadPreserves DEF Steps
  <2> QED BY <1>2, <2>5, <2>6, <2>7 DEF Look
<1>3. CASE ReadDepth(t)
  <2> DEFINE n == [pos |-> l.pos, slot |-> l.slot, d8 |-> e.depth8]
  <2>1. l \in Probing
    BY <1>0, <1>3 DEF ReadDepth, At, Fits
  <2>2. n \in Reading
    BY <1>0, <2>1 DEF Probing, Reading, Entry
  <2>3. Fits("readRest", n) /\ n.d8 <= MaxDepth8
    BY <1>0, <2>2 DEF Fits, Reading, StoreSteps
  <2>4. Read(t, "readRest", n)
    BY <1>3 DEF ReadDepth, Load
  <2> HIDE DEF n
  <2> QED BY <2>3, <2>4, ReadPreserves DEF Steps
<1>4. CASE ReadRest(t)
  <2> DEFINE n == [pos |-> l.pos, slot |-> l.slot, hit |-> l.d8 # 0,
                   depth |-> DepthNone + l.d8,
                   value |-> IF l.d8 # 0 THEN e.value16 ELSE ValueNone]
  <2>1. l \in Reading
    BY <1>0, <1>4 DEF ReadRest, At, Fits
  <2>2. (IF l.d8 # 0 THEN e.value16 ELSE ValueNone) \in Values
    <3>1. e.value16 \in Values
      BY <1>0 DEF Entry
    <3>2. ValueNone \in Values
      BY DEF Values, ValueNone, ValueInfinite
    <3> QED BY <3>1, <3>2
  <2>3. n \in Node
    BY <2>1, <2>2 DEF Reading, Node, DepthNone
  <2>4. n.hit <=> n.depth > DepthNone
    <3>1. l.d8 \in 0 .. 255
      BY <2>1 DEF Reading
    <3>2. (l.d8 # 0) <=> (DepthNone + l.d8 > DepthNone)
      BY <3>1 DEF DepthNone
    <3>3. n.hit = (l.d8 # 0) /\ n.depth = DepthNone + l.d8
      OBVIOUS
    <3> HIDE DEF n
    <3> QED BY <3>2, <3>3
  <2>5. Enter(t, n)
    BY <1>4 DEF ReadRest, Load
  <2> HIDE DEF n
  <2> QED BY <2>3, <2>4, <2>5, EnterPreserves
<1>5. CASE Weigh(t)
  <2> DEFINE n == [l EXCEPT !.d8 = e.depth8]
  <2>1. l \in Weighing
    BY <1>0, <1>5 DEF Weigh, At, Fits
  <2>2. n \in Weighing
    BY <1>0, <2>1 DEF Weighing, Entry
  <2>3. Fits("weighAge", n)
    BY <2>2 DEF Fits, Weighing, StoreSteps
  <2>4. Read(t, "weighAge", n)
    BY <1>5 DEF Weigh, Load
  <2> HIDE DEF n
  <2> QED BY <2>3, <2>4, ReadPreserves DEF Steps
<1>6. CASE WeighAge(t)
  <2> DEFINE worth == Worth(l.d8, e.genBound8)
             wins  == l.slot = 0 \/ l.least > worth
             best  == IF wins THEN l.slot ELSE l.best
             least == IF wins THEN worth ELSE l.least
             m == [pos |-> l.pos, slot |-> l.slot + 1, best |-> best, least |-> least, d8 |-> 0]
             n == [pos |-> l.pos, slot |-> best, hit |-> FALSE,
                   depth |-> DepthNone, value |-> ValueNone]
  <2>1. l \in Weighing
    BY <1>0, <1>6 DEF WeighAge, At, Fits
  <2>2. worth \in Int
    <3>1. l.d8 \in Int /\ e.genBound8 \in Nat
      BY <1>0, <2>1 DEF Weighing, Entry
    <3> QED BY <1>0, <3>1, WorthIsInt
  <2>3. best \in Slots /\ least \in Int /\ l.pos \in Positions
    <3> HIDE DEF worth
    <3> QED BY <2>1, <2>2 DEF Weighing
  <2>4. \/ l.slot + 1 \in Slots /\ Read(t, "weigh", m)
        \/ Enter(t, n)
    BY <1>6 DEF WeighAge, Load
  <2> HIDE DEF best, least
  <2>5. CASE l.slot + 1 \in Slots /\ Read(t, "weigh", m)
    <3>1. Fits("weigh", m)
      BY <2>3, <2>5 DEF Fits, Weighing, StoreSteps
    <3> HIDE DEF m
    <3> QED BY <2>5, <3>1, ReadPreserves DEF Steps
  <2>6. CASE Enter(t, n)
    <3>1. n \in Node /\ (n.hit <=> n.depth > DepthNone)
      BY <2>3 DEF Node, DepthNone, Values, ValueNone, ValueInfinite
    <3> HIDE DEF n
    <3> QED BY <2>6, <3>1, EnterPreserves
  <2> QED BY <2>4, <2>5, <2>6
<1> QED BY <1>1, <1>2, <1>3, <1>4, <1>5, <1>6 DEF ProbeStep

LEMMA SavePreserves ==
  ASSUME IInv, NEW t \in Threads, SaveStep(t)
  PROVE  IInv'
<1> DEFINE l == local[t]
           e == entry[l.slot]
           w == l.save
<1>0. /\ Fits(pc[t], l) /\ pc[t] \in Steps /\ generation8 \in 0 .. Generations - 1
      /\ e \in Entry /\ e.depth8 <= MaxDepth8 /\ l.slot \in Slots
  BY Loaded
<1>1. ASSUME Nodes(t) > 0, NEW x \in Saves[Inner(t).pos], Write(t, x) PROVE IInv'
  <2> DEFINE n == [slot |-> Inner(t).slot, key |-> KeyOf[Inner(t).pos], save |-> x]
  <2>1. Inner(t).slot \in Slots /\ Inner(t).pos \in Positions
    BY <1>1, InnerIsNode DEF Node
  <2>2. n \in Saving
    BY <1>1, <2>1, SavesAssumption DEF Saving, GoodSave
  <2>3. Fits("loadKey", n)
    BY <2>2 DEF Fits, Saving, StoreSteps
  <2>4. Read(t, "loadKey", n)
    BY <1>1 DEF Write
  <2> HIDE DEF n
  <2> QED BY <2>3, <2>4, ReadPreserves DEF Steps
<1>2. CASE LoadKey(t)
  <2> DEFINE n == [slot |-> l.slot, key |-> l.key, save |-> l.save, other |-> e.key16 # l.key]
  <2>1. n \in Storing
    BY <1>0, <1>2 DEF LoadKey, At, Fits, Saving, Storing
  <2>2. Fits("storeMove", n) /\ Fits("test", n)
    BY <2>1 DEF Fits, Storing, StoreSteps
  <2>3. Read(t, "storeMove", n) \/ Read(t, "test", n)
    BY <1>2 DEF LoadKey, Load
  <2> HIDE DEF n
  <2> QED BY <2>2, <2>3, ReadPreserves DEF Steps, StoreSteps
(* From here on the thread stores, or tests and keeps what it has loaded.   *)
<1>3. ASSUME pc[t] \in StoreSteps
      PROVE  /\ l \in Storing /\ w \in GoodSave
             /\ \A step \in StoreSteps \cup {"done"} : Fits(step, l)
  <2>1. l \in Storing
    BY <1>0, <1>3 DEF Fits
  <2> QED BY <2>1 DEF Fits, Storing, StoreSteps
<1>4. ASSUME pc[t] \in StoreSteps, NEW step \in StoreSteps \cup {"done"}, Read(t, step, l)
      PROVE  IInv'
  <2>1. step \in Steps /\ step \notin {"readRest", "storeLower"}
    BY <1>4 DEF Steps, StoreSteps
  <2> QED BY <1>3, <1>4, <2>1, ReadPreserves
<1>5. ASSUME pc[t] \in StoreSteps, NEW step \in StoreSteps \cup {"done"},
             NEW field \in {"key16", "depth8", "genBound8", "move16", "value16", "eval16"},
             NEW v, Store(t, field, v, step),
             \A x \in Entry : [x EXCEPT ![field] = v] \in Entry,
             field = "depth8" => v <= MaxDepth8
      PROVE  IInv'
  <2>1. step \in Steps \ {"readRest", "storeLower"}
    BY <1>5 DEF Steps, StoreSteps
  <2> QED BY <1>3, <1>5, <2>1, StorePreserves
<1>6. CASE StoreMove(t)
  <2>1. pc[t] \in StoreSteps /\ Store(t, "move16", w.move, "test")
    BY <1>6 DEF StoreMove, At, StoreSteps
  <2>2. \A x \in Entry : [x EXCEPT !["move16"] = w.move] \in Entry
    BY <1>3, <2>1 DEF Entry, GoodSave, SaveArgs
  <2> QED BY <1>5, <2>1, <2>2 DEF StoreSteps
<1>7. CASE TestDepth(t)
  <2>1. pc[t] \in StoreSteps /\ (Read(t, "storeKey", l) \/ Read(t, "testAge", l))
    BY <1>7 DEF TestDepth, At, StoreSteps
  <2> QED BY <1>4, <2>1 DEF StoreSteps
<1>8. CASE TestAge(t)
  <2>1. pc[t] \in StoreSteps /\ (Read(t, "storeKey", l) \/ Read(t, "testOld", l))
    BY <1>8 DEF TestAge, At, StoreSteps
  <2> QED BY <1>4, <2>1 DEF StoreSteps
<1>9. CASE StoreKey(t)
  <2>1. pc[t] \in StoreSteps /\ Store(t, "key16", l.key, "storeDepth")
    BY <1>9 DEF StoreKey, At, StoreSteps
  <2>2. \A x \in Entry : [x EXCEPT !["key16"] = l.key] \in Entry
    BY <1>3, <2>1 DEF Entry, Storing
  <2> QED BY <1>5, <2>1, <2>2 DEF StoreSteps
<1>10. CASE StoreDepth(t)
  <2> DEFINE v == Byte(w.depth - DepthNone)
  <2>1. pc[t] \in StoreSteps /\ Store(t, "depth8", v, "storeGenBound")
    BY <1>10 DEF StoreDepth, At, StoreSteps
  <2>2. v \in 0 .. MaxDepth8
    BY <1>3, <2>1, SavedDepthInRange
  <2> HIDE DEF v
  <2>3. \A x \in Entry : [x EXCEPT !["depth8"] = v] \in Entry
    BY <2>2 DEF Entry
  <2> QED BY <1>5, <2>1, <2>2, <2>3 DEF StoreSteps
<1>11. CASE StoreGenBound(t)
  <2> DEFINE v == PackGenBound(generation8, w.bound, w.pv)
  <2>1. pc[t] \in StoreSteps /\ Store(t, "genBound8", v, "storeValue")
    BY <1>11 DEF StoreGenBound, At, StoreSteps
  <2>2. v \in Nat
    BY <1>0, <1>3, <2>1, GenBoundIsNat
  <2> HIDE DEF v
  <2>3. \A x \in Entry : [x EXCEPT !["genBound8"] = v] \in Entry
    BY <2>2 DEF Entry
  <2> QED BY <1>5, <2>1, <2>2, <2>3 DEF StoreSteps
<1>12. CASE StoreValue(t)
  <2>1. pc[t] \in StoreSteps /\ Store(t, "value16", w.value, "storeEval")
    BY <1>12 DEF StoreValue, At, StoreSteps
  <2>2. \A x \in Entry : [x EXCEPT !["value16"] = w.value] \in Entry
    BY <1>3, <2>1 DEF Entry, GoodSave, SaveArgs
  <2> QED BY <1>5, <2>1, <2>2 DEF StoreSteps
<1>13. CASE StoreEval(t)
  <2>1. pc[t] \in StoreSteps /\ Store(t, "eval16", w.eval, "done")
    BY <1>13 DEF StoreEval, At, StoreSteps
  <2>2. \A x \in Entry : [x EXCEPT !["eval16"] = w.eval] \in Entry
    BY <1>3, <2>1 DEF Entry, GoodSave, SaveArgs
  <2> QED BY <1>5, <2>1, <2>2 DEF StoreSteps
<1>14. CASE TestOld(t)
  <2>1. pc[t] \in StoreSteps /\ (Read(t, "testBound", l) \/ Read(t, "done", l))
    BY <1>14 DEF TestOld, At, StoreSteps
  <2> QED BY <1>4, <2>1 DEF StoreSteps
<1>15. CASE TestBound(t)
  <2>1. pc[t] \in StoreSteps /\ (Read(t, "testValue", l) \/ Read(t, "done", l))
    BY <1>15 DEF TestBound, At, StoreSteps
  <2> QED BY <1>4, <2>1 DEF StoreSteps
<1>16. CASE TestValue(t)
  <2>1. /\ pc[t] \in StoreSteps
        /\ Read(t, "lower", [slot |-> l.slot]) \/ Read(t, "done", l)
    BY <1>16 DEF TestValue, At, StoreSteps
  <2>2. CASE Read(t, "lower", [slot |-> l.slot])
    <3>1. Fits("lower", [slot |-> l.slot])
      BY <1>0 DEF Fits, StoreSteps
    <3> QED BY <2>2, <3>1, ReadPreserves DEF Steps
  <2>3. CASE Read(t, "done", l)
    BY <1>4, <2>1, <2>3
  <2> QED BY <2>1, <2>2, <2>3
<1> QED BY <1>1, <1>2, <1>6, <1>7, <1>8, <1>9, <1>10, <1>11, <1>12, <1>13, <1>14, <1>15, <1>16
        DEF SaveStep

LEMMA LowerPreserves ==
  ASSUME IInv, NEW t \in Threads, LowerStep(t)
  PROVE  IInv'
<1> DEFINE l == local[t]
           e == entry[l.slot]
<1>0. /\ Fits(pc[t], l) /\ e \in Entry /\ e.depth8 <= MaxDepth8 /\ l.slot \in Slots
  BY Loaded
<1>1. CASE Penalize(t)
  <2>1. Inner(t).slot \in Slots
    BY <1>1, InnerIsNode DEF Penalize, Node
  <2>2. Fits("lower", [slot |-> Inner(t).slot])
    BY <2>1 DEF Fits, StoreSteps
  <2> QED BY <1>1, <2>2, ReadPreserves DEF Penalize, Steps
<1>2. CASE LoadDepth(t)
  <2> DEFINE n == [slot |-> l.slot, d8 |-> e.depth8]
  <2>1. n \in Lowering
    BY <1>0 DEF Lowering, Entry
  <2>2. Fits("storeLower", n) /\ n.d8 <= MaxDepth8
    BY <1>0, <2>1 DEF Fits, Lowering, StoreSteps
  <2>3. Read(t, "storeLower", n)
    BY <1>2 DEF LoadDepth, Load
  <2> HIDE DEF n
  <2> QED BY <2>2, <2>3, ReadPreserves DEF Steps
<1>3. CASE StoreLower(t)
  <2> DEFINE v == Lowered(l.d8, Penalty)
  <2>1. l.d8 \in 0 .. MaxDepth8
    BY <1>0, <1>3 DEF StoreLower, At, Fits, Lowering, IInv, LoadedDepthInRange
  <2>2. v \in 0 .. MaxDepth8
    BY <2>1, LoweredInRange
  <2>3. Fits("done", l)
    BY <1>0 DEF Fits, StoreSteps
  <2>4. Store(t, "depth8", v, "done")
    BY <1>3 DEF StoreLower
  <2> HIDE DEF v
  <2>5. \A x \in Entry : [x EXCEPT !["depth8"] = v] \in Entry
    BY <2>2 DEF Entry
  <2> QED BY <2>2, <2>3, <2>4, <2>5, StorePreserves DEF Steps
<1> QED BY <1>1, <1>2, <1>3 DEF LowerStep

LEMMA DonePreserves ==
  ASSUME IInv, NEW t \in Threads, Done(t)
  PROVE  IInv'
<1>1. Fits("node", Idle)
  BY DEF Fits, Idle, Slots, StoreSteps
<1> QED BY <1>1, ReadPreserves DEF Done, Steps

LEMMA LeavePreserves ==
  ASSUME IInv, NEW t \in Threads, Leave(t)
  PROVE  IInv'
<1> USE DEF IInv, Leave
<1>1. node[t] \in Seq(Node) /\ Len(node[t]) > 0
  BY DEF TypeOK, Nodes
<1>2. /\ node'[t] \in Seq(Node) /\ Len(node'[t]) = Len(node[t]) - 1
      /\ \A i \in 1 .. Len(node'[t]) : node'[t][i] = node[t][i]
  <2> DEFINE q == node[t]
             r == SubSeq(q, 1, Len(q) - 1)
  <2>1. node'[t] = r
    BY DEF TypeOK
  <2>2. q \in Seq(Node) /\ Len(q) \in Nat /\ Len(q) > 0
    BY <1>1
  <2> HIDE DEF q
  <2>3. r \in Seq(Node) /\ Len(r) = Len(q) - 1 /\ \A i \in 1 .. Len(q) - 1 : r[i] = q[i]
    <3> DEFINE n == Len(q) - 1
    <3>1. n \in Nat /\ \A i \in 1 .. n : q[i] \in Node
      BY <2>2
    <3> HIDE DEF n
    <3>2. /\ SubSeq(q, 1, n) \in Seq(Node)
          /\ Len(SubSeq(q, 1, n)) = IF 1 <= n THEN n - 1 + 1 ELSE 0
          /\ \A i \in 1 .. n - 1 + 1 : SubSeq(q, 1, n)[i] = q[1 + i - 1]
      BY <3>1, SubSeqProperties
    <3>3. /\ Len(SubSeq(q, 1, n)) = n
          /\ \A i \in 1 .. n : SubSeq(q, 1, n)[i] = q[i]
      BY <3>1, <3>2
    <3> QED BY <3>2, <3>3 DEF n
  <2> QED BY <2>1, <2>3 DEF q
<1>3. node' \in [Threads -> Seq(Node)]
  BY <1>2 DEF TypeOK
<1>4. TypeOK'
  <2>1. \A u \in Threads : Fits(pc'[u], local'[u])
    BY DEF TypeOK
  <2> QED BY <1>3, <2>1 DEF TypeOK, Fits
<1>5. HitHasDepth'
  <2> SUFFICES ASSUME NEW u \in Threads, NEW i \in 1 .. Len(node'[u])
               PROVE  node'[u][i].hit <=> node'[u][i].depth > DepthNone
    BY DEF HitHasDepth, Nodes
  <2>1. CASE u # t
    BY <2>1 DEF HitHasDepth, Nodes, TypeOK
  <2>2. CASE u = t
    BY <1>1, <1>2, <2>2 DEF HitHasDepth, Nodes
  <2> QED BY <2>1, <2>2
<1>6. DepthNeverWraps' /\ LoadedDepthInRange'
  BY DEF DepthNeverWraps, LoadedDepthInRange
<1> QED BY <1>4, <1>5, <1>6

(* Between searches no thread holds anything it has loaded.                 *)
LEMMA ParkedPreserves ==
  ASSUME IInv, NewSearch \/ Clear
  PROVE  IInv'
<1> USE DEF IInv
<1>1. /\ generation8' \in 0 .. Generations - 1
      /\ node' = node /\ pc' = pc /\ local' = local
  BY DEF NewSearch, Clear, TypeOK
<1>2. entry' \in [Slots -> Entry] /\ DepthNeverWraps'
  <2>1. CASE NewSearch
    BY <2>1 DEF NewSearch, TypeOK, DepthNeverWraps
  <2>2. CASE Clear
    <3>1. Zero \in Entry /\ Zero.depth8 = 0
      BY DEF Zero, Entry, Values, NoMove, ValueInfinite, ValueNone
    <3> QED BY <2>2, <3>1 DEF Clear, DepthNeverWraps
  <2> QED BY <2>1, <2>2
<1>3. TypeOK'
  <2>1. \A u \in Threads : Fits(pc'[u], local'[u])
    BY <1>1 DEF TypeOK
  <2> QED BY <1>1, <1>2, <2>1 DEF TypeOK, Fits
<1>4. HitHasDepth' /\ LoadedDepthInRange'
  BY <1>1 DEF HitHasDepth, LoadedDepthInRange, Nodes
<1> QED BY <1>2, <1>3, <1>4

LEMMA StepPreserves == IInv /\ [Next]_vars => IInv'
<1> SUFFICES ASSUME IInv, [Next]_vars PROVE IInv'
  OBVIOUS
<1>1. CASE \E t \in Threads : ProbeStep(t) \/ SaveStep(t) \/ LowerStep(t) \/ Done(t) \/ Leave(t)
  BY <1>1, ProbePreserves, SavePreserves, LowerPreserves, DonePreserves, LeavePreserves
<1>2. CASE NewSearch \/ Clear
  BY <1>2, ParkedPreserves
<1>3. CASE UNCHANGED vars
  <2>1. \A u \in Threads : Fits(pc'[u], local'[u])
    BY <1>3 DEF IInv, TypeOK, vars
  <2>2. TypeOK'
    BY <1>3, <2>1 DEF IInv, TypeOK, vars, Fits
  <2>3. DepthNeverWraps' /\ HitHasDepth' /\ LoadedDepthInRange'
    BY <1>3 DEF IInv, DepthNeverWraps, HitHasDepth, LoadedDepthInRange, Nodes, vars
  <2> QED BY <2>2, <2>3 DEF IInv
<1> QED BY <1>1, <1>2, <1>3 DEF Next

LEMMA InvariantHolds == Spec => []IInv
  BY InitEstablishesInvariant, StepPreserves, PTL DEF Spec

(* However many threads save, age and penalize an entry at once, no depth8  *)
(* wraps: none exceeds the deepest depth ever saved.                        *)
THEOREM RacesNeverWrapDepth == Spec => []DepthNeverWraps
  BY InvariantHolds, PTL DEF IInv

(* A hit's depth is an occupied entry's, whatever other threads store while *)
(* the entry is read.                                                       *)
THEOREM RacesKeepHitsDeep == Spec => []HitHasDepth
  BY InvariantHolds, PTL DEF IInv

(***************************************************************************)
(* One thread.  Between its loads and stores no other thread writes, so an *)
(* entry that is being saved holds, field by field, what the save has      *)
(* stored so far, every other entry is the whole of one save, what a probe *)
(* has loaded is what the entry says, and the running minimum of a miss is *)
(* the minimum of the entries it has weighed.                              *)
(***************************************************************************)
MoveOfKey(e, k) ==
  e.move16 # NoMove => \E p \in Positions : KeyOf[p] = k /\ \E w \in Saves[p] : w.move = e.move16

RestOfKey(e) ==
  \E p \in Positions : KeyOf[p] = e.key16 /\
    \E w \in Saves[p] :
      /\ e.value16 = w.value /\ e.eval16 = w.eval
      /\ BoundOf(e.genBound8) = w.bound /\ PvOf(e.genBound8) = w.pv
      /\ e.depth8 <= w.depth - DepthNone

Whole(e) == MoveOfKey(e, e.key16) /\ (RestOfKey(e) \/ (e.depth8 = 0 /\ e.value16 = 0))

(* The steps at which the entry of a save may be torn.                      *)
Torn == {"storeKey", "storeDepth", "storeGenBound", "storeValue", "storeEval"}
IsTorn(t) == pc[t] \in Torn \/ (pc[t] = "test" /\ local[t].other)

At1(t) == entry[local[t].slot]
OthersAreWhole(t) == \A s \in Slots : Whole(entry[s]) \/ (s = local[t].slot /\ IsTorn(t))
SaveIsOfKey(t) ==
  pc[t] \in StoreSteps \cup {"loadKey"} =>
    \E p \in Positions : KeyOf[p] = local[t].key /\ local[t].save \in Saves[p]
OtherIsTrue(t) ==
  /\ pc[t] \in {"storeMove", "test"} => (local[t].other <=> At1(t).key16 # local[t].key)
  /\ pc[t] = "testAge" => At1(t).key16 = local[t].key
StoredSoFar(t) ==
  /\ IsTorn(t) => MoveOfKey(At1(t), local[t].key)
  /\ pc[t] \in {"storeDepth", "storeGenBound", "storeValue", "storeEval"} => At1(t).key16 = local[t].key
  /\ pc[t] \in {"storeGenBound", "storeValue", "storeEval"} =>
       At1(t).depth8 = local[t].save.depth - DepthNone
  /\ pc[t] \in {"storeValue", "storeEval"} =>
       /\ BoundOf(At1(t).genBound8) = local[t].save.bound
       /\ PvOf(At1(t).genBound8) = local[t].save.pv
  /\ pc[t] = "storeEval" => At1(t).value16 = local[t].save.value
LoadedIsStored(t) ==
  /\ pc[t] \in {"readDepth", "readRest"} => At1(t).key16 = KeyOf[local[t].pos]
  /\ pc[t] \in {"readRest", "storeLower", "weighAge"} => local[t].d8 = At1(t).depth8

LeastSoFar(t) ==
  pc[t] \in {"weigh", "weighAge"} /\ local[t].slot > 0 =>
    /\ local[t].best < local[t].slot /\ local[t].least = WorthOf(local[t].best)
    /\ \A s \in Slots : s < local[t].slot =>
         IF s < local[t].best THEN WorthOf(s) > local[t].least ELSE WorthOf(s) >= local[t].least

OneInv(t) ==
  /\ OthersAreWhole(t) /\ SaveIsOfKey(t) /\ OtherIsTrue(t) /\ StoredSoFar(t)
  /\ LoadedIsStored(t) /\ LeastSoFar(t) /\ HitsAreHonest


(* The byte that packs a generation, a bound and a flag gives them back.    *)
LEMMA Unpacked ==
  ASSUME NEW g \in 0 .. Generations - 1, NEW b \in Bounds, NEW pv \in BOOLEAN
  PROVE  /\ BoundOf(PackGenBound(g, b, pv)) = b
         /\ PvOf(PackGenBound(g, b, pv)) = pv
<1> DEFINE flag == IF pv THEN 1 ELSE 0
           byte == PackGenBound(g, b, pv)
<1>1. b \in 0 .. 3 /\ flag \in 0 .. 1 /\ (flag = 1 <=> pv = TRUE)
  BY DEF Bounds
<1>2. byte = g + Generations * b + 4 * Generations * flag
  BY DEF PackGenBound
<1> HIDE DEF flag, byte
<1>3. PICK G \in Int : G = Generations
  OBVIOUS
<1>4. byte \in Int /\ byte = G * (b + 4 * flag) + g /\ g \in 0 .. G - 1 /\ G > 1
  BY <1>1, <1>2, <1>3
<1>5. byte \div G = b + 4 * flag
  BY <1>1, <1>4
<1>6. (b + 4 * flag) % 4 = b /\ flag % 2 = flag
  BY <1>1
<1>7. PICK D \in Int : D = 4 * G
  BY <1>4
<1>8. PICK r \in Int : r = g + G * b
  BY <1>1, <1>4
<1>9. r \in 0 .. D - 1
  <2>1. CASE b = 0
    BY <1>4, <1>7, <1>8, <2>1
  <2>2. CASE b = 1
    BY <1>4, <1>7, <1>8, <2>2
  <2>3. CASE b = 2
    BY <1>4, <1>7, <1>8, <2>3
  <2>4. CASE b = 3
    BY <1>4, <1>7, <1>8, <2>4
  <2> QED BY <1>1, <2>1, <2>2, <2>3, <2>4
<1>10. byte = D * flag + r /\ D > 1
  <2>1. CASE flag = 0
    BY <1>2, <1>3, <1>4, <1>7, <1>8, <1>1, <2>1
  <2>2. CASE flag = 1
    BY <1>2, <1>3, <1>4, <1>7, <1>8, <1>1, <2>2
  <2> QED BY <1>1, <2>1, <2>2
<1>11. byte \div D = flag
  BY <1>1, <1>4, <1>9, <1>10
<1>12. BoundOf(byte) = b /\ PvOf(byte) = pv
  BY <1>1, <1>3, <1>5, <1>6, <1>7, <1>11 DEF BoundOf, PvOf
<1> QED BY <1>12 DEF byte

(* Where a step that only reads leaves the one thread.                      *)
LEMMA OneReads ==
  ASSUME IInv, NEW t, Threads = {t}, NEW step, NEW loaded, Read(t, step, loaded)
  PROVE  /\ entry' = entry /\ generation8' = generation8 /\ node' = node
         /\ pc'[t] = step /\ local'[t] = loaded
         /\ \A s : WorthOf(s)' = WorthOf(s)
<1>1. entry' = entry /\ generation8' = generation8 /\ node' = node /\ pc'[t] = step /\ local'[t] = loaded
  BY DEF IInv, TypeOK, Read, Goto, Keep
<1> QED BY <1>1 DEF WorthOf, Worth

(* A step that reads keeps the entries, the nodes and, if it does not touch *)
(* what they speak of, all parts of the invariant.                          *)
LEMMA ReadKeeps ==
  ASSUME IInv, NEW t, Threads = {t}, OneInv(t), NEW step, NEW loaded, Read(t, step, loaded)
  PROVE  /\ HitsAreHonest'
         /\ (IsTorn(t) => IsTorn(t)' /\ loaded.slot = local[t].slot) => OthersAreWhole(t)'
<1>1. /\ entry' = entry /\ node' = node /\ local'[t] = loaded
  BY OneReads
<1>2. HitsAreHonest'
  BY <1>1 DEF OneInv, HitsAreHonest, Nodes
<1>3. ASSUME IsTorn(t) => IsTorn(t)' /\ loaded.slot = local[t].slot PROVE OthersAreWhole(t)'
  <2> SUFFICES ASSUME NEW s \in Slots, ~Whole(entry[s]) PROVE (s = local[t].slot /\ IsTorn(t))'
    BY <1>1 DEF OthersAreWhole
  <2>1. s = local[t].slot /\ IsTorn(t)
    BY DEF OneInv, OthersAreWhole
  <2> QED BY <1>1, <1>3, <2>1
<1> QED BY <1>2, <1>3

(* A node that is entered with an honest hit, or with none.                 *)
LEMMA EnterKeeps ==
  ASSUME IInv, NEW t, Threads = {t}, OneInv(t), NEW n, Enter(t, n), ~IsTorn(t),
         n.hit => \E p \in Positions : KeyOf[p] = KeyOf[n.pos] /\
                    \E w \in Saves[p] : w.value = n.value /\ n.depth <= w.depth
  PROVE  HitsAreHonest' /\ OthersAreWhole(t)'
<1>1. entry' = entry /\ node' = [node EXCEPT ![t] = Append(node[t], n)] /\ node[t] \in Seq(Node) /\ DOMAIN node = Threads
  BY DEF Enter, IInv, TypeOK
<1>2. node'[t] = Append(node[t], n)
  BY <1>1
<1>3. HitsAreHonest'
  <2> SUFFICES ASSUME NEW i \in 1 .. Len(node'[t]), node'[t][i].hit
               PROVE  \E p \in Positions : KeyOf[p] = KeyOf[node'[t][i].pos] /\
                        \E w \in Saves[p] : w.value = node'[t][i].value /\ node'[t][i].depth <= w.depth
    BY DEF HitsAreHonest, Nodes
  <2>1. CASE i = Len(node[t]) + 1
    <3>1. node'[t][i] = n
      BY <1>1, <1>2, <2>1
    <3> QED BY <3>1
  <2>2. CASE i \in 1 .. Len(node[t])
    <3>1. node'[t][i] = node[t][i]
      BY <1>1, <1>2, <2>2
    <3> QED BY <2>2, <3>1 DEF OneInv, HitsAreHonest, Nodes
  <2> QED BY <1>1, <1>2, <2>1, <2>2
<1>4. OthersAreWhole(t)'
  BY <1>1 DEF OneInv, OthersAreWhole
<1> QED BY <1>3, <1>4

LEMMA WorthsAreInt ==
  ASSUME IInv
  PROVE  \A s \in Slots : WorthOf(s) \in Int /\ s \in Nat
<1> SUFFICES ASSUME NEW s \in Slots PROVE WorthOf(s) \in Int /\ s \in Nat
  OBVIOUS
<1>1. entry[s] \in Entry /\ generation8 \in 0 .. Generations - 1
  BY DEF IInv, TypeOK
<1>2. entry[s].depth8 \in Int /\ entry[s].genBound8 \in Nat
  BY <1>1 DEF Entry
<1>3. s \in Nat
  BY SizesAssumption DEF Slots
<1> QED BY <1>1, <1>2, <1>3, WorthIsInt DEF WorthOf


-----------------------------------------------------------------------------
LEMMA ProbeKeepsOne ==
  ASSUME IInv, NEW t, Threads = {t}, OneInv(t), ProbeStep(t)
  PROVE  OneInv(t)'
<1>0. /\ local[t].slot \in Slots /\ pc[t] \in Steps /\ node[t] \in Seq(Node)
      /\ entry[local[t].slot] \in Entry /\ Fits(pc[t], local[t]) /\ DOMAIN node = Threads /\ DOMAIN local = Threads
      /\ DOMAIN pc = Threads
  BY Loaded DEF IInv, TypeOK
<1>1. ASSUME NEW p \in Positions, Probe(t, p) PROVE OneInv(t)'
  <2> DEFINE loaded == [pos |-> p, slot |-> 0]
  <2>1. Read(t, "look", loaded) /\ pc[t] = "node"
    BY <1>1 DEF Probe, At
  <2>2. HitsAreHonest' /\ OthersAreWhole(t)'
    BY <2>1, ReadKeeps DEF IsTorn, Torn
  <2>3. pc'[t] = "look"
    BY <2>1, OneReads
  <2> QED BY <2>2, <2>3 DEF OneInv, SaveIsOfKey, OtherIsTrue, StoredSoFar, LoadedIsStored, LeastSoFar, IsTorn,
                            Torn, StoreSteps
<1>2. ASSUME Look(t) PROVE OneInv(t)'
  <2>1. pc[t] = "look"
    BY <1>2 DEF Look, At
  <2>2. CASE entry[local[t].slot].key16 = KeyOf[local[t].pos] /\ Read(t, "readDepth", local[t])
    <3>1. HitsAreHonest' /\ OthersAreWhole(t)'
      BY <2>1, <2>2, ReadKeeps DEF IsTorn, Torn
    <3>2. pc'[t] = "readDepth" /\ local'[t] = local[t] /\ entry' = entry
      BY <2>2, OneReads
    <3> QED BY <2>2, <3>1, <3>2 DEF OneInv, SaveIsOfKey, OtherIsTrue, StoredSoFar, LoadedIsStored, LeastSoFar,
                              IsTorn, Torn, StoreSteps, At1
  <2>3. CASE Read(t, "look", [local[t] EXCEPT !.slot = @ + 1])
    <3>1. HitsAreHonest' /\ OthersAreWhole(t)'
      BY <2>1, <2>3, ReadKeeps DEF IsTorn, Torn
    <3>2. pc'[t] = "look"
      BY <2>3, OneReads
    <3> QED BY <3>1, <3>2 DEF OneInv, SaveIsOfKey, OtherIsTrue, StoredSoFar, LoadedIsStored, LeastSoFar,
                              IsTorn, Torn, StoreSteps
  <2>4. CASE Read(t, "weigh", [pos |-> local[t].pos, slot |-> 0, best |-> 0, least |-> 0, d8 |-> 0])
    <3>1. HitsAreHonest' /\ OthersAreWhole(t)'
      BY <2>1, <2>4, ReadKeeps DEF IsTorn, Torn
    <3>2. pc'[t] = "weigh" /\ local'[t].slot = 0
      BY <2>4, OneReads
    <3> QED BY <3>1, <3>2 DEF OneInv, SaveIsOfKey, OtherIsTrue, StoredSoFar, LoadedIsStored, LeastSoFar,
                              IsTorn, Torn, StoreSteps
  <2> QED BY <1>2, <2>2, <2>3, <2>4 DEF Look, Load
<1>3. ASSUME ReadDepth(t) PROVE OneInv(t)'
  <2> DEFINE loaded == [pos |-> local[t].pos, slot |-> local[t].slot, d8 |-> entry[local[t].slot].depth8]
  <2>1. Read(t, "readRest", loaded) /\ pc[t] = "readDepth"
    BY <1>3 DEF ReadDepth, At, Load
  <2>2. HitsAreHonest' /\ OthersAreWhole(t)'
    BY <2>1, ReadKeeps DEF IsTorn, Torn
  <2>3. /\ pc'[t] = "readRest" /\ entry' = entry
        /\ local'[t].pos = local[t].pos /\ local'[t].slot = local[t].slot
        /\ local'[t].d8 = entry[local[t].slot].depth8
    BY <2>1, OneReads
  <2>4. entry[local[t].slot].key16 = KeyOf[local[t].pos]
    BY <2>1 DEF OneInv, LoadedIsStored, At1
  <2> QED BY <2>2, <2>3, <2>4 DEF OneInv, SaveIsOfKey, OtherIsTrue, StoredSoFar, LoadedIsStored, LeastSoFar,
                              IsTorn, Torn, StoreSteps, At1
<1>4. ASSUME ReadRest(t) PROVE OneInv(t)'
  <2> DEFINE e == entry[local[t].slot]
             n == [pos |-> local[t].pos, slot |-> local[t].slot, hit |-> local[t].d8 # 0,
                   depth |-> DepthNone + local[t].d8,
                   value |-> IF local[t].d8 # 0 THEN e.value16 ELSE ValueNone]
  <2>1. Enter(t, n) /\ pc[t] = "readRest"
    BY <1>4 DEF ReadRest, At, Load
  <2>2. e.key16 = KeyOf[local[t].pos] /\ local[t].d8 = e.depth8 /\ e \in Entry
    BY <1>0, <2>1 DEF OneInv, LoadedIsStored, At1
  <2>3. Whole(e)
    BY <1>0, <2>1 DEF OneInv, OthersAreWhole, IsTorn, Torn
  <2>4. n.hit => \E p \in Positions : KeyOf[p] = KeyOf[n.pos] /\
                   \E w \in Saves[p] : w.value = n.value /\ n.depth <= w.depth
    <3> SUFFICES ASSUME e.depth8 # 0
                 PROVE  \E p \in Positions : KeyOf[p] = e.key16 /\
                          \E w \in Saves[p] : w.value = e.value16 /\ DepthNone + e.depth8 <= w.depth
      BY <2>2
    <3>1. RestOfKey(e)
      BY <2>3 DEF Whole
    <3>2. PICK p \in Positions : KeyOf[p] = e.key16 /\
            \E w \in Saves[p] : e.value16 = w.value /\ e.depth8 <= w.depth - DepthNone
      BY <3>1 DEF RestOfKey
    <3>3. PICK w \in Saves[p] : e.value16 = w.value /\ e.depth8 <= w.depth - DepthNone
      BY <3>2
    <3>4. w.depth \in Int /\ e.depth8 \in Int
      BY <2>2, SavesAssumption DEF SaveArgs, Entry
    <3>5. DepthNone + e.depth8 <= w.depth
      BY <3>3, <3>4 DEF DepthNone
    <3> QED BY <3>2, <3>3, <3>5
  <2> HIDE DEF n
  <2>5. HitsAreHonest' /\ OthersAreWhole(t)'
    BY <1>0, <2>1, <2>4, EnterKeeps DEF IsTorn, Torn
  <2>6. pc'[t] = "node"
    BY <1>0, <2>1 DEF Enter, Goto
  <2> QED BY <2>5, <2>6 DEF OneInv, SaveIsOfKey, OtherIsTrue, StoredSoFar, LoadedIsStored, LeastSoFar,
                              IsTorn, Torn, StoreSteps
<1>5. ASSUME Weigh(t) PROVE OneInv(t)'
  <2> DEFINE loaded == [local[t] EXCEPT !.d8 = entry[local[t].slot].depth8]
  <2>1. Read(t, "weighAge", loaded) /\ pc[t] = "weigh"
    BY <1>5 DEF Weigh, At, Load
  <2>2. HitsAreHonest' /\ OthersAreWhole(t)'
    BY <2>1, ReadKeeps DEF IsTorn, Torn
  <2>3. local[t] \in Weighing
    BY <1>0, <2>1 DEF Fits
  <2>4. /\ loaded.slot = local[t].slot /\ loaded.best = local[t].best /\ loaded.least = local[t].least
        /\ loaded.d8 = entry[local[t].slot].depth8
    BY <2>3 DEF Weighing
  <2> HIDE DEF loaded
  <2>5. pc'[t] = "weighAge" /\ entry' = entry /\ local'[t] = loaded /\ \A s : WorthOf(s)' = WorthOf(s)
    BY <2>1, OneReads
  <2>6. LeastSoFar(t)'
    BY <2>1, <2>4, <2>5 DEF OneInv, LeastSoFar
  <2> QED BY <2>2, <2>4, <2>5, <2>6 DEF OneInv, SaveIsOfKey, OtherIsTrue, StoredSoFar, LoadedIsStored,
                              IsTorn, Torn, StoreSteps, At1
<1>6. ASSUME WeighAge(t) PROVE OneInv(t)'
  <2> DEFINE s0 == local[t].slot
             worth == Worth(local[t].d8, entry[s0].genBound8)
             wins == s0 = 0 \/ local[t].least > worth
             best == IF wins THEN s0 ELSE local[t].best
             least == IF wins THEN worth ELSE local[t].least
  <2>1. pc[t] = "weighAge"
    BY <1>6 DEF WeighAge, At
  <2>2. local[t] \in Weighing
    BY <1>0, <2>1 DEF Fits
  <2>3. CASE s0 + 1 \in Slots /\ Read(t, "weigh", [pos |-> local[t].pos, slot |-> s0 + 1, best |-> best,
                             least |-> least, d8 |-> 0])
    <3>1. HitsAreHonest' /\ OthersAreWhole(t)'
      BY <2>1, <2>3, ReadKeeps DEF IsTorn, Torn
    <3>2. /\ pc'[t] = "weigh" /\ entry' = entry /\ local'[t].slot = s0 + 1 /\ local'[t].best = best
          /\ local'[t].least = least /\ \A s : WorthOf(s)' = WorthOf(s)
      BY <2>3, OneReads
    <3>3. LeastSoFar(t)'
      <4>1. worth = WorthOf(s0)
        BY <2>1 DEF OneInv, LoadedIsStored, WorthOf, At1
      <4>2. \A s \in Slots : WorthOf(s) \in Int /\ s \in Nat
        BY WorthsAreInt
      <4>3. s0 \in Slots /\ local[t].best \in Slots /\ local[t].least \in Int
        BY <2>2 DEF Weighing
      <4>4. best \in Slots /\ best < s0 + 1 /\ least = WorthOf(best)
        BY <2>1, <4>1, <4>2, <4>3 DEF OneInv, LeastSoFar
      <4>5. \A s \in Slots : s < s0 + 1 =>
              IF s < best THEN WorthOf(s) > least ELSE WorthOf(s) >= least
        <5> SUFFICES ASSUME NEW s \in Slots, s < s0 + 1
                     PROVE  IF s < best THEN WorthOf(s) > least ELSE WorthOf(s) >= least
          OBVIOUS
        <5>1. s = s0 \/ s < s0
          BY <4>2, <4>3
        <5>2. s < s0 => /\ local[t].best < s0 /\ local[t].least = WorthOf(local[t].best)
                        /\ IF s < local[t].best THEN WorthOf(s) > local[t].least ELSE WorthOf(s) >= local[t].least
          BY <2>1, <4>2, <4>3 DEF OneInv, LeastSoFar
        <5>3. s0 > 0 => local[t].best < s0 /\ local[t].least = WorthOf(local[t].best)
          BY <2>1, <4>2, <4>3 DEF OneInv, LeastSoFar
        <5> HIDE DEF worth
        <5> QED BY <4>1, <4>2, <4>3, <5>1, <5>2, <5>3
      <4> HIDE DEF best, least
      <4> QED BY <3>2, <4>4, <4>5 DEF LeastSoFar
    <3> QED BY <3>1, <3>2, <3>3 DEF OneInv, SaveIsOfKey, OtherIsTrue, StoredSoFar, LoadedIsStored,
                              IsTorn, Torn, StoreSteps
  <2>4. CASE Enter(t, [pos |-> local[t].pos, slot |-> best, hit |-> FALSE,
                     depth |-> DepthNone, value |-> ValueNone])
    <3>1. HitsAreHonest' /\ OthersAreWhole(t)'
      BY <1>0, <2>1, <2>4, EnterKeeps DEF IsTorn, Torn
    <3>2. pc'[t] = "node"
      BY <1>0, <2>4 DEF Enter, Goto
    <3> QED BY <3>1, <3>2 DEF OneInv, SaveIsOfKey, OtherIsTrue, StoredSoFar, LoadedIsStored, LeastSoFar,
                              IsTorn, Torn, StoreSteps
  <2> QED BY <1>6, <2>3, <2>4 DEF WeighAge, Load
<1> QED BY <1>1, <1>2, <1>3, <1>4, <1>5, <1>6 DEF ProbeStep


-----------------------------------------------------------------------------
(* A store changes one field of the entry of the save.                      *)
Fields == {"key16", "depth8", "genBound8", "move16", "value16", "eval16"}
LEMMA OneStores ==
  ASSUME IInv, NEW t, Threads = {t}, NEW field \in Fields, NEW v, NEW step, Store(t, field, v, step)
  PROVE  /\ entry'[local[t].slot][field] = v
         /\ \A g \in Fields : g # field => entry'[local[t].slot][g] = entry[local[t].slot][g]
         /\ generation8' = generation8 /\ node' = node /\ local' = local /\ pc'[t] = step
         /\ \A s \in Slots : s # local[t].slot => entry'[s] = entry[s]
         /\ DOMAIN entry = Slots /\ local[t].slot \in Slots /\ entry[local[t].slot] \in Entry
<1>1. local[t].slot \in Slots /\ entry \in [Slots -> Entry] /\ DOMAIN pc = Threads
  BY Loaded DEF IInv, TypeOK
<1>2. entry' = [entry EXCEPT ![local[t].slot] = [entry[local[t].slot] EXCEPT ![field] = v]]
  BY DEF Store
<1>3. generation8' = generation8 /\ node' = node /\ local' = local /\ pc' = [pc EXCEPT ![t] = step]
  BY DEF Store, Goto
<1>4. entry[local[t].slot] \in Entry /\ DOMAIN entry[local[t].slot] = Fields
  BY <1>1 DEF Entry, Fields
<1>5. entry'[local[t].slot] = [entry[local[t].slot] EXCEPT ![field] = v]
  BY <1>1, <1>2
<1> QED BY <1>1, <1>2, <1>3, <1>4, <1>5

(* ... while it is torn, the others stay whole.                             *)
LEMMA StoreKeeps ==
  ASSUME IInv, NEW t, Threads = {t}, OneInv(t), NEW field \in Fields, NEW v, NEW step, Store(t, field, v, step),
         IsTorn(t)' \/ Whole(entry'[local[t].slot])
  PROVE  HitsAreHonest' /\ OthersAreWhole(t)'
<1>1. /\ node' = node /\ local' = local
      /\ \A s \in Slots : s # local[t].slot => entry'[s] = entry[s]
  BY OneStores
<1>2. HitsAreHonest'
  BY <1>1 DEF OneInv, HitsAreHonest, Nodes
<1>3. OthersAreWhole(t)'
  <2> SUFFICES ASSUME NEW s \in Slots, ~Whole(entry'[s]) PROVE s = local[t].slot /\ IsTorn(t)'
    BY <1>1 DEF OthersAreWhole
  <2>1. CASE s = local[t].slot
    BY <2>1
  <2>2. CASE s # local[t].slot
    BY <1>1, <2>2 DEF OneInv, OthersAreWhole
  <2> QED BY <2>1, <2>2
<1> QED BY <1>2, <1>3

(* What a position may save.                                                *)
LEMMA SavedFits ==
  ASSUME NEW p \in Positions, NEW w \in Saves[p]
  PROVE  /\ w.depth \in Int /\ w.bound \in Bounds /\ w.pv \in BOOLEAN
         /\ w.depth - DepthNone \in 1 .. MaxDepth8
BY SavesAssumption DEF SaveArgs

LEMMA SaveKeepsOne ==
  ASSUME IInv, NEW t, Threads = {t}, OneInv(t), SaveStep(t)
  PROVE  OneInv(t)'
<1> DEFINE l == local[t]
           e == entry[local[t].slot]
<1>0. /\ l.slot \in Slots /\ pc[t] \in Steps /\ e \in Entry /\ Fits(pc[t], l)
      /\ generation8 \in 0 .. Generations - 1
  BY Loaded DEF IInv, TypeOK
<1>1. ASSUME NEW w \in Saves[Inner(t).pos], Nodes(t) > 0, Write(t, w) PROVE OneInv(t)'
  <2> DEFINE loaded == [slot |-> Inner(t).slot, key |-> KeyOf[Inner(t).pos], save |-> w]
  <2>1. Read(t, "loadKey", loaded) /\ pc[t] = "node"
    BY <1>1 DEF Write, At
  <2>2. Inner(t).pos \in Positions
    BY <1>1, InnerIsNode DEF Node
  <2>3. HitsAreHonest' /\ OthersAreWhole(t)'
    BY <2>1, ReadKeeps DEF IsTorn, Torn
  <2>4. pc'[t] = "loadKey" /\ local'[t].key = KeyOf[Inner(t).pos] /\ local'[t].save = w
    BY <2>1, OneReads
  <2>5. SaveIsOfKey(t)'
    BY <1>1, <2>2, <2>4 DEF SaveIsOfKey
  <2> QED BY <2>3, <2>4, <2>5 DEF OneInv, OtherIsTrue, StoredSoFar, LoadedIsStored, LeastSoFar, IsTorn,
                                  Torn, StoreSteps
<1>2. ASSUME LoadKey(t) PROVE OneInv(t)'
  <2> DEFINE other == e.key16 # l.key
             loaded == [slot |-> l.slot, key |-> l.key, save |-> l.save, other |-> other]
  <2>1. /\ pc[t] = "loadKey"
        /\ \/ Read(t, "storeMove", loaded)
           \/ Read(t, "test", loaded) /\ ~other
    BY <1>2 DEF LoadKey, At, Load
  <2>2. PICK step \in {"storeMove", "test"} : Read(t, step, loaded) /\ (step = "test" => ~other)
    BY <2>1
  <2>3. HitsAreHonest' /\ OthersAreWhole(t)'
    BY <2>1, <2>2, ReadKeeps DEF IsTorn, Torn
  <2>4. /\ pc'[t] = step /\ entry' = entry /\ local'[t].key = l.key /\ local'[t].save = l.save
        /\ local'[t].slot = l.slot /\ local'[t].other = other
    BY <2>2, OneReads
  <2>5. SaveIsOfKey(t)'
    BY <2>1, <2>4 DEF OneInv, SaveIsOfKey
  <2>6. OtherIsTrue(t)'
    BY <2>4 DEF OtherIsTrue, At1
  <2>7. StoredSoFar(t)'
    BY <2>2, <2>4 DEF StoredSoFar, IsTorn, Torn
  <2> QED BY <2>3, <2>4, <2>5, <2>6, <2>7 DEF OneInv, LoadedIsStored, LeastSoFar, StoreSteps
<1>3. ASSUME StoreMove(t) PROVE OneInv(t)'
  <2>1. pc[t] = "storeMove" /\ Store(t, "move16", l.save.move, "test")
    BY <1>3 DEF StoreMove, At
  <2>2. /\ pc'[t] = "test" /\ local' = local /\ e \in Entry
        /\ entry'[l.slot]["move16"] = l.save.move
        /\ \A g \in Fields : g # "move16" => entry'[l.slot][g] = e[g]
    BY <2>1, OneStores DEF Fields
  <2>3. PICK p \in Positions : KeyOf[p] = l.key /\ l.save \in Saves[p]
    BY <2>1 DEF OneInv, SaveIsOfKey, StoreSteps
  <2>4. /\ entry'[l.slot].move16 = l.save.move /\ entry'[l.slot].key16 = e.key16
        /\ entry'[l.slot].depth8 = e.depth8 /\ entry'[l.slot].value16 = e.value16
        /\ entry'[l.slot].eval16 = e.eval16 /\ entry'[l.slot].genBound8 = e.genBound8
    BY <2>2 DEF Fields
  <2>5. MoveOfKey(entry'[l.slot], l.key)
    BY <2>3, <2>4 DEF MoveOfKey
  <2>6. Whole(e)
    BY <1>0, <2>1 DEF OneInv, OthersAreWhole, IsTorn, Torn
  <2>7. IsTorn(t)' \/ Whole(entry'[l.slot])
    <3>1. CASE l.other
      BY <2>2, <3>1 DEF IsTorn
    <3>2. CASE ~l.other
      <4>1. e.key16 = l.key
        BY <2>1, <3>2 DEF OneInv, OtherIsTrue, At1
      <4>2. RestOfKey(e) => RestOfKey(entry'[l.slot])
        BY <2>4 DEF RestOfKey
      <4> QED BY <2>4, <2>5, <2>6, <4>1, <4>2 DEF Whole
    <3> QED BY <3>1, <3>2
  <2>8. HitsAreHonest' /\ OthersAreWhole(t)'
    BY <2>1, <2>7, StoreKeeps DEF Fields
  <2>9. SaveIsOfKey(t)' /\ OtherIsTrue(t)' /\ StoredSoFar(t)'
    BY <2>1, <2>2, <2>4, <2>5 DEF OneInv, SaveIsOfKey, OtherIsTrue, StoredSoFar, At1, IsTorn, Torn, StoreSteps
  <2> QED BY <2>2, <2>8, <2>9 DEF OneInv, LoadedIsStored, LeastSoFar
<1>4. ASSUME NEW step \in {"storeKey", "testAge"}, Read(t, step, l), pc[t] = "test",
             step = "testAge" => ~l.other
      PROVE  OneInv(t)'
  <2>1. pc'[t] = step /\ local'[t] = l /\ entry' = entry
    BY <1>4, OneReads
  <2>2. HitsAreHonest' /\ OthersAreWhole(t)'
    <3>1. IsTorn(t) => IsTorn(t)'
      BY <1>4, <2>1 DEF IsTorn, Torn
    <3> QED BY <1>4, <3>1, ReadKeeps
  <2>3. e.key16 = l.key \/ l.other
    BY <1>4 DEF OneInv, OtherIsTrue, At1
  <2>4. MoveOfKey(e, l.key)
    <3>1. CASE l.other
      BY <1>4, <3>1 DEF OneInv, StoredSoFar, IsTorn, At1
    <3>2. CASE ~l.other
      <4>1. Whole(e)
        BY <1>0, <1>4, <3>2 DEF OneInv, OthersAreWhole, IsTorn, Torn
      <4> QED BY <2>3, <3>2, <4>1 DEF Whole
    <3> QED BY <3>1, <3>2
  <2>5. SaveIsOfKey(t)'
    BY <1>4, <2>1 DEF OneInv, SaveIsOfKey, StoreSteps
  <2> QED BY <1>4, <2>1, <2>2, <2>3, <2>4, <2>5 DEF OneInv, OtherIsTrue, StoredSoFar, LoadedIsStored,
                                  LeastSoFar, At1, IsTorn, Torn, StoreSteps
<1>5. ASSUME NEW step \in {"storeKey", "testOld"}, Read(t, step, l), pc[t] = "testAge" PROVE OneInv(t)'
  <2>1. pc'[t] = step /\ local'[t] = l /\ entry' = entry
    BY <1>5, OneReads
  <2>2. HitsAreHonest' /\ OthersAreWhole(t)'
    BY <1>5, ReadKeeps DEF IsTorn, Torn
  <2>3. e.key16 = l.key /\ Whole(e)
    BY <1>0, <1>5 DEF OneInv, OtherIsTrue, OthersAreWhole, IsTorn, Torn, At1
  <2>4. MoveOfKey(e, l.key)
    BY <2>3 DEF Whole
  <2>5. SaveIsOfKey(t)'
    BY <1>5, <2>1 DEF OneInv, SaveIsOfKey, StoreSteps
  <2> QED BY <1>5, <2>1, <2>2, <2>3, <2>4, <2>5 DEF OneInv, OtherIsTrue, StoredSoFar, LoadedIsStored,
                                  LeastSoFar, At1, IsTorn, Torn, StoreSteps
<1>6. ASSUME NEW step \in {"testBound", "testValue", "done", "lower"}, NEW loaded, Read(t, step, loaded),
             loaded = l \/ step = "lower",
             pc[t] \in {"testOld", "testBound", "testValue"}
      PROVE  OneInv(t)'
  <2>1. pc'[t] = step /\ local'[t] = loaded
    BY <1>6, OneReads
  <2>2. HitsAreHonest' /\ OthersAreWhole(t)'
    BY <1>6, ReadKeeps DEF IsTorn, Torn
  <2>3. SaveIsOfKey(t)'
    BY <1>6, <2>1 DEF OneInv, SaveIsOfKey, StoreSteps
  <2> QED BY <1>6, <2>1, <2>2, <2>3 DEF OneInv, OtherIsTrue, StoredSoFar, LoadedIsStored, LeastSoFar, IsTorn, Torn
<1>7. ASSUME StoreKey(t) PROVE OneInv(t)'
  <2>1. pc[t] = "storeKey" /\ Store(t, "key16", l.key, "storeDepth")
    BY <1>7 DEF StoreKey, At
  <2>2. /\ pc'[t] = "storeDepth" /\ local' = local /\ e \in Entry
        /\ entry'[l.slot]["key16"] = l.key
        /\ \A g \in Fields : g # "key16" => entry'[l.slot][g] = e[g]
    BY <2>1, OneStores DEF Fields
  <2>3. entry'[l.slot].move16 = e.move16 /\ entry'[l.slot].key16 = l.key
    BY <2>2 DEF Fields
  <2>4. HitsAreHonest' /\ OthersAreWhole(t)'
    BY <2>1, <2>2, StoreKeeps DEF Fields, IsTorn, Torn
  <2>5. MoveOfKey(entry'[l.slot], l.key)
    BY <2>1, <2>3 DEF OneInv, StoredSoFar, IsTorn, Torn, At1, MoveOfKey
  <2>6. SaveIsOfKey(t)'
    BY <2>1, <2>2 DEF OneInv, SaveIsOfKey, StoreSteps
  <2> QED BY <2>2, <2>3, <2>4, <2>5, <2>6 DEF OneInv, OtherIsTrue, StoredSoFar, LoadedIsStored, LeastSoFar, At1
<1>8. ASSUME StoreDepth(t) PROVE OneInv(t)'
  <2> DEFINE v == Byte(l.save.depth - DepthNone)
  <2>1. pc[t] = "storeDepth" /\ Store(t, "depth8", v, "storeGenBound")
    BY <1>8 DEF StoreDepth, At
  <2>2. v = l.save.depth - DepthNone
    <3>1. PICK p \in Positions : l.save \in Saves[p]
      BY <2>1 DEF OneInv, SaveIsOfKey, StoreSteps
    <3> QED BY <3>1, SavedFits DEF Byte
  <2> HIDE DEF v
  <2>3. /\ pc'[t] = "storeGenBound" /\ local' = local /\ e \in Entry
        /\ entry'[l.slot]["depth8"] = v
        /\ \A g \in Fields : g # "depth8" => entry'[l.slot][g] = e[g]
    BY <2>1, OneStores DEF Fields
  <2>4. entry'[l.slot].move16 = e.move16 /\ entry'[l.slot].key16 = e.key16 /\ entry'[l.slot].depth8 = v
    BY <2>3 DEF Fields
  <2>5. HitsAreHonest' /\ OthersAreWhole(t)'
    BY <2>1, <2>3, StoreKeeps DEF Fields, IsTorn, Torn
  <2>6. MoveOfKey(entry'[l.slot], l.key)
    BY <2>1, <2>4 DEF OneInv, StoredSoFar, IsTorn, Torn, At1, MoveOfKey
  <2>7. SaveIsOfKey(t)'
    BY <2>1, <2>3 DEF OneInv, SaveIsOfKey, StoreSteps
  <2> QED BY <2>1, <2>2, <2>3, <2>4, <2>5, <2>6, <2>7 DEF OneInv, OtherIsTrue, StoredSoFar, LoadedIsStored,
                                                    LeastSoFar, At1
<1>9. ASSUME StoreGenBound(t) PROVE OneInv(t)'
  <2> DEFINE v == PackGenBound(generation8, l.save.bound, l.save.pv)
  <2>1. pc[t] = "storeGenBound" /\ Store(t, "genBound8", v, "storeValue")
    BY <1>9 DEF StoreGenBound, At
  <2>2. BoundOf(v) = l.save.bound /\ PvOf(v) = l.save.pv
    <3>1. PICK p \in Positions : l.save \in Saves[p]
      BY <2>1 DEF OneInv, SaveIsOfKey, StoreSteps
    <3> QED BY <1>0, <3>1, SavedFits, Unpacked
  <2> HIDE DEF v
  <2>3. /\ pc'[t] = "storeValue" /\ local' = local /\ e \in Entry
        /\ entry'[l.slot]["genBound8"] = v
        /\ \A g \in Fields : g # "genBound8" => entry'[l.slot][g] = e[g]
    BY <2>1, OneStores DEF Fields
  <2>4. /\ entry'[l.slot].move16 = e.move16 /\ entry'[l.slot].key16 = e.key16
        /\ entry'[l.slot].depth8 = e.depth8 /\ entry'[l.slot].genBound8 = v
    BY <2>3 DEF Fields
  <2>5. HitsAreHonest' /\ OthersAreWhole(t)'
    BY <2>1, <2>3, StoreKeeps DEF Fields, IsTorn, Torn
  <2>6. MoveOfKey(entry'[l.slot], l.key)
    BY <2>1, <2>4 DEF OneInv, StoredSoFar, IsTorn, Torn, At1, MoveOfKey
  <2>7. SaveIsOfKey(t)'
    BY <2>1, <2>3 DEF OneInv, SaveIsOfKey, StoreSteps
  <2> QED BY <2>1, <2>2, <2>3, <2>4, <2>5, <2>6, <2>7 DEF OneInv, OtherIsTrue, StoredSoFar, LoadedIsStored,
                                                    LeastSoFar, At1
<1>10. ASSUME StoreValue(t) PROVE OneInv(t)'
  <2>1. pc[t] = "storeValue" /\ Store(t, "value16", l.save.value, "storeEval")
    BY <1>10 DEF StoreValue, At
  <2>2. /\ pc'[t] = "storeEval" /\ local' = local /\ e \in Entry
        /\ entry'[l.slot]["value16"] = l.save.value
        /\ \A g \in Fields : g # "value16" => entry'[l.slot][g] = e[g]
    BY <2>1, OneStores DEF Fields
  <2>3. /\ entry'[l.slot].move16 = e.move16 /\ entry'[l.slot].key16 = e.key16
        /\ entry'[l.slot].depth8 = e.depth8 /\ entry'[l.slot].genBound8 = e.genBound8
        /\ entry'[l.slot].value16 = l.save.value
    BY <2>2 DEF Fields
  <2>4. HitsAreHonest' /\ OthersAreWhole(t)'
    BY <2>1, <2>2, StoreKeeps DEF Fields, IsTorn, Torn
  <2>5. MoveOfKey(entry'[l.slot], l.key)
    BY <2>1, <2>3 DEF OneInv, StoredSoFar, IsTorn, Torn, At1, MoveOfKey
  <2>6. SaveIsOfKey(t)'
    BY <2>1, <2>2 DEF OneInv, SaveIsOfKey, StoreSteps
  <2> QED BY <2>1, <2>2, <2>3, <2>4, <2>5, <2>6 DEF OneInv, OtherIsTrue, StoredSoFar, LoadedIsStored,
                                                    LeastSoFar, At1
<1>11. ASSUME StoreEval(t) PROVE OneInv(t)'
  <2>1. pc[t] = "storeEval" /\ Store(t, "eval16", l.save.eval, "done")
    BY <1>11 DEF StoreEval, At
  <2>2. /\ pc'[t] = "done" /\ local' = local /\ e \in Entry
        /\ entry'[l.slot]["eval16"] = l.save.eval
        /\ \A g \in Fields : g # "eval16" => entry'[l.slot][g] = e[g]
    BY <2>1, OneStores DEF Fields
  <2>3. /\ entry'[l.slot].move16 = e.move16 /\ entry'[l.slot].key16 = e.key16
        /\ entry'[l.slot].depth8 = e.depth8 /\ entry'[l.slot].genBound8 = e.genBound8
        /\ entry'[l.slot].value16 = e.value16 /\ entry'[l.slot].eval16 = l.save.eval
    BY <2>2 DEF Fields
  <2>4. /\ MoveOfKey(e, l.key) /\ e.key16 = l.key /\ e.depth8 = l.save.depth - DepthNone
        /\ BoundOf(e.genBound8) = l.save.bound /\ PvOf(e.genBound8) = l.save.pv /\ e.value16 = l.save.value
    BY <2>1 DEF OneInv, StoredSoFar, At1, IsTorn, Torn
  <2>5. Whole(entry'[l.slot])
    <3>1. MoveOfKey(entry'[l.slot], l.key)
      BY <2>3, <2>4 DEF MoveOfKey
    <3>2. PICK p \in Positions : KeyOf[p] = l.key /\ l.save \in Saves[p]
      BY <2>1 DEF OneInv, SaveIsOfKey, StoreSteps
    <3>3. l.save.depth - DepthNone \in Int
      BY <3>2, SavedFits
    <3>4. RestOfKey(entry'[l.slot])
      BY <2>3, <2>4, <3>2, <3>3 DEF RestOfKey
    <3> QED BY <2>3, <2>4, <3>1, <3>4 DEF Whole
  <2>6. HitsAreHonest' /\ OthersAreWhole(t)'
    BY <2>1, <2>5, StoreKeeps DEF Fields
  <2> QED BY <2>2, <2>6 DEF OneInv, SaveIsOfKey, OtherIsTrue, StoredSoFar, LoadedIsStored, LeastSoFar, IsTorn,
                                  Torn, StoreSteps
<1>12. TestDepth(t) => OneInv(t)'
  <2> SUFFICES ASSUME TestDepth(t) PROVE OneInv(t)'
    OBVIOUS
  <2>1. pc[t] = "test" /\ (Read(t, "storeKey", l) \/ (Read(t, "testAge", l) /\ ~l.other))
    BY DEF TestDepth, At
  <2> QED BY <2>1, <1>4
<1>13. TestAge(t) => OneInv(t)'
  <2> SUFFICES ASSUME TestAge(t) PROVE OneInv(t)'
    OBVIOUS
  <2>1. pc[t] = "testAge" /\ (Read(t, "storeKey", l) \/ Read(t, "testOld", l))
    BY DEF TestAge, At
  <2> QED BY <2>1, <1>5
<1>14. TestOld(t) \/ TestBound(t) \/ TestValue(t) => OneInv(t)'
  <2> SUFFICES ASSUME TestOld(t) \/ TestBound(t) \/ TestValue(t) PROVE OneInv(t)'
    OBVIOUS
  <2>1. /\ pc[t] \in {"testOld", "testBound", "testValue"}
        /\ \/ Read(t, "testBound", l) \/ Read(t, "testValue", l) \/ Read(t, "done", l)
           \/ Read(t, "lower", [slot |-> l.slot])
    BY DEF TestOld, TestBound, TestValue, At
  <2> DEFINE loaded == [slot |-> l.slot]
  <2>2. Read(t, "lower", loaded) => OneInv(t)'
    <3> HIDE DEF loaded
    <3> QED BY <1>6, <2>1
  <2> QED BY <2>1, <2>2, <1>6
<1> QED BY <1>1, <1>2, <1>3, <1>7, <1>8, <1>9, <1>10, <1>11, <1>12, <1>13, <1>14 DEF SaveStep


-----------------------------------------------------------------------------
LEMMA LowerKeepsOne ==
  ASSUME IInv, NEW t, Threads = {t}, OneInv(t), LowerStep(t) \/ Done(t)
  PROVE  OneInv(t)'
<1> DEFINE l == local[t]
           e == entry[local[t].slot]
<1>0. /\ l.slot \in Slots /\ e \in Entry /\ Fits(pc[t], l)
  BY Loaded DEF IInv, TypeOK
<1>1. ASSUME NEW step \in {"lower", "node"}, NEW loaded, Read(t, step, loaded), pc[t] \in {"node", "done"}
      PROVE  OneInv(t)'
  <2>1. pc'[t] = step
    BY <1>1, OneReads
  <2>2. HitsAreHonest' /\ OthersAreWhole(t)'
    BY <1>1, ReadKeeps DEF IsTorn, Torn
  <2> QED BY <2>1, <2>2 DEF OneInv, SaveIsOfKey, OtherIsTrue, StoredSoFar, LoadedIsStored, LeastSoFar, IsTorn,
                                  Torn, StoreSteps
<1>2. ASSUME LoadDepth(t) PROVE OneInv(t)'
  <2> DEFINE loaded == [slot |-> l.slot, d8 |-> e.depth8]
  <2>1. pc[t] = "lower" /\ Read(t, "storeLower", loaded)
    BY <1>2 DEF LoadDepth, At, Load
  <2>2. HitsAreHonest' /\ OthersAreWhole(t)'
    BY <2>1, ReadKeeps DEF IsTorn, Torn
  <2>3. pc'[t] = "storeLower" /\ entry' = entry /\ local'[t].slot = l.slot /\ local'[t].d8 = e.depth8
    BY <2>1, OneReads
  <2> QED BY <2>2, <2>3 DEF OneInv, SaveIsOfKey, OtherIsTrue, StoredSoFar, LoadedIsStored, LeastSoFar, IsTorn,
                                  Torn, StoreSteps, At1
<1>3. ASSUME StoreLower(t) PROVE OneInv(t)'
  <2> DEFINE v == Lowered(l.d8, Penalty)
  <2>1. pc[t] = "storeLower" /\ Store(t, "depth8", v, "done")
    BY <1>3 DEF StoreLower, At
  <2>2. l.d8 = e.depth8 /\ Whole(e)
    BY <1>0, <2>1 DEF OneInv, LoadedIsStored, OthersAreWhole, IsTorn, Torn, At1
  <2>3. e.depth8 \in 0 .. 255
    BY <1>0 DEF Entry
  <2>4. v \in Int /\ v <= e.depth8 /\ (e.depth8 = 0 => v = 0)
    <3>1. PICK d \in 0 .. 255 : d = e.depth8
      BY <2>3
    <3>2. v = Lowered(d, Penalty)
      BY <2>2, <3>1
    <3>3. Lowered(d, Penalty) \in Int /\ Lowered(d, Penalty) <= d /\ (d = 0 => Lowered(d, Penalty) = 0)
      BY DEF Lowered, Byte, Penalty
    <3> QED BY <3>1, <3>2, <3>3
  <2> HIDE DEF v
  <2>5. /\ pc'[t] = "done" /\ entry'[l.slot]["depth8"] = v
        /\ \A g \in Fields : g # "depth8" => entry'[l.slot][g] = e[g]
    BY <2>1, OneStores DEF Fields
  <2>6. /\ entry'[l.slot].move16 = e.move16 /\ entry'[l.slot].key16 = e.key16
        /\ entry'[l.slot].depth8 = v /\ entry'[l.slot].genBound8 = e.genBound8
        /\ entry'[l.slot].value16 = e.value16 /\ entry'[l.slot].eval16 = e.eval16
    BY <2>5 DEF Fields
  <2>7. RestOfKey(e) => RestOfKey(entry'[l.slot])
    <3> SUFFICES ASSUME RestOfKey(e) PROVE RestOfKey(entry'[l.slot])
      OBVIOUS
    <3>1. PICK p \in Positions : KeyOf[p] = e.key16 /\
            \E w \in Saves[p] :
              /\ e.value16 = w.value /\ e.eval16 = w.eval
              /\ BoundOf(e.genBound8) = w.bound /\ PvOf(e.genBound8) = w.pv
              /\ e.depth8 <= w.depth - DepthNone
      BY DEF RestOfKey
    <3>2. PICK w \in Saves[p] :
              /\ e.value16 = w.value /\ e.eval16 = w.eval
              /\ BoundOf(e.genBound8) = w.bound /\ PvOf(e.genBound8) = w.pv
              /\ e.depth8 <= w.depth - DepthNone
      BY <3>1
    <3>3. v <= w.depth - DepthNone
      <4>1. PICK d \in Int : d = w.depth - DepthNone
        BY <3>2, SavedFits
      <4>2. PICK d8 \in Int : d8 = e.depth8
        BY <2>3
      <4> QED BY <2>4, <3>2, <4>1, <4>2
    <3> QED BY <2>6, <3>1, <3>2, <3>3 DEF RestOfKey
  <2>8. MoveOfKey(entry'[l.slot], e.key16)
    BY <2>2, <2>6 DEF Whole, MoveOfKey
  <2>9. Whole(entry'[l.slot])
    BY <2>2, <2>4, <2>6, <2>7, <2>8 DEF Whole
  <2>10. HitsAreHonest' /\ OthersAreWhole(t)'
    BY <2>1, <2>9, StoreKeeps DEF Fields
  <2> QED BY <2>5, <2>10 DEF OneInv, SaveIsOfKey, OtherIsTrue, StoredSoFar, LoadedIsStored, LeastSoFar, IsTorn,
                                  Torn, StoreSteps
<1>4. ASSUME Penalize(t) PROVE OneInv(t)'
  <2> DEFINE loaded == [slot |-> Inner(t).slot]
  <2>1. Read(t, "lower", loaded) /\ pc[t] = "node"
    BY <1>4 DEF Penalize, At
  <2> HIDE DEF loaded
  <2> QED BY <1>1, <2>1
<1>5. ASSUME Done(t) PROVE OneInv(t)'
  BY <1>1, <1>5 DEF Done, At
<1> QED BY <1>2, <1>3, <1>4, <1>5 DEF LowerStep

LEMMA RestKeepsOne ==
  ASSUME IInv, NEW t, Threads = {t}, OneInv(t), Leave(t) \/ NewSearch \/ Clear
  PROVE  OneInv(t)'
<1>0. pc[t] \in Steps /\ node[t] \in Seq(Node) /\ DOMAIN node = Threads
  BY Loaded DEF IInv, TypeOK
<1>1. ASSUME Leave(t) PROVE OneInv(t)'
  <2>1. /\ pc[t] = "node" /\ entry' = entry /\ pc' = pc /\ local' = local /\ Len(node[t]) > 0
        /\ node' = [node EXCEPT ![t] = SubSeq(node[t], 1, Len(node[t]) - 1)]
    BY <1>1 DEF Leave, At, Nodes
  <2>2. HitsAreHonest'
    <3>1. node'[t] = SubSeq(node[t], 1, Len(node[t]) - 1)
      BY <1>0, <2>1
    <3>2. PICK m \in Nat : m = Len(node[t]) /\ m > 0
      BY <1>0, <2>1
    <3>3. /\ Len(node'[t]) = IF 1 <= m - 1 THEN (m - 1) - 1 + 1 ELSE 0
          /\ \A i \in 1 .. (m - 1) - 1 + 1 : node'[t][i] = node[t][1 + i - 1]
      <4>1. \A i \in 1 .. m - 1 : node[t][i] \in Node
        BY <1>0, <3>2
      <4> QED BY <3>1, <3>2, <4>1, SubSeqProperties
    <3>4. /\ Len(node'[t]) = m - 1
          /\ \A i \in 1 .. m - 1 : node'[t][i] = node[t][i]
      BY <3>2, <3>3
    <3> QED BY <3>2, <3>4 DEF OneInv, HitsAreHonest, Nodes
  <2> QED BY <2>1, <2>2 DEF OneInv, OthersAreWhole, SaveIsOfKey, OtherIsTrue, StoredSoFar, LoadedIsStored,
                              LeastSoFar, IsTorn, Torn, StoreSteps
<1>2. ASSUME NewSearch \/ Clear PROVE OneInv(t)'
  <2>1. /\ pc[t] = "node" /\ node' = node /\ pc' = pc /\ local' = local
        /\ entry' = entry \/ entry' = [s \in Slots |-> Zero]
    BY <1>2 DEF NewSearch, Clear, Parked, At
  <2>2. HitsAreHonest'
    BY <2>1 DEF OneInv, HitsAreHonest, Nodes
  <2>3. Whole(Zero)
    BY DEF Whole, MoveOfKey, Zero
  <2>4. OthersAreWhole(t)'
    BY <2>1, <2>3 DEF OneInv, OthersAreWhole, IsTorn, Torn
  <2> QED BY <2>1, <2>2, <2>4 DEF OneInv, SaveIsOfKey, OtherIsTrue, StoredSoFar, LoadedIsStored,
                              LeastSoFar, IsTorn, Torn, StoreSteps
<1> QED BY <1>1, <1>2

LEMMA OneStep ==
  ASSUME NEW t, Threads = {t}
  PROVE  IInv /\ OneInv(t) /\ [Next]_vars => OneInv(t)'
<1> SUFFICES ASSUME IInv, OneInv(t), [Next]_vars PROVE OneInv(t)'
  OBVIOUS
<1>1. CASE Next
  BY <1>1, ProbeKeepsOne, SaveKeepsOne, LowerKeepsOne, RestKeepsOne DEF Next
<1>2. CASE UNCHANGED vars
  BY <1>2 DEF vars, OneInv, OthersAreWhole, SaveIsOfKey, OtherIsTrue, StoredSoFar, LoadedIsStored, LeastSoFar,
              HitsAreHonest, Nodes, IsTorn, At1, WorthOf, Worth
<1> QED BY <1>1, <1>2

LEMMA OneInit ==
  ASSUME NEW t, Threads = {t}
  PROVE  Init => OneInv(t)
<1> SUFFICES ASSUME Init PROVE OneInv(t)
  OBVIOUS
<1>1. pc[t] = "node" /\ entry = [s \in Slots |-> Zero] /\ node[t] = << >>
  BY DEF Init
<1>2. Whole(Zero)
  BY DEF Whole, MoveOfKey, Zero
<1>3. HitsAreHonest
  BY <1>1 DEF HitsAreHonest, Nodes
<1> QED BY <1>1, <1>2, <1>3 DEF OneInv, OthersAreWhole, SaveIsOfKey, OtherIsTrue, StoredSoFar, LoadedIsStored,
                                LeastSoFar, IsTorn, Torn, StoreSteps

LEMMA OneInvSuffices ==
  ASSUME NEW t, Threads = {t}
  PROVE  IInv /\ OneInv(t) => EntriesAreWhole /\ HitsAreHonest
<1> SUFFICES ASSUME OneInv(t), At(t, "node"), NEW s \in Slots PROVE OfOneSave(entry[s])
  BY DEF EntriesAreWhole, OneInv
<1>1. Whole(entry[s])
  BY DEF OneInv, OthersAreWhole, IsTorn, Torn, At
<1> QED BY <1>1 DEF Whole, MoveOfKey, RestOfKey, OfOneSave

LEMMA OneMissGivesLeast ==
  ASSUME NEW t, Threads = {t}
  PROVE  IInv /\ OneInv(t) /\ [Next]_vars => [GivesLeast]_vars
<1> SUFFICES ASSUME IInv, OneInv(t), Next, pc[t] = "weighAge", pc'[t] = "node"
             PROVE  \A s \in Slots : IF s < node'[t][Len(node'[t])].slot
                                     THEN WorthOf(s) > WorthOf(node'[t][Len(node'[t])].slot)
                                     ELSE WorthOf(s) >= WorthOf(node'[t][Len(node'[t])].slot)
  BY DEF GivesLeast
<1> DEFINE s0 == local[t].slot
           worth == Worth(local[t].d8, entry[s0].genBound8)
           wins == s0 = 0 \/ local[t].least > worth
           best == IF wins THEN s0 ELSE local[t].best
<1>1. WeighAge(t)
  BY DEF Next, ProbeStep, SaveStep, LowerStep, Probe, Look, ReadDepth, ReadRest, Weigh, Write, LoadKey, StoreMove,
         TestDepth, TestAge, StoreKey, StoreDepth, StoreGenBound, StoreValue, StoreEval, TestOld, TestBound,
         TestValue, Penalize, LoadDepth, StoreLower, Done, Leave, NewSearch, Clear, Parked, At
<1>2. s0 + 1 \notin Slots /\ Enter(t, [pos |-> local[t].pos, slot |-> best, hit |-> FALSE,
                   depth |-> DepthNone, value |-> ValueNone])
  <2>1. ASSUME NEW loaded, Read(t, "weigh", loaded) PROVE FALSE
    BY <2>1, OneReads
  <2> QED BY <1>1, <2>1 DEF WeighAge, Load
<1>3. node'[t][Len(node'[t])].slot = best
  <2>1. node[t] \in Seq(Node) /\ DOMAIN node = Threads
    BY Loaded DEF IInv, TypeOK
  <2> HIDE DEF best
  <2>2. node'[t] = Append(node[t], [pos |-> local[t].pos, slot |-> best, hit |-> FALSE,
                   depth |-> DepthNone, value |-> ValueNone])
    BY <1>2, <2>1 DEF Enter
  <2> QED BY <2>1, <2>2
<1>4. local[t] \in Weighing
  BY Loaded DEF Fits
<1>5. worth = WorthOf(s0)
  BY DEF OneInv, LoadedIsStored, WorthOf, At1
<1>6. \A s \in Slots : WorthOf(s) \in Int /\ s \in Nat
  BY WorthsAreInt
<1>7. s0 \in Slots /\ local[t].best \in Slots /\ local[t].least \in Int
  BY <1>4 DEF Weighing
<1>8. ASSUME NEW s \in Slots
      PROVE  IF s < best THEN WorthOf(s) > WorthOf(best) ELSE WorthOf(s) >= WorthOf(best)
  <2>1. s = s0 \/ s < s0
    BY <1>2, <1>6, <1>7, SizesAssumption DEF Slots
  <2>2. s0 > 0 => /\ local[t].best < s0 /\ local[t].least = WorthOf(local[t].best)
                  /\ s < s0 => IF s < local[t].best THEN WorthOf(s) > local[t].least
                                                    ELSE WorthOf(s) >= local[t].least
    BY <1>6, <1>7 DEF OneInv, LeastSoFar
  <2>3. s < s0 => s0 > 0
    BY <1>6, <1>7
  <2> HIDE DEF worth
  <2> QED BY <1>5, <1>6, <1>7, <2>1, <2>2, <2>3
<1> HIDE DEF best
<1> QED BY <1>3, <1>8

(* With one thread, whatever nests inside a node between its probe and its  *)
(* save, an entry at rest is one whole save to its key, but for the move    *)
(* and a lowered depth, and no hit claims more depth than was searched.     *)
THEOREM OneThreadKeepsSaves ==
  ASSUME NEW t, Threads = {t}
  PROVE  Spec => [](EntriesAreWhole /\ HitsAreHonest)
<1>1. IInv /\ OneInv(t) => EntriesAreWhole /\ HitsAreHonest
  BY OneInvSuffices
<1>2. IInv /\ OneInv(t) /\ [Next]_vars => OneInv(t)'
  BY OneStep
<1>3. Init => OneInv(t)
  BY OneInit
<1> QED BY <1>1, <1>2, <1>3, InvariantHolds, PTL DEF Spec

(* With one thread, a miss gives up the entry worth least, the first of     *)
(* equals.                                                                  *)
THEOREM OneThreadReplacesLeast ==
  ASSUME NEW t, Threads = {t}
  PROVE  Spec => MissReplacesLeast
<1>1. IInv /\ OneInv(t) /\ [Next]_vars => [GivesLeast]_vars
  BY OneMissGivesLeast
<1>2. IInv /\ OneInv(t) /\ [Next]_vars => OneInv(t)'
  BY OneStep
<1>3. Init => OneInv(t)
  BY OneInit
<1> QED BY <1>1, <1>2, <1>3, InvariantHolds, PTL DEF Spec, MissReplacesLeast
=============================================================================
