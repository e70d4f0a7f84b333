--------------------------- MODULE MCTTableProofs ---------------------------
(* The theorems of TTableProofs about one thread, for the nesting thread    *)
(* that MCTTable checks. Nested and Proved are the same instance of TTable, *)
(* Proved with the theorems about it.                                       *)
EXTENDS MCTTable, TLAPS

USE KeyOfAssumption, SizesAssumption, MaxDepth8Assumption, MarginsAssumption,
    GenerationsAssumption, SavesAssumption, HalfAssumption, MaxPlyAssumption

Proved == INSTANCE TTableProofs WITH
  Threads <- {NestingThread}, Positions <- {"a", "b", "c"}, KeyOf <- NestedKeyOf,
  Saves <- NestedSaves, ClusterSize <- 2, MaxDepth8 <- 4, AgingDepth <- 0, MaxNodes <- 2,
  entry <- nEntry, generation8 <- nGeneration8, node <- nNode, pc <- nPc, local <- nLocal

LEMMA NestedIsProved ==
  /\ Nested!Init <=> Proved!Init
  /\ Nested!Next <=> Proved!Next
  /\ Nested!vars = Proved!vars
  /\ Nested!EntriesAreWhole <=> Proved!EntriesAreWhole
  /\ Nested!HitsAreHonest <=> Proved!HitsAreHonest
  /\ Nested!GivesLeast <=> Proved!GivesLeast
<1>1. Nested!Init <=> Proved!Init
  BY DEF Nested!Init, Proved!Init, Nested!Slots, Proved!Slots, Nested!Zero, Proved!Zero,
       Nested!Idle, Proved!Idle, Nested!NoMove, Proved!NoMove
<1>2. Nested!Next <=> Proved!Next
  BY DEF Nested!Next, Proved!Next, Nested!ProbeStep, Proved!ProbeStep, Nested!SaveStep,
       Proved!SaveStep, Nested!LowerStep, Proved!LowerStep, Nested!Probe, Proved!Probe,
       Nested!Look, Proved!Look, Nested!ReadDepth, Proved!ReadDepth, Nested!ReadRest,
       Proved!ReadRest, Nested!Weigh, Proved!Weigh, Nested!WeighAge, Proved!WeighAge,
       Nested!Write, Proved!Write, Nested!LoadKey, Proved!LoadKey, Nested!StoreMove,
       Proved!StoreMove, Nested!TestDepth, Proved!TestDepth, Nested!TestAge,
       Proved!TestAge, Nested!StoreKey, Proved!StoreKey, Nested!StoreDepth,
       Proved!StoreDepth, Nested!StoreGenBound, Proved!StoreGenBound, Nested!StoreValue,
       Proved!StoreValue, Nested!StoreEval, Proved!StoreEval, Nested!TestOld,
       Proved!TestOld, Nested!TestBound, Proved!TestBound, Nested!TestValue,
       Proved!TestValue, Nested!Penalize, Proved!Penalize, Nested!LoadDepth,
       Proved!LoadDepth, Nested!StoreLower, Proved!StoreLower, Nested!Done, Proved!Done,
       Nested!Leave, Proved!Leave, Nested!NewSearch, Proved!NewSearch, Nested!Clear,
       Proved!Clear, Nested!Parked, Proved!Parked, Nested!At, Proved!At, Nested!Goto,
       Proved!Goto, Nested!Keep, Proved!Keep, Nested!Load, Proved!Load, Nested!Read,
       Proved!Read, Nested!Store, Proved!Store, Nested!Nodes, Proved!Nodes,
       Nested!Inner, Proved!Inner, Nested!Enter, Proved!Enter, Nested!Slots,
       Proved!Slots, Nested!Zero, Proved!Zero, Nested!Idle, Proved!Idle, Nested!Byte,
       Proved!Byte, Nested!Lowered, Proved!Lowered, Nested!AgeWeight, Proved!AgeWeight,
       Nested!Worth, Proved!Worth, Nested!RelativeAge, Proved!RelativeAge,
       Nested!BoundOf, Proved!BoundOf, Nested!PvOf, Proved!PvOf, Nested!PackGenBound,
       Proved!PackGenBound, Nested!IsDecisive, Proved!IsDecisive, Nested!IsWin,
       Proved!IsWin, Nested!IsLoss, Proved!IsLoss, Nested!TBWinInMaxPly,
       Proved!TBWinInMaxPly, Nested!ValueTB, Proved!ValueTB, Nested!MateInMaxPly,
       Proved!MateInMaxPly, Nested!ValueMate, Proved!ValueMate, Nested!ValueInfinite,
       Proved!ValueInfinite, Nested!ValueNone, Proved!ValueNone, Nested!IsValid,
       Proved!IsValid, Nested!BoundExact, Proved!BoundExact, Nested!NoMove,
       Proved!NoMove, Nested!DepthNone, Proved!DepthNone, Nested!Penalty, Proved!Penalty
<1>3. Nested!vars = Proved!vars
  BY DEF Nested!vars, Proved!vars
<1>4. Nested!EntriesAreWhole <=> Proved!EntriesAreWhole
  BY DEF Nested!EntriesAreWhole, Proved!EntriesAreWhole, Nested!OfOneSave,
       Proved!OfOneSave, Nested!At, Proved!At, Nested!Slots, Proved!Slots,
       Nested!BoundOf, Proved!BoundOf, Nested!PvOf, Proved!PvOf, Nested!DepthNone,
       Proved!DepthNone, Nested!NoMove, Proved!NoMove
<1>5. Nested!HitsAreHonest <=> Proved!HitsAreHonest
  BY DEF Nested!HitsAreHonest, Proved!HitsAreHonest, Nested!Nodes, Proved!Nodes
<1>6. Nested!GivesLeast <=> Proved!GivesLeast
  BY DEF Nested!GivesLeast, Proved!GivesLeast, Nested!WorthOf, Proved!WorthOf,
       Nested!Worth, Proved!Worth, Nested!Slots, Proved!Slots, Nested!AgeWeight,
       Proved!AgeWeight, Nested!RelativeAge, Proved!RelativeAge
<1> QED BY <1>1, <1>2, <1>3, <1>4, <1>5, <1>6

(* The second instance meets the assumptions of TTable.                     *)
LEMMA NestedKeysAreKeys == NestedKeyOf \in [{"a", "b", "c"} -> Nat]
  BY DEF NestedKeyOf

LEMMA NestedSavesAreSaves ==
  \A p \in {"a", "b", "c"} : \A w \in NestedSaves[p] :
    w \in Proved!SaveArgs /\ w.depth - Proved!DepthNone \in 1 .. 4
<1> DEFINE Fit(w) == w \in Proved!SaveArgs /\ w.depth - Proved!DepthNone \in 1 .. 4
           a  == Save(ValueNone, FALSE, BoundNone, -2, NoMove, 11)
           b1 == Save(31910, FALSE, BoundLower, 1, 2, 12)
           b2 == Save(20, TRUE, BoundExact, -1, 2, 12)
           c  == Save(30, FALSE, BoundUpper, -1, NoMove, 13)
<1>1. /\ {20, 30, 31910, ValueNone, 11, 12, 13} \subseteq Proved!Values
      /\ {BoundNone, BoundUpper, BoundLower, BoundExact} \subseteq Proved!Bounds
  BY DEF ValueNone, Proved!Values, Proved!ValueInfinite, Proved!ValueNone, Proved!Bounds,
         BoundNone, BoundUpper, BoundLower, BoundExact
<1>2. Fit(a)
  BY <1>1 DEF Save, Proved!SaveArgs, Proved!DepthNone, NoMove
<1>3. Fit(b1)
  BY <1>1 DEF Save, Proved!SaveArgs, Proved!DepthNone, NoMove
<1>4. Fit(b2)
  BY <1>1 DEF Save, Proved!SaveArgs, Proved!DepthNone, NoMove
<1>5. Fit(c)
  BY <1>1 DEF Save, Proved!SaveArgs, Proved!DepthNone, NoMove
<1>6. NestedSaves["a"] = {a} /\ NestedSaves["b"] = {b1, b2} /\ NestedSaves["c"] = {c}
  BY DEF NestedSaves
<1> HIDE DEF Fit, a, b1, b2, c
<1>7. \A p \in {"a", "b", "c"} : \A w \in NestedSaves[p] : Fit(w)
  BY <1>2, <1>3, <1>4, <1>5, <1>6
<1> QED BY <1>7 DEF Fit

LEMMA NestedIsInductive ==
  /\ Proved!Init => Proved!IInv /\ Proved!OneInv(NestingThread)
  /\ Proved!IInv /\ Proved!OneInv(NestingThread) /\ [Proved!Next]_Proved!vars
       => Proved!IInv' /\ Proved!OneInv(NestingThread)'
<1>1. Proved!Init => Proved!IInv
  BY Proved!InitEstablishesInvariant, NestedKeysAreKeys, NestedSavesAreSaves
<1>2. Proved!Init => Proved!OneInv(NestingThread)
  BY Proved!OneInit, NestedKeysAreKeys, NestedSavesAreSaves
<1>3. Proved!IInv /\ [Proved!Next]_Proved!vars => Proved!IInv'
  BY Proved!StepPreserves, NestedKeysAreKeys, NestedSavesAreSaves
<1>4. Proved!IInv /\ Proved!OneInv(NestingThread) /\ [Proved!Next]_Proved!vars
        => Proved!OneInv(NestingThread)'
  BY Proved!OneStep, NestedKeysAreKeys, NestedSavesAreSaves
<1> QED BY <1>1, <1>2, <1>3, <1>4

LEMMA NestedHolds == MCSpec => [][Proved!Next]_Proved!vars /\ [](Proved!IInv /\ Proved!OneInv(NestingThread))
<1>1. MCInit => Proved!Init
  BY NestedIsProved DEF MCInit
<1>2. [MCNext]_<<vars, nVars, part>> => [Proved!Next]_Proved!vars
  BY NestedIsProved DEF MCNext, nVars, Proved!vars
<1> QED BY <1>1, <1>2, NestedIsInductive, PTL DEF MCSpec

(* With one thread, what a save leaves is one save, whole, and what a hit   *)
(* returns was searched as deep as it says (tt.cpp save, probe).            *)
THEOREM NestedKeepsSaves == MCSpec => []NestedSavesAreKept
<1>1. Proved!IInv /\ Proved!OneInv(NestingThread) => NestedSavesAreKept
  BY Proved!OneInvSuffices, NestedKeysAreKeys, NestedSavesAreSaves, NestedIsProved
     DEF NestedSavesAreKept
<1> QED BY <1>1, NestedHolds, PTL

(* With one thread, a miss gives up the entry worth least (tt.cpp probe).   *)
THEOREM NestedReplacesLeast == MCSpec => LeastIsReplaced
<1>1. Proved!IInv /\ Proved!OneInv(NestingThread) /\ [Proved!Next]_Proved!vars
        => [Proved!GivesLeast]_Proved!vars
  BY Proved!OneMissGivesLeast, NestedKeysAreKeys, NestedSavesAreSaves
<1>2. [Proved!GivesLeast]_Proved!vars => [Nested!GivesLeast]_Nested!vars
  BY NestedIsProved DEF Nested!vars, Proved!vars
<1> QED BY <1>1, <1>2, NestedHolds, PTL DEF LeastIsReplaced, Nested!MissReplacesLeast
=============================================================================
