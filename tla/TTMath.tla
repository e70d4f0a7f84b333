------------------------------- MODULE TTMath -------------------------------
(* The arithmetic the transposition table stands on (tt.cpp, and the value  *)
(* conversions of search.cpp): which cluster a key names, which clusters a  *)
(* thread clears, how generation, bound and PV flag share a byte and how an *)
(* entry's age is read back from it, and how a mate or tablebase value is   *)
(* moved between "plies from the root" and "plies from this node".          *)
EXTENDS Integers

CONSTANTS
  Half,         \* 2^32: half of a 64-bit key (basetypes.h, mul_hi64)
  Generations,  \* 2^GENERATION_BITS: how many generations genBound8 tells apart
  MaxPly        \* MAX_PLY, the deepest ply a search reaches

ASSUME HalfAssumption == Half \in Nat /\ Half > 1
ASSUME GenerationsAssumption == Generations \in Nat /\ Generations > 1
ASSUME MaxPlyAssumption == MaxPly \in Nat /\ 100 < MaxPly /\ MaxPly < 700

-----------------------------------------------------------------------------
(* The cluster of a key: first_entry multiplies the key by the number of    *)
(* clusters and keeps the high 64 bits. Without a 128-bit type the product  *)
(* is put together from 32-bit halves.                                      *)

Key == 0 .. Half * Half - 1

(* Mutant: the low halves' carry is forgotten.                              *)
MulHiDroppingCarry(a, b) ==
  LET aL == a % Half
      aH == a \div Half
      bL == b % Half
      bH == b \div Half
      c2 == (aH * bL) % (Half * Half)
      c3 == (aL * bH + (c2 % Half)) % (Half * Half)
  IN  (aH * bH + (c2 \div Half) + (c3 \div Half)) % (Half * Half)

MulHi64(a, b) ==
  LET aL == a % Half
      aH == a \div Half
      bL == b % Half
      bH == b \div Half
      c1 == (aL * bL) \div Half
      c2 == (aH * bL + c1) % (Half * Half)
      c3 == (aL * bH + (c2 % Half)) % (Half * Half)
  IN  (aH * bH + (c2 \div Half) + (c3 \div Half)) % (Half * Half)

FirstEntry(key, clusterCount) == (key * clusterCount) \div (Half * Half)

-----------------------------------------------------------------------------
(* The stripe of clusters that the i-th of threadCount jobs clears.         *)

Stride(clusterCount, threadCount) == clusterCount \div threadCount

StripeStart(clusterCount, threadCount, i) == Stride(clusterCount, threadCount) * i

(* Mutant: the clusters left over by the division are nobody's.             *)
StripeLenWithoutRest(clusterCount, threadCount, i) == Stride(clusterCount, threadCount)

StripeLen(clusterCount, threadCount, i) ==
  IF i + 1 # threadCount THEN Stride(clusterCount, threadCount)
                         ELSE clusterCount - StripeStart(clusterCount, threadCount, i)

Stripe(clusterCount, threadCount, i) ==
  LET start == StripeStart(clusterCount, threadCount, i)
  IN  start .. start + StripeLen(clusterCount, threadCount, i) - 1

-----------------------------------------------------------------------------
(* genBound8: generation in the low bits, then the bound, then the PV flag. *)

Bounds == 0 .. 3
BoundNone  == 0
BoundUpper == 1
BoundLower == 2
BoundExact == 3

PackGenBound(gen, bound, pv) ==
  gen + Generations * bound + 4 * Generations * (IF pv THEN 1 ELSE 0)

BoundOf(genBound8) == (genBound8 \div Generations) % 4
PvOf(genBound8) == (genBound8 \div (4 * Generations)) % 2 = 1
(* Mutant: the flags are not masked off.                                    *)
RelativeAgeUnmasked(curr, genBound8) == (curr - genBound8) % (8 * Generations)

RelativeAge(curr, genBound8) == (curr - genBound8) % Generations

(* Does bound b cover the side the window was left on?                      *)
Covers(b, failHigh) == IF failHigh THEN b \in {BoundLower, BoundExact}
                                   ELSE b \in {BoundUpper, BoundExact}

-----------------------------------------------------------------------------
(* Values. A mate or tablebase value counts plies from the root inside a    *)
(* search and plies from the node inside the table.                         *)

ValueMate     == 32000
ValueInfinite == 32001
ValueNone     == 32002
MateInMaxPly  == ValueMate - MaxPly
ValueTB       == MateInMaxPly - 1
TBWinInMaxPly == ValueTB - MaxPly

Values == -ValueInfinite .. ValueNone

IsValid(v)    == v # ValueNone
IsWin(v)      == v >= TBWinInMaxPly
IsLoss(v)     == v <= -TBWinInMaxPly
IsMate(v)     == v >= MateInMaxPly
IsMated(v)    == v <= -MateInMaxPly
IsDecisive(v) == IsWin(v) \/ IsLoss(v)

ValueToTT(v, ply) == IF IsWin(v) THEN v + ply ELSE IF IsLoss(v) THEN v - ply ELSE v

(* A win the fifty-move rule could still take away is read as the highest   *)
(* value that is no win, and a loss likewise.                               *)
TooFar(v, r50) == \/ IsMate(v) /\ ValueMate - v > 100 - r50
                  \/ ValueTB - v > 100 - r50

(* Mutant: a loss is moved the way a win is.                                *)
ValueFromTTOneWay(v, ply, r50) ==
  IF ~IsValid(v) THEN ValueNone
  ELSE IF IsWin(v) THEN IF TooFar(v, r50) THEN TBWinInMaxPly - 1 ELSE v - ply
  ELSE IF IsLoss(v) THEN IF TooFar(-v, r50) THEN 1 - TBWinInMaxPly ELSE v - ply
  ELSE v

ValueFromTT(v, ply, r50) ==
  IF ~IsValid(v) THEN ValueNone
  ELSE IF IsWin(v) THEN IF TooFar(v, r50) THEN TBWinInMaxPly - 1 ELSE v - ply
  ELSE IF IsLoss(v) THEN IF TooFar(-v, r50) THEN 1 - TBWinInMaxPly ELSE v + ply
  ELSE v

(* The values a search can hold at a ply, seen from the root: a mate is at  *)
(* least one ply away and at most MaxPly, a tablebase result is found at    *)
(* the node or below it, and everything else is no win and no loss.         *)
SearchValues(ply) ==
  { v \in Values :
      \/ ~IsDecisive(v)
      \/ IsWin(v)  /\ (v <= ValueTB - ply \/ (IsMate(v) /\ v <= ValueMate - ply))
      \/ IsLoss(v) /\ (v >= ply - ValueTB \/ (IsMated(v) /\ v >= ply - ValueMate)) }
=============================================================================
