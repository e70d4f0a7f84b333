----------------------------- MODULE Histories ------------------------------
(* The arithmetic of the search's statistics (history.h and the updates of  *)
(* search.cpp), stated of every call: counters that gravitate towards their *)
(* limit, the slices in which the workers of a node clear what they share,  *)
(* the rows a key selects, the correction of the static evaluation, the     *)
(* divisions replaced by multiplications and the moving averages of the     *)
(* root moves, which the code computes in unsigned words.                   *)
EXTENDS Integers, Sequences, FiniteSets

CONSTANTS
  CounterLimits,   \* D of the tables tried
  RowCounts,       \* sizes of what is cleared in slices
  Workers,         \* how many workers of a node clear it
  Reach,           \* 2^40: the shift of a reciprocal, as a factor
  Divisors,        \* what it divides by
  Dividends,       \* and what is divided
  Word, IntSize,   \* the sizes of an unsigned word and of an int: 2^64, 2^32
  RootScores       \* scores averaged

ASSUME LimitsAssumption == CounterLimits \subseteq Nat \ {0}
ASSUME RowsAssumption == RowCounts \subseteq Nat
ASSUME WorkersAssumption == Workers \subseteq 1 .. 1024
ASSUME DivisionAssumption ==
  Divisors \subseteq Nat \ {0} /\ Dividends \subseteq Int /\ Reach \in Nat \ {0}

(* An unsigned word holds whole ints, thirty-two times over, and an int has *)
(* room for the scores on both sides of zero.                               *)
ASSUME WordAssumption ==
  /\ IntSize \in Nat \ {0} /\ IntSize % 2 = 0 /\ Word \in Nat \ {0} /\ Word % (32 * IntSize) = 0
  /\ RootScores \subseteq -(IntSize \div 2) .. IntSize \div 2 - 1

VARIABLE stat

Clamped(x, lo, hi) == IF x < lo THEN lo ELSE IF x > hi THEN hi ELSE x
Size(x) == IF x < 0 THEN -x ELSE x

(* C++ division, which rounds towards zero.                                 *)
Quot(a, b) == IF a < 0 THEN -((-a) \div b) ELSE a \div b

(* StatsEntry::update; the mutant forgets to clamp the bonus.               *)
UpdateUnclamped(val, bonus, D) == val + bonus - Quot(val * Size(bonus), D)
Update(val, bonus, D) ==
  LET clampedBonus == Clamped(bonus, -D, D)
  IN  val + clampedBonus - Quot(val * Size(clampedBonus), D)

shared_slice(count, index, total) ==
  (index * count) \div total ..
  (IF index + 1 = total THEN count ELSE ((index + 1) * count) \div total) - 1

(* PowerOfTwo::ceil and the row a key selects in a table of so many banks:  *)
(* the bits it shares with the mask below the table's size.                 *)
Powers == {1, 2, 4, 8, 16, 32, 64, 128, 256, 512, 1024, 2048, 4096}
Bit(x, p) == (x \div p) % 2
PowerOfTwoCeil(count) == CHOOSE p \in Powers : p >= count /\ (p > 1 => p \div 2 < count)
Masked(x, mask) == CHOOSE y \in 0 .. mask : \A p \in Powers : Bit(y, p) = Bit(x, p) * Bit(mask, p)
RowOf(key, size) == Masked(key, size - 1)

(* The folded weights of update_continuation_histories and the bonus each   *)
(* of its five steps applies: positive counts how many of the counters read *)
(* so far are above zero.                                                   *)
conthist_bonuses == << [index |-> 1, weight |-> 520], [index |-> 2, weight |-> 390],
                       [index |-> 3, weight |-> 145], [index |-> 4, weight |-> 251],
                       [index |-> 6, weight |-> 209] >>
CMHCMultipliers == <<94, 103, 110, 106, 119, 126>>
ContLimit == 30000
ClampFree == ContLimit - 73
StepBonus(bonus, k, positive) ==
  Quot(bonus * conthist_bonuses[k].weight * CMHCMultipliers[positive + 1], 65536)
  + (IF conthist_bonuses[k].index < 2 THEN 73 ELSE 0)

(* correction_value and to_corrected_static_eval.                           *)
CorrectionLimit == 1024
TBWinBound == 31507
correction_value(pcv, micv, npcv, cnt, played) ==
  13806 * pcv + 9512 * micv + 11615 * (npcv + npcv)
  + (IF played THEN 7885 * (cnt + cnt) + 6307 * cnt ELSE 80695)
to_corrected_static_eval(v, cv) == Clamped(v + Quot(cv, 131072), 1 - TBWinBound, TBWinBound - 1)

(* A division by a constant of the table: the magic rounds up, the shift    *)
(* down, and a negative dividend gets one back.                             *)
Magic(d) == (Reach + d - 1) \div d
ASSUME MagicAssumption ==
  /\ \A d \in Divisors : Magic(d) * d > Reach
  /\ \A d \in Divisors, h \in Dividends : Size(h) * (d - 1) < Reach
Reciprocal(h, d) == (h * Magic(d)) \div Reach + (IF h < 0 THEN 1 ELSE 0)

(* The averages of a root move: signed scores times unsigned weights, so    *)
(* the sum is taken modulo the word, divided as it stands and cut to an int.*)
Scale == 32
AsInt(x) == LET y == x % IntSize IN IF y >= IntSize \div 2 THEN y - IntSize ELSE y
MovingAverage(value, old, w) == AsInt(((value * w + old * (Scale - w)) % Word) \div Scale)

-----------------------------------------------------------------------------
UpdateCalls  == UNION { [op : {"update"}, limit : {D}, value : -D .. D, bonus : -2 * D .. 2 * D] :
                        D \in CounterLimits }
SliceCalls   == [op : {"slice"}, count : RowCounts, total : Workers]
RowCalls     == [op : {"row"}, workers : Workers, base : {1, 4, 8}, key : 0 .. 127]
ContCalls    == [op : {"cont"}, step : 1 .. 5, positive : 0 .. 5, bonus : {0, 1, -1, 5, 1000} \cup
                   (ClampFree - 1 .. ClampFree) \cup (-ClampFree .. 1 - ClampFree)]
CorrectCalls == [op : {"correct"}, eval : {-31506, -31000, 0, 1, 31506},
                 pawn : {-1024, 0, 1024}, minor : {-1024, 1024}, rest : {-1024, 0, 1024},
                 cnt : {-1024, 1024}, played : BOOLEAN]
DivideCalls  == [op : {"divide"}, by : Divisors, h : Dividends]
AverageCalls == [op : {"average"}, value : RootScores, old : RootScores, weight : 12 .. 24]

StatCalls == UpdateCalls \cup SliceCalls \cup RowCalls \cup ContCalls \cup CorrectCalls
               \cup DivideCalls \cup AverageCalls

StatInit == stat = [op |-> "none"]
StatCall   == stat.op = "none" /\ stat' \in StatCalls
StatReturn == stat.op # "none" /\ stat' = [op |-> "none"]
StatNext == StatCall \/ StatReturn

StatSpec == StatInit /\ [][StatNext]_stat

-----------------------------------------------------------------------------
(* A counter stays within its limit and moves the way of the bonus, however *)
(* large the bonus is.                                                      *)
CountersGravitate ==
  stat.op = "update" =>
    LET new == Update(stat.value, stat.bonus, stat.limit)
    IN  /\ new \in -stat.limit .. stat.limit
        /\ stat.bonus >= 0 => new >= stat.value
        /\ stat.bonus <= 0 => new <= stat.value

(* The workers of a node clear every row once, also when they are more.     *)
SlicesPartition ==
  stat.op = "slice" =>
    \A r \in 0 .. stat.count - 1 :
      Cardinality({i \in 0 .. stat.total - 1 : r \in shared_slice(stat.count, i, stat.total)}) = 1

(* A key selects the row of its remainder, so every row of the table can be *)
(* reached and none beyond it.                                              *)
RowsAreReached ==
  stat.op = "row" =>
    LET size == PowerOfTwoCeil(stat.workers) * stat.base
    IN  RowOf(stat.key, size) = stat.key % size

(* The arm that leaves out the clamp needs none, for any bonus it admits,   *)
(* and the folded weights fit their sixteen bits.                           *)
ClampIsIdle ==
  stat.op = "cont" =>
    /\ Size(StepBonus(stat.bonus, stat.step, stat.positive)) <= ContLimit
    /\ conthist_bonuses[stat.step].weight * CMHCMultipliers[stat.positive + 1] < 65536

(* No correction makes an evaluation decisive, nor turns a win of material  *)
(* into one on the board.                                                   *)
CorrectionStaysOpen ==
  stat.op = "correct" =>
    Size(to_corrected_static_eval(stat.eval,
           correction_value(stat.pawn, stat.minor, stat.rest, stat.cnt, stat.played))) < TBWinBound

(* The multiplication gives what the division gave, negative dividends and  *)
(* exact multiples included.                                                *)
ReciprocalDivides == stat.op = "divide" => Reciprocal(stat.h, stat.by) = Quot(stat.h, stat.by)

(* An average lies between the old one and the score, whatever their signs, *)
(* though it passes through an unsigned word.                               *)
AverageLiesBetween ==
  stat.op = "average" =>
    LET new == MovingAverage(stat.value, stat.old, stat.weight)
    IN  \/ stat.value <= new /\ new <= stat.old
        \/ stat.old <= new /\ new <= stat.value

(* What the search learns stays what its types and tables can hold          *)
(* (StatsEntry, shared_slice, PowerOfTwo, conthist_apply, correction_value, *)
(* lmrScale, the averages of Worker::search).                               *)
HistoryLaws ==
  /\ CountersGravitate /\ SlicesPartition /\ RowsAreReached /\ ClampIsIdle
  /\ CorrectionStaysOpen /\ ReciprocalDivides /\ AverageLiesBetween
=============================================================================
