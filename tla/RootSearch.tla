----------------------------- MODULE RootSearch -----------------------------
(* The root of one worker's search: Worker::iterative_deepening and what    *)
(* search<Root> does to the list of root moves (search.cpp). Depth after    *)
(* depth, line after line, window after window, the list is rescored and    *)
(* sorted in place, and the shared stop flag, which any thread may raise at *)
(* any moment, can leave it half done. The value a child search returns is  *)
(* any value; the depth it is searched to is left out.                      *)
EXTENDS Integers, Sequences, FiniteSets

CONSTANTS
  Moves,        \* the root moves
  TBRanks,      \* the tablebase ranks the list may begin with, place by place
  MultiPV,      \* how many lines are searched
  MaxDepth,     \* bound: limits.depth, or MAX_PLY - 1
  Values,       \* what a child search may return
  Infinite,     \* VALUE_INFINITE
  MateIn,       \* VALUE_MATE_IN_MAX_PLY
  TBWin,        \* VALUE_TB_WIN_IN_MAX_PLY
  Deltas,       \* half the width a window may open with
  WidenNum,     \* 47: a failed window's delta grows by this many
  WidenDen,     \* 128: of these parts
  Weights,      \* 12 .. 24: the weight a value has in the average
  Scale         \* 32: of this many

ASSUME MovesAssumption == IsFiniteSet(Moves) /\ Moves # {}
ASSUME TBRanksAssumption ==
  \A ranks \in TBRanks :
    /\ ranks \in [1 .. Cardinality(Moves) -> Nat]
    /\ \A i, j \in DOMAIN ranks : i < j => ranks[i] >= ranks[j]
ASSUME LinesAssumption == MultiPV \in 1 .. Cardinality(Moves) /\ MaxDepth \in Nat
ASSUME ValuesAssumption ==
  /\ TBWin \in Nat /\ MateIn \in Nat /\ Infinite \in Nat
  /\ 0 < TBWin /\ TBWin <= MateIn /\ MateIn < Infinite
  /\ \A v \in Values : v \in Int /\ -Infinite < v /\ v < Infinite
ASSUME DeltasAssumption == Deltas \subseteq Nat \ {0}
ASSUME WeightsAssumption == Scale \in Nat \ {0} /\ Weights \subseteq 0 .. Scale /\ Weights # {}
ASSUME WidenAssumption == WidenNum \in Nat /\ WidenDen \in Nat \ {0}

VARIABLES
  rootMoves,    \* the list, its order part of the state
  rootDepth,    \* the iteration
  pvIdx,        \* the line being searched, from 1
  pvFirst,      \* the lines of its tablebase rank begin here
  pvLast,       \* and end here
  alpha, beta, delta,  \* the aspiration window
  low,          \* search<Root>'s own alpha, raised as moves are searched
  bestValue,    \* the best value search<Root> has seen
  todo,         \* root moves this search<Root> has still to search
  lastBest,     \* lastBestMovePV and lastBestMoveScore
  stopFlag,     \* shared by all threads
  pc

vars == <<rootMoves, rootDepth, pvIdx, pvFirst, pvLast, alpha, beta, delta,
          low, bestValue, todo, lastBest, stopFlag, pc>>
window == <<alpha, beta, delta>>
lines  == <<pvIdx, pvFirst, pvLast>>

Abs(v)           == IF v < 0 THEN -v ELSE v
Larger(a, b)     == IF a < b THEN b ELSE a
Smaller(a, b)    == IF a < b THEN a ELSE b
IsLoss(v)        == v <= -TBWin
IsDecisive(v)    == Abs(v) >= TBWin
IsMateOrMated(v) == Abs(v) >= MateIn

(* A principal variation stands for the search it came from: the value that *)
(* search gave the move, whether that value lay inside the window, and      *)
(* whether the line of the list it headed was completed with it at the head.*)
(* Bare is a line cut down to its first move.                               *)
Bare == [of |-> -Infinite, inside |-> FALSE, complete |-> FALSE]
Line == [of : Values \cup {-Infinite}, inside : BOOLEAN, complete : BOOLEAN]

RootMove == [move : Moves, tbRank : Nat, score : Values \cup {-Infinite},
             previousScore : Values \cup {-Infinite}, previousScoreExact : BOOLEAN,
             uciScore : -Infinite .. Infinite, inexactLower : BOOLEAN,
             inexactUpper : BOOLEAN, averageScore : -Infinite .. Infinite,
             pv : Line, previousPV : Line]

NewMove(m, rank) ==
              [move |-> m, tbRank |-> rank, score |-> -Infinite,
               previousScore |-> -Infinite, previousScoreExact |-> FALSE, uciScore |-> -Infinite,
               inexactLower |-> FALSE, inexactUpper |-> FALSE,
               averageScore |-> -Infinite, pv |-> Bare, previousPV |-> Bare]

IsInexact(rm) == rm.inexactLower \/ rm.inexactUpper
IsExact(rm)   == rm.score # -Infinite /\ ~IsInexact(rm)
IsExactLoss(rm) == IsExact(rm) /\ IsLoss(rm.score)

None == [move |-> {}, score |-> -Infinite, pv |-> Bare]
LastBest(rm) == [move |-> rm.move, score |-> rm.score, pv |-> rm.pv]

(* Mutant: the worse previous score first.                                  *)
PrecedesByWorse(a, b) == IF a.score # b.score THEN a.score > b.score
                                              ELSE a.previousScore < b.previousScore

(* operator<: the better score first, then the better previous score.       *)
Precedes(a, b) == IF a.score # b.score THEN a.score > b.score
                                       ELSE a.previousScore > b.previousScore

(* std::stable_sort of part of the list.                                    *)
Sorted(s, first, last) ==
  LET before(i, j) == Precedes(s[i], s[j]) \/ (~Precedes(s[j], s[i]) /\ i < j)
      from(k) == CHOOSE i \in first .. last :
                   Cardinality({j \in first .. last : before(j, i)}) = k - first
  IN  [k \in DOMAIN s |-> IF k \in first .. last THEN s[from(k)] ELSE s[k]]

IndexOf(m) == CHOOSE i \in DOMAIN rootMoves : rootMoves[i].move = m

(* Mutant: the move takes the front's place, which is lost.                 *)
ToFrontCopied(s, m) ==
  LET at == CHOOSE i \in DOMAIN s : s[i].move = m
  IN  [s EXCEPT ![1] = s[at]]

(* move_to_front.                                                           *)
ToFront(s, m) ==
  LET at == CHOOSE i \in DOMAIN s : s[i].move = m
  IN  [k \in DOMAIN s |-> IF k = 1 THEN s[at] ELSE IF k <= at THEN s[k - 1] ELSE s[k]]

-----------------------------------------------------------------------------
Init ==
  /\ \E order \in [1 .. Cardinality(Moves) -> Moves], ranks \in TBRanks :
       /\ \A i, j \in DOMAIN order : i # j => order[i] # order[j]
       /\ rootMoves = [i \in DOMAIN order |-> NewMove(order[i], ranks[i])]
  /\ rootDepth = 0
  /\ pvIdx = 1 /\ pvFirst = 1 /\ pvLast = 0
  /\ alpha = -Infinite /\ beta = Infinite /\ delta = 0
  /\ low = -Infinite /\ bestValue = -Infinite /\ todo = {}
  /\ lastBest = None
  /\ stopFlag = FALSE
  /\ pc = "iterate"

(* Any thread, the UI thread's stop, a limit reached or the time used up.   *)
RaiseStop ==
  /\ pc # "done"
  /\ ~stopFlag
  /\ stopFlag' = TRUE
  /\ UNCHANGED <<rootMoves, rootDepth, lines, window, low, bestValue, todo, lastBest, pc>>

(* The last iteration's scores are saved before any line is searched.       *)
WithPrevious(rm, i) ==
  [rm EXCEPT !.previousScore = rm.score, !.previousPV = rm.pv,
             !.previousScoreExact = i <= MultiPV]

StartIteration ==
  /\ pc = "iterate"
  /\ ~stopFlag
  /\ rootDepth < MaxDepth
  /\ rootDepth' = rootDepth + 1
  /\ rootMoves' = [i \in DOMAIN rootMoves |-> WithPrevious(rootMoves[i], i)]
  /\ pvIdx' = 1 /\ pvFirst' = 1 /\ pvLast' = 0
  /\ pc' = "line"
  /\ UNCHANGED <<window, low, bestValue, todo, lastBest, stopFlag>>

Finish ==
  /\ pc = "iterate"
  /\ stopFlag \/ rootDepth = MaxDepth
  /\ pc' = "done"
  /\ UNCHANGED <<rootMoves, rootDepth, lines, window, low, bestValue, todo, lastBest, stopFlag>>

(* Mutant: the ranks are not looked at.                                     *)
RankEndNone(first) == Len(rootMoves)

(* The last place, from first on, that holds a move of the same rank.       *)
RankEnd(first) ==
  CHOOSE k \in first .. Len(rootMoves) :
    /\ \A i \in first .. k : rootMoves[i].tbRank = rootMoves[first].tbRank
    /\ k < Len(rootMoves) => rootMoves[k + 1].tbRank # rootMoves[first].tbRank

(* search<Root> begins: it searches the moves from pvIdx to pvLast.         *)
BeginSearch ==
  /\ todo' = {rootMoves'[i].move : i \in pvIdx .. pvLast'}
  /\ low' = alpha'
  /\ bestValue' = -Infinite
  /\ pc' = "search"

(* A move no search has reached has no average score, and the square of     *)
(* VALUE_INFINITE for a mean makes its window the widest.                   *)
StartLine ==
  /\ pc = "line"
  /\ IF pvIdx = pvLast + 1
     THEN pvFirst' = pvIdx /\ pvLast' = RankEnd(pvIdx)
     ELSE UNCHANGED <<pvFirst, pvLast>>
  /\ delta' \in Deltas
  /\ IF rootMoves[pvIdx].averageScore = -Infinite
     THEN alpha' = -Infinite /\ beta' = Infinite
     ELSE /\ alpha' = Larger(rootMoves[pvIdx].averageScore - delta', -Infinite)
          /\ beta'  = Smaller(rootMoves[pvIdx].averageScore + delta', Infinite)
  /\ UNCHANGED <<rootMoves, rootDepth, pvIdx, lastBest, stopFlag>>
  /\ BeginSearch

(* The flags of a move whose search returned v.                             *)
Rescored(rm, v) ==
  [rm EXCEPT !.score = v,
             !.uciScore = IF v >= beta THEN beta ELSE IF v <= low THEN low ELSE v,
             !.inexactLower = v >= beta,
             !.inexactUpper = v < beta /\ v <= low,
             !.pv = [of |-> v, inside |-> low < v /\ v < beta, complete |-> FALSE]]

(* The first move searched and a new best one are scored. Any other drops   *)
(* to the lowest score; the line it keeps no longer accounts for a score,   *)
(* which is what pv stands for here.                                        *)
AfterMove(rm, v, first) ==
  IF first \/ v > low THEN Rescored(rm, v)
  ELSE [rm EXCEPT !.score = -Infinite, !.pv = Bare]

(* A value at or above beta is brought nearer to it, unless it is decisive. *)
Returned(best) ==
  IF best >= beta /\ ~IsDecisive(best) /\ ~IsDecisive(low) THEN beta .. best ELSE {best}

(* The moving average of a move's values. The weight of the new one depends *)
(* on the nodes spent. The unsigned division of the code rounds down.       *)
Averages(rm, v) ==
  IF rm.averageScore = -Infinite THEN {v}
  ELSE {(v * w + rm.averageScore * (Scale - w)) \div Scale : w \in Weights}

(* One root move's search comes back with v, no stop having been seen. The  *)
(* table's move, the head of the line, is searched first.                   *)
SearchMove(m, v) ==
  LET first == Cardinality(todo) = pvLast - pvIdx + 1
      best  == Larger(bestValue, v)
      left  == IF v > low /\ v >= beta THEN {} ELSE todo \ {m}
  IN  /\ pc = "search"
      /\ ~stopFlag
      /\ m \in todo
      /\ first => m = rootMoves[pvIdx].move
      /\ \E average \in Averages(rootMoves[IndexOf(m)], v) :
           rootMoves' = [rootMoves EXCEPT ![IndexOf(m)] =
                           [AfterMove(@, v, first) EXCEPT !.averageScore = average]]
      /\ todo' = left
      /\ low' = IF v > low /\ v < beta THEN v ELSE low
      /\ IF left = {} THEN bestValue' \in Returned(best) /\ pc' = "sort"
                      ELSE bestValue' = best /\ pc' = pc
      /\ UNCHANGED <<rootDepth, lines, window, lastBest, stopFlag>>

(* ProbCut, or the table where ProbCut would look, says the node is far     *)
(* above beta: search<Root> returns before any move of the list is scored.  *)
ProbCut(v) ==
  /\ pc = "search"
  /\ Cardinality(todo) = pvLast - pvIdx + 1
  /\ beta <= v /\ ~IsDecisive(beta) /\ ~IsDecisive(v)
  /\ bestValue' \in beta .. v
  /\ pc' = "sort"
  /\ UNCHANGED <<rootMoves, rootDepth, lines, window, low, todo, lastBest, stopFlag>>

(* A child search came back and the stop flag is up: its value is dropped,  *)
(* nothing is updated, and search<Root> returns VALUE_ZERO.                 *)
AbandonSearch ==
  /\ pc = "search"
  /\ stopFlag
  /\ bestValue' = 0
  /\ pc' = "sort"
  /\ UNCHANGED <<rootMoves, rootDepth, lines, window, low, todo, lastBest, stopFlag>>

(* Mutant: the lower end is not held at -VALUE_INFINITE.                    *)
WidenUnclamped ==
  /\ delta' = delta + (WidenNum * delta) \div WidenDen
  /\ IF bestValue <= alpha
     THEN beta' = alpha /\ alpha' = bestValue - delta
     ELSE beta' = Smaller(bestValue + delta, Infinite) /\ alpha' = Larger(beta - delta, alpha)

(* A window that failed low moves down and one that failed high moves up.   *)
Widen ==
  /\ delta' = delta + (WidenNum * delta) \div WidenDen
  /\ IF bestValue <= alpha
     THEN beta' = alpha /\ alpha' = Larger(bestValue - delta, -Infinite)
     ELSE beta' = Smaller(bestValue + delta, Infinite) /\ alpha' = Larger(beta - delta, alpha)

(* Between lines the window and search<Root>'s own values are not read      *)
(* again: they are put back to where they began.                            *)
EndSearch ==
  /\ alpha' = -Infinite /\ beta' = Infinite /\ delta' = 0
  /\ low' = -Infinite /\ bestValue' = -Infinite /\ todo' = {}
  /\ pc' = "guard"

(* The best move of the line goes to its front, and the window is judged.   *)
JudgeWindow ==
  LET sorted == Sorted(rootMoves, pvIdx, pvLast)
      failed == bestValue <= alpha \/ bestValue >= beta
  IN  /\ pc = "sort"
      /\ UNCHANGED <<rootDepth, lines, lastBest, stopFlag>>
      /\ IF stopFlag
         THEN rootMoves' = sorted /\ EndSearch
         ELSE IF failed
         THEN rootMoves' = sorted /\ Widen /\ UNCHANGED pvLast /\ BeginSearch
         ELSE rootMoves' = [sorted EXCEPT ![pvIdx].pv.complete = TRUE] /\ EndSearch

(* Does the head of an aborted line need holding back?                      *)
OvertakesLoss(rm, before) == IsLoss(before.score) /\ Precedes(rm, before)

(* Its previous score is safe if it was exact and does not beat the line    *)
(* before it.                                                               *)
PreviousIsSafe(rm, before) ==
  /\ rm.previousScore # -Infinite
  /\ rm.previousScoreExact
  /\ rm.previousScore <= before.score

(* Mutant: the previous score, which breaks ties, is kept.                  *)
ProtectedKeepingPrevious(rm, before) ==
  IF ~(OvertakesLoss(rm, before) \/ IsExactLoss(rm))
  THEN rm
  ELSE [rm EXCEPT !.score = before.score, !.uciScore = before.score, !.pv = Bare,
                  !.inexactUpper = TRUE, !.inexactLower = FALSE]

(* What the head of an aborted line may keep, below the line before it.     *)
Protected(rm, before) ==
  IF ~(OvertakesLoss(rm, before) \/ IsExactLoss(rm))
  THEN rm
  ELSE IF PreviousIsSafe(rm, before)
  THEN [rm EXCEPT !.score = rm.previousScore, !.uciScore = rm.previousScore,
                  !.previousScore = -Infinite, !.pv = rm.previousPV,
                  !.inexactLower = FALSE, !.inexactUpper = FALSE]
  ELSE IF IsLoss(before.score)
  THEN [rm EXCEPT !.score = before.score, !.uciScore = before.score,
                  !.previousScore = -Infinite, !.pv = Bare,
                  !.inexactUpper = TRUE, !.inexactLower = FALSE]
  ELSE [rm EXCEPT !.inexactUpper = FALSE, !.inexactLower = TRUE]

(* A line after the first, when the stop flag is up: its head is held below *)
(* a proven loss before it, and the losses behind it are marked as bounds.  *)
GuardLine ==
  /\ pc = "guard"
  /\ rootMoves' =
       IF stopFlag /\ pvIdx > 1
       THEN [i \in DOMAIN rootMoves |->
               IF i = pvIdx THEN Protected(rootMoves[i], rootMoves[i - 1])
               ELSE IF i \in pvIdx + 1 .. MultiPV /\ IsExactLoss(rootMoves[i])
               THEN [rootMoves[i] EXCEPT !.inexactLower = TRUE]
               ELSE rootMoves[i]]
       ELSE rootMoves
  /\ pc' = "deliver"
  /\ UNCHANGED <<rootDepth, lines, window, low, bestValue, todo, lastBest, stopFlag>>

(* The lines searched so far are put in order; a stop ends the iteration.   *)
DeliverLine ==
  /\ pc = "deliver"
  /\ rootMoves' = Sorted(rootMoves, pvFirst, pvIdx)
  /\ IF stopFlag THEN UNCHANGED pvIdx /\ pc' = "close"
     ELSE /\ pvIdx' = pvIdx + 1
          /\ pc' = IF pvIdx = MultiPV THEN "close" ELSE "line"
  /\ UNCHANGED <<rootDepth, pvFirst, pvLast, window, low, bestValue, todo, lastBest, stopFlag>>

(* Mutant: a mate lost sight of is forgotten.                               *)
ForgottenMateNever == FALSE

(* The front no longer shows the mate an earlier iteration had found.       *)
ForgottenMate ==
  /\ lastBest.score # -Infinite
  /\ IsMateOrMated(lastBest.score)
  /\ Abs(rootMoves[1].score) < Abs(lastBest.score) \/ IsInexact(rootMoves[1])

(* Mutant: the line is left where it was.                                   *)
RolledBackScoreOnly(best) ==
  [ToFront(rootMoves, best.move) EXCEPT
     ![1].score = best.score, ![1].uciScore = best.score,
     ![1].inexactLower = FALSE, ![1].inexactUpper = FALSE]

RolledBack(best) ==
  [ToFront(rootMoves, best.move) EXCEPT
     ![1].score = best.score, ![1].uciScore = best.score, ![1].pv = best.pv,
     ![1].inexactLower = FALSE, ![1].inexactUpper = FALSE]

(* Mutant: a loss is a loss.                                                *)
AbortedLossTrusted(up) == FALSE

(* An exact loss at the front, from a first line that a stop cut short.     *)
AbortedLoss(up) == up /\ pvIdx = 1 /\ IsExactLoss(rootMoves[1])

(* The end of an iteration: its best move is recorded if the stop flag is   *)
(* down, and the flag is read again, perhaps raised by now, to decide about *)
(* rolling back to the last one recorded. limits.mate and the time used up  *)
(* may raise the flag at the very end.                                      *)
CloseIteration ==
  LET forgotten == ForgottenMate
      best == IF stopFlag \/ forgotten THEN lastBest ELSE LastBest(rootMoves[1])
  IN  /\ pc = "close"
      /\ lastBest' = best
      /\ \E up \in {stopFlag, TRUE} :
           /\ rootMoves' =
                IF ~(AbortedLoss(up) \/ (rootMoves[1].score # -Infinite /\ forgotten))
                THEN rootMoves
                ELSE IF best # None THEN RolledBack(best)
                ELSE IF AbortedLoss(up) THEN [rootMoves EXCEPT ![1].inexactLower = TRUE]
                ELSE rootMoves
           /\ stopFlag' = up
      /\ pc' = "iterate"
      /\ UNCHANGED <<rootDepth, lines, window, low, bestValue, todo>>

Stopped == pc = "done" /\ UNCHANGED vars

Next ==
  \/ RaiseStop
  \/ StartIteration \/ Finish
  \/ StartLine
  \/ \E m \in Moves, v \in Values : SearchMove(m, v)
  \/ \E v \in Values : ProbCut(v)
  \/ AbandonSearch
  \/ JudgeWindow
  \/ GuardLine
  \/ DeliverLine
  \/ CloseIteration
  \/ Stopped

Spec == Init /\ [][Next]_vars

-----------------------------------------------------------------------------
(* The list is a permutation of the root moves, a score is never a lower    *)
(* and an upper bound at once (output_pv asserts it) and the rest has its   *)
(* type.                                                                    *)
TypeOK ==
  /\ rootMoves \in [1 .. Cardinality(Moves) -> RootMove]
  /\ \A m \in Moves : \E i \in DOMAIN rootMoves : rootMoves[i].move = m
  /\ \A i \in DOMAIN rootMoves : ~(rootMoves[i].inexactLower /\ rootMoves[i].inexactUpper)
  /\ rootDepth \in 0 .. MaxDepth
  /\ pvIdx \in 1 .. MultiPV + 1
  /\ pvFirst \in 1 .. Cardinality(Moves) /\ pvLast \in 0 .. Cardinality(Moves)
  /\ {alpha, beta, low, bestValue} \subseteq -Infinite .. Infinite /\ delta \in Nat
  /\ todo \subseteq Moves
  /\ lastBest = None \/ lastBest \in [move : Moves, score : Values, pv : Line]
  /\ stopFlag \in BOOLEAN
  /\ pc \in {"iterate", "line", "search", "sort", "guard", "deliver", "close", "done"}

(* search<Root> is always called on a window that is open and within the    *)
(* infinite values, however the windows before it failed: what its opening  *)
(* assertion and the one at the foot of the aspiration loop require.        *)
WindowIsOpen ==
  pc = "search" => -Infinite <= alpha /\ alpha <= low /\ low < beta /\ beta <= Infinite

(* Between iterations and at the end, the lines that are shown as exact     *)
(* come with the principal variation of the very search that gave them      *)
(* their score, and are shown with that score: aborts, roll-backs and the   *)
(* protection of earlier lines move score and variation together.           *)
ExactScoreHasItsLine ==
  pc \in {"iterate", "done"} =>
    \A i \in 1 .. MultiPV :
      IsExact(rootMoves[i]) => /\ rootMoves[i].pv.of = rootMoves[i].score
                               /\ rootMoves[i].uciScore = rootMoves[i].score

(* A loss that is shown as exact was once the outcome of a line that ran to *)
(* its end, never of one a stop cut short: this goes for every line up to   *)
(* the one at which the last iteration ended.                               *)
ExactLossesAreProven ==
  pc = "done" =>
    \A i \in 1 .. MultiPV :
      i <= pvIdx /\ IsExactLoss(rootMoves[i]) => rootMoves[i].pv.complete

(* A line that the last iteration left without a score is shown with the    *)
(* score of the iteration before, and there always is one.                  *)
EveryLineHasAScore ==
  pc = "done" /\ rootDepth > 1 =>
    \A i \in 1 .. MultiPV :
      rootMoves[i].score = -Infinite => rootMoves[i].previousScore # -Infinite

(* What output_pv says of such a line: the score of the iteration before is *)
(* exact, even though the flags may say otherwise.                          *)
PreviousScoresAreExact ==
  pc = "done" /\ rootDepth > 1 =>
    \A i \in 1 .. MultiPV :
      rootMoves[i].score = -Infinite => rootMoves[i].previousPV.inside

(* Once an iteration has ended with a mate at the front, every later one    *)
(* ends, completed or stopped, with an exact mate there at least as short,  *)
(* and it is this one that is remembered.                                   *)
MateIsNotForgotten ==
  [][pc = "close" /\ pc' = "iterate" /\ lastBest # None /\ IsMateOrMated(lastBest.score) =>
       /\ IsExact(rootMoves'[1])
       /\ Abs(rootMoves'[1].score) >= Abs(lastBest.score)
       /\ Abs(lastBest'.score) >= Abs(lastBest.score)]_vars

(* An exact score is of the line shown with it, an exact loss was searched  *)
(* to its end, and there is a score to show for every line (search.cpp      *)
(* iterative_deepening, search).                                            *)
ExactMeansProven == ExactScoreHasItsLine /\ ExactLossesAreProven /\ EveryLineHasAScore

(* The moves of a better tablebase rank stay ahead of the others, whatever  *)
(* is sorted, protected or brought to the front.                            *)
RanksStayInOrder ==
  \A i, j \in DOMAIN rootMoves :
    i < j => rootMoves[i].tbRank >= rootMoves[j].tbRank

(* The list of root moves stays whole and in order of rank, and no window   *)
(* is empty (search.cpp iterative_deepening).                               *)
LinesAreInOrder == TypeOK /\ WindowIsOpen /\ RanksStayInOrder

(* A search abandoned in a later line leaves the lines before it alone when *)
(* the last of them is a loss: its head never overtakes a proven loss.      *)
AbandonedLineOvertakesNoLoss ==
  [][pc = "deliver" /\ stopFlag /\ pvIdx > 1 /\ IsLoss(rootMoves[pvIdx - 1].score)
       /\ ~rootMoves[pvIdx].pv.complete =>
     \A i \in 1 .. pvIdx - 1 : rootMoves'[i] = rootMoves[i]]_vars
=============================================================================
