-------------------------------- MODULE Vote --------------------------------
(* The vote that ends a search (Search::best_worker, search.cpp): the       *)
(* workers, parked, each show the move at the front of their list, its      *)
(* score, whether the score is exact and how long the variation is. Every   *)
(* worker votes for its own move: one pass over them finds the lowest       *)
(* score, a second counts the votes, a third keeps a best worker.           *)
EXTENDS Integers

CONSTANTS
  Moves,        \* the root moves
  Scores,       \* the scores a front move may end with, unless it has none
  Lengths,      \* the lengths of principal variations
  PoolSizes,    \* how many workers a pool may have
  Infinite,     \* VALUE_INFINITE: minus it is the score of an unsearched move
  TBWin,        \* VALUE_TB_WIN_IN_MAX_PLY
  Share         \* 14: what even the worst worker's vote weighs

ASSUME ScoresAssumption ==
  /\ TBWin \in Nat /\ Infinite \in Nat /\ 0 < TBWin /\ TBWin < Infinite
  /\ \A v \in Scores : v \in Int /\ -Infinite < v /\ v < Infinite
ASSUME LengthsAssumption == Lengths \subseteq Nat \ {0} /\ 1 \in Lengths
ASSUME PoolAssumption == PoolSizes \subseteq Nat \ {0}
ASSUME ShareAssumption == Share \in Nat

VARIABLES
  fronts,   \* what each worker's rootMoves[0] shows
  lowest,   \* minScore
  votes,    \* of each move
  best,     \* bestWorker
  next,     \* the worker looked at
  pass      \* and what for

voteVars == <<fronts, lowest, votes, best, next, pass>>

Unsearched == [move : Moves, score : {-Infinite}, exact : {TRUE}, length : {1}]
Searched   == [move : Moves, score : Scores, exact : BOOLEAN, length : Lengths]
FrontMove      == Unsearched \cup Searched

Abs(v)    == IF v < 0 THEN -v ELSE v
Losing(v) == v <= -TBWin

(* Decisive counts only when it is exact: the scores of an aborted first    *)
(* iteration may be bounds.                                                 *)
Decisive(f) == f.score # -Infinite /\ Abs(f.score) >= TBWin /\ f.exact

(* One side wins, and no two workers have proved otherwise (the assertion   *)
(* of best_worker).                                                         *)
WorkersAgree(s) ==
  \A i, j \in DOMAIN s : Decisive(s[i]) /\ Decisive(s[j]) => (Losing(s[i].score) <=> Losing(s[j].score))

VoteInit ==
  /\ \E n \in PoolSizes : fronts \in {s \in [1 .. n -> FrontMove] : WorkersAgree(s)}
  /\ lowest = Infinite
  /\ votes = [m \in Moves |-> 0]
  /\ best = 1
  /\ next = 1 /\ pass = "lowest"

(* The pass goes on to the next worker, and after the last to the next pass.*)
GoOn(following) ==
  IF next + 1 \in DOMAIN fronts THEN next' = next + 1 /\ UNCHANGED pass
                                ELSE next' = 1 /\ pass' = following

FindLowest ==
  /\ pass = "lowest"
  /\ lowest' = IF fronts[next].score < lowest THEN fronts[next].score ELSE lowest
  /\ GoOn("count")
  /\ UNCHANGED <<fronts, votes, best>>

(* Mutant: one worker, one vote.                                            *)
WeightOfAHead(f) == 1

Weight(f) == f.score - lowest + Share

CountVotes ==
  /\ pass = "count"
  /\ votes' = [votes EXCEPT ![fronts[next].move] = @ + Weight(fronts[next])]
  /\ GoOn("pick")
  /\ UNCHANGED <<fronts, lowest, best>>

(* The more votes, then the longer variation.                               *)
MoreVotes(f, g) ==
  \/ votes[f.move] > votes[g.move]
  \/ votes[f.move] = votes[g.move] /\ f.length > g.length

(* Mutant: any decisive score takes over, the longer mate too.              *)
TakesAnyDecisive(f, g) ==
  \/ Decisive(f)
  \/ ~Decisive(g) /\ ~Losing(f.score) /\ MoreVotes(f, g)

(* Does front move f take over from g? A decided game is for the shortest   *)
(* mate or conversion, which has the largest score.                         *)
Takes(f, g) ==
  IF Decisive(g) THEN Decisive(f) /\ Abs(f.score) > Abs(g.score)
                 ELSE Decisive(f) \/ (~Losing(f.score) /\ MoreVotes(f, g))

Consider ==
  /\ pass = "pick"
  /\ best' = IF Takes(fronts[next], fronts[best]) THEN next ELSE best
  /\ GoOn("done")
  /\ UNCHANGED <<fronts, lowest, votes>>

Done == pass = "done" /\ UNCHANGED voteVars

VoteNext == FindLowest \/ CountVotes \/ Consider \/ Done
VoteSpec == VoteInit /\ [][VoteNext]_voteVars

-----------------------------------------------------------------------------
VoteTypeOK ==
  \E n \in PoolSizes :
    /\ fronts \in [1 .. n -> FrontMove]
    /\ lowest \in Int
    /\ votes \in [Moves -> Int]
    /\ best \in 1 .. n /\ next \in 1 .. n
    /\ pass \in {"lowest", "count", "pick", "done"}

(* Is g at least as good a choice as f? Of decided games the shorter one;   *)
(* a decided game before an open one; of open ones that are not losing, the *)
(* one with more votes and then the longer variation.                       *)
NoWorse(g, f) ==
  IF Decisive(f) THEN Decisive(g) /\ Abs(g.score) >= Abs(f.score)
  ELSE Decisive(g) \/ Losing(f.score) \/ ~MoreVotes(f, g)

(* However the criteria mix, one pass finds a best worker of all those it   *)
(* has seen: none of them would have been the better choice.                *)
KeepsTheBest ==
  \A i \in DOMAIN fronts :
    pass = "done" \/ (pass = "pick" /\ i < next) => NoWorse(fronts[best], fronts[i])

(* A move that no worker has searched is not the pool's choice while a      *)
(* worker has one that is not lost: the lowest score there is makes every   *)
(* searched move's votes heavier, and the first worker, with whom the pass  *)
(* begins, gives way. At Share votes a worker, it takes 37 of them to       *)
(* outvote the worst score that is not a table loss, and more than a        *)
(* thousand to outvote an evaluation.                                       *)
UnsearchedHasNoSay ==
  LET searched == {i \in DOMAIN fronts : fronts[i].score # -Infinite}
  IN  pass = "done" /\ (\E i \in searched : ~Losing(fronts[i].score)) =>
        \E i \in searched : fronts[i].move = fronts[best].move
=============================================================================
