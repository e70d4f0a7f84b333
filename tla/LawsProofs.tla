----------------------------- MODULE LawsProofs -----------------------------
(* TLAPS proofs about the engine's choice of the best worker, the arithmetic*)
(* of its transposition table and of the search's statistics, and the       *)
(* budgets of its time manager, and the order its move picker deals in.     *)
EXTENDS TTLaws, Vote, TimeManager, Histories, MovePicker, FiniteSetTheorems, WellFoundedInduction, TLAPS

(***************************************************************************)
(* The vote: the pass that picks finds a best worker, for pools of any     *)
(* size and any scores. The inductive invariant is KeepsTheBest with the   *)
(* types: what the pass has seen so far is no better than what it holds.   *)
(***************************************************************************)
VoteInv == VoteTypeOK /\ KeepsTheBest

(* What a worker shows, and what it brings its move.                        *)
LEMMA FrontType ==
  ASSUME NEW f \in FrontMove
  PROVE  f.move \in Moves /\ f.score \in Int /\ f.exact \in BOOLEAN /\ f.length \in Nat
<1>1. CASE f \in Unsearched
  <2>1. f.move \in Moves /\ f.score = -Infinite /\ f.exact = TRUE /\ f.length = 1
    BY <1>1 DEF Unsearched
  <2>2. -Infinite \in Int
    BY ScoresAssumption
  <2>3. f.exact \in BOOLEAN
    BY <2>1, Zenon
  <2> QED BY <2>1, <2>2, <2>3
<1>2. CASE f \in Searched
  <2>1. f.move \in Moves /\ f.score \in Scores /\ f.exact \in BOOLEAN /\ f.length \in Lengths
    BY <1>2 DEF Searched
  <2> QED BY <2>1, ScoresAssumption, LengthsAssumption
<1> QED BY <1>1, <1>2 DEF FrontMove

(* Every front move is as good a choice as itself.                          *)
LEMMA NoWorseReflexive ==
  ASSUME votes \in [Moves -> Int], NEW f \in FrontMove
  PROVE  NoWorse(f, f)
<1>1. f.length \in Nat /\ f.score \in Int /\ votes[f.move] \in Int
  BY FrontType
<1>2. Abs(f.score) \in Int
  BY <1>1 DEF Abs
<1>3. ~MoreVotes(f, f)
  BY <1>1 DEF MoreVotes
<1> QED BY <1>2, <1>3 DEF NoWorse

(* A front move that takes over is no worse than all the old one was no     *)
(* worse than, though the order mixes three criteria and losses are only    *)
(* judged on one side of it.                                                *)
LEMMA TakingOverKeeps ==
  ASSUME votes \in [Moves -> Int], NEW f \in FrontMove, NEW g \in FrontMove, NEW h \in FrontMove,
         NoWorse(g, h), Takes(f, g)
  PROVE  NoWorse(f, h)
<1>1. /\ f.length \in Nat /\ g.length \in Nat /\ h.length \in Nat
      /\ votes[f.move] \in Int /\ votes[g.move] \in Int /\ votes[h.move] \in Int
  BY FrontType
<1>2. Abs(f.score) \in Int /\ Abs(g.score) \in Int /\ Abs(h.score) \in Int
  BY FrontType DEF Abs
<1>3. CASE Decisive(g)
  BY <1>2, <1>3 DEF NoWorse, Takes
<1>4. CASE ~Decisive(g) /\ Decisive(f)
  BY <1>4 DEF NoWorse
<1>5. CASE ~Decisive(g) /\ ~Decisive(f)
  <2>1. MoreVotes(f, g) /\ ~Decisive(h)
    BY <1>5 DEF NoWorse, Takes
  <2>2. Losing(h.score) \/ ~MoreVotes(h, g)
    BY <1>5, <2>1 DEF NoWorse
  <2>3. ~MoreVotes(h, g) => ~MoreVotes(h, f)
    BY <1>1, <2>1 DEF MoreVotes
  <2> QED BY <2>1, <2>2, <2>3 DEF NoWorse
<1> QED BY <1>3, <1>4, <1>5

(* One that does not take over is not the better choice.                    *)
LEMMA KeptIsNoWorse ==
  ASSUME NEW f \in FrontMove, NEW g \in FrontMove, ~Takes(f, g)
  PROVE  NoWorse(g, f)
<1>1. Abs(f.score) \in Int /\ Abs(g.score) \in Int
  BY FrontType DEF Abs
<1> QED BY <1>1 DEF NoWorse, Takes

-----------------------------------------------------------------------------
LEMMA VoteInitInv == VoteInit => VoteInv
<1> SUFFICES ASSUME VoteInit PROVE VoteInv
  OBVIOUS
<1>1. PICK n \in PoolSizes : fronts \in [1 .. n -> FrontMove]
  BY DEF VoteInit
<1>2. n \in Nat \ {0}
  BY PoolAssumption
<1>3. best \in 1 .. n /\ next \in 1 .. n
  BY <1>2 DEF VoteInit
<1>4. lowest \in Int /\ votes \in [Moves -> Int]
  BY ScoresAssumption DEF VoteInit
<1>5. VoteTypeOK
  BY <1>1, <1>3, <1>4 DEF VoteTypeOK, VoteInit
<1> QED BY <1>5 DEF VoteInv, KeepsTheBest, VoteInit

(* A pass over the workers looks at one after the other.                    *)
LEMMA GoingOn ==
  ASSUME NEW n \in Nat \ {0}, DOMAIN fronts = 1 .. n, next \in 1 .. n,
         NEW following, GoOn(following)
  PROVE  /\ next' \in 1 .. n
         /\ \/ pass' = pass /\ next' = next + 1
            \/ pass' = following /\ next = n /\ next' = 1
BY DEF GoOn

LEMMA VoteStepInv == VoteInv /\ [VoteNext]_voteVars => VoteInv'
<1> SUFFICES ASSUME VoteInv, [VoteNext]_voteVars PROVE VoteInv'
  OBVIOUS
<1>1. PICK n \in PoolSizes :
        /\ fronts \in [1 .. n -> FrontMove] /\ lowest \in Int /\ votes \in [Moves -> Int]
        /\ best \in 1 .. n /\ next \in 1 .. n
        /\ pass \in {"lowest", "count", "pick", "done"}
  BY DEF VoteInv, VoteTypeOK
<1>2. n \in Nat \ {0} /\ DOMAIN fronts = 1 .. n
  BY <1>1, PoolAssumption
<1>3. fronts[next] \in FrontMove /\ fronts[best] \in FrontMove
  BY <1>1
<1>4. KeepsTheBest
  BY DEF VoteInv
<1>5. CASE FindLowest
  <2>1. fronts' = fronts /\ votes' = votes /\ best' = best
    BY <1>5 DEF FindLowest
  <2>2. lowest' \in Int
    BY <1>1, <1>3, <1>5, FrontType DEF FindLowest
  <2>3. next' \in 1 .. n /\ (pass' = "lowest" \/ (pass' = "count" /\ next' = 1))
    BY <1>1, <1>2, <1>5, GoingOn DEF FindLowest
  <2> QED BY <1>1, <2>1, <2>2, <2>3 DEF VoteInv, VoteTypeOK, KeepsTheBest
<1>6. CASE CountVotes
  <2>1. fronts' = fronts /\ lowest' = lowest /\ best' = best
    BY <1>6 DEF CountVotes
  <2>2. votes' \in [Moves -> Int]
    <3>1. Weight(fronts[next]) \in Int
      BY <1>1, <1>3, FrontType, ShareAssumption DEF Weight
    <3>2. votes[fronts[next].move] + Weight(fronts[next]) \in Int
      BY <1>1, <1>3, <3>1, FrontType
    <3> QED BY <1>1, <1>6, <3>2 DEF CountVotes
  <2>3. next' \in 1 .. n /\ (pass' = "count" \/ (pass' = "pick" /\ next' = 1))
    BY <1>1, <1>2, <1>6, GoingOn DEF CountVotes
  <2>4. VoteTypeOK'
    BY <1>1, <2>1, <2>2, <2>3 DEF VoteTypeOK
  <2>5. KeepsTheBest'
    BY <1>2, <2>1, <2>3 DEF KeepsTheBest
  <2> QED BY <2>4, <2>5 DEF VoteInv
<1>7. CASE Consider
  <2>1. fronts' = fronts /\ lowest' = lowest /\ votes' = votes /\ pass = "pick"
    BY <1>7 DEF Consider
  <2>2. best' = IF Takes(fronts[next], fronts[best]) THEN next ELSE best
    BY <1>7 DEF Consider
  <2>3. /\ next' \in 1 .. n
        /\ \/ pass' = "pick" /\ next' = next + 1
           \/ pass' = "done" /\ next = n
    BY <1>1, <1>2, <1>7, GoingOn DEF Consider
  <2>4. VoteTypeOK'
    BY <1>1, <2>1, <2>2, <2>3 DEF VoteTypeOK
  <2>5. ASSUME NEW i \in 1 .. n, i <= next
        PROVE  NoWorse(fronts[best'], fronts[i])
    <3>1. fronts[i] \in FrontMove
      BY <1>1
    <3>2. CASE Takes(fronts[next], fronts[best]) /\ i = next
      BY <1>1, <1>3, <2>2, <3>2, NoWorseReflexive
    <3>3. CASE ~Takes(fronts[next], fronts[best]) /\ i = next
      BY <1>3, <2>2, <3>3, KeptIsNoWorse
    <3>4. CASE i # next
      <4>1. NoWorse(fronts[best], fronts[i])
        <5>1. i < next
          BY <1>1, <1>2, <2>5, <3>4
        <5> QED BY <5>1, <1>2, <1>4, <2>1 DEF KeepsTheBest
      <4> QED BY <1>1, <1>3, <2>2, <3>1, <4>1, TakingOverKeeps
    <3> QED BY <3>2, <3>3, <3>4
  <2>6. KeepsTheBest'
    <3> SUFFICES ASSUME NEW i \in 1 .. n, pass' = "done" \/ (pass' = "pick" /\ i < next')
                 PROVE  NoWorse(fronts[best], fronts[i])'
      BY <1>2, <2>1 DEF KeepsTheBest
    <3>1. i <= next
      BY <1>1, <1>2, <2>3
    <3>2. NoWorse(fronts[best'], fronts[i])
      BY <3>1, <2>5
    <3> QED BY <3>2, <2>1 DEF NoWorse, MoreVotes
  <2> QED BY <2>4, <2>6 DEF VoteInv
<1>8. CASE Done \/ UNCHANGED voteVars
  <2>1. UNCHANGED voteVars
    BY <1>8 DEF Done
  <2> QED BY <1>1, <1>4, <2>1 DEF voteVars, VoteInv, VoteTypeOK, KeepsTheBest, NoWorse, MoreVotes
<1> QED BY <1>5, <1>6, <1>7, <1>8 DEF VoteNext

LEMMA VoteInductive == VoteSpec => []VoteInv
BY VoteInitInv, VoteStepInv, PTL DEF VoteSpec

(* However many workers vote and whatever they show, none of them would     *)
(* have been the better choice than the one best_worker returns.            *)
THEOREM VoteKeepsTheBest == VoteSpec => []KeepsTheBest
<1>1. VoteInv => KeepsTheBest
  BY DEF VoteInv
<1> QED BY <1>1, VoteInductive, PTL

(***************************************************************************)
(* And a move that no worker has searched has no say, in a pool whose      *)
(* unsearched votes together weigh less than the worst score that is not   *)
(* lost.  The invariant follows the three passes: the lowest score is a    *)
(* bound, then each counted worker has brought its move its weight and a   *)
(* move nobody searched has Share for a worker at most, then the worker    *)
(* held shows a searched move once one that is not lost was seen.          *)
(***************************************************************************)
IsSearched(i) == fronts[i].score # -Infinite
SomeSearched(m) == \E i \in DOMAIN fronts : IsSearched(i) /\ fronts[i].move = m

LowestIsBound ==
  /\ -Infinite <= lowest
  /\ \A i \in DOMAIN fronts : pass # "lowest" \/ i < next => lowest <= fronts[i].score

Tallied(i) == pass \in {"pick", "done"} \/ (pass = "count" /\ i < next)
VotesAreBrought ==
  /\ \A m \in Moves : votes[m] >= 0
  /\ \A i \in DOMAIN fronts : Tallied(i) => votes[fronts[i].move] >= Weight(fronts[i])

NobodysVotes ==
  \A m \in Moves : ~SomeSearched(m) =>
    /\ pass = "lowest" => votes[m] <= 0
    /\ pass = "count" => votes[m] <= Share * (next - 1)
    /\ \A n \in PoolSizes : pass \in {"pick", "done"} /\ DOMAIN fronts = 1 .. n => votes[m] <= Share * n

Seen(i) == pass = "done" \/ (pass = "pick" /\ i < next)
HoldsASearchedMove ==
  \/ SomeSearched(fronts[best].move)
  \/ \A i \in DOMAIN fronts : Seen(i) => ~IsSearched(i) \/ Losing(fronts[i].score)

SayInv == LowestIsBound /\ VotesAreBrought /\ NobodysVotes /\ HoldsASearchedMove

(* No score is below that of a move nobody searched.                        *)
LEMMA ScoresAreAbove ==
  ASSUME NEW f \in FrontMove
  PROVE  f.score \in Int /\ -Infinite <= f.score
<1>1. CASE f \in Unsearched
  <2>1. f.score = -Infinite
    BY <1>1 DEF Unsearched
  <2> QED BY <2>1, ScoresAssumption
<1>2. CASE f \in Searched
  <2>1. f.score \in Scores
    BY <1>2 DEF Searched
  <2> QED BY <2>1, ScoresAssumption
<1> QED BY <1>1, <1>2 DEF FrontMove

(* One more worker, one more share.                                         *)
LEMMA OneMoreShare ==
  ASSUME NEW n \in Int
  PROVE  Share * (n - 1) + Share = Share * n /\ Share * (n - 1) \in Int /\ Share * n \in Int
BY ShareAssumption

LEMMA SayInit == VoteInit => SayInv
<1> SUFFICES ASSUME VoteInit PROVE SayInv
  OBVIOUS
<1>1. PICK n \in PoolSizes : fronts \in [1 .. n -> FrontMove]
  BY DEF VoteInit
<1>2. /\ n \in Nat \ {0} /\ lowest = Infinite /\ votes = [m \in Moves |-> 0]
      /\ best = 1 /\ next = 1 /\ pass = "lowest" /\ DOMAIN fronts = 1 .. n
  BY <1>1, PoolAssumption DEF VoteInit
<1>3. LowestIsBound
  BY <1>2, ScoresAssumption DEF LowestIsBound
<1>4. VotesAreBrought
  BY <1>2 DEF VotesAreBrought, Tallied
<1>5. NobodysVotes
  BY <1>2 DEF NobodysVotes
<1>6. HoldsASearchedMove
  BY <1>2 DEF HoldsASearchedMove, Seen
<1> QED BY <1>3, <1>4, <1>5, <1>6 DEF SayInv

LEMMA SayStep ==
  ASSUME \A n \in PoolSizes : (n - 1) * Share <= Infinite - TBWin
  PROVE  VoteTypeOK /\ SayInv /\ [VoteNext]_voteVars => SayInv'
<1> SUFFICES ASSUME VoteTypeOK, SayInv, [VoteNext]_voteVars PROVE SayInv'
  OBVIOUS
<1>1. PICK n \in PoolSizes :
        /\ fronts \in [1 .. n -> FrontMove] /\ lowest \in Int /\ votes \in [Moves -> Int]
        /\ best \in 1 .. n /\ next \in 1 .. n
        /\ pass \in {"lowest", "count", "pick", "done"}
  BY DEF VoteTypeOK
<1>2. n \in Nat \ {0} /\ DOMAIN fronts = 1 .. n
  BY <1>1, PoolAssumption
<1>n. \A k \in PoolSizes : DOMAIN fronts = 1 .. k => k = n
  BY <1>2, PoolAssumption
<1>3. \A i \in 1 .. n : /\ fronts[i] \in FrontMove /\ fronts[i].move \in Moves /\ fronts[i].length \in Nat
                        /\ fronts[i].score \in Int /\ -Infinite <= fronts[i].score
  BY <1>1, FrontType, ScoresAreAbove
<1>4. LowestIsBound /\ VotesAreBrought /\ NobodysVotes /\ HoldsASearchedMove
  BY DEF SayInv
<1>5. CASE FindLowest
  <2>1. fronts' = fronts /\ votes' = votes /\ best' = best /\ pass = "lowest"
    BY <1>5 DEF FindLowest
  <2>2. lowest' = IF fronts[next].score < lowest THEN fronts[next].score ELSE lowest
    BY <1>5 DEF FindLowest
  <2>3. /\ next' \in 1 .. n
        /\ \/ pass' = "lowest" /\ next' = next + 1
           \/ pass' = "count" /\ next = n /\ next' = 1
    BY <1>1, <1>2, <1>5, <2>1, GoingOn DEF FindLowest
  <2>4. LowestIsBound'
    <3>1. -Infinite <= lowest'
      BY <1>1, <1>3, <1>4, <2>2 DEF LowestIsBound
    <3>2. ASSUME NEW i \in 1 .. n, i <= next PROVE lowest' <= fronts[i].score
      <4>1. i = next \/ i < next
        BY <1>1, <3>2
      <4>2. i < next => lowest <= fronts[i].score
        BY <1>2, <1>4 DEF LowestIsBound
      <4> QED BY <1>1, <1>3, <2>2, <4>1, <4>2
    <3> QED BY <1>1, <1>2, <2>1, <2>3, <3>1, <3>2 DEF LowestIsBound
  <2>5. VotesAreBrought'
    <3>1. \A i \in 1 .. n : ~Tallied(i)'
      BY <2>3 DEF Tallied
    <3> QED BY <1>2, <1>4, <2>1, <3>1 DEF VotesAreBrought
  <2>6. NobodysVotes'
    <3> SUFFICES ASSUME NEW m \in Moves, ~SomeSearched(m)
                 PROVE  /\ votes[m] <= 0
                        /\ pass' = "lowest" \/ votes[m] <= Share * (next' - 1)
      BY <2>1, <2>3 DEF NobodysVotes, SomeSearched, IsSearched
    <3>1. votes[m] <= 0
      BY <1>4, <2>1 DEF NobodysVotes
    <3>2. pass' # "lowest" => Share * (next' - 1) = 0
      <4>1. pass' # "lowest" => next' - 1 = 0
        BY <2>3
      <4>2. Share * 0 = 0
        BY ShareAssumption
      <4> QED BY <4>1, <4>2
    <3> QED BY <1>1, <3>1, <3>2
  <2>7. HoldsASearchedMove'
    BY <2>1, <2>3 DEF HoldsASearchedMove, Seen
  <2> QED BY <2>4, <2>5, <2>6, <2>7 DEF SayInv
<1>6. CASE CountVotes
  <2>1. fronts' = fronts /\ lowest' = lowest /\ best' = best /\ pass = "count"
    BY <1>6 DEF CountVotes
  <2>2. votes' = [votes EXCEPT ![fronts[next].move] = votes[fronts[next].move] + Weight(fronts[next])]
    BY <1>6 DEF CountVotes
  <2>3. /\ next' \in 1 .. n
        /\ \/ pass' = "count" /\ next' = next + 1
           \/ pass' = "pick" /\ next = n /\ next' = 1
    BY <1>1, <1>2, <1>6, <2>1, GoingOn DEF CountVotes
  <2>4. LowestIsBound'
    BY <1>4, <2>1, <2>3 DEF LowestIsBound
  <2> DEFINE w == Weight(fronts[next])
  <2>5. w \in Int /\ w >= Share /\ Share \in Nat
    BY <1>1, <1>2, <1>3, <1>4, <2>1, ShareAssumption DEF Weight, LowestIsBound
  <2>6. \A m \in Moves : /\ votes'[m] \in Int /\ votes'[m] >= votes[m]
                         /\ m = fronts[next].move => votes'[m] = votes[m] + w
                         /\ m # fronts[next].move => votes'[m] = votes[m]
    <3> HIDE DEF w
    <3> QED BY <1>1, <1>3, <2>2, <2>5 DEF w
  <2>7. VotesAreBrought'
    <3>1. \A m \in Moves : votes[m] \in Int /\ votes[m] >= 0
      BY <1>1, <1>4 DEF VotesAreBrought
    <3>2. ASSUME NEW i \in 1 .. n, i <= next PROVE votes'[fronts[i].move] >= Weight(fronts[i])
      <4>1. CASE i = next
        <5> HIDE DEF w
        <5>1. votes'[fronts[next].move] >= w
          BY <1>1, <1>3, <2>5, <2>6, <3>1
        <5> QED BY <4>1, <5>1 DEF w
      <4>2. CASE i < next
        <5>1. votes[fronts[i].move] >= Weight(fronts[i])
          BY <1>2, <1>4, <2>1, <4>2 DEF VotesAreBrought, Tallied
        <5>2. Weight(fronts[i]) \in Int
          BY <1>1, <1>3, ShareAssumption DEF Weight
        <5>3. votes'[fronts[i].move] >= votes[fronts[i].move] /\ votes'[fronts[i].move] \in Int /\ votes[fronts[i].move] \in Int
          BY <1>3, <2>6, <3>1
        <5> HIDE DEF w
        <5> QED BY <5>1, <5>2, <5>3
      <4> QED BY <1>1, <3>2, <4>1, <4>2
    <3>3. ASSUME NEW m \in Moves PROVE votes'[m] >= 0
      <4> HIDE DEF w
      <4> QED BY <2>6, <3>1
    <3> QED BY <1>1, <1>2, <2>1, <2>3, <3>2, <3>3 DEF VotesAreBrought, Tallied, Weight
  <2>8. NobodysVotes'
    <3> SUFFICES ASSUME NEW m \in Moves, ~SomeSearched(m)
                 PROVE  votes'[m] <= Share * next
      <4>1. pass' = "count" => next' - 1 = next
        BY <1>1, <2>3
      <4>2. pass' = "pick" => next = n
        BY <2>3
      <4> QED BY <1>n, <2>1, <2>3, <4>1, <4>2 DEF NobodysVotes, SomeSearched, IsSearched
    <3>1. votes[m] <= Share * (next - 1)
      BY <1>4, <2>1 DEF NobodysVotes
    <3>2. Share * (next - 1) + Share = Share * next /\ Share * (next - 1) \in Int /\ Share * next \in Int
      BY <1>1, OneMoreShare
    <3>3. CASE m = fronts[next].move
      <4>1. fronts[next].score = -Infinite
        BY <1>1, <1>2, <3>3 DEF SomeSearched, IsSearched
      <4>2. w = Share
        BY <1>1, <1>2, <1>3, <1>4, <2>1, <4>1, ShareAssumption, ScoresAssumption DEF Weight, LowestIsBound
      <4> HIDE DEF w
      <4> QED BY <1>1, <2>6, <3>1, <3>2, <3>3, <4>2, ShareAssumption
    <3>4. CASE m # fronts[next].move
      <4> HIDE DEF w
      <4>1. votes'[m] = votes[m] /\ votes[m] \in Int
        BY <1>1, <2>6, <3>4
      <4>2. Share * (next - 1) <= Share * next
        BY <3>2, ShareAssumption
      <4> QED BY <3>1, <3>2, <4>1, <4>2
    <3> QED BY <3>3, <3>4
  <2>9. HoldsASearchedMove'
    <3>1. next' = 1 \/ pass' = "count"
      BY <2>3
    <3>2. \A i \in 1 .. n : ~Seen(i)'
      BY <2>3 DEF Seen
    <3> QED BY <1>2, <2>1, <3>2 DEF HoldsASearchedMove
  <2> QED BY <2>4, <2>7, <2>8, <2>9 DEF SayInv
<1>7. CASE Consider
  <2>1. fronts' = fronts /\ lowest' = lowest /\ votes' = votes /\ pass = "pick"
    BY <1>7 DEF Consider
  <2>2. best' = IF Takes(fronts[next], fronts[best]) THEN next ELSE best
    BY <1>7 DEF Consider
  <2>3. /\ next' \in 1 .. n
        /\ \/ pass' = "pick" /\ next' = next + 1
           \/ pass' = "done" /\ next = n
    BY <1>1, <1>2, <1>7, <2>1, GoingOn DEF Consider
  <2>4. LowestIsBound' /\ VotesAreBrought'
    BY <1>4, <2>1, <2>3 DEF LowestIsBound, VotesAreBrought, Tallied, Weight
  <2>5. NobodysVotes'
    BY <1>4, <2>1, <2>3 DEF NobodysVotes, SomeSearched, IsSearched
  <2>6. ASSUME SomeSearched(fronts[best].move) PROVE HoldsASearchedMove'
    <3>1. ~Takes(fronts[next], fronts[best]) \/ SomeSearched(fronts[next].move)
      <4> SUFFICES ASSUME ~IsSearched(next), Takes(fronts[next], fronts[best]) PROVE FALSE
        BY <1>1, <1>2 DEF SomeSearched
      <4>1. fronts[next].score = -Infinite
        BY DEF IsSearched
      <4>2. Losing(fronts[next].score) /\ ~Decisive(fronts[next])
        BY <4>1, ScoresAssumption DEF Losing, Decisive
      <4> QED BY <4>2 DEF Takes
    <3> QED BY <2>1, <2>2, <2>6, <3>1 DEF HoldsASearchedMove, SomeSearched, IsSearched
  <2>7. ASSUME ~SomeSearched(fronts[best].move) PROVE HoldsASearchedMove'
    <3>1. \A i \in 1 .. n : i < next => ~IsSearched(i) \/ Losing(fronts[i].score)
      BY <1>2, <1>4, <2>1, <2>7 DEF HoldsASearchedMove, Seen
    <3>2. CASE ~IsSearched(next) \/ Losing(fronts[next].score)
      <4>1. \A i \in 1 .. n : Seen(i)' => i < next \/ i = next
        BY <1>1, <1>2, <2>3 DEF Seen
      <4> QED BY <1>2, <2>1, <3>1, <3>2, <4>1 DEF HoldsASearchedMove, IsSearched
    <3>3. CASE IsSearched(next) /\ ~Losing(fronts[next].score)
      <4>1. fronts[best].score = -Infinite
        BY <1>1, <1>2, <2>7 DEF SomeSearched, IsSearched
      <4>2. lowest = -Infinite
        BY <1>1, <1>2, <1>4, <2>1, <4>1, ScoresAssumption DEF LowestIsBound
      <4>3. votes[fronts[best].move] <= Share * n
        BY <1>1, <1>2, <1>3, <1>4, <2>1, <2>7 DEF NobodysVotes
      <4>4. votes[fronts[next].move] >= Weight(fronts[next])
        BY <1>1, <1>2, <1>4, <2>1 DEF VotesAreBrought, Tallied
      <4>5. Weight(fronts[next]) > Infinite - TBWin + Share
        BY <1>1, <1>3, <3>3, <4>2, ScoresAssumption, ShareAssumption DEF Weight, Losing
      <4>6. Share * n <= Infinite - TBWin + Share
        <5>1. (n - 1) * Share <= Infinite - TBWin
          BY <1>1
        <5>2. Share * (n - 1) + Share = Share * n /\ Share * (n - 1) \in Int /\ Share * n \in Int
          BY <1>2, OneMoreShare
        <5>3. (n - 1) * Share = Share * (n - 1)
          BY <1>2, ShareAssumption
        <5> QED BY <5>1, <5>2, <5>3, ScoresAssumption, ShareAssumption
      <4>7. votes[fronts[next].move] > votes[fronts[best].move]
        <5>1. votes[fronts[next].move] \in Int /\ votes[fronts[best].move] \in Int /\ Weight(fronts[next]) \in Int /\ Share * n \in Int
          BY <1>1, <1>2, <1>3, ShareAssumption, OneMoreShare DEF Weight
        <5> QED BY <4>3, <4>4, <4>5, <4>6, <5>1, ScoresAssumption, ShareAssumption
      <4>8. ~Decisive(fronts[best])
        BY <4>1 DEF Decisive
      <4>9. best' = next
        BY <2>2, <3>3, <4>7, <4>8 DEF Takes, MoreVotes
      <4> QED BY <1>1, <1>2, <2>1, <3>3, <4>9 DEF HoldsASearchedMove, SomeSearched, IsSearched
    <3> QED BY <3>2, <3>3
  <2> QED BY <2>4, <2>5, <2>6, <2>7 DEF SayInv
<1>8. CASE Done \/ UNCHANGED voteVars
  <2>1. UNCHANGED voteVars
    BY <1>8 DEF Done
  <2> QED BY <1>4, <2>1 DEF voteVars, SayInv, LowestIsBound, VotesAreBrought, NobodysVotes,
                            HoldsASearchedMove, SomeSearched, IsSearched, Tallied, Seen, Weight
<1> QED BY <1>5, <1>6, <1>7, <1>8 DEF VoteNext

(* In any pool whose workers cannot together bring a move that none of them *)
(* has searched the weight of the worst score that is not lost, best_worker *)
(* returns a searched move as soon as one worker has one that is not lost.  *)
THEOREM UnsearchedNeverChosen ==
  ASSUME \A n \in PoolSizes : (n - 1) * Share <= Infinite - TBWin
  PROVE  VoteSpec => []UnsearchedHasNoSay
<1>1. VoteInv /\ SayInv => UnsearchedHasNoSay
  <2> SUFFICES ASSUME VoteInv, SayInv, pass = "done",
                      NEW i \in DOMAIN fronts, IsSearched(i), ~Losing(fronts[i].score)
               PROVE  \E k \in DOMAIN fronts : IsSearched(k) /\ fronts[k].move = fronts[best].move
    BY DEF UnsearchedHasNoSay, IsSearched
  <2> QED BY DEF SayInv, HoldsASearchedMove, Seen, SomeSearched
<1>2. VoteInv /\ SayInv /\ [VoteNext]_voteVars => SayInv'
  BY SayStep DEF VoteInv
<1> QED BY <1>1, <1>2, SayInit, VoteInductive, PTL DEF VoteSpec

(***************************************************************************)
(* The laws of TTLaws.tla for every half-word, number of generations and   *)
(* maximal ply the assumptions of TTMath.tla allow, and for every call.    *)
(* The arithmetic is done once per law in a lemma; it rests on division    *)
(* with remainder (DivMod, DivUnique), stated first.                       *)
(***************************************************************************)
USE HalfAssumption, GenerationsAssumption, MaxPlyAssumption

LEMMA DivMod ==
  ASSUME NEW x \in Int, NEW d \in Nat, d > 0
  PROVE  x \div d \in Int /\ x % d \in 0 .. d - 1 /\ x = d * (x \div d) + (x % d)
  BY SMT

LEMMA DivUnique ==
  ASSUME NEW x \in Int, NEW d \in Nat, d > 0, NEW q \in Int, NEW r \in 0 .. d-1, x = d * q + r
  PROVE  x \div d = q /\ x % d = r
  BY SMT

LEMMA ModShift ==
  ASSUME NEW x \in Int, NEW d \in Nat, d > 0, NEW q \in Int
  PROVE  (x + d * q) % d = x % d
<1> DEFINE y == x + d * q
           h == x \div d
           r == x % d
<1>1. h \in Int /\ r \in 0 .. d - 1 /\ x = d * h + r
  BY DivMod
<1> HIDE DEF h, r
<1>2. y \in Int /\ h + q \in Int /\ y = d * (h + q) + r
  BY <1>1
<1> HIDE DEF y
<1>3. y % d = r
  BY <1>1, <1>2, DivUnique
<1> QED BY <1>3 DEF y, r

(* The thresholds between values, as numbers. *)
LEMMA Thresholds ==
  /\ ValueMate = 32000
  /\ MaxPly \in Nat /\ 100 < MaxPly /\ MaxPly < 700
  /\ MateInMaxPly = 32000 - MaxPly
  /\ ValueTB = 31999 - MaxPly
  /\ TBWinInMaxPly = 31999 - 2 * MaxPly
  BY DEF ValueMate, MateInMaxPly, ValueTB, TBWinInMaxPly

LEMMA SearchValueRange ==
  ASSUME NEW ply \in 0 .. MaxPly, NEW v \in SearchValues(ply)
  PROVE  /\ v \in Int
         /\ IsWin(v) => v <= 32000 - ply
         /\ IsLoss(v) => v >= ply - 32000
<1>1. v \in Int
  <2>1. v \in Values
    BY DEF SearchValues
  <2>2. ValueInfinite \in Int /\ ValueNone \in Int
    BY DEF ValueInfinite, ValueNone
  <2> QED BY <2>1, <2>2 DEF Values
<1>2. \/ ~IsWin(v) /\ ~IsLoss(v)
      \/ IsWin(v) /\ (v <= ValueTB - ply \/ v <= ValueMate - ply)
      \/ IsLoss(v) /\ (v >= ply - ValueTB \/ v >= ply - ValueMate)
  BY DEF SearchValues, IsDecisive
<1>3. ~(IsWin(v) /\ IsLoss(v))
  BY <1>1, Thresholds DEF IsWin, IsLoss
<1> QED BY <1>1, <1>2, <1>3, Thresholds

LEMMA Stored ==
  ASSUME NEW ply \in 0 .. MaxPly, NEW v \in SearchValues(ply)
  PROVE  /\ ValueToTT(v, ply) \in Int
         /\ -32000 <= ValueToTT(v, ply) /\ ValueToTT(v, ply) <= 32000
         /\ IsWin(v) => ValueToTT(v, ply) = v + ply /\ IsWin(v + ply)
         /\ IsLoss(v) => ValueToTT(v, ply) = v - ply /\ IsLoss(v - ply) /\ ~IsWin(v - ply)
         /\ ~IsWin(v) /\ ~IsLoss(v) => ValueToTT(v, ply) = v
<1>1. v \in Int /\ (IsWin(v) => v <= 32000 - ply) /\ (IsLoss(v) => v >= ply - 32000)
  BY SearchValueRange
<1>3. CASE IsWin(v)
  BY <1>1, <1>3, Thresholds DEF ValueToTT, IsWin, IsLoss
<1>4. CASE IsLoss(v)
  BY <1>1, <1>4, Thresholds DEF ValueToTT, IsWin, IsLoss
<1>5. CASE ~IsWin(v) /\ ~IsLoss(v)
  BY <1>1, <1>5, Thresholds DEF ValueToTT, IsWin, IsLoss
<1> QED BY <1>3, <1>4, <1>5

LEMMA RoundTrip ==
  ASSUME NEW ply \in 0 .. MaxPly, NEW v \in SearchValues(ply), NEW r50 \in 0 .. 100,
         NEW back, back = ValueFromTT(ValueToTT(v, ply), ply, r50)
  PROVE  \/ back = v
         \/ IsWin(v)  /\ back = TBWinInMaxPly - 1
         \/ IsLoss(v) /\ back = 1 - TBWinInMaxPly
<1>1. v \in Int
  BY SearchValueRange
<1> DEFINE w == ValueToTT(v, ply)
<1>2. w \in Int /\ -32000 <= w /\ w <= 32000
  BY Stored
<1>6. back = ValueFromTT(w, ply, r50)
  OBVIOUS
<1>7. IsValid(w)
  <2> HIDE DEF w
  <2> QED BY <1>2 DEF IsValid, ValueNone
<1>3. CASE IsWin(v)
  <2>1. w = v + ply /\ IsWin(w)
    BY <1>3, Stored
  <2>2. back = w - ply \/ back = TBWinInMaxPly - 1
    <3> HIDE DEF w
    <3> QED BY <1>2, <1>6, <1>7, <2>1 DEF ValueFromTT
  <2> QED BY <1>1, <1>3, <2>1, <2>2
<1>4. CASE IsLoss(v)
  <2>1. w = v - ply /\ IsLoss(w) /\ ~IsWin(w)
    BY <1>4, Stored
  <2>2. back = w + ply \/ back = 1 - TBWinInMaxPly
    <3> HIDE DEF w
    <3> QED BY <1>2, <1>6, <1>7, <2>1 DEF ValueFromTT
  <2> QED BY <1>1, <1>4, <2>1, <2>2
<1>5. CASE ~IsWin(v) /\ ~IsLoss(v)
  <2>1. w = v
    BY <1>5, Stored
  <2> HIDE DEF w
  <2> QED BY <1>2, <1>5, <1>6, <1>7, <2>1 DEF ValueFromTT
<1> QED BY <1>3, <1>4, <1>5

-----------------------------------------------------------------------------
LEMMA HighHalf ==
  ASSUME NEW a \in Key
  PROVE  /\ a % Half \in 0 .. Half - 1
         /\ a \div Half \in 0 .. Half - 1
         /\ a = Half * (a \div Half) + (a % Half)
<1>1. a \in Int /\ 0 <= a /\ a < Half * Half
  BY DEF Key
<1>2. a % Half \in 0 .. Half - 1 /\ a \div Half \in Int /\ a = Half * (a \div Half) + (a % Half)
  BY <1>1, DivMod
<1>3. ASSUME NEW q \in Int, NEW r \in 0 .. Half - 1, Half * q + r < Half * Half, 0 <= Half * q + r
      PROVE  q \in 0 .. Half - 1
  <2>1. ~(q >= Half)
    BY <1>3
  <2>2. ~(q <= -1)
    BY <1>3
  <2> QED BY <2>1, <2>2
<1> QED BY <1>1, <1>2, <1>3

(* Below a full word nothing is cut off: a product of two halves plus a     *)
(* half is less than the word.                                              *)
LEMMA HalfProduct ==
  ASSUME NEW x \in 0 .. Half - 1, NEW y \in 0 .. Half - 1, NEW z \in 0 .. Half - 1
  PROVE  x * y + z \in 0 .. Half * Half - 1
<1>1. 0 <= x * y
  OBVIOUS
<1>2. x * y <= (Half - 1) * (Half - 1)
  <2>1. x * y <= x * (Half - 1)
    OBVIOUS
  <2>2. x * (Half - 1) <= (Half - 1) * (Half - 1)
    OBVIOUS
  <2> QED BY <2>1, <2>2
<1>3. (Half - 1) * (Half - 1) = Half * Half - 2 * Half + 1
  OBVIOUS
<1> QED BY <1>1, <1>2, <1>3

LEMMA MulHi ==
  ASSUME NEW a \in Key, NEW b \in Key
  PROVE  MulHi64(a, b) = FirstEntry(a, b)
<1> DEFINE aL == a % Half
           aH == a \div Half
           bL == b % Half
           bH == b \div Half
           c1 == (aL * bL) \div Half
           r1 == (aL * bL) % Half
           c2 == aH * bL + c1
           q2 == c2 \div Half
           r2 == c2 % Half
           c3 == aL * bH + r2
           q3 == c3 \div Half
           r3 == c3 % Half
<1>1. /\ aL \in 0 .. Half - 1 /\ aH \in 0 .. Half - 1 /\ a = Half * aH + aL
      /\ bL \in 0 .. Half - 1 /\ bH \in 0 .. Half - 1 /\ b = Half * bH + bL
  BY HighHalf
<1> HIDE DEF aL, aH, bL, bH
<1>2. aL * bL \in Key
  BY <1>1, HalfProduct DEF Key
<1>3. c1 \in 0 .. Half - 1 /\ r1 \in 0 .. Half - 1 /\ aL * bL = Half * c1 + r1
  BY <1>2, HighHalf
<1> HIDE DEF c1, r1
<1>4. c2 \in Key
  BY <1>1, <1>3, HalfProduct DEF Key
<1>5. q2 \in 0 .. Half - 1 /\ r2 \in 0 .. Half - 1 /\ c2 = Half * q2 + r2
  BY <1>4, HighHalf
<1> HIDE DEF c2, q2, r2
<1>6. c3 \in Key
  BY <1>1, <1>5, HalfProduct DEF Key
<1>7. q3 \in 0 .. Half - 1 /\ r3 \in 0 .. Half - 1 /\ c3 = Half * q3 + r3
  BY <1>6, HighHalf
<1> HIDE DEF c3, q3, r3
<1> DEFINE W == Half * Half
           h == aH * bH + q2 + q3
           l == Half * r3 + r1
<1>8. W \in Nat /\ W > 0
  BY SMT
<1>9. l \in 0 .. W - 1
  <2>1. Half * r3 <= Half * (Half - 1)
    BY <1>7
  <2>2. Half * (Half - 1) = W - Half
    OBVIOUS
  <2>3. 0 <= Half * r3
    BY <1>7
  <2> HIDE DEF W
  <2> QED BY <1>3, <1>7, <1>8, <2>1, <2>2, <2>3
<1>10. a * b = W * h + l
  <2>1. a * b = W * (aH * bH) + Half * (aH * bL) + Half * (aL * bH) + aL * bL
    BY <1>1
  <2>2. aH * bL = Half * q2 + r2 - c1
    BY <1>1, <1>3, <1>5 DEF c2
  <2>3. aL * bH = Half * q3 + r3 - r2
    BY <1>1, <1>5, <1>7 DEF c3
  <2>4. aL * bL = Half * c1 + r1
    BY <1>3
  <2>5. Half * (aH * bL) = W * q2 + Half * r2 - Half * c1
    BY <2>2, <1>1, <1>3, <1>5
  <2>6. Half * (aL * bH) = W * q3 + Half * r3 - Half * r2
    BY <2>3, <1>1, <1>5, <1>7
  <2>7. W * h = W * (aH * bH) + W * q2 + W * q3
    BY <1>1, <1>5, <1>7
  <2> DEFINE p == W * (aH * bH)
             x == Half * (aH * bL)
             y == Half * (aL * bH)
             z == aL * bL
             u == W * q2
             v == W * q3
             s == Half * r2
             t == Half * c1
             k == Half * r3
             w == W * h
  <2>8. /\ p \in Int /\ x \in Int /\ y \in Int /\ z \in Int /\ u \in Int /\ v \in Int
        /\ s \in Int /\ t \in Int /\ k \in Int /\ w \in Int
    BY <1>1, <1>3, <1>5, <1>7
  <2>9. /\ a * b = p + x + y + z
        /\ x = u + s - t /\ y = v + k - s /\ z = t + r1
        /\ w = p + u + v /\ l = k + r1
    BY <2>1, <2>4, <2>5, <2>6, <2>7
  <2> HIDE DEF p, x, y, z, u, v, s, t, k, w, l, W, h
  <2>10. a * b = w + l
    BY <1>3, <2>8, <2>9
  <2> QED BY <2>10 DEF w
<1>11. h \in Int /\ a * b \in Int
  BY <1>1, <1>5, <1>7 DEF Key
<1>12. FirstEntry(a, b) = h
  <2> HIDE DEF W, h, l
  <2>1. (a * b) \div W = h
    BY <1>8, <1>9, <1>10, <1>11, DivUnique
  <2> QED BY <2>1 DEF FirstEntry, W
<1>13. h \in Key
  <2>1. 0 <= h
    BY <1>1, <1>5, <1>7
  <2>2. h < W
    <3>1. a * b <= (W - 1) * (W - 1)
      <4>1. a * b <= a * (W - 1)
        BY DEF Key
      <4>2. a * (W - 1) <= (W - 1) * (W - 1)
        BY DEF Key
      <4>3. a \in Int /\ b \in Int
        BY DEF Key
      <4> QED BY <4>1, <4>2, <4>3, <1>8
    <3> HIDE DEF W, h, l
    <3>2. ~(h >= W)
      <4>1. ASSUME h >= W  PROVE FALSE
        <5>1. W * h >= W * W
          BY <4>1, <1>8, <1>11
        <5>2. (W - 1) * (W - 1) = W * W - 2 * W + 1
          BY <1>8
        <5> QED BY <5>1, <5>2, <3>1, <1>8, <1>9, <1>10, <1>11
      <4> QED BY <4>1
    <3> QED BY <3>2, <1>8, <1>11
  <2> QED BY <1>11, <2>1, <2>2 DEF Key
<1>14. MulHi64(a, b) = h
  <2>1. /\ (aH * bL + c1) % W = c2
        /\ (aL * bH + r2) % W = c3
        /\ h % W = h
    <3>1. \A n \in Key : n % W = n
      BY <1>8 DEF Key
    <3> QED BY <1>4, <1>6, <1>13, <3>1 DEF c2, c3
  <2>2. MulHi64(a, b) =
          (aH * bH + (((aH * bL + c1) % W) \div Half)
           + (((aL * bH + (((aH * bL + c1) % W) % Half)) % W) \div Half)) % W
    BY DEF MulHi64, aL, aH, bL, bH, c1
  <2> HIDE DEF W
  <2> QED BY <2>1, <2>2 DEF q2, q3, r2
<1> QED BY <1>12, <1>14

LEMMA InTable ==
  ASSUME NEW a \in Key, NEW n \in Nat, n > 0
  PROVE  FirstEntry(a, n) \in 0 .. n - 1
<1> DEFINE W == Half * Half
           q == (a * n) \div W
           r == (a * n) % W
<1>1. W \in Nat /\ W > 0 /\ a \in 0 .. W - 1 /\ a * n \in Int /\ 0 <= a * n
  BY DEF Key
<1>2. q \in Int /\ r \in 0 .. W - 1 /\ a * n = W * q + r
  <2> HIDE DEF W
  <2> QED BY <1>1, DivMod
<1> HIDE DEF W, q, r
<1>3. a * n <= W * n - 1
  BY <1>1
<1>4. ~(q >= n)
  <2>1. ASSUME q >= n PROVE FALSE
    <3>1. W * q >= W * n
      BY <2>1, <1>1, <1>2
    <3> QED BY <3>1, <1>1, <1>2, <1>3
  <2> QED BY <2>1
<1>5. ~(q <= -1)
  <2>1. ASSUME q <= -1 PROVE FALSE
    <3>1. W * q <= W * (-1)
      BY <2>1, <1>1, <1>2
    <3> QED BY <3>1, <1>1, <1>2
  <2> QED BY <2>1
<1> QED BY <1>2, <1>4, <1>5 DEF FirstEntry, q, W

-----------------------------------------------------------------------------
LEMMA StripeBounds ==
  ASSUME NEW C \in Nat, NEW T \in Nat \ {0}, NEW i \in 0 .. T - 1, NEW s, s = Stride(C, T)
  PROVE  /\ s \in Nat
         /\ s * T <= C
         /\ s * i \in Nat
         /\ i < T - 1 => Stripe(C, T, i) = s * i .. s * i + s - 1
         /\ i = T - 1 => Stripe(C, T, i) = s * i .. C - 1
<1>1. s \in Int /\ C % T \in 0 .. T - 1 /\ C = T * s + (C % T)
  BY DivMod DEF Stride
<1>2. ~(s <= -1)
  <2>1. ASSUME s <= -1 PROVE FALSE
    <3>1. T * s <= T * (-1)
      BY <2>1, <1>1
    <3> QED BY <3>1, <1>1
  <2> QED BY <2>1
<1>3. s \in Nat /\ T * s <= C
  BY <1>1, <1>2
<1>4. T * s = s * T
  BY <1>3
<1>5. s * i \in Nat
  BY <1>3
<1>6. CASE i < T - 1
  <2>1. StripeLen(C, T, i) = s
    BY <1>6 DEF StripeLen
  <2> QED BY <1>3, <1>4, <1>5, <1>6, <2>1 DEF Stripe, StripeStart
<1>7. CASE i = T - 1
  <2>1. StripeLen(C, T, i) = C - s * i
    BY <1>7 DEF StripeLen, StripeStart
  <2>2. s * i + (C - s * i) - 1 = C - 1
    BY <1>5
  <2>3. Stripe(C, T, i) = s * i .. s * i + (C - s * i) - 1
    BY <2>1 DEF Stripe, StripeStart
  <2> QED BY <1>3, <1>4, <1>5, <1>7, <2>2, <2>3
<1> QED BY <1>3, <1>4, <1>5, <1>6, <1>7

LEMMA StrideIsNat ==
  ASSUME NEW C \in Nat, NEW T \in Nat \ {0}
  PROVE  Stride(C, T) \in Nat /\ Stride(C, T) * T <= C
<1> 0 \in 0 .. T - 1
  OBVIOUS
<1> QED BY StripeBounds

LEMMA InnerStripe ==
  ASSUME NEW C \in Nat, NEW T \in Nat \ {0}, NEW i \in 0 .. T - 1, i < T - 1
  PROVE  Stripe(C, T, i) = Stride(C, T) * i .. Stride(C, T) * i + Stride(C, T) - 1
  BY StripeBounds

LEMMA LastStripe ==
  ASSUME NEW C \in Nat, NEW T \in Nat \ {0}
  PROVE  Stripe(C, T, T - 1) = Stride(C, T) * (T - 1) .. C - 1
<1> T - 1 \in 0 .. T - 1
  OBVIOUS
<1> QED BY StripeBounds

(* A stripe ends where the next begins.                                     *)
LEMMA StripesAscend ==
  ASSUME NEW C \in Nat, NEW T \in Nat \ {0}, NEW i \in 0 .. T - 1, NEW j \in 0 .. T - 1, i < j
  PROVE  Stripe(C, T, i) \cap Stripe(C, T, j) = {}
<1> DEFINE s == Stride(C, T)
<1>1. s \in Nat
  BY StrideIsNat
<1>2. Stripe(C, T, i) = s * i .. s * i + s - 1
  BY InnerStripe
<1>3. \/ Stripe(C, T, j) = s * j .. s * j + s - 1
      \/ Stripe(C, T, j) = s * j .. C - 1
  <2>1. CASE j < T - 1
    BY <2>1, InnerStripe
  <2>2. CASE j = T - 1
    BY <2>2, LastStripe
  <2> QED BY <2>1, <2>2
<1> HIDE DEF s
<1>4. s * j >= s * (i + 1)
  BY <1>1
<1>5. s * (i + 1) = s * i + s
  BY <1>1
<1>6. s * i \in Int /\ s * j \in Int
  BY <1>1
<1> QED BY <1>1, <1>2, <1>3, <1>4, <1>5, <1>6

LEMMA StripesCover ==
  ASSUME NEW C \in Nat, NEW T \in Nat \ {0}, NEW c \in 0 .. C - 1
  PROVE  \E i \in 0 .. T - 1 : c \in Stripe(C, T, i)
<1> DEFINE s == Stride(C, T)
<1>1. s \in Nat
  BY StrideIsNat
<1>2. CASE c >= s * (T - 1)
  <2>1. Stripe(C, T, T - 1) = s * (T - 1) .. C - 1
    BY LastStripe
  <2> HIDE DEF s
  <2>2. c \in Stripe(C, T, T - 1) /\ T - 1 \in 0 .. T - 1
    <3>1. s * (T - 1) \in Int
      BY <1>1
    <3> QED BY <1>2, <2>1, <3>1
  <2> QED BY <2>2
<1>3. CASE c < s * (T - 1)
  <2> HIDE DEF s
  <2>1. s > 0
    BY <1>1, <1>3
  <2> DEFINE i == c \div s
             r == c % s
  <2>2. i \in Int /\ r \in 0 .. s - 1 /\ c = s * i + r
    BY <1>1, <2>1, DivMod
  <2> HIDE DEF i, r
  <2>3. ~(i >= T - 1)
    <3>1. ASSUME i >= T - 1 PROVE FALSE
      <4>1. s * i >= s * (T - 1)
        BY <3>1, <1>1, <2>2
      <4> QED BY <4>1, <1>1, <1>3, <2>2
    <3> QED BY <3>1
  <2>4. ~(i <= -1)
    <3>1. ASSUME i <= -1 PROVE FALSE
      <4>1. s * i <= s * (-1)
        BY <3>1, <1>1, <2>2
      <4> QED BY <4>1, <1>1, <2>2
    <3> QED BY <3>1
  <2>5. i \in 0 .. T - 1 /\ i < T - 1
    BY <2>2, <2>3, <2>4
  <2>6. Stripe(C, T, i) = s * i .. s * i + s - 1
    BY <2>5, InnerStripe DEF s
  <2>7. s * i \in Int
    BY <1>1, <2>2
  <2>8. c \in Stripe(C, T, i)
    BY <1>1, <2>2, <2>6, <2>7
  <2> QED BY <2>5, <2>8
<1> QED BY <1>1, <1>2, <1>3

LEMMA StripesInside ==
  ASSUME NEW C \in Nat, NEW T \in Nat \ {0}, NEW i \in 0 .. T - 1
  PROVE  Stripe(C, T, i) \subseteq 0 .. C - 1
<1> DEFINE s == Stride(C, T)
<1>1. s \in Nat /\ s * T <= C /\ s * i \in Nat
  BY StrideIsNat
<1>2. CASE i = T - 1
  <2>1. Stripe(C, T, i) = s * i .. C - 1
    BY <1>2, LastStripe
  <2> HIDE DEF s
  <2> QED BY <1>1, <2>1
<1>3. CASE i < T - 1
  <2>1. Stripe(C, T, i) = s * i .. s * i + s - 1
    BY <1>3, InnerStripe
  <2> HIDE DEF s
  <2>2. s * i + s = s * (i + 1) /\ s * (i + 1) <= s * T
    BY <1>1, <1>3
  <2> QED BY <1>1, <2>1, <2>2
<1> QED BY <1>2, <1>3

-----------------------------------------------------------------------------
(* The bound and the PV bit are whole multiples of the generation's range.  *)
LEMMA Age ==
  ASSUME NEW gen \in 0 .. Generations - 1, NEW later \in 0 .. Generations - 1,
         NEW bound \in Bounds, NEW pv \in BOOLEAN
  PROVE  RelativeAge((gen + later) % Generations, PackGenBound(gen, bound, pv)) = later
<1> DEFINE G == Generations
           flag == IF pv THEN 1 ELSE 0
           n == bound + 4 * flag
           byte == PackGenBound(gen, bound, pv)
           x == gen + later
           q == x \div G
           r == x % G
<1>1. bound \in Int /\ flag \in Int /\ n \in Int
  BY DEF Bounds
<1>2. byte = gen + G * n
  <2>1. byte = gen + G * bound + 4 * G * flag
    BY DEF PackGenBound
  <2> HIDE DEF flag, byte
  <2>2. 4 * G * flag = G * (4 * flag)
    BY <1>1
  <2>3. G * n = G * bound + G * (4 * flag)
    BY <1>1
  <2> QED BY <1>1, <2>1, <2>2, <2>3
<1>3. x \in Int /\ q \in Int /\ r \in 0 .. G - 1 /\ x = G * q + r
  BY DivMod
<1> HIDE DEF n, byte, q, r, flag
<1>4. r - byte = later + G * ((-q) - n)
  <2>1. G * ((-q) - n) = (-(G * q)) - G * n
    BY <1>1, <1>3
  <2> QED BY <1>1, <1>2, <1>3, <2>1
<1>5. (later + G * ((-q) - n)) % G = later % G
  BY <1>1, <1>3, ModShift
<1>6. later % G = later
  OBVIOUS
<1> QED BY <1>4, <1>5, <1>6 DEF RelativeAge, r, byte

LEMMA Unpack ==
  ASSUME NEW gen \in 0 .. Generations - 1, NEW bound \in Bounds, NEW pv \in BOOLEAN
  PROVE  /\ BoundOf(PackGenBound(gen, bound, pv)) = bound
         /\ PvOf(PackGenBound(gen, bound, pv)) = pv
<1> DEFINE G == Generations
           flag == IF pv THEN 1 ELSE 0
           byte == PackGenBound(gen, bound, pv)
<1>1. bound \in 0 .. 3 /\ flag \in 0 .. 1 /\ (flag = 1 <=> pv = TRUE)
  BY DEF Bounds
<1>2. byte = gen + G * bound + 4 * G * flag
  BY DEF PackGenBound
<1> HIDE DEF flag, byte
<1>3. byte \in Int /\ byte = G * (bound + 4 * flag) + gen
  BY <1>1, <1>2
<1>4. byte \div G = bound + 4 * flag
  BY <1>1, <1>3, DivUnique
<1>5. (bound + 4 * flag) % 4 = bound
  BY <1>1
<1>6. gen + G * bound \in 0 .. 4 * G - 1
  <2>1. 0 <= G * bound /\ G * bound <= G * 3
    BY <1>1
  <2> QED BY <1>1, <2>1
<1>7. byte = (4 * G) * flag + (gen + G * bound)
  BY <1>1, <1>2
<1>8. byte \div (4 * G) = flag
  <2> DEFINE d == 4 * G
             g == gen + G * bound
  <2>1. d \in Nat /\ d > 0
    OBVIOUS
  <2> HIDE DEF d, g
  <2>2. byte = d * flag + g /\ g \in 0 .. d - 1
    BY <1>6, <1>7 DEF d, g
  <2>3. byte \div d = flag
    BY <1>1, <1>3, <2>1, <2>2, DivUnique
  <2> QED BY <2>3 DEF d
<1>9. flag % 2 = flag
  BY <1>1
<1>10. BoundOf(byte) = bound
  BY <1>4, <1>5 DEF BoundOf
<1>11. PvOf(byte) = pv
  BY <1>1, <1>8, <1>9 DEF PvOf
<1> QED BY <1>10, <1>11 DEF byte

-----------------------------------------------------------------------------
LEMMA Typing == Spec => []TypeOK
<1>1. Init => TypeOK
  BY DEF Init, TypeOK
<1>2. TypeOK /\ [Next]_call => TypeOK'
  BY DEF TypeOK, Next, Make, Return
<1> QED BY <1>1, <1>2, PTL DEF Spec

(* A call of one kind is well-formed.                                       *)
LEMMA CallKinds ==
  ASSUME TypeOK
  PROVE  /\ call.op = "hash" => call.key \in Key /\ call.count \in Key /\ call.count > 0
         /\ call.op = "clear" => call.clusters \in Nat /\ call.threads \in Nat \ {0}
         /\ call.op = "age" => /\ call.later \in 0 .. Generations - 1
                               /\ call.gen \in 0 .. Generations - 1
                               /\ call.bound \in Bounds /\ call.pv \in BOOLEAN
         /\ call.op = "value" => /\ call.ply \in 0 .. MaxPly /\ call.r50 \in 0 .. 100
                                 /\ call.value \in SearchValues(call.ply)
<1>1. CASE call = NoCall
  BY <1>1 DEF NoCall
<1>2. CASE call \in HashCalls
  <2>1. call.op = "hash" /\ call.key \in Keys /\ call.count \in Keys \ {0}
    BY <1>2 DEF HashCalls
  <2>2. call.key \in Key /\ call.count \in Key /\ call.count # 0
    BY <2>1, KeysAssumption
  <2>3. call.count > 0
    BY <2>2 DEF Key
  <2> QED BY <2>1, <2>2, <2>3
<1>3. CASE call \in ClearCalls
  BY <1>3, ClusterCountsAssumption, ThreadCountsAssumption DEF ClearCalls
<1>4. CASE call \in AgeCalls
  BY <1>4 DEF AgeCalls
<1>5. CASE call \in ValueCalls
  <2>1. PICK p \in Plies : call \in [op : {"value"}, value : StoredValues \cap SearchValues(p),
                                     ply : {p}, r50 : 0 .. 100]
    BY <1>5 DEF ValueCalls
  <2> QED BY <2>1, PliesAssumption
<1> QED BY <1>1, <1>2, <1>3, <1>4, <1>5 DEF TypeOK, Calls

(* Both builds of mul_hi64 name the same cluster, whatever the key and the  *)
(* table's size: the product of halves loses no carry.                      *)
THEOREM HalvesAlwaysAgree == Spec => []HalvesAgree
<1>1. TypeOK => HalvesAgree
  <2> SUFFICES ASSUME TypeOK, call.op = "hash"
               PROVE  MulHi64(call.key, call.count) = FirstEntry(call.key, call.count)
    BY DEF HalvesAgree
  <2>1. call.key \in Key /\ call.count \in Key
    BY CallKinds
  <2> QED BY <2>1, MulHi
<1> QED BY <1>1, Typing, PTL

(* No key names a cluster outside the table.                                *)
THEOREM EntryAlwaysInTable == Spec => []EntryInTable
<1>1. TypeOK => EntryInTable
  <2> SUFFICES ASSUME TypeOK, call.op = "hash"
               PROVE  FirstEntry(call.key, call.count) \in 0 .. call.count - 1
    BY DEF EntryInTable
  <2>1. call.key \in Key /\ call.count \in Nat /\ call.count > 0
    BY CallKinds DEF Key
  <2> QED BY <2>1, InTable
<1> QED BY <1>1, Typing, PTL

(* clear() zeroes every cluster exactly once, for every table and pool.     *)
THEOREM StripesAlwaysPartition == Spec => []StripesPartition
<1>1. TypeOK => StripesPartition
  <2> SUFFICES ASSUME TypeOK, call.op = "clear" PROVE StripesPartition
    BY DEF StripesPartition
  <2> DEFINE C == call.clusters
             T == call.threads
  <2>1. C \in Nat /\ T \in Nat \ {0}
    BY CallKinds
  <2> HIDE DEF C, T
  <2>2. \A i \in 0 .. T - 1 : Stripe(C, T, i) \subseteq 0 .. C - 1
    BY <2>1, StripesInside
  <2>3. \A c \in 0 .. C - 1 : \E i \in 0 .. T - 1 : c \in Stripe(C, T, i)
    BY <2>1, StripesCover
  <2>4. ASSUME NEW i \in 0 .. T - 1, NEW j \in 0 .. T - 1, i # j
        PROVE  Stripe(C, T, i) \cap Stripe(C, T, j) = {}
    <3>1. CASE i < j
      BY <2>1, <3>1, StripesAscend
    <3>2. CASE j < i
      <4>1. Stripe(C, T, j) \cap Stripe(C, T, i) = {}
        BY <2>1, <3>2, StripesAscend
      <4> QED BY <4>1
    <3>3. i < j \/ j < i
      BY <2>1, <2>4
    <3> QED BY <3>1, <3>2, <3>3
  <2> QED BY <2>2, <2>3, <2>4 DEF StripesPartition, C, T
<1> QED BY <1>1, Typing, PTL

(* The age of an entry is read off its byte as if bound and PV bit were not *)
(* there, and both can be read back.                                        *)
THEOREM AgeAlwaysIgnoresFlags == Spec => []AgeIgnoresFlags
<1>1. TypeOK => AgeIgnoresFlags
  <2> SUFFICES ASSUME TypeOK, call.op = "age" PROVE AgeIgnoresFlags
    BY DEF AgeIgnoresFlags
  <2> DEFINE byte == PackGenBound(call.gen, call.bound, call.pv)
  <2>1. /\ call.later \in 0 .. Generations - 1 /\ call.gen \in 0 .. Generations - 1
        /\ call.bound \in Bounds /\ call.pv \in BOOLEAN
    BY CallKinds
  <2>2. RelativeAge((call.gen + call.later) % Generations, byte) = call.later
    BY <2>1, Age
  <2>3. BoundOf(byte) = call.bound /\ PvOf(byte) = call.pv
    BY <2>1, Unpack
  <2> QED BY <2>2, <2>3 DEF AgeIgnoresFlags
<1> QED BY <1>1, Typing, PTL

(* No stored value leaves the range of a mate score.                        *)
THEOREM StoredValueAlwaysFits == Spec => []StoredValueFits
<1>1. TypeOK => StoredValueFits
  <2> SUFFICES ASSUME TypeOK, call.op = "value"
               PROVE  /\ -32000 <= ValueToTT(call.value, call.ply)
                      /\ ValueToTT(call.value, call.ply) <= 32000
    BY DEF StoredValueFits, ValueMate
  <2>1. call.ply \in 0 .. MaxPly /\ call.value \in SearchValues(call.ply)
    BY CallKinds
  <2> QED BY <2>1, Stored
<1> QED BY <1>1, Typing, PTL

(* What a node stores it reads back, or the nearest undecided value of the  *)
(* same side.                                                               *)
THEOREM ValueAlwaysRoundTrips == Spec => []ValueRoundTrips
<1>1. TypeOK => ValueRoundTrips
  <2> SUFFICES ASSUME TypeOK, call.op = "value" PROVE ValueRoundTrips
    BY DEF ValueRoundTrips
  <2>1. /\ call.ply \in 0 .. MaxPly /\ call.r50 \in 0 .. 100
        /\ call.value \in SearchValues(call.ply)
    BY CallKinds
  <2> QED BY <2>1, RoundTrip DEF ValueRoundTrips
<1> QED BY <1>1, Typing, PTL

(* Every key has one cluster of the table and every cluster one job, for    *)
(* every word, table and pool.                                              *)
THEOREM IndexLawsHold == Spec => []IndexLaws
<1>1. HalvesAgree /\ EntryInTable /\ StripesPartition => IndexLaws
  BY DEF IndexLaws
<1> QED BY <1>1, HalvesAlwaysAgree, EntryAlwaysInTable, StripesAlwaysPartition, PTL

(* What an entry holds can be read back, for every generation, ply and      *)
(* value.                                                                   *)
THEOREM ValueLawsHold == Spec => []ValueLaws
<1>1. AgeIgnoresFlags /\ StoredValueFits /\ ValueRoundTrips => ValueLaws
  BY DEF ValueLaws
<1> QED BY <1>1, AgeAlwaysIgnoresFlags, StoredValueAlwaysFits, ValueAlwaysRoundTrips, PTL

(***************************************************************************)
(* The time manager: a move's budgets stay within what its side has left,  *)
(* for every clock, increment, overhead, stage of a time control and bank  *)
(* of nodes, whatever the scales of timeman.cpp compute within their       *)
(* clamps and whatever the searches before it left in the one object they  *)
(* share; and a search which is due stops within one period of check_time's*)
(* calls, and none by the clock that is not.                               *)
(***************************************************************************)
(* Division with remainder, and how it compares.                            *)
LEMMA Quotient ==
  ASSUME NEW x \in Int, NEW d \in Nat, d > 0
  PROVE  x \div d \in Int /\ d * (x \div d) <= x /\ x < d * (x \div d) + d
  BY SMT

LEMMA DivAtMost ==
  ASSUME NEW x \in Int, NEW d \in Nat, d > 0, NEW b \in Int, x <= d * b
  PROVE  x \div d <= b
<1> DEFINE q == x \div d
<1>1. q \in Int /\ d * q <= x
  BY Quotient
<1> HIDE DEF q
<1>2. ~(q >= b + 1)
  <2> SUFFICES ASSUME q >= b + 1 PROVE FALSE
    OBVIOUS
  <2>1. d * q >= d * (b + 1)
    BY <1>1
  <2> QED BY <1>1, <2>1
<1> QED BY <1>1, <1>2 DEF q

LEMMA DivAtLeast ==
  ASSUME NEW x \in Int, NEW d \in Nat, d > 0, NEW b \in Int, d * b <= x
  PROVE  b <= x \div d
<1> DEFINE q == x \div d
<1>1. q \in Int /\ x < d * q + d
  BY Quotient
<1> HIDE DEF q
<1>2. ~(q + 1 <= b)
  <2> SUFFICES ASSUME q + 1 <= b PROVE FALSE
    OBVIOUS
  <2>1. d * (q + 1) <= d * b
    BY <1>1
  <2> QED BY <1>1, <2>1
<1> QED BY <1>1, <1>2 DEF q

LEMMA ProductAtMost ==
  ASSUME NEW p \in Int, NEW x \in Nat, NEW b \in Int, p <= b
  PROVE  p * x \in Int /\ p * x <= b * x
<1>1. (b - p) * x >= 0
  OBVIOUS
<1> QED BY <1>1

(* A share of a whole is no more than the whole.                            *)
LEMMA PercentAtMost ==
  ASSUME NEW p \in Int, NEW x \in Nat, p <= 100
  PROVE  Percent(p, x) \in Int /\ Percent(p, x) <= x
<1>1. p * x \in Int /\ p * x <= 100 * x
  BY ProductAtMost
<1>2. (p * x) \div 100 <= x
  BY <1>1, DivAtMost
<1>3. (p * x) \div 100 \in Int
  BY <1>1, Quotient
<1> QED BY <1>2, <1>3 DEF Percent

LEMMA PercentIsNat ==
  ASSUME NEW p \in Nat, NEW x \in Nat
  PROVE  Percent(p, x) \in Nat
<1>1. p * x \in Nat
  OBVIOUS
<1>2. 0 <= (p * x) \div 100
  BY <1>1, DivAtLeast
<1>3. (p * x) \div 100 \in Int
  BY <1>1, Quotient
<1> QED BY <1>2, <1>3 DEF Percent

(* std::min and std::max.                                                   *)
LEMMA MostOfTwo ==
  ASSUME NEW a \in Int, NEW b \in Int
  PROVE  Most({a, b}) \in {a, b} /\ Most({a, b}) >= a /\ Most({a, b}) >= b
<1>1. \E x \in {a, b} : \A y \in {a, b} : x >= y
  <2>1. CASE a >= b
    BY <2>1
  <2>2. CASE b >= a
    BY <2>2
  <2> QED BY <2>1, <2>2
<1> QED BY <1>1 DEF Most, Max

LEMMA LeastOfTwo ==
  ASSUME NEW a \in Int, NEW b \in Int
  PROVE  Least({a, b}) \in {a, b} /\ Least({a, b}) <= a /\ Least({a, b}) <= b
<1>1. \E x \in {a, b} : \A y \in {a, b} : x =< y
  <2>1. CASE a <= b
    BY <2>1
  <2>2. CASE b <= a
    BY <2>2
  <2> QED BY <2>1, <2>2
<1> QED BY <1>1 DEF Least, Min

-----------------------------------------------------------------------------
(* The horizon is at least the move at hand when the control counts moves.  *)
LEMMA MovesAheadType ==
  ASSUME NEW l \in Limits
  PROVE  MovesAhead(l) \in Nat /\ (l.movestogo # 0 => MovesAhead(l) >= 1)
<1>1. CASE l.movestogo # 0
  <2>1. l.movestogo \in Nat
    BY DEF Limits
  <2>2. l.movestogo \in Int /\ 50 \in Int
    BY <2>1
  <2>3. Least({l.movestogo, 50}) \in {l.movestogo, 50}
    BY <2>2, LeastOfTwo, Zenon
  <2> QED BY <1>1, <2>1, <2>3 DEF MovesAhead
<1>2. CASE l.movestogo = 0
  <2> DEFINE per == Most({1, l.npmsec})
             scaled == Most({1, l.own \div per})
  <2>1. l.npmsec \in Nat /\ l.own \in Nat
    BY DEF Limits
  <2>2. 1 \in Int /\ l.npmsec \in Int
    BY <2>1
  <2>3. per \in {1, l.npmsec} /\ per >= 1
    BY <2>2, MostOfTwo, Zenon
  <2> HIDE DEF per
  <2>4. l.own \div per \in Int
    BY <2>1, <2>3, Quotient
  <2>5. scaled \in {1, l.own \div per} /\ scaled >= 1
    BY <2>2, <2>4, MostOfTwo, Zenon
  <2> HIDE DEF scaled
  <2>6. scaled \div 20 \in Int /\ 0 <= scaled \div 20
    BY <2>4, <2>5, Quotient, DivAtLeast
  <2>7. MovesAhead(l) = IF scaled < 1000 THEN scaled \div 20 ELSE 50
    BY <1>2 DEF MovesAhead, scaled, per
  <2> QED BY <1>2, <2>6, <2>7
<1> QED BY <1>1, <1>2

LEMMA TimeLeftType ==
  ASSUME NEW l \in Limits
  PROVE  TimeLeft(l) \in Nat /\ TimeLeft(l) >= 1
<1> DEFINE m == MovesAhead(l)
           x == l.own + l.inc * (m - 1) - l.overhead * (2 + m)
<1>1. m \in Nat /\ l.own \in Nat /\ l.inc \in Nat /\ l.overhead \in Nat
  BY MovesAheadType DEF Limits
<1> HIDE DEF m
<1>2. x \in Int
  BY <1>1
<1>3. TimeLeft(l) = Most({1, x})
  BY DEF TimeLeft, m
<1> HIDE DEF x
<1>4. 1 \in Int
  OBVIOUS
<1>5. TimeLeft(l) \in {1, x} /\ TimeLeft(l) >= 1
  BY <1>2, <1>3, <1>4, MostOfTwo, Zenon
<1> QED BY <1>2, <1>5

(* The two ways to share out the time left: the cap of 19.4 percent outlives *)
(* the adjustment, and the cap of 88 percent the moves to go.               *)
LEMMA AdjustedShare ==
  ASSUME NEW l \in Limits, NEW share \in Shares, NEW adjust \in Adjusts
  PROVE  LET given == Percent(adjust, Least({Percent(share, TimeLeft(l)), (19404 * l.own) \div 100000}))
         IN  given \in Int /\ given <= l.own
<1> DEFINE a == Percent(share, TimeLeft(l))
           c == (19404 * l.own) \div 100000
           y == Least({a, c})
<1>1. l.own \in Nat /\ share \in Nat /\ adjust \in Int /\ adjust <= 515
  BY TimeAssumption DEF Limits
<1>2. a \in Nat
  BY <1>1, TimeLeftType, PercentIsNat
<1>3. 19404 * l.own \in Nat
  BY <1>1
<1>4. c \in Int /\ 0 <= c /\ 100000 * c <= 19404 * l.own
  BY <1>3, Quotient, DivAtLeast
<1> HIDE DEF a, c
<1>5. y \in Nat /\ y <= c
  <2>1. a \in Int /\ c \in Int
    BY <1>2, <1>4
  <2>2. y \in {a, c} /\ y <= c
    BY <2>1, LeastOfTwo, Zenon
  <2> HIDE DEF y
  <2> QED BY <1>2, <1>4, <2>2
<1> HIDE DEF y
<1>6. adjust * y \in Int /\ adjust * y <= 515 * y
  BY <1>1, <1>5, ProductAtMost
<1>7. adjust * y <= 100 * l.own
  BY <1>1, <1>4, <1>5, <1>6
<1>8. (adjust * y) \div 100 <= l.own
  BY <1>1, <1>6, <1>7, DivAtMost
<1>9. Percent(adjust, y) \in Int
  BY <1>6, Quotient DEF Percent
<1> QED BY <1>8, <1>9 DEF Percent, y, a, c

LEMMA CountedShare ==
  ASSUME NEW l \in Limits, l.movestogo # 0
  PROVE  LET given == Least({((88 + (100 * l.ply) \div 116) * TimeLeft(l)) \div (100 * MovesAhead(l)),
                             Percent(88, l.own)})
         IN  given \in Nat /\ given <= l.own
<1> DEFINE r == (100 * l.ply) \div 116
           t == TimeLeft(l)
           m == MovesAhead(l)
           a == ((88 + r) * t) \div (100 * m)
           p == Percent(88, l.own)
<1>1. l.ply \in Nat /\ l.own \in Nat /\ t \in Nat /\ m \in Nat /\ m >= 1
  BY MovesAheadType, TimeLeftType DEF Limits
<1>2. 100 * l.ply \in Nat
  BY <1>1
<1>3. r \in Int /\ 0 <= r
  BY <1>2, Quotient, DivAtLeast
<1>4. p \in Nat /\ p <= l.own
  <2>1. 88 \in Nat /\ 88 \in Int /\ 88 <= 100 /\ l.own \in Nat
    BY <1>1
  <2> QED BY <2>1, PercentIsNat, PercentAtMost, Zenon
<1> HIDE DEF r, t, m, p
<1>5. (88 + r) * t \in Nat /\ 100 * m \in Nat /\ 100 * m > 0
  BY <1>1, <1>3
<1>6. a \in Int /\ 0 <= a
  BY <1>5, Quotient, DivAtLeast
<1> HIDE DEF a
<1>7. p \in Int
  BY <1>4
<1>8. Least({a, p}) \in {a, p} /\ Least({a, p}) <= p
  BY <1>6, <1>7, LeastOfTwo, Zenon
<1> QED BY <1>1, <1>4, <1>6, <1>8 DEF r, t, m, a, p

(* The optimum is at least one unit and no more than the clock, for a side   *)
(* that is behind on the clock is only given less.                          *)
LEMMA OptimumIsOwn ==
  ASSUME NEW l \in Limits, NEW share \in Shares, NEW adjust, l.movestogo = 0 => adjust \in Adjusts
  PROVE  LET optimum == Optimum(l, share, adjust)
         IN  optimum \in Nat /\ optimum >= 1 /\ optimum <= Most({1, l.own})
<1> DEFINE behind == IF l.npmsec = 0 /\ l.movestogo # 1 /\ l.own < l.other
                     THEN 100 - (90 * (l.other - l.own)) \div (1 + l.own + l.other) ELSE 100
           given == IF l.movestogo = 0
                    THEN Percent(adjust, Least({Percent(share, TimeLeft(l)), (19404 * l.own) \div 100000}))
                    ELSE Least({((88 + (100 * l.ply) \div 116) * TimeLeft(l)) \div (100 * MovesAhead(l)),
                                Percent(88, l.own)})
           optimum == Optimum(l, share, adjust)
<1>1. l.own \in Nat /\ l.other \in Nat
  BY DEF Limits
<1>2. given \in Int /\ given <= l.own
  BY AdjustedShare, CountedShare
<1>3. behind \in Nat /\ behind <= 100
  <2>1. CASE l.npmsec = 0 /\ l.movestogo # 1 /\ l.own < l.other
    <3> DEFINE x == 90 * (l.other - l.own)
               d == 1 + l.own + l.other
               q == x \div d
    <3>1. x \in Nat /\ d \in Nat /\ d > 0 /\ x <= d * 90
      BY <1>1, <2>1
    <3> HIDE DEF x, d
    <3>2. q \in Int /\ 0 <= q /\ q <= 90
      BY <3>1, Quotient, DivAtLeast, DivAtMost
    <3>3. behind = 100 - q
      BY <2>1 DEF x, d
    <3> HIDE DEF q, behind
    <3> QED BY <3>2, <3>3
  <2>2. CASE ~(l.npmsec = 0 /\ l.movestogo # 1 /\ l.own < l.other)
    BY <2>2
  <2> QED BY <2>1, <2>2
<1>4. optimum = Most({1, Percent(behind, given)})
  BY DEF Optimum
<1> HIDE DEF behind, given, optimum
<1>5. Percent(behind, given) \in Int /\ Percent(behind, given) <= l.own
  <2>1. CASE given >= 0
    BY <1>1, <1>2, <1>3, <2>1, PercentAtMost
  <2>2. CASE given < 0
    <3>1. behind * given \in Int /\ behind * given <= 0
      BY <1>2, <1>3, <2>2
    <3>2. (behind * given) \div 100 \in Int /\ (behind * given) \div 100 <= 0
      BY <3>1, Quotient, DivAtMost
    <3> QED BY <1>1, <3>2 DEF Percent
  <2> QED BY <1>2, <2>1, <2>2
<1>6. 1 \in Int /\ l.own \in Int
  BY <1>1
<1>7. optimum \in {1, Percent(behind, given)} /\ optimum >= 1
  BY <1>4, <1>5, <1>6, MostOfTwo, Zenon
<1>8. Most({1, l.own}) \in {1, l.own} /\ Most({1, l.own}) >= 1 /\ Most({1, l.own}) >= l.own
  BY <1>6, MostOfTwo, Zenon
<1>9. optimum \in Nat /\ optimum >= 1 /\ optimum <= Most({1, l.own})
  BY <1>1, <1>2, <1>5, <1>7, <1>8
<1> QED BY <1>9 DEF optimum

LEMMA MaximumIsOwn ==
  ASSUME NEW l \in Limits, NEW scale \in MaxScales,
         NEW optimum \in Nat, optimum >= 1, optimum <= Most({1, l.own})
  PROVE  LET maximum == Maximum(l, optimum, scale)
         IN  maximum \in Nat /\ maximum >= 1 /\ maximum <= Most({1, l.own})
<1> DEFINE m == MovesAhead(l)
           maxScale == IF l.movestogo = 0 THEN scale ELSE 130 + 11 * m
           c == (8097 * l.own) \div 10000
           cap == c - l.overhead
           p == Percent(maxScale, optimum)
           least == Least({cap, p})
           maximum == Maximum(l, optimum, scale)
<1>1. l.own \in Nat /\ l.overhead \in Nat /\ scale \in Nat /\ m \in Nat
  BY TimeAssumption, MovesAheadType DEF Limits
<1>2. maximum = Most({optimum, least})
  BY DEF Maximum
<1> HIDE DEF m, maximum
<1>3. maxScale \in Nat
  BY <1>1
<1> HIDE DEF maxScale
<1>4. p \in Nat
  BY <1>3, PercentIsNat
<1>5. 8097 * l.own \in Nat /\ 8097 * l.own <= 10000 * l.own
  BY <1>1
<1>6. c \in Int /\ c <= l.own
  BY <1>1, <1>5, Quotient, DivAtMost
<1> HIDE DEF c, p
<1>7. cap \in Int /\ cap <= l.own /\ p \in Int /\ optimum \in Int
  BY <1>1, <1>4, <1>6
<1> HIDE DEF cap
<1>8. least \in {cap, p} /\ least <= cap
  BY <1>7, LeastOfTwo, Zenon
<1> HIDE DEF least
<1>9. least \in Int
  BY <1>7, <1>8
<1>10. maximum \in {optimum, least} /\ maximum >= optimum
  BY <1>2, <1>7, <1>9, MostOfTwo, Zenon
<1>11. 1 \in Int /\ l.own \in Int
  BY <1>1
<1>12. Most({1, l.own}) \in {1, l.own} /\ Most({1, l.own}) >= l.own
  BY <1>11, MostOfTwo, Zenon
<1>13. maximum \in Nat /\ maximum >= 1 /\ maximum <= Most({1, l.own})
  BY <1>1, <1>7, <1>8, <1>9, <1>10, <1>12
<1> QED BY <1>13 DEF maximum

-----------------------------------------------------------------------------
(* What the searches of a game leave to one another: the manager's fields,  *)
(* the limits in force, the adjustment of the game's first move.            *)
Managers == [useNodesTime : BOOLEAN, optimum : Nat, maximum : Nat,
             availableNodes : Int, previousMovesToGo : Nat, cyclicBudget : Int]

Own(t, l) == IF l.own = 0 THEN t.optimum = NoBound /\ t.maximum = NoBound
             ELSE /\ t.optimum >= 1 /\ t.maximum >= 1
                  /\ t.maximum <= Most({1, IF l.npmsec = 0 THEN l.own ELSE t.availableNodes})

IInv ==
  /\ tm \in Managers /\ tm.availableNodes >= -1
  /\ limits \in Limits
  /\ "adjust" \in DOMAIN mgr /\ mgr.adjust \in Adjusts \cup {Unset}
  /\ spent \in Nat
  /\ phase # "idle" => Own(tm, asked)

(* The bank is opened once and never overdrawn.                             *)
LEMMA BankType ==
  ASSUME NEW t \in Managers, t.availableNodes >= -1, NEW l \in Limits
  PROVE  /\ Bank(t, l) \in Managers
         /\ Bank(t, l).availableNodes >= -1
         /\ l.npmsec # 0 => Bank(t, l).availableNodes >= 0
<1>1. /\ l.own \in Nat /\ l.inc \in Nat /\ l.npmsec \in Nat /\ l.movestogo \in Nat
      /\ t.availableNodes \in Int /\ t.cyclicBudget \in Int
  BY DEF Limits, Managers
<1>2. CASE l.npmsec = 0
  BY <1>2 DEF Bank
<1>3. CASE l.npmsec # 0 /\ t.availableNodes = Unset
  <2> DEFINE n == l.npmsec * l.own
             c == l.npmsec * (l.own - l.inc)
             m == l.movestogo
  <2>1. n \in Nat /\ c \in Int /\ m \in Nat
    BY <1>1
  <2>2. Bank(t, l) = [t EXCEPT !.availableNodes = n, !.cyclicBudget = c, !.previousMovesToGo = m]
    BY <1>3 DEF Bank
  <2> HIDE DEF n, c, m
  <2>3. n \in Int
    BY <2>1
  <2>4. Bank(t, l) \in Managers /\ Bank(t, l).availableNodes = n
    BY <2>1, <2>2, <2>3 DEF Managers
  <2> QED BY <2>1, <2>4
<1>4. CASE l.npmsec # 0 /\ t.availableNodes # Unset
  <2> DEFINE n == IF l.movestogo > 0 /\ l.movestogo > t.previousMovesToGo /\ t.cyclicBudget > 0
                  THEN t.availableNodes + t.cyclicBudget ELSE t.availableNodes
             m == l.movestogo
  <2>1. n \in Nat /\ m \in Nat
    BY <1>1, <1>4 DEF Unset
  <2>2. Bank(t, l) = [t EXCEPT !.availableNodes = n, !.previousMovesToGo = m]
    BY <1>4 DEF Bank
  <2> HIDE DEF n, m
  <2>3. n \in Int
    BY <2>1
  <2>4. Bank(t, l) \in Managers /\ Bank(t, l).availableNodes = n
    BY <2>1, <2>2, <2>3 DEF Managers
  <2> QED BY <2>1, <2>4
<1> QED BY <1>2, <1>3, <1>4

LEMMA InNodesType ==
  ASSUME NEW t \in Managers, NEW l \in Limits, l.npmsec # 0 => t.availableNodes >= 0
  PROVE  /\ InNodes(t, Scaled(l)) \in Limits
         /\ InNodes(t, Scaled(l)).movestogo = l.movestogo
         /\ InNodes(t, Scaled(l)).own = IF l.npmsec = 0 THEN l.own ELSE t.availableNodes
<1> DEFINE s == Scaled(l)
<1>1. /\ l.movetime \in Nat /\ l.npmsec \in Nat /\ l.inc \in Nat /\ l.overhead \in Nat
      /\ t.availableNodes \in Int
  BY DEF Limits, Managers
<1>2. l.movetime * l.npmsec \in Nat /\ l.inc * l.npmsec \in Nat /\ l.overhead * l.npmsec \in Nat
  BY <1>1
<1>3. /\ s \in Limits
      /\ s.movestogo = l.movestogo /\ s.own = l.own /\ s.npmsec = l.npmsec
      /\ s.inc = l.inc /\ s.overhead = l.overhead
  <2> DEFINE mt == IF l.npmsec # 0 THEN l.movetime * l.npmsec ELSE l.movetime
  <2>1. mt \in Nat
    BY <1>1, <1>2
  <2>2. s = [l EXCEPT !.movetime = mt]
    BY DEF Scaled
  <2> HIDE DEF mt
  <2> QED BY <2>1, <2>2 DEF Limits
<1> HIDE DEF s
<1>4. CASE l.npmsec = 0
  BY <1>3, <1>4 DEF InNodes, s
<1>5. CASE l.npmsec # 0
  <2> DEFINE i == l.inc * l.npmsec
             o == l.overhead * l.npmsec
  <2>1. InNodes(t, s) = [s EXCEPT !.own = t.availableNodes, !.inc = i, !.overhead = o]
    BY <1>3, <1>5 DEF InNodes
  <2>2. i \in Nat /\ o \in Nat /\ t.availableNodes \in Nat
    BY <1>1, <1>2, <1>5
  <2> HIDE DEF i, o
  <2> QED BY <1>3, <1>5, <2>1, <2>2 DEF Limits, s
<1> QED BY <1>4, <1>5

(* What init() writes is this search's own.                                 *)
LEMMA BudgetedIsOwn ==
  ASSUME NEW t \in Managers, NEW l \in Limits, NEW share \in Shares, NEW scale \in MaxScales,
         NEW adjust, l.movestogo = 0 => adjust \in Adjusts
  PROVE  LET u == Budgeted(t, l, share, adjust, scale)
         IN  /\ u \in Managers
             /\ u.availableNodes = t.availableNodes
             /\ u.optimum >= 1 /\ u.maximum >= 1 /\ u.maximum <= Most({1, l.own})
<1> DEFINE o == Optimum(l, share, adjust)
           m == Maximum(l, o, scale)
           q == o \div 4
           p == o + IfTrue(l.ponderOption) * q
           b == l.npmsec # 0
           u == Budgeted(t, l, share, adjust, scale)
<1>1. o \in Nat /\ o >= 1 /\ o <= Most({1, l.own})
  BY OptimumIsOwn
<1> HIDE DEF o
<1>2. m \in Nat /\ m >= 1 /\ m <= Most({1, l.own})
  BY <1>1, MaximumIsOwn
<1>3. q \in Int /\ 0 <= q
  BY <1>1, Quotient, DivAtLeast
<1>4. p \in Nat /\ p >= 1
  <2>1. IfTrue(l.ponderOption) = 1 \/ IfTrue(l.ponderOption) = 0
    BY DEF IfTrue
  <2> HIDE DEF q
  <2>2. p = o + q \/ p = o
    BY <1>1, <1>3, <2>1
  <2> QED BY <1>1, <1>3, <2>2
<1>5. b \in BOOLEAN
  OBVIOUS
<1>6. u = [t EXCEPT !.useNodesTime = b, !.optimum = p, !.maximum = m]
  BY DEF Budgeted, o
<1> HIDE DEF m, q, p, b, u
<1>7. u \in Managers /\ u.availableNodes = t.availableNodes /\ u.optimum = p /\ u.maximum = m
  BY <1>2, <1>4, <1>5, <1>6 DEF Managers
<1> QED BY <1>2, <1>4, <1>7 DEF u

LEMMA InitIsOwn ==
  ASSUME IInv, NEW l \in GoCommands, NEW share \in Shares, NEW adjust \in Adjusts, NEW scale \in MaxScales
  PROVE  LET done == InitBudgets(l, share, adjust, scale)
         IN  /\ done.tm \in Managers /\ done.tm.availableNodes >= -1
             /\ done.limits \in Limits
             /\ done.adjust \in Adjusts \cup {Unset}
             /\ Own(done.tm, l)
<1> DEFINE bank == Bank(tm, l)
           own == InNodes(bank, Scaled(l))
           used == IF l.movestogo = 0 /\ mgr.adjust < 0 THEN adjust ELSE mgr.adjust
           done == InitBudgets(l, share, adjust, scale)
<1>1. l \in Limits
  BY TimeAssumption
<1>2. /\ bank \in Managers /\ bank.availableNodes >= -1
      /\ l.npmsec # 0 => bank.availableNodes >= 0
  BY <1>1, BankType DEF IInv
<1> HIDE DEF bank
<1>3. /\ own \in Limits /\ own.movestogo = l.movestogo
      /\ own.own = IF l.npmsec = 0 THEN l.own ELSE bank.availableNodes
  BY <1>1, <1>2, InNodesType
<1>4. used \in Adjusts \cup {Unset} /\ (l.movestogo = 0 => used \in Adjusts)
  BY DEF IInv, Unset
<1>5. CASE l.own = 0
  <2> DEFINE b == l.npmsec # 0
             s == [Scaled(l) EXCEPT !.npmsec = 0]
             mt == IF l.npmsec # 0 THEN l.movetime * l.npmsec ELSE l.movetime
             u == Unbounded(tm, l)
  <2>1. done.tm = u /\ done.limits = s /\ done.adjust = mgr.adjust
    BY <1>5 DEF InitBudgets
  <2>2. mt \in Nat
    <3>1. l.movetime \in Nat /\ l.npmsec \in Nat
      BY <1>1 DEF Limits
    <3>2. l.movetime * l.npmsec \in Nat
      BY <3>1
    <3> QED BY <3>1, <3>2
  <2>3. Scaled(l) = [l EXCEPT !.movetime = mt]
    BY DEF Scaled
  <2> HIDE DEF mt
  <2>4. Scaled(l) \in Limits
    BY <1>1, <2>2, <2>3 DEF Limits
  <2>5. s \in Limits
    BY <2>4 DEF Limits
  <2>6. b \in BOOLEAN /\ NoBound \in Nat /\ tm \in Managers /\ tm.availableNodes >= -1
    BY TimeAssumption DEF IInv
  <2>7. u = [tm EXCEPT !.useNodesTime = b, !.optimum = NoBound, !.maximum = NoBound]
    BY DEF Unbounded
  <2> HIDE DEF b, u
  <2>8. u \in Managers /\ u.availableNodes = tm.availableNodes /\ u.optimum = NoBound /\ u.maximum = NoBound
    BY <2>6, <2>7 DEF Managers
  <2>9. mgr.adjust \in Adjusts \cup {Unset}
    BY DEF IInv
  <2> HIDE DEF done, s
  <2>10. done.tm \in Managers /\ done.tm.availableNodes >= -1 /\ Own(done.tm, l)
    BY <1>5, <2>1, <2>6, <2>8 DEF Own
  <2> QED BY <2>1, <2>5, <2>9, <2>10 DEF done
<1>6. CASE l.own # 0
  <2> DEFINE u == Budgeted(bank, own, share, used, scale)
  <2>1. done.tm = u /\ done.limits = own /\ done.adjust = used
    BY <1>6 DEF InitBudgets, bank
  <2> HIDE DEF used, own
  <2>2. own.movestogo = 0 => used \in Adjusts
    BY <1>3, <1>4
  <2>3. /\ u \in Managers /\ u.availableNodes = bank.availableNodes
        /\ u.optimum >= 1 /\ u.maximum >= 1 /\ u.maximum <= Most({1, own.own})
    BY <1>2, <1>3, <2>2, BudgetedIsOwn
  <2> HIDE DEF done, u
  <2>4. own.own = IF l.npmsec = 0 THEN l.own ELSE u.availableNodes
    BY <1>3, <2>3
  <2>5. Own(u, l)
    BY <1>6, <2>3, <2>4 DEF Own
  <2> QED BY <1>2, <1>3, <1>4, <2>1, <2>3, <2>5 DEF done
<1> QED BY <1>5, <1>6

-----------------------------------------------------------------------------
LEMMA IInvInit == TimeInit => IInv
<1> SUFFICES ASSUME TimeInit PROVE IInv
  OBVIOUS
<1>1. tm \in Managers /\ tm.availableNodes >= -1
  BY TimeAssumption DEF TimeInit, Managers, Unset
<1>2. limits \in Limits
  BY DEF TimeInit, Nothing, Limits
<1>3. "adjust" \in DOMAIN mgr /\ mgr.adjust = Unset
  BY DEF TimeInit
<1>4. spent \in Nat /\ phase = "idle"
  BY DEF TimeInit
<1> QED BY <1>1, <1>2, <1>3, <1>4 DEF IInv

(* Only go writes the budgets; the nodes are paid when the search is over.  *)
LEMMA IInvStep == IInv /\ [TimeNext]_timeVars => IInv'
<1> SUFFICES ASSUME IInv, [TimeNext]_timeVars PROVE IInv'
  OBVIOUS
<1>1. ASSUME NEW l \in GoCommands, Go(l) PROVE IInv'
  <2>1. PICK share \in Shares, adjust \in Adjusts, scale \in MaxScales :
          LET done == InitBudgets(l, share, adjust, scale)
          IN  /\ tm' = done.tm
              /\ limits' = done.limits
              /\ mgr' = [mgr EXCEPT !.adjust = done.adjust, !.ponder = l.ponderMode, !.stopOnPonderhit = FALSE]
    BY <1>1 DEF Go
  <2> DEFINE done == InitBudgets(l, share, adjust, scale)
             a == done.adjust
  <2>2. /\ done.tm \in Managers /\ done.tm.availableNodes >= -1
        /\ done.limits \in Limits
        /\ a \in Adjusts \cup {Unset}
        /\ Own(done.tm, l)
    BY InitIsOwn
  <2>3. tm' = done.tm /\ limits' = done.limits
    BY <2>1
  <2>4. mgr' = [mgr EXCEPT !.adjust = a, !.ponder = l.ponderMode, !.stopOnPonderhit = FALSE]
    BY <2>1
  <2>5. spent' = 0 /\ asked' = l
    BY <1>1 DEF Go
  <2> HIDE DEF done, a
  <2>6. "adjust" \in DOMAIN mgr' /\ mgr'.adjust = a
    BY <2>4 DEF IInv
  <2> QED BY <2>2, <2>3, <2>5, <2>6 DEF IInv, Own
<1>2. ASSUME NEW n \in Steps, Count(n) PROVE IInv'
  <2>1. spent' \in Nat
    BY <1>2, TimeAssumption DEF IInv, Count
  <2> QED BY <1>2, <2>1 DEF IInv, Count, Own
<1>3. ASSUME NEW n \in Steps, Tick(n) PROVE IInv'
  BY <1>3 DEF IInv, Tick, Own
<1>4. CASE CheckTime
  <2>1. PICK c : mgr' = [mgr EXCEPT !.callsCnt = c]
    BY <1>4 DEF CheckTime
  <2>2. "adjust" \in DOMAIN mgr' /\ mgr'.adjust = mgr.adjust
    BY <2>1 DEF IInv
  <2> QED BY <1>4, <2>2 DEF IInv, CheckTime, Own
<1>5. ASSUME NEW factor \in Factors, NEW single \in BOOLEAN, NEW decided \in BOOLEAN,
             EndIteration(factor, single, decided)
      PROVE  IInv'
  <2>1. mgr' = [mgr EXCEPT !.stopOnPonderhit = TRUE] \/ mgr' = mgr
    BY <1>5 DEF EndIteration
  <2>2. "adjust" \in DOMAIN mgr' /\ mgr'.adjust = mgr.adjust
    BY <2>1 DEF IInv
  <2>3. UNCHANGED <<tm, limits, spent, phase, asked>>
    BY <1>5 DEF EndIteration
  <2> QED BY <2>2, <2>3 DEF IInv, Own
<1>6. CASE FailLow \/ PonderHit
  <2>1. mgr' = [mgr EXCEPT !.stopOnPonderhit = FALSE] \/ mgr' = [mgr EXCEPT !.ponder = FALSE]
    BY <1>6 DEF FailLow, PonderHit
  <2>2. "adjust" \in DOMAIN mgr' /\ mgr'.adjust = mgr.adjust
    BY <2>1 DEF IInv
  <2>3. UNCHANGED <<tm, limits, spent, phase, asked>>
    BY <1>6 DEF FailLow, PonderHit
  <2> QED BY <2>2, <2>3 DEF IInv, Own
<1>7. CASE Stop \/ IterationsEnd
  <2>1. UNCHANGED <<tm, limits, mgr, spent, asked>> /\ phase # "idle"
    BY <1>7 DEF Stop, IterationsEnd
  <2> QED BY <2>1 DEF IInv, Own
<1>8. CASE ProbeTables
  <2>1. mgr' = [mgr EXCEPT !.callsCnt = 0] /\ UNCHANGED <<tm, limits, spent, phase, asked>>
    BY <1>8 DEF ProbeTables
  <2>2. "adjust" \in DOMAIN mgr' /\ mgr'.adjust = mgr.adjust
    BY <2>1 DEF IInv
  <2> QED BY <2>1, <2>2 DEF IInv, Own
<1>9. CASE Answer
  <2> DEFINE left == tm.availableNodes - (spent - limits.inc)
             paid == Most({0, left})
  <2>1. left \in Int
    BY DEF IInv, Managers, Limits
  <2> HIDE DEF left
  <2>2. 0 \in Int
    OBVIOUS
  <2>3. paid \in {0, left} /\ paid >= 0
    BY <2>1, <2>2, MostOfTwo, Zenon
  <2>4. tm' = tm \/ tm' = [tm EXCEPT !.availableNodes = paid]
    BY <1>9 DEF Answer, left
  <2> HIDE DEF paid
  <2>5. tm' \in Managers /\ tm'.availableNodes >= -1
    BY <2>1, <2>3, <2>4 DEF IInv, Managers
  <2>6. UNCHANGED <<limits, mgr, spent>> /\ phase' = "idle"
    BY <1>9 DEF Answer
  <2> QED BY <2>5, <2>6 DEF IInv
<1>10. CASE Clear
  <2>1. tm' \in Managers /\ tm'.availableNodes >= -1
    <3>1. Unset \in Int /\ Unset >= -1 /\ 0 \in Nat
      BY DEF Unset
    <3>2. tm' = [tm EXCEPT !.availableNodes = Unset, !.previousMovesToGo = 0]
      BY <1>10 DEF Clear
    <3>3. tm \in Managers
      BY DEF IInv
    <3> QED BY <3>1, <3>2, <3>3 DEF Managers
  <2>2. mgr' = [mgr EXCEPT !.callsCnt = 0, !.adjust = Unset]
    BY <1>10 DEF Clear
  <2>3. "adjust" \in DOMAIN mgr' /\ mgr'.adjust = Unset
    BY <2>2 DEF IInv
  <2>4. UNCHANGED <<limits, spent, phase>> /\ phase = "idle"
    BY <1>10 DEF Clear
  <2> QED BY <2>1, <2>3, <2>4 DEF IInv
<1>11. CASE UNCHANGED timeVars
  BY <1>11 DEF IInv, timeVars, Own
<1> QED BY <1>1, <1>2, <1>3, <1>4, <1>5, <1>6, <1>7, <1>8, <1>9, <1>10, <1>11 DEF TimeNext

(* Whatever the searches of a game ask for and leave behind, the budgets of *)
(* the search at hand are at least one unit and at most its side's clock,   *)
(* or bank of nodes, and unbounded without a clock (timeman.cpp,            *)
(* TimeManagement::init; search.cpp, check_time reads them).                *)
THEOREM BudgetsAreAlwaysOwn == TimeSpec => []BudgetIsOwn
<1>1. IInv => BudgetIsOwn
  BY DEF IInv, BudgetIsOwn, Own
<1> QED BY <1>1, IInvInit, IInvStep, PTL DEF TimeSpec

-----------------------------------------------------------------------------
(* The looks at the clock.  What the limits in force keep of the command,   *)
(* and the room the counter leaves: the looks missed since the search was   *)
(* due and the calls before the next look fit in one period.                *)
SearchManagers == [ponder : BOOLEAN, stopOnPonderhit : BOOLEAN, callsCnt : Int, adjust : Int]

Renders(l, a) ==
  /\ l.other = a.other /\ l.nodes = a.nodes
  /\ l.movetime = a.movetime * Most({1, a.npmsec})
  /\ a.own = 0 => l.own = 0
  /\ a.npmsec = 0 => l.own = a.own

Punctual ==
  /\ mgr \in SearchManagers /\ mgr.callsCnt <= CheckPeriod
  /\ late \in Nat /\ late <= CheckPeriod
  /\ asked \in Limits /\ Renders(limits, asked)
  /\ ~stopped => ~byClock /\ late + Most({1, mgr.callsCnt}) <= CheckPeriod
  /\ byClock => Due

LEMMA ScaledRenders ==
  ASSUME NEW l \in Limits
  PROVE  Scaled(l) \in Limits /\ Scaled(l).npmsec = l.npmsec /\ Scaled(l).own = l.own /\ Renders(Scaled(l), l)
<1> DEFINE mt == IF l.npmsec # 0 THEN l.movetime * l.npmsec ELSE l.movetime
           one == Most({1, l.npmsec})
<1>1. l.movetime \in Nat /\ l.npmsec \in Nat
  BY DEF Limits
<1>2. 1 \in Int /\ l.npmsec \in Int
  BY <1>1
<1>3. one \in {1, l.npmsec} /\ one >= 1 /\ one >= l.npmsec
  BY <1>2, MostOfTwo, Zenon
<1>4. Scaled(l) = [l EXCEPT !.movetime = mt]
  BY DEF Scaled
<1>5. l.movetime * l.npmsec \in Nat
  BY <1>1
<1>6. l.npmsec # 0 => one = l.npmsec
  <2> HIDE DEF one
  <2> QED BY <1>1, <1>3
<1>7. l.npmsec = 0 => one = 1
  <2> HIDE DEF one
  <2> QED BY <1>1, <1>3
<1>8. mt \in Nat /\ mt = l.movetime * one
  <2> HIDE DEF one
  <2>1. CASE l.npmsec = 0
    BY <1>1, <1>7, <2>1
  <2>2. CASE l.npmsec # 0
    BY <1>5, <1>6, <2>2
  <2> QED BY <2>1, <2>2
<1> HIDE DEF mt, one
<1>9. /\ Scaled(l) \in Limits
      /\ Scaled(l).movetime = mt
      /\ Scaled(l).npmsec = l.npmsec /\ Scaled(l).own = l.own
      /\ Scaled(l).other = l.other /\ Scaled(l).nodes = l.nodes
  BY <1>4, <1>8 DEF Limits
<1> QED BY <1>8, <1>9 DEF Renders, one

(* init() converts a command and drops nothing the search is to obey.       *)
LEMMA InitRenders ==
  ASSUME NEW l \in Limits, NEW share, NEW adjust, NEW scale
  PROVE  Renders(InitBudgets(l, share, adjust, scale).limits, l)
<1> DEFINE s == Scaled(l)
           bank == Bank(tm, l)
           in == InNodes(bank, s)
           lim == InitBudgets(l, share, adjust, scale).limits
<1>1. s \in Limits /\ s.npmsec = l.npmsec /\ s.own = l.own /\ Renders(s, l)
  BY ScaledRenders
<1>2. CASE l.own = 0
  <2>1. lim = [s EXCEPT !.npmsec = 0]
    BY <1>2 DEF InitBudgets
  <2> HIDE DEF s, lim
  <2>2. lim.other = s.other /\ lim.nodes = s.nodes /\ lim.movetime = s.movetime /\ lim.own = s.own
    BY <1>1, <2>1 DEF Limits
  <2>3. Renders(lim, l)
    BY <1>1, <2>2 DEF Renders
  <2> QED BY <2>3 DEF lim
<1>3. CASE l.own # 0
  <2>1. lim = in
    BY <1>3 DEF InitBudgets
  <2> HIDE DEF s, lim, bank
  <2>2. CASE l.npmsec = 0
    <3>1. lim = s
      BY <1>1, <2>1, <2>2 DEF InNodes
    <3> QED BY <1>1, <3>1 DEF lim
  <2>3. CASE l.npmsec # 0
    <3> DEFINE o == bank.availableNodes
               i == s.inc * s.npmsec
               v == s.overhead * s.npmsec
    <3>1. in = [s EXCEPT !.own = o, !.inc = i, !.overhead = v]
      BY <1>1, <2>3 DEF InNodes
    <3> HIDE DEF o, i, v, in
    <3>2. in.other = s.other /\ in.nodes = s.nodes /\ in.movetime = s.movetime
      BY <1>1, <3>1 DEF Limits
    <3>3. Renders(lim, l)
      BY <1>1, <1>3, <2>1, <2>3, <3>2 DEF Renders
    <3> QED BY <3>3 DEF lim
  <2> QED BY <2>2, <2>3
<1> QED BY <1>2, <1>3

(* The clock's stop is due by the command as it was given, and a due search *)
(* that looks stops.                                                        *)
Raises ==
  /\ ~mgr.ponder
  /\ \/ use_time_management /\ (elapsed > tm.maximum \/ mgr.stopOnPonderhit)
     \/ limits.movetime # 0 /\ elapsed >= limits.movetime
     \/ limits.nodes # 0 /\ spent >= limits.nodes

LEMMA RaisesIsDue ==
  ASSUME IInv, asked \in Limits, Renders(limits, asked)
  PROVE  Raises <=> Due
<1> DEFINE one == Most({1, asked.npmsec})
           ms == asked.movetime * one
<1>1. /\ asked.npmsec \in Nat /\ asked.movetime \in Nat /\ asked.own \in Nat /\ asked.other \in Nat
      /\ limits.own \in Nat /\ limits.other \in Nat
  BY DEF Limits, IInv
<1>2. 1 \in Int /\ asked.npmsec \in Int
  BY <1>1
<1>3. one \in {1, asked.npmsec} /\ one >= 1
  BY <1>2, MostOfTwo, Zenon
<1>4. ms # 0 <=> asked.movetime # 0
  <2> HIDE DEF one
  <2>1. one \in Nat /\ one >= 1
    BY <1>1, <1>3
  <2>2. asked.movetime * one = 0 => asked.movetime = 0
    BY <1>1, <2>1
  <2>3. 0 * one = 0
    BY <2>1
  <2> QED BY <1>1, <2>2, <2>3
<1>5. use_time_management <=> Timed
  BY <1>1 DEF use_time_management, Timed, Renders
<1>6. limits.movetime = ms /\ limits.nodes = asked.nodes
  BY DEF Renders
<1>7. Due <=> /\ ~mgr.ponder
              /\ \/ Timed /\ (elapsed > tm.maximum \/ mgr.stopOnPonderhit)
                 \/ asked.movetime # 0 /\ elapsed >= ms
                 \/ asked.nodes # 0 /\ spent >= asked.nodes
  BY DEF Due
<1> HIDE DEF ms
<1> QED BY <1>4, <1>5, <1>6, <1>7 DEF Raises

LEMMA PunctualInit == TimeInit => Punctual
<1> SUFFICES ASSUME TimeInit PROVE Punctual
  OBVIOUS
<1>1. mgr \in SearchManagers /\ mgr.callsCnt = 0
  BY DEF TimeInit, SearchManagers, Unset
<1>2. asked \in Limits /\ limits = asked /\ asked.movetime = 0 /\ asked.npmsec = 0
  BY DEF TimeInit, Nothing, Limits
<1>3. CheckPeriod \in Nat /\ CheckPeriod >= 1
  BY TimeAssumption
<1>4. 1 \in Int /\ 0 \in Int
  OBVIOUS
<1>5. Most({1, 0}) \in {1, 0} /\ Most({1, 0}) >= 1
  BY <1>4, MostOfTwo, Zenon
<1>6. Most({1, 0}) = 1
  BY <1>5
<1>7. Renders(limits, asked)
  BY <1>2, <1>6 DEF Renders
<1>8. late = 0 /\ ~byClock
  BY DEF TimeInit
<1> QED BY <1>1, <1>2, <1>3, <1>6, <1>7, <1>8 DEF Punctual

(* Whether a search is due hangs on the budgets, the manager and the clocks.*)
LEMMA DueStays ==
  ASSUME Due, UNCHANGED <<limits, clock, spent, asked>>,
         tm'.useNodesTime = tm.useNodesTime, tm'.maximum = tm.maximum,
         mgr'.ponder = mgr.ponder, mgr'.stopOnPonderhit = mgr.stopOnPonderhit
  PROVE  Due'
  BY DEF Due, Timed, elapsed

(* One look at the clock.                                                   *)
LEMMA CheckTimePunctual == IInv /\ Punctual /\ CheckTime => Punctual'
<1> SUFFICES ASSUME IInv, Punctual, CheckTime PROVE Punctual'
  OBVIOUS
<1> DEFINE looks == mgr.callsCnt - 1 <= 0
           share == limits.nodes \div CheckShare
           period == IF limits.nodes # 0 THEN Least({CheckPeriod, share}) ELSE CheckPeriod
           calls == IF looks THEN period ELSE mgr.callsCnt - 1
           room == Most({1, mgr.callsCnt})
           left == Most({1, calls})
<1>1. /\ mgr \in SearchManagers /\ mgr.callsCnt \in Int /\ mgr.callsCnt <= CheckPeriod
      /\ CheckPeriod \in Nat /\ CheckPeriod >= 1 /\ CheckShare \in Nat /\ CheckShare > 0
      /\ late \in Nat /\ limits.nodes \in Nat
  BY TimeAssumption DEF Punctual, SearchManagers, IInv, Limits
<1>2. share \in Int /\ CheckPeriod \in Int
  <2>1. limits.nodes \in Int
    BY <1>1
  <2> QED BY <1>1, <2>1, Quotient
<1> HIDE DEF share
<1>3. Least({CheckPeriod, share}) \in {CheckPeriod, share} /\ Least({CheckPeriod, share}) <= CheckPeriod
  BY <1>2, LeastOfTwo, Zenon
<1>4. period \in Int /\ period <= CheckPeriod
  BY <1>1, <1>2, <1>3
<1> HIDE DEF period
<1>5. calls \in Int /\ calls <= CheckPeriod
  BY <1>1, <1>4
<1>6. mgr' = [mgr EXCEPT !.callsCnt = calls] /\ UNCHANGED <<tm, limits, clock, spent, phase, searches, asked>>
  BY DEF CheckTime, period, share
<1>7. /\ mgr' \in SearchManagers /\ mgr'.callsCnt = calls
      /\ mgr'.ponder = mgr.ponder /\ mgr'.stopOnPonderhit = mgr.stopOnPonderhit
  <2> HIDE DEF calls
  <2> QED BY <1>1, <1>5, <1>6 DEF SearchManagers
<1>8. (looks /\ Raises <=> stopped') /\ (stopped' <=> byClock') /\ ~stopped /\ late' = IF Due THEN late + 1 ELSE 0
  BY DEF CheckTime, Raises
<1>9. Raises <=> Due
  BY RaisesIsDue DEF Punctual
<1>10. 1 \in Int
  OBVIOUS
<1>11. room \in {1, mgr.callsCnt} /\ room >= 1 /\ room >= mgr.callsCnt /\ late + room <= CheckPeriod
  <2>1. room \in {1, mgr.callsCnt} /\ room >= 1 /\ room >= mgr.callsCnt
    BY <1>1, <1>10, MostOfTwo, Zenon
  <2>2. late + room <= CheckPeriod
    BY <1>8 DEF Punctual
  <2> QED BY <2>1, <2>2
<1>12. left \in {1, calls} /\ left >= 1 /\ left >= calls
  BY <1>5, <1>10, MostOfTwo, Zenon
<1>13. byClock' => Due'
  <2>1. byClock' => Due
    BY <1>8, <1>9
  <2> QED BY <1>6, <1>7, <2>1, DueStays
<1>14. asked' \in Limits /\ Renders(limits, asked)'
  BY <1>6 DEF Punctual, Renders
<1> HIDE DEF calls, room, left
<1>15. late' \in Nat /\ late' <= CheckPeriod
  BY <1>1, <1>8, <1>11
<1>16. ~stopped' => ~byClock' /\ late' + left <= CheckPeriod
  <2> SUFFICES ASSUME ~stopped' PROVE ~byClock' /\ late' + left <= CheckPeriod
    OBVIOUS
  <2>1. ~byClock'
    BY <1>8
  <2>2. CASE ~Due
    BY <1>1, <1>5, <1>8, <1>12, <2>2
  <2>3. CASE Due
    <3>1. ~looks
      BY <1>8, <1>9, <2>3
    <3>2. calls = mgr.callsCnt - 1 /\ calls >= 1
      BY <1>1, <3>1 DEF calls
    <3>3. left = calls /\ room = mgr.callsCnt
      BY <1>1, <1>11, <1>12, <3>2
    <3> QED BY <1>1, <1>8, <1>11, <2>1, <2>3, <3>2, <3>3
  <2> QED BY <2>2, <2>3, <2>1
<1> QED BY <1>5, <1>7, <1>13, <1>14, <1>15, <1>16 DEF Punctual, left

(* A step that lets the counter and the looks missed alone keeps the room,  *)
(* once stopped whatever happens to the manager's flags but while it was    *)
(* the clock that stopped it.                                               *)
LEMMA RoomStays ==
  ASSUME Punctual, mgr' \in SearchManagers, mgr'.callsCnt \in {mgr.callsCnt, 0},
         UNCHANGED <<limits, asked, late, byClock>>, stopped => stopped', byClock => Due'
  PROVE  Punctual'
<1> DEFINE room == Most({1, mgr.callsCnt})
           left == Most({1, mgr'.callsCnt})
<1>1. /\ mgr.callsCnt \in Int /\ mgr'.callsCnt \in Int /\ mgr.callsCnt <= CheckPeriod
      /\ CheckPeriod \in Nat /\ late \in Nat /\ 1 \in Int
  BY TimeAssumption DEF Punctual, SearchManagers
<1>2. room \in {1, mgr.callsCnt} /\ room >= 1 /\ room >= mgr.callsCnt
  BY <1>1, MostOfTwo, Zenon
<1>3. left \in {1, mgr'.callsCnt} /\ left >= 1 /\ left >= mgr'.callsCnt
  BY <1>1, MostOfTwo, Zenon
<1>4. ~stopped => late + room <= CheckPeriod
  BY DEF Punctual
<1> HIDE DEF room, left
<1>5. left <= room /\ left \in Int /\ room \in Int
  BY <1>1, <1>2, <1>3
<1>6. mgr'.callsCnt <= CheckPeriod
  BY <1>1
<1>7. ~stopped' => ~byClock' /\ late' + left <= CheckPeriod
  BY <1>1, <1>4, <1>5 DEF Punctual
<1>8. asked' \in Limits /\ Renders(limits, asked)' /\ late' \in Nat /\ late' <= CheckPeriod
  BY DEF Punctual, Renders
<1>9. byClock' => Due'
  OBVIOUS
<1> QED BY <1>6, <1>7, <1>8, <1>9 DEF Punctual, left

(* A flag of the manager.                                                   *)
LEMMA ManagerFlag ==
  ASSUME NEW m \in SearchManagers, NEW b \in BOOLEAN
  PROVE  /\ [m EXCEPT !.ponder = b] \in SearchManagers
         /\ [m EXCEPT !.ponder = b].callsCnt = m.callsCnt
         /\ [m EXCEPT !.stopOnPonderhit = b] \in SearchManagers
         /\ [m EXCEPT !.stopOnPonderhit = b].callsCnt = m.callsCnt
  BY DEF SearchManagers

LEMMA ManagerCleared ==
  ASSUME NEW m \in SearchManagers, NEW a \in Int
  PROVE  LET n == [m EXCEPT !.callsCnt = 0, !.adjust = a]
         IN  /\ n \in SearchManagers /\ n.callsCnt = 0
             /\ n.ponder = m.ponder /\ n.stopOnPonderhit = m.stopOnPonderhit
<1> DEFINE n == [m EXCEPT !.callsCnt = 0, !.adjust = a]
<1>1. 0 \in Int /\ m \in [ponder : BOOLEAN, stopOnPonderhit : BOOLEAN, callsCnt : Int, adjust : Int]
  BY DEF SearchManagers
<1>2. n \in [ponder : BOOLEAN, stopOnPonderhit : BOOLEAN, callsCnt : Int, adjust : Int]
  BY <1>1
<1>3. n.callsCnt = 0 /\ n.ponder = m.ponder /\ n.stopOnPonderhit = m.stopOnPonderhit
  BY <1>1, Zenon
<1> QED BY <1>2, <1>3 DEF SearchManagers

LEMMA PunctualStep == IInv /\ Punctual /\ [TimeNext]_timeVars => Punctual'
<1> SUFFICES ASSUME IInv, Punctual, [TimeNext]_timeVars PROVE Punctual'
  OBVIOUS
<1>a. mgr \in SearchManagers /\ (byClock => Due) /\ (~stopped => ~byClock)
  BY DEF Punctual
<1>b. Due => ~mgr.ponder
  BY DEF Due
<1>1. ASSUME NEW l \in GoCommands, Go(l) PROVE Punctual'
  <2>1. PICK share \in Shares, adjust \in Adjusts, scale \in MaxScales :
          LET done == InitBudgets(l, share, adjust, scale)
          IN  /\ tm' = done.tm
              /\ limits' = done.limits
              /\ mgr' = [mgr EXCEPT !.adjust = done.adjust, !.ponder = l.ponderMode, !.stopOnPonderhit = FALSE]
    BY <1>1 DEF Go
  <2> DEFINE done == InitBudgets(l, share, adjust, scale)
             a == done.adjust
             p == l.ponderMode
             f == FALSE
             room == Most({1, mgr.callsCnt})
  <2>2. l \in Limits
    BY TimeAssumption
  <2>3. a \in Adjusts \cup {Unset}
    BY InitIsOwn
  <2>4. a \in Int
    <3> HIDE DEF a
    <3> QED BY <2>3, TimeAssumption DEF Unset
  <2>5. p \in BOOLEAN /\ f \in BOOLEAN
    BY <2>2 DEF Limits
  <2>6. mgr' = [mgr EXCEPT !.adjust = a, !.ponder = p, !.stopOnPonderhit = f]
    BY <2>1
  <2>7. Renders(limits', l)
    BY <2>1, <2>2, InitRenders
  <2>8. asked' = l /\ late' = 0 /\ ~byClock'
    BY <1>1 DEF Go
  <2> HIDE DEF a, p, f, done
  <2>9. mgr' \in SearchManagers /\ mgr'.callsCnt = mgr.callsCnt
    <3>1. mgr \in SearchManagers
      BY <1>a
    <3> QED BY <2>4, <2>5, <2>6, <3>1 DEF SearchManagers
  <2>10. mgr.callsCnt \in Int /\ mgr.callsCnt <= CheckPeriod /\ CheckPeriod \in Nat /\ CheckPeriod >= 1 /\ 1 \in Int
    BY <1>a, TimeAssumption DEF Punctual, SearchManagers
  <2>11. room \in {1, mgr.callsCnt}
    BY <2>10, MostOfTwo, Zenon
  <2>12. room <= CheckPeriod /\ room \in Int
    BY <2>10, <2>11
  <2>13. late' + Most({1, mgr'.callsCnt}) <= CheckPeriod
    <3> HIDE DEF room
    <3>1. late' + room <= CheckPeriod
      BY <2>8, <2>12
    <3> QED BY <2>9, <3>1 DEF room
  <2>14. Renders(limits, asked)'
    BY <2>7, <2>8 DEF Renders
  <2> QED BY <2>2, <2>8, <2>9, <2>10, <2>13, <2>14 DEF Punctual
<1>2. ASSUME NEW n \in Steps, Count(n) \/ Tick(n) PROVE Punctual'
  <2>1. UNCHANGED <<limits, mgr, stopped, asked, late, byClock>> /\ ~stopped
    BY <1>2 DEF Count, Tick
  <2>2. ~byClock'
    BY <1>a, <2>1
  <2> QED BY <1>a, <2>1, <2>2, RoomStays
<1>3. CASE CheckTime
  BY <1>3, CheckTimePunctual
<1>4. ASSUME NEW factor \in Factors, NEW single \in BOOLEAN, NEW decided \in BOOLEAN,
             EndIteration(factor, single, decided)
      PROVE  Punctual'
  <2> DEFINE b == TRUE
  <2>1. mgr' = [mgr EXCEPT !.stopOnPonderhit = b] \/ mgr' = mgr
    BY <1>4 DEF EndIteration
  <2>2. b \in BOOLEAN
    OBVIOUS
  <2> HIDE DEF b
  <2>3. mgr' \in SearchManagers /\ mgr'.callsCnt = mgr.callsCnt
    BY <1>a, <2>1, <2>2, ManagerFlag
  <2>4. UNCHANGED <<limits, asked, late, byClock>> /\ ~stopped
    BY <1>4 DEF EndIteration
  <2>5. ~byClock'
    BY <1>a, <2>4
  <2> QED BY <2>3, <2>4, <2>5, RoomStays
<1>5. CASE FailLow \/ PonderHit
  <2> DEFINE b == FALSE
  <2>1. mgr' = [mgr EXCEPT !.stopOnPonderhit = b] \/ mgr' = [mgr EXCEPT !.ponder = b]
    BY <1>5 DEF FailLow, PonderHit
  <2>2. b \in BOOLEAN
    OBVIOUS
  <2> HIDE DEF b
  <2>3. mgr' \in SearchManagers /\ mgr'.callsCnt = mgr.callsCnt
    BY <1>a, <2>1, <2>2, ManagerFlag
  <2>4. UNCHANGED <<limits, stopped, asked, late, byClock>> /\ (~stopped \/ mgr.ponder)
    BY <1>5 DEF FailLow, PonderHit
  <2>5. ~byClock'
    BY <1>a, <1>b, <2>4
  <2> QED BY <2>3, <2>4, <2>5, RoomStays
<1>6. CASE Stop
  <2>1. UNCHANGED <<limits, mgr, asked, late, byClock>> /\ ~stopped /\ stopped'
    BY <1>6 DEF Stop
  <2>2. ~byClock'
    BY <1>a, <2>1
  <2> QED BY <1>a, <2>1, <2>2, RoomStays
<1>7. CASE IterationsEnd
  <2>1. UNCHANGED <<tm, limits, mgr, clock, spent, stopped, asked, late, byClock>>
    BY <1>7 DEF IterationsEnd
  <2>2. byClock' => Due'
    BY <1>a, <2>1, DueStays
  <2> QED BY <1>a, <2>1, <2>2, RoomStays
<1>8. CASE ProbeTables
  <2>1. UNCHANGED <<tm, limits, clock, spent, stopped, asked, late, byClock>> /\ mgr' = [mgr EXCEPT !.callsCnt = 0]
    BY <1>8 DEF ProbeTables
  <2>2. /\ mgr' \in SearchManagers /\ mgr'.callsCnt = 0
        /\ mgr'.ponder = mgr.ponder /\ mgr'.stopOnPonderhit = mgr.stopOnPonderhit
    BY <1>a, <2>1 DEF SearchManagers
  <2>3. byClock' => Due'
    BY <1>a, <2>1, <2>2, DueStays
  <2> QED BY <2>1, <2>2, <2>3, RoomStays
<1>9. CASE Answer
  <2> DEFINE paid == Most({0, tm.availableNodes - (spent - limits.inc)})
  <2>1. UNCHANGED <<limits, mgr, clock, spent, asked, late, byClock>> /\ stopped'
    BY <1>9 DEF Answer
  <2>2. tm' = tm \/ tm' = [tm EXCEPT !.availableNodes = paid]
    BY <1>9 DEF Answer
  <2> HIDE DEF paid
  <2>3. tm'.useNodesTime = tm.useNodesTime /\ tm'.maximum = tm.maximum
    BY <2>2 DEF IInv, Managers
  <2>4. byClock' => Due'
    BY <1>a, <2>1, <2>3, DueStays
  <2> QED BY <1>a, <2>1, <2>4, RoomStays
<1>10. CASE Clear
  <2> DEFINE u == Unset
  <2>1. UNCHANGED <<limits, clock, spent, stopped, asked, late, byClock>>
    BY <1>10 DEF Clear
  <2>2. /\ tm' = [tm EXCEPT !.availableNodes = u, !.previousMovesToGo = 0]
        /\ mgr' = [mgr EXCEPT !.callsCnt = 0, !.adjust = u]
    BY <1>10 DEF Clear
  <2>3. u \in Int
    BY DEF Unset
  <2> HIDE DEF u
  <2>4. tm'.useNodesTime = tm.useNodesTime /\ tm'.maximum = tm.maximum
    BY <2>2 DEF IInv, Managers
  <2>5. /\ mgr' \in SearchManagers /\ mgr'.callsCnt = 0
        /\ mgr'.ponder = mgr.ponder /\ mgr'.stopOnPonderhit = mgr.stopOnPonderhit
    <3> DEFINE n == [mgr EXCEPT !.callsCnt = 0, !.adjust = u]
    <3>1. /\ n \in SearchManagers /\ n.callsCnt = 0
          /\ n.ponder = mgr.ponder /\ n.stopOnPonderhit = mgr.stopOnPonderhit
      BY <1>a, <2>3, ManagerCleared, Zenon
    <3> QED BY <2>2, <3>1, Zenon
  <2>6. byClock' => Due'
    BY <1>a, <2>1, <2>4, <2>5, DueStays
  <2> QED BY <2>1, <2>5, <2>6, RoomStays
<1>11. CASE UNCHANGED timeVars
  <2>1. UNCHANGED <<tm, limits, mgr, clock, spent, stopped, asked, late, byClock>>
    BY <1>11 DEF timeVars
  <2>2. byClock' => Due'
    BY <1>a, <2>1, DueStays
  <2> QED BY <1>a, <2>1, <2>2, RoomStays
<1> QED BY <1>1, <1>2, <1>3, <1>4, <1>5, <1>6, <1>7, <1>8, <1>9, <1>10, <1>11 DEF TimeNext

(* However often a search asks and whatever it asks for, a search that is   *)
(* due and still counts its calls has missed at most one period of looks,   *)
(* and the clock ends no search before the command says so, in milliseconds *)
(* and in nodes alike (search.cpp, check_time; timeman.cpp, init).          *)
THEOREM SearchesStopInTime == TimeSpec => []StopsInTime
<1>1. Punctual => StopsInTime
  BY DEF Punctual, StopsInTime
<1> QED BY <1>1, IInvInit, IInvStep, PunctualInit, PunctualStep, PTL DEF TimeSpec

(***************************************************************************)
(* The statistics: counters of any limit, slices of any number of rows,    *)
(* banks of up to 1024 workers, every bonus the unclamped arm admits, any  *)
(* divisors with a magic of their own and any averaged scores an int holds *)
(* twice over.                                                              *)
(***************************************************************************)

LEMMA StatKinds ==
  ASSUME stat \in StatCalls
  PROVE  /\ stat.op = "update"  => stat \in UpdateCalls
         /\ stat.op = "slice"   => stat \in SliceCalls
         /\ stat.op = "row"     => stat \in RowCalls
         /\ stat.op = "cont"    => stat \in ContCalls
         /\ stat.op = "correct" => stat \in CorrectCalls
         /\ stat.op = "divide"  => stat \in DivideCalls
         /\ stat.op = "average" => stat \in AverageCalls
<1>1. stat \in UpdateCalls => stat.op = "update"
  BY DEF UpdateCalls
<1>2. stat \in SliceCalls => stat.op = "slice"
  BY DEF SliceCalls
<1>3. stat \in RowCalls => stat.op = "row"
  BY DEF RowCalls
<1>4. stat \in ContCalls => stat.op = "cont"
  BY DEF ContCalls
<1>5. stat \in CorrectCalls => stat.op = "correct"
  BY DEF CorrectCalls
<1>6. stat \in DivideCalls => stat.op = "divide"
  BY DEF DivideCalls
<1>7. stat \in AverageCalls => stat.op = "average"
  BY DEF AverageCalls
<1> QED BY <1>1, <1>2, <1>3, <1>4, <1>5, <1>6, <1>7 DEF StatCalls

(* Dividing by the limit what a counter and a bonus within it make up.      *)
LEMMA QuotBetween ==
  ASSUME NEW D \in Nat, D > 0, NEW a \in 0 .. D, NEW b \in 0 .. D
  PROVE  /\ (a * b) \div D \in 0 .. a
         /\ (a * b) \div D <= b
         /\ (a * b) \div D >= a + b - D
<1> DEFINE k == a * b
           q == k \div D
<1>1. k \in Nat /\ k <= a * D /\ k <= b * D
  <2>1. a * b <= a * D
    OBVIOUS
  <2>2. a * b <= D * b /\ D * b = b * D
    OBVIOUS
  <2> QED BY <2>1, <2>2
<1>2. k >= (a + b - D) * D
  <2>1. (D - a) * (D - b) >= 0
    OBVIOUS
  <2>2. (D - a) * (D - b) = a * b - (a + b - D) * D
    OBVIOUS
  <2> QED BY <2>1, <2>2
<1> HIDE DEF k
<1>3. q \in Int /\ k = D * q + (k % D) /\ k % D \in 0 .. D - 1
  BY <1>1, DivMod
<1> HIDE DEF q
<1>4. q >= 0
  <2>1. ASSUME q <= -1 PROVE FALSE
    <3>1. D * q <= D * (-1)
      BY <2>1, <1>3
    <3> QED BY <3>1, <1>1, <1>3
  <2> QED BY <2>1, <1>3
<1>5. ASSUME NEW x \in Int, k <= x * D PROVE q <= x
  <2>1. ASSUME q >= x + 1 PROVE FALSE
    <3>1. D * q >= D * (x + 1) /\ D * (x + 1) = x * D + D
      BY <2>1, <1>3
    <3> QED BY <3>1, <1>1, <1>3, <1>5
  <2> QED BY <2>1, <1>3
<1>6. ASSUME NEW x \in Int, k >= x * D PROVE q >= x
  <2>1. ASSUME q <= x - 1 PROVE FALSE
    <3>1. D * q <= D * (x - 1) /\ D * (x - 1) = x * D - D
      BY <2>1, <1>3
    <3> QED BY <3>1, <1>1, <1>3, <1>6
  <2> QED BY <2>1, <1>3
<1>7. a \in Int /\ b \in Int /\ a + b - D \in Int
  OBVIOUS
<1>8. q <= a /\ q <= b /\ q >= a + b - D
  BY <1>1, <1>2, <1>5, <1>6, <1>7
<1> QED BY <1>3, <1>4, <1>8 DEF q, k

LEMMA CountersHold == stat \in StatCalls => CountersGravitate
<1> SUFFICES ASSUME stat \in StatCalls, stat.op = "update" PROVE CountersGravitate
  BY DEF CountersGravitate
<1>1. PICK D \in CounterLimits : stat \in [op : {"update"}, limit : {D}, value : -D .. D, bonus : -2 * D .. 2 * D]
  BY StatKinds DEF UpdateCalls
<1> DEFINE v == stat.value
           c == Clamped(stat.bonus, -D, D)
<1>2. /\ D \in Nat /\ D > 0 /\ stat.limit = D /\ v \in -D .. D /\ stat.bonus \in Int
  <2>1. D \in Nat /\ D > 0
    BY LimitsAssumption
  <2>2. stat.limit = D /\ stat.value \in -D .. D /\ stat.bonus \in -2 * D .. 2 * D
    BY <1>1
  <2> QED BY <2>1, <2>2
<1>3. /\ c \in -D .. D /\ (stat.bonus >= 0 => c >= 0) /\ (stat.bonus <= 0 => c <= 0)
  BY <1>2 DEF Clamped
<1>4. Update(stat.value, stat.bonus, stat.limit) = v + c - Quot(v * Size(c), D)
  BY <1>2 DEF Update
<1> HIDE DEF v, c
<1>5. Size(c) \in 0 .. D /\ (c >= 0 => Size(c) = c) /\ (c <= 0 => Size(c) = -c)
  BY <1>3, <1>2 DEF Size
<1> DEFINE new == v + c - Quot(v * Size(c), D)
<1>6. new \in -D .. D /\ (c >= 0 => new >= v) /\ (c <= 0 => new <= v)
  <2>1. CASE v >= 0
    <3>1. v \in 0 .. D /\ v * Size(c) >= 0 /\ v * Size(c) \in Int
      BY <2>1, <1>2, <1>5
    <3>2. Quot(v * Size(c), D) = (v * Size(c)) \div D
      BY <3>1 DEF Quot
    <3> DEFINE q == (v * Size(c)) \div D
    <3>3. q \in 0 .. v /\ q <= Size(c) /\ q >= v + Size(c) - D
      BY <3>1, <1>2, <1>5, QuotBetween
    <3>4. new = v + c - q
      BY <3>2
    <3> HIDE DEF q, new
    <3> QED BY <3>1, <3>3, <3>4, <1>2, <1>3, <1>5
  <2>2. CASE v < 0
    <3>1. /\ -v \in 0 .. D /\ v * Size(c) \in Int /\ -(v * Size(c)) = (-v) * Size(c)
      BY <2>2, <1>2, <1>5
    <3> DEFINE q == ((-v) * Size(c)) \div D
    <3>2. q \in 0 .. -v /\ q <= Size(c) /\ q >= -v + Size(c) - D
      BY <3>1, <1>2, <1>5, QuotBetween
    <3>3. Quot(v * Size(c), D) = -q
      <4>1. CASE v * Size(c) < 0
        BY <4>1, <3>1 DEF Quot
      <4>2. CASE v * Size(c) = 0
        <5>1. (-v) * Size(c) = 0
          BY <4>2, <3>1
        <5>2. 0 \div D = 0
          BY <1>2
        <5> QED BY <4>2, <5>1, <5>2 DEF Quot
      <4>3. (-v) * Size(c) >= 0
        BY <3>1, <1>5
      <4>4. v * Size(c) <= 0
        BY <4>3, <3>1
      <4> QED BY <4>1, <4>2, <4>4, <3>1
    <3>4. new = v + c + q
      BY <3>2, <3>3, <1>2, <1>3
    <3> HIDE DEF q, new
    <3> QED BY <3>1, <3>2, <3>4, <1>2, <1>3, <1>5, <2>2
  <2> QED BY <2>1, <2>2, <1>2
<1> HIDE DEF new
<1>7. Update(stat.value, stat.bonus, stat.limit) = new
  BY <1>4 DEF new
<1> QED BY <1>2, <1>3, <1>6, <1>7 DEF CountersGravitate, v

(* The rows before the one a slice begins with.                             *)
LEMMA SliceStarts ==
  ASSUME NEW C \in Nat, NEW T \in Nat, T > 0, NEW i \in Int, NEW r \in Int
  PROVE  /\ (i * C) \div T \in Int
         /\ (i * C) \div T <= r <=> i * C < (r + 1) * T
<1> DEFINE k == i * C
           q == k \div T
<1>1. k \in Int
  OBVIOUS
<1> HIDE DEF k
<1>2. q \in Int /\ k % T \in 0 .. T - 1 /\ k = T * q + (k % T)
  BY <1>1, DivMod
<1> HIDE DEF q
<1>3. ASSUME q <= r PROVE k < (r + 1) * T
  <2>1. T * q <= T * r /\ T * r = r * T /\ (r + 1) * T = r * T + T /\ r * T \in Int
    BY <1>2, <1>3
  <2> QED BY <2>1, <1>1, <1>2
<1>4. ASSUME ~(q <= r) PROVE ~(k < (r + 1) * T)
  <2>1. T * q >= T * (r + 1) /\ T * (r + 1) = (r + 1) * T /\ (r + 1) * T \in Int
    BY <1>2, <1>4
  <2> QED BY <2>1, <1>1, <1>2
<1> QED BY <1>2, <1>3, <1>4 DEF q, k

LEMMA WorkerCount == \A n \in Workers : n \in Int /\ 1 <= n /\ n <= 1024
  BY WorkersAssumption

LEMMA SlicesHold == stat \in StatCalls => SlicesPartition
<1> SUFFICES ASSUME stat \in StatCalls, stat.op = "slice", NEW r \in 0 .. stat.count - 1
             PROVE  Cardinality({i \in 0 .. stat.total - 1 :
                                   r \in shared_slice(stat.count, i, stat.total)}) = 1
  BY DEF SlicesPartition
<1> DEFINE C == stat.count
           T == stat.total
           Clearing == {i \in 0 .. T - 1 : r \in shared_slice(C, i, T)}
           w == ((r + 1) * T - 1) \div C
<1>1. C \in Nat /\ T \in Nat /\ T > 0
  <2>1. stat.count \in RowCounts /\ stat.total \in Workers
    BY StatKinds DEF SliceCalls
  <2>2. stat.count \in Nat
    BY <2>1, RowsAssumption
  <2>3. stat.total \in Nat /\ stat.total > 0
    BY <2>1, WorkerCount
  <2> QED BY <2>2, <2>3
<1>2. C > 0 /\ r \in 0 .. C - 1 /\ r \in Int
  BY <1>1
<1> HIDE DEF C, T
<1>3. /\ w \in Int /\ w * C < (r + 1) * T /\ (w + 1) * C >= (r + 1) * T
  <2> DEFINE k == (r + 1) * T - 1
  <2>1. k \in Int
    BY <1>1, <1>2
  <2> HIDE DEF k
  <2>2. w \in Int /\ k % C \in 0 .. C - 1 /\ k = C * w + (k % C)
    BY <2>1, <1>1, <1>2, DivMod DEF k
  <2> HIDE DEF w
  <2>3. C * w = w * C /\ (w + 1) * C = w * C + C /\ w * C \in Int /\ (r + 1) * T = k + 1
    BY <2>1, <2>2, <1>1, <1>2 DEF k
  <2> QED BY <2>1, <2>2, <2>3, <1>1, <1>2
<1> HIDE DEF w
<1>4. w \in 0 .. T - 1
  <2>1. (r + 1) * T >= T
    BY <1>1, <1>2
  <2>2. (r + 1) * T <= C * T /\ C * T = T * C
    BY <1>1, <1>2
  <2>3. ~(w <= -1)
    <3>1. ASSUME w <= -1 PROVE FALSE
      <4>1. (w + 1) * C <= 0 * C
        BY <3>1, <1>1, <1>3
      <4> QED BY <4>1, <2>1, <1>1, <1>2, <1>3
    <3> QED BY <3>1
  <2>4. ~(w >= T)
    <3>1. ASSUME w >= T PROVE FALSE
      <4>1. w * C >= T * C
        BY <3>1, <1>1, <1>3
      <4> QED BY <4>1, <2>2, <1>1, <1>2, <1>3
    <3> QED BY <3>1
  <2> QED BY <2>3, <2>4, <1>1, <1>3
<1>5. ASSUME NEW i \in 0 .. T - 1
      PROVE  r \in shared_slice(C, i, T) <=> i * C < (r + 1) * T /\ (i + 1) * C >= (r + 1) * T
  <2>1. /\ (i * C) \div T \in Int /\ (i * C) \div T <= r <=> i * C < (r + 1) * T
        /\ ((i + 1) * C) \div T \in Int
        /\ ((i + 1) * C) \div T <= r <=> (i + 1) * C < (r + 1) * T
    BY <1>1, <1>2, <1>5, SliceStarts
  <2>2. (i + 1) * C \in Int /\ (r + 1) * T \in Int
    BY <1>1, <1>2, <1>5
  <2>3. CASE i + 1 = T
    <3>1. shared_slice(C, i, T) = (i * C) \div T .. C - 1
      BY <2>3 DEF shared_slice
    <3>2. (r + 1) * T <= C * T /\ C * T = T * C
      BY <1>1, <1>2
    <3> QED BY <2>1, <2>3, <3>1, <3>2, <1>1, <1>2
  <2>4. CASE i + 1 # T
    <3>1. shared_slice(C, i, T) = (i * C) \div T .. ((i + 1) * C) \div T - 1
      BY <2>4 DEF shared_slice
    <3> HIDE DEF shared_slice
    <3> QED BY <2>1, <2>2, <3>1, <1>1, <1>2
  <2> QED BY <2>3, <2>4
<1>6. w \in Clearing
  BY <1>3, <1>4, <1>5
<1>7. ASSUME NEW i \in Clearing PROVE i = w
  <2>1. i \in 0 .. T - 1 /\ i * C < (r + 1) * T /\ (i + 1) * C >= (r + 1) * T
    BY <1>5, <1>7
  <2>2. (r + 1) * T \in Int /\ i * C \in Int /\ w * C \in Int
    BY <2>1, <1>1, <1>2, <1>3
  <2>3. ~(i >= w + 1)
    <3>1. ASSUME i >= w + 1 PROVE FALSE
      <4>1. i * C >= (w + 1) * C
        BY <3>1, <2>1, <1>1, <1>3
      <4> QED BY <4>1, <2>1, <2>2, <1>1, <1>3
    <3> QED BY <3>1
  <2>4. ~(w >= i + 1)
    <3>1. ASSUME w >= i + 1 PROVE FALSE
      <4>1. w * C >= (i + 1) * C
        BY <3>1, <2>1, <1>1, <1>3
      <4> QED BY <4>1, <2>1, <2>2, <1>1, <1>3
    <3> QED BY <3>1
  <2> QED BY <2>1, <2>3, <2>4, <1>3
<1>8. Clearing = {w}
  BY <1>6, <1>7
<1> QED BY <1>8, FS_Singleton DEF C, T

(* An arm that admits no larger bonus than ClampFree needs no clamp: no     *)
(* product of two folded weights reaches 65536.                             *)
LEMMA ClampHolds == stat \in StatCalls => ClampIsIdle
<1> SUFFICES ASSUME stat \in StatCalls, stat.op = "cont" PROVE ClampIsIdle
  BY DEF ClampIsIdle
<1> DEFINE b == stat.bonus
           k == stat.step
           wt == conthist_bonuses[k].weight
           mu == CMHCMultipliers[stat.positive + 1]
<1>1. k \in 1 .. 5 /\ stat.positive \in 0 .. 5 /\ b \in Int /\ -29927 <= b /\ b <= 29927
  <2>1. stat \in ContCalls
    BY StatKinds
  <2>2. /\ stat.step \in 1 .. 5 /\ stat.positive \in 0 .. 5
        /\ stat.bonus \in {0, 1, -1, 5, 1000} \cup (ClampFree - 1 .. ClampFree)
                            \cup (-ClampFree .. 1 - ClampFree)
    BY <2>1 DEF ContCalls
  <2>3. ClampFree = 29927
    BY DEF ClampFree, ContLimit
  <2>4. stat.bonus \in {0, 1, -1, 5, 1000} => b \in Int /\ -29927 <= b /\ b <= 29927
    OBVIOUS
  <2>5. stat.bonus \in ClampFree - 1 .. ClampFree => b \in Int /\ -29927 <= b /\ b <= 29927
    BY <2>3
  <2>6. stat.bonus \in -ClampFree .. 1 - ClampFree => b \in Int /\ -29927 <= b /\ b <= 29927
    BY <2>3
  <2> QED BY <2>2, <2>4, <2>5, <2>6
<1>2. /\ wt \in Int /\ 0 <= wt /\ wt <= 520
      /\ conthist_bonuses[k].index \in 1 .. 6
      /\ mu \in Int /\ 0 <= mu /\ mu <= 126
  <2> DEFINE j == stat.positive + 1
  <2>1. mu \in Int /\ 0 <= mu /\ mu <= 126
    <3>1. j = 1 \/ j = 2 \/ j = 3 \/ j = 4 \/ j = 5 \/ j = 6
      BY <1>1
    <3>2. mu = CMHCMultipliers[j]
      OBVIOUS
    <3> HIDE DEF j, mu
    <3> QED BY <3>1, <3>2 DEF CMHCMultipliers
  <2>2. k = 1 \/ k = 2 \/ k = 3 \/ k = 4 \/ k = 5
    BY <1>1
  <2>3. wt \in Int /\ 0 <= wt /\ wt <= 520 /\ conthist_bonuses[k].index \in 1 .. 6
    BY <2>2 DEF conthist_bonuses
  <2> QED BY <2>1, <2>3
<1> DEFINE m == wt * mu
<1>3. m \in Int /\ 0 <= m /\ m <= 65535
  <2>1. wt * mu <= 520 * mu /\ wt * mu >= 0 /\ wt * mu \in Int
    BY <1>2
  <2> QED BY <2>1, <1>2
<1>4. b * wt * mu = b * m
  BY <1>1, <1>2
<1> HIDE DEF m, b, wt, mu, k
<1>5. LET q == Quot(b * m, 65536) IN q \in Int /\ -29927 <= q /\ q <= 29927
  <2>1. CASE b >= 0
    <3>1. b * m <= b * 65535 /\ b * m >= 0 /\ b * m \in Int
      BY <2>1, <1>1, <1>3
    <3>2. PICK p \in Int : p = b * m
      BY <3>1
    <3>3. Quot(p, 65536) = p \div 65536
      BY <3>1, <3>2 DEF Quot
    <3> QED BY <3>1, <3>2, <3>3, <1>1
  <2>2. CASE b < 0
    <3>1. (-b) * m <= (-b) * 65535 /\ (-b) * m >= 0 /\ b * m \in Int /\ (-b) * m = -(b * m)
      BY <2>2, <1>1, <1>3
    <3>2. PICK p \in Int : p = -(b * m)
      BY <3>1
    <3>3. Quot(-p, 65536) = -(p \div 65536)
      BY <3>1, <3>2 DEF Quot
    <3> QED BY <3>1, <3>2, <3>3, <1>1
  <2> QED BY <2>1, <2>2, <1>1
<1>6. StepBonus(b, k, stat.positive) = Quot(b * m, 65536) + (IF conthist_bonuses[k].index < 2 THEN 73 ELSE 0)
  BY <1>4 DEF StepBonus, wt, mu
<1>7. Size(StepBonus(b, k, stat.positive)) <= ContLimit
  <2> DEFINE q == Quot(b * m, 65536)
  <2>1. q \in Int /\ -29927 <= q /\ q <= 29927
    BY <1>5
  <2> HIDE DEF q
  <2>2. StepBonus(b, k, stat.positive) = q \/ StepBonus(b, k, stat.positive) = q + 73
    BY <1>2, <1>6, <2>1 DEF q
  <2> QED BY <2>1, <2>2 DEF Size, ContLimit
<1> QED BY <1>3, <1>7 DEF ClampIsIdle, m, b, k, wt, mu

LEMMA CorrectionHolds == stat \in StatCalls => CorrectionStaysOpen
<1> SUFFICES ASSUME stat \in StatCalls, stat.op = "correct" PROVE CorrectionStaysOpen
  BY DEF CorrectionStaysOpen
<1> DEFINE cv == correction_value(stat.pawn, stat.minor, stat.rest, stat.cnt, stat.played)
<1>1. /\ stat.eval \in Int /\ stat.pawn \in Int /\ stat.minor \in Int /\ stat.rest \in Int
      /\ stat.cnt \in Int
  BY StatKinds DEF CorrectCalls
<1>2. cv \in Int
  BY <1>1 DEF correction_value
<1> HIDE DEF cv
<1>3. Quot(cv, 131072) \in Int
  BY <1>2 DEF Quot
<1> DEFINE v == to_corrected_static_eval(stat.eval, cv)
<1>4. v \in Int /\ -31506 <= v /\ v <= 31506
  BY <1>1, <1>3 DEF to_corrected_static_eval, Clamped, TBWinBound
<1> HIDE DEF v
<1>5. Size(v) < 31507
  BY <1>4 DEF Size
<1> QED BY <1>5 DEF CorrectionStaysOpen, TBWinBound, cv, v

(* A division by the shift, from its two sides.                             *)
LEMMA Between ==
  ASSUME NEW x \in Int, NEW d \in Nat, d > 0, NEW q \in Int, q * d <= x, x < (q + 1) * d
  PROVE  x \div d = q
<1>1. x = d * q + (x - d * q) /\ x - d * q \in 0 .. d - 1
  <2>1. q * d = d * q /\ (q + 1) * d = d * q + d /\ d * q \in Int
    OBVIOUS
  <2> QED BY <2>1
<1> QED BY <1>1, DivUnique

LEMMA DivideHolds == stat \in StatCalls => ReciprocalDivides
<1> SUFFICES ASSUME stat \in StatCalls, stat.op = "divide"
             PROVE  Reciprocal(stat.h, stat.by) = Quot(stat.h, stat.by)
  BY DEF ReciprocalDivides
<1> DEFINE h == stat.h
           d == stat.by
           m == Magic(d)
           e == m * d - Reach
<1>1. h \in Dividends /\ d \in Divisors
  BY StatKinds DEF DivideCalls
<1>2. h \in Int /\ d \in Nat /\ d > 0 /\ Reach \in Nat /\ Reach > 0
  <2>1. stat.h \in Int /\ stat.by \in Nat \ {0} /\ Reach \in Nat \ {0}
    BY <1>1, DivisionAssumption
  <2> QED BY <2>1
<1>3. m * d > Reach /\ Size(h) * (d - 1) < Reach
  BY <1>1, MagicAssumption
<1> HIDE DEF h, d
<1>4. m \in Int /\ e \in 1 .. d - 1
  <2> DEFINE x == Reach + d - 1
  <2>1. x \in Int
    BY <1>2
  <2> HIDE DEF x
  <2>2. x \div d \in Int /\ x % d \in 0 .. d - 1 /\ x = d * (x \div d) + (x % d)
    BY <1>2, <2>1, DivMod
  <2>3. m = x \div d
    BY DEF Magic, x
  <2> HIDE DEF m
  <2>4. m \in Int /\ m * d \in Int /\ m * d = d * (x \div d) /\ x = Reach + d - 1
    BY <1>2, <2>2, <2>3 DEF x
  <2> QED BY <1>2, <1>3, <2>2, <2>4
<1>5. m * d = Reach + e
  BY <1>2, <1>4
<1> HIDE DEF m, e
<1>6. m > 0
  <2>1. ASSUME m <= 0 PROVE FALSE
    <3>1. m * d <= 0 * d
      BY <2>1, <1>2, <1>4
    <3> QED BY <3>1, <1>2, <1>4, <1>5
  <2> QED BY <2>1, <1>4
(* For a number within the bound, the product with the magic lies between   *)
(* the quotient and the next.                                               *)
<1>7. ASSUME NEW k \in Nat, k * (d - 1) < Reach
      PROVE  /\ k * m \in Int /\ k \div d \in Nat
             /\ (k \div d) * Reach <= k * m
             /\ k * m < ((k \div d) + 1) * Reach
             /\ k > 0 => (k \div d) * Reach <= k * m - 1
  <2> DEFINE q == k \div d
             r == k % d
  <2>1. q \in Int /\ r \in 0 .. d - 1 /\ k = d * q + r
    BY <1>2, DivMod
  <2> HIDE DEF q, r
  <2>2. q >= 0
    <3>1. ASSUME q <= -1 PROVE FALSE
      <4>1. d * q <= d * (-1)
        BY <3>1, <2>1, <1>2
      <4> QED BY <4>1, <2>1, <1>2
    <3> QED BY <3>1, <2>1
  <2>3. k * m = q * Reach + (q * e + r * m)
    <3>1. k * m = q * (m * d) + r * m
      BY <2>1, <1>2, <1>4
    <3>2. q * (m * d) = q * Reach + q * e
      BY <1>2, <1>4, <1>5, <2>1
    <3> QED BY <3>1, <3>2, <1>2, <1>4, <2>1
  <2>4. q * e >= 0 /\ r * m >= 0 /\ q * e \in Int /\ r * m \in Int /\ q * Reach \in Int
    BY <2>1, <2>2, <1>2, <1>4, <1>6
  <2>5. q * e + r * m < Reach
    <3> DEFINE s == q * e + r * m
    <3>1. s * d = e * k + r * Reach
      <4>1. s * d = e * (d * q) + r * (m * d)
        BY <2>1, <1>2, <1>4
      <4>2. r * (m * d) = r * Reach + e * r /\ e * k = e * (d * q) + e * r
        BY <2>1, <1>2, <1>4, <1>5
      <4> QED BY <4>1, <4>2, <2>1, <1>2, <1>4
    <3>2. e * k <= k * (d - 1)
      BY <1>2, <1>4
    <3>3. r * Reach <= (d - 1) * Reach /\ (d - 1) * Reach = d * Reach - Reach
      BY <2>1, <1>2
    <3>4. s * d < d * Reach
      BY <3>1, <3>2, <3>3, <1>2, <1>4, <1>7, <2>1
    <3>5. s \in Int
      BY <2>4
    <3> HIDE DEF s
    <3>6. s < Reach
      <4>1. ASSUME s >= Reach PROVE FALSE
        <5>1. s * d >= Reach * d /\ Reach * d = d * Reach
          BY <4>1, <3>5, <1>2
        <5> QED BY <5>1, <3>4, <3>5, <1>2
      <4> QED BY <4>1, <3>5, <1>2
    <3> QED BY <3>6 DEF s
  <2>6. ASSUME k > 0 PROVE q * e + r * m >= 1
    <3>1. CASE q > 0
      <4>1. q * e >= 1
        BY <3>1, <2>1, <1>4, <1>2
      <4> QED BY <4>1, <2>4
    <3>2. CASE q = 0
      <4>1. r > 0
        BY <3>2, <2>1, <2>6, <1>2
      <4>2. r * m >= 1
        BY <4>1, <2>1, <1>4, <1>6
      <4> QED BY <4>2, <2>4
    <3> QED BY <3>1, <3>2, <2>1, <2>2
  <2>7. (q + 1) * Reach = q * Reach + Reach
    BY <2>1, <1>2
  <2> QED BY <2>1, <2>2, <2>3, <2>4, <2>5, <2>6, <2>7, <1>2 DEF q
<1>8. CASE h >= 0
  <2>1. h \in Nat /\ h * (d - 1) < Reach
    BY <1>2, <1>3, <1>8 DEF Size
  <2>2. (h * m) \div Reach = h \div d
    <3>1. /\ h * m \in Int /\ h \div d \in Int
          /\ (h \div d) * Reach <= h * m /\ h * m < ((h \div d) + 1) * Reach
      BY <2>1, <1>7
    <3> QED BY <3>1, <1>2, Between
  <2>3. Reciprocal(h, d) = (h * m) \div Reach + 0
    BY <1>8, <1>2 DEF Reciprocal, m
  <2>4. (h * m) \div Reach \in Int
    BY <2>1, <2>2, <1>7
  <2>5. Quot(h, d) = h \div d
    BY <1>8, <1>2 DEF Quot
  <2>6. Reciprocal(h, d) = Quot(h, d)
    BY <2>2, <2>3, <2>4, <2>5
  <2> QED BY <2>6 DEF h, d
<1>9. CASE h < 0
  <2> DEFINE k == -h
             q == k \div d
  <2>1. k \in Nat /\ k > 0 /\ k * (d - 1) < Reach
    BY <1>2, <1>3, <1>9 DEF Size
  <2>2. /\ k * m \in Int /\ q \in Nat
        /\ q * Reach <= k * m - 1 /\ k * m < (q + 1) * Reach
    BY <2>1, <1>7
  <2>3. h * m = -(k * m)
    BY <1>2, <1>4
  <2> HIDE DEF k, q
  <2>4. (h * m) \div Reach = -q - 1
    <3> DEFINE x == h * m
    <3>1. x \in Int /\ -q - 1 \in Int
      BY <2>2, <2>3
    <3>2. (-q - 1) * Reach = -((q + 1) * Reach) /\ ((-q - 1) + 1) * Reach = -(q * Reach)
      BY <2>2, <1>2
    <3>3. q * Reach \in Int /\ (q + 1) * Reach \in Int
      BY <2>2, <1>2
    <3>4. (-q - 1) * Reach <= x /\ x < ((-q - 1) + 1) * Reach
      BY <2>2, <2>3, <3>1, <3>2, <3>3
    <3> HIDE DEF x
    <3>5. x \div Reach = -q - 1
      BY <3>1, <3>4, <1>2, Between
    <3> QED BY <3>5 DEF x
  <2>5. Reciprocal(h, d) = (h * m) \div Reach + 1
    BY <1>9, <1>2 DEF Reciprocal, m
  <2>6. Quot(h, d) = -q
    BY <1>9, <1>2 DEF Quot, q, k
  <2>7. Reciprocal(h, d) = Quot(h, d)
    BY <2>2, <2>4, <2>5, <2>6
  <2> QED BY <2>7 DEF h, d
<1> QED BY <1>8, <1>9, <1>2

(* The word the average passes through gives the weighted sum back, divided *)
(* by the scale and rounded down: the words that wrapped around are a       *)
(* multiple of an int's after the division.                                 *)
LEMMA AverageRoundsDown ==
  ASSUME NEW value \in RootScores, NEW old \in RootScores, NEW weight \in 12 .. 24
  PROVE  LET s == value * weight + old * (Scale - weight)
         IN  /\ s \in Int /\ s \div 32 \in Int
             /\ value <= old => value <= s \div 32 /\ s \div 32 <= old
             /\ old <= value => old <= s \div 32 /\ s \div 32 <= value
             /\ MovingAverage(value, old, weight) = s \div 32
<1> DEFINE s == value * weight + old * (Scale - weight)
           t == s \div 32
           H == IntSize \div 2
<1>1. /\ H \in Nat /\ IntSize = 2 * H /\ IntSize > 0 /\ IntSize \in Nat
      /\ Word \in Nat /\ Word > 0 /\ Word % (32 * IntSize) = 0
  BY WordAssumption
<1>2. /\ value \in Int /\ -H <= value /\ value <= H - 1
      /\ old \in Int /\ -H <= old /\ old <= H - 1
  <2>1. RootScores \subseteq -H .. H - 1
    BY WordAssumption
  <2> HIDE DEF H
  <2> QED BY <2>1, <1>1
<1> HIDE DEF H
<1>3. s \in Int /\ s = 32 * old + weight * (value - old)
  BY <1>2 DEF Scale
<1>4. /\ value <= old => 32 * value <= s /\ s <= 32 * old
      /\ old <= value => 32 * old <= s /\ s <= 32 * value
  <2> DEFINE u == value - old
             p == weight * u
  <2>1. u \in Int /\ weight \in Int /\ 0 <= weight /\ weight <= 32
    BY <1>2
  <2> HIDE DEF u
  <2>2. CASE u <= 0
    <3>1. p <= 0 /\ 32 * u <= p /\ p \in Int
      BY <2>1, <2>2
    <3> HIDE DEF p
    <3>2. s = 32 * old + p
      BY <1>3 DEF p, u
    <3> HIDE DEF s
    <3> QED BY <3>1, <3>2, <1>2, <2>2 DEF u
  <2>3. CASE u >= 0
    <3>1. p >= 0 /\ 32 * u >= p /\ p \in Int
      BY <2>1, <2>3
    <3> HIDE DEF p
    <3>2. s = 32 * old + p
      BY <1>3 DEF p, u
    <3> HIDE DEF s
    <3> QED BY <3>1, <3>2, <1>2, <2>3 DEF u
  <2> QED BY <2>1, <2>2, <2>3
<1>5. MovingAverage(value, old, weight) = AsInt((s % Word) \div 32)
  BY DEF MovingAverage, Scale
<1> HIDE DEF s
<1>6. t \in Int /\ 32 * t <= s /\ s < 32 * t + 32
  BY <1>3
<1>7. /\ value <= old => value <= t /\ t <= old
      /\ old <= value => old <= t /\ t <= value
  BY <1>2, <1>4, <1>6, <1>3
<1> HIDE DEF t
<1>8. \E j \in Int : (s % Word) \div 32 = t + IntSize * j
  <2> DEFINE c == s \div Word
             n == Word \div (32 * IntSize)
  <2>1. 32 * IntSize \in Nat /\ 32 * IntSize > 0
    BY <1>1
  <2>2. n \in Int /\ Word = (32 * IntSize) * n
    <3>1. n \in Int /\ Word = (32 * IntSize) * n + (Word % (32 * IntSize))
      BY <2>1, <1>1, DivMod
    <3> HIDE DEF n
    <3>2. (32 * IntSize) * n \in Int
      BY <3>1, <1>1
    <3> QED BY <3>1, <3>2, <1>1
  <2>3. c \in Int /\ s % Word \in Int /\ s = Word * c + (s % Word)
    <3>1. Word \in Nat /\ Word > 0 /\ s \in Int
      BY <1>1, <1>3
    <3>2. c \in Int /\ s % Word \in 0 .. Word - 1 /\ s = Word * c + (s % Word)
      BY <3>1, DivMod
    <3> HIDE DEF c
    <3> QED BY <3>1, <3>2
  <2> HIDE DEF c, n
  <2> DEFINE j == -(n * c)
             x == s % Word
  <2>4. j \in Int /\ IntSize * j \in Int
    BY <1>1, <2>2, <2>3
  <2>5. Word * c = -(32 * (IntSize * j))
    <3>1. Word * c = ((32 * IntSize) * n) * c
      BY <2>2
    <3>2. ((32 * IntSize) * n) * c = 32 * (IntSize * (n * c))
      BY <1>1, <2>2, <2>3
    <3>3. IntSize * j = -(IntSize * (n * c)) /\ IntSize * (n * c) \in Int
      BY <1>1, <2>2, <2>3
    <3> QED BY <3>1, <3>2, <3>3
  <2> HIDE DEF j
  <2>6. x \in Int /\ x = s + 32 * (IntSize * j)
    BY <2>3, <2>4, <2>5, <1>3
  <2> HIDE DEF x
  <2> DEFINE g == IntSize * j
  <2>7. g \in Int /\ x = s + 32 * g
    BY <2>4, <2>6
  <2> HIDE DEF g
  <2>8. x \div 32 = t + g
    BY <2>6, <2>7, <1>3, <1>6
  <2> QED BY <2>4, <2>8 DEF x, g
<1>9. PICK j \in Int : (s % Word) \div 32 = t + IntSize * j
  BY <1>8
<1>10. (t + IntSize * j) % IntSize = t % IntSize
  BY <1>1, <1>6, <1>9, ModShift
<1>11. -H <= t /\ t <= H - 1
  BY <1>1, <1>2, <1>6, <1>7
<1>12. t % IntSize = IF t < 0 THEN t + IntSize ELSE t
  <2>1. CASE t < 0
    <3>1. t = IntSize * (-1) + (t + IntSize) /\ t + IntSize \in 0 .. IntSize - 1
      BY <2>1, <1>1, <1>6, <1>11
    <3>2. t % IntSize = t + IntSize
      BY <3>1, <1>1, <1>6, DivUnique
    <3> QED BY <2>1, <3>2
  <2>2. CASE t >= 0
    <3>1. t = IntSize * 0 + t /\ t \in 0 .. IntSize - 1
      BY <2>2, <1>1, <1>6, <1>11
    <3>2. t % IntSize = t
      BY <3>1, <1>1, <1>6, DivUnique
    <3> QED BY <2>2, <3>2, <1>6
  <2> QED BY <2>1, <2>2, <1>6
<1>13. AsInt(t + IntSize * j) = t
  <2> DEFINE y == t % IntSize
  <2>1. AsInt(t + IntSize * j) = IF y >= H THEN y - IntSize ELSE y
    BY <1>10 DEF AsInt, H
  <2> HIDE DEF y
  <2>2. y = IF t < 0 THEN t + IntSize ELSE t
    BY <1>12 DEF y
  <2> QED BY <2>1, <2>2, <1>1, <1>6, <1>11
<1>14. MovingAverage(value, old, weight) = t
  BY <1>5, <1>9, <1>13
<1> QED BY <1>3, <1>6, <1>7, <1>14 DEF s, t

LEMMA AverageHolds == stat \in StatCalls => AverageLiesBetween
<1> SUFFICES ASSUME stat \in StatCalls, stat.op = "average" PROVE AverageLiesBetween
  BY DEF AverageLiesBetween
<1>1. stat.value \in RootScores /\ stat.old \in RootScores /\ stat.weight \in 12 .. 24
  BY StatKinds DEF AverageCalls
<1>2. stat.value \in Int /\ stat.old \in Int
  <2> DEFINE H == IntSize \div 2
  <2>1. H \in Int /\ RootScores \subseteq -H .. H - 1
    BY WordAssumption
  <2> HIDE DEF H
  <2>2. RootScores \subseteq Int
    BY <2>1
  <2> QED BY <1>1, <2>2
<1> DEFINE new == MovingAverage(stat.value, stat.old, stat.weight)
<1>3. /\ stat.value <= stat.old => stat.value <= new /\ new <= stat.old
      /\ stat.old <= stat.value => stat.old <= new /\ new <= stat.value
  BY <1>1, AverageRoundsDown
<1> HIDE DEF new
<1>4. stat.value <= stat.old \/ stat.old <= stat.value
  BY <1>2
<1> QED BY <1>3, <1>4 DEF AverageLiesBetween, new

(* The powers of two PowerOfTwo::ceil can return for a bank of up to 1024   *)
(* workers, and the sizes of the tables made of them.                       *)
BankSizes == {1, 2, 4, 8, 16, 32, 64, 128, 256, 512, 1024}

LEMMA CeilIsPower ==
  ASSUME NEW n \in Int, 1 <= n, n <= 1024
  PROVE  PowerOfTwoCeil(n) \in BankSizes
<1> DEFINE Ceils(p) == p >= n /\ (p > 1 => p \div 2 < n)
<1>1. \E p \in Powers : Ceils(p)
  <2>1. n = 1 => Ceils(1)
    OBVIOUS
  <2>2. 1 < n /\ n <= 2 => Ceils(2)
    OBVIOUS
  <2>3. 2 < n /\ n <= 4 => Ceils(4)
    OBVIOUS
  <2>4. 4 < n /\ n <= 8 => Ceils(8)
    OBVIOUS
  <2>5. 8 < n /\ n <= 16 => Ceils(16)
    OBVIOUS
  <2>6. 16 < n /\ n <= 32 => Ceils(32)
    OBVIOUS
  <2>7. 32 < n /\ n <= 64 => Ceils(64)
    OBVIOUS
  <2>8. 64 < n /\ n <= 128 => Ceils(128)
    OBVIOUS
  <2>9. 128 < n /\ n <= 256 => Ceils(256)
    OBVIOUS
  <2>10. 256 < n /\ n <= 512 => Ceils(512)
    OBVIOUS
  <2>11. 512 < n /\ n <= 1024 => Ceils(1024)
    OBVIOUS
  <2> HIDE DEF Ceils
  <2> QED BY <2>1, <2>2, <2>3, <2>4, <2>5, <2>6, <2>7, <2>8, <2>9, <2>10, <2>11 DEF Powers
<1>2. PowerOfTwoCeil(n) \in Powers /\ Ceils(PowerOfTwoCeil(n))
  BY <1>1 DEF PowerOfTwoCeil
<1> QED BY <1>2 DEF Powers, BankSizes

(* A number below 8192 is the sum of its thirteen bits.                     *)
LEMMA BitsTell ==
  ASSUME NEW x \in Int, 0 <= x, x < 8192, NEW y \in Int, 0 <= y, y < 8192,
         \A p \in Powers : Bit(x, p) = Bit(y, p)
  PROVE  x = y
<1>1. x \div 8192 = 0 /\ y \div 8192 = 0
  OBVIOUS
<1>2. x \div 4096 = y \div 4096
  BY <1>1 DEF Bit, Powers
<1>3. x \div 2048 = y \div 2048
  BY <1>2 DEF Bit, Powers
<1>4. x \div 1024 = y \div 1024
  BY <1>3 DEF Bit, Powers
<1>5. x \div 512 = y \div 512
  BY <1>4 DEF Bit, Powers
<1>6. x \div 256 = y \div 256
  BY <1>5 DEF Bit, Powers
<1>7. x \div 128 = y \div 128
  BY <1>6 DEF Bit, Powers
<1>8. x \div 64 = y \div 64
  BY <1>7 DEF Bit, Powers
<1>9. x \div 32 = y \div 32
  BY <1>8 DEF Bit, Powers
<1>10. x \div 16 = y \div 16
  BY <1>9 DEF Bit, Powers
<1>11. x \div 8 = y \div 8
  BY <1>10 DEF Bit, Powers
<1>12. x \div 4 = y \div 4
  BY <1>11 DEF Bit, Powers
<1>13. x \div 2 = y \div 2
  BY <1>12 DEF Bit, Powers
<1>14. x \div 1 = y \div 1
  BY <1>13 DEF Bit, Powers
<1> QED BY <1>14

TableSizes == {1, 2, 4, 8, 16, 32, 64, 128, 256, 512, 1024, 2048, 4096, 8192}

(* What a mask one below a power of two leaves of a key is its remainder.   *)
LEMMA RemainderBits ==
  ASSUME NEW x \in Nat, NEW size \in TableSizes,
         NEW p \in Powers
  PROVE  Bit(x % size, p) = Bit(x, p) * Bit(size - 1, p)
<1>1. CASE size = 1
  BY <1>1 DEF Bit, Powers
<1>2. CASE size = 2
  BY <1>2 DEF Bit, Powers
<1>3. CASE size = 4
  BY <1>3 DEF Bit, Powers
<1>4. CASE size = 8
  BY <1>4 DEF Bit, Powers
<1>5. CASE size = 16
  BY <1>5 DEF Bit, Powers
<1>6. CASE size = 32
  BY <1>6 DEF Bit, Powers
<1>7. CASE size = 64
  BY <1>7 DEF Bit, Powers
<1>8. CASE size = 128
  BY <1>8 DEF Bit, Powers
<1>9. CASE size = 256
  BY <1>9 DEF Bit, Powers
<1>10. CASE size = 512
  BY <1>10 DEF Bit, Powers
<1>11. CASE size = 1024
  BY <1>11 DEF Bit, Powers
<1>12. CASE size = 2048
  BY <1>12 DEF Bit, Powers
<1>13. CASE size = 4096
  BY <1>13 DEF Bit, Powers
<1>14. CASE size = 8192
  BY <1>14 DEF Bit, Powers
<1> QED BY <1>1, <1>2, <1>3, <1>4, <1>5, <1>6, <1>7, <1>8, <1>9, <1>10, <1>11, <1>12, <1>13, <1>14 DEF TableSizes

LEMMA RowsHold == stat \in StatCalls => RowsAreReached
<1> SUFFICES ASSUME stat \in StatCalls, stat.op = "row" PROVE RowsAreReached
  BY DEF RowsAreReached
<1> DEFINE size == PowerOfTwoCeil(stat.workers) * stat.base
           x == stat.key
           Same(y) == \A p \in Powers : Bit(y, p) = Bit(x, p) * Bit(size - 1, p)
<1>1. stat.workers \in Int /\ 1 <= stat.workers /\ stat.workers <= 1024 /\ stat.base \in {1, 4, 8} /\ x \in Nat
  <2>1. stat.workers \in Workers /\ stat.base \in {1, 4, 8} /\ stat.key \in 0 .. 127
    BY StatKinds DEF RowCalls
  <2>2. stat.key \in Nat
    BY <2>1
  <2> QED BY <2>1, <2>2, WorkerCount
<1>2. size \in TableSizes
  <2> DEFINE c == PowerOfTwoCeil(stat.workers)
  <2>1. c \in BankSizes
    <3>1. stat.workers \in Int /\ 1 <= stat.workers /\ stat.workers <= 1024
      BY <1>1
    <3> QED BY <3>1, CeilIsPower
  <2>2. size = c * stat.base
    OBVIOUS
  <2> HIDE DEF c, size
  <2>3. CASE stat.base = 1
    BY <2>1, <2>2, <2>3 DEF TableSizes, BankSizes
  <2>4. CASE stat.base = 4
    BY <2>1, <2>2, <2>4 DEF TableSizes, BankSizes
  <2>5. CASE stat.base = 8
    BY <2>1, <2>2, <2>5 DEF TableSizes, BankSizes
  <2> QED BY <1>1, <2>3, <2>4, <2>5
<1> HIDE DEF size, x
<1>3. size \in Int /\ 1 <= size /\ size <= 8192
  BY <1>2 DEF TableSizes
<1>4. x % size \in 0 .. size - 1
  BY <1>1, <1>3, DivMod
<1>5. Same(x % size)
  <2>1. ASSUME NEW p \in Powers
        PROVE  Bit(x % size, p) = Bit(x, p) * Bit(size - 1, p)
    BY <1>1, <1>2, RemainderBits
  <2> QED BY <2>1
<1>6. ASSUME NEW y \in 0 .. size - 1, Same(y) PROVE y = x % size
  <2> DEFINE z == x % size
  <2>1. z \in Int /\ 0 <= z /\ z < 8192 /\ y \in Int /\ 0 <= y /\ y < 8192
    BY <1>3, <1>4, <1>6
  <2>2. \A p \in Powers : Bit(y, p) = Bit(z, p)
    BY <1>5, <1>6
  <2> HIDE DEF z, Same
  <2>3. y = z
    BY <2>1, <2>2, BitsTell
  <2> QED BY <2>3 DEF z
<1>7. Masked(x, size - 1) = CHOOSE y \in 0 .. size - 1 : Same(y)
  BY DEF Masked
<1> HIDE DEF Same
<1>8. Masked(x, size - 1) = x % size
  BY <1>4, <1>5, <1>6, <1>7
<1> QED BY <1>8 DEF RowsAreReached, RowOf, size, x

(* Every law holds of every call the search's statistics take: whatever the *)
(* limits of the counters, the rows and the workers of a bank, the divisors *)
(* of the table and the scores averaged (StatsEntry::update, shared_slice,  *)
(* PowerOfTwo, conthist_apply, to_corrected_static_eval, lmrScale and the   *)
(* averages of Worker::search).                                             *)
THEOREM HistoryLawsHold == StatSpec => []HistoryLaws
<1>1. StatInit => (stat.op = "none" \/ stat \in StatCalls)
  BY DEF StatInit
<1>2. (stat.op = "none" \/ stat \in StatCalls) /\ [StatNext]_stat => (stat.op = "none" \/ stat \in StatCalls)'
  BY DEF StatNext, StatCall, StatReturn
<1>3. stat.op = "none" \/ stat \in StatCalls => HistoryLaws
  <2>1. CASE stat.op = "none"
    BY <2>1 DEF HistoryLaws, CountersGravitate, SlicesPartition, RowsAreReached, ClampIsIdle,
                CorrectionStaysOpen, ReciprocalDivides, AverageLiesBetween
  <2>2. CASE stat \in StatCalls
    BY <2>2, CountersHold, SlicesHold, RowsHold, ClampHolds, CorrectionHolds, DivideHolds, AverageHolds
       DEF HistoryLaws
  <2> QED BY <2>1, <2>2
<1> QED BY <1>1, <1>2, <1>3, PTL DEF StatSpec

HIDE HalfAssumption
HIDE GenerationsAssumption
HIDE MaxPlyAssumption

(***************************************************************************)
(* The move picker: every node deals each move it owes once and in order,  *)
(* for any moves and any values. The inductive invariant says of each      *)
(* stage what has been dealt and where the moves still to deal lie. The    *)
(* loops of select and of the sorts are recursive functions; what they do  *)
(* is shown by induction on how far they have gone, as sets of numbers.    *)
(***************************************************************************)
(* A set of numbers that is not empty has a least one.                      *)
LEMMA LeastNumber ==
  ASSUME NEW T \in SUBSET Nat, T # {}
  PROVE  \E n \in T : \A m \in T : n <= m
<1>1. IsWellFoundedOn(OpToRel(<, Nat), Nat)
  BY NatLessThanWellFounded
<1>2. PICK n \in T : \A m \in T : ~(<<m, n>> \in OpToRel(<, Nat))
  BY <1>1, WFMin
<1>3. ASSUME NEW m \in T PROVE n <= m
  <2>1. ~(<<m, n>> \in OpToRel(<, Nat))
    BY <1>2
  <2>2. ~(m < n)
    BY <2>1 DEF OpToRel
  <2> QED BY <2>2
<1> QED BY <1>3

(* A set of natural numbers with 0 and every successor is all of them.      *)
LEMMA Induction ==
  ASSUME NEW S \in SUBSET Nat, 0 \in S, \A n \in S : n + 1 \in S
  PROVE  S = Nat
<1> SUFFICES ASSUME Nat \ S # {} PROVE FALSE
  OBVIOUS
<1>1. PICK n \in Nat \ S : \A m \in Nat \ S : n <= m
  BY LeastNumber
<1>2. n # 0 /\ n - 1 \in Nat
  BY <1>1
<1>3. n - 1 \in S
  BY <1>1, <1>2
<1> QED BY <1>1, <1>2, <1>3

(***************************************************************************)
(* The move picker.  Its two loops are recursive functions; each has the   *)
(* values its definition says, as induction on how far it is defined shows. *)
(***************************************************************************)
SortRuns(s, reaching, n, g) ==
  g = [p \in 1 .. n |-> IF p = 1 THEN [seq |-> s, end |-> 1] ELSE SortStep(g[p - 1], p, reaching)]

(* The sort is the last of its runs.                                        *)
LEMMA InsertionIs ==
  ASSUME NEW s, NEW reaching, s # << >>
  PROVE  InsertionSort(s, reaching) = (CHOOSE g : SortRuns(s, reaching, Len(s), g))[Len(s)].seq
  BY Zenon DEF InsertionSort, SortRuns

(* And the runs exist, for lists of any length.                             *)
LEMMA SortRunsExist ==
  ASSUME NEW s, NEW reaching
  PROVE  \A n \in Nat : \E g : SortRuns(s, reaching, n, g)
<1> DEFINE S == {n \in Nat : \E g : SortRuns(s, reaching, n, g)}
           F(g, p) == IF p = 1 THEN [seq |-> s, end |-> 1] ELSE SortStep(g[p - 1], p, reaching)
<1>1. 0 \in S
  <2>1. SortRuns(s, reaching, 0, << >>)
    BY DEF SortRuns
  <2> QED BY <2>1
<1>2. ASSUME NEW n \in S PROVE n + 1 \in S
  <2>1. n \in Nat
    OBVIOUS
  <2>2. PICK g : g = [p \in 1 .. n |-> F(g, p)]
    BY DEF SortRuns
  <2> DEFINE h == [p \in 1 .. n + 1 |-> F(g, p)]
  <2> HIDE DEF F
  <2>3. \A p \in 1 .. n : h[p] = g[p]
    BY <2>1, <2>2
  <2>4. ASSUME NEW p \in 1 .. n + 1 PROVE h[p] = F(h, p)
    <3>1. CASE p = 1
      BY <2>1, <3>1 DEF F
    <3>2. CASE p # 1
      <4>1. p - 1 \in 1 .. n
        BY <2>1, <3>2
      <4>2. h[p - 1] = g[p - 1]
        BY <4>1, <2>3
      <4>3. h[p] = F(g, p)
        OBVIOUS
      <4> HIDE DEF h
      <4> QED BY <3>2, <4>2, <4>3 DEF F
    <3> QED BY <3>1, <3>2
  <2>5. SortRuns(s, reaching, n + 1, h)
    <3>1. h = [p \in 1 .. n + 1 |-> h[p]]
      OBVIOUS
    <3>2. [p \in 1 .. n + 1 |-> h[p]] = [p \in 1 .. n + 1 |-> F(h, p)]
      BY <2>4
    <3> HIDE DEF h
    <3> QED BY <3>1, <3>2 DEF SortRuns, F
  <2> QED BY <2>1, <2>5
<1> HIDE DEF S
<1>3. S = Nat
  <2>1. S \in SUBSET Nat
    BY DEF S
  <2> QED BY <1>1, <1>2, <2>1, Induction
<1> QED BY <1>3 DEF S

(* The same elements in another order.                                      *)
Permuted(s, t) ==
  /\ DOMAIN t = DOMAIN s /\ t = [i \in DOMAIN t |-> t[i]]
  /\ \A i \in DOMAIN s : \E j \in DOMAIN s : t[j] = s[i]
  /\ \A j \in DOMAIN s : \E i \in DOMAIN s : t[j] = s[i]
  /\ (\A i, j \in DOMAIN s : s[i] = s[j] => i = j) => (\A i, j \in DOMAIN s : t[i] = t[j] => i = j)

(* Permuting twice is permuting.                                            *)
LEMMA PermutedTwice ==
  ASSUME NEW s, NEW t, NEW u, Permuted(s, t), Permuted(t, u)
  PROVE  Permuted(s, u)
<1>1. DOMAIN t = DOMAIN s /\ DOMAIN u = DOMAIN s
  BY DEF Permuted
<1>2. ASSUME NEW i \in DOMAIN s PROVE \E j \in DOMAIN s : u[j] = s[i]
  <2>1. PICK k \in DOMAIN s : t[k] = s[i]
    BY DEF Permuted
  <2>2. PICK j \in DOMAIN s : u[j] = t[k]
    BY <1>1 DEF Permuted
  <2> QED BY <2>1, <2>2
<1>3. ASSUME NEW j \in DOMAIN s PROVE \E i \in DOMAIN s : u[j] = s[i]
  <2>1. PICK k \in DOMAIN s : u[j] = t[k]
    BY <1>1 DEF Permuted
  <2>2. PICK i \in DOMAIN s : t[k] = s[i]
    BY DEF Permuted
  <2> QED BY <2>1, <2>2
<1>4. (\A i, j \in DOMAIN s : s[i] = s[j] => i = j) => (\A i, j \in DOMAIN s : u[i] = u[j] => i = j)
  BY <1>1 DEF Permuted
<1> QED BY <1>1, <1>2, <1>3, <1>4 DEF Permuted

(* Making way and climbing down moves each element to a place of its own.   *)
LEMMA InsertionPermutes ==
  ASSUME NEW n \in Nat, NEW s, DOMAIN s = 1 .. n, NEW end \in 1 .. n, NEW p \in end + 1 .. n,
         NEW q \in 1 .. end + 1, NEW t,
         t = [i \in 1 .. n |-> IF i = q THEN s[p]
                               ELSE IF q < i /\ i <= end + 1 THEN s[i - 1]
                               ELSE IF i = p THEN s[end + 1] ELSE s[i]]
  PROVE  Permuted(s, t)
<1> DEFINE from(i) == IF i = q THEN p
                      ELSE IF q < i /\ i <= end + 1 THEN i - 1
                      ELSE IF i = p THEN end + 1 ELSE i
           to(j) == IF j = p THEN q
                    ELSE IF q <= j /\ j <= end THEN j + 1
                    ELSE IF j = end + 1 THEN p ELSE j
<1>1. \A i \in 1 .. n : from(i) \in 1 .. n /\ t[i] = s[from(i)]
  OBVIOUS
<1>2. \A j \in 1 .. n : to(j) \in 1 .. n /\ from(to(j)) = j
  OBVIOUS
<1>3. \A i, j \in 1 .. n : from(i) = from(j) => i = j
  OBVIOUS
<1>4. DOMAIN t = 1 .. n
  OBVIOUS
<1> HIDE DEF from, to
<1>5. \A j \in 1 .. n : t[to(j)] = s[j]
  BY <1>1, <1>2
<1>6. (\A i, j \in 1 .. n : s[i] = s[j] => i = j) => (\A i, j \in 1 .. n : t[i] = t[j] => i = j)
  BY <1>1, <1>3
<1>7. \A j \in DOMAIN s : \E i \in DOMAIN s : t[i] = s[j]
  BY <1>2, <1>5
<1>8. \A i \in DOMAIN s : \E j \in DOMAIN s : t[i] = s[j]
  BY <1>1
<1> QED BY <1>4, <1>6, <1>7, <1>8 DEF Permuted

(* The largest number of an interval with a property, or the number before  *)
(* the interval.                                                            *)
LEMMA LastOf ==
  ASSUME NEW n \in Nat, NEW T \in SUBSET (1 .. n)
  PROVE  \E k \in 0 .. n : (k = 0 \/ k \in T) /\ \A i \in k + 1 .. n : i \notin T
<1>1. CASE T = {}
  BY <1>1
<1>2. CASE T # {}
  <2> DEFINE U == {n - i : i \in T}
  <2>0. \A i \in T : n - i \in Nat
    OBVIOUS
  <2>1. U \in SUBSET Nat /\ U # {}
    BY <1>2, <2>0
  <2>2. PICK d \in U : \A m \in U : d <= m
    BY <2>1, LeastNumber
  <2>3. PICK k \in T : d = n - k
    BY <2>2
  <2>4. \A i \in T : i <= k
    <3>1. ASSUME NEW i \in T PROVE i <= k
      <4>1. n - k <= n - i
        BY <2>2, <2>3
      <4>2. i \in Int /\ k \in Int
        OBVIOUS
      <4> QED BY <4>1, <4>2
    <3> QED BY <3>1
  <2>5. k \in 0 .. n /\ \A i \in k + 1 .. n : i \notin T
    BY <2>4
  <2> QED BY <2>5
<1> QED BY <1>1, <1>2

(* The elements sorted so far, in front of those that did not reach.        *)
SortedTo(s, reaching, a, p) ==
  /\ Permuted(s, a.seq)
  /\ a.end \in 1 .. p
  /\ \A i, j \in 1 .. a.end : i < j => a.seq[i].value >= a.seq[j].value
  /\ \A i \in a.end + 1 .. p : a.seq[i] \notin reaching

(* One round of the loop keeps the front sorted and the list a permutation. *)
LEMMA SortStepSorts ==
  ASSUME NEW s, NEW reaching, NEW n \in Nat, DOMAIN s = 1 .. n, \A i \in 1 .. n : s[i].value \in Int,
         NEW p \in 2 .. n, NEW a, SortedTo(s, reaching, a, p - 1)
  PROVE  SortedTo(s, reaching, SortStep(a, p, reaching), p)
<1> DEFINE v == a.seq
           e == a.end
           x == v[p]
           Place(q) == /\ q = 1 \/ v[q - 1].value >= x.value
                       /\ \A i \in q .. e : v[i].value < x.value
           place == CHOOSE q \in 1 .. e + 1 : Place(q)
           w == [i \in DOMAIN v |-> IF i = place THEN x
                                    ELSE IF place < i /\ i <= e + 1 THEN v[i - 1]
                                    ELSE IF i = p THEN v[e + 1] ELSE v[i]]
<1>1. /\ Permuted(s, v) /\ e \in 1 .. p - 1
      /\ \A i, j \in 1 .. e : i < j => v[i].value >= v[j].value
      /\ \A i \in e + 1 .. p - 1 : v[i] \notin reaching
  BY DEF SortedTo
<1>2. DOMAIN v = 1 .. n /\ \A i \in 1 .. n : v[i].value \in Int
  BY <1>1 DEF Permuted
<1>3. CASE x \notin reaching
  <2>1. SortStep(a, p, reaching) = a
    BY <1>3 DEF SortStep
  <2>2. \A i \in e + 1 .. p : v[i] \notin reaching
    BY <1>1, <1>3
  <2> HIDE DEF v, e
  <2>3. e \in 1 .. p
    BY <1>1
  <2> QED BY <1>1, <2>1, <2>2, <2>3 DEF SortedTo, v, e
<1>4. CASE x \in reaching
  <2>1. SortStep(a, p, reaching) = [end |-> e + 1, seq |-> w]
    BY <1>4 DEF SortStep
  <2> HIDE DEF v, e, w
  <2>2. \E q \in 1 .. e + 1 : Place(q)
    <3> DEFINE T == {i \in 1 .. e : ~(v[i].value < x.value)}
    <3>1. e \in Nat /\ T \in SUBSET (1 .. e)
      BY <1>1
    <3>2. PICK k \in 0 .. e : (k = 0 \/ k \in T) /\ \A i \in k + 1 .. e : i \notin T
      BY <3>1, LastOf
    <3>3. k = 0 \/ v[k].value >= x.value
      BY <3>2, <1>1, <1>2
    <3>4. \A i \in k + 1 .. e : v[i].value < x.value
      BY <3>2, <1>1
    <3>5. k + 1 \in 1 .. e + 1 /\ (k + 1) - 1 = k /\ (k = 0 <=> k + 1 = 1)
      BY <1>1
    <3> QED BY <3>3, <3>4, <3>5
  <2>3. place \in 1 .. e + 1 /\ Place(place)
    BY <2>2
  <2> HIDE DEF place
  <2>4. w = [i \in 1 .. n |-> IF i = place THEN v[p]
                              ELSE IF place < i /\ i <= e + 1 THEN v[i - 1]
                              ELSE IF i = p THEN v[e + 1] ELSE v[i]]
    BY <1>2 DEF w
  <2>5. Permuted(v, w)
    <3>1. e \in 1 .. n /\ p \in e + 1 .. n
      BY <1>1
    <3> HIDE DEF x, Place
    <3> QED BY <1>2, <2>3, <2>4, <3>1, InsertionPermutes
  <2>6. Permuted(s, w)
    BY <1>1, <2>5, PermutedTwice
  <2>7. ASSUME NEW i \in 1 .. e + 1, NEW j \in 1 .. e + 1, i < j PROVE w[i].value >= w[j].value
    <3>1. /\ i \in 1 .. n /\ j \in 1 .. n /\ p \in 1 .. n /\ place \in 1 .. n
          /\ x.value \in Int
      BY <1>1, <1>2, <2>3
    <3>2. \A k \in 1 .. e : v[k].value \in Int
      BY <1>1, <1>2
    <3>3. CASE i = place
      <4>1. w[i] = x /\ w[j] = v[j - 1] /\ j - 1 \in place .. e
        <5> HIDE DEF x, Place
        <5>1. i = place /\ j > place /\ j <= e + 1 /\ e \in Int /\ place \in Int /\ j \in Int
          BY <3>1, <3>3, <2>7, <2>3, <1>1
        <5>2. w[i] = x
          BY <2>4, <3>1, <5>1 DEF x
        <5>3. w[j] = v[j - 1]
          BY <2>4, <3>1, <5>1
        <5> QED BY <5>1, <5>2, <5>3
      <4>2. v[j - 1].value < x.value /\ j - 1 \in 1 .. e
        BY <4>1, <2>3, <3>1, <1>1
      <4> QED BY <4>1, <4>2, <3>1, <3>2
    <3>4. CASE i < place
      <4>1. w[i] = v[i] /\ i \in 1 .. e
        BY <2>4, <3>1, <3>4, <2>3, <1>1
      <4>2. CASE j < place
        <5>1. w[j] = v[j] /\ j \in 1 .. e
          BY <2>4, <3>1, <4>2, <2>3, <1>1
        <5> QED BY <4>1, <5>1, <1>1, <2>7
      <4>3. CASE j = place
        <5>1. w[j] = x /\ place # 1 /\ v[place - 1].value >= x.value /\ place - 1 \in 1 .. e
          <6>1. place # 1 /\ place - 1 \in 1 .. e
            BY <2>3, <3>1, <3>4, <1>1
          <6>2. v[place - 1].value >= x.value
            BY <2>3, <6>1
          <6>3. w[j] = x
            <7> HIDE DEF Place
            <7> QED BY <2>4, <3>1, <4>3
          <6> QED BY <6>1, <6>2, <6>3
        <5>2. i = place - 1 \/ v[i].value >= v[place - 1].value
          BY <4>1, <5>1, <1>1, <3>4, <2>3
        <5> QED BY <4>1, <5>1, <5>2, <3>1, <3>2
      <4>4. CASE j > place
        <5>1. w[j] = v[j - 1] /\ j - 1 \in 1 .. e
          BY <2>4, <3>1, <4>4, <2>3, <1>1
        <5>2. i < j - 1
          BY <3>1, <3>4, <4>4, <2>3
        <5> QED BY <4>1, <5>1, <5>2, <1>1
      <4> QED BY <4>2, <4>3, <4>4, <2>3, <3>1
    <3>5. CASE i > place
      <4>1. w[i] = v[i - 1] /\ w[j] = v[j - 1] /\ i - 1 \in 1 .. e /\ j - 1 \in 1 .. e
        BY <2>4, <3>1, <3>5, <2>7, <2>3, <1>1
      <4>2. i - 1 < j - 1
        BY <3>1, <2>7
      <4> QED BY <4>1, <4>2, <1>1
    <3> QED BY <3>1, <3>3, <3>4, <3>5, <2>3
  <2>8. ASSUME NEW i \in e + 2 .. p PROVE w[i] \notin reaching
    <3>1. i \in 1 .. n /\ i > e + 1 /\ place <= e + 1
      BY <1>1, <2>3
    <3>2. CASE i = p
      <4>1. w[i] = v[e + 1] /\ e + 1 \in e + 1 .. p - 1
        BY <2>4, <3>1, <3>2, <1>1, <2>3
      <4> QED BY <4>1, <1>1
    <3>3. CASE i # p
      <4>1. w[i] = v[i] /\ i \in e + 1 .. p - 1
        BY <2>4, <3>1, <3>3, <1>1, <2>3
      <4> QED BY <4>1, <1>1
    <3> QED BY <3>2, <3>3
  <2>9. e + 1 \in 1 .. p /\ (e + 1) + 1 = e + 2
    BY <1>1
  <2> DEFINE b == [end |-> e + 1, seq |-> w]
  <2>10. b.end = e + 1 /\ b.seq = w
    OBVIOUS
  <2> HIDE DEF b
  <2>11. SortedTo(s, reaching, b, p)
    BY <2>6, <2>7, <2>8, <2>9, <2>10 DEF SortedTo
  <2> QED BY <2>1, <2>11 DEF b
<1> QED BY <1>3, <1>4

(* Insertion sort returns the same moves, those that reach in front and     *)
(* descending, together with what stood first.                              *)
LEMMA InsertionSorts ==
  ASSUME NEW s, NEW n \in Nat, s \in [1 .. n -> {s[i] : i \in 1 .. n}], Len(s) = n,
         NEW reaching, \A i \in 1 .. n : s[i].value \in Int
  PROVE  LET t == InsertionSort(s, reaching)
         IN  /\ Permuted(s, t)
             /\ n > 0 => \E end \in 1 .. n :
                  /\ \A i, j \in 1 .. end : i < j => t[i].value >= t[j].value
                  /\ \A i \in end + 1 .. n : t[i] \notin reaching
<1> DEFINE t == InsertionSort(s, reaching)
<1>1. CASE n = 0
  <2>1. DOMAIN s = {} /\ s = << >>
    BY <1>1
  <2>2. t = s
    BY <2>1 DEF InsertionSort
  <2>3. Permuted(s, s)
    BY DEF Permuted
  <2> QED BY <1>1, <2>2, <2>3
<1>2. CASE n > 0
  <2>1. s # << >>
    BY <1>2
  <2> DEFINE g == CHOOSE f : SortRuns(s, reaching, n, f)
  <2>2. SortRuns(s, reaching, n, g)
    BY SortRunsExist
  <2>3. t = g[n].seq
    BY <2>1, InsertionIs
  <2> HIDE DEF g, t
  <2> DEFINE S == {k \in Nat : k + 1 \in 1 .. n => SortedTo(s, reaching, g[k + 1], k + 1)}
  <2>4. 0 \in S
    <3>1. g[1] = [seq |-> s, end |-> 1]
      BY <2>2, <1>2 DEF SortRuns
    <3>2. g[1].seq = s /\ g[1].end = 1
      BY <3>1
    <3>3. Permuted(s, s)
      BY DEF Permuted
    <3>4. SortedTo(s, reaching, g[1], 1)
      BY <3>2, <3>3 DEF SortedTo
    <3> QED BY <3>4
  <2>5. ASSUME NEW k \in S PROVE k + 1 \in S
    <3> SUFFICES ASSUME (k + 1) + 1 \in 1 .. n PROVE SortedTo(s, reaching, g[(k + 1) + 1], (k + 1) + 1)
      OBVIOUS
    <3>1. k \in Nat /\ k + 1 \in 1 .. n /\ (k + 1) + 1 \in 2 .. n /\ ((k + 1) + 1) - 1 = k + 1
      OBVIOUS
    <3>2. SortedTo(s, reaching, g[k + 1], k + 1)
      BY <3>1
    <3> DEFINE p == (k + 1) + 1
    <3>3. g[p] = SortStep(g[p - 1], p, reaching)
      <4>1. p \in 1 .. n /\ p # 1
        BY <3>1
      <4> HIDE DEF p, S
      <4> QED BY <2>2, <4>1 DEF SortRuns
    <3>4. p \in 2 .. n /\ p - 1 = k + 1
      BY <3>1
    <3> HIDE DEF p
    <3>5. SortedTo(s, reaching, g[p - 1], p - 1)
      BY <3>2, <3>4
    <3>6. SortedTo(s, reaching, SortStep(g[p - 1], p, reaching), p)
      BY <3>4, <3>5, SortStepSorts
    <3>7. SortedTo(s, reaching, g[p], p)
      BY <3>3, <3>6
    <3> QED BY <3>7 DEF p
  <2>6. S \in SUBSET Nat
    OBVIOUS
  <2> HIDE DEF S
  <2>7. n - 1 \in Nat /\ (n - 1) + 1 = n
    BY <1>2
  <2>9. n - 1 \in S
    BY <2>4, <2>5, <2>6, <2>7, Induction
  <2>8. SortedTo(s, reaching, g[n], n)
    BY <2>7, <2>9, <1>2 DEF S
  <2> QED BY <2>3, <2>8 DEF SortedTo, t
<1> QED BY <1>1, <1>2

(* What a node offers: its moves, what score makes of them, and the two     *)
(* halves of its captures and of its quiets.                                *)
PickModes == {"main", "evasion", "qsearch", "probcut"}
AllMoves == Captures \cup Quiets

(* What every node the search asks about has.                               *)
NodeOk(n) ==
  /\ n.mode \in PickModes
  /\ n.depth \in Int
  /\ n.value \in [AllMoves -> Int]
  /\ \A m \in Captures : n.value[m] \in CaptureValues
  /\ \A m \in Quiets : n.value[m] \in QuietValues
  /\ n.see \in [Captures -> BOOLEAN]

(* How a move looks in the array, and the sets the stages deal from.        *)
ShownAs(n, m) == [move |-> m, value |-> IF n.mode = "evasion" /\ m \in Captures
                                        THEN n.value[m] + AboveQuiets ELSE n.value[m]]
GoodCaptures(n) == {m \in Captures : n.see[m]}
GoodQuiets(n)   == {m \in Quiets : n.value[m] > goodQuietThreshold}
TableMove(n)    == {n.tt} \cap (IF n.mode = "probcut" THEN Captures ELSE AllMoves)

LEMMA ShownMove ==
  ASSUME NEW n, NEW m
  PROVE  ShownAs(n, m).move = m
  BY DEF ShownAs

LEMMA ShownValue ==
  ASSUME NEW n, NodeOk(n), NEW m \in AllMoves
  PROVE  /\ ShownAs(n, m).value \in Int
         /\ ~(n.mode = "evasion" /\ m \in Captures) => ShownAs(n, m).value = n.value[m]
         /\ n.mode = "evasion" /\ m \in Captures => ShownAs(n, m).value = n.value[m] + AboveQuiets
<1>1. n.value[m] \in Int
  BY DEF NodeOk
<1>2. AboveQuiets \in Int
  BY SMT DEF AboveQuiets
<1> QED BY <1>1, <1>2 DEF ShownAs

LEMMA SlotShown ==
  ASSUME NEW m
  PROVE  Slot(m) = ShownAs(node, m)
  BY DEF Slot, ShownAs

(* A stretch of the picker's array that holds each move of a set once.      *)
Holds(n, s, lo, hi, S) ==
  /\ \A i \in lo .. hi - 1 : s[i].move \in S /\ s[i] = ShownAs(n, s[i].move)
  /\ \A i, j \in lo .. hi - 1 : s[i].move = s[j].move => i = j
  /\ \A m \in S : \E i \in lo .. hi - 1 : s[i].move = m

(* Listed counts the moves of a set out, in any order.                      *)
LEMMA ListedIs ==
  ASSUME NEW S \in SUBSET AllMoves
  PROVE  \E k \in Nat :
           /\ Len(Listed(S)) = k /\ Listed(S) \in [1 .. k -> {Slot(m) : m \in S}]
           /\ \A i, j \in 1 .. k : Listed(S)[i] = Listed(S)[j] => i = j
           /\ \A m \in S : \E i \in 1 .. k : Listed(S)[i] = Slot(m)
<1> DEFINE T == {Slot(m) : m \in S}
           k == Cardinality(T)
           s == Listed(S)
<1>1. IsFiniteSet(S)
  <2>1. IsFiniteSet(AllMoves)
    BY PickerAssumption, FS_Union DEF AllMoves
  <2> QED BY <2>1, FS_Subset
<1>2. IsFiniteSet(T)
  <2> DEFINE f == [m \in S |-> Slot(m)]
  <2>1. f \in Surjection(S, T)
    <3>1. f \in [S -> T]
      OBVIOUS
    <3>2. \A t \in T : \E m \in S : f[m] = t
      OBVIOUS
    <3> QED BY <3>1, <3>2 DEF Surjection
  <2> HIDE DEF f, T
  <2> QED BY <1>1, <2>1, FS_Surjection
<1> HIDE DEF T
<1>3. k \in Nat /\ ExistsBijection(1 .. k, T)
  BY <1>2, FS_CardinalityType
<1>4. PICK g \in [1 .. k -> T] : IsInjective(g)
  BY <1>3 DEF ExistsBijection, Bijection, Injection
<1>5. s = CHOOSE f \in [1 .. k -> T] : IsInjective(f)
  BY Zenon DEF Listed, SetToSeq, T
<1> HIDE DEF s, k
<1>6. s \in [1 .. k -> T] /\ IsInjective(s)
  BY <1>4, <1>5
<1>7. Cardinality(1 .. k) = k
  BY <1>3, FS_Interval
<1>8. s \in Injection(1 .. k, T)
  BY <1>6 DEF Injection
<1>9. s \in Surjection(1 .. k, T)
  BY <1>2, <1>7, <1>8, FS_Injection DEF k
<1>10. \A i, j \in 1 .. k : s[i] = s[j] => i = j
  BY <1>6 DEF IsInjective
<1>11. \A m \in S : \E i \in 1 .. k : s[i] = Slot(m)
  BY <1>9 DEF Surjection, T
<1>12. Len(s) = k
  <2>1. s \in Seq(T)
    BY <1>3, <1>6
  <2> QED BY <1>3, <1>6, <2>1
<1> QED BY <1>3, <1>6, <1>10, <1>11, <1>12 DEF s, T

(* So does sorting them: what gen_and_score leaves from cur on.             *)
LEMMA SortedIs ==
  ASSUME NodeOk(node), NEW S \in SUBSET AllMoves, NEW reaching
  PROVE  \E k \in Nat :
           LET t == InsertionSort(Listed(S), reaching)
           IN  /\ Len(t) = k /\ DOMAIN t = 1 .. k
               /\ Holds(node, t, 1, k + 1, S)
               /\ k > 0 => \E end \in 1 .. k :
                     /\ \A i, j \in 1 .. end : i < j => t[i].value >= t[j].value
                     /\ \A i \in end + 1 .. k : t[i] \notin reaching
<1> DEFINE s == Listed(S)
           t == InsertionSort(s, reaching)
<1>1. PICK k \in Nat :
        /\ Len(s) = k /\ s \in [1 .. k -> {Slot(m) : m \in S}]
        /\ \A i, j \in 1 .. k : s[i] = s[j] => i = j
        /\ \A m \in S : \E i \in 1 .. k : s[i] = Slot(m)
  BY ListedIs
<1> HIDE DEF s
<1>2. \A i \in 1 .. k : s[i].move \in S /\ s[i] = ShownAs(node, s[i].move)
  <2> TAKE i \in 1 .. k
  <2>1. PICK m \in S : s[i] = Slot(m)
    BY <1>1
  <2> QED BY <2>1, SlotShown, ShownMove
<1>3. \A i \in 1 .. k : s[i].value \in Int
  BY <1>2, ShownValue
<1>4. DOMAIN s = 1 .. k /\ s \in [1 .. k -> {s[i] : i \in 1 .. k}]
  BY <1>1
<1>5. /\ Permuted(s, t)
      /\ k > 0 => \E end \in 1 .. k :
           /\ \A i, j \in 1 .. end : i < j => t[i].value >= t[j].value
           /\ \A i \in end + 1 .. k : t[i] \notin reaching
  BY <1>1, <1>3, <1>4, InsertionSorts
<1> HIDE DEF t
<1>6. DOMAIN t = 1 .. k /\ t = [i \in 1 .. k |-> t[i]]
  BY <1>4, <1>5 DEF Permuted
<1>7. Len(t) = k
  <2>1. t \in Seq({t[i] : i \in 1 .. k})
    BY <1>6
  <2> QED BY <1>6, <2>1
<1>8. \A i, j \in 1 .. k : t[i] = t[j] => i = j
  BY <1>1, <1>4, <1>5 DEF Permuted
<1>9. ASSUME NEW i \in 1 .. k PROVE t[i].move \in S /\ t[i] = ShownAs(node, t[i].move)
  <2>1. PICK j \in 1 .. k : t[i] = s[j]
    BY <1>4, <1>5 DEF Permuted
  <2> QED BY <2>1, <1>2
<1>10. ASSUME NEW m \in S PROVE \E i \in 1 .. k : t[i].move = m
  <2>1. PICK j \in 1 .. k : s[j] = Slot(m)
    BY <1>1
  <2>2. PICK i \in 1 .. k : t[i] = s[j]
    BY <1>4, <1>5 DEF Permuted
  <2> QED BY <2>1, <2>2, SlotShown, ShownMove
<1>11. Holds(node, t, 1, k + 1, S)
  <2>1. 1 .. (k + 1) - 1 = 1 .. k
    OBVIOUS
  <2>2. \A i, j \in 1 .. k : t[i].move = t[j].move => i = j
    BY <1>8, <1>9
  <2> QED BY <1>9, <1>10, <2>1, <2>2 DEF Holds
<1> QED BY <1>5, <1>6, <1>7, <1>11 DEF s, t

(* A picker and its fields.                                                 *)
IsPicker(p) ==
  p = [stage |-> p.stage, moves |-> p.moves, cur |-> p.cur, endCur |-> p.endCur,
       endBadCaptures |-> p.endBadCaptures, endCaptures |-> p.endCaptures,
       endGenerated |-> p.endGenerated, skipQuiets |-> p.skipQuiets, skippedAt |-> p.skippedAt]

(* q is p but for cur.                                                      *)
MovedTo(p, q, c) ==
  /\ q.stage = p.stage /\ q.moves = p.moves /\ q.cur = c /\ q.endCur = p.endCur
  /\ q.endBadCaptures = p.endBadCaptures /\ q.endCaptures = p.endCaptures
  /\ q.endGenerated = p.endGenerated /\ q.skipQuiets = p.skipQuiets /\ q.skippedAt = p.skippedAt

LEMMA CurMoved ==
  ASSUME NEW p, IsPicker(p), NEW c
  PROVE  IsPicker([p EXCEPT !.cur = c]) /\ MovedTo(p, [p EXCEPT !.cur = c], c)
  BY DEF IsPicker, MovedTo

(* What select finds: nothing that passes, or the first that does.          *)
Selected(p, passing, r) ==
  /\ IsPicker(r.picker)
  /\ \/ /\ r.move = none
        /\ \A i \in p.cur .. p.endCur - 1 : p.moves[i].move = node.tt \/ p.moves[i] \notin passing
        /\ \E c : MovedTo(p, r.picker, c)
     \/ \E i \in p.cur .. p.endCur - 1 :
          /\ r.move = p.moves[i].move /\ r.move # node.tt /\ p.moves[i] \in passing
          /\ \A j \in p.cur .. i - 1 : p.moves[j].move = node.tt \/ p.moves[j] \notin passing
          /\ MovedTo(p, r.picker, i + 1)

LEMMA LeastOf ==
  ASSUME NEW lo \in Int, NEW hi \in Int, NEW T \in SUBSET (lo .. hi), T # {}
  PROVE  \E i \in T : \A j \in T : i <= j
<1> DEFINE U == {i - lo : i \in T}
<1>0. \A i \in T : i - lo \in Nat
  OBVIOUS
<1>1. U \in SUBSET Nat /\ U # {}
  BY <1>0
<1>2. PICK d \in U : \A m \in U : d <= m
  BY <1>1, LeastNumber
<1>3. PICK i \in T : d = i - lo
  BY <1>2
<1>4. ASSUME NEW j \in T PROVE i <= j
  <2>1. i - lo <= j - lo
    BY <1>2, <1>3
  <2>2. i \in Int /\ j \in Int
    OBVIOUS
  <2> QED BY <2>1, <2>2
<1> QED BY <1>4

(* The call of select returns the first move that passes, or none.          *)
LEMMA SelectIs ==
  ASSUME NEW p, IsPicker(p), p.cur \in Int, p.endCur \in Int, NEW passing
  PROVE  Selected(p, passing, select(p, passing))
<1> DEFINE hits == {i \in p.cur .. p.endCur - 1 : p.moves[i].move # node.tt /\ p.moves[i] \in passing}
           h == CHOOSE i \in hits : \A j \in hits : i <= j
<1>1. CASE hits = {}
  <2> DEFINE q == [p EXCEPT !.cur = p.endCur]
  <2>1. select(p, passing) = Result(q, none)
    BY <1>1 DEF select
  <2>2. IsPicker(q) /\ MovedTo(p, q, p.endCur)
    BY CurMoved
  <2> HIDE DEF q
  <2>3. Result(q, none).picker = q /\ Result(q, none).move = none
    BY DEF Result
  <2>4. \A i \in p.cur .. p.endCur - 1 : p.moves[i].move = node.tt \/ p.moves[i] \notin passing
    BY <1>1
  <2> HIDE DEF hits
  <2> QED BY <2>1, <2>2, <2>3, <2>4 DEF Selected
<1>2. CASE hits # {}
  <2> DEFINE q == [p EXCEPT !.cur = h + 1]
  <2>1. select(p, passing) = Result(q, p.moves[h].move)
    BY <1>2 DEF select
  <2>2. h \in hits /\ \A j \in hits : h <= j
    <3>1. hits \in SUBSET (p.cur .. p.endCur - 1) /\ p.endCur - 1 \in Int
      OBVIOUS
    <3> HIDE DEF hits
    <3> QED BY <1>2, <3>1, LeastOf
  <2> HIDE DEF h
  <2>3. IsPicker(q) /\ MovedTo(p, q, h + 1)
    BY CurMoved
  <2> HIDE DEF q
  <2> DEFINE r == Result(q, p.moves[h].move)
  <2>4. r.picker = q /\ r.move = p.moves[h].move
    BY DEF Result
  <2> HIDE DEF r
  <2>5. h \in p.cur .. p.endCur - 1 /\ p.moves[h].move # node.tt /\ p.moves[h] \in passing
    BY <2>2
  <2>6. \A j \in p.cur .. h - 1 : p.moves[j].move = node.tt \/ p.moves[j] \notin passing
    BY <2>2, <2>5
  <2>7. Selected(p, passing, r)
    BY <2>3, <2>4, <2>5, <2>6 DEF Selected
  <2> QED BY <2>1, <2>7 DEF r
<1> QED BY <1>1, <1>2

(* A stretch that cur walks: of the moves it may deal, those before cur     *)
(* have been dealt and no other.                                            *)
Walked(n, s, lo, c, hi, S, P, D) ==
  /\ lo \in Int /\ c \in Int /\ hi \in Int /\ lo <= c /\ c <= hi
  /\ Holds(n, s, lo, hi, S) /\ P \subseteq S
  /\ \A i \in lo .. hi - 1 : s[i].move \in P => (s[i].move \in D <=> i < c)

(* What a selection lets through, and what it makes of such a stretch: it   *)
(* deals the next of its moves, or there is none left.                      *)
Passes(p, lo, passing, P) ==
  \A i \in lo .. p.endCur - 1 :
    (p.moves[i].move # node.tt /\ p.moves[i] \in passing) <=> p.moves[i].move \in P

(* The next move of P that is not yet in D has been dealt.                  *)
DealtNext(p, lo, S, P, D, r, i) ==
  /\ i \in p.cur .. p.endCur - 1 /\ r.move = p.moves[i].move
  /\ r.move \in P \ D /\ MovedTo(p, r.picker, i + 1)
  /\ Walked(node, p.moves, lo, i + 1, p.endCur, S, P, D \cup {r.move})

(* The flags of p are q's.                                                  *)
SameFlags(p, q) ==
  IsPicker(q) /\ q.skipQuiets = p.skipQuiets /\ q.skippedAt = p.skippedAt

(* A call of select deals one more move of its list, or all are dealt.      *)
LEMMA WalkOn ==
  ASSUME NEW p, NEW S, NEW P, NEW D, NEW lo, NEW passing, NEW r,
         Walked(node, p.moves, lo, p.cur, p.endCur, S, P, D), Selected(p, passing, r),
         Passes(p, lo, passing, P)
  PROVE  /\ SameFlags(p, r.picker)
         /\ \/ r.move = none /\ P \subseteq D /\ \E c : MovedTo(p, r.picker, c)
            \/ \E i : DealtNext(p, lo, S, P, D, r, i)
<1>0. \A i \in lo .. p.endCur - 1 :
           (p.moves[i].move # node.tt /\ p.moves[i] \in passing) <=> p.moves[i].move \in P
  BY DEF Passes
<1>1. /\ lo \in Int /\ p.cur \in Int /\ p.endCur \in Int /\ lo <= p.cur /\ p.cur <= p.endCur
      /\ Holds(node, p.moves, lo, p.endCur, S) /\ P \subseteq S
      /\ \A i \in lo .. p.endCur - 1 : p.moves[i].move \in P => (p.moves[i].move \in D <=> i < p.cur)
  BY DEF Walked
<1>2. \A i, j \in lo .. p.endCur - 1 : p.moves[i].move = p.moves[j].move => i = j
  BY <1>1 DEF Holds
<1>3. \A m \in S : \E i \in lo .. p.endCur - 1 : p.moves[i].move = m
  BY <1>1 DEF Holds
<1>4. ASSUME \A i \in p.cur .. p.endCur - 1 : p.moves[i].move = node.tt \/ p.moves[i] \notin passing
      PROVE  P \subseteq D
  <2>1. ASSUME NEW m \in P PROVE m \in D
    <3>1. PICK i \in lo .. p.endCur - 1 : p.moves[i].move = m
      BY <1>1, <1>3
    <3>2. i < p.cur
      BY <1>0, <1>1, <1>4, <3>1
    <3>3. p.moves[i].move \in P
      BY <3>1
    <3>4. p.moves[i].move \in D
      BY <1>1, <3>2, <3>3
    <3> QED BY <3>1, <3>4
  <2> QED BY <2>1
<1>5. ASSUME NEW i \in p.cur .. p.endCur - 1,
             r.move = p.moves[i].move, r.move # node.tt, p.moves[i] \in passing,
             \A j \in p.cur .. i - 1 : p.moves[j].move = node.tt \/ p.moves[j] \notin passing,
             MovedTo(p, r.picker, i + 1)
      PROVE  /\ r.move \in P \ D
             /\ Walked(node, p.moves, lo, i + 1, p.endCur, S, P, D \cup {r.move})
  <2>1. i \in lo .. p.endCur - 1 /\ ~(i < p.cur) /\ i \in Int
    BY <1>1
  <2>2. r.move \in P
    BY <1>0, <1>5, <2>1
  <2>3. r.move \notin D
    BY <1>1, <1>5, <2>1, <2>2
  <2>4. ASSUME NEW j \in lo .. p.endCur - 1, p.moves[j].move \in P
        PROVE  p.moves[j].move \in D \cup {r.move} <=> j < i + 1
    <3>1. CASE j = i
      BY <3>1, <1>5, <2>1
    <3>2. CASE j < i
      <4>1. ~(j \in p.cur .. i - 1)
        BY <1>0, <1>5, <2>4
      <4>2. j < p.cur
        BY <4>1, <3>2, <2>1, <1>1
      <4> QED BY <4>2, <3>2, <1>1, <2>4, <2>1
    <3>3. CASE j > i
      <4>1. ~(j < p.cur) /\ ~(j < i + 1)
        BY <3>3, <2>1, <1>1
      <4>2. p.moves[j].move # r.move
        BY <3>3, <2>1, <1>2, <1>5
      <4> QED BY <4>1, <4>2, <1>1, <2>4
    <3> QED BY <3>1, <3>2, <3>3, <2>1, <1>1
  <2>5. lo <= i + 1 /\ i + 1 <= p.endCur /\ i + 1 \in Int
    BY <2>1, <1>1
  <2>6. Walked(node, p.moves, lo, i + 1, p.endCur, S, P, D \cup {r.move})
    BY <1>1, <2>4, <2>5 DEF Walked
  <2> QED BY <2>2, <2>3, <2>6
<1>6. \/ r.move = none /\ P \subseteq D /\ \E c : MovedTo(p, r.picker, c)
      \/ \E i : DealtNext(p, lo, S, P, D, r, i)
  BY <1>4, <1>5 DEF Selected, DealtNext
<1>7. IsPicker(r.picker)
  BY DEF Selected
<1>8. r.picker.skipQuiets = p.skipQuiets /\ r.picker.skippedAt = p.skippedAt
  BY <1>6 DEF DealtNext, MovedTo
<1>9. SameFlags(p, r.picker)
  BY <1>7, <1>8 DEF SameFlags
<1> QED BY <1>6, <1>9

(* Equal stretches hold equal moves, also when they lie elsewhere.          *)
LEMMA HoldsSame ==
  ASSUME NEW n, NEW s, NEW t, NEW lo, NEW hi, NEW S, Holds(n, s, lo, hi, S),
         \A i \in lo .. hi - 1 : t[i] = s[i]
  PROVE  Holds(n, t, lo, hi, S)
  BY DEF Holds

LEMMA HoldsShifted ==
  ASSUME NEW n, NEW s, NEW t, NEW k \in Nat, NEW c \in Int, NEW S, Holds(n, s, 1, k + 1, S),
         \A i \in c .. c + k - 1 : t[i] = s[i - c + 1]
  PROVE  Holds(n, t, c, c + k, S)
<1>1. \A i \in c .. c + k - 1 : i - c + 1 \in 1 .. (k + 1) - 1
  OBVIOUS
<1>2. \A i \in c .. c + k - 1 : t[i].move \in S /\ t[i] = ShownAs(n, t[i].move)
  BY <1>1 DEF Holds
<1>3. ASSUME NEW i \in c .. c + k - 1, NEW j \in c .. c + k - 1, t[i].move = t[j].move PROVE i = j
  <2>1. i - c + 1 = j - c + 1
    BY <1>1, <1>3 DEF Holds
  <2> QED BY <2>1
<1>4. ASSUME NEW m \in S PROVE \E i \in c .. c + k - 1 : t[i].move = m
  <2>1. PICK j \in 1 .. (k + 1) - 1 : s[j].move = m
    BY DEF Holds
  <2>2. j + c - 1 \in c .. c + k - 1 /\ (j + c - 1) - c + 1 = j
    OBVIOUS
  <2> QED BY <2>1, <2>2
<1> QED BY <1>2, <1>3, <1>4 DEF Holds

(* q is p but for one field.                                                *)
KeepsBut(p, q, field) ==
  /\ field = "stage" \/ q.stage = p.stage
  /\ field = "moves" \/ q.moves = p.moves
  /\ field = "cur" \/ q.cur = p.cur
  /\ field = "endCur" \/ q.endCur = p.endCur
  /\ field = "endBadCaptures" \/ q.endBadCaptures = p.endBadCaptures
  /\ field = "endCaptures" \/ q.endCaptures = p.endCaptures
  /\ field = "endGenerated" \/ q.endGenerated = p.endGenerated
  /\ field = "skipQuiets" \/ q.skipQuiets = p.skipQuiets
  /\ field = "skippedAt" \/ q.skippedAt = p.skippedAt

(* Assigning one field, for each of the fields.                             *)
LEMMA StageSet ==
  ASSUME NEW p, IsPicker(p), NEW x
  PROVE  LET q == [p EXCEPT !.stage = x]
         IN  IsPicker(q) /\ q.stage = x /\ KeepsBut(p, q, "stage")
  BY DEF IsPicker, KeepsBut

LEMMA MovesSet ==
  ASSUME NEW p, IsPicker(p), NEW x
  PROVE  LET q == [p EXCEPT !.moves = x]
         IN  IsPicker(q) /\ q.moves = x /\ KeepsBut(p, q, "moves")
  BY DEF IsPicker, KeepsBut

LEMMA CurSet ==
  ASSUME NEW p, IsPicker(p), NEW x
  PROVE  LET q == [p EXCEPT !.cur = x]
         IN  IsPicker(q) /\ q.cur = x /\ KeepsBut(p, q, "cur")
  BY DEF IsPicker, KeepsBut

LEMMA EndCurSet ==
  ASSUME NEW p, IsPicker(p), NEW x
  PROVE  LET q == [p EXCEPT !.endCur = x]
         IN  IsPicker(q) /\ q.endCur = x /\ KeepsBut(p, q, "endCur")
  BY DEF IsPicker, KeepsBut

LEMMA BadSet ==
  ASSUME NEW p, IsPicker(p), NEW x
  PROVE  LET q == [p EXCEPT !.endBadCaptures = x]
         IN  IsPicker(q) /\ q.endBadCaptures = x /\ KeepsBut(p, q, "endBadCaptures")
  BY DEF IsPicker, KeepsBut

LEMMA CapturesSet ==
  ASSUME NEW p, IsPicker(p), NEW x
  PROVE  LET q == [p EXCEPT !.endCaptures = x]
         IN  IsPicker(q) /\ q.endCaptures = x /\ KeepsBut(p, q, "endCaptures")
  BY DEF IsPicker, KeepsBut

LEMMA GeneratedSet ==
  ASSUME NEW p, IsPicker(p), NEW x
  PROVE  LET q == [p EXCEPT !.endGenerated = x]
         IN  IsPicker(q) /\ q.endGenerated = x /\ KeepsBut(p, q, "endGenerated")
  BY DEF IsPicker, KeepsBut

LEMMA SkipSet ==
  ASSUME NEW p, IsPicker(p), NEW x
  PROVE  LET q == [p EXCEPT !.skipQuiets = x]
         IN  IsPicker(q) /\ q.skipQuiets = x /\ KeepsBut(p, q, "skipQuiets")
  BY DEF IsPicker, KeepsBut

LEMMA SkippedSet ==
  ASSUME NEW p, IsPicker(p), NEW x
  PROVE  LET q == [p EXCEPT !.skippedAt = x]
         IN  IsPicker(q) /\ q.skippedAt = x /\ KeepsBut(p, q, "skippedAt")
  BY DEF IsPicker, KeepsBut

(* A list s of the moves of S written at cur: what lies before stays.       *)
Generated(p, q, s, k, S) ==
  /\ IsPicker(q) /\ q.cur = p.cur /\ q.endCur = p.cur + k
  /\ q.stage = p.stage /\ q.endBadCaptures = p.endBadCaptures /\ q.endCaptures = p.endCaptures
  /\ q.endGenerated = p.endGenerated /\ q.skipQuiets = p.skipQuiets /\ q.skippedAt = p.skippedAt
  /\ DOMAIN q.moves = 1 .. p.cur + k - 1
  /\ \A i \in 1 .. p.cur - 1 : q.moves[i] = p.moves[i]
  /\ \A i \in p.cur .. p.cur + k - 1 : q.moves[i] = s[i - p.cur + 1]
  /\ Holds(node, q.moves, p.cur, p.cur + k, S)

(* GenerateAt writes its list so.                                           *)
LEMMA GeneratedAt ==
  ASSUME NEW p, IsPicker(p), p.cur \in Int, p.cur >= 1, NEW k \in Nat, NEW s, Len(s) = k,
         NEW S, Holds(node, s, 1, k + 1, S)
  PROVE  Generated(p, GenerateAt(p, s), s, k, S)
<1> DEFINE w == [i \in 1 .. p.cur + k - 1 |-> IF i < p.cur THEN p.moves[i] ELSE s[i - p.cur + 1]]
           q == [p EXCEPT !.moves = w, !.endCur = p.cur + k]
<1>1. GenerateAt(p, s) = q
  BY DEF GenerateAt
<1>2. /\ DOMAIN w = 1 .. p.cur + k - 1
      /\ \A i \in 1 .. p.cur - 1 : w[i] = p.moves[i]
      /\ \A i \in p.cur .. p.cur + k - 1 : w[i] = s[i - p.cur + 1]
  OBVIOUS
<1> HIDE DEF w
<1> DEFINE v == [p EXCEPT !.moves = w]
<1>3. q = [v EXCEPT !.endCur = p.cur + k]
  OBVIOUS
<1>4. IsPicker(v) /\ v.moves = w /\ KeepsBut(p, v, "moves")
  BY MovesSet
<1> HIDE DEF q, v
<1>6. IsPicker(q) /\ q.endCur = p.cur + k /\ KeepsBut(v, q, "endCur")
  BY <1>3, <1>4, EndCurSet
<1>7. /\ q.cur = p.cur /\ q.endCur = p.cur + k /\ q.moves = w
      /\ q.stage = p.stage /\ q.endBadCaptures = p.endBadCaptures /\ q.endCaptures = p.endCaptures
      /\ q.endGenerated = p.endGenerated /\ q.skipQuiets = p.skipQuiets /\ q.skippedAt = p.skippedAt
  BY <1>4, <1>6 DEF KeepsBut
<1>5. Holds(node, w, p.cur, p.cur + k, S)
  BY <1>2, HoldsShifted
<1> QED BY <1>1, <1>2, <1>6, <1>7, <1>5 DEF Generated

(* The captures that lose material, and the quiets below the threshold.     *)
BadCaptures(n) == Captures \ GoodCaptures(n)
BadQuiets(n)   == Quiets \ GoodQuiets(n)

(* What a node's picker owes, and the rank of each of its moves.            *)
Wanted(n) == CASE n.mode = "probcut" -> GoodCaptures(n)
               [] n.mode = "qsearch" -> Captures
               [] OTHER -> AllMoves
(* All the node owes, and the turn of a move.                               *)
DueOf(n, p) == TableMove(n) \cup (IF n.mode = "main" /\ p.skipQuiets THEN Captures ELSE Wanted(n))

TurnOf(n, m) == IF m = n.tt \/ n.mode \notin {"main", "evasion"} THEN 0
                ELSE IF n.mode = "evasion" THEN (IF m \in Captures THEN 1 ELSE 2)
                ELSE IF m \in Captures THEN (IF n.see[m] THEN 1 ELSE 3)
                ELSE IF n.value[m] > goodQuietThreshold THEN 2 ELSE 4

(* What each stage of a main-search node has dealt, and holds.              *)
WalkingGoodAt(n, p, D, B, G) ==
  /\ p.endBadCaptures \in Int /\ p.cur \in Int /\ p.endCur \in Int /\ p.endCaptures = p.endCur
  /\ 1 <= p.endBadCaptures /\ p.endBadCaptures <= p.cur /\ p.cur <= p.endCur
  /\ DOMAIN p.moves = 1 .. p.endCur - 1
  /\ Holds(n, p.moves, 1, p.endBadCaptures, B) /\ Holds(n, p.moves, p.cur, p.endCur, G)
  /\ B \subseteq BadCaptures(n) \ {n.tt} /\ G \subseteq Captures /\ B \cap G = {}
  /\ BadCaptures(n) \ {n.tt} \subseteq B \cup G
  /\ TableMove(n) \subseteq D /\ D \subseteq TableMove(n) \cup GoodCaptures(n)
  /\ \A m \in GoodCaptures(n) \ {n.tt} : m \in D <=> m \notin G

(* GOOD_CAPTURE: the array is split at endBadCaptures and cur.              *)
WalkingGood(n, p, D) ==
  /\ p.stage = "GOOD_CAPTURE"
  /\ \E B, G \in SUBSET Captures : WalkingGoodAt(n, p, D, B, G)

(* GOOD_QUIET: the good captures are dealt, the bad ones kept in front.     *)
WalkingGoodQuiets(n, p, D) ==
  /\ p.stage = "GOOD_QUIET"
  /\ p.endBadCaptures \in Int /\ 1 <= p.endBadCaptures
  /\ Holds(n, p.moves, 1, p.endBadCaptures, BadCaptures(n) \ {n.tt})
  /\ TableMove(n) \cup GoodCaptures(n) \subseteq D
  /\ D \subseteq TableMove(n) \cup GoodCaptures(n) \cup GoodQuiets(n)
  /\ ~p.skipQuiets =>
       /\ p.endGenerated = p.endCur
       /\ Walked(n, p.moves, p.endCaptures, p.cur, p.endCur, Quiets, GoodQuiets(n) \ {n.tt}, D)
       /\ n.depth >= goodQuietDepth =>
            \A i, j \in p.endCaptures .. p.endCur - 1 :
              i < j /\ p.moves[i].value <= goodQuietThreshold => p.moves[j].value <= goodQuietThreshold

(* BAD_CAPTURE: the good quiets are dealt too, the others lie behind.       *)
WalkingBadCaptures(n, p, D) ==
  /\ p.stage = "BAD_CAPTURE"
  /\ Walked(n, p.moves, 1, p.cur, p.endCur, BadCaptures(n) \ {n.tt}, BadCaptures(n) \ {n.tt}, D)
  /\ TableMove(n) \cup GoodCaptures(n) \subseteq D
  /\ D \subseteq TableMove(n) \cup GoodCaptures(n) \cup GoodQuiets(n) \cup BadCaptures(n)
  /\ ~p.skipQuiets =>
       /\ GoodQuiets(n) \subseteq D
       /\ p.endCaptures \in Int /\ p.endGenerated \in Int /\ p.endCaptures <= p.endGenerated
       /\ Holds(n, p.moves, p.endCaptures, p.endGenerated, Quiets)

(* BAD_QUIET: what is not dealt are quiets at or below the threshold.       *)
WalkingBadQuiets(n, p, D) ==
  /\ p.stage = "BAD_QUIET"
  /\ TableMove(n) \cup Captures \subseteq D
  /\ D \subseteq AllMoves
  /\ ~p.skipQuiets =>
       /\ GoodQuiets(n) \subseteq D
       /\ Walked(n, p.moves, p.endCaptures, p.cur, p.endCur, Quiets, BadQuiets(n) \ {n.tt}, D)

(* And of the others, which deal from one list.                             *)
ListStage(n) == CASE n.mode = "evasion" -> "EVASION" [] n.mode = "qsearch" -> "QCAPTURE" [] OTHER -> "PROBCUT"
Listing(n)   == IF n.mode = "evasion" THEN AllMoves ELSE Captures

(* EVASION, QCAPTURE and PROBCUT walk one list.                             *)
WalkingList(n, p, D) ==
  /\ p.stage = ListStage(n)
  /\ Walked(n, p.moves, 1, p.cur, p.endCur, Listing(n), Wanted(n) \ {n.tt}, D)
  /\ TableMove(n) \subseteq D /\ D \subseteq TableMove(n) \cup Wanted(n)
  /\ n.mode = "evasion" =>
       \A i, j \in 1 .. p.endCur - 1 :
         i < j /\ p.moves[j].move \in Captures => p.moves[i].move \in Captures

(* Before the table move, and before the moves are generated.               *)
AtTable(n, p, D) ==
  /\ p.stage = TableStage(n.mode) /\ D = {} /\ TableMove(n) = {n.tt} /\ ~p.skipQuiets

AtInit(n, p, D) ==
  p.stage = FirstInit(n.mode) /\ D = TableMove(n)

(* What each stage knows of the moves dealt and of those left.              *)
StageOk(n, p, D) ==
  \/ AtTable(n, p, D)
  \/ AtInit(n, p, D)
  \/ /\ n.mode = "main"
     /\ \/ WalkingGood(n, p, D)
        \/ WalkingGoodQuiets(n, p, D)
        \/ WalkingBadCaptures(n, p, D)
        \/ WalkingBadQuiets(n, p, D)
  \/ n.mode # "main" /\ WalkingList(n, p, D)

(* What a call promises that has dealt D: one more move that is due, not    *)
(* dealt yet and no better than any dealt, or none when none is left.       *)
Outcome(n, p, D, r) ==
  /\ SameFlags(p, r.picker)
  /\ \/ r.move = none /\ DueOf(n, p) \subseteq D
     \/ /\ r.move \in DueOf(n, p) \ D
        /\ \A d \in D : TurnOf(n, d) <= TurnOf(n, r.move)
        /\ StageOk(n, r.picker, D \cup {r.move})
        /\ ~(n.mode = "main" /\ p.skipQuiets /\ r.move \in Quiets)

(* Its two cases.                                                           *)
LEMMA NoneLeft ==
  ASSUME NEW n, NEW p, NEW D, NEW r, SameFlags(p, r.picker), r.move = none, DueOf(n, p) \subseteq D
  PROVE  Outcome(n, p, D, r)
  BY Zenon DEF Outcome

LEMMA OneMore ==
  ASSUME NEW n, NEW p, NEW D, NEW r, SameFlags(p, r.picker), r.move \in DueOf(n, p) \ D,
         \A d \in D : TurnOf(n, d) <= TurnOf(n, r.move), StageOk(n, r.picker, D \cup {r.move}),
         ~(n.mode = "main" /\ p.skipQuiets /\ r.move \in Quiets)
  PROVE  Outcome(n, p, D, r)
  BY Zenon DEF Outcome

(* What holds of a picker with other flags unchanged holds of p.            *)
LEMMA OutcomeOf ==
  ASSUME NEW n, NEW p, NEW q, NEW D, NEW r, Outcome(n, q, D, r), SameFlags(p, q)
  PROVE  Outcome(n, p, D, r)
<1>1. SameFlags(p, r.picker)
  BY DEF Outcome, SameFlags
<1>2. DueOf(n, p) = DueOf(n, q)
  BY DEF DueOf, SameFlags
<1>3. q.skipQuiets = p.skipQuiets
  BY DEF SameFlags
<1> QED BY Zenon, <1>1, <1>2, <1>3 DEF Outcome

(* A move is a capture or a quiet, and none is neither.                     *)
LEMMA NotTwice ==
  Captures \cap Quiets = {} /\ none \notin AllMoves
  BY PickerAssumption DEF AllMoves, none

(* The turns of the moves of a main-search node.                            *)
LEMMA TurnsMain ==
  ASSUME NEW n, NodeOk(n), n.mode = "main"
  PROVE  /\ TurnOf(n, n.tt) = 0
         /\ \A m \in TableMove(n) : TurnOf(n, m) = 0
         /\ \A m \in GoodCaptures(n) \ {n.tt} : TurnOf(n, m) = 1
         /\ \A m \in GoodQuiets(n) \ {n.tt} : TurnOf(n, m) = 2
         /\ \A m \in BadCaptures(n) \ {n.tt} : TurnOf(n, m) = 3
         /\ \A m \in BadQuiets(n) \ {n.tt} : TurnOf(n, m) = 4
  BY NotTwice DEF TurnOf, TableMove, GoodCaptures, GoodQuiets, BadCaptures, BadQuiets, AllMoves

(* What passes, of the slots that score has filled.                         *)
LEMMA Passing ==
  ASSUME NodeOk(node), NEW x, x.move \in AllMoves, x = ShownAs(node, x.move)
  PROVE  /\ x \in Every
         /\ x \in LikelyGood <=> x.value > goodQuietThreshold
         /\ x \in LikelyBad <=> ~(x.value > goodQuietThreshold)
         /\ x \in Winning <=> x.move \in GoodCaptures(node)
<1>1. x = Slot(x.move)
  BY SlotShown
<1>2. x \in Every
  BY <1>1 DEF Every, AllMoves
<1>3. \A m : Slot(m).move = m
  BY SlotShown, ShownMove
<1>4. x \in Winning <=> x.move \in GoodCaptures(node)
  BY <1>1, <1>3 DEF Winning, See, GoodCaptures
<1> QED BY <1>2, <1>4 DEF LikelyGood, LikelyBad

(* A quiet lies on one side of the threshold.                               *)
LEMMA QuietShown ==
  ASSUME NEW n, NodeOk(n), NEW x, x.move \in Quiets, x = ShownAs(n, x.move)
  PROVE  /\ x.value = n.value[x.move] /\ x.value \in Int
         /\ x.value > goodQuietThreshold <=> x.move \in GoodQuiets(n)
         /\ ~(x.value > goodQuietThreshold) <=> x.move \in BadQuiets(n)
<1>1. x.move \in AllMoves /\ x.move \notin Captures
  BY NotTwice DEF AllMoves
<1>2. x.value = n.value[x.move] /\ x.value \in Int
  BY <1>1, ShownValue
<1> QED BY <1>2 DEF GoodQuiets, BadQuiets

(* BAD_QUIET deals the next quiet, or all are dealt.                        *)
LEMMA BadQuietDeals ==
  ASSUME NodeOk(node), node.mode = "main", NEW p, IsPicker(p), NEW D, WalkingBadQuiets(node, p, D)
  PROVE  Outcome(node, p, D, BadQuiet(p))
<1> DEFINE r == BadQuiet(p)
           P == BadQuiets(node) \ {node.tt}
<1>0. Wanted(node) = AllMoves
  BY DEF Wanted
<1>1. /\ p.stage = "BAD_QUIET" /\ TableMove(node) \cup Captures \subseteq D /\ D \subseteq AllMoves
  BY DEF WalkingBadQuiets
<1>2. CASE p.skipQuiets
  <2>1. r.picker = p /\ r.move = none
    BY <1>2 DEF BadQuiet, Result
  <2>2. DueOf(node, p) \subseteq D
    BY <1>1, <1>2 DEF DueOf
  <2> HIDE DEF r
  <2>3. SameFlags(p, r.picker)
    BY <2>1 DEF SameFlags
  <2> QED BY <2>1, <2>2, <2>3, NoneLeft DEF r
<1>3. CASE ~p.skipQuiets
  <2>1. r = select(p, LikelyBad)
    BY <1>3 DEF BadQuiet
  <2>2. GoodQuiets(node) \subseteq D /\ Walked(node, p.moves, p.endCaptures, p.cur, p.endCur, Quiets, P, D)
    BY <1>3 DEF WalkingBadQuiets
  <2> HIDE DEF r
  <2>3. Selected(p, LikelyBad, r)
    <3>1. p.cur \in Int /\ p.endCur \in Int
      BY <2>2 DEF Walked
    <3> QED BY <2>1, <3>1, SelectIs
  <2>4. Passes(p, p.endCaptures, LikelyBad, P)
    <3>1. ASSUME NEW i \in p.endCaptures .. p.endCur - 1
          PROVE  (p.moves[i].move # node.tt /\ p.moves[i] \in LikelyBad) <=> p.moves[i].move \in P
      <4>1. p.moves[i].move \in Quiets /\ p.moves[i] = ShownAs(node, p.moves[i].move)
        BY <2>2 DEF Walked, Holds
      <4>2. p.moves[i].move \in AllMoves
        BY <4>1 DEF AllMoves
      <4> QED BY <4>1, <4>2, Passing, QuietShown
    <3> QED BY <3>1 DEF Passes
  <2> HIDE DEF P
  <2>5. \/ r.move = none /\ P \subseteq D /\ \E c : MovedTo(p, r.picker, c)
        \/ \E i : DealtNext(p, p.endCaptures, Quiets, P, D, r, i)
    BY <2>2, <2>3, <2>4, WalkOn
  <2>6. SameFlags(p, r.picker)
    BY <2>2, <2>3, <2>4, WalkOn
  <2>7. CASE r.move = none /\ P \subseteq D
    <3>1. DueOf(node, p) \subseteq D
      BY <2>7, <2>2, <1>0, <1>1, <1>3 DEF DueOf, P, BadQuiets, AllMoves, TableMove
    <3> QED BY <2>6, <2>7, <3>1, NoneLeft DEF r
  <2>8. ASSUME NEW i, DealtNext(p, p.endCaptures, Quiets, P, D, r, i)
        PROVE  Outcome(node, p, D, r)
    <3>0. /\ r.move \in P \ D /\ MovedTo(p, r.picker, i + 1)
          /\ Walked(node, p.moves, p.endCaptures, i + 1, p.endCur, Quiets, P, D \cup {r.move})
      BY <2>8 DEF DealtNext
    <3>1. r.move \in DueOf(node, p) \ D /\ r.move \in AllMoves
      BY <3>0, <1>0, <1>3 DEF DueOf, P, BadQuiets, AllMoves
    <3>2. TurnOf(node, r.move) = 4
      BY <3>0, TurnsMain DEF P
    <3>3. \A d \in D : TurnOf(node, d) <= 4
      <4>1. ASSUME NEW d \in D PROVE TurnOf(node, d) <= 4
        <5>1. \/ d = node.tt \/ d \in GoodCaptures(node) \ {node.tt} \/ d \in BadCaptures(node) \ {node.tt}
              \/ d \in GoodQuiets(node) \ {node.tt} \/ d \in BadQuiets(node) \ {node.tt}
          BY <1>1 DEF BadCaptures, BadQuiets, AllMoves
        <5>2. TurnOf(node, d) \in {0, 1, 2, 3, 4}
          BY <5>1, TurnsMain
        <5> QED BY <5>2
      <4> QED BY <4>1
    <3>4. WalkingBadQuiets(node, r.picker, D \cup {r.move})
      <4>1. /\ r.picker.stage = p.stage /\ r.picker.moves = p.moves /\ r.picker.cur = i + 1
            /\ r.picker.endCur = p.endCur /\ r.picker.endCaptures = p.endCaptures
        BY <3>0 DEF MovedTo
      <4>2. Walked(node, r.picker.moves, r.picker.endCaptures, r.picker.cur, r.picker.endCur, Quiets, P, D \cup {r.move})
        BY <3>0, <4>1
      <4> QED BY <1>1, <2>2, <3>1, <4>1, <4>2 DEF WalkingBadQuiets, P
    <3>5. StageOk(node, r.picker, D \cup {r.move})
      BY <3>4 DEF StageOk
    <3>6. \A d \in D : TurnOf(node, d) <= TurnOf(node, r.move)
      BY <3>2, <3>3
    <3> QED BY <1>3, <2>6, <3>1, <3>5, <3>6, OneMore
  <2> QED BY <2>5, <2>7, <2>8 DEF r
<1> QED BY <1>2, <1>3

LEMMA TableIs ==
  ASSUME NEW n
  PROVE  /\ TableMove(n) \subseteq AllMoves /\ TableMove(n) \subseteq {n.tt}
         /\ n.mode # "probcut" /\ n.tt \in AllMoves => n.tt \in TableMove(n)
         /\ n.tt \in Captures => n.tt \in TableMove(n)
  BY DEF TableMove, AllMoves

(* The halves of the captures and of the quiets.                            *)
LEMMA Halves ==
  ASSUME NEW n
  PROVE  /\ Captures = GoodCaptures(n) \cup BadCaptures(n) /\ GoodCaptures(n) \cap BadCaptures(n) = {}
         /\ Quiets = GoodQuiets(n) \cup BadQuiets(n) /\ GoodQuiets(n) \cap BadQuiets(n) = {}
         /\ AllMoves = Captures \cup Quiets
  BY DEF GoodCaptures, BadCaptures, GoodQuiets, BadQuiets, AllMoves

(* What a main-search node owes.                                            *)
LEMMA MainOwes ==
  ASSUME NEW n, n.mode = "main", NEW p
  PROVE  DueOf(n, p) = TableMove(n) \cup (IF p.skipQuiets THEN Captures ELSE AllMoves)
<1>1. Wanted(n) = AllMoves
  BY DEF Wanted
<1> QED BY <1>1 DEF DueOf

(* With the captures dealt, the walk goes back to the quiets.               *)
LEMMA BadQuietsFollow ==
  ASSUME NodeOk(node), NEW p, IsPicker(p), NEW D,
         p.stage = "BAD_CAPTURE", TableMove(node) \cup Captures \subseteq D,
         D \subseteq TableMove(node) \cup Captures \cup GoodQuiets(node),
         ~p.skipQuiets =>
           /\ GoodQuiets(node) \subseteq D
           /\ p.endCaptures \in Int /\ p.endGenerated \in Int /\ p.endCaptures <= p.endGenerated
           /\ Holds(node, p.moves, p.endCaptures, p.endGenerated, Quiets)
  PROVE  SameFlags(p, ToBadQuiets(p)) /\ WalkingBadQuiets(node, ToBadQuiets(p), D)
<1> DEFINE q == ToBadQuiets(p)
           P == BadQuiets(node) \ {node.tt}
           q1 == [p EXCEPT !.stage = "BAD_QUIET"]
<1>1. IsPicker(q1) /\ q1.stage = "BAD_QUIET" /\ KeepsBut(p, q1, "stage")
  BY StageSet
<1>2. D \subseteq AllMoves /\ D \cap P = {}
  BY TableIs, Halves, NotTwice
<1>3. CASE p.skipQuiets
  <2>1. q = q1
    BY <1>3 DEF ToBadQuiets
  <2> HIDE DEF q, q1
  <2>2. SameFlags(p, q) /\ q.skipQuiets
    BY <1>1, <1>3, <2>1 DEF KeepsBut, SameFlags
  <2>3. WalkingBadQuiets(node, q, D)
    BY <1>1, <1>2, <2>1, <2>2 DEF WalkingBadQuiets
  <2> QED BY <2>2, <2>3 DEF q
<1>4. CASE ~p.skipQuiets
  <2> DEFINE q2 == [q1 EXCEPT !.cur = p.endCaptures]
             q3 == [q2 EXCEPT !.endCur = p.endGenerated]
  <2>1. q = q3
    BY <1>4 DEF ToBadQuiets
  <2> HIDE DEF q, q1
  <2>2. IsPicker(q2) /\ q2.cur = p.endCaptures /\ KeepsBut(q1, q2, "cur")
    BY <1>1, CurSet
  <2> HIDE DEF q2
  <2>3. IsPicker(q3) /\ q3.endCur = p.endGenerated /\ KeepsBut(q2, q3, "endCur")
    BY <2>2, EndCurSet
  <2> HIDE DEF q3
  <2>4. /\ q.stage = "BAD_QUIET" /\ q.cur = p.endCaptures /\ q.endCur = p.endGenerated /\ q.moves = p.moves
        /\ q.endCaptures = p.endCaptures /\ SameFlags(p, q)
    BY <1>1, <2>1, <2>2, <2>3 DEF KeepsBut, SameFlags
  <2>5. \A i \in p.endCaptures .. p.endGenerated - 1 :
           p.moves[i].move \in P => (p.moves[i].move \in D <=> i < p.endCaptures)
    BY <1>2, <1>4
  <2>6. P \subseteq Quiets
    BY Halves
  <2> HIDE DEF P
  <2>7. Walked(node, p.moves, p.endCaptures, p.endCaptures, p.endGenerated, Quiets, P, D)
    BY <1>4, <2>5, <2>6 DEF Walked
  <2>8. Walked(node, q.moves, q.endCaptures, q.cur, q.endCur, Quiets, P, D)
    BY <2>4, <2>7
  <2>9. WalkingBadQuiets(node, q, D)
    BY <1>2, <1>4, <2>4, <2>8 DEF WalkingBadQuiets, P
  <2> QED BY <2>4, <2>9 DEF q
<1> QED BY <1>3, <1>4

(* BAD_CAPTURE deals the next capture, or goes on to the quiets.            *)
LEMMA BadCaptureDeals ==
  ASSUME NodeOk(node), node.mode = "main", NEW p, IsPicker(p), NEW D, WalkingBadCaptures(node, p, D)
  PROVE  Outcome(node, p, D, BadCapture(p))
<1> DEFINE r == select(p, Every)
           P == BadCaptures(node) \ {node.tt}
<1>1. /\ p.stage = "BAD_CAPTURE" /\ Walked(node, p.moves, 1, p.cur, p.endCur, P, P, D)
      /\ TableMove(node) \cup GoodCaptures(node) \subseteq D
      /\ D \subseteq TableMove(node) \cup GoodCaptures(node) \cup GoodQuiets(node) \cup BadCaptures(node)
  BY DEF WalkingBadCaptures
<1>2. Selected(p, Every, r)
  <2>1. p.cur \in Int /\ p.endCur \in Int
    BY <1>1 DEF Walked
  <2> QED BY <2>1, SelectIs
<1>3. Passes(p, 1, Every, P)
  <2>1. ASSUME NEW i \in 1 .. p.endCur - 1
        PROVE  (p.moves[i].move # node.tt /\ p.moves[i] \in Every) <=> p.moves[i].move \in P
    <3>1. p.moves[i].move \in P /\ p.moves[i] = ShownAs(node, p.moves[i].move)
      BY <1>1 DEF Walked, Holds
    <3>2. p.moves[i].move \in AllMoves /\ p.moves[i].move # node.tt
      BY <3>1, Halves
    <3> QED BY <3>1, <3>2, Passing
  <2> QED BY <2>1 DEF Passes
<1> HIDE DEF r, P
<1>4. /\ SameFlags(p, r.picker)
      /\ \/ r.move = none /\ P \subseteq D /\ \E c : MovedTo(p, r.picker, c)
         \/ \E i : DealtNext(p, 1, P, P, D, r, i)
  BY <1>1, <1>2, <1>3, WalkOn
<1>5. ASSUME NEW i, DealtNext(p, 1, P, P, D, r, i)
      PROVE  r.move # none /\ Outcome(node, p, D, r)
  <2>1. /\ r.move \in P \ D /\ MovedTo(p, r.picker, i + 1)
        /\ Walked(node, p.moves, 1, i + 1, p.endCur, P, P, D \cup {r.move})
    BY <1>5 DEF DealtNext
  <2>2. r.move \in BadCaptures(node) \ {node.tt} /\ r.move \in Captures /\ r.move \in AllMoves /\ r.move \notin Quiets
    BY <2>1, Halves, NotTwice DEF P
  <2>3. r.move # none
    BY <2>2, NotTwice
  <2>4. r.move \in DueOf(node, p) \ D
    BY <2>1, <2>2, MainOwes
  <2>5. TurnOf(node, r.move) = 3
    BY <2>2, TurnsMain
  <2>6. \A d \in D : TurnOf(node, d) <= TurnOf(node, r.move)
    <3>1. ASSUME NEW d \in D PROVE TurnOf(node, d) <= 3
      <4>1. \/ d = node.tt \/ d \in GoodCaptures(node) \ {node.tt} \/ d \in BadCaptures(node) \ {node.tt}
            \/ d \in GoodQuiets(node) \ {node.tt}
        BY <1>1, TableIs
      <4>2. TurnOf(node, d) \in {0, 1, 2, 3}
        BY <4>1, TurnsMain
      <4> QED BY <4>2
    <3> QED BY <2>5, <3>1
  <2>7. /\ r.picker.stage = p.stage /\ r.picker.moves = p.moves /\ r.picker.cur = i + 1
        /\ r.picker.endCur = p.endCur /\ r.picker.endCaptures = p.endCaptures
        /\ r.picker.endGenerated = p.endGenerated /\ r.picker.skipQuiets = p.skipQuiets
    BY <2>1 DEF MovedTo
  <2>8. Walked(node, r.picker.moves, 1, r.picker.cur, r.picker.endCur, P, P, D \cup {r.move})
    BY <2>1, <2>7
  <2>9. ~r.picker.skipQuiets =>
          /\ GoodQuiets(node) \subseteq D \cup {r.move}
          /\ r.picker.endCaptures \in Int /\ r.picker.endGenerated \in Int
          /\ r.picker.endCaptures <= r.picker.endGenerated
          /\ Holds(node, r.picker.moves, r.picker.endCaptures, r.picker.endGenerated, Quiets)
    BY <2>7 DEF WalkingBadCaptures
  <2>10. WalkingBadCaptures(node, r.picker, D \cup {r.move})
    BY <1>1, <2>2, <2>7, <2>8, <2>9 DEF WalkingBadCaptures, P
  <2>11. StageOk(node, r.picker, D \cup {r.move})
    BY <2>10 DEF StageOk
  <2> QED BY <1>4, <2>2, <2>3, <2>4, <2>6, <2>11, OneMore
<1>6. ASSUME r.move = none, P \subseteq D, NEW c, MovedTo(p, r.picker, c)
      PROVE  Outcome(node, p, D, BadQuiet(ToBadQuiets(r.picker)))
  <2> DEFINE v == r.picker
             q == ToBadQuiets(v)
  <2>1. IsPicker(v) /\ SameFlags(p, v)
    BY <1>4 DEF SameFlags
  <2>2. /\ v.stage = "BAD_CAPTURE" /\ v.moves = p.moves /\ v.skipQuiets = p.skipQuiets
        /\ v.endCaptures = p.endCaptures /\ v.endGenerated = p.endGenerated
    BY <1>1, <1>6 DEF MovedTo
  <2>3. TableMove(node) \cup Captures \subseteq D
    BY <1>1, <1>6, Halves, TableIs DEF P
  <2>4. D \subseteq TableMove(node) \cup Captures \cup GoodQuiets(node)
    BY <1>1, Halves
  <2>5. ~v.skipQuiets =>
           /\ GoodQuiets(node) \subseteq D
           /\ v.endCaptures \in Int /\ v.endGenerated \in Int /\ v.endCaptures <= v.endGenerated
           /\ Holds(node, v.moves, v.endCaptures, v.endGenerated, Quiets)
    BY <2>2 DEF WalkingBadCaptures
  <2> HIDE DEF v
  <2>6. SameFlags(v, q) /\ WalkingBadQuiets(node, q, D)
    BY <2>1, <2>2, <2>3, <2>4, <2>5, BadQuietsFollow
  <2> HIDE DEF q
  <2>7. SameFlags(p, q) /\ IsPicker(q)
    BY <2>1, <2>6 DEF SameFlags
  <2>8. Outcome(node, q, D, BadQuiet(q))
    BY <2>6, <2>7, BadQuietDeals
  <2>9. Outcome(node, p, D, BadQuiet(q))
    BY <2>7, <2>8, OutcomeOf
  <2> QED BY <2>9 DEF q, v
<1>7. r.move # none => BadCapture(p) = r
  BY DEF BadCapture, r
<1>8. r.move = none => BadCapture(p) = BadQuiet(ToBadQuiets(r.picker))
  BY DEF BadCapture, r
<1>9. CASE \E i : DealtNext(p, 1, P, P, D, r, i)
  <2>1. r.move # none /\ Outcome(node, p, D, r)
    BY <1>9, <1>5
  <2> QED BY <2>1, <1>7
<1>10. CASE r.move = none /\ P \subseteq D /\ \E c : MovedTo(p, r.picker, c)
  <2>1. Outcome(node, p, D, BadQuiet(ToBadQuiets(r.picker)))
    BY <1>10, <1>6
  <2> QED BY <2>1, <1>10, <1>8
<1> QED BY <1>4, <1>9, <1>10

(* Where nothing good lies beyond the first quiet that is not, the search   *)
(* may stop there: it finds what a search of the whole list does.           *)
LEMMA EarlyBreakIs ==
  ASSUME NodeOk(node), NEW p, IsPicker(p), NEW lo, NEW P, NEW D,
         Walked(node, p.moves, lo, p.cur, p.endCur, Quiets, P, D),
         \A i, j \in lo .. p.endCur - 1 :
           i < j /\ p.moves[i].value <= goodQuietThreshold => p.moves[j].value <= goodQuietThreshold
  PROVE  Selected(p, LikelyGood, EarlyBreak(p))
<1> DEFINE stops == {i \in p.cur .. p.endCur - 1 : p.moves[i].value <= goodQuietThreshold}
           stop == IF stops = {} THEN p.endCur ELSE CHOOSE i \in stops : \A j \in stops : i <= j
           q == [p EXCEPT !.endCur = stop]
           t == select(q, Every)
           v == [t.picker EXCEPT !.endCur = p.endCur]
           r == EarlyBreak(p)
<1>1. /\ lo \in Int /\ p.cur \in Int /\ p.endCur \in Int /\ lo <= p.cur /\ p.cur <= p.endCur
      /\ Holds(node, p.moves, lo, p.endCur, Quiets)
  BY DEF Walked
<1>2. ASSUME NEW i \in lo .. p.endCur - 1
      PROVE  /\ p.moves[i].value \in Int /\ p.moves[i] \in Every
             /\ p.moves[i] \in LikelyGood <=> ~(p.moves[i].value <= goodQuietThreshold)
  <2>1. p.moves[i].move \in Quiets /\ p.moves[i] = ShownAs(node, p.moves[i].move)
    BY <1>1 DEF Holds
  <2>2. p.moves[i].move \in AllMoves
    BY <2>1 DEF AllMoves
  <2>3. p.moves[i].value \in Int
    BY <2>1, QuietShown
  <2>4. goodQuietThreshold \in Int
    BY DEF goodQuietThreshold
  <2> QED BY <2>1, <2>2, <2>3, <2>4, Passing
<1>3. r = [t EXCEPT !.picker.endCur = p.endCur]
  BY DEF EarlyBreak
<1>4. /\ stop \in Int /\ p.cur <= stop /\ stop <= p.endCur
      /\ \A i \in p.cur .. stop - 1 : ~(p.moves[i].value <= goodQuietThreshold)
      /\ \A i \in stop .. p.endCur - 1 : p.moves[i].value <= goodQuietThreshold
  <2>1. CASE stops = {}
    <3>1. stop = p.endCur
      BY <2>1
    <3>2. \A i \in p.cur .. p.endCur - 1 : ~(p.moves[i].value <= goodQuietThreshold)
      BY <2>1
    <3> HIDE DEF stop
    <3> QED BY <1>1, <3>1, <3>2
  <2>2. CASE stops # {}
    <3>1. stops \in SUBSET (p.cur .. p.endCur - 1) /\ p.endCur - 1 \in Int
      BY <1>1
    <3>2. stop \in stops /\ \A j \in stops : stop <= j
      <4>1. \E i \in stops : \A j \in stops : i <= j
        <5> HIDE DEF stops
        <5> QED BY <1>1, <2>2, <3>1, LeastOf
      <4>2. stop = CHOOSE i \in stops : \A j \in stops : i <= j
        BY <2>2
      <4> HIDE DEF stops, stop
      <4> QED BY <4>1, <4>2
    <3> HIDE DEF stop
    <3>3. stop \in p.cur .. p.endCur - 1 /\ p.moves[stop].value <= goodQuietThreshold
      BY <3>2
    <3>4. \A i \in p.cur .. stop - 1 : ~(p.moves[i].value <= goodQuietThreshold)
      BY <3>2, <3>3, <1>1
    <3>5. ASSUME NEW i \in stop .. p.endCur - 1 PROVE p.moves[i].value <= goodQuietThreshold
      <4>1. stop \in lo .. p.endCur - 1 /\ i \in lo .. p.endCur - 1
        BY <3>3, <1>1
      <4>2. i = stop \/ stop < i
        BY <4>1
      <4> QED BY <4>1, <4>2, <3>3
    <3> QED BY <1>1, <3>3, <3>4, <3>5
  <2> QED BY <2>1, <2>2
<1> HIDE DEF stop, r
<1>5. IsPicker(q) /\ q.endCur = stop /\ KeepsBut(p, q, "endCur")
  BY EndCurSet
<1> HIDE DEF q
<1>6. q.moves = p.moves /\ q.cur = p.cur /\ q.endCur = stop
  BY <1>5 DEF KeepsBut
<1>7. Selected(q, Every, t)
  BY <1>1, <1>4, <1>5, <1>6, SelectIs
<1>8. t = [picker |-> t.picker, move |-> t.move]
  BY DEF select, Result
<1> HIDE DEF t
<1>9. r.picker = v /\ r.move = t.move
  BY <1>3, <1>8
<1>10. IsPicker(v) /\ v.endCur = p.endCur /\ KeepsBut(t.picker, v, "endCur")
  BY <1>7, EndCurSet DEF Selected
<1> HIDE DEF v
<1>11. ASSUME NEW c, MovedTo(q, t.picker, c) PROVE MovedTo(p, r.picker, c)
  BY <1>11, <1>5, <1>9, <1>10 DEF MovedTo, KeepsBut
<1>12. CASE /\ t.move = none
            /\ \A i \in q.cur .. q.endCur - 1 : q.moves[i].move = node.tt \/ q.moves[i] \notin Every
            /\ \E c : MovedTo(q, t.picker, c)
  <2>1. ASSUME NEW i \in p.cur .. p.endCur - 1
        PROVE  p.moves[i].move = node.tt \/ p.moves[i] \notin LikelyGood
    <3>1. i \in lo .. p.endCur - 1
      BY <1>1
    <3>2. CASE i < stop
      <4>1. i \in q.cur .. q.endCur - 1
        BY <3>2, <1>1, <1>4, <1>6
      <4> QED BY <4>1, <1>12, <1>6, <1>2, <3>1
    <3>3. CASE ~(i < stop)
      <4>1. i \in stop .. p.endCur - 1
        BY <3>3, <1>1, <1>4
      <4> QED BY <4>1, <1>4, <1>2, <3>1
    <3> QED BY <3>2, <3>3
  <2>2. \E c : MovedTo(p, r.picker, c)
    BY <1>11, <1>12
  <2> QED BY <1>9, <1>10, <1>12, <2>1, <2>2 DEF Selected, r
<1>13. ASSUME NEW i \in q.cur .. q.endCur - 1,
              t.move = q.moves[i].move, t.move # node.tt,
              \A j \in q.cur .. i - 1 : q.moves[j].move = node.tt \/ q.moves[j] \notin Every,
              MovedTo(q, t.picker, i + 1)
       PROVE  Selected(p, LikelyGood, r)
  <2>1. /\ i \in p.cur .. p.endCur - 1 /\ i \in lo .. p.endCur - 1 /\ i \in p.cur .. stop - 1
        /\ \A j \in p.cur .. i - 1 : j \in q.cur .. i - 1 /\ j \in lo .. p.endCur - 1
    BY <1>1, <1>4, <1>6
  <2>2. r.move = p.moves[i].move /\ r.move # node.tt
    BY <1>13, <1>6, <1>9
  <2>3. p.moves[i] \in LikelyGood
    BY <2>1, <1>2, <1>4
  <2>4. \A j \in p.cur .. i - 1 : p.moves[j].move = node.tt \/ p.moves[j] \notin LikelyGood
    BY <2>1, <1>2, <1>6, <1>13
  <2>5. MovedTo(p, r.picker, i + 1)
    BY <1>11, <1>13
  <2>6. IsPicker(r.picker)
    BY <1>9, <1>10
  <2> QED BY <2>1, <2>2, <2>3, <2>4, <2>5, <2>6 DEF Selected
<1> QED BY <1>7, <1>12, <1>13 DEF Selected, r

(* With the good quiets dealt, it goes back to the captures in front.       *)
LEMMA BadCapturesFollow ==
  ASSUME NodeOk(node), node.mode = "main", NEW p, IsPicker(p), NEW D,
         p.endBadCaptures \in Int, 1 <= p.endBadCaptures,
         Holds(node, p.moves, 1, p.endBadCaptures, BadCaptures(node) \ {node.tt}),
         TableMove(node) \cup GoodCaptures(node) \subseteq D,
         D \subseteq TableMove(node) \cup GoodCaptures(node) \cup GoodQuiets(node),
         ~p.skipQuiets =>
           /\ GoodQuiets(node) \subseteq D
           /\ p.endCaptures \in Int /\ p.endGenerated \in Int /\ p.endCaptures <= p.endGenerated
           /\ Holds(node, p.moves, p.endCaptures, p.endGenerated, Quiets)
  PROVE  Outcome(node, p, D, BadCapture([p EXCEPT !.stage = "BAD_CAPTURE", !.cur = 1, !.endCur = p.endBadCaptures]))
<1> DEFINE P == BadCaptures(node) \ {node.tt}
           q1 == [p EXCEPT !.stage = "BAD_CAPTURE"]
           q2 == [q1 EXCEPT !.cur = 1]
           q3 == [q2 EXCEPT !.endCur = p.endBadCaptures]
           q == [p EXCEPT !.stage = "BAD_CAPTURE", !.cur = 1, !.endCur = p.endBadCaptures]
<1>1. q = q3
  OBVIOUS
<1> HIDE DEF q
<1>2. IsPicker(q1) /\ q1.stage = "BAD_CAPTURE" /\ KeepsBut(p, q1, "stage")
  BY StageSet
<1> HIDE DEF q1
<1>3. IsPicker(q2) /\ q2.cur = 1 /\ KeepsBut(q1, q2, "cur")
  BY <1>2, CurSet
<1> HIDE DEF q2
<1>4. IsPicker(q3) /\ q3.endCur = p.endBadCaptures /\ KeepsBut(q2, q3, "endCur")
  BY <1>3, EndCurSet
<1> HIDE DEF q3
<1>5. /\ q.stage = "BAD_CAPTURE" /\ q.cur = 1 /\ q.endCur = p.endBadCaptures /\ q.moves = p.moves
      /\ q.endCaptures = p.endCaptures /\ q.endGenerated = p.endGenerated
      /\ q.skipQuiets = p.skipQuiets /\ SameFlags(p, q)
  BY <1>1, <1>2, <1>3, <1>4 DEF KeepsBut, SameFlags
<1>6. \A m \in P : m \notin D
  BY TableIs, Halves, NotTwice
<1>7. \A i \in 1 .. p.endBadCaptures - 1 : p.moves[i].move \in P => (p.moves[i].move \in D <=> i < 1)
  BY <1>6
<1> HIDE DEF P
<1>8. Walked(node, p.moves, 1, 1, p.endBadCaptures, P, P, D)
  BY <1>7 DEF Walked, P
<1>9. Walked(node, q.moves, 1, q.cur, q.endCur, P, P, D)
  BY <1>5, <1>8
<1>10. WalkingBadCaptures(node, q, D)
  BY <1>5, <1>9 DEF WalkingBadCaptures, P
<1>11. IsPicker(q)
  BY <1>5 DEF SameFlags
<1>12. Outcome(node, q, D, BadCapture(q))
  BY <1>10, <1>11, BadCaptureDeals
<1>13. Outcome(node, p, D, BadCapture(q))
  BY <1>5, <1>12, OutcomeOf
<1> QED BY <1>13 DEF q

(* GOOD_QUIET deals a good quiet or goes on; the early break loses none.    *)
LEMMA GoodQuietDeals ==
  ASSUME NodeOk(node), node.mode = "main", NEW p, IsPicker(p), NEW D, WalkingGoodQuiets(node, p, D)
  PROVE  Outcome(node, p, D, GoodQuiet(p))
<1> DEFINE r == IF p.skipQuiets THEN Result(p, none)
                ELSE IF node.depth >= goodQuietDepth THEN EarlyBreak(p)
                ELSE select(p, LikelyGood)
           P == GoodQuiets(node) \ {node.tt}
           v == r.picker
           follow == BadCapture([v EXCEPT !.stage = "BAD_CAPTURE", !.cur = 1, !.endCur = p.endBadCaptures])
<1>1. /\ p.stage = "GOOD_QUIET" /\ p.endBadCaptures \in Int /\ 1 <= p.endBadCaptures
      /\ Holds(node, p.moves, 1, p.endBadCaptures, BadCaptures(node) \ {node.tt})
      /\ TableMove(node) \cup GoodCaptures(node) \subseteq D
      /\ D \subseteq TableMove(node) \cup GoodCaptures(node) \cup GoodQuiets(node)
  BY DEF WalkingGoodQuiets
<1>2. GoodQuiet(p) = IF r.move # none THEN r ELSE follow
  BY DEF GoodQuiet
<1> HIDE DEF follow
<1>3. CASE p.skipQuiets
  <2>1. r = Result(p, none)
    BY <1>3
  <2> HIDE DEF r
  <2>2. r.move = none /\ v = p
    BY <2>1 DEF Result
  <2> HIDE DEF v
  <2>3. Outcome(node, p, D, follow)
    BY <1>1, <1>3, <2>2, BadCapturesFollow DEF follow
  <2> QED BY <1>2, <2>2, <2>3
<1>4. CASE ~p.skipQuiets
  <2>1. /\ p.endGenerated = p.endCur
        /\ Walked(node, p.moves, p.endCaptures, p.cur, p.endCur, Quiets, P, D)
        /\ node.depth >= goodQuietDepth =>
             \A i, j \in p.endCaptures .. p.endCur - 1 :
               i < j /\ p.moves[i].value <= goodQuietThreshold => p.moves[j].value <= goodQuietThreshold
    BY <1>4 DEF WalkingGoodQuiets
  <2>2. Selected(p, LikelyGood, r)
    <3>1. CASE node.depth >= goodQuietDepth
      <4>1. r = EarlyBreak(p)
        BY <1>4, <3>1
      <4> HIDE DEF r
      <4> QED BY <2>1, <3>1, <4>1, EarlyBreakIs
    <3>2. CASE ~(node.depth >= goodQuietDepth)
      <4>1. r = select(p, LikelyGood)
        BY <1>4, <3>2
      <4>2. p.cur \in Int /\ p.endCur \in Int
        BY <2>1 DEF Walked
      <4> HIDE DEF r
      <4> QED BY <4>1, <4>2, SelectIs
    <3> QED BY <3>1, <3>2
  <2> HIDE DEF r
  <2>3. Passes(p, p.endCaptures, LikelyGood, P)
    <3>1. ASSUME NEW i \in p.endCaptures .. p.endCur - 1
          PROVE  (p.moves[i].move # node.tt /\ p.moves[i] \in LikelyGood) <=> p.moves[i].move \in P
      <4>1. p.moves[i].move \in Quiets /\ p.moves[i] = ShownAs(node, p.moves[i].move)
        BY <2>1 DEF Walked, Holds
      <4>2. p.moves[i].move \in AllMoves
        BY <4>1 DEF AllMoves
      <4> QED BY <4>1, <4>2, Passing, QuietShown
    <3> QED BY <3>1 DEF Passes
  <2> HIDE DEF P
  <2>4. /\ SameFlags(p, r.picker)
        /\ \/ r.move = none /\ P \subseteq D /\ \E c : MovedTo(p, r.picker, c)
           \/ \E i : DealtNext(p, p.endCaptures, Quiets, P, D, r, i)
    BY <2>1, <2>2, <2>3, WalkOn
  <2>5. ASSUME NEW i, DealtNext(p, p.endCaptures, Quiets, P, D, r, i)
        PROVE  r.move # none /\ Outcome(node, p, D, r)
    <3>1. /\ r.move \in P \ D /\ MovedTo(p, r.picker, i + 1)
          /\ Walked(node, p.moves, p.endCaptures, i + 1, p.endCur, Quiets, P, D \cup {r.move})
      BY <2>5 DEF DealtNext
    <3>2. r.move \in GoodQuiets(node) \ {node.tt} /\ r.move \in AllMoves
      BY <3>1, Halves DEF P
    <3>3. r.move # none
      BY <3>2, NotTwice
    <3>4. r.move \in DueOf(node, p) \ D
      BY <1>4, <3>1, <3>2, MainOwes
    <3>5. TurnOf(node, r.move) = 2
      BY <3>2, TurnsMain
    <3>6. \A d \in D : TurnOf(node, d) <= TurnOf(node, r.move)
      <4>1. ASSUME NEW d \in D PROVE TurnOf(node, d) <= 2
        <5>1. \/ d = node.tt \/ d \in GoodCaptures(node) \ {node.tt} \/ d \in GoodQuiets(node) \ {node.tt}
          BY <1>1, TableIs
        <5>2. TurnOf(node, d) \in {0, 1, 2}
          BY <5>1, TurnsMain
        <5> QED BY <5>2
      <4> QED BY <3>5, <4>1
    <3>7. /\ v.stage = p.stage /\ v.moves = p.moves /\ v.cur = i + 1 /\ v.endCur = p.endCur
          /\ v.endBadCaptures = p.endBadCaptures /\ v.endCaptures = p.endCaptures
          /\ v.endGenerated = p.endGenerated /\ v.skipQuiets = p.skipQuiets
      BY <3>1 DEF MovedTo
    <3> HIDE DEF v
    <3>8. Walked(node, v.moves, v.endCaptures, v.cur, v.endCur, Quiets, P, D \cup {r.move})
      BY <3>1, <3>7
    <3>9. WalkingGoodQuiets(node, v, D \cup {r.move})
      <4>1. D \cup {r.move} \subseteq TableMove(node) \cup GoodCaptures(node) \cup GoodQuiets(node)
        BY <1>1, <3>2
      <4>2. TableMove(node) \cup GoodCaptures(node) \subseteq D \cup {r.move}
        BY <1>1
      <4> QED BY <1>1, <2>1, <3>7, <3>8, <4>1, <4>2 DEF WalkingGoodQuiets, P
    <3>10. StageOk(node, r.picker, D \cup {r.move})
      BY <3>9 DEF StageOk, v
    <3> QED BY <1>4, <2>4, <3>3, <3>4, <3>6, <3>10, OneMore
  <2>6. ASSUME r.move = none, P \subseteq D, NEW c, MovedTo(p, r.picker, c)
        PROVE  Outcome(node, p, D, follow)
    <3>1. /\ v.moves = p.moves /\ v.endBadCaptures = p.endBadCaptures /\ v.endCaptures = p.endCaptures
          /\ v.endGenerated = p.endGenerated /\ v.skipQuiets = p.skipQuiets
          /\ IsPicker(v) /\ SameFlags(p, v)
      BY <2>4, <2>6 DEF MovedTo, SameFlags
    <3> HIDE DEF v
    <3>2. GoodQuiets(node) \subseteq D
      BY <1>1, <2>6, TableIs, Halves DEF P
    <3>3. /\ v.endCaptures \in Int /\ v.endGenerated \in Int /\ v.endCaptures <= v.endGenerated
          /\ Holds(node, v.moves, v.endCaptures, v.endGenerated, Quiets)
      BY <2>1, <3>1 DEF Walked
    <3>4. Holds(node, v.moves, 1, v.endBadCaptures, BadCaptures(node) \ {node.tt})
      BY <1>1, <3>1
    <3>5. follow = BadCapture([v EXCEPT !.stage = "BAD_CAPTURE", !.cur = 1, !.endCur = v.endBadCaptures])
      BY <3>1 DEF follow
    <3>6. Outcome(node, v, D, follow)
      BY <1>1, <3>1, <3>2, <3>3, <3>4, <3>5, BadCapturesFollow
    <3> QED BY <3>1, <3>6, OutcomeOf
  <2>7. CASE \E i : DealtNext(p, p.endCaptures, Quiets, P, D, r, i)
    <3>1. r.move # none /\ Outcome(node, p, D, r)
      BY <2>7, <2>5
    <3> QED BY <3>1, <1>2 DEF r
  <2>8. CASE r.move = none /\ P \subseteq D /\ \E c : MovedTo(p, r.picker, c)
    <3>1. Outcome(node, p, D, follow)
      BY <2>8, <2>6
    <3> QED BY <3>1, <2>8, <1>2
  <2> QED BY <2>4, <2>7, <2>8
<1> QED BY <1>3, <1>4

(* A split point of what sort_quiets leaves.                                *)
LEMMA GoodFirst ==
  ASSUME NodeOk(node), node.depth >= goodQuietDepth, NEW k \in Nat, NEW t,
         \A i \in 1 .. k : t[i].move \in AllMoves /\ t[i] = ShownAs(node, t[i].move) /\ t[i].value \in Int,
         NEW end \in 1 .. k, \A i, j \in 1 .. end : i < j => t[i].value >= t[j].value,
         \A i \in end + 1 .. k : t[i] \notin {x \in Every : x.value >= -quietSortScale * node.depth}
  PROVE  \A i, j \in 1 .. k :
           i < j /\ t[i].value <= goodQuietThreshold => t[j].value <= goodQuietThreshold
<1>1. node.depth \in Int
  BY DEF NodeOk
<1>2. -quietSortScale * node.depth <= goodQuietThreshold
  <2>1. goodQuietDepth = 4
    BY DEF goodQuietDepth, goodQuietThreshold, quietSortScale
  <2> QED BY <1>1, <2>1 DEF goodQuietThreshold, quietSortScale
<1>3. -quietSortScale * node.depth \in Int /\ goodQuietThreshold \in Int
  BY <1>1 DEF goodQuietThreshold, quietSortScale
<1> DEFINE limit == -quietSortScale * node.depth
<1> HIDE DEF limit
<1>4. ASSUME NEW i \in 1 .. k, NEW j \in 1 .. k, i < j, t[i].value <= goodQuietThreshold
      PROVE  t[j].value <= goodQuietThreshold
  <2>1. CASE j <= end
    <3>1. i \in 1 .. end /\ j \in 1 .. end
      BY <2>1, <1>4
    <3>2. t[i].value >= t[j].value
      BY <3>1, <1>4
    <3> QED BY <3>2, <1>3, <1>4
  <2>2. CASE ~(j <= end)
    <3>1. j \in end + 1 .. k
      BY <2>2
    <3>2. t[j] \in Every
      BY Passing
    <3>3. ~(t[j].value >= limit)
      BY <3>1, <3>2 DEF limit
    <3>4. limit <= goodQuietThreshold /\ limit \in Int
      BY <1>2, <1>3 DEF limit
    <3> QED BY <3>3, <3>4, <1>3
  <2> QED BY <2>1, <2>2
<1> QED BY <1>4

(* With the good captures dealt, the quiets are listed behind the captures. *)
LEMMA QuietsFollow ==
  ASSUME NodeOk(node), node.mode = "main", NEW p, IsPicker(p), NEW D,
         p.endBadCaptures \in Int, p.cur \in Int, 1 <= p.endBadCaptures, p.endBadCaptures <= p.cur,
         p.endCaptures = p.cur,
         Holds(node, p.moves, 1, p.endBadCaptures, BadCaptures(node) \ {node.tt}),
         TableMove(node) \cup GoodCaptures(node) \subseteq D,
         D \subseteq TableMove(node) \cup GoodCaptures(node)
  PROVE  SameFlags(p, QuietInit(p)) /\ WalkingGoodQuiets(node, QuietInit(p), D)
<1> DEFINE limit == -quietSortScale * node.depth
           t == sort_quiets(Listed(Quiets), limit)
           g == GenerateAt(p, t)
           q == QuietInit(p)
           P == GoodQuiets(node) \ {node.tt}
<1>1. CASE p.skipQuiets
  <2> DEFINE q1 == [p EXCEPT !.stage = "GOOD_QUIET"]
  <2>1. q = q1
    BY <1>1 DEF QuietInit
  <2> HIDE DEF q
  <2>2. IsPicker(q1) /\ q1.stage = "GOOD_QUIET" /\ KeepsBut(p, q1, "stage")
    BY StageSet
  <2> HIDE DEF q1
  <2>3. /\ q.stage = "GOOD_QUIET" /\ q.moves = p.moves /\ q.endBadCaptures = p.endBadCaptures
        /\ q.skipQuiets /\ SameFlags(p, q)
    BY <1>1, <2>1, <2>2 DEF KeepsBut, SameFlags
  <2>4. WalkingGoodQuiets(node, q, D)
    BY <2>3 DEF WalkingGoodQuiets
  <2> QED BY <2>3, <2>4 DEF q
<1>2. CASE ~p.skipQuiets
  <2> DEFINE q1 == [g EXCEPT !.stage = "GOOD_QUIET"]
             q2 == [q1 EXCEPT !.endGenerated = g.endCur]
  <2>1. q = q2
    BY <1>2 DEF QuietInit
  <2>2. t = InsertionSort(Listed(Quiets), {x \in Every : x.value >= limit})
    BY DEF sort_quiets
  <2>3. Quiets \in SUBSET AllMoves
    BY DEF AllMoves
  <2> HIDE DEF q, g, t
  <2>4. PICK k \in Nat :
          /\ Len(t) = k /\ DOMAIN t = 1 .. k /\ Holds(node, t, 1, k + 1, Quiets)
          /\ k > 0 => \E end \in 1 .. k :
                /\ \A i, j \in 1 .. end : i < j => t[i].value >= t[j].value
                /\ \A i \in end + 1 .. k : t[i] \notin {x \in Every : x.value >= limit}
    BY <2>2, <2>3, SortedIs
  <2>5. /\ IsPicker(g) /\ g.cur = p.cur /\ g.endCur = p.cur + k
        /\ g.stage = p.stage /\ g.endBadCaptures = p.endBadCaptures /\ g.endCaptures = p.endCaptures
        /\ g.endGenerated = p.endGenerated /\ g.skipQuiets = p.skipQuiets /\ g.skippedAt = p.skippedAt
        /\ \A i \in 1 .. p.cur - 1 : g.moves[i] = p.moves[i]
        /\ \A i \in p.cur .. p.cur + k - 1 : g.moves[i] = t[i - p.cur + 1]
        /\ Holds(node, g.moves, p.cur, p.cur + k, Quiets)
    <3>1. p.cur >= 1
      OBVIOUS
    <3>2. Len(t) = k /\ Holds(node, t, 1, k + 1, Quiets)
      BY <2>4
    <3>3. g = GenerateAt(p, t)
      BY DEF g
    <3>4. k \in Nat /\ IsPicker(p) /\ p.cur \in Int
      OBVIOUS
    <3> HIDE <2>4
    <3>5. Generated(p, g, t, k, Quiets)
      BY <3>1, <3>2, <3>3, <3>4, GeneratedAt
    <3> QED BY <3>5 DEF Generated
  <2>6. IsPicker(q1) /\ q1.stage = "GOOD_QUIET" /\ KeepsBut(g, q1, "stage")
    BY <2>5, StageSet
  <2> HIDE DEF q1
  <2>7. IsPicker(q2) /\ q2.endGenerated = g.endCur /\ KeepsBut(q1, q2, "endGenerated")
    BY <2>6, GeneratedSet
  <2> HIDE DEF q2
  <2>8. /\ q.stage = "GOOD_QUIET" /\ q.moves = g.moves /\ q.endBadCaptures = p.endBadCaptures
        /\ q.cur = p.cur /\ q.endCur = p.cur + k /\ q.endGenerated = q.endCur /\ q.endCaptures = p.cur
        /\ SameFlags(p, q)
    BY <2>1, <2>5, <2>6, <2>7 DEF KeepsBut, SameFlags
  <2>9. Holds(node, q.moves, 1, q.endBadCaptures, BadCaptures(node) \ {node.tt})
    <3>1. \A i \in 1 .. p.endBadCaptures - 1 : g.moves[i] = p.moves[i]
      BY <2>5
    <3> QED BY <2>8, <3>1, HoldsSame
  <2>10. \A m \in P : m \notin D
    BY TableIs, Halves, NotTwice
  <2>11. P \subseteq Quiets
    BY Halves
  <2> HIDE DEF P
  <2>12. Walked(node, q.moves, q.endCaptures, q.cur, q.endCur, Quiets, P, D)
    <3>1. \A i \in p.cur .. p.cur + k - 1 :
            g.moves[i].move \in P => (g.moves[i].move \in D <=> i < p.cur)
      BY <2>10
    <3>2. Walked(node, g.moves, p.cur, p.cur, p.cur + k, Quiets, P, D)
      BY <2>5, <2>11, <3>1 DEF Walked
    <3> QED BY <2>8, <3>2
  <2>13. ASSUME node.depth >= goodQuietDepth, NEW i \in q.endCaptures .. q.endCur - 1,
                NEW j \in q.endCaptures .. q.endCur - 1, i < j, q.moves[i].value <= goodQuietThreshold
         PROVE  q.moves[j].value <= goodQuietThreshold
    <3>1. /\ i \in p.cur .. p.cur + k - 1 /\ j \in p.cur .. p.cur + k - 1
          /\ i - p.cur + 1 \in 1 .. k /\ j - p.cur + 1 \in 1 .. k /\ i - p.cur + 1 < j - p.cur + 1 /\ k > 0
      BY <2>8, <2>13
    <3>2. q.moves[i] = t[i - p.cur + 1] /\ q.moves[j] = t[j - p.cur + 1]
      BY <2>5, <2>8, <3>1
    <3>3. \A x \in 1 .. k : t[x].move \in AllMoves /\ t[x] = ShownAs(node, t[x].move) /\ t[x].value \in Int
      <4>1. \A x \in 1 .. k : t[x].move \in Quiets /\ t[x] = ShownAs(node, t[x].move)
        <5>1. 1 .. (k + 1) - 1 = 1 .. k
          OBVIOUS
        <5> QED BY <2>4, <5>1 DEF Holds
      <4> QED BY <2>3, <4>1, QuietShown
    <3>4. PICK end \in 1 .. k :
            /\ \A x, y \in 1 .. end : x < y => t[x].value >= t[y].value
            /\ \A x \in end + 1 .. k : t[x] \notin {z \in Every : z.value >= limit}
      BY <2>4, <3>1
    <3>5. \A x, y \in 1 .. k : x < y /\ t[x].value <= goodQuietThreshold => t[y].value <= goodQuietThreshold
      BY <2>13, <3>3, <3>4, GoodFirst
    <3> QED BY <2>13, <3>1, <3>2, <3>5
  <2>14. WalkingGoodQuiets(node, q, D)
    <3>1. D \subseteq TableMove(node) \cup GoodCaptures(node) \cup GoodQuiets(node)
      OBVIOUS
    <3>2. node.depth >= goodQuietDepth =>
            \A i, j \in q.endCaptures .. q.endCur - 1 :
              i < j /\ q.moves[i].value <= goodQuietThreshold => q.moves[j].value <= goodQuietThreshold
      BY <2>13
    <3> QED BY <2>8, <2>9, <2>12, <3>1, <3>2 DEF WalkingGoodQuiets, P
  <2> QED BY <2>8, <2>14 DEF q
<1> QED BY <1>1, <1>2

(* The walk of GOOD_CAPTURE, as the function its rounds define.             *)
CaptureRuns(p, n, g) ==
  g = [k \in 0 .. n |-> IF k = 0 THEN Result(p, none) ELSE CaptureStep(g[k - 1], p.cur + k - 1)]

LEMMA GoodCaptureIs ==
  ASSUME NEW p
  PROVE  GoodCapture(p) = (CHOOSE g : CaptureRuns(p, p.endCur - p.cur, g))[p.endCur - p.cur]
  BY Zenon DEF GoodCapture, CaptureRuns

LEMMA CaptureRunsExist ==
  ASSUME NEW q
  PROVE  \A n \in Nat : \E g : CaptureRuns(q, n, g)
<1> DEFINE S == {n \in Nat : \E g : CaptureRuns(q, n, g)}
           F(g, k) == IF k = 0 THEN Result(q, none) ELSE CaptureStep(g[k - 1], q.cur + k - 1)
<1>1. 0 \in S
  <2> DEFINE h == [k \in 0 .. 0 |-> Result(q, none)]
  <2>1. h = [k \in 0 .. 0 |-> IF k = 0 THEN Result(q, none) ELSE CaptureStep(h[k - 1], q.cur + k - 1)]
    OBVIOUS
  <2> HIDE DEF h
  <2>2. CaptureRuns(q, 0, h)
    BY <2>1 DEF CaptureRuns
  <2> QED BY <2>2
<1>2. ASSUME NEW n \in S PROVE n + 1 \in S
  <2>1. n \in Nat
    OBVIOUS
  <2>2. PICK g : g = [k \in 0 .. n |-> F(g, k)]
    BY DEF CaptureRuns
  <2> DEFINE h == [k \in 0 .. n + 1 |-> F(g, k)]
  <2> HIDE DEF F
  <2>3. \A k \in 0 .. n : h[k] = g[k]
    BY <2>1, <2>2
  <2>4. ASSUME NEW k \in 0 .. n + 1 PROVE h[k] = F(h, k)
    <3>1. CASE k = 0
      BY <2>1, <3>1 DEF F
    <3>2. CASE k # 0
      <4>1. k - 1 \in 0 .. n
        BY <2>1, <3>2
      <4>2. h[k - 1] = g[k - 1]
        BY <4>1, <2>3
      <4>3. h[k] = F(g, k)
        OBVIOUS
      <4> HIDE DEF h
      <4> QED BY <3>2, <4>2, <4>3 DEF F
    <3> QED BY <3>1, <3>2
  <2>5. CaptureRuns(q, n + 1, h)
    <3>1. h = [k \in 0 .. n + 1 |-> h[k]]
      OBVIOUS
    <3>2. [k \in 0 .. n + 1 |-> h[k]] = [k \in 0 .. n + 1 |-> F(h, k)]
      BY <2>4
    <3> HIDE DEF h
    <3> QED BY <3>1, <3>2 DEF CaptureRuns, F
  <2> QED BY <2>1, <2>5
<1> HIDE DEF S
<1>3. S = Nat
  <2>1. S \in SUBSET Nat
    BY DEF S
  <2> QED BY <1>1, <1>2, <2>1, Induction
<1> QED BY <1>3 DEF S

(* A stretch without its first move, and one with a move more.              *)
LEMMA HoldsRest ==
  ASSUME NEW n, NEW s, NEW lo \in Int, NEW hi \in Int, lo < hi, NEW S, Holds(n, s, lo, hi, S)
  PROVE  s[lo].move \in S /\ Holds(n, s, lo + 1, hi, S \ {s[lo].move})
<1>1. lo \in lo .. hi - 1 /\ \A i \in lo + 1 .. hi - 1 : i \in lo .. hi - 1 /\ i # lo
  OBVIOUS
<1>2. s[lo].move \in S
  BY <1>1 DEF Holds
<1>3. \A i \in lo + 1 .. hi - 1 : s[i].move # s[lo].move
  BY <1>1 DEF Holds
<1>4. ASSUME NEW m \in S \ {s[lo].move} PROVE \E i \in lo + 1 .. hi - 1 : s[i].move = m
  <2>1. PICK i \in lo .. hi - 1 : s[i].move = m
    BY DEF Holds
  <2>2. i \in lo + 1 .. hi - 1
    BY <2>1
  <2> QED BY <2>1, <2>2
<1> QED BY <1>1, <1>2, <1>3, <1>4 DEF Holds

(* Swapping one more capture to the front.                                  *)
LEMMA HoldsOneMore ==
  ASSUME NEW n, NEW s, NEW t, NEW b \in Int, 1 <= b, NEW S, Holds(n, s, 1, b, S),
         \A i \in 1 .. b - 1 : t[i] = s[i], t[b] = ShownAs(n, t[b].move), t[b].move \notin S
  PROVE  Holds(n, t, 1, b + 1, S \cup {t[b].move})
<1>1. \A i \in 1 .. (b + 1) - 1 : i = b \/ i \in 1 .. b - 1
  OBVIOUS
<1>2. b \in 1 .. (b + 1) - 1 /\ \A i \in 1 .. b - 1 : i \in 1 .. (b + 1) - 1
  OBVIOUS
<1>3. \A i \in 1 .. b - 1 : t[i].move \in S /\ t[i] = ShownAs(n, t[i].move)
  BY DEF Holds
<1>4. \A i, j \in 1 .. b - 1 : t[i].move = t[j].move => i = j
  BY DEF Holds
<1>5. \A m \in S : \E i \in 1 .. b - 1 : t[i].move = m
  BY DEF Holds
<1>6. \A i \in 1 .. (b + 1) - 1 : t[i].move \in S \cup {t[b].move} /\ t[i] = ShownAs(n, t[i].move)
  BY <1>1, <1>3
<1>7. ASSUME NEW i \in 1 .. (b + 1) - 1, NEW j \in 1 .. (b + 1) - 1, t[i].move = t[j].move PROVE i = j
  BY <1>1, <1>3, <1>4, <1>7
<1>8. \A m \in S \cup {t[b].move} : \E i \in 1 .. (b + 1) - 1 : t[i].move = m
  BY <1>2, <1>5
<1> QED BY <1>6, <1>7, <1>8 DEF Holds

(* One step of the walk of the captures.                                    *)
Step(p, u, D) ==
  /\ SameFlags(p, u.picker) /\ u.picker.cur = p.cur + 1 /\ u.picker.endCur = p.endCur
  /\ \/ u.move = none /\ WalkingGood(node, u.picker, D)
     \/ u.move \in (GoodCaptures(node) \ {node.tt}) \ D /\ WalkingGood(node, u.picker, D \cup {u.move})

(* One round of the walk: dealt, dropped or swapped, nothing is lost.       *)
LEMMA CaptureStepKeeps ==
  ASSUME NodeOk(node), NEW r, IsPicker(r.picker), r.move = none, NEW D,
         WalkingGood(node, r.picker, D), r.picker.cur < r.picker.endCur
  PROVE  Step(r.picker, CaptureStep(r, r.picker.cur), D)
<1> DEFINE p == r.picker
           i == p.cur
           s == p.moves[i]
           b == p.endBadCaptures
           w == [p.moves EXCEPT ![b] = s, ![i] = p.moves[b]]
           u == CaptureStep(r, i)
<1>1. p.stage = "GOOD_CAPTURE"
  BY DEF WalkingGood
<1>2. PICK B \in SUBSET Captures, G \in SUBSET Captures : WalkingGoodAt(node, p, D, B, G)
  BY DEF WalkingGood
<1>3. u = IF s.move = node.tt THEN Result([p EXCEPT !.cur = i + 1], none)
          ELSE IF See(s.move) THEN Result([p EXCEPT !.cur = i + 1], s.move)
          ELSE Result([p EXCEPT !.moves = w, !.endBadCaptures = b + 1, !.cur = i + 1], none)
  BY DEF CaptureStep
<1> HIDE DEF p, u
<1>0. IsPicker(p) /\ p.cur < p.endCur
  BY DEF p
<1>4. /\ b \in Int /\ i \in Int /\ p.endCur \in Int /\ p.endCaptures = p.endCur
      /\ 1 <= b /\ b <= i /\ i < p.endCur /\ DOMAIN p.moves = 1 .. p.endCur - 1
      /\ Holds(node, p.moves, 1, b, B) /\ Holds(node, p.moves, i, p.endCur, G)
      /\ B \subseteq BadCaptures(node) \ {node.tt} /\ G \subseteq Captures /\ B \cap G = {}
      /\ BadCaptures(node) \ {node.tt} \subseteq B \cup G
      /\ TableMove(node) \subseteq D /\ D \subseteq TableMove(node) \cup GoodCaptures(node)
      /\ \A m \in GoodCaptures(node) \ {node.tt} : m \in D <=> m \notin G
  BY <1>0, <1>2 DEF WalkingGoodAt
<1>5. s.move \in G /\ s.move \in Captures /\ Holds(node, p.moves, i + 1, p.endCur, G \ {s.move})
  <2>1. Holds(node, p.moves, i, p.endCur, G) /\ i \in Int /\ p.endCur \in Int /\ i < p.endCur
    BY <1>4
  <2> HIDE DEF i
  <2>2. p.moves[i].move \in G /\ Holds(node, p.moves, i + 1, p.endCur, G \ {p.moves[i].move})
    BY <2>1, HoldsRest
  <2> QED BY <1>4, <2>2
<1>6. s = ShownAs(node, s.move)
  <2>1. i \in i .. p.endCur - 1
    BY <1>4
  <2> QED BY <1>4, <2>1 DEF Holds
<1> DEFINE v == [p EXCEPT !.cur = i + 1]
<1>7. IsPicker(v) /\ v.cur = i + 1 /\ KeepsBut(p, v, "cur")
  BY <1>0, CurSet
<1>8. CASE s.move = node.tt
  <2>1. u = Result(v, none)
    BY <1>3, <1>8
  <2> HIDE DEF v, s
  <2>2. u.picker = v /\ u.move = none
    BY <2>1 DEF Result
  <2>3. /\ SameFlags(p, v) /\ v.endCur = p.endCur /\ v.stage = p.stage /\ v.moves = p.moves
        /\ v.endBadCaptures = p.endBadCaptures /\ v.endCaptures = p.endCaptures
    BY <1>7 DEF KeepsBut, SameFlags
  <2>4. WalkingGoodAt(node, v, D, B, G \ {s.move})
    <3>1. Holds(node, v.moves, 1, v.endBadCaptures, B) /\ Holds(node, v.moves, v.cur, v.endCur, G \ {s.move})
      BY <1>4, <1>5, <1>7, <2>3
    <3>2. /\ v.endBadCaptures \in Int /\ v.cur \in Int /\ v.endCur \in Int /\ v.endCaptures = v.endCur
          /\ 1 <= v.endBadCaptures /\ v.endBadCaptures <= v.cur /\ v.cur <= v.endCur
          /\ DOMAIN v.moves = 1 .. v.endCur - 1
      BY <1>4, <1>7, <2>3
    <3>3. /\ G \ {s.move} \subseteq Captures /\ B \cap (G \ {s.move}) = {}
          /\ BadCaptures(node) \ {node.tt} \subseteq B \cup (G \ {s.move})
          /\ \A m \in GoodCaptures(node) \ {node.tt} : m \in D <=> m \notin G \ {s.move}
      BY <1>4, <1>8
    <3> QED BY <1>4, <3>1, <3>2, <3>3 DEF WalkingGoodAt
  <2>5. WalkingGood(node, v, D)
    BY <1>1, <2>3, <2>4 DEF WalkingGood, p
  <2>6. Step(p, u, D)
    BY <1>7, <2>2, <2>3, <2>5 DEF Step
  <2> QED BY <2>6 DEF p, u
<1>9. CASE s.move # node.tt /\ See(s.move)
  <2>1. u = Result(v, s.move)
    BY <1>3, <1>9
  <2> HIDE DEF v, s
  <2>2. u.picker = v /\ u.move = s.move
    BY <2>1 DEF Result
  <2>3. /\ SameFlags(p, v) /\ v.endCur = p.endCur /\ v.stage = p.stage /\ v.moves = p.moves
        /\ v.endBadCaptures = p.endBadCaptures /\ v.endCaptures = p.endCaptures
    BY <1>7 DEF KeepsBut, SameFlags
  <2>4. s.move \in (GoodCaptures(node) \ {node.tt}) \ D
    BY <1>4, <1>5, <1>9 DEF GoodCaptures, See
  <2>5. WalkingGoodAt(node, v, D \cup {s.move}, B, G \ {s.move})
    <3>1. Holds(node, v.moves, 1, v.endBadCaptures, B) /\ Holds(node, v.moves, v.cur, v.endCur, G \ {s.move})
      BY <1>4, <1>5, <1>7, <2>3
    <3>2. /\ v.endBadCaptures \in Int /\ v.cur \in Int /\ v.endCur \in Int /\ v.endCaptures = v.endCur
          /\ 1 <= v.endBadCaptures /\ v.endBadCaptures <= v.cur /\ v.cur <= v.endCur
          /\ DOMAIN v.moves = 1 .. v.endCur - 1
      BY <1>4, <1>7, <2>3
    <3>3. G \ {s.move} \subseteq Captures /\ B \cap (G \ {s.move}) = {}
      BY <1>4
    <3>4. BadCaptures(node) \ {node.tt} \subseteq B \cup (G \ {s.move})
      BY <1>4, <2>4, Halves
    <3>5. \A m \in GoodCaptures(node) \ {node.tt} : m \in D \cup {s.move} <=> m \notin G \ {s.move}
      BY <1>4
    <3>6. TableMove(node) \subseteq D \cup {s.move} /\ D \cup {s.move} \subseteq TableMove(node) \cup GoodCaptures(node)
      BY <1>4, <2>4
    <3> QED BY <1>4, <3>1, <3>2, <3>3, <3>4, <3>5, <3>6 DEF WalkingGoodAt
  <2>6. WalkingGood(node, v, D \cup {u.move})
    BY <1>1, <2>2, <2>3, <2>5 DEF WalkingGood, p
  <2>7. Step(p, u, D)
    BY <1>7, <2>2, <2>3, <2>4, <2>6 DEF Step
  <2> QED BY <2>7 DEF p, u
<1>10. CASE s.move # node.tt /\ ~See(s.move)
  <2> DEFINE v1 == [p EXCEPT !.moves = w]
             v2 == [v1 EXCEPT !.endBadCaptures = b + 1]
             q == [v2 EXCEPT !.cur = i + 1]
  <2>1. u = Result(q, none)
    BY <1>3, <1>10
  <2>2. DOMAIN w = 1 .. p.endCur - 1
    BY <1>4
  <2>3. /\ \A j \in 1 .. b - 1 : w[j] = p.moves[j]
        /\ \A j \in i + 1 .. p.endCur - 1 : w[j] = p.moves[j]
        /\ w[b] = s
    <3>1. b \in 1 .. p.endCur - 1 /\ i \in 1 .. p.endCur - 1
      BY <1>4
    <3> QED BY <1>4, <3>1
  <2> HIDE DEF v, w, s
  <2>4. IsPicker(v1) /\ v1.moves = w /\ KeepsBut(p, v1, "moves")
    BY <1>0, MovesSet
  <2> HIDE DEF v1
  <2>5. IsPicker(v2) /\ v2.endBadCaptures = b + 1 /\ KeepsBut(v1, v2, "endBadCaptures")
    BY <2>4, BadSet
  <2> HIDE DEF v2
  <2>6. IsPicker(q) /\ q.cur = i + 1 /\ KeepsBut(v2, q, "cur")
    BY <2>5, CurSet
  <2> HIDE DEF q
  <2>7. u.picker = q /\ u.move = none
    BY <2>1 DEF Result
  <2>8. /\ SameFlags(p, q) /\ q.endCur = p.endCur /\ q.stage = p.stage /\ q.moves = w
        /\ q.endBadCaptures = b + 1 /\ q.endCaptures = p.endCaptures /\ q.cur = i + 1
    BY <2>4, <2>5, <2>6 DEF KeepsBut, SameFlags
  <2>9. s.move \in BadCaptures(node) \ {node.tt} /\ s.move \notin B
    BY <1>4, <1>5, <1>10 DEF BadCaptures, GoodCaptures, See
  <2>10. WalkingGoodAt(node, q, D, B \cup {s.move}, G \ {s.move})
    <3>1. Holds(node, w, 1, b + 1, B \cup {s.move})
      BY <1>4, <1>6, <2>3, <2>9, HoldsOneMore
    <3>2. Holds(node, w, i + 1, p.endCur, G \ {s.move})
      BY <1>5, <2>3, HoldsSame
    <3>3. /\ q.endBadCaptures \in Int /\ q.cur \in Int /\ q.endCur \in Int /\ q.endCaptures = q.endCur
          /\ 1 <= q.endBadCaptures /\ q.endBadCaptures <= q.cur /\ q.cur <= q.endCur
          /\ DOMAIN q.moves = 1 .. q.endCur - 1
      BY <1>4, <2>2, <2>8
    <3>4. Holds(node, q.moves, 1, q.endBadCaptures, B \cup {s.move}) /\ Holds(node, q.moves, q.cur, q.endCur, G \ {s.move})
      BY <2>8, <3>1, <3>2
    <3>5. /\ B \cup {s.move} \subseteq BadCaptures(node) \ {node.tt} /\ G \ {s.move} \subseteq Captures
          /\ (B \cup {s.move}) \cap (G \ {s.move}) = {}
          /\ BadCaptures(node) \ {node.tt} \subseteq (B \cup {s.move}) \cup (G \ {s.move})
      BY <1>4, <2>9
    <3>6. \A m \in GoodCaptures(node) \ {node.tt} : m \in D <=> m \notin G \ {s.move}
      BY <1>4, <2>9, Halves
    <3> QED BY <1>4, <3>3, <3>4, <3>5, <3>6 DEF WalkingGoodAt
  <2>11. B \cup {s.move} \in SUBSET Captures /\ G \ {s.move} \in SUBSET Captures
    BY <1>5
  <2>12. WalkingGood(node, q, D)
    BY <1>1, <2>8, <2>10, <2>11 DEF WalkingGood, p
  <2>13. Step(p, u, D)
    BY <2>7, <2>8, <2>12 DEF Step
  <2> QED BY <2>13 DEF p, u
<1> QED BY <1>8, <1>9, <1>10

(* The walk of the captures from p on, after k steps.                       *)
Going(p, u, k, D) ==
  /\ SameFlags(p, u.picker)
  /\ \/ /\ u.move = none /\ WalkingGood(node, u.picker, D)
        /\ u.picker.cur = p.cur + k /\ u.picker.endCur = p.endCur
     \/ u.move \in (GoodCaptures(node) \ {node.tt}) \ D /\ WalkingGood(node, u.picker, D \cup {u.move})

(* And so of any number of rounds.                                          *)
LEMMA GoingOne ==
  ASSUME NodeOk(node), NEW p, p.cur \in Int, p.endCur \in Int, NEW D, NEW u, NEW k \in Nat, Going(p, u, k, D),
         k < p.endCur - p.cur
  PROVE  Going(p, CaptureStep(u, p.cur + (k + 1) - 1), k + 1, D)
<1> DEFINE i == p.cur + (k + 1) - 1
           t == CaptureStep(u, i)
<1>1. SameFlags(p, u.picker)
  BY DEF Going
<1>2. CASE u.move = none
  <2>1. /\ WalkingGood(node, u.picker, D) /\ u.picker.cur = p.cur + k /\ u.picker.endCur = p.endCur
    BY <1>2, Halves, NotTwice DEF Going
  <2>2. i = u.picker.cur /\ u.picker.cur < u.picker.endCur
    BY <2>1
  <2>3. IsPicker(u.picker)
    BY <1>1 DEF SameFlags
  <2> HIDE DEF i
  <2>4. Step(u.picker, t, D)
    BY <1>2, <2>1, <2>2, <2>3, CaptureStepKeeps
  <2> HIDE DEF t
  <2>5. SameFlags(p, t.picker)
    BY <1>1, <2>4 DEF SameFlags, Step
  <2>6. t.picker.cur = p.cur + (k + 1) /\ t.picker.endCur = p.endCur
    BY <2>1, <2>4 DEF Step
  <2>7. Going(p, t, k + 1, D)
    BY <2>4, <2>5, <2>6 DEF Step, Going
  <2> QED BY <2>7 DEF t, i
<1>3. CASE u.move # none
  <2>1. t = u
    BY <1>3 DEF CaptureStep
  <2>2. u.move \in (GoodCaptures(node) \ {node.tt}) \ D /\ WalkingGood(node, u.picker, D \cup {u.move})
    BY <1>3 DEF Going
  <2> HIDE DEF t
  <2>3. Going(p, t, k + 1, D)
    BY <1>1, <2>1, <2>2 DEF Going
  <2> QED BY <2>3 DEF t
<1> QED BY <1>2, <1>3

LEMMA GoodCaptureGoes ==
  ASSUME NodeOk(node), NEW p, IsPicker(p), NEW D, WalkingGood(node, p, D)
  PROVE  Going(p, GoodCapture(p), p.endCur - p.cur, D)
<1> DEFINE n == p.endCur - p.cur
           g == CHOOSE f : CaptureRuns(p, n, f)
<1>1. p.cur \in Int /\ p.endCur \in Int /\ n \in Nat
  BY DEF WalkingGood, WalkingGoodAt
<1>2. GoodCapture(p) = g[n]
  BY GoodCaptureIs
<1>3. CaptureRuns(p, n, g)
  BY <1>1, CaptureRunsExist
<1> HIDE DEF n, g
<1> DEFINE S == {k \in Nat : k <= n => Going(p, g[k], k, D)}
<1>4. 0 \in S
  <2>1. g[0] = Result(p, none)
    BY <1>1, <1>3 DEF CaptureRuns
  <2>2. g[0].picker = p /\ g[0].move = none
    BY <2>1 DEF Result
  <2>3. SameFlags(p, p)
    BY DEF SameFlags
  <2>4. Going(p, g[0], 0, D)
    BY <1>1, <2>2, <2>3 DEF Going
  <2> QED BY <2>4
<1>5. ASSUME NEW k \in S PROVE k + 1 \in S
  <2> SUFFICES ASSUME k + 1 <= n PROVE Going(p, g[k + 1], k + 1, D)
    OBVIOUS
  <2>1. k \in Nat /\ k < n /\ k + 1 \in 0 .. n /\ k + 1 # 0 /\ (k + 1) - 1 = k
    BY <1>1
  <2>2. Going(p, g[k], k, D)
    <3>1. k <= n
      BY <1>1, <2>1
    <3> QED BY <3>1
  <2>3. g[k + 1] = CaptureStep(g[(k + 1) - 1], p.cur + (k + 1) - 1)
    BY <1>3, <2>1 DEF CaptureRuns
  <2>4. g[k + 1] = CaptureStep(g[k], p.cur + (k + 1) - 1)
    BY <2>1, <2>3
  <2>5. Going(p, CaptureStep(g[k], p.cur + (k + 1) - 1), k + 1, D)
    BY <1>1, <2>1, <2>2, GoingOne DEF n
  <2> QED BY <2>4, <2>5
<1>6. S \in SUBSET Nat
  OBVIOUS
<1> HIDE DEF S
<1>7. n \in S
  BY <1>1, <1>4, <1>5, <1>6, Induction
<1>8. Going(p, g[n], n, D)
  BY <1>1, <1>7 DEF S
<1> QED BY <1>2, <1>8 DEF n

(* GOOD_CAPTURE deals a good capture, or goes on to the quiets.             *)
LEMMA GoodCaptureDeals ==
  ASSUME NodeOk(node), node.mode = "main", NEW p, IsPicker(p), NEW D, WalkingGood(node, p, D)
  PROVE  Outcome(node, p, D, GoodCaptureThenQuiets(p))
<1> DEFINE r == GoodCapture(p)
           v == r.picker
           q == QuietInit(v)
<1>1. GoodCaptureThenQuiets(p) = IF r.move # none THEN r ELSE GoodQuiet(q)
  BY DEF GoodCaptureThenQuiets
<1>2. Going(p, r, p.endCur - p.cur, D)
  BY GoodCaptureGoes
<1>3. TableMove(node) \subseteq D /\ D \subseteq TableMove(node) \cup GoodCaptures(node) /\ p.cur \in Int /\ p.endCur \in Int
  BY DEF WalkingGood, WalkingGoodAt
<1> HIDE DEF r
<1>4. SameFlags(p, v)
  BY <1>2 DEF Going
<1>5. CASE r.move \in (GoodCaptures(node) \ {node.tt}) \ D /\ WalkingGood(node, v, D \cup {r.move})
  <2>1. r.move # none /\ r.move \in Captures /\ r.move \in AllMoves /\ r.move \notin Quiets
    BY <1>5, Halves, NotTwice
  <2>2. r.move \in DueOf(node, p) \ D
    BY <1>5, <2>1, MainOwes
  <2>3. \A d \in D : TurnOf(node, d) <= TurnOf(node, r.move)
    <3>1. TurnOf(node, r.move) = 1
      BY <1>5, TurnsMain
    <3>2. ASSUME NEW d \in D PROVE TurnOf(node, d) <= 1
      <4>1. d = node.tt \/ d \in GoodCaptures(node) \ {node.tt}
        BY <1>3, TableIs
      <4>2. TurnOf(node, d) \in {0, 1}
        BY <4>1, TurnsMain
      <4> QED BY <4>2
    <3> QED BY <3>1, <3>2
  <2>4. StageOk(node, v, D \cup {r.move})
    BY <1>5 DEF StageOk
  <2>5. Outcome(node, p, D, r)
    BY <1>4, <2>1, <2>2, <2>3, <2>4, OneMore
  <2> QED BY <1>1, <2>1, <2>5
<1>6. CASE /\ r.move = none /\ WalkingGood(node, v, D)
           /\ v.cur = p.cur + (p.endCur - p.cur) /\ v.endCur = p.endCur
  <2> HIDE DEF v
  <2>1. v.cur = v.endCur /\ v.cur \in Int
    BY <1>3, <1>6
  <2>2. PICK B \in SUBSET Captures, G \in SUBSET Captures : WalkingGoodAt(node, v, D, B, G)
    BY <1>6 DEF WalkingGood
  <2>3. /\ v.endBadCaptures \in Int /\ v.endCaptures = v.endCur
        /\ 1 <= v.endBadCaptures /\ v.endBadCaptures <= v.cur
        /\ Holds(node, v.moves, 1, v.endBadCaptures, B) /\ Holds(node, v.moves, v.cur, v.endCur, G)
        /\ B \subseteq BadCaptures(node) \ {node.tt} /\ BadCaptures(node) \ {node.tt} \subseteq B \cup G
        /\ \A m \in GoodCaptures(node) \ {node.tt} : m \in D <=> m \notin G
    BY <2>2 DEF WalkingGoodAt
  <2>4. G = {}
    <3>1. \A m \in G : \E i \in v.cur .. v.endCur - 1 : v.moves[i].move = m
      BY <2>3 DEF Holds
    <3>2. v.cur .. v.endCur - 1 = {}
      BY <2>1
    <3> QED BY <3>1, <3>2
  <2>5. B = BadCaptures(node) \ {node.tt}
    BY <2>3, <2>4
  <2>6. TableMove(node) \cup GoodCaptures(node) \subseteq D
    BY <1>3, <2>3, <2>4, TableIs, Halves
  <2>7. IsPicker(v)
    BY <1>4 DEF SameFlags
  <2>8. SameFlags(v, q) /\ WalkingGoodQuiets(node, q, D)
    BY <1>3, <2>1, <2>3, <2>5, <2>6, <2>7, QuietsFollow
  <2> HIDE DEF q
  <2>9. SameFlags(p, q) /\ IsPicker(q)
    BY <1>4, <2>8 DEF SameFlags
  <2>10. Outcome(node, q, D, GoodQuiet(q))
    BY <2>8, <2>9, GoodQuietDeals
  <2>11. Outcome(node, p, D, GoodQuiet(q))
    BY <2>9, <2>10, OutcomeOf
  <2> QED BY <1>1, <1>6, <2>11
<1> QED BY <1>2, <1>5, <1>6 DEF Going

(* The lists that an _INIT stage leaves.                                    *)
LEMMA CaptureInitIs ==
  ASSUME NodeOk(node), NEW p, IsPicker(p), NEW stage
  PROVE  LET q == CaptureInit(p, stage)
         IN  /\ SameFlags(p, q) /\ q.stage = stage /\ q.cur = 1 /\ q.endBadCaptures = 1
             /\ q.endCaptures = q.endCur
             /\ \E k \in Nat : /\ q.endCur = 1 + k /\ DOMAIN q.moves = 1 .. k
                               /\ Holds(node, q.moves, 1, 1 + k, Captures)
<1> DEFINE t == sort_all(Listed(Captures))
           p1 == [p EXCEPT !.cur = 1]
           g == GenerateAt(p1, t)
           q1 == [g EXCEPT !.stage = stage]
           q2 == [q1 EXCEPT !.endBadCaptures = 1]
           q3 == [q2 EXCEPT !.endCaptures = g.endCur]
           q == CaptureInit(p, stage)
<1>1. q = q3
  BY DEF CaptureInit
<1>2. t = InsertionSort(Listed(Captures), Every) /\ Captures \in SUBSET AllMoves
  BY DEF sort_all, AllMoves
<1> HIDE DEF q, g, t
<1>3. PICK k \in Nat : Len(t) = k /\ Holds(node, t, 1, k + 1, Captures)
  BY <1>2, SortedIs
<1>4. IsPicker(p1) /\ p1.cur = 1 /\ KeepsBut(p, p1, "cur")
  BY CurSet
<1> HIDE DEF p1
<1>5. /\ IsPicker(g) /\ g.cur = p1.cur /\ g.endCur = p1.cur + k
      /\ g.stage = p1.stage /\ g.endBadCaptures = p1.endBadCaptures /\ g.endCaptures = p1.endCaptures
      /\ g.endGenerated = p1.endGenerated /\ g.skipQuiets = p1.skipQuiets /\ g.skippedAt = p1.skippedAt
      /\ DOMAIN g.moves = 1 .. p1.cur + k - 1
      /\ Holds(node, g.moves, p1.cur, p1.cur + k, Captures)
  <2>1. p1.cur \in Int /\ p1.cur >= 1
    BY <1>4
  <2>2. Generated(p1, g, t, k, Captures)
    BY <1>3, <1>4, <2>1, GeneratedAt DEF g
  <2> QED BY <2>2 DEF Generated
<1>6. IsPicker(q1) /\ q1.stage = stage /\ KeepsBut(g, q1, "stage")
  BY <1>5, StageSet
<1> HIDE DEF q1
<1>7. IsPicker(q2) /\ q2.endBadCaptures = 1 /\ KeepsBut(q1, q2, "endBadCaptures")
  BY <1>6, BadSet
<1> HIDE DEF q2
<1>8. IsPicker(q3) /\ q3.endCaptures = g.endCur /\ KeepsBut(q2, q3, "endCaptures")
  BY <1>7, CapturesSet
<1> HIDE DEF q3
<1>9. /\ SameFlags(p, q) /\ q.stage = stage /\ q.cur = 1 /\ q.endBadCaptures = 1
      /\ q.endCaptures = q.endCur /\ q.endCur = 1 + k /\ q.moves = g.moves
  BY <1>1, <1>4, <1>5, <1>6, <1>7, <1>8 DEF KeepsBut, SameFlags
<1>10. DOMAIN q.moves = 1 .. k /\ Holds(node, q.moves, 1, 1 + k, Captures)
  <2>1. 1 .. 1 + k - 1 = 1 .. k
    OBVIOUS
  <2> QED BY <1>4, <1>5, <1>9, <2>1
<1> QED BY <1>9, <1>10 DEF q

(* The list of evasions, its captures first.                                *)
LEMMA EvasionInitIs ==
  ASSUME NodeOk(node), node.mode = "evasion", NEW p, IsPicker(p)
  PROVE  LET q == EvasionInit(p)
         IN  /\ SameFlags(p, q) /\ q.stage = "EVASION" /\ q.cur = 1
             /\ \E k \in Nat : /\ q.endCur = 1 + k /\ Holds(node, q.moves, 1, 1 + k, AllMoves)
                               /\ \A i, j \in 1 .. k :
                                    i < j /\ q.moves[j].move \in Captures => q.moves[i].move \in Captures
<1> DEFINE t == sort_all(Listed(Captures \cup Quiets))
           p1 == [p EXCEPT !.cur = 1]
           g == GenerateAt(p1, t)
           q1 == [g EXCEPT !.stage = "EVASION"]
           q2 == [q1 EXCEPT !.endGenerated = g.endCur]
           q == EvasionInit(p)
<1>1. q = q2
  BY DEF EvasionInit
<1>2. t = InsertionSort(Listed(AllMoves), Every) /\ AllMoves \in SUBSET AllMoves
  BY DEF sort_all, AllMoves
<1> HIDE DEF q, g, t
<1>3. PICK k \in Nat :
        /\ Len(t) = k /\ DOMAIN t = 1 .. k /\ Holds(node, t, 1, k + 1, AllMoves)
        /\ k > 0 => \E end \in 1 .. k :
              /\ \A i, j \in 1 .. end : i < j => t[i].value >= t[j].value
              /\ \A i \in end + 1 .. k : t[i] \notin Every
  BY <1>2, SortedIs
<1>4. IsPicker(p1) /\ p1.cur = 1 /\ KeepsBut(p, p1, "cur")
  BY CurSet
<1> HIDE DEF p1
<1>5. /\ IsPicker(g) /\ g.cur = p1.cur /\ g.endCur = p1.cur + k
      /\ g.stage = p1.stage /\ g.endBadCaptures = p1.endBadCaptures /\ g.endCaptures = p1.endCaptures
      /\ g.endGenerated = p1.endGenerated /\ g.skipQuiets = p1.skipQuiets /\ g.skippedAt = p1.skippedAt
      /\ \A i \in p1.cur .. p1.cur + k - 1 : g.moves[i] = t[i - p1.cur + 1]
      /\ Holds(node, g.moves, p1.cur, p1.cur + k, AllMoves)
  <2>1. p1.cur \in Int /\ p1.cur >= 1
    BY <1>4
  <2>2. Generated(p1, g, t, k, AllMoves)
    BY <1>3, <1>4, <2>1, GeneratedAt DEF g
  <2> QED BY <2>2 DEF Generated
<1>6. IsPicker(q1) /\ q1.stage = "EVASION" /\ KeepsBut(g, q1, "stage")
  BY <1>5, StageSet
<1> HIDE DEF q1
<1>7. IsPicker(q2) /\ q2.endGenerated = g.endCur /\ KeepsBut(q1, q2, "endGenerated")
  BY <1>6, GeneratedSet
<1> HIDE DEF q2
<1>8. SameFlags(p, q) /\ q.stage = "EVASION" /\ q.cur = 1 /\ q.endCur = 1 + k /\ q.moves = g.moves
  BY <1>1, <1>4, <1>5, <1>6, <1>7 DEF KeepsBut, SameFlags
<1>9. Holds(node, q.moves, 1, 1 + k, AllMoves)
  BY <1>4, <1>5, <1>8
<1>10. ASSUME NEW i \in 1 .. k, NEW j \in 1 .. k, i < j, q.moves[j].move \in Captures
       PROVE  q.moves[i].move \in Captures
  <2>0. k > 0
    OBVIOUS
  <2>1. PICK end \in 1 .. k :
          /\ \A x, y \in 1 .. end : x < y => t[x].value >= t[y].value
          /\ \A x \in end + 1 .. k : t[x] \notin Every
    BY <1>3, <2>0
  <2>2. \A x \in 1 .. k : t[x].move \in AllMoves /\ t[x] = ShownAs(node, t[x].move)
    <3>1. 1 .. (k + 1) - 1 = 1 .. k
      OBVIOUS
    <3> QED BY <1>3, <3>1 DEF Holds
  <2>3. end = k
    <3>1. \A x \in 1 .. k : t[x] \in Every
      BY <2>2, Passing
    <3> QED BY <2>1, <3>1
  <2>4. t[i].value >= t[j].value
    BY <1>10, <2>1, <2>3
  <2>5. q.moves[i] = t[i] /\ q.moves[j] = t[j]
    <3>1. \A x \in 1 .. k : x \in p1.cur .. p1.cur + k - 1 /\ x - p1.cur + 1 = x
      BY <1>4
    <3> QED BY <1>5, <1>8, <3>1
  <2> SUFFICES ASSUME t[i].move \notin Captures PROVE FALSE
    BY <2>5
  <2>6. t[i].move \in Quiets /\ t[j].move \in Captures
    BY <1>10, <2>2, <2>5 DEF AllMoves
  <2>7. t[i].value = node.value[t[i].move]
    BY <2>2, <2>6, ShownValue
  <2>8. t[j].value = node.value[t[j].move] + AboveQuiets
    BY <2>2, <2>6, ShownValue
  <2>9. node.value[t[i].move] \in QuietValues /\ node.value[t[j].move] \in CaptureValues
    BY <2>6 DEF NodeOk
  <2>10. node.value[t[i].move] < node.value[t[j].move] + AboveQuiets
    BY <2>9, ScoreAssumption
  <2>11. node.value[t[i].move] \in Int /\ node.value[t[j].move] \in Int
    BY <2>9, ScoreAssumption
  <2>12. AboveQuiets \in Int
    BY SMT DEF AboveQuiets
  <2> QED BY <2>4, <2>7, <2>8, <2>10, <2>11, <2>12
<1> QED BY <1>8, <1>9, <1>10 DEF q

(* What the nodes with a single list owe.                                   *)
LEMMA WantedIs ==
  ASSUME NEW n, NodeOk(n), n.mode # "main"
  PROVE  /\ n.mode = "evasion" => Wanted(n) = AllMoves /\ Listing(n) = AllMoves /\ ListStage(n) = "EVASION"
         /\ n.mode = "qsearch" => Wanted(n) = Captures /\ Listing(n) = Captures /\ ListStage(n) = "QCAPTURE"
         /\ n.mode = "probcut" => Wanted(n) = GoodCaptures(n) /\ Listing(n) = Captures /\ ListStage(n) = "PROBCUT"
         /\ n.mode \in {"evasion", "qsearch", "probcut"}
         /\ Wanted(n) \subseteq Listing(n) /\ Listing(n) \subseteq AllMoves
         /\ n.tt \in Wanted(n) => n.tt \in TableMove(n)
         /\ \A p : DueOf(n, p) = TableMove(n) \cup Wanted(n)
<1>1. n.mode = "evasion" => Wanted(n) = AllMoves /\ Listing(n) = AllMoves /\ ListStage(n) = "EVASION"
  BY DEF Wanted, Listing, ListStage
<1>2. n.mode = "qsearch" => Wanted(n) = Captures /\ Listing(n) = Captures /\ ListStage(n) = "QCAPTURE"
  BY DEF Wanted, Listing, ListStage
<1>3. n.mode = "probcut" => Wanted(n) = GoodCaptures(n) /\ Listing(n) = Captures /\ ListStage(n) = "PROBCUT"
  BY DEF Wanted, Listing, ListStage
<1>4. n.mode \in {"evasion", "qsearch", "probcut"}
  BY DEF NodeOk, PickModes
<1>5. Wanted(n) \subseteq Listing(n) /\ Listing(n) \subseteq AllMoves
  BY <1>1, <1>2, <1>3, <1>4, Halves
<1>6. n.tt \in Wanted(n) => n.tt \in TableMove(n)
  BY <1>1, <1>2, <1>3, <1>4, Halves, TableIs
<1>7. \A p : DueOf(n, p) = TableMove(n) \cup Wanted(n)
  BY DEF DueOf
<1> QED BY <1>1, <1>2, <1>3, <1>4, <1>5, <1>6, <1>7

(* A list that has just been made.                                          *)
LEMMA ListStarts ==
  ASSUME NodeOk(node), node.mode # "main", NEW q, q.stage = ListStage(node), q.cur = 1,
         NEW k \in Nat, q.endCur = 1 + k, Holds(node, q.moves, 1, 1 + k, Listing(node)),
         node.mode = "evasion" =>
           \A i, j \in 1 .. k : i < j /\ q.moves[j].move \in Captures => q.moves[i].move \in Captures
  PROVE  WalkingList(node, q, TableMove(node))
<1> DEFINE P == Wanted(node) \ {node.tt}
           D == TableMove(node)
<1>1. \A m \in P : m \notin D
  BY TableIs
<1>2. P \subseteq Listing(node)
  BY WantedIs
<1> HIDE DEF P, D
<1>3. Walked(node, q.moves, 1, 1, 1 + k, Listing(node), P, D)
  <2>1. \A i \in 1 .. (1 + k) - 1 : q.moves[i].move \in P => (q.moves[i].move \in D <=> i < 1)
    BY <1>1
  <2> QED BY <1>2, <2>1 DEF Walked
<1>4. Walked(node, q.moves, 1, q.cur, q.endCur, Listing(node), P, D)
  BY <1>3
<1>5. 1 .. q.endCur - 1 = 1 .. k
  OBVIOUS
<1> QED BY <1>4, <1>5 DEF WalkingList, P, D

(* Such a node deals the next move of its list, or all are dealt.           *)
LEMMA ListDeals ==
  ASSUME NodeOk(node), node.mode # "main", NEW p, IsPicker(p), NEW D, WalkingList(node, p, D),
         NEW passing, passing = IF node.mode = "probcut" THEN Winning ELSE Every
  PROVE  Outcome(node, p, D, select(p, passing))
<1> DEFINE r == select(p, passing)
           P == Wanted(node) \ {node.tt}
           S == Listing(node)
<1>1. /\ p.stage = ListStage(node) /\ Walked(node, p.moves, 1, p.cur, p.endCur, S, P, D)
      /\ TableMove(node) \subseteq D /\ D \subseteq TableMove(node) \cup Wanted(node)
      /\ node.mode = "evasion" =>
           \A i, j \in 1 .. p.endCur - 1 :
             i < j /\ p.moves[j].move \in Captures => p.moves[i].move \in Captures
  BY DEF WalkingList
<1>2. Selected(p, passing, r)
  <2>1. p.cur \in Int /\ p.endCur \in Int
    BY <1>1 DEF Walked
  <2> QED BY <2>1, SelectIs
<1>3. Passes(p, 1, passing, P)
  <2>1. ASSUME NEW i \in 1 .. p.endCur - 1
        PROVE  (p.moves[i].move # node.tt /\ p.moves[i] \in passing) <=> p.moves[i].move \in P
    <3>1. p.moves[i].move \in S /\ p.moves[i] = ShownAs(node, p.moves[i].move)
      BY <1>1 DEF Walked, Holds
    <3>2. p.moves[i].move \in AllMoves
      BY <3>1, WantedIs
    <3>3. p.moves[i] \in Every /\ (p.moves[i] \in Winning <=> p.moves[i].move \in GoodCaptures(node))
      BY <3>1, <3>2, Passing
    <3> QED BY <3>1, <3>3, WantedIs
  <2> QED BY <2>1 DEF Passes
<1> HIDE DEF r, P, S
<1>4. /\ SameFlags(p, r.picker)
      /\ \/ r.move = none /\ P \subseteq D /\ \E c : MovedTo(p, r.picker, c)
         \/ \E i : DealtNext(p, 1, S, P, D, r, i)
  BY <1>1, <1>2, <1>3, WalkOn
<1>5. DueOf(node, p) = TableMove(node) \cup Wanted(node)
  BY WantedIs
<1>6. CASE r.move = none /\ P \subseteq D
  <2>1. DueOf(node, p) \subseteq D
    BY <1>1, <1>5, <1>6, WantedIs DEF P
  <2> QED BY <1>4, <1>6, <2>1, NoneLeft DEF r
<1>7. ASSUME NEW i, DealtNext(p, 1, S, P, D, r, i)
      PROVE  Outcome(node, p, D, r)
  <2>1. /\ r.move \in P \ D /\ MovedTo(p, r.picker, i + 1) /\ i \in p.cur .. p.endCur - 1
        /\ r.move = p.moves[i].move
        /\ Walked(node, p.moves, 1, i + 1, p.endCur, S, P, D \cup {r.move})
    BY <1>7 DEF DealtNext
  <2>2. r.move \in DueOf(node, p) \ D
    BY <1>5, <2>1 DEF P
  <2>3. /\ p.cur \in Int /\ p.endCur \in Int /\ 1 <= p.cur
        /\ \A j \in 1 .. p.endCur - 1 : p.moves[j].move \in P => (p.moves[j].move \in D <=> j < p.cur)
        /\ Holds(node, p.moves, 1, p.endCur, S) /\ P \subseteq S
    BY <1>1 DEF Walked
  <2>4. \A d \in D : TurnOf(node, d) <= TurnOf(node, r.move)
    <3>1. CASE node.mode = "evasion"
      <4>1. r.move # node.tt /\ TurnOf(node, r.move) = IF r.move \in Captures THEN 1 ELSE 2
        BY <2>1, <3>1 DEF TurnOf, P
      <4>2. ASSUME NEW d \in D PROVE TurnOf(node, d) <= TurnOf(node, r.move)
        <5>1. CASE d = node.tt
          BY <4>1, <5>1 DEF TurnOf
        <5>2. CASE d # node.tt
          <6>1. d \in P
            BY <1>1, <5>2, TableIs DEF P
          <6>2. PICK j \in 1 .. p.endCur - 1 : p.moves[j].move = d
            BY <2>3, <6>1 DEF Holds
          <6>3. j < i /\ i \in 1 .. p.endCur - 1
            BY <2>1, <2>3, <6>1, <6>2
          <6>4. r.move \in Captures => d \in Captures
            BY <1>1, <2>1, <3>1, <6>2, <6>3
          <6>5. TurnOf(node, d) = IF d \in Captures THEN 1 ELSE 2
            BY <3>1, <5>2 DEF TurnOf
          <6> QED BY <4>1, <6>4, <6>5
        <5> QED BY <5>1, <5>2
      <4> QED BY <4>2
    <3>2. CASE node.mode # "evasion"
      <4>1. \A m : TurnOf(node, m) = 0
        BY <3>2 DEF TurnOf
      <4> QED BY <4>1
    <3> QED BY <3>1, <3>2
  <2>5. r.picker.stage = p.stage /\ r.picker.moves = p.moves /\ r.picker.cur = i + 1 /\ r.picker.endCur = p.endCur
    BY <2>1 DEF MovedTo
  <2>6. Walked(node, r.picker.moves, 1, r.picker.cur, r.picker.endCur, S, P, D \cup {r.move})
    BY <2>1, <2>5
  <2>7. D \cup {r.move} \subseteq TableMove(node) \cup Wanted(node) /\ TableMove(node) \subseteq D \cup {r.move}
    BY <1>1, <2>1 DEF P
  <2>8. WalkingList(node, r.picker, D \cup {r.move})
    BY <1>1, <2>5, <2>6, <2>7 DEF WalkingList, P, S
  <2>9. StageOk(node, r.picker, D \cup {r.move})
    BY <2>8 DEF StageOk
  <2> QED BY <1>4, <2>2, <2>4, <2>9, OneMore
<1> QED BY <1>4, <1>6, <1>7 DEF r

(* Which stage a node starts in, and what a call does in each.              *)
LEMMA FirstStages ==
  ASSUME NEW n, NodeOk(n)
  PROVE  /\ TableStage(n.mode) \in {"MAIN_TT", "EVASION_TT", "QSEARCH_TT", "PROBCUT_TT"}
         /\ n.mode = "main" => FirstInit(n.mode) = "CAPTURE_INIT"
         /\ n.mode = "evasion" => FirstInit(n.mode) = "EVASION_INIT"
         /\ n.mode = "qsearch" => FirstInit(n.mode) = "QCAPTURE_INIT"
         /\ n.mode = "probcut" => FirstInit(n.mode) = "PROBCUT_INIT"
<1>1. n.mode \in {"main", "evasion", "qsearch", "probcut"}
  BY DEF NodeOk, PickModes
<1>2. n.mode = "main" => TableStage(n.mode) = "MAIN_TT" /\ FirstInit(n.mode) = "CAPTURE_INIT"
  BY Zenon DEF TableStage, FirstInit
<1>3. n.mode = "evasion" => TableStage(n.mode) = "EVASION_TT" /\ FirstInit(n.mode) = "EVASION_INIT"
  BY Zenon DEF TableStage, FirstInit
<1>4. n.mode = "qsearch" => TableStage(n.mode) = "QSEARCH_TT" /\ FirstInit(n.mode) = "QCAPTURE_INIT"
  BY Zenon DEF TableStage, FirstInit
<1>5. n.mode = "probcut" => TableStage(n.mode) = "PROBCUT_TT" /\ FirstInit(n.mode) = "PROBCUT_INIT"
  BY Zenon DEF TableStage, FirstInit
<1> QED BY <1>1, <1>2, <1>3, <1>4, <1>5

(* The cases of generate_stage and walk_lists.                              *)
LEMMA DealIs ==
  ASSUME NEW p
  PROVE  /\ p.stage \in {"MAIN_TT", "EVASION_TT", "QSEARCH_TT", "PROBCUT_TT"} =>
              Deal(p) = Result([p EXCEPT !.stage = FirstInit(node.mode)], node.tt)
         /\ p.stage = "CAPTURE_INIT" => Deal(p) = GoodCaptureThenQuiets(CaptureInit(p, "GOOD_CAPTURE"))
         /\ p.stage = "GOOD_CAPTURE" => Deal(p) = GoodCaptureThenQuiets(p)
         /\ p.stage = "GOOD_QUIET" => Deal(p) = GoodQuiet(p)
         /\ p.stage = "BAD_CAPTURE" => Deal(p) = BadCapture(p)
         /\ p.stage = "BAD_QUIET" => Deal(p) = BadQuiet(p)
         /\ p.stage = "EVASION_INIT" => Deal(p) = select(EvasionInit(p), Every)
         /\ p.stage = "QCAPTURE_INIT" => Deal(p) = select(CaptureInit(p, "QCAPTURE"), Every)
         /\ p.stage \in {"EVASION", "QCAPTURE"} => Deal(p) = select(p, Every)
         /\ p.stage = "PROBCUT_INIT" => Deal(p) = select(CaptureInit(p, "PROBCUT"), Winning)
         /\ p.stage = "PROBCUT" => Deal(p) = select(p, Winning)
<1>1. p.stage \in {"MAIN_TT", "EVASION_TT", "QSEARCH_TT", "PROBCUT_TT"} =>
        Deal(p) = Result([p EXCEPT !.stage = FirstInit(node.mode)], node.tt)
  BY Zenon DEF Deal
<1>2. p.stage = "CAPTURE_INIT" => Deal(p) = GoodCaptureThenQuiets(CaptureInit(p, "GOOD_CAPTURE"))
  BY Zenon DEF Deal
<1>3. p.stage = "GOOD_CAPTURE" => Deal(p) = GoodCaptureThenQuiets(p)
  BY Zenon DEF Deal
<1>4. p.stage = "GOOD_QUIET" => Deal(p) = GoodQuiet(p)
  BY Zenon DEF Deal
<1>5. p.stage = "BAD_CAPTURE" => Deal(p) = BadCapture(p)
  BY Zenon DEF Deal
<1>6. p.stage = "BAD_QUIET" => Deal(p) = BadQuiet(p)
  BY Zenon DEF Deal
<1>7. p.stage = "EVASION_INIT" => Deal(p) = select(EvasionInit(p), Every)
  BY Zenon DEF Deal
<1>8. p.stage = "QCAPTURE_INIT" => Deal(p) = select(CaptureInit(p, "QCAPTURE"), Every)
  BY Zenon DEF Deal
<1>9. p.stage \in {"EVASION", "QCAPTURE"} => Deal(p) = select(p, Every)
  BY Zenon DEF Deal
<1>10. p.stage = "PROBCUT_INIT" => Deal(p) = select(CaptureInit(p, "PROBCUT"), Winning)
  BY Zenon DEF Deal
<1>11. p.stage = "PROBCUT" => Deal(p) = select(p, Winning)
  BY Zenon DEF Deal
<1> QED BY <1>1, <1>2, <1>3, <1>4, <1>5, <1>6, <1>7, <1>8, <1>9, <1>10, <1>11

(* The table move is dealt first; then the first list is made.              *)
LEMMA TableDeals ==
  ASSUME NodeOk(node), NEW p, IsPicker(p), NEW D, AtTable(node, p, D)
  PROVE  Outcome(node, p, D, Deal(p))
<1> DEFINE q == [p EXCEPT !.stage = FirstInit(node.mode)]
           r == Deal(p)
<1>1. p.stage = TableStage(node.mode) /\ D = {} /\ TableMove(node) = {node.tt} /\ ~p.skipQuiets
  BY DEF AtTable
<1>2. r = Result(q, node.tt)
  BY <1>1, FirstStages, DealIs
<1> HIDE DEF r
<1>3. IsPicker(q) /\ q.stage = FirstInit(node.mode) /\ KeepsBut(p, q, "stage")
  BY StageSet
<1> HIDE DEF q
<1>4. r.picker = q /\ r.move = node.tt
  BY <1>2 DEF Result
<1>5. SameFlags(p, r.picker)
  BY <1>3, <1>4 DEF KeepsBut, SameFlags
<1>6. r.move \in DueOf(node, p) \ D
  BY <1>1, <1>4 DEF DueOf
<1>7. D \cup {r.move} = TableMove(node)
  BY <1>1, <1>4
<1>8. AtInit(node, r.picker, D \cup {r.move})
  BY <1>3, <1>4, <1>7 DEF AtInit
<1>9. StageOk(node, r.picker, D \cup {r.move})
  BY <1>8 DEF StageOk
<1>10. \A d \in D : TurnOf(node, d) <= TurnOf(node, r.move)
  BY <1>1
<1> QED BY <1>1, <1>5, <1>6, <1>9, <1>10, OneMore DEF r

LEMMA InitDeals ==
  ASSUME NodeOk(node), NEW p, IsPicker(p), NEW D, AtInit(node, p, D)
  PROVE  Outcome(node, p, D, Deal(p))
<1>1. p.stage = FirstInit(node.mode) /\ D = TableMove(node)
  BY DEF AtInit
<1>2. node.mode \in {"main", "evasion", "qsearch", "probcut"}
  BY DEF NodeOk, PickModes
<1>3. CASE node.mode = "main"
  <2> DEFINE q == CaptureInit(p, "GOOD_CAPTURE")
  <2>1. Deal(p) = GoodCaptureThenQuiets(q)
    BY <1>1, <1>3, FirstStages, DealIs
  <2>2. /\ SameFlags(p, q) /\ q.stage = "GOOD_CAPTURE" /\ q.cur = 1 /\ q.endBadCaptures = 1
        /\ q.endCaptures = q.endCur
        /\ \E k \in Nat : /\ q.endCur = 1 + k /\ DOMAIN q.moves = 1 .. k
                          /\ Holds(node, q.moves, 1, 1 + k, Captures)
    BY CaptureInitIs
  <2> HIDE DEF q
  <2>3. PICK k \in Nat : q.endCur = 1 + k /\ DOMAIN q.moves = 1 .. k /\ Holds(node, q.moves, 1, 1 + k, Captures)
    BY <2>2
  <2>4. WalkingGoodAt(node, q, D, {}, Captures)
    <3>1. Holds(node, q.moves, 1, q.endBadCaptures, {})
      <4>1. 1 .. 1 - 1 = {}
        OBVIOUS
      <4> QED BY <2>2, <4>1 DEF Holds
    <3>2. Holds(node, q.moves, q.cur, q.endCur, Captures)
      BY <2>2, <2>3
    <3>3. /\ q.endBadCaptures \in Int /\ q.cur \in Int /\ q.endCur \in Int /\ 1 <= q.endBadCaptures
          /\ q.endBadCaptures <= q.cur /\ q.cur <= q.endCur /\ DOMAIN q.moves = 1 .. q.endCur - 1
      BY <2>2, <2>3
    <3>4. BadCaptures(node) \ {node.tt} \subseteq {} \cup Captures
      BY Halves
    <3>5. \A m \in GoodCaptures(node) \ {node.tt} : m \in D <=> m \notin Captures
      BY <1>1, TableIs, Halves
    <3> QED BY <1>1, <2>2, <3>1, <3>2, <3>3, <3>4, <3>5 DEF WalkingGoodAt
  <2>5. WalkingGood(node, q, D)
    BY <2>2, <2>4 DEF WalkingGood
  <2>6. IsPicker(q)
    BY <2>2 DEF SameFlags
  <2>7. Outcome(node, q, D, GoodCaptureThenQuiets(q))
    BY <1>3, <2>5, <2>6, GoodCaptureDeals
  <2> QED BY <2>1, <2>2, <2>7, OutcomeOf
<1>4. CASE node.mode = "evasion"
  <2> DEFINE q == EvasionInit(p)
  <2>1. Deal(p) = select(q, Every)
    BY <1>1, <1>4, FirstStages, DealIs
  <2>2. /\ SameFlags(p, q) /\ q.stage = "EVASION" /\ q.cur = 1
        /\ \E k \in Nat : /\ q.endCur = 1 + k /\ Holds(node, q.moves, 1, 1 + k, AllMoves)
                          /\ \A i, j \in 1 .. k :
                               i < j /\ q.moves[j].move \in Captures => q.moves[i].move \in Captures
    BY <1>4, EvasionInitIs
  <2> HIDE DEF q
  <2>3. q.stage = ListStage(node) /\ Listing(node) = AllMoves
    BY <1>4, <2>2, WantedIs
  <2>4. WalkingList(node, q, D)
    BY <1>1, <1>4, <2>2, <2>3, ListStarts
  <2>5. IsPicker(q)
    BY <2>2 DEF SameFlags
  <2>6. Outcome(node, q, D, select(q, Every))
    BY <1>4, <2>4, <2>5, ListDeals
  <2> QED BY <2>1, <2>2, <2>6, OutcomeOf
<1>5. CASE node.mode = "qsearch"
  <2> DEFINE q == CaptureInit(p, "QCAPTURE")
  <2>1. Deal(p) = select(q, Every)
    BY <1>1, <1>5, FirstStages, DealIs
  <2>2. /\ SameFlags(p, q) /\ q.stage = "QCAPTURE" /\ q.cur = 1
        /\ \E k \in Nat : q.endCur = 1 + k /\ Holds(node, q.moves, 1, 1 + k, Captures)
    BY CaptureInitIs
  <2> HIDE DEF q
  <2>3. q.stage = ListStage(node) /\ Listing(node) = Captures
    BY <1>5, <2>2, WantedIs
  <2>4. WalkingList(node, q, D)
    BY <1>1, <1>5, <2>2, <2>3, ListStarts
  <2>5. IsPicker(q)
    BY <2>2 DEF SameFlags
  <2>6. Outcome(node, q, D, select(q, Every))
    BY <1>5, <2>4, <2>5, ListDeals
  <2> QED BY <2>1, <2>2, <2>6, OutcomeOf
<1>6. CASE node.mode = "probcut"
  <2> DEFINE q == CaptureInit(p, "PROBCUT")
  <2>1. Deal(p) = select(q, Winning)
    BY <1>1, <1>6, FirstStages, DealIs
  <2>2. /\ SameFlags(p, q) /\ q.stage = "PROBCUT" /\ q.cur = 1
        /\ \E k \in Nat : q.endCur = 1 + k /\ Holds(node, q.moves, 1, 1 + k, Captures)
    BY CaptureInitIs
  <2> HIDE DEF q
  <2>3. q.stage = ListStage(node) /\ Listing(node) = Captures
    BY <1>6, <2>2, WantedIs
  <2>4. WalkingList(node, q, D)
    BY <1>1, <1>6, <2>2, <2>3, ListStarts
  <2>5. IsPicker(q)
    BY <2>2 DEF SameFlags
  <2>6. Outcome(node, q, D, select(q, Winning))
    BY <1>6, <2>4, <2>5, ListDeals
  <2> QED BY <2>1, <2>2, <2>6, OutcomeOf
<1> QED BY <1>2, <1>3, <1>4, <1>5, <1>6

(* In any stage, one call deals one more move due, or all are dealt.        *)
LEMMA DealDeals ==
  ASSUME NodeOk(node), NEW p, IsPicker(p), NEW D, StageOk(node, p, D)
  PROVE  Outcome(node, p, D, Deal(p))
<1>1. CASE AtTable(node, p, D)
  BY <1>1, TableDeals
<1>2. CASE AtInit(node, p, D)
  BY <1>2, InitDeals
<1>3. CASE node.mode = "main" /\ WalkingGood(node, p, D)
  <2>1. Deal(p) = GoodCaptureThenQuiets(p)
    BY <1>3, DealIs DEF WalkingGood
  <2> QED BY <1>3, <2>1, GoodCaptureDeals
<1>4. CASE node.mode = "main" /\ WalkingGoodQuiets(node, p, D)
  <2>1. Deal(p) = GoodQuiet(p)
    BY <1>4, DealIs DEF WalkingGoodQuiets
  <2> QED BY <1>4, <2>1, GoodQuietDeals
<1>5. CASE node.mode = "main" /\ WalkingBadCaptures(node, p, D)
  <2>1. Deal(p) = BadCapture(p)
    BY <1>5, DealIs DEF WalkingBadCaptures
  <2> QED BY <1>5, <2>1, BadCaptureDeals
<1>6. CASE node.mode = "main" /\ WalkingBadQuiets(node, p, D)
  <2>1. Deal(p) = BadQuiet(p)
    BY <1>6, DealIs DEF WalkingBadQuiets
  <2> QED BY <1>6, <2>1, BadQuietDeals
<1>7. CASE node.mode # "main" /\ WalkingList(node, p, D)
  <2>1. p.stage = ListStage(node)
    BY <1>7 DEF WalkingList
  <2>2. CASE node.mode = "probcut"
    <3>1. p.stage = "PROBCUT"
      BY <1>7, <2>1, <2>2, WantedIs
    <3>2. Deal(p) = select(p, Winning)
      BY <3>1, DealIs
    <3> QED BY <1>7, <2>2, <3>2, ListDeals
  <2>3. CASE node.mode # "probcut"
    <3>1. p.stage \in {"EVASION", "QCAPTURE"}
      BY <1>7, <2>1, <2>3, WantedIs
    <3>2. Deal(p) = select(p, Every)
      BY <3>1, DealIs
    <3> QED BY <1>7, <2>3, <3>2, ListDeals
  <2> QED BY <2>2, <2>3
<1> QED BY <1>1, <1>2, <1>3, <1>4, <1>5, <1>6, <1>7 DEF StageOk

(* The inductive invariant: the stage says what has been dealt and where    *)
(* the rest lies, and what has been dealt is in order.                      *)
DealtOf(d) == {d[i] : i \in DOMAIN d} \ {none}
Over(d)    == d # << >> /\ d[Len(d)] = none

(* The moves dealt so far are in order.                                     *)
InOrder(n, p, d) ==
  /\ d \in Seq(AllMoves \cup {none})
  /\ \A i, j \in DOMAIN d : d[i] = d[j] => i = j
  /\ \A i \in DOMAIN d : d[i] = none => i = Len(d)
  /\ \A i, j \in DOMAIN d : i < j /\ d[j] # none => TurnOf(n, d[i]) <= TurnOf(n, d[j])
  /\ n.mode = "main" /\ p.skipQuiets => \A i \in DOMAIN d : i > p.skippedAt => d[i] \notin Quiets

(* The inductive invariant.                                                 *)
PickIInv(n, p, d) ==
  /\ NodeOk(n) /\ IsPicker(p) /\ p.skippedAt \in Nat /\ p.skippedAt <= Len(d)
  /\ InOrder(n, p, d)
  /\ ~Over(d) => StageOk(n, p, DealtOf(d))
  /\ Over(d) => DueOf(n, p) \subseteq DealtOf(d)
  /\ ~p.skipQuiets => DealtOf(d) \subseteq DueOf(n, p)

(* It holds at first, and every call keeps it.                              *)
LEMMA NodeInit ==
  ASSUME NEW n \in Nodes, NEW v \in [Quiets -> QuietValues],
         node = [n EXCEPT !.value = [m \in Captures \cup Quiets |-> IF m \in Quiets THEN v[m] ELSE n.value[m]]]
  PROVE  NodeOk(node)
<1> DEFINE w == [m \in Captures \cup Quiets |-> IF m \in Quiets THEN v[m] ELSE n.value[m]]
<1>1. /\ n.mode \in {"main", "evasion", "qsearch", "probcut"} /\ n.depth \in Int
      /\ n.value \in [Captures -> CaptureValues] /\ n.see \in [Captures -> BOOLEAN]
  <2>1. CASE n \in [mode : {"main"}, depth : PickDepths, tt : Captures \cup Quiets \cup {Stray, none},
                    value : [Captures -> CaptureValues], see : [Captures -> BOOLEAN]]
    BY <2>1, ScoreAssumption
  <2>2. CASE n \in [mode : {"evasion", "qsearch", "probcut"}, depth : {0},
                    tt : Captures \cup Quiets \cup {Stray, none},
                    value : [Captures -> CaptureValues], see : [Captures -> BOOLEAN]]
    BY <2>2
  <2> QED BY <2>1, <2>2 DEF Nodes
<1>2. node.mode = n.mode /\ node.depth = n.depth /\ node.see = n.see /\ node.value = w
  <2>1. CASE n \in [mode : {"main"}, depth : PickDepths, tt : Captures \cup Quiets \cup {Stray, none},
                    value : [Captures -> CaptureValues], see : [Captures -> BOOLEAN]]
    BY <2>1
  <2>2. CASE n \in [mode : {"evasion", "qsearch", "probcut"}, depth : {0},
                    tt : Captures \cup Quiets \cup {Stray, none},
                    value : [Captures -> CaptureValues], see : [Captures -> BOOLEAN]]
    BY <2>2
  <2> QED BY <2>1, <2>2 DEF Nodes
<1>3. \A m \in Captures : w[m] \in CaptureValues
  BY <1>1, NotTwice
<1>4. \A m \in Quiets : w[m] \in QuietValues
  OBVIOUS
<1>5. w \in [AllMoves -> Int]
  <2>1. DOMAIN w = AllMoves /\ w = [m \in AllMoves |-> w[m]]
    BY DEF AllMoves
  <2> HIDE DEF w
  <2>2. \A m \in AllMoves : w[m] \in Int
    BY <1>3, <1>4, ScoreAssumption DEF AllMoves
  <2> QED BY <2>1, <2>2
<1> HIDE DEF w
<1> QED BY <1>1, <1>2, <1>3, <1>4, <1>5 DEF NodeOk, PickModes

LEMMA PickInitInv == PickInit => PickIInv(node, picker, dealt)
<1> SUFFICES ASSUME PickInit PROVE PickIInv(node, picker, dealt)
  OBVIOUS
<1> DEFINE taken == IF node.mode = "probcut" THEN Captures ELSE Captures \cup Quiets
<1>1. NodeOk(node)
  <2>1. PICK n \in Nodes, v \in [Quiets -> QuietValues] :
          node = [n EXCEPT !.value = [m \in Captures \cup Quiets |-> IF m \in Quiets THEN v[m] ELSE n.value[m]]]
    BY DEF PickInit
  <2> QED BY <2>1, NodeInit
<1>2. picker = [stage |-> IF node.tt \in taken THEN TableStage(node.mode) ELSE FirstInit(node.mode),
                moves |-> << >>, cur |-> 1, endCur |-> 1, endBadCaptures |-> Unwritten,
                endCaptures |-> Unwritten, endGenerated |-> Unwritten, skipQuiets |-> FALSE, skippedAt |-> 0]
  BY DEF PickInit
<1>3. dealt = << >>
  BY DEF PickInit
<1>4. TableMove(node) = {node.tt} \cap taken
  BY DEF TableMove, AllMoves
<1> HIDE DEF taken
<1>5. /\ picker.stage = IF node.tt \in taken THEN TableStage(node.mode) ELSE FirstInit(node.mode)
      /\ ~picker.skipQuiets /\ picker.skippedAt = 0
  BY <1>2
<1>6. IsPicker(picker)
  BY <1>2 DEF IsPicker
<1>7. DealtOf(dealt) = {} /\ ~Over(dealt) /\ Len(dealt) = 0
  <2>1. DOMAIN dealt = {}
    BY <1>3
  <2> QED BY <1>3, <2>1 DEF DealtOf, Over
<1>8. StageOk(node, picker, {})
  <2>1. CASE node.tt \in taken
    <3>1. AtTable(node, picker, {})
      BY <1>4, <1>5, <2>1 DEF AtTable
    <3> QED BY <3>1 DEF StageOk
  <2>2. CASE node.tt \notin taken
    <3>1. AtInit(node, picker, {})
      BY <1>4, <1>5, <2>2 DEF AtInit
    <3> QED BY <3>1 DEF StageOk
  <2> QED BY <2>1, <2>2
<1>9. InOrder(node, picker, dealt)
  <2>1. DOMAIN dealt = {} /\ dealt \in Seq(AllMoves \cup {none})
    BY <1>3
  <2> QED BY <2>1 DEF InOrder
<1> QED BY <1>1, <1>5, <1>6, <1>7, <1>8, <1>9 DEF PickIInv

(* Dealing a move.                                                          *)
LEMMA Dealing ==
  ASSUME PickIInv(node, picker, dealt), next_move
  PROVE  PickIInv(node', picker', dealt')
<1> DEFINE r == Deal(picker)
           D == DealtOf(dealt)
           E == DealtOf(dealt')
           T == AllMoves \cup {none}
<1>1. node' = node /\ picker' = r.picker /\ dealt' = Append(dealt, r.move)
  BY DEF next_move
<1>2. /\ NodeOk(node) /\ IsPicker(picker) /\ picker.skippedAt \in Nat /\ picker.skippedAt <= Len(dealt)
      /\ ~picker.skipQuiets => D \subseteq DueOf(node, picker)
  BY DEF PickIInv
<1>3. /\ dealt \in Seq(T)
      /\ \A i, j \in DOMAIN dealt : dealt[i] = dealt[j] => i = j
      /\ \A i \in DOMAIN dealt : dealt[i] = none => i = Len(dealt)
      /\ \A i, j \in DOMAIN dealt : i < j /\ dealt[j] # none => TurnOf(node, dealt[i]) <= TurnOf(node, dealt[j])
      /\ node.mode = "main" /\ picker.skipQuiets =>
           \A i \in DOMAIN dealt : i > picker.skippedAt => dealt[i] \notin Quiets
  BY DEF PickIInv, InOrder
<1>4. ~Over(dealt)
  BY DEF next_move, Finished, Over, Last
<1>5. Outcome(node, picker, D, r)
  BY <1>2, <1>4, DealDeals DEF PickIInv
<1> HIDE DEF r, D, E
<1> DEFINE L == Len(dealt)
<1>6. L \in Nat /\ DOMAIN dealt = 1 .. L
  BY <1>3
<1>7. \A i \in 1 .. L : dealt[i] # none /\ dealt[i] \in D /\ dealt[i] \in AllMoves
  <2>1. ASSUME NEW i \in 1 .. L PROVE dealt[i] # none
    BY <1>3, <1>4, <1>6 DEF Over
  <2>2. \A i \in 1 .. L : dealt[i] \in T
    BY <1>3, <1>6
  <2> QED BY <1>6, <2>1, <2>2 DEF D, DealtOf
<1>8. r.move \in T
  <2>1. DueOf(node, picker) \subseteq AllMoves
    <3>1. CASE node.mode = "main"
      BY <3>1, MainOwes, TableIs, Halves
    <3>2. CASE node.mode # "main"
      BY <1>2, <3>2, WantedIs, TableIs
    <3> QED BY <3>1, <3>2
  <2> QED BY <1>5, <2>1 DEF Outcome
<1>9. /\ dealt' \in Seq(T) /\ Len(dealt') = L + 1 /\ DOMAIN dealt' = 1 .. L + 1
      /\ \A i \in 1 .. L : dealt'[i] = dealt[i]
      /\ dealt'[L + 1] = r.move
  BY <1>1, <1>3, <1>6, <1>8
<1> HIDE DEF L
<1>10. E = IF r.move = none THEN D ELSE D \cup {r.move}
  <2>1. D = {dealt[i] : i \in 1 .. L} \ {none}
    BY <1>6 DEF D, DealtOf
  <2>2. E = {dealt'[i] : i \in 1 .. L + 1} \ {none}
    BY <1>9 DEF E, DealtOf
  <2>3. {dealt'[i] : i \in 1 .. L + 1} = {dealt[i] : i \in 1 .. L} \cup {r.move}
    <3>1. \A i \in 1 .. L + 1 : i \in 1 .. L \/ i = L + 1
      BY <1>6
    <3>2. L + 1 \in 1 .. L + 1 /\ \A i \in 1 .. L : i \in 1 .. L + 1
      BY <1>6
    <3> QED BY <1>9, <3>1, <3>2
  <2> QED BY <2>1, <2>2, <2>3
<1>11. Over(dealt') <=> r.move = none
  <2>1. dealt' # << >>
    BY <1>6, <1>9
  <2> QED BY <1>9, <2>1 DEF Over
<1>12. SameFlags(picker, r.picker)
  BY <1>5 DEF Outcome
<1>13. /\ IsPicker(picker') /\ picker'.skipQuiets = picker.skipQuiets /\ picker'.skippedAt = picker.skippedAt
       /\ DueOf(node, picker') = DueOf(node, picker)
  BY <1>1, <1>12 DEF SameFlags, DueOf
<1>14. \A i \in 1 .. L : dealt[i] # r.move
  <2>1. CASE r.move = none
    BY <2>1, <1>7
  <2>2. CASE r.move # none
    <3>1. r.move \notin D
      BY <1>5, <2>2 DEF Outcome
    <3> QED BY <3>1, <1>7
  <2> QED BY <2>1, <2>2
<1>15. \A i \in 1 .. L + 1 : i \in 1 .. L \/ i = L + 1
  BY <1>6
<1>16. \A i, j \in 1 .. L + 1 : dealt'[i] = dealt'[j] => i = j
  <2>1. \A i, j \in 1 .. L : dealt[i] = dealt[j] => i = j
    BY <1>3, <1>6
  <2> QED BY <1>9, <1>14, <1>15, <2>1
<1>17. \A i \in 1 .. L + 1 : dealt'[i] = none => i = L + 1
  BY <1>7, <1>9, <1>15
<1>18. ASSUME NEW i \in 1 .. L + 1, NEW j \in 1 .. L + 1, i < j, dealt'[j] # none
       PROVE  TurnOf(node, dealt'[i]) <= TurnOf(node, dealt'[j])
  <2>1. CASE j \in 1 .. L
    <3>1. i \in 1 .. L
      BY <1>6, <1>18, <2>1
    <3> QED BY <1>3, <1>6, <1>9, <1>18, <2>1, <3>1
  <2>2. CASE j = L + 1
    <3>1. i \in 1 .. L /\ r.move # none
      BY <1>6, <1>9, <1>18, <2>2
    <3>2. \A d \in D : TurnOf(node, d) <= TurnOf(node, r.move)
      BY <1>5, <3>1 DEF Outcome
    <3> QED BY <1>7, <1>9, <2>2, <3>1, <3>2
  <2> QED BY <1>15, <2>1, <2>2
<1>19. ASSUME node.mode = "main", picker.skipQuiets, NEW i \in 1 .. L + 1, i > picker.skippedAt
       PROVE  dealt'[i] \notin Quiets
  <2>1. CASE i \in 1 .. L
    BY <1>3, <1>6, <1>9, <1>19, <2>1
  <2>2. CASE i = L + 1
    <3>1. CASE r.move = none
      BY <1>9, <2>2, <3>1, NotTwice, Halves
    <3>2. CASE r.move # none
      <4>1. ~(node.mode = "main" /\ picker.skipQuiets /\ r.move \in Quiets)
        BY <1>5, <3>2 DEF Outcome
      <4> QED BY <1>9, <1>19, <2>2, <4>1
    <3> QED BY <3>1, <3>2
  <2> QED BY <1>15, <2>1, <2>2
<1>20. InOrder(node, picker', dealt')
  BY <1>9, <1>13, <1>16, <1>17, <1>18, <1>19 DEF InOrder
<1>21. ASSUME ~Over(dealt') PROVE StageOk(node, picker', E)
  <2>1. r.move # none
    BY <1>11, <1>21
  <2>2. StageOk(node, r.picker, D \cup {r.move})
    BY <1>5, <2>1 DEF Outcome
  <2> QED BY <1>1, <1>10, <2>1, <2>2
<1>22. ASSUME Over(dealt') PROVE DueOf(node, picker') \subseteq E
  <2>1. r.move = none
    BY <1>11, <1>22
  <2>2. \/ DueOf(node, picker) \subseteq D
        \/ none \in DueOf(node, picker)
    BY <1>5, <2>1 DEF Outcome
  <2>3. none \notin DueOf(node, picker)
    <3>1. CASE node.mode = "main"
      BY <3>1, MainOwes, TableIs, Halves, NotTwice
    <3>2. CASE node.mode # "main"
      BY <1>2, <3>2, WantedIs, TableIs, NotTwice
    <3> QED BY <3>1, <3>2
  <2> QED BY <1>10, <1>13, <2>1, <2>2, <2>3
<1>23. ASSUME ~picker'.skipQuiets PROVE E \subseteq DueOf(node, picker')
  <2>1. D \subseteq DueOf(node, picker)
    BY <1>2, <1>13, <1>23
  <2>2. r.move = none \/ r.move \in DueOf(node, picker)
    BY <1>5 DEF Outcome
  <2> QED BY <1>10, <1>13, <2>1, <2>2
<1>24. picker'.skippedAt \in Nat /\ picker'.skippedAt <= Len(dealt')
  BY <1>2, <1>6, <1>9, <1>13 DEF L
<1>25. PickIInv(node, picker', dealt')
  BY <1>2, <1>13, <1>20, <1>21, <1>22, <1>23, <1>24 DEF PickIInv, E
<1> QED BY <1>1, <1>25

(* Giving up on quiets leaves every stage what it was.                      *)
LEMMA SkipKeeps ==
  ASSUME NEW n, NEW p, NEW q, NEW D, StageOk(n, p, D), D # {},
         q.stage = p.stage, q.moves = p.moves, q.cur = p.cur, q.endCur = p.endCur,
         q.endBadCaptures = p.endBadCaptures, q.endCaptures = p.endCaptures, q.endGenerated = p.endGenerated,
         q.skipQuiets
  PROVE  StageOk(n, q, D)
<1>1. ~AtTable(n, p, D)
  BY DEF AtTable
<1>2. CASE AtInit(n, p, D)
  BY <1>2 DEF AtInit, StageOk
<1>3. CASE n.mode = "main" /\ WalkingGood(n, p, D)
  <2>1. PICK B \in SUBSET Captures, G \in SUBSET Captures : WalkingGoodAt(n, p, D, B, G)
    BY <1>3 DEF WalkingGood
  <2>2. WalkingGoodAt(n, q, D, B, G)
    BY <2>1 DEF WalkingGoodAt
  <2>3. WalkingGood(n, q, D)
    BY <1>3, <2>2 DEF WalkingGood
  <2> QED BY <1>3, <2>3 DEF StageOk
<1>4. CASE n.mode = "main" /\ WalkingGoodQuiets(n, p, D)
  <2>1. WalkingGoodQuiets(n, q, D)
    BY <1>4 DEF WalkingGoodQuiets
  <2> QED BY <1>4, <2>1 DEF StageOk
<1>5. CASE n.mode = "main" /\ WalkingBadCaptures(n, p, D)
  <2>1. WalkingBadCaptures(n, q, D)
    BY <1>5 DEF WalkingBadCaptures
  <2> QED BY <1>5, <2>1 DEF StageOk
<1>6. CASE n.mode = "main" /\ WalkingBadQuiets(n, p, D)
  <2>1. WalkingBadQuiets(n, q, D)
    BY <1>6 DEF WalkingBadQuiets
  <2> QED BY <1>6, <2>1 DEF StageOk
<1>7. CASE n.mode # "main" /\ WalkingList(n, p, D)
  <2>1. WalkingList(n, q, D)
    BY <1>7 DEF WalkingList
  <2> QED BY <1>7, <2>1 DEF StageOk
<1> QED BY <1>1, <1>2, <1>3, <1>4, <1>5, <1>6, <1>7 DEF StageOk

(* Giving up on quiets: what is owed shrinks, what was dealt stays.         *)
LEMMA Skipping ==
  ASSUME PickIInv(node, picker, dealt), skip_quiet_moves
  PROVE  PickIInv(node', picker', dealt')
<1> DEFINE q == [picker EXCEPT !.skipQuiets = TRUE, !.skippedAt = Len(dealt)]
           D == DealtOf(dealt)
<1>1. node' = node /\ picker' = q /\ dealt' = dealt
  BY DEF skip_quiet_moves
<1>2. /\ NodeOk(node) /\ IsPicker(picker) /\ InOrder(node, picker, dealt)
      /\ ~Over(dealt) => StageOk(node, picker, D)
  BY DEF PickIInv
<1>3. dealt # << >> /\ ~Over(dealt)
  BY DEF skip_quiet_moves, Finished, Over, Last
<1>4. /\ q.stage = picker.stage /\ q.moves = picker.moves /\ q.cur = picker.cur /\ q.endCur = picker.endCur
      /\ q.endBadCaptures = picker.endBadCaptures /\ q.endCaptures = picker.endCaptures
      /\ q.endGenerated = picker.endGenerated /\ q.skipQuiets /\ q.skippedAt = Len(dealt)
  BY <1>2 DEF IsPicker
<1>5. IsPicker(q)
  <2> DEFINE v == [picker EXCEPT !.skipQuiets = TRUE]
             L == Len(dealt)
  <2>1. q = [v EXCEPT !.skippedAt = L]
    OBVIOUS
  <2> HIDE DEF q, L
  <2>2. IsPicker(v)
    BY <1>2, SkipSet
  <2> HIDE DEF v
  <2>3. IsPicker([v EXCEPT !.skippedAt = L])
    BY <2>2, SkippedSet
  <2> QED BY <2>1, <2>3
<1> HIDE DEF q
<1>6. /\ dealt \in Seq(AllMoves \cup {none}) /\ Len(dealt) \in Nat /\ DOMAIN dealt = 1 .. Len(dealt)
  BY <1>2 DEF InOrder
<1>7. D # {}
  <2>1. Len(dealt) \in DOMAIN dealt /\ dealt[Len(dealt)] # none
    BY <1>3, <1>6 DEF Over
  <2> QED BY <2>1 DEF DealtOf
<1>8. StageOk(node, q, D)
  <2> HIDE DEF D
  <2> QED BY <1>2, <1>3, <1>4, <1>7, SkipKeeps
<1>9. \A i \in DOMAIN dealt : ~(i > Len(dealt))
  BY <1>6
<1>10. InOrder(node, q, dealt)
  BY <1>2, <1>4, <1>9 DEF InOrder
<1>11. PickIInv(node, q, dealt)
  BY <1>2, <1>3, <1>4, <1>5, <1>6, <1>8, <1>10 DEF PickIInv
<1> QED BY <1>1, <1>11

LEMMA PickStepInv == PickIInv(node, picker, dealt) /\ [PickNext]_pickVars => PickIInv(node, picker, dealt)'
<1> SUFFICES ASSUME PickIInv(node, picker, dealt), [PickNext]_pickVars
             PROVE  PickIInv(node', picker', dealt')
  OBVIOUS
<1>1. CASE next_move
  BY <1>1, Dealing
<1>2. CASE skip_quiet_moves
  BY <1>2, Skipping
<1>3. CASE UNCHANGED pickVars
  BY <1>3 DEF pickVars
<1> QED BY <1>1, <1>2, <1>3 DEF PickNext

(* What the property says follows from the invariant.                       *)
LEMMA DealtInOrder == PickIInv(node, picker, dealt) => DealsEveryMoveOnce
<1> SUFFICES ASSUME PickIInv(node, picker, dealt) PROVE DealsEveryMoveOnce
  OBVIOUS
<1>1. /\ NodeOk(node) /\ InOrder(node, picker, dealt)
      /\ Over(dealt) => DueOf(node, picker) \subseteq DealtOf(dealt)
      /\ ~picker.skipQuiets => DealtOf(dealt) \subseteq DueOf(node, picker)
  BY DEF PickIInv
<1>2. /\ dealt \in Seq(AllMoves \cup {none})
      /\ \A i, j \in DOMAIN dealt : dealt[i] = dealt[j] => i = j
      /\ \A i, j \in DOMAIN dealt : i < j /\ dealt[j] # none => TurnOf(node, dealt[i]) <= TurnOf(node, dealt[j])
      /\ node.mode = "main" /\ picker.skipQuiets =>
           \A i \in DOMAIN dealt : i > picker.skippedAt => dealt[i] \notin Quiets
  BY <1>1 DEF InOrder
<1>3. IsInjective(dealt)
  BY <1>2 DEF IsInjective
<1>4. Finished <=> Over(dealt)
  BY DEF Finished, Over, Last
<1>5. Dealt = DealtOf(dealt)
  BY DEF Dealt, DealtOf
<1>6. Owed = DueOf(node, picker)
  <2>1. TableMove(node) = {node.tt} \cap (IF node.mode = "probcut" THEN Captures ELSE Captures \cup Quiets)
    BY DEF TableMove, AllMoves
  <2>2. node.mode \in {"main", "evasion", "qsearch", "probcut"}
    BY <1>1 DEF NodeOk, PickModes
  <2>3. CASE node.mode = "main"
    <3>1. Owed = TableMove(node) \cup (IF picker.skipQuiets THEN Captures ELSE Captures \cup Quiets)
      BY Zenon, <2>1, <2>3 DEF Owed
    <3> QED BY <2>3, <3>1, MainOwes DEF AllMoves
  <2>4. CASE node.mode = "evasion"
    <3>1. Owed = TableMove(node) \cup (Captures \cup Quiets)
      BY Zenon, <2>1, <2>4 DEF Owed
    <3>2. Wanted(node) = Captures \cup Quiets
      BY <1>1, <2>4, WantedIs DEF AllMoves
    <3> QED BY <1>1, <2>4, <3>1, <3>2, WantedIs
  <2>5. CASE node.mode = "qsearch"
    <3>1. Owed = TableMove(node) \cup Captures
      BY Zenon, <2>1, <2>5 DEF Owed
    <3> QED BY <1>1, <2>5, <3>1, WantedIs
  <2>6. CASE node.mode = "probcut"
    <3>1. Owed = TableMove(node) \cup {m \in Captures : See(m)}
      BY Zenon, <2>1, <2>6 DEF Owed
    <3>2. {m \in Captures : See(m)} = GoodCaptures(node)
      BY DEF See, GoodCaptures
    <3> QED BY <1>1, <2>6, <3>1, <3>2, WantedIs
  <2> QED BY <2>2, <2>3, <2>4, <2>5, <2>6
<1>7. ASSUME node.mode = "evasion", NEW i \in DOMAIN dealt, NEW j \in DOMAIN dealt, i < j, dealt[j] \in Captures
      PROVE  dealt[i] \in Captures \cup {node.tt}
  <2>1. dealt[j] # none
    BY <1>7, NotTwice, Halves
  <2>2. TurnOf(node, dealt[i]) <= TurnOf(node, dealt[j])
    BY <1>2, <1>7, <2>1
  <2>3. TurnOf(node, dealt[j]) \in {0, 1}
    BY <1>7 DEF TurnOf
  <2>4. dealt[i] \notin Captures \cup {node.tt} => TurnOf(node, dealt[i]) = 2
    BY <1>7 DEF TurnOf
  <2> QED BY <2>2, <2>3, <2>4
<1>8. node.mode = "main" => \A m : Turn(m) = TurnOf(node, m)
  BY DEF Turn, TurnOf, See
<1>9. node.mode = "main" =>
        /\ \A i, j \in DOMAIN dealt : i < j /\ dealt[j] # none => Turn(dealt[i]) <= Turn(dealt[j])
        /\ picker.skipQuiets => \A i \in DOMAIN dealt : i > picker.skippedAt => dealt[i] \notin Quiets
  BY <1>2, <1>8
<1> QED BY <1>1, <1>3, <1>4, <1>5, <1>6, <1>7, <1>9 DEF DealsEveryMoveOnce

(* In every node, whatever moves it has, whatever the histories give them   *)
(* and whatever the exchanges say, the picker deals each move at most once, *)
(* forgets none and keeps the order of its stages (movepick.cpp next_move,  *)
(* generate_stage, walk_lists).                                             *)
THEOREM EveryMoveIsDealtOnce == PickSpec => []DealsEveryMoveOnce
<1>1. PickInit => PickIInv(node, picker, dealt)
  BY PickInitInv
<1>2. PickIInv(node, picker, dealt) /\ [PickNext]_pickVars => PickIInv(node, picker, dealt)'
  BY PickStepInv
<1>3. PickIInv(node, picker, dealt) => DealsEveryMoveOnce
  BY DealtInOrder
<1> QED BY <1>1, <1>2, <1>3, PTL DEF PickSpec
=============================================================================
