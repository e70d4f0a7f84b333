--------------------------- MODULE TablebaseProbe ---------------------------
(* What the engine makes of its tables (tbprobe.cpp): the probes, which     *)
(* search the captures a table has "don't care" values for, the ranking of  *)
(* the root moves and the extension of a decided line to the mate. The      *)
(* games are graphs of positions whose captures and pawn moves lead to      *)
(* positions of a lower layer; the tables hold what a generator would have  *)
(* stored of them. Fifty is the hundred plies of the fifty-move rule.       *)
EXTENDS Integers, Sequences, FiniteSets, SequencesExt, FiniteSetsExt

CONSTANTS
  Fifty,         \* 100
  Library,       \* the games: moves, side, check, material, layer of each position
  Setups,        \* tables and options: [filling, storage, absent, limit]
  MaxLine,       \* MAX_PLY of an extended line
  Aborts         \* calls from which on time_abort answers yes

VARIABLES
  g,             \* the game, its tables and its options
  told,          \* what the probes answer for each position
  root,          \* [node, cnt50, repeats, rep, rule50, ranked]
  ext            \* the line being extended: [step, line, c, zeroed, late, verified]

tbVars == <<g, told, root, ext>>

MAX_DTZ == 262144
ValueMate == 32000
PlyLimit == 246
PawnValue == 208
Unscored == -32001       \* -VALUE_INFINITE, of a new RootMove

-----------------------------------------------------------------------------
(* The truth of a game, by retrograde analysis within each layer. A value   *)
(* is [sign, dist]: whose win, and in how many plies a zeroing move or mate *)
(* comes, Fifty more when that only wins without the rule. 9 is unknown.    *)
Draw == [sign |-> 0, dist |-> 0]
Mated == [sign |-> -1, dist |-> 0]
Unknown == [sign |-> 9, dist |-> 0]
Zeroing(m) == m.kind # "quiet"
Captures(m) == m.kind \in {"capture", "ep"}
WdlOf(v) == IF v.dist > Fifty THEN v.sign ELSE 2 * v.sign

Option(D, m) ==
  LET v == D[m.to]
  IN  IF v.sign \in {0, 9} THEN v
      ELSE IF Zeroing(m) THEN [sign |-> -v.sign, dist |-> IF v.dist > Fifty THEN Fifty + 1 ELSE 1]
      ELSE [sign |-> -v.sign, dist |-> v.dist + 1]

(* The value of a position from that of its moves: the nearest win, else a  *)
(* draw, else the farthest loss.                                            *)
Best(options, checked) ==
  LET wins == {v \in options : v.sign = 1}
      losses == {v \in options : v.sign = -1}
  IN IF options = {} THEN IF checked THEN Mated ELSE Draw
     ELSE IF wins # {} THEN CHOOSE v \in wins : \A u \in wins : v.dist <= u.dist
     ELSE IF options # losses THEN Draw
     ELSE CHOOSE v \in losses : \A u \in losses : u.dist <= v.dist

OptionsOf(D, moves) == {Option(D, moves[i]) : i \in DOMAIN moves}

(* One round: the positions of the layer decided in exactly k plies.        *)
Round(game, D, layer, k) ==
  [n \in DOMAIN D |->
     LET options == OptionsOf(D, game.moves[n])
         known == {v \in options : v.sign # 9}
         v == Best(IF \E u \in known : u.sign = 1 THEN known ELSE options, game.check[n])
     IN IF /\ game.layer[n] = layer /\ D[n] = Unknown
           /\ v.sign # 0 /\ v.dist = k /\ (v.sign = 1 \/ Unknown \notin options)
        THEN v ELSE D[n]]

RECURSIVE Decide(_, _, _, _)
Decide(game, D, layer, k) ==
  IF k > 2 * Fifty + Len(game.moves)
  THEN [n \in DOMAIN D |-> IF game.layer[n] = layer /\ D[n] = Unknown THEN Draw ELSE D[n]]
  ELSE Decide(game, Round(game, D, layer, k), layer, k + 1)

RECURSIVE Solve(_, _, _)
Solve(game, D, layer) ==
  IF layer > Max({game.layer[n] : n \in DOMAIN game.layer}) THEN D
  ELSE Solve(game, Decide(game, D, layer, 0), layer + 1)
Truth(game) == Solve(game, [n \in DOMAIN game.moves |-> Unknown], 0)

(* The result of a game with the counter of the rule at c, played out: a    *)
(* position whose counter is full is drawn unless it is mate. Rows are kept *)
(* by counter, from the full one down, a layer at a time.                   *)
Result(game, rows, n, c) ==
  LET moves == game.moves[n]
      after(m) == rows[IF Zeroing(m) THEN 1 ELSE c + 2][m.to]
  IN IF moves = << >> THEN IF game.check[n] THEN -1 ELSE 0
     ELSE IF c >= Fifty THEN 0
     ELSE Max({-after(moves[i]) : i \in DOMAIN moves})
RowOf(game, rows, layer, c) ==
  [n \in DOMAIN game.moves |-> IF game.layer[n] = layer THEN Result(game, rows, n, c) ELSE rows[c + 1][n]]
Outcomes(game) ==
  LET depth == Max({game.layer[n] : n \in DOMAIN game.layer}) + 1
      order == [k \in 1 .. depth * (Fifty + 1) |->
                  <<(k - 1) \div (Fifty + 1), Fifty - ((k - 1) % (Fifty + 1))>>]
  IN  FoldLeft(LAMBDA rows, lc : [rows EXCEPT ![lc[2] + 1] = RowOf(game, rows, lc[1], lc[2])],
               [c \in 1 .. Fifty + 1 |-> [n \in DOMAIN game.moves |-> 0]], order)
Outcome(n, c) == g.outcomes[(IF c > Fifty THEN Fifty ELSE c) + 1][n]

-----------------------------------------------------------------------------
(* What the generator stored. The tables know nothing of en passant; a      *)
(* capture that is as good as the value leaves the generator free to store  *)
(* anything not above it; a DTZ table holds one side to move of a material, *)
(* and nothing for draws and for wins by a zeroing move.                    *)
Plain(n) == SelectSeq(g.moves[n], LAMBDA m : m.kind # "ep")
PlainValue(n) == Best(OptionsOf(g.truth, Plain(n)), g.check[n])
PlainCaptures(n) == SelectSeq(g.moves[n], LAMBDA m : m.kind = "capture")
NoPosition(n) == Plain(n) = << >> /\ g.moves[n] # << >>

StoredWdl(n) ==
  LET wdl == WdlOf(PlainValue(n))
      free == \E v \in OptionsOf(g.truth, PlainCaptures(n)) : WdlOf(v) = wdl /\ wdl >= 0
  IN  IF g.filling = "low" /\ (free \/ NoPosition(n)) THEN -2
      ELSE IF NoPosition(n) THEN 2 ELSE wdl

(* The four lists of a mapped table, told apart by where they begin.        *)
WDLMap(wdl) == CASE wdl = -2 -> 1 [] wdl = -1 -> 3 [] wdl = 0 -> 0 [] wdl = 1 -> 2 [] wdl = 2 -> 0
ListStart(list) == 50 + 100 * list
InPlies(wdl) == (wdl = 2 /\ g.storage.winPlies) \/ (wdl = -2 /\ g.storage.lossPlies)

StoredDtz(n) ==
  LET v == PlainValue(n)
      wdl == WdlOf(v)
      plies == Max({v.dist - 1 - (IF wdl \in {-1, 1} THEN Fifty ELSE 0), 0})
      kept == IF InPlies(wdl) THEN plies ELSE plies \div 2
  IN  IF wdl = 0 \/ NoPosition(n) THEN 77
      ELSE IF wdl > 0 /\ (\E i \in DOMAIN Plain(n) :
                            Zeroing(Plain(n)[i]) /\ Option(g.truth, Plain(n)[i]) = v) THEN 77
      ELSE IF g.storage.mapped THEN ListStart(WDLMap(wdl)) - kept ELSE kept

-----------------------------------------------------------------------------
(* probe_table. KvK has no table; map_score undoes the storage.             *)
FAIL == "FAIL"
OK == "OK"
CHANGE_STM == "CHANGE_STM"
ZEROING == "ZEROING_BEST_MOVE"

probe_wdl_table(n) ==
  IF g.material[n] = 0 THEN [v |-> 0, res |-> OK]
  ELSE IF g.material[n] \in g.absent.wdl THEN [v |-> 0, res |-> FAIL]
  ELSE [v |-> StoredWdl(n), res |-> OK]

map_score(value, wdl) ==
  LET mapped == IF g.storage.mapped THEN ListStart(WDLMap(wdl)) - value ELSE value
      doubled == (wdl = 2 /\ ~g.storage.winPlies) \/ (wdl = -2 /\ ~g.storage.lossPlies) \/ wdl \in {-1, 1}
  IN  (IF doubled THEN 2 * mapped ELSE mapped) + 1

(* A pawnless table of equal sides answers for both.                        *)
BothSides == 2
check_dtz_stm(n) == g.dtzSide[g.material[n]] \in {g.side[n], BothSides}

probe_dtz_table(n, wdl) ==
  IF g.material[n] = 0 THEN [v |-> 0, res |-> OK]
  ELSE IF g.material[n] \in g.absent.dtz \cup g.absent.wdl THEN [v |-> 0, res |-> FAIL]
  ELSE IF ~check_dtz_stm(n) THEN [v |-> 0, res |-> CHANGE_STM]
  ELSE [v |-> map_score(StoredDtz(n), wdl), res |-> OK]

dtz_before_zeroing(wdl) ==
  CASE wdl = 2 -> 1 [] wdl = 1 -> Fifty + 1 [] wdl = 0 -> 0 [] wdl = -1 -> -Fifty - 1 [] wdl = -2 -> -1
Abs(x) == IF x < 0 THEN -x ELSE x
SignOf(x) == IF x > 0 THEN 1 ELSE IF x < 0 THEN -1 ELSE 0

(* search<CheckZeroingMoves>: the captures (and pawn moves) in their order, *)
(* then the table unless they were all the moves.                           *)
RECURSIVE SearchFrom(_, _, _, _, _)
AfterMovesTrusting(n, best, count) ==
  LET table == probe_wdl_table(n)
  IN IF table.res = FAIL THEN [v |-> 0, res |-> FAIL]
     ELSE IF best >= table.v THEN [v |-> best, res |-> IF best > 0 THEN ZEROING ELSE OK]
     ELSE [v |-> table.v, res |-> OK]
AfterMoves(n, best, count) ==
  LET noMoreMoves == count > 0 /\ count = Len(g.moves[n])
      table == IF noMoreMoves THEN [v |-> best, res |-> OK] ELSE probe_wdl_table(n)
  IN IF table.res = FAIL THEN [v |-> 0, res |-> FAIL]
     ELSE IF best >= table.v
       THEN [v |-> best, res |-> IF best > 0 \/ noMoreMoves THEN ZEROING ELSE OK]
     ELSE [v |-> table.v, res |-> OK]

SearchFrom(n, checkZeroing, i, best, count) ==
  IF i > Len(g.moves[n]) THEN AfterMoves(n, best, count)
  ELSE LET m == g.moves[n][i]
           child == SearchFrom(m.to, FALSE, 1, -2, 0)
       IN IF ~Captures(m) /\ ~(checkZeroing /\ m.kind = "pawn")
          THEN SearchFrom(n, checkZeroing, i + 1, best, count)
          ELSE IF child.res = FAIL THEN [v |-> 0, res |-> FAIL]
          ELSE IF -child.v > best /\ -child.v >= 2 THEN [v |-> -child.v, res |-> ZEROING]
          ELSE SearchFrom(n, checkZeroing, i + 1, Max({best, -child.v}), count + 1)
search(n, checkZeroing) == SearchFrom(n, checkZeroing, 1, -2, 0)
probe_wdl(n) == search(n, FALSE)

(* probe_dtz; with the other side's table, the moves are searched for the   *)
(* win that comes first or the loss that comes last.                        *)
IsMate(n) == g.check[n] /\ g.moves[n] = << >>
NoDTZ == 65535
RECURSIVE probe_dtz(_), OtherSide(_, _, _, _)
OtherSide(n, wdl, i, minDTZ) ==
  IF i > Len(g.moves[n]) THEN [v |-> IF minDTZ = NoDTZ THEN -1 ELSE minDTZ, res |-> OK]
  ELSE LET m == g.moves[n][i]
           child == IF Zeroing(m) THEN search(m.to, FALSE) ELSE probe_dtz(m.to)
           dtz == IF Zeroing(m) THEN -dtz_before_zeroing(child.v) ELSE -child.v
           floor == IF dtz = 1 /\ IsMate(m.to) THEN 1 ELSE minDTZ
           own == IF Zeroing(m) THEN dtz ELSE dtz + SignOf(dtz)
       IN IF child.res = FAIL THEN [v |-> 0, res |-> FAIL]
          ELSE OtherSide(n, wdl, i + 1, IF own < floor /\ SignOf(own) = SignOf(wdl) THEN own ELSE floor)
probe_dtz(n) ==
  LET s == search(n, TRUE)
      table == probe_dtz_table(n, s.v)
  IN IF s.res = FAIL THEN [v |-> 0, res |-> FAIL]
     ELSE IF s.v = 0 THEN [v |-> 0, res |-> s.res]
     ELSE IF s.res = ZEROING THEN [v |-> dtz_before_zeroing(s.v), res |-> ZEROING]
     ELSE IF table.res = CHANGE_STM THEN OtherSide(n, s.v, 1, NoDTZ)
     ELSE IF table.res = FAIL THEN table
     ELSE [v |-> (table.v + (IF s.v \in {-1, 1} THEN Fifty ELSE 0)) * SignOf(s.v), res |-> OK]

-----------------------------------------------------------------------------
(* A root: the position, the counter and, of a history, the moves that      *)
(* repeat one of its positions for the third time and whether any repeated. *)
MoveDraws(r, i) ==
  LET m == g.moves[r.node][i]
      full == r.cnt50 + 1 >= Fifty /\ ~IsMate(m.to)
  IN  (r.rule50 /\ full) \/ i \in r.repeats

(* root_probe for one move: -FAIL- or its distance from the root.           *)
RootDtz(r, i) ==
  LET m == g.moves[r.node][i]
      zero == told.wdl[m.to]
      deep == told.dtz[m.to]
      dtz == IF Zeroing(m) THEN dtz_before_zeroing(-zero.v)
             ELSE IF MoveDraws(r, i) THEN 0
             ELSE -deep.v + SignOf(-deep.v)
  IN  [failed |-> IF Zeroing(m) THEN zero.res = FAIL ELSE ~MoveDraws(r, i) /\ deep.res = FAIL,
       dtz |-> IF dtz = 2 /\ IsMate(m.to) THEN 1 ELSE dtz]

RankForgetsRepetition(r, rankDTZ, dtz) ==
  IF dtz > 0 THEN MAX_DTZ - dtz ELSE IF dtz < 0 THEN -MAX_DTZ - dtz ELSE 0
RootRank(r, rankDTZ, dtz) ==
  LET rank == IF rankDTZ THEN dtz ELSE 0
  IN  IF dtz > 0
      THEN IF dtz + r.cnt50 <= Fifty - 1 /\ ~r.rep THEN MAX_DTZ - rank ELSE MAX_DTZ \div 2 - (dtz + r.cnt50)
      ELSE IF dtz < 0
      THEN IF -dtz * 2 + r.cnt50 < Fifty THEN -MAX_DTZ - rank ELSE -(MAX_DTZ \div 2) + (-dtz + r.cnt50)
      ELSE 0

Truncated(a, b) == IF a < 0 THEN -((-a) \div b) ELSE a \div b
ScoreOf(r, rank) ==
  LET bound == IF r.rule50 THEN MAX_DTZ \div 2 - Fifty ELSE 1
      near == MAX_DTZ \div 2 - 2 * Fifty
  IN CASE rank >= bound -> ValueMate - PlyLimit - 1
       [] rank < bound /\ rank > 0 -> Truncated(Max({3, rank - near}) * PawnValue, 200)
       [] rank = 0 -> 0
       [] rank < 0 /\ rank > -bound -> Truncated(Min({-3, rank + near}) * PawnValue, 200)
       [] rank <= -bound -> -ValueMate + PlyLimit + 1

Decisive(score) == score >= ValueMate - PlyLimit - 1 \/ score <= -ValueMate + PlyLimit + 1

(* root_probe_wdl for one move.                                             *)
WDL_to_rank(wdl) ==
  CASE wdl = -2 -> -MAX_DTZ [] wdl = -1 -> -MAX_DTZ + 101 [] wdl = 0 -> 0
    [] wdl = 1 -> MAX_DTZ - 101 [] wdl = 2 -> MAX_DTZ
WDL_to_value(wdl) ==
  CASE wdl = -2 -> -ValueMate + PlyLimit + 1 [] wdl = -1 -> -2 [] wdl = 0 -> 0 [] wdl = 1 -> 2
    [] wdl = 2 -> ValueMate - PlyLimit - 1
RootWdl(r, i) ==
  LET m == g.moves[r.node][i]
      p == told.wdl[m.to]
      draws == ~Zeroing(m) /\ MoveDraws(r, i)
      wdl == IF draws THEN 0 ELSE -p.v
      shown == IF r.rule50 THEN wdl ELSE 2 * SignOf(wdl)
  IN  [failed |-> ~draws /\ p.res = FAIL, rank |-> WDL_to_rank(wdl), score |-> WDL_to_value(shown)]

(* rank_root_moves. abort is the number of moves after which time_abort     *)
(* answers yes, which root_probe asks after each. The moves come in the     *)
(* order given and leave it in descending order of rank; ranks that were    *)
(* not completed are cleaned up, the scores shown with them are not.        *)
StableByRank(entries) ==
  FoldLeft(LAMBDA sorted, e :
             LET k == Cardinality({j \in DOMAIN sorted : sorted[j].rank >= e.rank})
             IN  SubSeq(sorted, 1, k) \o <<e>> \o SubSeq(sorted, k + 1, Len(sorted)),
           << >>, entries)

Men(n) == g.men[g.material[n] + 1]
MaxCardinality == Max({0} \cup {g.men[k + 1] : k \in (1 .. Len(g.men) - 1) \ g.absent.wdl})

rank_root_moves(r, order, rankDTZ, abort) ==
  LET n == Len(order)
      cardinality == Min({g.limit, MaxCardinality})
      ranksDtz == rankDTZ \/ g.dtzIsDtm[r.node]
      probed == [k \in 1 .. n |-> RootDtz(r, order[k])]
      stopped == {k \in 1 .. n : probed[k].failed \/ k >= abort}
      dtzDone == stopped = {}
      timeUp == ~dtzDone /\ Min(stopped) + 1 >= abort
      wdls == [k \in 1 .. n |-> RootWdl(r, order[k])]
      wdlFails == {k \in 1 .. n : wdls[k].failed}
      wdlDone == ~dtzDone /\ ~timeUp /\ wdlFails = {}
      covered == cardinality >= Men(r.node)
      byDtz(k) == LET rank == RootRank(r, ranksDtz, probed[k].dtz)
                  IN  [move |-> order[k], rank |-> rank, score |-> ScoreOf(r, rank)]
      byWdl(k) == [move |-> order[k], rank |-> wdls[k].rank, score |-> wdls[k].score]
      before(k, fails) == \A j \in fails : k < j
      left(k) == IF ~covered THEN Unscored
                 ELSE IF ~timeUp /\ before(k, wdlFails) THEN wdls[k].score
                 ELSE IF before(k, stopped) THEN byDtz(k).score ELSE Unscored
      plain == [k \in 1 .. n |-> [move |-> order[k], rank |-> 0, score |-> left(k)]]
  IN IF n = 0 THEN [moves |-> << >>, inTB |-> FALSE, cardinality |-> 0, dtz |-> FALSE]
     ELSE IF covered /\ dtzDone
       THEN [moves |-> StableByRank([k \in 1 .. n |-> byDtz(k)]), inTB |-> TRUE, cardinality |-> 0, dtz |-> TRUE]
     ELSE IF covered /\ wdlDone
       THEN LET sorted == StableByRank([k \in 1 .. n |-> byWdl(k)])
            IN  [moves |-> sorted, inTB |-> TRUE, dtz |-> FALSE,
                 cardinality |-> IF sorted[1].score <= 0 THEN 0 ELSE cardinality]
     ELSE [moves |-> plain, inTB |-> FALSE, cardinality |-> cardinality, dtz |-> FALSE]

-----------------------------------------------------------------------------
(* syzygy_extend_pv. A line is the positions passed, the counter at its end *)
(* and where the last zeroing move began a new count; how much of it was    *)
(* compared with the tables, and whether the time given to it is over,      *)
(* which time_abort may find whenever it is asked and then always does.     *)
Tip == Last(ext.line)
SinceZeroing(line) == SubSeq(line, ext.zeroed, Len(line))
Earlier(line, n) == {j \in ext.zeroed .. Len(line) : line[j] = n}

(* The root as rank_root_moves finds it at the end of the line: a position  *)
(* that would stand there a third time is a draw.                           *)
Here ==
  [node |-> Tip, cnt50 |-> ext.c, rule50 |-> root.rule50,
   repeats |-> {i \in DOMAIN g.moves[Tip] :
                       ~Zeroing(g.moves[Tip][i]) /\ Cardinality(Earlier(ext.line, g.moves[Tip][i].to)) >= 2},
   rep |-> Cardinality(ToSet(SinceZeroing(ext.line))) < Len(SinceZeroing(ext.line))]

After(i) ==
  LET m == g.moves[Tip][i]
  IN  [ext EXCEPT !.line = Append(@, m.to), !.c = IF Zeroing(m) THEN 0 ELSE @ + 1,
                  !.zeroed = IF Zeroing(m) THEN Len(ext.line) + 1 ELSE @]

(* is_draw(ply) and is_repetition(ply) at the end of a line: a repetition   *)
(* counts once when it began after the root, twice otherwise.               *)
FullCount(e) == e.c >= Fifty /\ ~IsMate(Last(e.line))
Repeats(e, ply) ==
  LET before == {j \in e.zeroed .. Len(e.line) - 1 : e.line[j] = Last(e.line)}
  IN  Cardinality(before) >= 2 \/ \E j \in before : Len(e.line) - j < ply
is_draw(e, ply) == FullCount(e) \/ Repeats(e, ply)

Listed(n) == [i \in 1 .. Len(g.moves[n]) |-> i]
Mobility(i) ==
  LET replies == g.moves[g.moves[Tip][i].to]
  IN  FoldLeft(LAMBDA sum, m : sum + (IF Captures(m) THEN 100 ELSE 1), 0, replies)
ByMobility ==
  LET entries == [i \in 1 .. Len(g.moves[Tip]) |-> [move |-> i, rank |-> -Mobility(i)]]
      sorted == StableByRank(entries)
  IN  [k \in 1 .. Len(sorted) |-> sorted[k].move]

(* Step 0 does the root move, whose score is decisive.                      *)
FirstMove ==
  /\ ext.step = "root" /\ g.moves[root.node] # << >>
  /\ LET ranked == rank_root_moves(root, Listed(root.node), FALSE, 99)
     IN  \E k \in DOMAIN ranked.moves :
           Decisive(ranked.moves[k].score)
           /\ ext' = [After(ranked.moves[k].move) EXCEPT !.step = "verify", !.verified = 2]
  /\ UNCHANGED <<g, told, root>>

(* The ranking asks time_abort after every move: `abort` says after which   *)
(* it strikes, the first if it has struck before.                           *)
Strikes(abort) == ext.late => abort = 1
Cut(abort) == abort <= Len(g.moves[Tip])

(* A move ranks with the best: a win without the rule is not one with it.   *)
RanksAsWinning(ranked, rm) == SignOf(ranked.moves[1].rank) = SignOf(ranked.moves[rm].rank)
RanksWithTheBest(ranked, rm) == ranked.moves[1].rank = ranked.moves[rm].rank

(* Repetitions and drawing moves are not allowed on the way.                *)
DrawsOnTheWay(next) ==
  LET ply == Len(next.line) - 1
  IN  (root.rule50 /\ is_draw(next, ply)) \/ Repeats(next, ply)

(* Step 1 keeps the searched line while its moves rank with the best, until *)
(* one draws or repeats; the searched line may be anything and end anywhere.*)
(* A ranking cut short by the clock gives every move rank 0 and tells       *)
(* nothing of draws or of the time: the move is kept, and so is the rest of *)
(* the line, whose rankings are cut short at once.                          *)
VerifyMove ==
  /\ ext.step = "verify" /\ Len(ext.line) <= MaxLine
  /\ \E i \in DOMAIN g.moves[Tip], abort \in Aborts, timeUp \in BOOLEAN :
       LET ranked == rank_root_moves(Here, Listed(Tip), FALSE, abort)
           rm == CHOOSE k \in DOMAIN ranked.moves : ranked.moves[k].move = i
           next == [After(i) EXCEPT !.late = @ \/ Cut(abort)]
       IN /\ Strikes(abort)
          /\ ext' = IF ~ranked.inTB THEN next
                    ELSE IF ~RanksWithTheBest(ranked, rm) \/ DrawsOnTheWay(next)
                    THEN [ext EXCEPT !.step = "extend"]
                    ELSE [next EXCEPT !.verified = Len(next.line), !.late = timeUp,
                                      !.step = IF timeUp THEN "extend" ELSE "verify"]
  /\ UNCHANGED <<g, told, root>>
EndOfLine ==
  /\ ext.step = "verify"
  /\ ext' = [ext EXCEPT !.step = "extend"]
  /\ UNCHANGED <<g, told, root>>

(* Step 2 goes on with the best ranked moves, up to a length, a draw, a     *)
(* position the DTZ tables do not answer for, or the end of the time.       *)
ExtendMove ==
  /\ ext.step = "extend" /\ ~ext.late
  /\ \E abort \in Aborts :
       LET ranked == rank_root_moves(Here, ByMobility, TRUE, abort)
           ends == \/ Len(ext.line) - 1 >= MaxLine
                   \/ root.rule50 /\ is_draw(ext, 0)
                   \/ g.moves[Tip] = << >>
           stops == ~ranked.inTB \/ ranked.cardinality > 0
       IN ext' = IF ends \/ stops THEN [ext EXCEPT !.step = "done", !.late = ~ends /\ Cut(abort)]
                 ELSE LET next == After(ranked.moves[1].move)
                      IN  [next EXCEPT !.verified = Len(next.line)]
  /\ UNCHANGED <<g, told, root>>

(* time_abort, asked before anything else, when the searched line is left   *)
(* as it is, and before every move that step 2 would add.                   *)
TimeAbort ==
  /\ ext.step \in {"root", "extend"}
  /\ ext' = [ext EXCEPT !.step = IF @ = "root" THEN "searched" ELSE "done", !.late = TRUE]
  /\ UNCHANGED <<g, told, root>>

-----------------------------------------------------------------------------
Untold == [wdl |-> << >>, dtz |-> << >>]
NoRoot == [node |-> 0, cnt50 |-> 0, repeats |-> {}, rep |-> FALSE, rule50 |-> TRUE]
NoExt == [step |-> "none", line |-> << >>, c |-> 0, zeroed |-> 1, late |-> FALSE, verified |-> 0]

Prepared(game, setup) ==
  [moves |-> game.moves, side |-> game.side, check |-> game.check, material |-> game.material,
   layer |-> game.layer, men |-> game.men, dtzSide |-> game.dtzSide, dtzIsDtm |-> game.dtzIsDtm,
   truth |-> Truth(game), outcomes |-> Outcomes(game), filling |-> setup.filling,
   storage |-> setup.storage, absent |-> setup.absent, limit |-> setup.limit]

TbInit ==
  /\ \E k \in DOMAIN Library, setup \in Setups : g = Prepared(Library[k], setup)
  /\ told = Untold /\ root = NoRoot /\ ext = NoExt

Complete == g.absent.wdl \cup g.absent.dtz = {} /\ \A n \in DOMAIN g.moves : Men(n) <= g.limit
Exact == g.storage.winPlies /\ g.storage.lossPlies

(* Every position probed once: the tables never change while they are used. *)
ProbeAll ==
  /\ told = Untold
  /\ told' = [wdl |-> [n \in DOMAIN g.moves |-> probe_wdl(n)], dtz |-> [n \in DOMAIN g.moves |-> probe_dtz(n)]]
  /\ UNCHANGED <<g, root, ext>>

AskRoot ==
  /\ told # Untold /\ root = NoRoot
  /\ \E n \in DOMAIN g.moves, c \in 0 .. Fifty - 1, rule50 \in BOOLEAN, rep \in BOOLEAN :
       \E repeats \in {{}} \cup (IF rep THEN {{i} : i \in DOMAIN g.moves[n]} ELSE {}) :
         /\ \A i \in repeats : ~Zeroing(g.moves[n][i])
         /\ root' = [node |-> n, cnt50 |-> c, repeats |-> repeats, rep |-> rep, rule50 |-> rule50]
  /\ UNCHANGED <<g, told, ext>>

(* A line is extended for a root whose game has repeated nothing.           *)
Extend ==
  /\ root # NoRoot /\ ext = NoExt /\ Complete /\ Exact /\ ~root.rep
  /\ ext' = [NoExt EXCEPT !.step = "root", !.line = <<root.node>>, !.c = root.cnt50]
  /\ UNCHANGED <<g, told, root>>

TbNext == ProbeAll \/ AskRoot \/ Extend \/ FirstMove \/ VerifyMove \/ EndOfLine \/ ExtendMove \/ TimeAbort

-----------------------------------------------------------------------------
(* Whatever the generator left in the positions it does not care for,       *)
(* whichever side the DTZ tables hold and however they store it, a probe    *)
(* either fails, which it does only when a table is missing, or tells the   *)
(* value of the position: the exact class, and the distance to one ply, to  *)
(* the ply where it is stored in plies (search, probe_dtz, map_score).      *)
ProbesAreTrue ==
  told # Untold /\ root = NoRoot =>
  \A n \in DOMAIN g.moves :
    LET v == g.truth[n]
        wdl == told.wdl[n]
        dtz == told.dtz[n]
        dist == IF v.sign = -1 THEN -Max({v.dist, 1}) ELSE v.sign * v.dist
        slack == IF v.sign = 0 \/ (Exact /\ WdlOf(v) \in {-2, 2}) THEN 0 ELSE 1
    IN  /\ Complete => FAIL \notin {wdl.res, dtz.res}
        /\ wdl.res # FAIL => wdl.v = WdlOf(v)
        /\ dtz.res # FAIL => SignOf(dtz.v) = v.sign /\ Abs(dtz.v - dist) <= slack

(* The result of root move i when the game is played out, and the class the *)
(* tables alone give it.                                                    *)
ResultOf(r, i) ==
  LET m == g.moves[r.node][i]
  IN IF i \in r.repeats THEN 0
     ELSE IF r.rule50 THEN -Outcome(m.to, IF Zeroing(m) THEN 0 ELSE r.cnt50 + 1)
     ELSE -g.truth[m.to].sign
ClassOf(r, i) ==
  LET m == g.moves[r.node][i]
  IN IF ~Zeroing(m) /\ MoveDraws(r, i) THEN 0 ELSE -WdlOf(g.truth[m.to])

(* Ranked by the DTZ tables, a root move is shown as won exactly when it    *)
(* wins the game with the counter where it is, as lost exactly when it      *)
(* loses, and the first move has the best result there is; ranked by the    *)
(* WDL tables the first move is of the best class, and the search goes on   *)
(* probing only to win. Tables that fail, or the clock, leave no rank       *)
(* behind (root_probe, root_probe_wdl, rank_root_moves).                    *)
RankingKeepsTheResult ==
  root # NoRoot /\ ext = NoExt /\ g.moves[root.node] # << >> =>
  \A abort \in Aborts, rankDTZ \in BOOLEAN :
    LET ranked == rank_root_moves(root, Listed(root.node), rankDTZ, abort)
        first == ranked.moves[1]
        moves == DOMAIN g.moves[root.node]
    IN  /\ Complete /\ abort > Len(g.moves[root.node]) => ranked.inTB /\ ranked.dtz
        /\ \A i \in moves : \E k \in moves : ranked.moves[k].move = i
        /\ ~ranked.inTB => \A k \in moves : ranked.moves[k].rank = 0
        /\ ranked.inTB /\ ranked.dtz /\ Exact =>
             /\ \A i \in moves : ResultOf(root, first.move) >= ResultOf(root, i)
             /\ \A k \in moves : LET score == ranked.moves[k].score
                                  IN  (IF Decisive(score) THEN SignOf(score) ELSE 0)
                                        = ResultOf(root, ranked.moves[k].move)
        /\ ranked.inTB /\ ~ranked.dtz =>
             /\ \A i \in moves : ClassOf(root, first.move) >= ClassOf(root, i)
             /\ ranked.cardinality > 0 <=> ClassOf(root, first.move) > 0

(* The result at the end of the line is the one its root move has.          *)
ResultAt(k, c) ==
  LET n == ext.line[k]
  IN  (IF root.rule50 THEN Outcome(n, c) ELSE g.truth[n].sign) * (IF g.side[n] = 0 THEN 1 ELSE -1)
KeepsTheResult ==
  ResultAt(Len(ext.line), ext.c) =
    -ResultOf(root, CHOOSE i \in DOMAIN g.moves[root.node] : g.moves[root.node][i].to = ext.line[2])
      * (IF g.side[ext.line[2]] = 0 THEN 1 ELSE -1)

(* As far as a line was compared with the tables it keeps the result its    *)
(* root move had, and never draws a decided game: step 1 stops before the   *)
(* move that would, and step 2 adds none. All of it was compared unless the *)
(* time ran out, and then it ends in the mate unless it is full, not in a   *)
(* draw, which its score would be turned into (syzygy_extend_pv).           *)
ExtensionIsSound ==
  ext.step \in {"verify", "extend", "done"} =>
    /\ ext.verified = Len(ext.line) => KeepsTheResult /\ ResultAt(Len(ext.line), ext.c) # 0
    /\ ~ext.late => ext.verified = Len(ext.line)
    /\ ext.step = "done" /\ ~ext.late =>
         (IsMate(Tip) \/ Len(ext.line) - 1 >= MaxLine) /\ ~is_draw(ext, 0)

VerdictsAreTrue == ProbesAreTrue /\ RankingKeepsTheResult /\ ExtensionIsSound

(* What syzygy_extend_pv says of the line it shows: the searched moves are  *)
(* kept for as long as they are verified to maintain the outcome of the     *)
(* game, and a line that could not be validated in time is not shown. A     *)
(* ranking that the clock cuts short verifies nothing and keeps the moves.  *)
ShownLineKeepsTheResult == ext.step = "done" => KeepsTheResult
=============================================================================
