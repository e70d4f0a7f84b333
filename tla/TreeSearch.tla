----------------------------- MODULE TreeSearch -----------------------------
(***************************************************************************)
(* The search below the root: search() and qsearch() of                    *)
(* src/src/engine/search.cpp as a machine with an explicit call stack, one *)
(* frame per running call and one pc per place where a call waits for the  *)
(* search it made.  The arithmetic of the prunings and reductions is the   *)
(* code's; the chess is a small abstract game (positions, captures, checks,*)
(* null moves, tablebase results), and what the histories hold is an input *)
(* of the game.                                                            *)
(***************************************************************************)
EXTENDS TTMath, Sequences, FiniteSets, SequencesExt

CONSTANTS
  Games,      \* sequence of games, see WellPosed below for the fields of one
  MaxMoves,   \* MAX_MOVES, the size of the move lists and of the table below
  reductions, \* the logarithms late moves are reduced by, a table made at start
  Horizon,    \* the longest forced line of any game, in plies
  Counts      \* the fifty-move counts the games can reach

VARIABLES
  game,       \* which game is searched
  G,          \* and what that game is
  line,       \* the StateInfo list of Position, the root's first
  acc,        \* size of the accumulator stack
  ss,         \* the Stack entries, by ply; two sentinels before the root
  stack,      \* the running calls, the root's first
  ret,        \* what the last call returned, and what it had been asked
  tt,         \* the table: an entry, or Empty, for each position
  depths,     \* iterations still to search
  nodes,      \* the node counter, modulo 16
  nmpMinPly,  \* the ply below which the null move is disabled
  stop        \* stopFlag

treeVars == <<game, G, line, acc, ss, stack, ret, tt, depths, nodes, nmpMinPly, stop>>

(* A game: its root and the root's fifty-move count; the moves of every     *)
(* position (to, value of the captured piece or 0, exchange value, history),*)
(* captures first; the positions in check; where a null move leads; the     *)
(* static evaluation; the tablebase result or NoTable; the positions whose  *)
(* mover has more than pawns; whether the search seeks a mate, the line it  *)
(* shows, the iterations and the window.                                    *)
Library   == Games        \* (named, so that TLC evaluates it once)
Pos       == DOMAIN G.moves
Info(p, m) == CHOOSE i \in ToSet(G.moves[p]) : i.to = m
Legal(p)  == { i.to : i \in ToSet(G.moves[p]) }
InCheck(p) == p \in G.check
NoMove  == "none"
NullMove == "null"
NoTable == 9

(* A window is open and inside the values; every iteration searches a ply   *)
(* at least, and the line it looks for exists.                              *)
WellPosed(g) ==
  LET all == DOMAIN g.moves IN
  /\ g.root \in all /\ g.rule50 \in Nat /\ NoMove \notin all /\ NullMove \notin all
  /\ \A p \in all : /\ g.moves[p] \in Seq([to : all, cap : Nat, see : Int, hist : Int])
                     /\ Len(g.moves[p]) + 1 < MaxMoves
  /\ \A p \in DOMAIN g.null : g.null[p] \in all
  /\ g.eval \in [all -> Int] /\ g.wdl \in [all -> Int] /\ g.correction \in Int
  /\ g.pvIdx \in Nat /\ g.pvIdx < Len(g.moves[g.root])
  /\ g.depths \in Seq(Nat \ {0}) /\ g.depths # << >>
  /\ g.window \in Int \X Int
  /\ -ValueInfinite <= g.window[1] /\ g.window[1] < g.window[2] /\ g.window[2] <= ValueInfinite

ASSUME GamesAssumption == \A k \in DOMAIN Games : WellPosed(Games[k])
ASSUME ReductionsAssumption ==
  MaxMoves \in Nat /\ MaxPly + 2 <= MaxMoves /\ reductions \in [0 .. MaxMoves - 1 -> Nat]

DepthQS == 0
DepthUnsearched == -2
DepthNone == -3

Min2(a, b) == IF a < b THEN a ELSE b
Max2(a, b) == IF a > b THEN a ELSE b
Abs2(a)    == IF a < 0 THEN -a ELSE a
Quot2(a, b) == IF a < 0 THEN -((-a) \div b) ELSE a \div b   \* C++ division
Bit(b)     == IF b THEN 1 ELSE 0

MatedIn(ply) == ply - ValueMate
MateIn(ply)  == ValueMate - ply
value_draw   == IF (nodes \div 2) % 2 = 1 THEN 1 ELSE -1

Corrected(v) == Min2(Max2(v + Quot2(G.correction, 131072), 1 - TBWinInMaxPly), TBWinInMaxPly - 1)

-----------------------------------------------------------------------------
(* The position: the list of states do_move and undo_move keep.             *)
Here == Last(line)
Past(d) == line[Len(line) - d].pos

DoMove(m, capture) ==
  Append(line, [pos |-> m, rule50 |-> IF capture THEN 0 ELSE Here.rule50 + 1,
                fromNull |-> Here.fromNull + 1])
NullLine == Append(line, [pos |-> G.null[Here.pos], rule50 |-> Here.rule50, fromNull |-> 0])

Reversible == Min2(Min2(Here.rule50, Here.fromNull), Len(line) - 1)

upcoming_repetition(ply) ==
  \E d \in 3 .. Reversible : d % 2 = 1 /\ ply > d
     /\ \E i \in ToSet(G.moves[Here.pos]) : i.cap = 0 /\ i.to = Past(d)

is_draw(ply) ==
  \/ Here.rule50 > 99 /\ (~InCheck(Here.pos) \/ Legal(Here.pos) # {})
  \/ \E d \in 4 .. Reversible : d % 2 = 0 /\ d < ply /\ Past(d) = Here.pos

-----------------------------------------------------------------------------
(* The table: one entry for a position; TTEntry::save keeps the more        *)
(* valuable of two entries of the same search.                              *)
Empty == [hit |-> FALSE, move |-> NoMove, value |-> ValueNone, depth |-> DepthNone,
          bound |-> BoundNone, pv |-> FALSE, eval |-> ValueNone]

Save(e, v, pv, b, d, m, ev) ==
  LET kept == [e EXCEPT !.move = IF m # NoMove \/ ~e.hit THEN m ELSE @]
  IN  IF b = BoundExact \/ ~e.hit \/ d + 2 * Bit(pv) > e.depth - 4
      THEN [hit |-> TRUE, move |-> kept.move, value |-> v, depth |-> d, bound |-> b, pv |-> pv, eval |-> ev]
      ELSE IF e.depth >= 5 /\ e.bound # BoundExact /\ Abs2(e.value) < ValueInfinite /\ IsDecisive(e.value)
      THEN [kept EXCEPT !.depth = @ - 1]
      ELSE kept

Write(v, pv, b, d, m, ev) == [tt EXCEPT ![Here.pos] = Save(tt[Here.pos], v, pv, b, d, m, ev)]

Weakened(e, n) == IF e.depth - n <= DepthNone THEN Empty ELSE [e EXCEPT !.depth = e.depth - n]
Penalize(n)    == [tt EXCEPT ![Here.pos] = Weakened(tt[Here.pos], n)]

-----------------------------------------------------------------------------
(* Frames.                                                                  *)
Frame(kind, type, ply, alpha, beta, depth, cut) ==
  [pc |-> "enter", kind |-> kind, type |-> type, ply |-> ply, alpha |-> alpha, beta |-> beta,
   asked |-> <<alpha, beta>>, depth |-> depth, cut |-> cut, excl |-> NoMove, tt |-> Empty,
   uns |-> ValueNone, eval |-> ValueNone, improving |-> FALSE, worsening |-> FALSE,
   best |-> -ValueInfinite, max |-> ValueInfinite, bestMove |-> NoMove, queue |-> {},
   m |-> NoMove, mc |-> 0, skip |-> FALSE, ext |-> 0, newDepth |-> 0, d |-> 0, r |-> 0,
   aim |-> 0, value |-> 0, base |-> 0]

f == Last(stack)
At(kind, pc) == stack # << >> /\ f.kind = kind /\ f.pc = pc
PvNode   == f.type # "NonPV"
rootNode == f.type = "Root"
allNode  == ~PvNode /\ ~f.cut
S(i)     == ss[f.ply + i]
ttCapture == f.tt.move # NoMove /\ Info(Here.pos, f.tt.move).cap > 0

Become(g)  == stack' = Append(Front(stack), g)
(* The call answers v for the position `at`: the one it was asked about.    *)
ReturnFor(v, at) ==
  /\ stack' = Front(stack)
  /\ ret' = [v |-> v, alpha |-> f.asked[1], beta |-> f.asked[2], pos |-> at.pos, rule50 |-> at.rule50,
             ply |-> f.ply, partial |-> f.excl # NoMove \/ (rootNode /\ G.pvIdx > 0)]
Return(v) == ReturnFor(v, Here)
(* The frame g waits at pc for the search that child describes.             *)
Await(g, pc, child) == stack' = Append(Append(Front(stack), [g EXCEPT !.pc = pc]), child)

Search(type, ply, alpha, beta, depth, cut) == Frame("search", type, ply, alpha, beta, depth, cut)
QSearch(type, ply, alpha, beta)            == Frame("qsearch", type, ply, alpha, beta, 0, FALSE)

board == <<line, acc>>
still == <<game, G, depths>>

(* do_move: the position, the accumulators, the node counter and the Stack  *)
(* entry together.                                                          *)
MakeMove(m) ==
  /\ line' = DoMove(m, Info(Here.pos, m).cap > 0)
  /\ acc' = acc + 1
  /\ nodes' = (nodes + 1) % 16

(* undo_move.                                                               *)
(* Mutant: the accumulator stack is left as it is.                          *)
UndoMoveOnly == line' = Front(line) /\ UNCHANGED acc

UndoMove == line' = Front(line) /\ acc' = acc - 1

(* The picker: the table's move has rank 0, the captures and then the quiet *)
(* moves their place in the list.  Of the ranks left the lowest is next.    *)
Ranks(first, taken) ==
  { k \in taken : G.moves[Here.pos][k].to # first } \cup (IF first = NoMove THEN {} ELSE {0})
Ranked(k) == IF k = 0 THEN f.tt.move ELSE G.moves[Here.pos][k].to
Lowest    == { k \in f.queue : \A j \in f.queue : k <= j }

-----------------------------------------------------------------------------
(* Entry of search(): dive, depth limit, upcoming repetition, stop, draw    *)
(* and mate distance pruning (steps 1 to 3).                                *)
Dive ==
  /\ At("search", "enter") /\ f.depth <= 0
  /\ Become([f EXCEPT !.kind = "qsearch", !.type = IF PvNode THEN "PV" ELSE @])
  /\ UNCHANGED <<still, board, ss, ret, tt, nodes, nmpMinPly, stop>>

Bounded(a, b) == IF rootNode THEN <<a, b>> ELSE <<Max2(MatedIn(f.ply), a), Min2(MateIn(f.ply + 1), b)>>

Enter ==
  /\ At("search", "enter") /\ f.depth > 0
  /\ LET draws == ~rootNode /\ f.alpha < 0 /\ upcoming_repetition(f.ply)
         a == IF draws THEN value_draw ELSE f.alpha
         w == Bounded(a, f.beta)
         follow == \/ rootNode
                   \/ /\ S(-1).follow /\ f.ply <= Len(G.lastPV)
                      /\ S(-1).move = G.lastPV[f.ply]
         ready == [ss EXCEPT ![f.ply].inCheck = InCheck(Here.pos), ![f.ply].follow = follow]
     IN  IF draws /\ a >= f.beta THEN Return(a) /\ UNCHANGED ss
         ELSE IF ~rootNode /\ (stop \/ is_draw(f.ply) \/ f.ply >= MaxPly)
         THEN /\ Return(IF f.ply >= MaxPly /\ ~InCheck(Here.pos) THEN G.eval[Here.pos] ELSE value_draw)
              /\ ss' = ready
         ELSE IF w[1] >= w[2] THEN Return(w[1]) /\ ss' = ready
         ELSE /\ Become([f EXCEPT !.pc = "probe", !.depth = Min2(@, MaxPly - 1),
                                  !.alpha = w[1], !.beta = w[2], !.r = S(-1).reduction])
              /\ ss' = [ready EXCEPT ![f.ply - 1].reduction = 0, ![f.ply + 2].cutoffs = 0,
                                     ![f.ply + 1].nmpHigh = 0]
              /\ UNCHANGED ret
  /\ UNCHANGED <<still, board, tt, nodes, nmpMinPly, stop>>

(* Steps 4 and 5: the table, the static evaluation, and the hindsight       *)
(* adjustment of the parent's reduction.                                    *)
TableRead(p, ply) ==
  LET e == tt[p] IN [e EXCEPT !.value = IF e.hit THEN ValueFromTT(@, ply, Here.rule50) ELSE ValueNone]

Hindsight(depth, prior, static) ==
  LET up == depth + Bit(prior >= 3 /\ ~(static > -S(-1).static))
  IN  up - Bit(prior >= 2 /\ up >= 2 /\ static + S(-1).static > 166)

Probe ==
  /\ At("search", "probe")
  /\ LET excl  == S(0).excluded
         read  == TableRead(Here.pos, f.ply)
         entry == [read EXCEPT !.move = IF rootNode THEN G.moves[Here.pos][G.pvIdx + 1].to ELSE @]
         ttPv  == IF excl # NoMove THEN S(0).ttPv ELSE PvNode \/ (entry.hit /\ entry.pv)
         check == InCheck(Here.pos)
         uns   == IF check THEN ValueNone
                  ELSE IF excl # NoMove THEN S(0).static
                  ELSE IF entry.hit /\ IsValid(entry.eval) THEN entry.eval ELSE G.eval[Here.pos]
         static == IF check THEN S(-2).static
                   ELSE IF excl # NoMove THEN S(0).static ELSE Corrected(uns)
         eval  == IF ~check /\ excl = NoMove /\ entry.hit /\ IsValid(entry.value)
                     /\ Covers(entry.bound, entry.value > static) THEN entry.value ELSE static
     IN  /\ ss' = [ss EXCEPT ![f.ply].ttPv = ttPv, ![f.ply].static = static]
         /\ Become([f EXCEPT !.pc = "cutoff", !.excl = excl, !.tt = entry, !.uns = uns, !.eval = eval,
                             !.improving = static > S(-2).static, !.worsening = static > -S(-1).static,
                             !.depth = Hindsight(@, f.r, static)])
         /\ tt' = IF check \/ excl # NoMove \/ entry.hit THEN tt
                  ELSE Write(ValueNone, ttPv, BoundNone, DepthUnsearched, NoMove, uns)
  /\ UNCHANGED <<still, board, ret, nodes, nmpMinPly, stop>>

(* Step 6: a cutoff from the table at a node off the principal variation.   *)
(* The table's move is tried one ply deep before a shallow claim is used.   *)
Cutoff ==
  /\ At("search", "cutoff")
  /\ LET v == f.tt.value
         high == v >= f.beta
         deep == ~PvNode /\ f.excl = NoMove /\ IsValid(v) /\ f.tt.depth > f.depth - Bit(v <= f.beta)
         cuts == deep /\ Covers(f.tt.bound, high) /\ (f.cut = high \/ f.depth > 4)
         looks == f.depth >= 7 /\ f.tt.move # NoMove /\ ~IsDecisive(v)
         next == tt[f.tt.move].value
     IN  \/ /\ cuts /\ Here.rule50 < 96
            /\ looks => ~IsValid(next) \/ high = (-next >= f.beta)
            /\ Return(v) /\ UNCHANGED tt
         \/ /\ ~(cuts /\ Here.rule50 < 96 /\ (looks => ~IsValid(next) \/ high = (-next >= f.beta)))
            /\ Become([f EXCEPT !.pc = "tables"])
            /\ tt' = IF deep /\ ~cuts /\ f.depth > 5 THEN Penalize(1) ELSE tt
            /\ UNCHANGED ret
  /\ UNCHANGED <<still, board, ss, nodes, nmpMinPly, stop>>

(* Step 7: the tablebases, right after a capture.                           *)
Tables ==
  /\ At("search", "tables")
  /\ LET wdl == G.wdl[Here.pos]
         edge == Bit(G.rule50Counts)
         tbValue == ValueTB - f.ply
         v == IF wdl < -edge THEN -tbValue ELSE IF wdl > edge THEN tbValue ELSE 2 * wdl * edge
         b == IF wdl < -edge THEN BoundUpper ELSE IF wdl > edge THEN BoundLower ELSE BoundExact
         probed == ~rootNode /\ f.excl = NoMove /\ wdl # NoTable /\ Here.rule50 = 0
         settled == b = BoundExact \/ (b = BoundLower /\ v >= f.beta) \/ (b = BoundUpper /\ v <= f.alpha)
     IN  \/ /\ probed /\ settled
            /\ tt' = Write(ValueToTT(v, f.ply), S(0).ttPv, b, Min2(MaxPly - 1, f.depth + 6), NoMove, ValueNone)
            /\ Return(v)
         \/ /\ probed /\ ~settled /\ PvNode
            /\ Become(IF b = BoundLower THEN [f EXCEPT !.pc = "prune", !.best = v, !.alpha = Max2(@, v)]
                                        ELSE [f EXCEPT !.pc = "prune", !.max = v])
            /\ UNCHANGED <<ret, tt>>
         \/ /\ ~probed \/ (~settled /\ ~PvNode)
            /\ Become([f EXCEPT !.pc = "prune"])
            /\ UNCHANGED <<ret, tt>>
  /\ UNCHANGED <<still, board, ss, nodes, nmpMinPly, stop>>

(* Steps 8 and 9: razoring into qsearch, and futility.                      *)
FutilityMargin ==
  LET mult == Min2(45 + f.depth * 4, 85) - 20 * Bit(~f.tt.hit)
  IN  mult * f.depth - (((2789 * Bit(f.improving) + 335 * Bit(f.worsening)) * mult) \div 1024)
        + Abs2(G.correction) \div 198435

Futile ==
  /\ ~S(0).ttPv /\ f.depth < (IF G.seekMate THEN 6 ELSE 19) /\ f.eval >= f.beta
  /\ f.tt.move = NoMove \/ ttCapture
  /\ ~IsLoss(f.beta) /\ ~IsWin(f.eval)
  /\ f.eval - FutilityMargin >= f.beta

Prune ==
  /\ At("search", "prune")
  /\ LET razor == allNode /\ f.eval < f.alpha - 342 * f.depth /\ ~G.seekMate
     IN  \/ S(0).inCheck /\ Become([f EXCEPT !.pc = "small"]) /\ UNCHANGED ret
         \/ /\ ~S(0).inCheck /\ razor
            /\ Become([f EXCEPT !.kind = "qsearch", !.pc = "enter"]) /\ UNCHANGED ret
         \/ ~S(0).inCheck /\ ~razor /\ Futile /\ Return(Quot2(661 * f.beta + 363 * f.eval, 1024))
         \/ ~S(0).inCheck /\ ~razor /\ ~Futile /\ Become([f EXCEPT !.pc = "null"]) /\ UNCHANGED ret
  /\ UNCHANGED <<still, board, ss, tt, nodes, nmpMinPly, stop>>

(* Step 10: the null move, searched on a reduced depth, and at high depths  *)
(* verified by a search of the node itself without null moves.              *)
NullReduction ==
  LET R == 7 + f.depth \div 3 + Max2((S(0).static - f.beta) \div 256, 0)
  IN  R - Bit(G.seekMate) * (R \div 2)

NullAllowed ==
  /\ f.cut /\ f.excl = NoMove /\ Here.pos \in G.strong /\ f.ply >= nmpMinPly /\ f.beta >= -2000
  /\ S(0).static + 50 * S(0).nmpHigh >= f.beta - 13 * f.depth - 47 * Bit(f.improving) + 365
  /\ Here.pos \in DOMAIN G.null

(* Step 11, on the way to ProbCut: reductions for want of a table move.     *)
ToProbCut(g) ==
  [g EXCEPT !.pc = "probcut", !.improving = @ \/ S(0).static >= f.beta,
            !.depth = IF ~S(0).follow /\ ~allNode /\ @ >= 6 /\ f.tt.move = NoMove THEN @ - 1 ELSE @]

Null ==
  /\ At("search", "null")
  /\ \/ /\ NullAllowed
        /\ line' = NullLine
        /\ ss' = [ss EXCEPT ![f.ply].move = NullMove]
        /\ Await(f, "nullBack", Search("NonPV", f.ply + 1, -f.beta, 1 - f.beta, f.depth - NullReduction, FALSE))
     \/ ~NullAllowed /\ Become(ToProbCut(f)) /\ UNCHANGED <<line, ss>>
  /\ UNCHANGED <<still, acc, ret, tt, nodes, nmpMinPly, stop>>

ProvenHigh(v) == v >= f.beta /\ ~IsWin(v)

NullBack ==
  /\ At("search", "nullBack")
  /\ line' = Front(line)
  /\ LET v == -ret.v
         verify == nmpMinPly = 0 /\ f.depth >= 16
         up == f.ply
     IN  \/ /\ ProvenHigh(v) /\ ~verify
            /\ ReturnFor(v, line[Len(line) - 1])
            /\ ss' = [ss EXCEPT ![up].nmpHigh = @ + 1]
            /\ UNCHANGED nmpMinPly
         \/ /\ ProvenHigh(v) /\ verify
            /\ nmpMinPly' = up + Quot2(3 * (f.depth - NullReduction), 4)
            /\ Await([f EXCEPT !.value = v], "verifyBack",
                     Search("NonPV", up, f.beta - 1, f.beta, f.depth - NullReduction, FALSE))
            /\ UNCHANGED <<ret, ss>>
         \/ ~ProvenHigh(v) /\ Become(ToProbCut(f)) /\ UNCHANGED <<ret, ss, nmpMinPly>>
  /\ UNCHANGED <<still, acc, tt, nodes, stop>>

VerifyBack ==
  /\ At("search", "verifyBack")
  /\ nmpMinPly' = 0
  /\ \/ ret.v >= f.beta /\ Return(f.value) /\ ss' = [ss EXCEPT ![f.ply].nmpHigh = @ + 1]
     \/ ret.v < f.beta /\ Become(ToProbCut(f)) /\ UNCHANGED <<ret, ss>>
  /\ UNCHANGED <<still, board, tt, nodes, stop>>

-----------------------------------------------------------------------------
(* Step 12: ProbCut. Captures that gain enough are tried against a raised   *)
(* beta, first by qsearch and then on a reduced depth.                      *)
ProbCutDepth == f.depth - (IF f.improving THEN 5 ELSE 3)

ProbCut ==
  /\ At("search", "probcut")
  /\ LET aim == f.beta + 241 - 64 * Bit(f.improving)
         tries == f.depth >= 3 /\ ~IsDecisive(f.beta) /\ ~(IsValid(f.tt.value) /\ f.tt.value < aim)
         good == { k \in DOMAIN G.moves[Here.pos] :
                     G.moves[Here.pos][k].cap > 0 /\ G.moves[Here.pos][k].see >= aim - S(0).static }
         first == IF ttCapture THEN f.tt.move ELSE NoMove
     IN  Become([f EXCEPT !.pc = IF tries THEN "probNext" ELSE "small", !.aim = aim,
                          !.queue = IF tries THEN Ranks(first, good) ELSE {}])
  /\ UNCHANGED <<still, board, ss, ret, tt, nodes, nmpMinPly, stop>>

ProbNext ==
  /\ At("search", "probNext")
  /\ IF f.queue = {} THEN Become([f EXCEPT !.pc = "small"]) /\ UNCHANGED <<board, nodes, ss>>
     ELSE \E k \in Lowest :
          LET m == Ranked(k)
              g == [f EXCEPT !.queue = f.queue \ {k}, !.m = m]
          IN  IF m = f.excl THEN Become(g) /\ UNCHANGED <<board, nodes, ss>>
              ELSE /\ MakeMove(m)
                   /\ ss' = [ss EXCEPT ![f.ply].move = m]
                   /\ Await(g, "probBack", QSearch("NonPV", f.ply + 1, -f.aim, 1 - f.aim))
  /\ UNCHANGED <<still, ret, tt, nmpMinPly, stop>>

(* Back from qsearch (pc probBack) or from the reduced search (probDeep).   *)
ProbBack ==
  /\ stack # << >> /\ f.kind = "search" /\ f.pc \in {"probBack", "probDeep"}
  /\ LET v == -ret.v
         held == v >= f.aim
         deepen == held /\ f.pc = "probBack" /\ ProbCutDepth > 0
         back == line[Len(line) - 1]
         saved == Save(tt[back.pos], ValueToTT(v, f.ply), S(0).ttPv, BoundLower, ProbCutDepth + 1, f.m, f.uns)
     IN  \/ /\ deepen
            /\ Await(f, "probDeep", Search("NonPV", f.ply + 1, -f.aim, 1 - f.aim, ProbCutDepth, ~f.cut))
            /\ UNCHANGED <<board, tt, ret>>
         \/ /\ held /\ ~deepen
            /\ UndoMove
            /\ tt' = [tt EXCEPT ![back.pos] = saved]
            /\ IF IsDecisive(v) THEN Become([f EXCEPT !.pc = "probNext"]) /\ UNCHANGED ret
               ELSE ReturnFor(v - (f.aim - f.beta), back)
         \/ ~held /\ UndoMove /\ Become([f EXCEPT !.pc = "probNext"]) /\ UNCHANGED <<tt, ret>>
  /\ UNCHANGED <<still, ss, nodes, nmpMinPly, stop>>

(* Step 13, and the start of the move loop: the moves in the picker's order *)
(* (at the root, those of the lines not yet found).                         *)
Small ==
  /\ At("search", "small")
  /\ LET aim == f.beta + 428
         cuts == /\ f.tt.bound \in {BoundLower, BoundExact} /\ f.tt.depth >= f.depth - 4
                 /\ f.tt.value >= aim /\ ~IsDecisive(f.beta) /\ IsValid(f.tt.value)
                 /\ ~IsDecisive(f.tt.value) /\ ~G.seekMate
         listed == { k \in DOMAIN G.moves[Here.pos] : ~rootNode \/ k > G.pvIdx }
     IN  \/ cuts /\ Return(aim)
         \/ /\ ~cuts /\ UNCHANGED ret
            /\ Become([f EXCEPT !.pc = "loop", !.value = f.best, !.queue = Ranks(f.tt.move, listed)])
  /\ UNCHANGED <<still, board, ss, tt, nodes, nmpMinPly, stop>>

-----------------------------------------------------------------------------
(* Steps 14 and 15: the next move, and the prunings at shallow depth, none  *)
(* of which may run before a move that is no loss has been found.           *)
reduction(improving, depth, mc) ==
  LET s == reductions[depth] * reductions[mc] IN s + Bit(~improving) * ((s * 197) \div 512) + 948

lmr_divisor(depth) == LET d == Min2(depth, 16) IN 3000 + 7 * (d - 8) * (d - 8)

SeeGE(i, t) == i.see >= t
QuietLimit  == (3 + f.depth * f.depth) \div (IF f.improving THEN 1 ELSE 2)

(* Mutant: prunes although every move so far loses.                         *)
PrunesEvenLosses == ~rootNode /\ Here.pos \in G.strong

PrunesHere == ~rootNode /\ Here.pos \in G.strong /\ ~IsLoss(f.best)

Shallow(r) == f.depth - 1 - Quot2(r, 1024)

PrunedNoisy(i, r) ==
  /\ i.cap > 0 \/ InCheck(i.to)
  /\ \/ ~InCheck(i.to) /\ Shallow(r) < 8 /\ S(0).static + 234 + 247 * Shallow(r) + i.cap <= f.alpha
     \/ f.alpha >= 0 /\ ~SeeGE(i, -177 * f.depth)

QuietDepth(i, r)    == Shallow(r) + Quot2(i.hist, lmr_divisor(f.depth))
QuietFutility(i, r) == S(0).static + 119 * QuietDepth(i, r) + 90 * Bit(S(0).static > f.alpha) + 164

IsQuiet(i) == i.cap = 0 /\ ~InCheck(i.to) /\ (~S(0).follow \/ ~PvNode)
PrunedByHistory(i)     == IsQuiet(i) /\ i.hist < -4136 * f.depth
PrunedByFutility(i, r) ==
  /\ IsQuiet(i) /\ ~PrunedByHistory(i)
  /\ ~S(0).inCheck /\ QuietDepth(i, r) < 12 /\ QuietFutility(i, r) <= f.alpha
PrunedByExchange(i, r) ==
  /\ IsQuiet(i) /\ ~PrunedByHistory(i) /\ ~PrunedByFutility(i, r)
  /\ LET d == Max2(QuietDepth(i, r), 0) IN ~SeeGE(i, -23 * d * d)

(* Futility may raise the best value, to a value that proves nothing.       *)
RaisedBest(i, r) ==
  LET v == QuietFutility(i, r)
  IN  IF PrunedByFutility(i, r) /\ f.best <= v /\ ~IsDecisive(f.best) /\ ~IsWin(v) THEN v ELSE f.best

(* Step 16: is the table's move the only good one?                          *)
Singular(m) ==
  /\ ~rootNode /\ m = f.tt.move /\ f.excl = NoMove /\ f.depth >= 6 + Bit(S(0).ttPv)
  /\ IsValid(f.tt.value) /\ ~IsDecisive(f.tt.value) /\ f.tt.bound \in {BoundLower, BoundExact}
  /\ f.tt.depth >= f.depth - 3 /\ ~G.seekMate

singularBeta == f.tt.value - Quot2((59 + 66 * Bit(S(0).ttPv /\ ~PvNode)) * f.depth, 63)

Loop ==
  /\ At("search", "loop")
  /\ IF f.queue = {} THEN Become([f EXCEPT !.pc = "finish"]) /\ UNCHANGED ss
     ELSE \E k \in Lowest :
     LET m == Ranked(k)
         i == Info(Here.pos, m)
         mc == f.mc + 1
         r == reduction(f.improving, f.depth, mc) - 512 * Bit(PvNode) + 929 * Bit(S(0).ttPv)
         skip == f.skip \/ (PrunesHere /\ mc >= QuietLimit)
         rest == [f EXCEPT !.queue = f.queue \ {k}]
         g == [rest EXCEPT !.m = m, !.mc = mc, !.r = r, !.skip = skip, !.ext = 0, !.newDepth = f.depth - 1]
         pruned == PrunesHere /\ (PrunedNoisy(i, r) \/ PrunedByHistory(i) \/ PrunedByFutility(i, r)
                                    \/ PrunedByExchange(i, r))
     IN  \/ /\ m = f.excl \/ (f.skip /\ i.cap = 0 /\ m # f.tt.move /\ ~S(0).inCheck)
            /\ Become(rest) /\ UNCHANGED ss
         \/ /\ ~(m = f.excl \/ (f.skip /\ i.cap = 0 /\ m # f.tt.move /\ ~S(0).inCheck))
            /\ \/ pruned /\ Become([g EXCEPT !.best = RaisedBest(i, r)]) /\ UNCHANGED ss
               \/ /\ ~pruned /\ Singular(m)
                  /\ ss' = [ss EXCEPT ![f.ply].excluded = m]
                  /\ Await([g EXCEPT !.aim = singularBeta], "singularBack",
                           Search("NonPV", f.ply, singularBeta - 1, singularBeta, (f.depth - 1) \div 2, f.cut))
               \/ ~pruned /\ ~Singular(m) /\ Become([g EXCEPT !.pc = "make"]) /\ UNCHANGED ss
  /\ UNCHANGED <<still, board, ret, tt, nodes, nmpMinPly, stop>>

SingularExtension(v) ==
  LET adj == Abs2(G.correction) \div 198368
      deep == Bit(f.ply > Head(depths))
      double == -2 + 204 * Bit(PvNode) - 152 * Bit(~ttCapture) - adj - deep * 38
      triple == 70 + 279 * Bit(PvNode) - 188 * Bit(~ttCapture) + 81 * Bit(S(0).ttPv) - adj - deep * 43
  IN  1 + Bit(v < f.aim - double) + Bit(v < f.aim - triple)

MultiCut(v) == v >= f.aim /\ v >= f.beta /\ ~IsDecisive(v)

SingularBack ==
  /\ At("search", "singularBack")
  /\ ss' = [ss EXCEPT ![f.ply].excluded = NoMove]
  /\ LET v == ret.v IN
       \/ v < f.aim /\ Become([f EXCEPT !.pc = "make", !.depth = @ + 1, !.ext = SingularExtension(v)]) /\ UNCHANGED ret
       \/ MultiCut(v) /\ Return(v)
       \/ /\ v >= f.aim /\ ~MultiCut(v)
          /\ Become([f EXCEPT !.pc = "make", !.ext = IF f.tt.value >= f.beta \/ f.cut THEN -3 ELSE 0])
          /\ UNCHANGED ret
  /\ UNCHANGED <<still, board, tt, nodes, nmpMinPly, stop>>

-----------------------------------------------------------------------------
(* Steps 17 to 20: the move is made and searched, on a reduced depth first  *)
(* when it comes late, on a null window unless it is the first of a PV node,*)
(* and on the whole window when it improves a PV node.                      *)
ReducedByTable ==
  f.r - Bit(S(0).ttPv) * (3023 + Bit(PvNode) * 1004 + Bit(f.tt.value > f.alpha) * 885
                           + Bit(f.tt.depth >= f.depth) * (816 + Bit(f.cut) * 940))
ReducedByNode ==
  ReducedByTable + 697 - f.mc * 65 - Abs2(G.correction) \div 26310
    + Bit(f.cut) * (4026 + 933 * Bit(f.tt.move = NoMove)) + 1079 * Bit(ttCapture)
ReducedByReplies ==
  IF S(1).cutoffs > 1 THEN ReducedByNode + 264 + 1095 * Bit(S(1).cutoffs > 2) + 1138 * Bit(allNode)
  ELSE IF f.m = f.tt.move THEN ReducedByNode - 2179 ELSE ReducedByNode
ReducedByHistory(i) ==
  ReducedByReplies - Quot2(i.hist * 439, 4096)
    + IF i.cap = 0 /\ ~IsDecisive(f.alpha) THEN 3 * Min2(Max2(f.alpha - f.eval, -64), 96) ELSE 0
ReducedByType(i) ==
  LET d == ReducedByHistory(i) IN IF allNode THEN d + Quot2(d * 276, 256 * f.depth + 268) ELSE d

Reduced(i) ==
  LET e == ReducedByType(i)
  IN  IF G.seekMate /\ e > 0 THEN e + Quot2(IF InCheck(i.to) THEN -e ELSE e, 4) ELSE e

(* The principal search of step 20.                                         *)
PvDepth(g) ==
  IF /\ g.m = g.tt.move
     /\ \/ IsValid(g.tt.value) /\ IsDecisive(g.tt.value) /\ g.tt.depth > 0
        \/ g.tt.depth > 1
  THEN Max2(g.newDepth, 1) ELSE g.newDepth

PvChild(g) == Search("PV", g.ply + 1, -g.beta, -g.alpha, PvDepth(g), FALSE)

(* Step 17 lowers the depth of a late move by the reduction, never below a  *)
(* ply; the searches of steps 17, 18 and 20 are the late move's, the null   *)
(* window one and the whole one.                                            *)
Late == f.depth >= 2 /\ f.mc > 1
ReductionOf(i) == Reduced(i) + Bit(f.tt.move = NoMove /\ ~Late) * 1127
LmrDepth(newDepth, r) ==
  Max2(1, newDepth + Min2(Quot2(-r, 1024), IF f.ply < 2 * Head(depths) THEN 2 ELSE 0)) + Bit(PvNode)

ZeroDepth(g) == g.newDepth - Bit(g.r > 5234) - Bit(g.r > 5487 /\ g.newDepth > 2)

SearchMove(g, moved) ==
  \/ /\ Late
     /\ ss' = [moved EXCEPT ![f.ply].reduction = g.newDepth - g.d]
     /\ Await(g, "lmrBack", Search("NonPV", f.ply + 1, -f.alpha - 1, -f.alpha, g.d, TRUE))
  \/ /\ ~Late /\ (~PvNode \/ f.mc > 1)
     /\ ss' = moved
     /\ Await(g, "zeroBack", Search("NonPV", f.ply + 1, -f.alpha - 1, -f.alpha, ZeroDepth(g), ~f.cut))
  \/ ~Late /\ PvNode /\ f.mc = 1 /\ ss' = moved /\ Await(g, "pvBack", PvChild(g))

Make ==
  /\ At("search", "make")
  /\ MakeMove(f.m)
  /\ LET r == ReductionOf(Info(Here.pos, f.m))
         newDepth == f.newDepth + f.ext
     IN  SearchMove([f EXCEPT !.newDepth = newDepth, !.d = LmrDepth(newDepth, r), !.r = r],
                    [ss EXCEPT ![f.ply].move = f.m])
  /\ UNCHANGED <<still, ret, tt, nmpMinPly, stop>>

LmrBack ==
  /\ At("search", "lmrBack")
  /\ ss' = [ss EXCEPT ![f.ply].reduction = 0]
  /\ LET v == -ret.v
         newDepth == f.newDepth + Bit(f.d < f.newDepth /\ v > f.best + 53) - Bit(v < f.best + 8)
         g == [f EXCEPT !.newDepth = newDepth, !.value = v]
     IN  \/ /\ v > f.alpha /\ newDepth > f.d
            /\ Await(g, "zeroBack", Search("NonPV", f.ply + 1, -f.alpha - 1, -f.alpha, newDepth, ~f.cut))
         \/ v > f.alpha /\ newDepth <= f.d /\ Become([g EXCEPT !.pc = "value"])
         \/ v <= f.alpha /\ Become([f EXCEPT !.pc = "value", !.value = v])
  /\ UNCHANGED <<still, board, ret, tt, nodes, nmpMinPly, stop>>

ZeroBack ==
  /\ At("search", "zeroBack")
  /\ Become([f EXCEPT !.pc = "value", !.value = -ret.v])
  /\ UNCHANGED <<still, board, ss, ret, tt, nodes, nmpMinPly, stop>>

PvSearch ==
  /\ At("search", "value") /\ PvNode /\ (f.mc = 1 \/ f.value > f.alpha)
  /\ Await(f, "pvBack", PvChild(f))
  /\ UNCHANGED <<still, board, ss, ret, tt, nodes, nmpMinPly, stop>>

-----------------------------------------------------------------------------
(* Steps 21 and 22: undo, leave after a stop, and take the value.           *)
Inc(v) == Bit(v = f.best /\ f.ply + 2 >= Head(depths) /\ nodes \in {0, 1} /\ ~IsWin(Abs2(v) + 1))

Taken(v) ==
  LET more == v + Inc(v) > f.alpha /\ v + Inc(v) > f.best
      less == f.depth > 3 /\ f.depth < 12 /\ ~IsDecisive(v)
  IN  IF v + Inc(v) <= f.best THEN [f EXCEPT !.pc = "loop"]
      ELSE IF ~more THEN [f EXCEPT !.pc = "loop", !.best = v]
      ELSE IF v >= f.beta THEN [f EXCEPT !.pc = "finish", !.best = v, !.bestMove = f.m]
      ELSE [f EXCEPT !.pc = "loop", !.best = v, !.bestMove = f.m, !.alpha = v,
                     !.depth = IF less THEN @ - 3 ELSE @]

TakeValue ==
  /\ \/ At("search", "value") /\ ~(PvNode /\ (f.mc = 1 \/ f.value > f.alpha))
     \/ At("search", "pvBack")
  /\ LET v == IF f.pc = "pvBack" THEN -ret.v ELSE f.value
         back == line[Len(line) - 1]
     IN  /\ UndoMove
         /\ IF stop
            THEN ReturnFor(0, back) /\ UNCHANGED ss
            ELSE /\ Become(Taken(v))
                 /\ ss' = IF v + Inc(v) > f.best /\ v >= f.beta
                          THEN [ss EXCEPT ![f.ply].cutoffs = @ + Bit(f.ext < 2 \/ PvNode)] ELSE ss
                 /\ UNCHANGED ret
  /\ UNCHANGED <<still, tt, nodes, nmpMinPly, stop>>

(* Steps 23 and 24: mate and stalemate, the softened fail high, and what    *)
(* the table is told.                                                       *)
FinalValue ==
  LET soft == IF f.best >= f.beta /\ ~IsDecisive(f.best) /\ ~IsDecisive(f.alpha)
              THEN Quot2(f.best * f.depth + f.beta, f.depth + 1) ELSE f.best
      ended == IF f.mc > 0 THEN soft
               ELSE IF f.excl # NoMove THEN f.alpha ELSE IF S(0).inCheck THEN MatedIn(f.ply) ELSE 0
  IN  IF PvNode THEN Min2(ended, f.max) ELSE ended

Stored == f.excl = NoMove /\ ~(rootNode /\ G.pvIdx > 0)

BoundFor(v) == IF v >= f.beta THEN BoundLower
               ELSE IF PvNode /\ f.bestMove # NoMove THEN BoundExact ELSE BoundUpper

Finish ==
  /\ At("search", "finish")
  /\ LET v == FinalValue
         ttPv == S(0).ttPv \/ (v <= f.alpha /\ S(-1).ttPv)
     IN  /\ ss' = [ss EXCEPT ![f.ply].ttPv = ttPv]
         /\ tt' = IF ~Stored THEN tt
                  ELSE Write(ValueToTT(v, f.ply), ttPv, BoundFor(v),
                             IF f.mc # 0 THEN f.depth ELSE Min2(MaxPly - 1, f.depth + 6), f.bestMove, f.uns)
         /\ Return(v)
  /\ UNCHANGED <<still, board, nodes, nmpMinPly, stop>>

-----------------------------------------------------------------------------
(* qsearch: draws, the table and standing pat, then the captures, or every  *)
(* evasion when in check.                                                   *)
QStand(entry, uns) ==
  LET static == Corrected(uns)
  IN  IF entry.hit /\ IsValid(entry.value) /\ ~IsDecisive(entry.value)
         /\ Covers(entry.bound, entry.value > static) THEN entry.value ELSE static

QEnter ==
  /\ At("qsearch", "enter")
  /\ LET draws == f.alpha < 0 /\ upcoming_repetition(f.ply)
         a == IF draws THEN value_draw ELSE f.alpha
         check == InCheck(Here.pos)
         entry == TableRead(Here.pos, f.ply)
         cuts == /\ ~PvNode /\ entry.depth >= DepthQS /\ IsValid(entry.value)
                 /\ Covers(entry.bound, entry.value >= f.beta)
         uns == IF check THEN ValueNone
                ELSE IF entry.hit /\ IsValid(entry.eval) THEN entry.eval ELSE G.eval[Here.pos]
         stand == IF check THEN -ValueInfinite ELSE QStand(entry, uns)
         taken == { k \in DOMAIN G.moves[Here.pos] : check \/ G.moves[Here.pos][k].cap > 0 }
         ready == [f EXCEPT !.pc = "qloop", !.alpha = Max2(a, stand), !.tt = entry, !.uns = uns,
                            !.best = stand, !.bestMove = NoMove, !.mc = 0,
                            !.base = IF check THEN -ValueInfinite ELSE Corrected(uns) + 306,
                            !.queue = Ranks(entry.move, taken)]
         seen == [ss EXCEPT ![f.ply].inCheck = check]
     IN  IF draws /\ a >= f.beta THEN Return(a) /\ UNCHANGED <<ss, tt>>
         ELSE IF is_draw(f.ply) \/ f.ply >= MaxPly
         THEN /\ Return(IF f.ply >= MaxPly /\ ~check THEN G.eval[Here.pos] ELSE 0)
              /\ ss' = seen /\ UNCHANGED tt
         ELSE IF cuts THEN Return(entry.value) /\ ss' = seen /\ UNCHANGED tt
         ELSE /\ ss' = IF check THEN seen ELSE [seen EXCEPT ![f.ply].static = Corrected(uns)]
              /\ IF stand >= f.beta
                 THEN /\ Return(Quot2(441 * stand + 583 * f.beta, 1024))
                      /\ tt' = IF entry.hit THEN tt
                               ELSE Write(ValueNone, FALSE, BoundLower, DepthUnsearched, NoMove, uns)
                 ELSE Become(ready) /\ UNCHANGED <<ret, tt>>
  /\ UNCHANGED <<still, board, nodes, nmpMinPly, stop>>

(* Step 6 of qsearch: [skips, best] for the next move. A pruned move may    *)
(* raise the best value up to what it could have gained.                    *)
QPrune(i, mc) ==
  LET quiet == ~InCheck(i.to) /\ i.to # S(-1).move /\ ~IsLoss(f.base)
      gain == f.base + i.cap
      kept == [skips |-> i.cap = 0 \/ ~SeeGE(i, -74), best |-> f.best]
  IN  IF IsLoss(f.best) THEN [skips |-> FALSE, best |-> f.best]
      ELSE IF ~quiet \/ (mc <= 2 /\ gain > f.alpha /\ SeeGE(i, f.alpha - f.base)) THEN kept
      ELSE [skips |-> TRUE,
            best  |-> IF mc > 2 THEN f.best ELSE Max2(f.best, IF gain <= f.alpha THEN gain ELSE Min2(f.alpha, f.base))]

QLoop ==
  /\ At("qsearch", "qloop")
  /\ IF f.queue = {} THEN Become([f EXCEPT !.pc = "qfinish"]) /\ UNCHANGED <<board, nodes, ss>>
     ELSE \E k \in Lowest :
          LET m == Ranked(k)
              p == QPrune(Info(Here.pos, m), f.mc + 1)
              g == [f EXCEPT !.queue = f.queue \ {k}, !.m = m, !.mc = f.mc + 1, !.best = p.best]
          IN  IF p.skips THEN Become(g) /\ UNCHANGED <<board, nodes, ss>>
              ELSE /\ MakeMove(m)
                   /\ ss' = [ss EXCEPT ![f.ply].move = m]
                   /\ Await(g, "qback", QSearch(f.type, f.ply + 1, -f.beta, -f.alpha))
  /\ UNCHANGED <<still, ret, tt, nmpMinPly, stop>>

QBack ==
  /\ At("qsearch", "qback")
  /\ UndoMove
  /\ LET v == -ret.v
         better == v > f.best
         raises == better /\ v > f.alpha
     IN  Become([f EXCEPT !.best = IF better THEN v ELSE @,
                          !.bestMove = IF raises THEN f.m ELSE @,
                          !.alpha = IF raises /\ v < f.beta THEN v ELSE @,
                          !.pc = IF raises /\ v >= f.beta THEN "qfinish" ELSE "qloop"])
  /\ UNCHANGED <<still, ss, ret, tt, nodes, nmpMinPly, stop>>

QFinish ==
  /\ At("qsearch", "qfinish")
  /\ LET stale == ~S(0).inCheck /\ Here.pos \in G.bare /\ Legal(Here.pos) = {}
         best == IF f.mc = 0 /\ stale THEN 0 ELSE f.best
         v == IF ~IsDecisive(best) /\ best > f.beta THEN Quot2(462 * best + 562 * f.beta, 1024) ELSE best
     IN  IF f.mc = 0 /\ S(0).inCheck THEN Return(MatedIn(f.ply)) /\ UNCHANGED tt
         ELSE /\ Return(v)
              /\ tt' = Write(ValueToTT(v, f.ply), f.tt.hit /\ f.tt.pv,
                             IF v >= f.beta THEN BoundLower ELSE BoundUpper, DepthQS, f.bestMove, f.uns)
  /\ UNCHANGED <<still, board, ss, nodes, nmpMinPly, stop>>

-----------------------------------------------------------------------------
(* The iterations, and the stop that another thread or the clock may raise  *)
(* between any two steps.                                                   *)
RootFrame(depth) == Search("Root", 0, G.window[1], G.window[2], depth, FALSE)

Start(g) == [pos |-> g.root, rule50 |-> g.rule50, fromNull |-> g.rule50]

TreeInit ==
  /\ game \in DOMAIN Library
  /\ G = Library[game]
  /\ line = <<Start(G)>>
  /\ acc = 1
  /\ ss = [p \in -2 .. MaxPly + 2 |-> [static |-> IF p < 0 THEN ValueNone ELSE 0, inCheck |-> FALSE,
             excluded |-> NoMove, move |-> NoMove, ttPv |-> FALSE, reduction |-> 0, nmpHigh |-> 0,
             cutoffs |-> 0, follow |-> FALSE]]
  /\ ret = [v |-> 0, alpha |-> -ValueInfinite, beta |-> ValueInfinite, pos |-> G.root, rule50 |-> 0,
            ply |-> 0, partial |-> TRUE]
  /\ tt = [p \in Pos |-> Empty]
  /\ depths = G.depths
  /\ stack = <<RootFrame(Head(G.depths))>>
  /\ nodes = 0
  /\ nmpMinPly = 0
  /\ stop = FALSE

NextIteration ==
  /\ stack = << >> /\ Len(depths) > 1 /\ ~stop
  /\ depths' = Tail(depths)
  /\ stack' = <<RootFrame(depths[2])>>
  /\ UNCHANGED <<game, G, board, ss, ret, tt, nodes, nmpMinPly, stop>>

RaiseStop ==
  /\ G.mayStop /\ stack # << >> /\ ~stop
  /\ stop' = TRUE
  /\ UNCHANGED <<still, board, ss, stack, ret, tt, nodes, nmpMinPly>>

SearchStep ==
  \/ Dive \/ Enter \/ Probe \/ Cutoff \/ Tables \/ Prune
  \/ Null \/ NullBack \/ VerifyBack \/ ProbCut \/ ProbNext \/ ProbBack \/ Small
  \/ Loop \/ SingularBack \/ Make \/ LmrBack \/ ZeroBack \/ PvSearch \/ TakeValue \/ Finish
  \/ QEnter \/ QLoop \/ QBack \/ QFinish

TreeNext == SearchStep \/ NextIteration \/ RaiseStop

TreeSpec == TreeInit /\ [][TreeNext]_treeVars

-----------------------------------------------------------------------------
(* What is true of the game itself, whatever the search does: who forces a  *)
(* mate, or a tablebase result, within n plies from a position whose        *)
(* fifty-move count is c.  A drawn position ends the play.                  *)
Drawn(g, s) == s[2] > 99 /\ (s[1] \notin g.check \/ g.moves[s[1]] # << >>)
States(g) == { s \in (DOMAIN g.moves) \X Counts : ~Drawn(g, s) }
After(s, i) == <<i.to, IF i.cap > 0 THEN 0 ELSE s[2] + 1>>

(* The states won and lost within 0, 1, ... Horizon plies, when those of    *)
(* ends are decided already.                                                *)
Forced(g, ends) ==
  LET all == States(g)
      Longer(found, k) ==
        LET before == Last(found)
            doomed(s) == \A i \in ToSet(g.moves[s[1]]) : After(s, i) \in before.won
        IN  Append(found,
              [won  |-> ends.won \cup { s \in all : \E i \in ToSet(g.moves[s[1]]) : After(s, i) \in before.lost },
               lost |-> ends.lost \cup { s \in all : g.moves[s[1]] # << >> /\ doomed(s) }])
  IN  FoldLeft(Longer, <<ends>>, [k \in 1 .. Horizon |-> k])

MatesOf(g) ==
  Forced(g, [won |-> {}, lost |-> { s \in States(g) : g.moves[s[1]] = << >> /\ s[1] \in g.check }])

(* A tablebase win may also end in a mate, however far.                     *)
Tabled(g, s, sign) == /\ s[2] = 0 /\ g.wdl[s[1]] # NoTable
                      /\ sign * g.wdl[s[1]] > Bit(g.rule50Counts)
TablesOf(g) ==
  LET mates == Last(MatesOf(g))
  IN  Forced(g, [won  |-> mates.won \cup { s \in States(g) : Tabled(g, s, 1) },
                 lost |-> mates.lost \cup { s \in States(g) : Tabled(g, s, -1) }])

Mates      == [k \in 1 .. Len(Library) |-> MatesOf(Library[k])]
Tablebases == [k \in 1 .. Len(Library) |-> TablesOf(Library[k])]

Truth(tables) == (IF tables THEN Tablebases ELSE Mates)[game]

Within(v, tables, ply) == (IF tables THEN ValueTB ELSE ValueMate) - v - ply

(* A win (a loss) of v, counted from the root of a node at that ply.        *)
WinIsTrue(v, ply, s) ==
  LET n == Within(v, ~IsMate(v), ply) IN n >= 0 /\ s \in Truth(~IsMate(v))[Min2(n, Horizon) + 1].won
LossIsTrue(v, ply, s) ==
  LET n == Within(-v, ~IsMated(v), ply) IN n >= 0 /\ s \in Truth(~IsMated(v))[Min2(n, Horizon) + 1].lost

(* What a call returns above alpha, and what the table holds as a lower     *)
(* bound, is a forced win within the plies it says if it is a mate or a     *)
(* tablebase win, and dually below beta: no pruning, no null move, no       *)
(* reduction, no draw of the path and no stop in the middle of a search     *)
(* ever makes up a mate (search.cpp, every is_win, is_loss and is_decisive  *)
(* guard; value_to_tt and value_from_tt).  No call returns an infinite      *)
(* value.                                                                   *)
ProvenScores ==
  /\ -ValueInfinite < ret.v /\ ret.v < ValueInfinite
  /\ ~ret.partial =>
       /\ IsWin(ret.v) /\ ret.v > ret.alpha => WinIsTrue(ret.v, ret.ply, <<ret.pos, ret.rule50>>)
       /\ IsLoss(ret.v) /\ ret.v < ret.beta => LossIsTrue(ret.v, ret.ply, <<ret.pos, ret.rule50>>)
  /\ \A p \in Pos : LET e == tt[p] IN e.hit /\ IsValid(e.value) =>
       /\ IsWin(e.value) /\ e.bound \in {BoundLower, BoundExact} => WinIsTrue(e.value, 0, <<p, 0>>)
       /\ IsLoss(e.value) /\ e.bound \in {BoundUpper, BoundExact} => LossIsTrue(e.value, 0, <<p, 0>>)

(* The calls on the stack and the position agree: every move a call waits   *)
(* for leads one ply on, the top call works on the position they lead to,   *)
(* and the accumulators count the real moves among them.  A null move never *)
(* answers a null move, one verification runs at a time and the ply below   *)
(* which null moves rest is forgotten after it, and no search with an       *)
(* excluded move starts another at its node.  The windows stay open, null   *)
(* ones a point wide, and the best value of the move loop never passes      *)
(* alpha.  No ply, depth or move number leaves the tables it indexes        *)
(* (search.cpp, the asserts of search and the comment of step 22).          *)
Waiting(g) == g.pc \notin {"singularBack", "verifyBack"}
Frames     == DOMAIN stack

CallsAgreeWithBoard ==
  /\ stack[1].ply = 0
  /\ \A k \in Frames : k + 1 \in Frames => stack[k + 1].ply = stack[k].ply + Bit(Waiting(stack[k]))
  /\ Len(line) = f.ply + 1 + Bit(f.pc \in {"lmrBack", "zeroBack", "pvBack", "qback", "probBack",
                                           "probDeep", "nullBack", "value"})
  /\ acc = Len(line) - Cardinality({ k \in Frames : stack[k].pc = "nullBack" })

NoCallIsNested ==
  /\ \A k \in Frames : k + 1 \in Frames /\ stack[k].pc = "nullBack" => stack[k + 1].pc # "nullBack"
  /\ \A j, k \in Frames :
       /\ stack[j].pc = "verifyBack" /\ stack[k].pc = "verifyBack" => j = k
       /\ stack[j].pc = "singularBack" /\ stack[k].pc = "singularBack" => j = k \/ stack[j].ply # stack[k].ply
  /\ nmpMinPly # 0 => \E k \in Frames : stack[k].pc = "verifyBack"

WindowsAreOpen ==
  \A k \in Frames :
    /\ stack[k].alpha < stack[k].beta
    /\ IF stack[k].type = "NonPV" THEN stack[k].alpha = stack[k].beta - 1 ELSE ~stack[k].cut
    /\ stack[k].kind = "search" /\ stack[k].pc \notin {"enter", "finish"} => stack[k].best <= stack[k].alpha

TablesAreNotOverrun ==
  \A k \in Frames :
    /\ stack[k].ply <= MaxPly
    /\ stack[k].kind = "search" /\ stack[k].pc # "enter" =>
         stack[k].depth \in 1 .. MaxMoves - 1 /\ stack[k].mc < MaxMoves

SearchIsBalanced ==
  IF stack = << >> THEN Len(line) = 1 /\ acc = 1 /\ nmpMinPly = 0
  ELSE CallsAgreeWithBoard /\ NoCallIsNested /\ WindowsAreOpen /\ TablesAreNotOverrun
=============================================================================
