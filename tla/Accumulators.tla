---------------------------- MODULE Accumulators ----------------------------
(***************************************************************************)
(* The first layer of the network, kept up to date move by move            *)
(* (src/src/engine/nnue/nnue_accumulator.cpp and the feature sets of       *)
(* nnue/features).  An accumulator is the sum of one weight row per active *)
(* feature; it is modelled by the rows in it, each with how many times it  *)
(* was added less how many times it was taken away, as a function from     *)
(* <<weight table, row>> to the integers other than zero.                  *)
(***************************************************************************)
EXTENDS MoveGen

CONSTANT MIN_PC_COUNT_HYBRID

PSQ == 1       \* rows of the piece-square weights
THREAT == 2    \* rows of the threat and pawn-pair weights

\* Sums of rows: {} is the bias vector alone.
Nothing == << >>
At(v, f) == IF f \in DOMAIN v THEN v[f] ELSE 0
AddRow(v, f, n) ==
    LET total == At(v, f) + n
    IN  [g \in (DOMAIN v \cup {f}) \ (IF total = 0 THEN {f} ELSE {}) |-> IF g = f THEN total ELSE v[g]]
Plus(v, w) == [f \in {f \in DOMAIN v \cup DOMAIN w : At(v, f) + At(w, f) # 0} |-> At(v, f) + At(w, f)]
Minus(v, w) == [f \in {f \in DOMAIN v \cup DOMAIN w : At(v, f) # At(w, f)} |-> At(v, f) - At(w, f)]
AddRows(v, S, n) == FoldSet(LAMBDA f, a : AddRow(a, f, n), v, S)

\* The board turned for a perspective: ranks for black, files by the king.
Turn(perspective, mirror, s) ==
    8 * (IF perspective = WHITE THEN rank_of(s) ELSE 7 - rank_of(s))
    + (IF mirror THEN 7 - file_of(s) ELSE file_of(s))

-----------------------------------------------------------------------------
(* Piece-square features: K32Q2.                                           *)
PS_NB == 11 * 64
PieceSquareIndex(perspective, pc) ==
    64 * IF type_of(pc) = KING THEN 10
         ELSE 2 * (type_of(pc) - 1) + (IF color_of(pc) = perspective THEN 0 ELSE 1)

KingBucket(perspective, ksq) ==
    LET k == Turn(perspective, FALSE, ksq)
    IN  2 * PS_NB * (4 * (7 - rank_of(k)) + (IF file_of(k) < 4 THEN file_of(k) ELSE 7 - file_of(k)))

PsqIndex(perspective, s, pc, ksq, opponentHasQueen) ==
    <<PSQ, Turn(perspective, file_of(ksq) < 4, s) + PieceSquareIndex(perspective, pc)
           + KingBucket(perspective, ksq) + (IF opponentHasQueen THEN PS_NB ELSE 0)>>

requires_refresh(dp, perspective) ==
    LET queen == make_piece(Opp(perspective), QUEEN)
    IN  \/ dp.pc = make_piece(perspective, KING)
        \/ dp.remove_sq # SQ_NONE /\ dp.remove_pc = queen
        \/ dp.add_sq # SQ_NONE /\ dp.add_pc = queen

\* What one move takes out and puts in.
PsqRemoved(dp, row(_, _)) ==
    {row(dp.from, dp.pc)} \cup (IF dp.remove_sq = SQ_NONE THEN {} ELSE {row(dp.remove_sq, dp.remove_pc)})
PsqAdded(dp, row(_, _)) ==
    (IF dp.to = SQ_NONE THEN {} ELSE {row(dp.to, dp.pc)})
    \cup (IF dp.add_sq = SQ_NONE THEN {} ELSE {row(dp.add_sq, dp.add_pc)})

-----------------------------------------------------------------------------
(* Threat features: FullThreats.  A pair of like pieces that attack each   *)
(* other counts once.                                                      *)
ThreatDimensions == 59808
numValidTargets == <<4, 10, 8, 8, 10, 0>>
ThreatMap == << <<-1, 0, -1, 1, -1, -1>>, <<0, 1, 2, 3, 4, -1>>, <<0, 1, 2, 3, -1, -1>>,
                <<0, 1, 2, 3, -1, -1>>, <<0, 1, 2, 3, 4, -1>>, <<-1, -1, -1, -1, -1, -1>> >>

ForwardAttacks(pt, from, c) == IF pt = PAWN THEN PawnAttacks[c][from] ELSE PseudoAttacks[pt][from]

\* How many attacks of the type start before a square.
Offsets == [pt \in PieceTypes |->
    LET sum[s \in 0 .. 64] ==
          IF s = 0 THEN 0
          ELSE sum[s - 1] + (IF pt = PAWN /\ rank_of(s - 1) \notin 1 .. 6 THEN 0
                             ELSE Cardinality(ForwardAttacks(pt, s - 1, WHITE)))
    IN  sum]

PairOffset(attacker, attacked) ==      \* oriented: own pieces are white
    LET at == type_of(attacker)
        per == Offsets[at][64]
        before(pc) == numValidTargets[type_of(pc)] * Offsets[type_of(pc)][64]
        earlier == {pc \in {make_piece(c, pt) : c \in Colors, pt \in PieceTypes} : pc < attacker}
    IN  MapThenSumSet(before, earlier)
        + (color_of(attacked) * (numValidTargets[at] \div 2) + ThreatMap[at][type_of(attacked)]) * per

lut1 == [a \in {make_piece(c, pt) : c \in Colors, pt \in PieceTypes} |->
            [b \in {make_piece(c, pt) : c \in Colors, pt \in PieceTypes} |-> PairOffset(a, b)]]

lut2 == [pt \in PieceTypes |-> [from \in SQUARES |-> [to \in SQUARES |->
    Offsets[pt][from]
    + Cardinality({t \in ForwardAttacks(pt, from, IF to < from THEN BLACK ELSE WHITE) : t < to})]]]

\* The row of a threat, or none: like pieces are named from one end only.
ThreatRows(perspective, attacker, from, attacked, to, ksq) ==
    LET turn(s) == Turn(perspective, file_of(ksq) >= 4, s)
        own(pc) == IF perspective = WHITE THEN pc ELSE make_piece(Opp(color_of(pc)), type_of(pc))
        at == type_of(attacker)
        enemy == color_of(attacker) # color_of(attacked)
        semi == at = type_of(attacked) /\ (enemy \/ at # PAWN)
    IN  IF ThreatMap[at][type_of(attacked)] < 0 \/ (semi /\ turn(from) < turn(to)) THEN {}
        ELSE {<<THREAT, lut1[own(attacker)][own(attacked)] + lut2[at][turn(from)][turn(to)]>>}

ActiveThreats(p, perspective) ==
    LET b == p.board
        ksq == square(p, perspective)
        targets(pt) == CASE pt = PAWN -> OfTypes(b, {KNIGHT, ROOK})
                         [] pt \in {BISHOP, ROOK} -> OfTypes(b, {PAWN, KNIGHT, BISHOP, ROOK})
                         [] OTHER -> OfTypes(b, PieceTypes \ {KING})
        reach(s) == IF type_of(b[s]) = PAWN THEN PawnAttacks[color_of(b[s])][s]
                    ELSE attacks_bb(type_of(b[s]), s, DOMAIN b)
        from == {s \in DOMAIN b : type_of(b[s]) # KING}
    IN  UNION UNION {{ThreatRows(perspective, b[s], s, b[t], t, ksq) :
                        t \in reach(s) \cap targets(type_of(b[s]))} : s \in from}

\* The dirty threats of a move, added with sign n for those that it added.
AddThreats(v, dts, perspective, ksq, n) ==
    LET one(d, a) == AddRows(a, ThreatRows(perspective, d[1], d[2], d[3], d[4], ksq),
                             IF d[5] THEN n ELSE -n)
    IN  FoldLeft(LAMBDA a, scan : FoldSet(one, a, scan), v, dts)

-----------------------------------------------------------------------------
(* Pawn-pair features: PP_3Wide, after the threats in the same table.      *)
PairRow(perspective, c1, s1, c2, s2, ksq) ==
    LET id(c, s) == 48 * (IF c = perspective THEN 0 ELSE 1) + Turn(perspective, file_of(ksq) >= 4, s) - 8
        hi == Max({id(c1, s1), id(c2, s2)})
        lo == Min({id(c1, s1), id(c2, s2)})
    IN  <<THREAT, (hi * (hi - 1)) \div 2 + lo + ThreatDimensions>>

\* The pairs with a pawn of `updated` in them; pawns[c] are all of them.
PairsWith(pawns, updated, perspective, ksq) ==
    LET all == pawns[WHITE] \cup pawns[BLACK]
        colour(s) == IF s \in pawns[BLACK] THEN BLACK ELSE WHITE
    IN  UNION {{PairRow(perspective, colour(a), a, colour(b), b, ksq) :
                  b \in {b \in PawnPairBB[a] \cap all : b \in updated => b > a}} : a \in updated}

ActivePairs(p, perspective) ==
    LET pawns == PawnsOf(p.board)
    IN  PairsWith(pawns, pawns[WHITE] \cup pawns[BLACK], perspective, square(p, perspective))

AddPairs(v, dpp, perspective, ksq, n) ==
    LET new(x, y) == UNION {x[c] \ y[c] : c \in Colors}
        added == PairsWith(dpp.after, new(dpp.after, dpp.before), perspective, ksq)
        removed == PairsWith(dpp.before, new(dpp.before, dpp.after), perspective, ksq)
    IN  AddRows(AddRows(v, added, n), removed, -n)

-----------------------------------------------------------------------------
(* The stack.  acc.slots keeps what a popped slot held: push clears only   *)
(* its flags and its lists.  cache is indexed [queen][king][perspective].  *)
NoPiece == [pc |-> NO_PIECE, from |-> 0, to |-> 0, remove_sq |-> 0, add_sq |-> 0,
            remove_pc |-> NO_PIECE, add_pc |-> NO_PIECE]
NoPawns == [before |-> [c \in Colors |-> {}], after |-> [c \in Colors |-> {}]]
EmptySlot == [dirtyPiece |-> NoPiece, dirtyThreats |-> << >>, dirtyPawnPairs |-> NoPawns,
              computed |-> [c \in Colors |-> FALSE], sum |-> [c \in Colors |-> Nothing]]

ResetStack == [slots |-> <<EmptySlot>>, size |-> 1]

\* Entries never filled are absent: no pieces, the bias vector alone.
ClearCache == << >>
EntryOf(cache, e) == IF e \in DOMAIN cache THEN cache[e] ELSE [pieces |-> << >>, sum |-> Nothing]

Latest(acc) == acc.slots[acc.size]

\* push, and the dirties that do_move then writes over the slot's old ones.
PushStack(acc, d) ==
    LET old == IF acc.size < Len(acc.slots) THEN acc.slots[acc.size + 1] ELSE EmptySlot
        slot == [old EXCEPT !.computed = [c \in Colors |-> FALSE],
                            !.dirtyPiece = d.dirtyPiece @@ @,
                            !.dirtyThreats = d.dirtyThreats, !.dirtyPawnPairs = d.dirtyPawnPairs]
    IN  [slots |-> SubSeq(acc.slots, 1, acc.size) \o <<slot>>
                   \o SubSeq(acc.slots, acc.size + 2, Len(acc.slots)),
         size |-> acc.size + 1]

PopStack(acc) == [acc EXCEPT !.size = @ - 1]

\* The deepest slot that is computed, or that a refresh must not go behind.
find_last_usable(acc, perspective) ==
    Max({1} \cup {i \in 2 .. acc.size : acc.slots[i].computed[perspective]
                                        \/ requires_refresh(acc.slots[i].dirtyPiece, perspective)})

\* slot i from its neighbour: n = 1 forward from i - 1, n = -1 backward from
\* i + 1.  ksq and q are those of the current position.
Incremental(acc, perspective, i, n, ksq, q) ==
    LET source == acc.slots[i - n]
        d == IF n = 1 THEN acc.slots[i] ELSE source
        row(s, pc) == PsqIndex(perspective, s, pc, ksq, q)
        psqSum == AddRows(AddRows(source.sum[perspective], PsqAdded(d.dirtyPiece, row), n),
                          PsqRemoved(d.dirtyPiece, row), -n)
        thrSum == AddThreats(psqSum, d.dirtyThreats, perspective, ksq, n)
    IN  [acc EXCEPT !.slots[i].sum[perspective] = AddPairs(thrSum, d.dirtyPawnPairs, perspective, ksq, n),
                    !.slots[i].computed[perspective] = TRUE]

HasQueen(p, c) == pieces_by(p, c, {QUEEN}) # {}

Forward(acc, perspective, p, begin) ==
    LET ksq == square(p, perspective)
        q == HasQueen(p, Opp(perspective))
    IN  FoldLeft(LAMBDA a, i : Incremental(a, perspective, i, 1, ksq, q), acc,
                 [k \in 1 .. acc.size - begin |-> begin + k])

Backward(acc, perspective, p, end) ==
    LET ksq == square(p, perspective)
        q == HasQueen(p, Opp(perspective))
    IN  FoldLeft(LAMBDA a, i : Incremental(a, perspective, i, -1, ksq, q), acc,
                 [k \in 1 .. acc.size - end |-> acc.size - k])

\* Both sides at once: the one that lags catches up, then they go together.
ForwardBoth(acc, p, begin) ==
    LET ksq == [c \in Colors |-> square(p, c)]
        q == [c \in Colors |-> HasQueen(p, Opp(c))]
        shared == Max({begin[WHITE], begin[BLACK]})
        step(a, c, i) == Incremental(a, c, i, 1, ksq[c], q[c])
        caught(a, c) == FoldLeft(LAMBDA x, i : step(x, c, i), a,
                                 [k \in 1 .. shared - begin[c] |-> begin[c] + k])
    IN  FoldLeft(LAMBDA x, i : step(step(x, WHITE, i), BLACK, i), caught(caught(acc, WHITE), BLACK),
                 [k \in 1 .. acc.size - shared |-> shared + k])

\* Where two boards differ.
get_changed_pieces(old, new) == {s \in DOMAIN old \cup DOMAIN new : piece_at(old, s) # piece_at(new, s)}

\* The entry of a king square, brought from its own pieces to those of b.
Refreshed(entry, b, perspective, ksq, q) ==
    LET row(s, pc) == PsqIndex(perspective, s, pc, ksq, q)
        changed == get_changed_pieces(entry.pieces, b)
        gone == {row(s, entry.pieces[s]) : s \in changed \cap DOMAIN entry.pieces}
        come == {row(s, b[s]) : s \in changed \cap DOMAIN b}
    IN  [pieces |-> b, sum |-> AddRows(AddRows(entry.sum, gone, -1), come, 1)]

SetLatest(acc, perspective, v) ==
    [acc EXCEPT !.slots[acc.size].sum[perspective] = v, !.slots[acc.size].computed[perspective] = TRUE]

refresh_cache(w, perspective, p) ==
    LET q == HasQueen(p, Opp(perspective))
        ksq == square(p, perspective)
        entry == Refreshed(EntryOf(w.cache, <<q, ksq, perspective>>), p.board, perspective, ksq, q)
        rows == ActiveThreats(p, perspective) \cup ActivePairs(p, perspective)
    IN  [acc |-> SetLatest(w.acc, perspective, AddRows(entry.sum, rows, 1)),
         cache |-> (<<q, ksq, perspective>> :> entry) @@ w.cache]

\* After a king step inside its half: the piece rows come from the two
\* entries, the other rows from the slot before.
hybrid(w, perspective, p) ==
    LET dp == Latest(w.acc).dirtyPiece
        q == HasQueen(p, Opp(perspective))
        before == With(Without(p.board, dp.to), dp.from, make_piece(perspective, KING))
        previous == IF dp.remove_sq = SQ_NONE THEN before ELSE With(before, dp.to, dp.remove_pc)
        oldEntry == EntryOf(w.cache, <<q, dp.from, perspective>>)
        newEntry == Refreshed(EntryOf(w.cache, <<q, dp.to, perspective>>), p.board, perspective, dp.to, q)
        oldNow == Refreshed(oldEntry, previous, perspective, dp.from, q)
        from == w.acc.slots[w.acc.size - 1].sum[perspective]
        psqSum == Minus(Plus(newEntry.sum, from), oldNow.sum)
        thrSum == AddThreats(psqSum, Latest(w.acc).dirtyThreats, perspective, dp.to, 1)
    IN  [acc |-> SetLatest(w.acc, perspective,
                           AddPairs(thrSum, Latest(w.acc).dirtyPawnPairs, perspective, dp.to, 1)),
         cache |-> (<<q, dp.to, perspective>> :> newEntry) @@ w.cache]

\* Mutant: the king may cross to the mirrored half.
HybridAcrossHalves(w, perspective, p) ==
    LET dp == Latest(w.acc).dirtyPiece
    IN  /\ dp.pc = make_piece(perspective, KING)
        /\ dp.remove_pc # make_piece(Opp(perspective), QUEEN)
        /\ w.acc.slots[w.acc.size - 1].computed[perspective]
        /\ Cardinality(pieces(p)) >= MIN_PC_COUNT_HYBRID
        /\ dp.add_sq = SQ_NONE

UseHybrid(w, perspective, p) ==
    LET dp == Latest(w.acc).dirtyPiece
    IN  /\ dp.pc = make_piece(perspective, KING)
        /\ dp.remove_pc # make_piece(Opp(perspective), QUEEN)
        /\ w.acc.slots[w.acc.size - 1].computed[perspective]
        /\ Cardinality(pieces(p)) >= MIN_PC_COUNT_HYBRID
        /\ (file_of(dp.from) < 4) = (file_of(dp.to) < 4)
        /\ dp.add_sq = SQ_NONE

evaluate_side(w, perspective, p, last) ==
    IF w.acc.slots[last].computed[perspective]
    THEN [w EXCEPT !.acc = Forward(w.acc, perspective, p, last)]
    ELSE IF UseHybrid(w, perspective, p) THEN hybrid(w, perspective, p)
    ELSE LET r == refresh_cache(w, perspective, p)
         IN  [r EXCEPT !.acc = Backward(r.acc, perspective, p, last)]

\* evaluate: the stack and the cache (w) after an evaluation of p.
Evaluate(w, p) ==
    LET white == find_last_usable(w.acc, WHITE)
        black == find_last_usable(w.acc, BLACK)
    IN  IF w.acc.slots[white].computed[WHITE] /\ w.acc.slots[black].computed[BLACK]
        THEN [w EXCEPT !.acc = ForwardBoth(w.acc, p, [c \in Colors |-> IF c = WHITE THEN white ELSE black])]
        ELSE evaluate_side(evaluate_side(w, WHITE, p, white), BLACK, p, black)
=============================================================================
