----------------------------- MODULE Position -----------------------------
(***************************************************************************)
(* A position and the operations on it (src/src/engine/position.h,         *)
(* position.cpp).  A position is a record:                                 *)
(*   board              the occupied squares, each with its piece          *)
(*   sideToMove, gamePly, chess960                                         *)
(*   castlingRightsMask, castlingRookSquare, castlingPath                  *)
(*   sts                the chain of StateInfo, oldest first; the last     *)
(*                      one is *st and the one before it st->previous      *)
(* byTypeBB, byColorBB and pieceCount are read off the board: put_piece,   *)
(* remove_piece and move_piece are the only writers of the four.  A hash   *)
(* key is the set of the Zobrist elements xor-ed into it, which is the     *)
(* code's key with no two sets sharing one.                                *)
(***************************************************************************)
EXTENDS Attacks

PieceValue == [pt \in PAWN .. KING |->
    CASE pt = PAWN -> 208 [] pt = KNIGHT -> 781 [] pt = BISHOP -> 825
      [] pt = ROOK -> 1276 [] pt = QUEEN -> 2538 [] OTHER -> 0]

\* ---- moves ----------------------------------------------------------------
NORMAL == 0
PROMOTION == 1
EN_PASSANT == 2
CASTLING == 3
Move(f, t) == [from |-> f, to |-> t, type |-> NORMAL, promo |-> KNIGHT]
MakeMove(type, f, t, pt) == [from |-> f, to |-> t, type |-> type, promo |-> pt]

\* ---- castling rights ------------------------------------------------------
WHITE_OO == 1
WHITE_OOO == 2
BLACK_OO == 4
BLACK_OOO == 8
ANY_CASTLING == {WHITE_OO, WHITE_OOO, BLACK_OO, BLACK_OOO}
KingSide(c) == IF c = WHITE THEN WHITE_OO ELSE BLACK_OO
QueenSide(c) == IF c = WHITE THEN WHITE_OOO ELSE BLACK_OOO
RightColor(cr) == IF cr \in {WHITE_OO, WHITE_OOO} THEN WHITE ELSE BLACK
KingTo(c, kingSide) == relative_square(c, IF kingSide THEN 6 ELSE 2)
RookTo(c, kingSide) == relative_square(c, IF kingSide THEN 5 ELSE 3)

\* ---- Zobrist keys ---------------------------------------------------------
psq(pc, s) == IF pc = NO_PIECE \/ (type_of(pc) = PAWN /\ relative_rank(color_of(pc), s) = 7)
              THEN {} ELSE {<<pc, s>>}
enpassant(s) == {<<16, file_of(s)>>}
castling(rights) == {<<17, SumSet(rights)>>}
side == {<<18, 0>>}
noPawns == {<<19, 0>>}
XorAll(S) == FoldSet(Toggle, {}, S)

\* ---- what is where --------------------------------------------------------
st(p) == Last(p.sts)
piece_at(b, s) == IF s \in DOMAIN b THEN b[s] ELSE NO_PIECE
piece_on(p, s) == piece_at(p.board, s)
pieces(p) == DOMAIN p.board
pieces_of(p, c) == {s \in DOMAIN p.board : color_of(p.board[s]) = c}
OfTypes(b, pts) == {s \in DOMAIN b : type_of(b[s]) \in pts}
pieces_by(p, c, pts) == pieces_of(p, c) \cap OfTypes(p.board, pts)
count(p, pc) == Cardinality({s \in DOMAIN p.board : p.board[s] = pc})
square(p, c) == CHOOSE s \in DOMAIN p.board : p.board[s] = make_piece(c, KING)
castling_impeded(p, cr) == pieces(p) \cap p.castlingPath[cr] # {}

attackers_on(b, s, occupied) ==
       (sliding_attack(ROOK, s, occupied) \cap OfTypes(b, {ROOK, QUEEN}))
  \cup (sliding_attack(BISHOP, s, occupied) \cap OfTypes(b, {BISHOP, QUEEN}))
  \cup UNION {{t \in PawnAttacks[Opp(c)][s] : piece_at(b, t) = make_piece(c, PAWN)} : c \in Colors}
  \cup UNION {PseudoAttacks[pt][s] \cap OfTypes(b, {pt}) : pt \in {KNIGHT, KING}}

attackers_to(p, s, occupied) == attackers_on(p.board, s, occupied)

xattacks_by(p, pt, c, occupied) ==
    UNION {IF pt = PAWN THEN PawnAttacks[c][s] ELSE attacks_bb(pt, s, occupied) :
             s \in pieces_by(p, c, {pt})}

compute_threats(p) ==
    LET occ == pieces(p) \ {square(p, p.sideToMove)}
    IN  UNION {xattacks_by(p, pt, Opp(p.sideToMove), occ) : pt \in PieceTypes}

threats_by(p) == IF st(p).threats = {} THEN compute_threats(p) ELSE st(p).threats

\* The getter stores what it computed in the current StateInfo.
WithThreats(p) == [p EXCEPT !.sts = Front(@) \o <<[Last(@) EXCEPT !.threats = threats_by(p)]>>]

\* ---- fields of a StateInfo that follow from the board ---------------------
update_slider_blockers(b, c) ==
    LET ksq == CHOOSE s \in DOMAIN b : b[s] = make_piece(c, KING)
        theirs == {s \in DOMAIN b : color_of(b[s]) # c}
        snipers == theirs \cap ((PseudoAttacks[ROOK][ksq] \cap OfTypes(b, {QUEEN, ROOK}))
                           \cup (PseudoAttacks[BISHOP][ksq] \cap OfTypes(b, {QUEEN, BISHOP})))
        between(s) == between_bb(ksq, s) \cap (DOMAIN b \ snipers)
        block == {s \in snipers : Cardinality(between(s)) = 1}
    IN  [blockers |-> UNION {between(s) : s \in block},
         pinners  |-> {s \in block : \A t \in between(s) : color_of(b[t]) = c}]

set_extra_bitboards(si, b, stm) ==
    LET sb == [c \in Colors |-> update_slider_blockers(b, c)]
        ksq == CHOOSE s \in DOMAIN b : b[s] = make_piece(Opp(stm), KING)
        on == DOMAIN b
    IN  [si EXCEPT !.blockersForKing = [c \in Colors |-> sb[c].blockers],
                   !.pinners = [c \in Colors |-> sb[Opp(c)].pinners],
                   !.checkSquares = [pt \in PieceTypes |->
                       CASE pt = PAWN -> PawnAttacks[Opp(stm)][ksq]
                         [] pt = KING -> {}
                         [] OTHER     -> attacks_bb(pt, ksq, on)],
                   !.threats = {}]

compute_material_key(b) ==
    UNION UNION {{psq(pc, 8 + n) : n \in 0 .. Cardinality({s \in DOMAIN b : b[s] = pc}) - 1} :
                   pc \in Range(b)}

KeyOfPieces(b, squares) == XorAll({psq(b[s], s) : s \in squares})
nonPawnsOf(b, c) == {s \in DOMAIN b : color_of(b[s]) = c /\ type_of(b[s]) # PAWN}

\* set_state: every key, computed from scratch.
set_state(si, b, stm) ==
    LET ksq == CHOOSE s \in DOMAIN b : b[s] = make_piece(stm, KING)
    IN  set_extra_bitboards(
          [si EXCEPT
             !.key = XorAll({KeyOfPieces(b, DOMAIN b),
                             IF si.epSquare = SQ_NONE THEN {} ELSE enpassant(si.epSquare),
                             IF stm = BLACK THEN side ELSE {},
                             castling(si.castlingRights)}),
             !.pawnKey = Toggle(noPawns, KeyOfPieces(b, OfTypes(b, {PAWN}))),
             !.minorPieceKey = KeyOfPieces(b, OfTypes(b, {KNIGHT, BISHOP})),
             !.nonPawnKey = [c \in Colors |-> KeyOfPieces(b, nonPawnsOf(b, c))],
             !.nonPawnMaterial =
                 [c \in Colors |-> MapThenSumSet(LAMBDA s : PieceValue[type_of(b[s])], nonPawnsOf(b, c))],
             !.materialKey = compute_material_key(b),
             !.checkersBB = {s \in attackers_on(b, ksq, DOMAIN b) : color_of(b[s]) # stm}],
          b, stm)

\* ---- the keys' readers ----------------------------------------------------
\* Mutant: counts the ply the same before the move as after it.
AdjustForgettingTheMove(p, k, after) ==
    IF st(p).rule50 < 14 THEN k ELSE Toggle(k, {<<20, (st(p).rule50 - 14) \div 8>>})

adjust_key50(p, k, after) ==
    LET free == 14 - (IF after THEN 1 ELSE 0)
    IN  IF st(p).rule50 < free THEN k ELSE Toggle(k, {<<20, (st(p).rule50 - free) \div 8>>})

key(p) == adjust_key50(p, st(p).key, FALSE)

prefetch_key(p, m) ==
    LET pc == piece_on(p, m.from)
        captured == piece_on(p, m.to)
        k == XorAll({st(p).key, side, psq(captured, m.to), psq(pc, m.to), psq(pc, m.from)})
    IN  IF captured # NO_PIECE \/ type_of(pc) = PAWN THEN k ELSE adjust_key50(p, k, TRUE)

is_capture(p, m) == (m.type \in {NORMAL, PROMOTION} /\ m.to \in pieces(p)) \/ m.type = EN_PASSANT
capture_stage(p, m) == is_capture(p, m) \/ (m.type = PROMOTION /\ m.promo = QUEEN)

\* ---- threats changed by a piece that comes or goes ------------------------
can_slider_threat(pc, slider) == type_of(pc) # QUEEN \/ type_of(slider) = QUEEN

\* One scan of the board: the threats of the piece pc on s, the threats on it
\* and, when rays is set, the threats that it uncovers or blocks.  Each is
\* <<attacker, its square, target, its square, added>>.
update_piece_threats(b, pc, s, put, rays, noRays) ==
    LET occupied == DOMAIN b
        rook == sliding_attack(ROOK, s, occupied)
        bishop == sliding_attack(BISHOP, s, occupied)
        noK == occupied \ OfTypes(b, {KING})
        sliders == (OfTypes(b, {ROOK, QUEEN}) \cap rook) \cup (OfTypes(b, {BISHOP, QUEEN}) \cap bishop)
        discovered(q) == ray_pass_bb(q, s) \cap (rook \cup bishop) \cap noK
        pt == type_of(pc)
        targets == CASE pt = PAWN -> OfTypes(b, {KNIGHT, ROOK})
                     [] pt \in {BISHOP, ROOK} -> OfTypes(b, {PAWN, KNIGHT, BISHOP, ROOK})
                     [] OTHER -> noK
        reach == CASE pt = PAWN -> PawnAttacks[color_of(pc)][s]
                   [] pt = BISHOP -> bishop
                   [] pt = ROOK -> rook
                   [] pt = QUEEN -> rook \cup bishop
                   [] OTHER -> PseudoAttacks[pt][s]
        pawnsAt == UNION {{t \in PawnAttacks[Opp(c)][s] : piece_at(b, t) = make_piece(c, PAWN)} : c \in Colors}
        incoming == (PseudoAttacks[KNIGHT][s] \cap OfTypes(b, {KNIGHT}))
                    \cup (IF pt \in {KNIGHT, ROOK} THEN pawnsAt ELSE {})
                    \cup {q \in sliders : can_slider_threat(pc, b[q])}
        uncovered == {<<b[q], q, b[t], t, ~put>> : <<q, t>> \in
                        {<<q, t>> \in sliders \X noK :
                           /\ t \in discovered(q)
                           /\ ray_pass_bb(q, s) \cap noRays # noRays
                           /\ can_slider_threat(b[t], b[q])}}
    IN  (IF rays THEN uncovered ELSE {})
        \cup IF pt = KING THEN {}
             ELSE {<<pc, s, b[t], t, put>> : t \in reach \cap targets}
                  \cup {<<b[q], q, pc, s, put>> : q \in incoming}

\* The board while pieces move, with the scans made so far (dts).

With(b, s, pc) == [t \in DOMAIN b \cup {s} |-> IF t = s THEN pc ELSE b[t]]
Without(b, s) == Restrict(b, DOMAIN b \ {s})
Scan(w, b, pc, s, put, rays, noRays) ==
    Append(w.dts, update_piece_threats(b, pc, s, put, rays, noRays))

put_piece(w, pc, s) ==
    LET b == With(w.board, s, pc)
    IN  [board |-> b, dts |-> Scan(w, b, pc, s, TRUE, TRUE, SQUARES)]

remove_piece(w, s) ==
    [board |-> Without(w.board, s),
     dts   |-> Scan(w, w.board, w.board[s], s, FALSE, TRUE, SQUARES)]

move_piece(w, from, to) ==
    LET pc == w.board[from]
        b == With(Without(w.board, from), to, pc)
        gone == Scan(w, w.board, pc, from, FALSE, TRUE, {from, to})
    IN  [board |-> b, dts |-> Scan([dts |-> gone], b, pc, to, TRUE, TRUE, {from, to})]

swap_piece(w, s, pc) ==
    LET b == With(w.board, s, pc)
        gone == Scan(w, b, w.board[s], s, FALSE, FALSE, SQUARES)
    IN  [board |-> b, dts |-> Scan([dts |-> gone], b, pc, s, TRUE, FALSE, SQUARES)]

\* from is the king's square and to the rook's: the king takes its own rook.
\* The rook leaves first, so that the squares may overlap.
do_castling(w, us, from, to) ==
    LET kingSide == to > from
    IN  put_piece(put_piece(remove_piece(remove_piece(w, to), from),
                            make_piece(us, KING), KingTo(us, kingSide)),
                  make_piece(us, ROOK), RookTo(us, kingSide))

undo_castling(w, us, from, to) ==
    LET kingSide == to > from
    IN  put_piece(put_piece(remove_piece(remove_piece(w, RookTo(us, kingSide)), KingTo(us, kingSide)),
                            make_piece(us, KING), from),
                  make_piece(us, ROOK), to)

\* ---- making and unmaking a move -------------------------------------------
gives_check(p, m) ==
    LET us == p.sideToMove
        ksq == square(p, Opp(us))
        sliders(pts) == pieces_by(p, us, pts)
        b == (pieces(p) \ {m.from, 8 * rank_of(m.from) + file_of(m.to)}) \cup {m.to}
    IN  \/ m.to \in st(p).checkSquares[type_of(piece_on(p, m.from))]
        \/ /\ m.from \in st(p).blockersForKing[Opp(us)]
           /\ ksq \notin line_bb(m.from, m.to) \/ m.type = CASTLING
        \/ /\ m.from \notin st(p).blockersForKing[Opp(us)]
           /\ CASE m.type = PROMOTION -> ksq \in attacks_bb(m.promo, m.to, pieces(p) \ {m.from})
                [] m.type = EN_PASSANT ->
                       \/ sliding_attack(ROOK, ksq, b) \cap sliders({QUEEN, ROOK}) # {}
                       \/ sliding_attack(BISHOP, ksq, b) \cap sliders({QUEEN, BISHOP}) # {}
                [] m.type = CASTLING -> RookTo(us, m.to > m.from) \in st(p).checkSquares[ROOK]
                [] OTHER -> FALSE

\* Mutant: overlooks that a pawn pinned along the rank may not capture.
EpSquareUnpinned(p, m) ==
    LET us == p.sideToMove
        ep == m.to - pawn_push(us)
    IN  IF /\ type_of(piece_on(p, m.from)) = PAWN
           /\ Apart(m.from, m.to) = 16
           /\ PawnAttacks[us][ep] \cap pieces_by(p, Opp(us), {PAWN}) # {}
        THEN ep ELSE SQ_NONE

\* The square behind a double push, if some pawn can legally capture there.
NewEpSquare(p, m) ==
    LET us == p.sideToMove
        them == Opp(us)
        ep == m.to - pawn_push(us)
        ksq == square(p, them)
        blockers == st(p).blockersForKing[them]
        pawns == PawnAttacks[us][ep] \cap pieces_by(p, them, {PAWN})
        noDiscovery == m.from \notin blockers \/ file_of(m.from) = file_of(ksq)
    IN  IF /\ type_of(piece_on(p, m.from)) = PAWN
           /\ Apart(m.from, m.to) = 16
           /\ noDiscovery
           /\ pawns \cap ((SQUARES \ blockers) \cup line_bb(ep, ksq)) # {}
        THEN ep ELSE SQ_NONE

\* Mutant: looks past a null move.
RepetitionPastNull(sts) ==
    LET n == Len(sts)
        same == {i \in 4 .. Min({sts[n].rule50, n - 1}) : i % 2 = 0 /\ sts[n - i].key = sts[n].key}
    IN  IF same = {} THEN 0
        ELSE IF sts[n - Min(same)].repetition # 0 THEN -Min(same) ELSE Min(same)

\* Distance to the previous occurrence, negative when that one repeats too.
RepetitionOf(sts) ==
    LET n == Len(sts)
        new == sts[n]
        end == Min({new.rule50, new.pliesFromNull})
        same == {i \in 4 .. end : i % 2 = 0 /\ sts[n - i].key = new.key}
    IN  IF same = {} THEN 0
        ELSE IF sts[n - Min(same)].repetition # 0 THEN -Min(same) ELSE Min(same)

CapturedBy(p, m) == IF m.type = EN_PASSANT THEN make_piece(Opp(p.sideToMove), PAWN)
                    ELSE IF m.type = CASTLING THEN NO_PIECE ELSE piece_on(p, m.to)

\* The new StateInfo without what depends on the board after the move.
MovedState(p, m) ==
    LET us == p.sideToMove
        them == Opp(us)
        old == st(p)
        pc == piece_on(p, m.from)
        captured == CapturedBy(p, m)
        capsq == IF m.type = EN_PASSANT THEN m.to - pawn_push(us) ELSE m.to
        isPawn == type_of(pc) = PAWN
        moved == Toggle(psq(pc, m.from), psq(pc, m.to))
        taken == psq(captured, capsq)
        new == make_piece(us, m.promo)
        born == IF m.type = PROMOTION THEN psq(new, m.to) ELSE {}
        rook == make_piece(us, ROOK)
        kingSide == m.to > m.from
        rookMoved == Toggle(psq(rook, m.to), psq(rook, RookTo(us, kingSide)))
        kingMoved == Toggle(psq(pc, m.from), psq(pc, KingTo(us, kingSide)))
        shift == IF m.type = CASTLING THEN Toggle(rookMoved, kingMoved) ELSE moved
        to == IF m.type = CASTLING THEN KingTo(us, kingSide) ELSE m.to
        rights == old.castlingRights \ (p.castlingRightsMask[m.from] \cup p.castlingRightsMask[to])
        ep == NewEpSquare(p, m)
        minor(x, pts) == IF pts \cap {KNIGHT, BISHOP} # {} THEN x ELSE {}
        epKey(e) == IF e = SQ_NONE THEN {} ELSE enpassant(e)
        toggled(k, S) == FoldSet(Toggle, k, S)
        value(x) == IF x = NO_PIECE \/ type_of(x) = PAWN THEN 0 ELSE PieceValue[type_of(x)]
    IN  [old EXCEPT
          !.key = Toggle(Toggle(Toggle(toggled(@, {side, shift, taken, born}), epKey(old.epSquare)),
                                epKey(ep)),
                         Toggle(castling(old.castlingRights), castling(rights))),
          !.pawnKey = toggled(@, {IF isPawn THEN moved ELSE {},
                                  IF type_of(captured) = PAWN THEN taken ELSE {}}),
          !.minorPieceKey = toggled(@, {minor(moved, {type_of(pc)}), minor(taken, {type_of(captured)}),
                                        IF m.type = PROMOTION THEN minor(born, {m.promo}) ELSE {}}),
          !.nonPawnKey = [c \in Colors |->
               IF c = us THEN toggled(@[us], {IF isPawn THEN born ELSE shift})
               ELSE IF type_of(captured) \in {NO_PIECE, PAWN} THEN @[c] ELSE Toggle(@[c], taken)],
          !.nonPawnMaterial = [c \in Colors |->
               IF c = us THEN @[us] + (IF m.type = PROMOTION THEN value(new) ELSE 0)
               ELSE @[c] - value(captured)],
          !.materialKey = toggled(@,
              {IF captured = NO_PIECE THEN {} ELSE psq(captured, 8 + count(p, captured) - 1),
               IF m.type = PROMOTION THEN psq(new, 8 + count(p, new)) ELSE {},
               IF m.type = PROMOTION THEN psq(pc, 8 + count(p, pc) - 1) ELSE {}}),
          !.castlingRights = rights,
          !.epSquare = ep,
          !.rule50 = IF captured # NO_PIECE \/ isPawn THEN 0 ELSE @ + 1,
          !.pliesFromNull = @ + 1,
          !.capturedPiece = captured,
          !.repetition = 0]

MovePieces(p, m) ==
    LET w == [board |-> p.board, dts |-> << >>]
        us == p.sideToMove
        pc == piece_on(p, m.from)
        toPc == IF m.type = PROMOTION THEN make_piece(us, m.promo) ELSE pc
        epGone == remove_piece(w, m.to - pawn_push(us))
    IN  CASE m.type = CASTLING   -> do_castling(w, us, m.from, m.to)
          [] m.type = EN_PASSANT -> move_piece(epGone, m.from, m.to)
          [] m.type \in {NORMAL, PROMOTION} /\ m.to \in pieces(p) ->
                 swap_piece(remove_piece(w, m.from), m.to, toPc)
          [] m.type = PROMOTION /\ m.to \notin pieces(p) -> put_piece(remove_piece(w, m.from), toPc, m.to)
          [] OTHER -> move_piece(w, m.from, m.to)

\* What the accumulators are told of the move.  SQ_NONE marks an absent square.
DirtyPieceOf(p, m) ==
    LET us == p.sideToMove
        captured == CapturedBy(p, m)
        base == [pc |-> piece_on(p, m.from), from |-> m.from, to |-> m.to,
                 remove_sq |-> SQ_NONE, add_sq |-> SQ_NONE]
        capsq == IF m.type = EN_PASSANT THEN m.to - pawn_push(us) ELSE m.to
        rook == make_piece(us, ROOK)
        removal == IF captured = NO_PIECE THEN base
                   ELSE [base EXCEPT !.remove_sq = capsq] @@ [remove_pc |-> captured]
    IN  CASE m.type = CASTLING ->
               [base EXCEPT !.to = KingTo(us, m.to > m.from), !.remove_sq = m.to,
                            !.add_sq = RookTo(us, m.to > m.from)]
               @@ [remove_pc |-> rook, add_pc |-> rook]
          [] m.type = PROMOTION ->
               [removal EXCEPT !.to = SQ_NONE, !.add_sq = m.to] @@ [add_pc |-> make_piece(us, m.promo)]
          [] OTHER -> removal

PawnsOf(b) == [c \in Colors |-> {s \in DOMAIN b : b[s] = make_piece(c, PAWN)}]

\* do_move, with givesCheck as its caller passes it.  The result is the
\* position and the Dirties it filled.
Recurring(sts) == Front(sts) \o <<[Last(sts) EXCEPT !.repetition = RepetitionOf(sts)]>>

CheckersOn(b, us) ==
    {s \in attackers_on(b, CHOOSE s \in DOMAIN b : b[s] = make_piece(Opp(us), KING), DOMAIN b) :
       color_of(b[s]) = us}

Moved(p, m, w, checkers) ==
    LET us == p.sideToMove
    IN  [pos |-> [p EXCEPT !.board = w.board, !.sideToMove = Opp(us), !.gamePly = @ + 1,
                           !.sts = Recurring(Append(@, set_extra_bitboards(
                               [MovedState(p, m) EXCEPT !.checkersBB = checkers], w.board, Opp(us))))],
         dirtyPiece |-> DirtyPieceOf(p, m),
         dirtyThreats |-> w.dts,
         dirtyPawnPairs |-> [before |-> PawnsOf(p.board), after |-> PawnsOf(w.board)]]

do_moved(p, m, w, givesCheck) ==
    Moved(p, m, w, IF givesCheck THEN CheckersOn(w.board, p.sideToMove) ELSE {})

do_move(p, m, givesCheck) == do_moved(p, m, MovePieces(p, m), givesCheck)

\* Mutant: puts back a pawn taken en passant where its captor stood.
UndoMisplacesEp(p, m) ==
    LET us == Opp(p.sideToMove)
        demoted == IF m.type = PROMOTION THEN With(p.board, m.to, make_piece(us, PAWN)) ELSE p.board
        back == With(Without(demoted, m.to), m.from, demoted[m.to])
        captured == st(p).capturedPiece
    IN  [p EXCEPT !.sideToMove = us, !.gamePly = @ - 1, !.sts = Front(@),
                  !.board = CASE m.type = CASTLING ->
                                   undo_castling([board |-> p.board, dts |-> << >>], us, m.from, m.to).board
                              [] captured # NO_PIECE /\ m.type # CASTLING -> With(back, m.to, captured)
                              [] OTHER -> back]

undo_move(p, m) ==
    LET us == Opp(p.sideToMove)
        demoted == IF m.type = PROMOTION THEN With(p.board, m.to, make_piece(us, PAWN)) ELSE p.board
        back == With(Without(demoted, m.to), m.from, demoted[m.to])
        captured == st(p).capturedPiece
        capsq == IF m.type = EN_PASSANT THEN m.to - pawn_push(us) ELSE m.to
    IN  [p EXCEPT !.sideToMove = us, !.gamePly = @ - 1, !.sts = Front(@),
                  !.board = CASE m.type = CASTLING ->
                                   undo_castling([board |-> p.board, dts |-> << >>], us, m.from, m.to).board
                              [] captured # NO_PIECE /\ m.type # CASTLING -> With(back, capsq, captured)
                              [] OTHER -> back]

\* Mutant: keeps the checks and pins of the side that has passed.
NullKeepsPins(p) ==
    [p EXCEPT !.sideToMove = Opp(@),
              !.sts = Append(@, [st(p) EXCEPT !.key = Toggle(@, side), !.pliesFromNull = 0,
                                              !.capturedPiece = NO_PIECE, !.repetition = 0])]

do_null_move(p) ==
    LET old == st(p)
        dropEp == IF old.epSquare = SQ_NONE THEN old.key ELSE Toggle(old.key, enpassant(old.epSquare))
        new == [old EXCEPT !.epSquare = SQ_NONE, !.key = Toggle(dropEp, side), !.pliesFromNull = 0,
                           !.capturedPiece = NO_PIECE, !.repetition = 0]
    IN  [p EXCEPT !.sideToMove = Opp(@),
                  !.sts = Append(@, set_extra_bitboards(new, p.board, Opp(p.sideToMove)))]

undo_null_move(p) == [p EXCEPT !.sideToMove = Opp(@), !.sts = Front(@)]

\* ---- FEN ------------------------------------------------------------------
\* A FEN is a record of its fields.  placement is a sequence of tokens: 1 .. 8
\* skips squares, SLASH ends a rank, PIECE + pc places pc.  A castling token
\* is <<colour, file>>, or <<colour, KTOKEN>> and <<colour, QTOKEN>>.
SLASH == 9
PIECE == 100
KTOKEN == 8
QTOKEN == 9

PlaceToken(a, tok) ==
    CASE ~a.ok -> a
      [] tok \in 1 .. 8 -> [a EXCEPT !.file = @ + tok, !.ok = a.file + tok <= 8]
      [] tok = SLASH -> [a EXCEPT !.rank = @ - 1, !.file = 0, !.ok = a.file = 8 /\ a.rank > 0]
      [] tok > PIECE -> [a EXCEPT !.file = @ + 1,
                                  !.ok = a.file < 8 /\ Cardinality(DOMAIN a.board) < 32,
                                  !.board = With(@, 8 * a.rank + a.file, tok - PIECE)]
      [] OTHER -> [a EXCEPT !.ok = FALSE]

Placed(placement) ==
    FoldLeft(PlaceToken, [ok |-> TRUE, rank |-> 7, file |-> 0, board |-> << >>], placement)

\* Piece counts that the engine supports.
SupportedCounts(b) ==
    LET n(c, pt) == Cardinality({s \in DOMAIN b : b[s] = make_piece(c, pt)})
        over(k, m) == IF k > m THEN k - m ELSE 0
    IN  /\ \A s \in OfTypes(b, {PAWN}) : rank_of(s) \in 1 .. 6
        /\ \A c \in Colors :
             /\ n(c, KING) = 1
             /\ n(c, PAWN) <= 8
             /\ over(n(c, KNIGHT), 2) + over(n(c, BISHOP), 2) + over(n(c, ROOK), 2) + over(n(c, QUEEN), 1)
                 <= 8 - n(c, PAWN)

\* A second right of one side replaces the first one, whose rook loses its bit.
set_castling_right(p, c, rfrom) ==
    LET kfrom == square(p, c)
        kingSide == kfrom < rfrom
        cr == IF kingSide THEN KingSide(c) ELSE QueenSide(c)
        dropped == IF cr \in st(p).castlingRights
                   THEN [p.castlingRightsMask EXCEPT ![p.castlingRookSquare[cr]] = @ \ {cr}]
                   ELSE p.castlingRightsMask
        path == between_bb(rfrom, RookTo(c, kingSide)) \cup between_bb(kfrom, KingTo(c, kingSide))
    IN  [p EXCEPT !.sts = <<[@[1] EXCEPT !.castlingRights = @ \cup {cr}]>>,
                  !.castlingRightsMask =
                      [s \in SQUARES |-> dropped[s] \cup IF s \in {kfrom, rfrom} THEN {cr} ELSE {}],
                  !.castlingRookSquare[cr] = rfrom,
                  !.castlingPath[cr] = path \ {kfrom, rfrom}]

CastlingToken(p, tok) ==
    LET c == tok[1]
        walk == [i \in 0 .. 6 |-> relative_square(c, IF tok[2] = KTOKEN THEN 7 - i ELSE i)]
        kings == {i \in 0 .. 6 : piece_on(p, walk[i]) = make_piece(c, KING)}
        before == {i \in 0 .. 6 : /\ piece_on(p, walk[i]) = make_piece(c, ROOK)
                                  /\ \A k \in kings : i < k}
        corner == relative_square(c, tok[2])
    IN  IF tok[2] \in {KTOKEN, QTOKEN}
        THEN IF kings = {} \/ before = {} THEN p ELSE set_castling_right(p, c, walk[Min(before)])
        ELSE IF /\ piece_on(p, corner) = make_piece(c, ROOK)
                /\ relative_rank(c, square(p, c)) = 0
                /\ file_of(square(p, c)) \in 1 .. 6
             THEN set_castling_right(p, c, corner) ELSE p

\* The en passant square is kept only when a pawn can legally capture there.
EpOfFen(b, stm, ep) ==
    LET ksq == CHOOSE s \in DOMAIN b : b[s] = make_piece(stm, KING)
        is(s, pc) == piece_at(b, s) = pc
        pawns == {s \in PawnAttacks[Opp(stm)][ep] : is(s, make_piece(stm, PAWN))}
        target == {s \in {ep - pawn_push(stm)} : is(s, make_piece(Opp(stm), PAWN))}
        occ == Toggle(Toggle(DOMAIN b, target), {ep})
        clear == DOMAIN b \cap {ep, ep + pawn_push(stm)} = {}
        legal(s) == {t \in attackers_on(b, ksq, Toggle(occ, {s})) \ target : color_of(b[t]) # stm} = {}
    IN  IF target # {} /\ clear /\ \E s \in pawns : legal(s) THEN ep ELSE SQ_NONE

EmptyState == [pawnKey |-> {}, minorPieceKey |-> {}, nonPawnKey |-> [c \in Colors |-> {}], materialKey |-> {},
               nonPawnMaterial |-> [c \in Colors |-> 0], rule50 |-> 0, pliesFromNull |-> 0,
               castlingRights |-> {}, epSquare |-> SQ_NONE, key |-> {}, checkersBB |-> {},
               blockersForKing |-> [c \in Colors |-> {}], pinners |-> [c \in Colors |-> {}], checkSquares |-> << >>,
               threats |-> {}, capturedPiece |-> NO_PIECE, repetition |-> 0]

FromBoard(b, f, isChess960) ==
    LET bare == [board |-> b, sideToMove |-> f.sideToMove, chess960 |-> isChess960,
                 gamePly |-> Max({2 * (f.fullmove - 1), 0}) + f.sideToMove,
                 castlingRightsMask |-> [s \in SQUARES |-> {}],
                 castlingRookSquare |-> [cr \in ANY_CASTLING |-> SQ_NONE],
                 castlingPath |-> [cr \in ANY_CASTLING |-> {}],
                 sts |-> <<EmptyState>>]
        p == FoldLeft(CastlingToken, bare, f.rights)
        ep == IF f.ep = SQ_NONE THEN SQ_NONE ELSE EpOfFen(b, f.sideToMove, f.ep)
        si == [st(p) EXCEPT !.epSquare = ep, !.rule50 = f.rule50]
    IN  [p EXCEPT !.sts = <<set_state(si, b, f.sideToMove)>>]

\* The position of a FEN, or a refusal.
SetPosition(f, isChess960) ==
    LET a == Placed(f.placement)
        fieldsOk == /\ a.ok /\ a.rank = 0 /\ a.file = 8
                    /\ SupportedCounts(a.board)
                    /\ Len(f.rights) <= 4
                    /\ f.ep = SQ_NONE \/ relative_rank(f.sideToMove, f.ep) = 5
                    /\ f.rule50 \in 0 .. 32767 /\ f.fullmove \in 0 .. 100000
        them == CHOOSE s \in DOMAIN a.board : a.board[s] = make_piece(Opp(f.sideToMove), KING)
        taken == {s \in attackers_on(a.board, them, DOMAIN a.board) :
                    color_of(a.board[s]) = f.sideToMove} # {}
    IN  IF fieldsOk /\ ~taken THEN [ok |-> TRUE, pos |-> FromBoard(a.board, f, isChess960)]
        ELSE [ok |-> FALSE]

\* Mutant: runs of empty squares carry over a piece.
RankTokensRunning(b, r) ==
    LET step(a, f) == IF 8 * r + f \in DOMAIN b
                      THEN [a EXCEPT !.out = @ \o (IF a.run > 0 THEN <<a.run>> ELSE << >>)
                                               \o <<PIECE + b[8 * r + f]>>]
                      ELSE [a EXCEPT !.run = @ + 1]
        a == FoldLeft(step, [out |-> << >>, run |-> 0], <<0, 1, 2, 3, 4, 5, 6, 7>>)
    IN  IF a.run > 0 THEN Append(a.out, a.run) ELSE a.out

RankTokens(b, r) ==
    LET step(a, f) == IF 8 * r + f \in DOMAIN b
                      THEN [out |-> a.out \o (IF a.run > 0 THEN <<a.run>> ELSE << >>)
                                          \o <<PIECE + b[8 * r + f]>>, run |-> 0]
                      ELSE [a EXCEPT !.run = @ + 1]
        a == FoldLeft(step, [out |-> << >>, run |-> 0], <<0, 1, 2, 3, 4, 5, 6, 7>>)
    IN  IF a.run > 0 THEN Append(a.out, a.run) ELSE a.out

fen(p) ==
    LET letter(cr, plain) == <<RightColor(cr), IF p.chess960 THEN file_of(p.castlingRookSquare[cr]) ELSE plain>>
        right(cr, plain) == IF cr \in st(p).castlingRights THEN <<letter(cr, plain)>> ELSE << >>
        rows(acc, r) == acc \o (IF r = 7 THEN << >> ELSE <<SLASH>>) \o RankTokens(p.board, r)
    IN  [placement |-> FoldLeft(rows, << >>, <<7, 6, 5, 4, 3, 2, 1, 0>>),
         sideToMove |-> p.sideToMove,
         rights |-> right(WHITE_OO, KTOKEN) \o right(WHITE_OOO, QTOKEN)
                    \o right(BLACK_OO, KTOKEN) \o right(BLACK_OOO, QTOKEN),
         ep |-> st(p).epSquare,
         rule50 |-> st(p).rule50,
         fullmove |-> 1 + (IF p.gamePly = 0 THEN 0 ELSE (p.gamePly - p.sideToMove) \div 2)]

\* The FEN of the position with the sides exchanged.
flip(p) ==
    LET f == fen(p)
        swap(pc) == make_piece(Opp(color_of(pc)), type_of(pc))
        flipped == [s \in {8 * (7 - rank_of(q)) + file_of(q) : q \in DOMAIN p.board} |->
                      swap(p.board[8 * (7 - rank_of(s)) + file_of(s)])]
        rows(acc, r) == acc \o (IF r = 7 THEN << >> ELSE <<SLASH>>) \o RankTokens(flipped, r)
    IN  SetPosition([f EXCEPT !.placement = FoldLeft(rows, << >>, <<7, 6, 5, 4, 3, 2, 1, 0>>),
                              !.sideToMove = Opp(@),
                              !.rights = [i \in DOMAIN @ |-> <<Opp(@[i][1]), @[i][2]>>],
                              !.ep = IF @ = SQ_NONE THEN @ ELSE 8 * (7 - rank_of(@)) + file_of(@)],
                    p.chess960)
=============================================================================
