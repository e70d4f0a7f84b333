------------------------------ MODULE MoveGen ------------------------------
(***************************************************************************)
(* Move generation, and the predicates on positions that ask which moves   *)
(* there are: legality, draws, repetitions and exchanges                   *)
(* (src/src/engine/movegen.cpp, movegen.h and position.cpp).  A list of    *)
(* moves is a set here: its order carries no meaning before it is scored.  *)
(***************************************************************************)
EXTENDS Position

CAPTURES == 0
QUIETS == 1
EVASIONS == 2
ALL == 3

\* The promotions on to, reached from `from`, that a list of the type holds.
make_promotions(type, enemy, from, to) ==
    LET queen == type \in {CAPTURES, EVASIONS}
        under == \/ type = CAPTURES /\ enemy
                 \/ type = QUIETS /\ ~enemy
                 \/ type = EVASIONS
    IN  {MakeMove(PROMOTION, from, to, pt) :
           pt \in (IF queen THEN {QUEEN} ELSE {}) \cup (IF under THEN {ROOK, BISHOP, KNIGHT} ELSE {})}

\* target bounds what an evasion may do; the other types do not use it.
generate_pawn_moves(p, type, target) ==
    LET us == p.sideToMove
        up == pawn_push(us)
        enemies == IF type = EVASIONS THEN st(p).checkersBB ELSE pieces_of(p, Opp(us))
        pinned == st(p).blockersForKing[us]
        ksq == square(p, us)
        pawns == pieces_by(p, us, {PAWN})
        on7 == {s \in pawns : relative_rank(us, s) = 6}
        below == pawns \ on7
        pushable(s) == s \notin pinned \/ file_of(s) = file_of(ksq)
        right == IF us = WHITE THEN 9 ELSE -9
        left == IF us = WHITE THEN 7 ELSE -7
        aimed(s, d) == /\ s + d \in PawnAttacks[us][s]
                       /\ \/ s \notin pinned
                          \/ s \in IF d = right THEN DiagBB[ksq] ELSE AntiDiagBB[ksq]
        hits(S) == {<<s, s + d>> : <<s, d>> \in {<<s, d>> \in S \X {left, right} :
                                                   aimed(s, d) /\ s + d \in enemies}}
        free(S) == {s \in S : pushable(s) /\ s + up \notin pieces(p)}
        inTarget(t) == type # EVASIONS \/ t \in target
        single == {<<s, s + up>> : s \in free(below)}
        double == {<<s, s + 2 * up>> : s \in {s \in free(below) : /\ relative_rank(us, s) = 1
                                                                   /\ s + 2 * up \notin pieces(p)}}
        quiet == {ft \in single \cup double : inTarget(ft[2])}
        ep == st(p).epSquare
        epFrom == IF ep = SQ_NONE \/ (type = EVASIONS /\ ep + up \in target) THEN {}
                  ELSE {s \in below : \E d \in {left, right} : s + d = ep /\ aimed(s, d)}
        plain == (IF type # CAPTURES THEN quiet ELSE {}) \cup (IF type # QUIETS THEN hits(below) ELSE {})
    IN  {Move(ft[1], ft[2]) : ft \in plain}
        \cup (IF type = QUIETS THEN {} ELSE {MakeMove(EN_PASSANT, s, ep, KNIGHT) : s \in epFrom})
        \cup UNION {make_promotions(type, TRUE, ft[1], ft[2]) : ft \in hits(on7)}
        \cup UNION {make_promotions(type, FALSE, s, s + up) : s \in {s \in free(on7) : inTarget(s + up)}}

\* The sliders of a side in the order in which generate_all walks them: by
\* type, those that are not pinned first, each group by ascending square.
Ascending(S) == [k \in 1 .. Cardinality(S) |-> CHOOSE x \in S : Cardinality({y \in S : y < x}) = k - 1]

SliderWalk(p) ==
    LET us == p.sideToMove
        pinned == st(p).blockersForKing[us]
        group(pt) == Ascending(pieces_by(p, us, {pt}) \ pinned)
                     \o Ascending(pieces_by(p, us, {pt}) \cap pinned)
    IN  group(BISHOP) \o group(ROOK) \o group(QUEEN)

\* The attack sets in that order, cut to the pin line: the slider cache.
SliderSets(p) ==
    LET us == p.sideToMove
        cut(s) == IF s \in st(p).blockersForKing[us] THEN line_bb(square(p, us), s) ELSE SQUARES
        walk == SliderWalk(p)
    IN  [k \in DOMAIN walk |->
           attacks_bb(type_of(piece_on(p, walk[k])), walk[k], pieces(p)) \cap cut(walk[k])]

\* The moves of the pieces that are neither pawns nor kings.
generate_moves(p, target, sets) ==
    LET us == p.sideToMove
        walk == SliderWalk(p)
    IN  {Move(s, t) : <<s, t>> \in UNION {{s} \X (PseudoAttacks[KNIGHT][s] \cap target) :
                          s \in pieces_by(p, us, {KNIGHT}) \ st(p).blockersForKing[us]}}
        \cup UNION {{Move(walk[k], t) : t \in sets[k] \cap target} : k \in DOMAIN walk}

CastlingMoves(p) ==
    LET us == p.sideToMove
        ksq == square(p, us)
        allowed(cr) ==
            /\ cr \in st(p).castlingRights
            /\ ~castling_impeded(p, cr)
            /\ between_bb(ksq, KingTo(us, p.castlingRookSquare[cr] > ksq)) \cap threats_by(p) = {}
            /\ p.castlingRookSquare[cr] \notin st(p).blockersForKing[us]
    IN  {MakeMove(CASTLING, ksq, p.castlingRookSquare[cr], KNIGHT) :
           cr \in {cr \in {KingSide(us), QueenSide(us)} : allowed(cr)}}

\* sets holds the sliders' attacks, fresh or from the cache.
generate_all(p, type, sets) ==
    LET us == p.sideToMove
        ksq == square(p, us)
        checkers == st(p).checkersBB
        target == CASE type = EVASIONS -> between_bb(ksq, lsb(checkers))
                    [] type = CAPTURES -> pieces_of(p, Opp(us))
                    [] OTHER -> SQUARES \ pieces(p)
        men == IF type = EVASIONS /\ more_than_one(checkers) THEN {}
               ELSE generate_pawn_moves(p, type, target) \cup generate_moves(p, target, sets)
        kingTarget == (IF type = EVASIONS THEN SQUARES \ pieces_of(p, us) ELSE target) \ threats_by(p)
    IN  men \cup {Move(ksq, t) : t \in PseudoAttacks[KING][ksq] \cap kingTarget}
            \cup (IF type = QUIETS THEN CastlingMoves(p) ELSE {})

generate(p, type) ==
    UNION {generate_all(p, t, SliderSets(p)) :
             t \in IF type # ALL THEN {type}
                   ELSE IF st(p).checkersBB # {} THEN {EVASIONS} ELSE {CAPTURES, QUIETS}}

\* ---- predicates -----------------------------------------------------------
\* Any 16 bits may come out of the hash table: is this move legal here?
legal(p, m) ==
    LET us == p.sideToMove
        pc == piece_on(p, m.from)
        ksq == square(p, us)
        checkers == st(p).checkersBB
        up == pawn_push(us)
        empty(s) == s \notin pieces(p)
        pawnStep == \/ m.to \in PawnAttacks[us][m.from] \cap pieces_of(p, Opp(us))
                    \/ m.from + up = m.to /\ empty(m.to)
                    \/ /\ m.from + 2 * up = m.to /\ relative_rank(us, m.from) = 1
                       /\ empty(m.to) /\ empty(m.to - up)
    IN  IF m.type # NORMAL THEN m \in generate(p, ALL)
        ELSE /\ pc # NO_PIECE /\ color_of(pc) = us
             /\ m.to \notin pieces_of(p, us)
             /\ IF type_of(pc) = PAWN THEN rank_of(m.to) \notin {0, 7} /\ pawnStep
                ELSE m.to \in attacks_bb(type_of(pc), m.from, pieces(p))
             /\ IF type_of(pc) = KING THEN m.to \notin threats_by(p)
                ELSE /\ checkers # {} => /\ ~more_than_one(checkers)
                                         /\ m.to \in between_bb(ksq, lsb(checkers))
                     /\ m.from \notin st(p).blockersForKing[us] \/ ksq \in line_bb(m.from, m.to)

is_repetition(p, ply) == st(p).repetition # 0 /\ st(p).repetition < ply

is_draw(p, ply) ==
    \/ st(p).rule50 > 99 /\ (st(p).checkersBB = {} \/ generate(p, ALL) # {})
    \/ is_repetition(p, ply)

PlyWindow(p) == Min({st(p).rule50, st(p).pliesFromNull})
Back(p, i) == p.sts[Len(p.sts) - i]

has_repeated(p) ==
    \E j \in 0 .. PlyWindow(p) - 4 : Back(p, j).repetition # 0

\* The cuckoo tables hold the key of every reversible move of a piece.
CuckooMoves(moveKey) ==
    {<<e, f>> \in moveKey \X moveKey :
        /\ Cardinality(moveKey) = 3 /\ side \subseteq moveKey
        /\ e[1] = f[1] /\ e[1] < 16 /\ e[2] < f[2]
        /\ type_of(e[1]) # PAWN /\ f[2] \in PseudoAttacks[type_of(e[1])][e[2]]}

\* The xor of the keys from the current one to the one i plies back.
XorBack(p, i) ==
    LET x[j \in 0 .. i] == IF j = 0 THEN st(p).key
                           ELSE Toggle(Toggle(x[j - 1], Back(p, j).key), IF j % 2 = 1 THEN side ELSE {})
    IN  x[i]

upcoming_repetition(p, ply) ==
    \E i \in 3 .. PlyWindow(p) :
        /\ i % 2 = 1
        /\ XorBack(p, i) = {}
        /\ \E ef \in CuckooMoves(Toggle(st(p).key, Back(p, i).key)) :
              /\ (between_bb(ef[1][2], ef[2][2]) \ {ef[2][2]}) \cap pieces(p) = {}
              /\ ply > i \/ Back(p, i).repetition # 0

\* ---- static exchange evaluation -------------------------------------------
\* Mutant: a pinned piece takes back all the same.
SeeAttackersUnpinned(p, attackers, occupied, stm) == attackers \cap occupied \cap pieces_of(p, stm)

\* The side to move answers with its least valuable piece that may attack.
SeeAttackers(p, attackers, occupied, stm) ==
    LET mine == attackers \cap occupied \cap pieces_of(p, stm)
    IN  IF st(p).pinners[Opp(stm)] \cap occupied # {} THEN mine \ st(p).blockersForKing[stm] ELSE mine

LeastValuable(p, S) ==
    LET pt == Min({type_of(piece_on(p, s)) : s \in S})
    IN  Min({s \in S : type_of(piece_on(p, s)) = pt})

RECURSIVE SeeLoop(_, _, _, _, _, _, _)
SeeLoop(p, to, occupied, attackers, stm, swap, res) ==
    LET mine == SeeAttackers(p, attackers, occupied, Opp(stm))
        s == LeastValuable(p, mine)
        pt == type_of(piece_on(p, s))
        flipped == 1 - res
        left == PieceValue[pt] - swap
        occ == occupied \ {s}
        diag == IF pt \in {PAWN, BISHOP, QUEEN}
                THEN sliding_attack(BISHOP, to, occ) \cap OfTypes(p.board, {BISHOP, QUEEN}) ELSE {}
        line == IF pt \in {ROOK, QUEEN}
                THEN sliding_attack(ROOK, to, occ) \cap OfTypes(p.board, {ROOK, QUEEN}) ELSE {}
        seen == (attackers \cap occupied) \cup diag \cup line
    IN  IF mine = {} THEN res = 1
        ELSE IF pt = KING
             THEN IF attackers \cap occupied \cap pieces_of(p, stm) # {} THEN flipped = 0 ELSE flipped = 1
             ELSE IF left < flipped /\ pt # QUEEN THEN flipped = 1
                  ELSE SeeLoop(p, to, occ, seen, Opp(stm), left, flipped)

see_ge(p, m, threshold) ==
    LET victim == piece_on(p, m.to)
        gain == (IF victim = NO_PIECE THEN 0 ELSE PieceValue[type_of(victim)]) - threshold
        risk == PieceValue[type_of(piece_on(p, m.from))] - gain
        occupied == Toggle(Toggle(pieces(p), {m.from}), {m.to})
    IN  IF m.type # NORMAL THEN 0 >= threshold
        ELSE gain >= 0 /\ (risk <= 0 \/ SeeLoop(p, m.to, occupied, attackers_to(p, m.to, occupied),
                                                p.sideToMove, risk, 1))
=============================================================================
