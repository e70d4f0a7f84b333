------------------------------ MODULE Attacks ------------------------------
(***************************************************************************)
(* Squares, bitboards and attack sets (src/src/engine/types.h, bitboard.h, *)
(* attacks.h, attacks.cpp).  A Bitboard is the set of its squares, so the  *)
(* operators &, | and ^ of the code are the operations on sets; a square   *)
(* is its number, a1 = 0 .. h8 = 63, and a direction the step between two  *)
(* squares.  Tables that the code fills at start-up are functions here.    *)
(***************************************************************************)
EXTENDS Integers, Sequences, FiniteSets, FiniteSetsExt, SequencesExt

WHITE == 0
BLACK == 1
Colors == {WHITE, BLACK}
NO_PIECE == 0
PAWN == 1
KNIGHT == 2
BISHOP == 3
ROOK == 4
QUEEN == 5
KING == 6
PieceTypes == PAWN .. KING

make_piece(c, pt) == 8 * c + pt
type_of(pc) == pc % 8
color_of(pc) == pc \div 8
Opp(c) == 1 - c

SQUARES == 0 .. 63
SQ_NONE == 64
file_of(s) == s % 8
rank_of(s) == s \div 8
relative_rank(c, s) == IF c = WHITE THEN rank_of(s) ELSE 7 - rank_of(s)
relative_square(c, s) == IF c = WHITE THEN s ELSE 8 * (7 - rank_of(s)) + file_of(s)
pawn_push(c) == IF c = WHITE THEN 8 ELSE -8

Apart(a, b) == IF a > b THEN a - b ELSE b - a
lsb(b) == Min(b)
more_than_one(b) == Cardinality(b) > 1
Toggle(a, b) == (a \ b) \cup (b \ a)          \* the ^ of two bitboards

safe_destination(s, step) ==
    {t \in {s + step} : t \in SQUARES /\ Apart(file_of(s), file_of(t)) <= 2}

RookDirections == {8, -8, 1, -1}
BishopDirections == {9, -7, -9, 7}

\* The squares a slider meets from s going in direction d, nearest first.
Ray == [d \in RookDirections \cup BishopDirections |->
          LET walk[s \in SQUARES] ==
                IF safe_destination(s, d) = {} THEN << >> ELSE <<s + d>> \o walk[s + d]
          IN walk]

\* What a slider sees along a ray: up to the first occupied square.
Seen(r, occupied) == {r[i] : i \in {k \in DOMAIN r : \A j \in 1 .. k - 1 : r[j] \notin occupied}}

sliding_attack(pt, s, occupied) ==
    UNION {Seen(Ray[d][s], occupied) : d \in IF pt = ROOK THEN RookDirections ELSE BishopDirections}

\* A queen moves like a rook and like a bishop.
Glide(pt, s, occupied) ==
    UNION {sliding_attack(as, s, occupied) : as \in IF pt = QUEEN THEN {ROOK, BISHOP} ELSE {pt}}

\* The pawn attacks are shifts of one file and one rank.
pawn_attacks(c, s) ==
    UNION {{t \in {s + pawn_push(c) + e} :
              t \in SQUARES /\ Apart(file_of(s), file_of(t)) = 1} : e \in {1, -1}}

PawnAttacks == [c \in Colors |-> [s \in SQUARES |-> pawn_attacks(c, s)]]

PseudoAttacks ==
    [pt \in KNIGHT .. KING |-> [s \in SQUARES |->
        CASE pt = KNIGHT -> UNION {safe_destination(s, d) :
                                     d \in {-17, -15, -10, -6, 6, 10, 15, 17}}
          [] pt = KING   -> UNION {safe_destination(s, d) : d \in {-9, -8, -7, -1, 1, 7, 8, 9}}
          [] OTHER       -> Glide(pt, s, {})]]

attacks_bb(pt, s, occupied) ==
    IF pt \in {BISHOP, ROOK, QUEEN} THEN Glide(pt, s, occupied) ELSE PseudoAttacks[pt][s]

\* The tables of Attacks::init: filled for aligned pairs, except that s2 is
\* put into BetweenBB[s1][s2] for every pair.
Aligned(s1, s2) == {pt \in {BISHOP, ROOK} : s2 \in PseudoAttacks[pt][s1]}

LineBB == [s1 \in SQUARES |-> [s2 \in SQUARES |->
    UNION {(PseudoAttacks[pt][s1] \cap PseudoAttacks[pt][s2]) \cup {s1, s2} :
             pt \in Aligned(s1, s2)}]]

BetweenBB == [s1 \in SQUARES |-> [s2 \in SQUARES |->
    {s2} \cup UNION {sliding_attack(pt, s1, {s2}) \cap sliding_attack(pt, s2, {s1}) :
                       pt \in Aligned(s1, s2)}]]

RayPassBB == [s1 \in SQUARES |-> [s2 \in SQUARES |->
    UNION {PseudoAttacks[pt][s1] \cap (sliding_attack(pt, s2, {s1}) \cup {s2}) :
             pt \in Aligned(s1, s2)}]]

DiagBB == [s \in SQUARES |-> Range(Ray[9][s]) \cup Range(Ray[-9][s]) \cup {s}]
AntiDiagBB == [s \in SQUARES |-> Range(Ray[7][s]) \cup Range(Ray[-7][s]) \cup {s}]

line_bb(s1, s2) == LineBB[s1][s2]
between_bb(s1, s2) == BetweenBB[s1][s2]
ray_pass_bb(s1, s2) == RayPassBB[s1][s2]

\* Squares that may hold the partner of a pawn on s in a pawn pair.
PawnPairBB == [s \in SQUARES |->
    {t \in SQUARES : rank_of(t) \in 1 .. 6 /\ Apart(file_of(s), file_of(t)) <= 1} \ {s}]
=============================================================================
