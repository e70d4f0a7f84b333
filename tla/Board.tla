------------------------------- MODULE Board -------------------------------
(***************************************************************************)
(* A worker's walk on the board: moves and null moves made and taken back  *)
(* from a start, and what must be true of the position on the way          *)
(* (src/src/engine/position.cpp, movegen.cpp).                             *)
(***************************************************************************)
EXTENDS Accumulators

CONSTANTS
    Starts      \* sequence of [fen, chess960, plies, nulls, only, evals]: plies
                \* bounds the depth, only holds the squares moves may use and
                \* evals bounds the evaluations

VARIABLES
    start,      \* the start of this walk
    pos,        \* the position
    trail,      \* the moves made, each with what the board was before it
    net,        \* [acc, cache]: the accumulator stack and the refresh cache
    evals       \* evaluations made (only to bound them)

vars == <<start, pos, trail, net, evals>>

NullMove == Move(0, 0)
Face(p) == <<p.board, p.sideToMove, p.gamePly>>
Entry(m) == [move |-> m, face |-> Face(pos)]
LastMove == IF trail = << >> THEN [from |-> SQ_NONE] ELSE Last(trail).move

Init ==
    /\ start \in Range(Starts)
    /\ trail = << >>
    /\ pos = SetPosition(start.fen, start.chess960).pos
    /\ net = [acc |-> ResetStack, cache |-> ClearCache]
    /\ evals = 0

\* The search reads the threats of a position before it moves.
Playable == {m \in generate(pos, ALL) : {m.from, m.to} \subseteq start.only}

Play(m, made) ==
    /\ pos' = made.pos
    /\ net' = IF start.evals = 0 THEN net ELSE [net EXCEPT !.acc = PushStack(@, made)]
    /\ trail' = Append(trail, Entry(m))

DoMove ==
    /\ Len(trail) < start.plies
    /\ \E m \in Playable : Play(m, do_move(WithThreats(pos), m, gives_check(pos, m)))
    /\ UNCHANGED <<start, evals>>

UndoMove ==
    /\ trail # << >> /\ LastMove # NullMove
    /\ pos' = undo_move(pos, LastMove)
    /\ net' = IF start.evals = 0 THEN net ELSE [net EXCEPT !.acc = PopStack(@)]
    /\ trail' = Front(trail)
    /\ UNCHANGED <<start, evals>>

\* Only when not in check, and never twice in a row.
DoNullMove ==
    /\ start.nulls /\ Len(trail) < start.plies
    /\ st(pos).checkersBB = {} /\ LastMove # NullMove
    /\ pos' = do_null_move(pos)
    /\ trail' = Append(trail, Entry(NullMove))
    /\ UNCHANGED <<start, net, evals>>

UndoNullMove ==
    /\ trail # << >> /\ LastMove = NullMove
    /\ pos' = undo_null_move(pos)
    /\ trail' = Front(trail)
    /\ UNCHANGED <<start, net, evals>>

\* A position in check is never evaluated, so slots may stay uncomputed.
EvaluateNode ==
    /\ evals < start.evals
    /\ st(pos).checkersBB = {}
    /\ net' = Evaluate(net, pos)
    /\ evals' = evals + 1
    /\ UNCHANGED <<start, pos, trail>>

Next == DoMove \/ UndoMove \/ DoNullMove \/ UndoNullMove \/ EvaluateNode

Spec == Init /\ [][Next]_vars

-----------------------------------------------------------------------------
(* Reference rules, written from the game and not from the generators.     *)

Attacked(b, s, c) ==
    \E t \in DOMAIN b : /\ color_of(b[t]) = c
                        /\ s \in IF type_of(b[t]) = PAWN THEN PawnAttacks[c][t]
                                 ELSE attacks_bb(type_of(b[t]), t, DOMAIN b)

InCheck(b, c) == Attacked(b, CHOOSE s \in DOMAIN b : b[s] = make_piece(c, KING), Opp(c))

\* Where a piece may step, its king's safety apart.
Steps(s) ==
    LET us == pos.sideToMove
        b == pos.board
        up == pawn_push(us)
        free(t) == t \notin DOMAIN b
        pushes == IF ~free(s + up) THEN {}
                  ELSE {s + up} \cup IF relative_rank(us, s) = 1 /\ free(s + 2 * up) THEN {s + 2 * up} ELSE {}
        reach == IF type_of(b[s]) = PAWN
                 THEN pushes \cup {t \in PawnAttacks[us][s] : t \in DOMAIN b}
                 ELSE attacks_bb(type_of(b[s]), s, DOMAIN b)
    IN  {t \in reach : piece_at(b, t) = NO_PIECE \/ color_of(b[t]) # us}

StepMoves(s, t) ==
    IF type_of(pos.board[s]) = PAWN /\ rank_of(t) \in {0, 7}
    THEN {MakeMove(PROMOTION, s, t, pt) : pt \in KNIGHT .. QUEEN}
    ELSE {Move(s, t)}

BoardAfter(s, t) == With(Without(pos.board, s), t, pos.board[s])

\* A pawn that has just advanced two squares may be taken as if by one.
EpCaptures ==
    LET m == LastMove
        us == pos.sideToMove
        ep == m.to + pawn_push(us)
        pawns == {s \in PawnAttacks[Opp(us)][ep] : piece_on(pos, s) = make_piece(us, PAWN)}
    IN  IF /\ trail # << >> /\ m # NullMove
           /\ type_of(piece_on(pos, m.to)) = PAWN /\ Apart(m.from, m.to) = 16
        THEN {MakeMove(EN_PASSANT, s, ep, KNIGHT) :
                s \in {s \in pawns : ~InCheck(Without(BoardAfter(s, ep), m.to), us)}}
        ELSE {}

Span(a, b) == {s \in SQUARES : (a <= s /\ s <= b) \/ (b <= s /\ s <= a)}

CastlesOf(cr) ==
    LET us == pos.sideToMove
        k == square(pos, us)
        r == pos.castlingRookSquare[cr]
        kto == KingTo(us, r > k)
        rto == RookTo(us, r > k)
        bare == Without(Without(pos.board, k), r)
    IN  IF /\ cr \in st(pos).castlingRights /\ RightColor(cr) = us
           /\ (Span(k, kto) \cup Span(r, rto)) \cap DOMAIN bare = {}
           /\ \A s \in Span(k, kto) : ~Attacked(pos.board, s, Opp(us))
           /\ ~InCheck(With(With(bare, kto, make_piece(us, KING)), rto, make_piece(us, ROOK)), us)
        THEN {MakeMove(CASTLING, k, r, KNIGHT)} ELSE {}

RuleMoves ==
    LET us == pos.sideToMove
        steps == UNION {{<<s, t>> : t \in Steps(s)} : s \in pieces_of(pos, us)}
        safe == {x \in steps : ~InCheck(BoardAfter(x[1], x[2]), us)}
    IN  UNION {StepMoves(x[1], x[2]) : x \in safe} \cup UNION {CastlesOf(cr) : cr \in ANY_CASTLING}

-----------------------------------------------------------------------------
(* The state that do_move keeps up to date by differences is the state     *)
(* that set_state computes from the board: keys, material, checkers (which *)
(* do_move leaves empty unless gives_check said so), pins, check squares;  *)
(* and threats, once computed, are those of this position                  *)
(* (position.cpp do_move, undo_move, do_null_move, set_state).             *)
StateDescribesBoard ==
    /\ set_state(st(pos), pos.board, pos.sideToMove) = [st(pos) EXCEPT !.threats = {}]
    /\ st(pos).threats \in {{}, compute_threats(pos)}

(* Taking a move back restores the board, the side to move and the ply it  *)
(* found, whatever was captured, promoted or castled in between            *)
(* (position.cpp undo_move, undo_null_move).                               *)
UndoRestores == [][Len(trail') < Len(trail) => Face(pos') = Last(trail).face]_vars

(* The lists hold exactly the legal moves of the game, the capture list    *)
(* those that capture_stage names and the quiet list the others; legal()   *)
(* accepts a move of a corrupt table entry if and only if it is one of     *)
(* them; an en passant square is set only when a capture there is legal    *)
(* (movegen.cpp generate, position.cpp legal, do_move).                    *)
GeneratorsAgree ==
    LET all == generate(pos, ALL)
        ep == {m \in all : m.type = EN_PASSANT}
        guesses == UNION {{Move(s, t) : t \in PseudoAttacks[QUEEN][s] \cup PseudoAttacks[KNIGHT][s]} :
                            s \in pieces(pos)}
    IN  /\ trail # << >> => all = RuleMoves \cup EpCaptures
        /\ ep # {} <=> st(pos).epSquare # SQ_NONE
        /\ st(pos).checkersBB = {} =>
             /\ generate(pos, CAPTURES) = {m \in all : capture_stage(pos, m)}
             /\ generate(pos, QUIETS) = {m \in all : ~capture_stage(pos, m)}
        /\ \A m \in guesses : legal(pos, m) <=> m \in all

(* repetition is the distance to the last earlier occurrence of the        *)
(* position since a null move, negative if it had occurred before, though  *)
(* only keys inside the fifty-move and null-move windows are compared;     *)
(* has_repeated sees any repetition on the way; upcoming_repetition        *)
(* foretells exactly when some legal move leads to a draw by repetition;   *)
(* and the hundredth ply draws unless it mates (position.cpp do_move,      *)
(* do_null_move, is_draw, is_repetition, has_repeated,                     *)
(* upcoming_repetition).                                                   *)
FaceAt(i) ==
    LET n == Len(trail) + 1
    IN  <<IF i = n THEN Face(pos) ELSE trail[i].face, pos.sts[i].castlingRights, pos.sts[i].epSquare>>

\* How far back, since the last null move, the position i plies in stood.
Occurrences(i) ==
    LET nulls == {k \in DOMAIN trail : trail[k].move = NullMove}
        same(j) == FaceAt(j)[1][1] = FaceAt(i)[1][1] /\ FaceAt(j)[1][2] = FaceAt(i)[1][2]
                   /\ FaceAt(j)[2] = FaceAt(i)[2] /\ FaceAt(j)[3] = FaceAt(i)[3]
    IN  {i - j : j \in {j \in 1 .. i - 1 : same(j) /\ \A k \in nulls : k < j \/ k >= i}}

RepetitionIsSound ==
    /\ LastMove # NullMove =>
         LET back == Occurrences(Len(trail) + 1)
         IN  st(pos).repetition = IF back = {} THEN 0
                                  ELSE IF Cardinality(back) > 1 THEN -Min(back) ELSE Min(back)
    /\ (\A i \in DOMAIN trail : trail[i].move # NullMove) =>
         (has_repeated(pos) <=> \E i \in 1 .. Len(trail) + 1 : Occurrences(i) # {})
    /\ trail # << >> /\ start.plies = 1 =>
         (is_draw(pos, 1) <=> st(pos).rule50 >= 100 /\ RuleMoves # {})
    /\ start.nulls => \A ply \in {1, 4, 6} :
         upcoming_repetition(pos, ply)
           <=> \E m \in generate(pos, ALL) :
                 is_repetition(do_move(pos, m, gives_check(pos, m)).pos, ply + 1)

ReadsBack(again, there) ==
    /\ again.ok /\ st(again.pos) = [st(pos) EXCEPT !.pliesFromNull = 0, !.repetition = 0,
                                             !.capturedPiece = NO_PIECE, !.threats = {}]
    /\ Face(again.pos) = Face(pos)
    /\ there.ok
    /\ \A back \in {flip(there.pos)} : back.ok /\ st(back.pos) = st(again.pos)

(* Writing a position and reading it back gives the same position, and     *)
(* exchanging the sides twice does; a rook that lost its castling right    *)
(* and an en passant square that cannot be used are not written            *)
(* (position.cpp fen, set, flip).                                          *)
FenRoundTrips ==
    (\A i \in DOMAIN trail : trail[i].move # NullMove) =>
        ReadsBack(SetPosition(fen(pos), pos.chess960), flip(pos))

(* The key a move's table entry is fetched by ahead of the move is the key *)
(* the child is then looked up by, unless the move touches castling rights *)
(* or an en passant square (position.cpp prefetch_key, position.h          *)
(* adjust_key50).                                                          *)
PrefetchNamesTheChild ==
    [][\A m \in {t.move : t \in Range(trail')} :
         /\ Len(trail') > Len(trail) /\ m = Last(trail').move
         /\ m # NullMove /\ m.type = NORMAL
         /\ st(pos').castlingRights = st(pos).castlingRights
         /\ {st(pos').epSquare, st(pos).epSquare} = {SQ_NONE}
         => prefetch_key(pos, m) = key(pos')]_vars

(* The null-window exchange agrees with the value of the exchange: each    *)
(* side may stop, and takes back with its least valuable piece that is not *)
(* pinned while its pinner stands (position.cpp see_ge).                   *)
RECURSIVE Exchange(_, _, _, _)
Exchange(to, occupied, stm, value) ==
    LET attackers == attackers_to(pos, to, occupied) \cap occupied
        bound == IF st(pos).pinners[Opp(stm)] \cap occupied = {} THEN {} ELSE st(pos).blockersForKing[stm]
        mine == (attackers \cap pieces_of(pos, stm)) \ bound
        s == LeastValuable(pos, mine)
        pt == type_of(piece_on(pos, s))
    IN  IF mine = {} \/ (pt = KING /\ attackers \cap pieces_of(pos, Opp(stm)) # {}) THEN 0
        ELSE Max({0, value - Exchange(to, occupied \ {s}, Opp(stm), PieceValue[pt])})

SeeAgrees ==
    \A m \in {m \in generate(pos, ALL) : m.type = NORMAL} :
        LET victim == piece_on(pos, m.to)
            gain == IF victim = NO_PIECE THEN 0 ELSE PieceValue[type_of(victim)]
            occupied == Toggle(Toggle(pieces(pos), {m.from}), {m.to})
            value == gain - Exchange(m.to, occupied, Opp(pos.sideToMove),
                                     PieceValue[type_of(piece_on(pos, m.from))])
        IN  \A threshold \in {-500, 0, 1, value, value + 1} :
               see_ge(pos, m, threshold) <=> value >= threshold

(* Whatever route made it (forward or backward along the stack, from the   *)
(* refresh cache, or both after a king move), and whatever slots were left *)
(* uncomputed, popped or pushed over in between, an accumulator holds each *)
(* active feature of the position once and nothing else; and a cache entry *)
(* holds the rows of the pieces it remembers (nnue_accumulator.cpp         *)
(* evaluate, update_accumulator_hybrid, update_accumulator_refresh_cache). *)
RowsOf(b, perspective, ksq, q) ==
    AddRows(Nothing, {PsqIndex(perspective, s, b[s], ksq, q) : s \in DOMAIN b}, 1)

AccumulatorLaw ==
    /\ \A c \in Colors : Latest(net.acc).computed[c] =>
         Latest(net.acc).sum[c]
           = AddRows(RowsOf(pos.board, c, square(pos, c), HasQueen(pos, Opp(c))),
                     ActiveThreats(pos, c) \cup ActivePairs(pos, c), 1)
    /\ \A e \in DOMAIN net.cache :
         net.cache[e].sum = RowsOf(net.cache[e].pieces, e[3], e[2], e[1])
=============================================================================
