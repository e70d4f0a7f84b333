------------------------------ MODULE MCBoard ------------------------------
(* Small positions for TLC, each chosen for a case of the rules.           *)
EXTENDS Board

WP == PIECE + 1
WN == PIECE + 2
WB == PIECE + 3
WR == PIECE + 4
WQ == PIECE + 5
WK == PIECE + 6
BP == PIECE + 9
BN == PIECE + 10
BB == PIECE + 11
BR == PIECE + 12
BQ == PIECE + 13
BK == PIECE + 14

MCStarts == <<
    \* 8/8/8/8/k1p4R/8/3P4/3K4 w - - 0 1
    [fen |-> [placement |-> <<8, SLASH, 8, SLASH, 8, SLASH, 8, SLASH, BK, 1, BP, 4, WR, SLASH, 8, SLASH, 3, WP, 4, SLASH, 3, WK, 4>>,
              sideToMove |-> WHITE, rights |-> <<>>, ep |-> SQ_NONE, rule50 |-> 0, fullmove |-> 1],
     chess960 |-> FALSE, plies |-> 2, nulls |-> FALSE,
     only |-> SQUARES, evals |-> 0],
    \* 8/8/1k6/2b5/2pP4/8/5K2/8 b - d3 0 1
    [fen |-> [placement |-> <<8, SLASH, 8, SLASH, 1, BK, 6, SLASH, 2, BB, 5, SLASH, 2, BP, WP, 4, SLASH, 8, SLASH, 5, WK, 2, SLASH, 8>>,
              sideToMove |-> BLACK, rights |-> <<>>, ep |-> 19, rule50 |-> 0, fullmove |-> 1],
     chess960 |-> FALSE, plies |-> 2, nulls |-> FALSE,
     only |-> SQUARES, evals |-> 0],
    \* 8/P1k5/8/8/8/8/2K4p/6N1 w - - 12 1
    [fen |-> [placement |-> <<8, SLASH, WP, 1, BK, 5, SLASH, 8, SLASH, 8, SLASH, 8, SLASH, 8, SLASH, 2, WK, 4, BP, SLASH, 6, WN, 1>>,
              sideToMove |-> WHITE, rights |-> <<>>, ep |-> SQ_NONE, rule50 |-> 12, fullmove |-> 1],
     chess960 |-> FALSE, plies |-> 3, nulls |-> FALSE,
     only |-> {48, 56, 50, 57, 42, 51, 10, 2, 15, 7, 6, 12, 23}, evals |-> 0],
    \* r3k3/8/8/8/8/8/8/4K2R w Kq - 12 1
    [fen |-> [placement |-> <<BR, 3, BK, 3, SLASH, 8, SLASH, 8, SLASH, 8, SLASH, 8, SLASH, 8, SLASH, 8, SLASH, 4, WK, 2, WR>>,
              sideToMove |-> WHITE, rights |-> <<<<WHITE, KTOKEN>>, <<BLACK, QTOKEN>>>>, ep |-> SQ_NONE, rule50 |-> 12, fullmove |-> 1],
     chess960 |-> FALSE, plies |-> 2, nulls |-> FALSE,
     only |-> SQUARES, evals |-> 0],
    \* 8/8/8/8/8/7k/8/rRK5 w B - 0 1
    [fen |-> [placement |-> <<8, SLASH, 8, SLASH, 8, SLASH, 8, SLASH, 8, SLASH, 7, BK, SLASH, 8, SLASH, BR, WR, WK, 5>>,
              sideToMove |-> WHITE, rights |-> <<<<WHITE, 1>>>>, ep |-> SQ_NONE, rule50 |-> 0, fullmove |-> 1],
     chess960 |-> TRUE, plies |-> 2, nulls |-> FALSE,
     only |-> SQUARES, evals |-> 0],
    \* k7/8/1K6/8/8/8/8/7R w - - 99 80
    [fen |-> [placement |-> <<BK, 7, SLASH, 8, SLASH, 1, WK, 6, SLASH, 8, SLASH, 8, SLASH, 8, SLASH, 8, SLASH, 7, WR>>,
              sideToMove |-> WHITE, rights |-> <<>>, ep |-> SQ_NONE, rule50 |-> 99, fullmove |-> 80],
     chess960 |-> FALSE, plies |-> 1, nulls |-> FALSE,
     only |-> SQUARES, evals |-> 0],
    \* 4k3/8/4n3/8/3p4/2B5/8/4R2K w - - 0 1
    [fen |-> [placement |-> <<4, BK, 3, SLASH, 8, SLASH, 4, BN, 3, SLASH, 8, SLASH, 3, BP, 4, SLASH, 2, WB, 5, SLASH, 8, SLASH, 4, WR, 2, WK>>,
              sideToMove |-> WHITE, rights |-> <<>>, ep |-> SQ_NONE, rule50 |-> 0, fullmove |-> 1],
     chess960 |-> FALSE, plies |-> 1, nulls |-> FALSE,
     only |-> SQUARES, evals |-> 0],
    \* 7k/6n1/8/8/8/8/1N6/K7 w - - 0 1
    [fen |-> [placement |-> <<7, BK, SLASH, 6, BN, 1, SLASH, 8, SLASH, 8, SLASH, 8, SLASH, 8, SLASH, 1, WN, 6, SLASH, WK, 7>>,
              sideToMove |-> WHITE, rights |-> <<>>, ep |-> SQ_NONE, rule50 |-> 0, fullmove |-> 1],
     chess960 |-> FALSE, plies |-> 8, nulls |-> TRUE,
     only |-> {0, 8, 1, 63, 62}, evals |-> 0],
    \* 8/8/8/1k1n4/3p1B2/8/2P2P2/3K4 w - - 0 1
    [fen |-> [placement |-> <<8, SLASH, 8, SLASH, 8, SLASH, 1, BK, 1, BN, 4, SLASH, 3, BP, 1, WB, 2, SLASH, 8, SLASH, 2, WP, 2, WP, 2, SLASH, 3, WK, 4>>,
              sideToMove |-> WHITE, rights |-> <<>>, ep |-> SQ_NONE, rule50 |-> 0, fullmove |-> 1],
     chess960 |-> FALSE, plies |-> 2, nulls |-> FALSE,
     only |-> {10, 26, 3, 12, 29, 20, 27, 35, 41}, evals |-> 2],
    \* 8/2P1k3/8/1q6/8/4n3/8/3K4 w - - 0 1
    [fen |-> [placement |-> <<8, SLASH, 2, WP, 1, BK, 3, SLASH, 8, SLASH, 1, BQ, 6, SLASH, 8, SLASH, 4, BN, 3, SLASH, 8, SLASH, 3, WK, 4>>,
              sideToMove |-> WHITE, rights |-> <<>>, ep |-> SQ_NONE, rule50 |-> 0, fullmove |-> 1],
     chess960 |-> FALSE, plies |-> 2, nulls |-> FALSE,
     only |-> {50, 58, 52, 43, 33, 26, 20, 3, 4, 11}, evals |-> 2],
    \* 8/8/8/8/3q4/4p3/3K4/6k1 w - - 0 1
    [fen |-> [placement |-> <<8, SLASH, 8, SLASH, 8, SLASH, 8, SLASH, 3, BQ, 4, SLASH, 4, BP, 3, SLASH, 3, WK, 4, SLASH, 6, BK, 1>>,
              sideToMove |-> WHITE, rights |-> <<>>, ep |-> SQ_NONE, rule50 |-> 0, fullmove |-> 1],
     chess960 |-> FALSE, plies |-> 3, nulls |-> FALSE,
     only |-> {11, 20, 27, 3, 4, 6, 14}, evals |-> 2]
>>

(* Both ways of generating moves agree, and the exchange on a square is     *)
(* judged as it would be played (movegen.cpp, position.cpp see_ge).         *)
MovesAreJudged == GeneratorsAgree /\ SeeAgrees

(* A position is told as it came about: by the repetitions behind it, and   *)
(* by its FEN (position.cpp do_move, set, fen, flip).                       *)
PositionIsTold == RepetitionIsSound /\ FenRoundTrips

(* A move is taken back whole, and its child was foreseen (position.cpp     *)
(* undo_move, undo_null_move, prefetch_key).                                *)
MovesAreTraced == UndoRestores /\ PrefetchNamesTheChild
=============================================================================
