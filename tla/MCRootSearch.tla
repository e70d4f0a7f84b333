---------------------------- MODULE MCRootSearch ----------------------------
(* RootSearch on three root moves, of one tablebase rank or of two, with    *)
(* VALUE_INFINITE at 6, mates from 4 and tablebase results at 3.            *)
EXTENDS RootSearch, TLC

CONSTANTS a, b, c

OneRank  == {<<0, 0, 0>>}
TwoRanks == {<<0, 0, 0>>, <<1, 0, 0>>}

Symmetric == Permutations({a, b, c})

Losses    == {-5, -4, 0}
Undecided == {-1, 0, 1, 2}
=============================================================================
