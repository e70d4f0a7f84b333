------------------------------- MODULE MCTree -------------------------------
(* The tree search on a library of small games, and beside it the clock of  *)
(* the searches that run it: a behaviour is of one of the two, and the other*)
(* rests.  The games were drawn at random and kept for what they reach      *)
(* together: every branch of the search, verified null moves, multi-cuts,   *)
(* table and tablebase mates near the fifty-move count included.            *)
EXTENDS TreeSearch, TimeManager

VARIABLE part

allVars == <<part, treeVars, timeVars>>

TreeRests ==
  /\ game = 1 /\ G = Library[1] /\ line = <<Start(G)>> /\ acc = 1 /\ ss = << >> /\ stack = << >>
  /\ ret = [v |-> 0, partial |-> TRUE] /\ tt = [p \in Pos |-> Empty]
  /\ depths = << >> /\ nodes = 0 /\ nmpMinPly = 0 /\ stop = TRUE

(* A search that is over stays over.                                        *)
Ended == stack = << >> /\ (stop \/ Len(depths) = 1) /\ UNCHANGED treeVars

(* The model's last search: nothing is asked any more.                      *)
Asked == phase = "idle" /\ searches = MaxSearches /\ UNCHANGED timeVars

MCInit ==
  /\ TimeInit
  /\ \/ part = "tree" /\ TreeInit
     \/ part = "time" /\ TreeRests

MCNext ==
  \/ part = "tree" /\ (TreeNext \/ Ended) /\ UNCHANGED <<part, timeVars>>
  \/ part = "time" /\ (TimeNext \/ Asked) /\ UNCHANGED <<part, treeVars>>

MCSpec == MCInit /\ [][MCNext]_allVars

-----------------------------------------------------------------------------
OnClock(own, other, inc) == [Nothing EXCEPT !.own = own, !.other = other, !.inc = inc, !.legal = TRUE]
Ask == [Nothing EXCEPT !.legal = TRUE]

MCGoCommands == {
  OnClock(10, 10, 0), OnClock(2000, 5000, 40), OnClock(0, 10, 0),
  [OnClock(10, 0, 20) EXCEPT !.ponderMode = TRUE, !.ponderOption = TRUE, !.overhead = 1],
  [OnClock(12, 10, 0) EXCEPT !.movestogo = 1, !.ply = 80],
  [OnClock(12, 10, 2) EXCEPT !.movestogo = 2, !.npmsec = 2],
  [OnClock(6, 10, 3) EXCEPT !.npmsec = 2, !.overhead = 1], [OnClock(2, 0, 0) EXCEPT !.npmsec = 2],
  [Ask EXCEPT !.movetime = 5], [Ask EXCEPT !.movetime = 3, !.npmsec = 2],
  [Ask EXCEPT !.nodes = 6], [Ask EXCEPT !.infinite = TRUE],
  [OnClock(10, 10, 0) EXCEPT !.legal = FALSE] }

(* Of a clock under nineteen units, of a short one, of a huge one.          *)
MCAdjusts == {-9, 30, 351}

(* reductions of search.cpp: 2872 / 128 times the logarithm, truncated.     *)
MCReductions ==
  LET table == <<
    0, 0, 15, 24, 31, 36, 40, 43, 46, 49, 51, 53, 55, 57, 59, 60, 62, 63, 64, 66, 67, 68, 69,
    70, 71, 72, 73, 73, 74, 75, 76, 77, 77, 78, 79, 79, 80, 81, 81, 82, 82, 83, 83, 84, 84,
    85, 85, 86, 86, 87, 87, 88, 88, 89, 89, 89, 90, 90, 91, 91, 91, 92, 92, 92, 93, 93, 94,
    94, 94, 95, 95, 95, 95, 96, 96, 96, 97, 97, 97, 98, 98, 98, 98, 99, 99, 99, 99, 100, 100,
    100, 100, 101, 101, 101, 101, 102, 102, 102, 102, 103, 103, 103, 103, 103, 104, 104, 104,
    104, 105, 105, 105, 105, 105, 106, 106, 106, 106, 106, 107, 107, 107, 107, 107, 107, 108,
    108, 108, 108, 108, 109, 109, 109, 109, 109, 109, 110, 110, 110, 110, 110, 110, 111, 111,
    111, 111, 111, 111, 111, 112, 112, 112, 112, 112, 112, 113, 113, 113, 113, 113, 113, 113,
    114, 114, 114, 114, 114, 114, 114, 114, 115, 115, 115, 115, 115, 115, 115, 116, 116, 116,
    116, 116, 116, 116, 116, 117, 117, 117, 117, 117, 117, 117, 117, 117, 118, 118, 118, 118,
    118, 118, 118, 118, 118, 119, 119, 119, 119, 119, 119, 119, 119, 119, 120, 120, 120, 120,
    120, 120, 120, 120, 120, 121, 121, 121, 121, 121, 121, 121, 121, 121, 121, 122, 122, 122,
    122, 122, 122, 122, 122, 122, 122, 122, 123, 123, 123, 123, 123, 123, 123, 123, 123, 123,
    123, 124, 124, 124, 124 >>
  IN  [n \in 0 .. 255 |-> table[n + 1]]

MCCounts == 0 .. 24 \cup 90 .. 100

M(to, capture, exchange, history) == [to |-> to, cap |-> capture, see |-> exchange, hist |-> history]

MCGames == <<
  [moves |-> [w10 |-> <<M("b01", 781, -500, 0), M("b10", 0, 0, 0), M("b11", 0, -300, 0)>>, b10 |-> <<M("w11", 0, -300, 0)>>, w11 |-> <<M("b00", 208,
     208, 0), M("b11", 0, 0, -40000)>>, b11 |-> <<M("w00", 781, 781, -5000)>>, w00 |-> <<M("bM", 1276, 1276, 0), M("b00", 0, 0, 0)>>, b00 |->
     <<M("wM", 208, 208, 0), M("w01", 0, -300, -40000)>>, w01 |-> <<M("bS", 781, -500, 0)>>, b01 |-> <<M("wM", 208, 208, -5000)>>, w02 |-> <<M("bM",
     0, 0, 0)>>, b02 |-> <<M("wM", 208, 208, -5000), M("w02", 0, 0, 0), M("w01", 0, 0, -40000)>>, wM |-> <<>>, bM |-> <<>>, bS |-> <<>>], check |->
     {"b01", "b10", "b11", "bM", "w10", "wM"}, null |-> [w00 |-> "b02", w02 |-> "b00", b02 |-> "w02"], eval |-> [w10 |-> 350, b10 |-> 0, w11 |-> 0,
     b11 |-> 1500, w00 |-> 1500, b00 |-> -900, w01 |-> -900, b01 |-> -300, w02 |-> -300, b02 |-> 350, wM |-> -300, bM |-> -900, bS |-> 60], wdl |->
     [w10 |-> 9, b10 |-> 9, w11 |-> 9, b11 |-> 9, w00 |-> 9, b00 |-> 9, w01 |-> 9, b01 |-> 9, w02 |-> 9, b02 |-> 9, wM |-> 9, bM |-> 9, bS |-> 9],
     rule50Counts |-> TRUE, strong |-> {"b00", "b10", "b11", "bM", "bS", "w01", "w02", "w10", "wM"}, bare |-> {"bS"}, root |-> "w10", rule50 |-> 0,
     depths |-> <<4, 12>>, window |-> <<-32001, 32001>>, pvIdx |-> 1, lastPV |-> <<>>, correction |-> -9000000, seekMate |-> FALSE, mayStop |-> TRUE],
  [moves |-> [w10 |-> <<M("bS", 1276, 1276, -3000), M("b10", 0, 0, 0), M("b12", 0, -300, 0)>>, b10 |-> <<M("w00", 208, 208, 0), M("w11", 0, -300,
     -40000), M("w12", 0, -300, -5000)>>, w11 |-> <<M("b12", 0, 0, -40000), M("b11", 0, -300, -5000)>>, b11 |-> <<M("w12", 0, 0, -40000)>>, w12 |->
     <<M("b12", 0, 0, 0)>>, b12 |-> <<M("wM", 208, 208, -3000)>>, w00 |-> <<M("bS", 1276, 1276, -40000), M("b02", 0, -300, -5000), M("b00", 0, 0,
     -40000), M("bM", 0, 0, -40000)>>, b00 |-> <<M("wM", 1276, 1276, 0), M("w02", 0, -300, -5000)>>, w01 |-> <<M("bM", 208, 208, -5000), M("bS", 0,
     -300, -3000)>>, b01 |-> <<M("wM", 781, -500, -5000), M("w00", 0, 0, 0)>>, w02 |-> <<M("bM", 1276, 1276, 0), M("b02", 0, 0, 0)>>, b02 |->
     <<M("wM", 208, -500, -3000)>>, wM |-> <<>>, bM |-> <<>>, bS |-> <<>>], check |-> {"b01", "bM", "w01", "w11", "wM"}, null |-> [b10 |-> "w12", w12
     |-> "b10", b12 |-> "w12", w00 |-> "b00", b00 |-> "w00", w02 |-> "b00", b02 |-> "w02"], eval |-> [w10 |-> 350, b10 |-> 350, w11 |-> 0, b11 |->
     800, w12 |-> 800, b12 |-> -50, w00 |-> 800, b00 |-> 800, w01 |-> 350, b01 |-> 60, w02 |-> 1500, b02 |-> 1500, wM |-> -900, bM |-> 800, bS |->
     800], wdl |-> [w10 |-> 9, b10 |-> 9, w11 |-> 9, b11 |-> 9, w12 |-> 9, b12 |-> 9, w00 |-> 9, b00 |-> 9, w01 |-> 9, b01 |-> 9, w02 |-> 9, b02 |->
     9, wM |-> 9, bM |-> 9, bS |-> 9], rule50Counts |-> FALSE, strong |-> {"b00", "b01", "b02", "b10", "b11", "b12", "bM", "bS", "w00", "w01", "w02",
     "w10", "w11", "w12", "wM"}, bare |-> {}, root |-> "w10", rule50 |-> 0, depths |-> <<16, 17>>, window |-> <<-32001, 32001>>, pvIdx |-> 0, lastPV
     |-> <<"bS">>, correction |-> 0, seekMate |-> FALSE, mayStop |-> TRUE],
  [moves |-> [w10 |-> <<M("b01", 1276, -500, -5000), M("b12", 0, -300, -3000), M("b10", 0, -300, -5000), M("b11", 0, 0, 0)>>, b10 |-> <<M("w11", 0,
     -300, -3000)>>, w11 |-> <<M("b11", 0, -300, 0), M("b12", 0, -300, 0)>>, b11 |-> <<M("w01", 781, -500, 0)>>, w12 |-> <<M("b10", 0, 0, -40000)>>,
     b12 |-> <<M("w00", 1276, 1276, -3000), M("w12", 0, 0, -40000)>>, w00 |-> <<M("bS", 208, 208, -40000)>>, b00 |-> <<M("wM", 1276, -500, 0),
     M("w00", 0, 0, 0)>>, w01 |-> <<M("bS", 208, -500, 0), M("b00", 0, -300, 0), M("bM", 0, 0, -3000)>>, b01 |-> <<M("w00", 0, 0, -3000), M("w01", 0,
     0, -3000)>>, wM |-> <<>>, bM |-> <<>>, bS |-> <<>>], check |-> {"b00", "b10", "bM", "wM"}, null |-> [w10 |-> "b12", w11 |-> "b11", b11 |-> "w11",
     b12 |-> "w11", w01 |-> "b01", b01 |-> "w00"], eval |-> [w10 |-> -300, b10 |-> -300, w11 |-> 0, b11 |-> -300, w12 |-> -50, b12 |-> 350, w00 |->
     -900, b00 |-> 350, w01 |-> 60, b01 |-> 350, wM |-> 1500, bM |-> 1500, bS |-> 350], wdl |-> [w10 |-> 9, b10 |-> 9, w11 |-> 9, b11 |-> 9, w12 |->
     9, b12 |-> 9, w00 |-> 0, b00 |-> 9, w01 |-> 2, b01 |-> 0, wM |-> 9, bM |-> 9, bS |-> 9], rule50Counts |-> TRUE, strong |-> {"b00", "b01", "b10",
     "b11", "b12", "bM", "bS", "w00", "w01", "w10", "w11", "w12", "wM"}, bare |-> {"bS"}, root |-> "w10", rule50 |-> 95, depths |-> <<12, 13>>, window
     |-> <<-32001, 32001>>, pvIdx |-> 0, lastPV |-> <<>>, correction |-> 0, seekMate |-> TRUE, mayStop |-> TRUE],
  [moves |-> [w10 |-> <<M("b10", 0, -300, -40000), M("b11", 0, 0, 9000)>>, b10 |-> <<M("w12", 0, -300, 9000), M("w11", 0, 0, -5000)>>, w11 |->
     <<M("b11", 0, -300, -40000)>>, b11 |-> <<M("w12", 0, -300, 0)>>, w12 |-> <<M("b00", 208, 208, 9000)>>, b12 |-> <<M("w11", 0, 0, 0), M("w10", 0,
     0, -5000), M("w12", 0, 0, 0)>>, w00 |-> <<M("bS", 781, 781, -5000), M("bM", 0, 0, 9000)>>, b00 |-> <<M("wM", 1276, 1276, -5000), M("w01", 0,
     -300, 0), M("w02", 0, -300, -5000)>>, w01 |-> <<M("bM", 781, 781, -40000), M("bS", 0, 0, 0)>>, b01 |-> <<M("wM", 781, 781, -5000), M("w02", 0,
     -300, 9000), M("w01", 0, -300, 9000)>>, w02 |-> <<M("bS", 208, -500, -40000), M("b02", 0, 0, 0)>>, b02 |-> <<M("w01", 0, 0, -5000), M("w00", 0,
     0, 9000)>>, wM |-> <<>>, bM |-> <<>>, bS |-> <<>>], check |-> {"b02", "bM", "w02", "w10", "wM"}, null |-> [w11 |-> "b12", b11 |-> "w11", w00 |->
     "b00", b00 |-> "w00", w01 |-> "b00", b01 |-> "w01"], eval |-> [w10 |-> -300, b10 |-> -50, w11 |-> -300, b11 |-> 0, w12 |-> -50, b12 |-> 1500, w00
     |-> 1500, b00 |-> 1500, w01 |-> 350, b01 |-> 350, w02 |-> 60, b02 |-> 800, wM |-> 0, bM |-> 800, bS |-> -900], wdl |-> [w10 |-> 9, b10 |-> 9, w11
     |-> 9, b11 |-> 9, w12 |-> 9, b12 |-> 9, w00 |-> 9, b00 |-> 9, w01 |-> 9, b01 |-> 9, w02 |-> 9, b02 |-> 9, wM |-> 9, bM |-> 9, bS |-> 9],
     rule50Counts |-> TRUE, strong |-> {"b00", "b01", "b02", "b11", "b12", "bM", "bS", "w00", "w02", "w10", "w11", "w12", "wM"}, bare |-> {"bS"}, root
     |-> "b12", rule50 |-> 0, depths |-> <<1, 2, 3, 5>>, window |-> <<-32001, 32001>>, pvIdx |-> 0, lastPV |-> <<>>, correction |-> 0, seekMate |->
     FALSE, mayStop |-> TRUE],
  [moves |-> [w10 |-> <<M("b00", 781, -500, 0), M("b10", 0, 0, -5000)>>, b10 |-> <<M("wM", 781, -500, 0), M("w11", 0, -300, -3000)>>, w11 |->
     <<M("b00", 208, -500, 0), M("b11", 0, -300, 0)>>, b11 |-> <<M("wM", 208, -500, -40000), M("w10", 0, 0, -40000)>>, w00 |-> <<M("bM", 208, 208, 0),
     M("b00", 0, 0, -3000), M("bS", 0, 0, 0)>>, b00 |-> <<M("w01", 0, -300, -40000)>>, w01 |-> <<M("bM", 1276, 1276, 0), M("b01", 0, -300, -3000)>>,
     b01 |-> <<M("wM", 1276, 1276, 0), M("w00", 0, -300, 0)>>, wM |-> <<>>, bM |-> <<>>, bS |-> <<>>], check |-> {"b11", "bM", "wM"}, null |-> [w11
     |-> "b10", w00 |-> "b00", b00 |-> "w01", w01 |-> "b01", b01 |-> "w00"], eval |-> [w10 |-> -300, b10 |-> -300, w11 |-> -50, b11 |-> 350, w00 |->
     60, b00 |-> 60, w01 |-> -50, b01 |-> 350, wM |-> -50, bM |-> -50, bS |-> 1500], wdl |-> [w10 |-> 9, b10 |-> 9, w11 |-> 9, b11 |-> 9, w00 |-> 2,
     b00 |-> -2, w01 |-> 2, b01 |-> 2, wM |-> 9, bM |-> 9, bS |-> 9], rule50Counts |-> TRUE, strong |-> {"b00", "b01", "b10", "b11", "bM", "bS",
     "w00", "w10", "w11", "wM"}, bare |-> {"bS"}, root |-> "b10", rule50 |-> 97, depths |-> <<3, 6, 9>>, window |-> <<-32001, 32001>>, pvIdx |-> 1,
     lastPV |-> <<>>, correction |-> -9000000, seekMate |-> FALSE, mayStop |-> TRUE],
  [moves |-> [w10 |-> <<M("b10", 0, 0, 0), M("b11", 0, 0, 0)>>, b10 |-> <<M("w00", 781, 781, -3000)>>, w11 |-> <<M("b00", 781, 781, -40000), M("b12",
     0, 0, -5000)>>, b11 |-> <<M("w02", 1276, 1276, -5000), M("w11", 0, -300, -5000), M("w12", 0, 0, -40000)>>, w12 |-> <<M("bM", 1276, 1276, 0),
     M("b12", 0, 0, 0)>>, b12 |-> <<M("w02", 1276, 1276, -3000), M("w10", 0, 0, -5000)>>, w00 |-> <<M("bS", 781, 781, 0), M("b02", 0, 0, -3000),
     M("b01", 0, 0, 0)>>, b00 |-> <<M("wM", 208, 208, -3000), M("w00", 0, 0, -3000), M("w01", 0, -300, -3000)>>, w01 |-> <<M("b01", 0, 0, -40000)>>,
     b01 |-> <<M("wM", 208, 208, 0)>>, w02 |-> <<M("bM", 208, 208, 0), M("b02", 0, -300, -40000)>>, b02 |-> <<M("wM", 781, 781, -5000), M("w01", 0, 0,
     -3000)>>, wM |-> <<>>, bM |-> <<>>, bS |-> <<>>], check |-> {"bM", "wM"}, null |-> [w10 |-> "b10", b10 |-> "w11", w11 |-> "b10", w12 |-> "b11",
     b12 |-> "w12", w00 |-> "b02", b00 |-> "w02", b01 |-> "w02"], eval |-> [w10 |-> 60, b10 |-> -300, w11 |-> 350, b11 |-> -900, w12 |-> -900, b12 |->
     -300, w00 |-> -50, b00 |-> 1500, w01 |-> 800, b01 |-> -900, w02 |-> 0, b02 |-> 1500, wM |-> 350, bM |-> 800, bS |-> 350], wdl |-> [w10 |-> 9, b10
     |-> 9, w11 |-> 9, b11 |-> 9, w12 |-> 9, b12 |-> 9, w00 |-> 9, b00 |-> 2, w01 |-> 9, b01 |-> 2, w02 |-> 2, b02 |-> 2, wM |-> 9, bM |-> 9, bS |->
     9], rule50Counts |-> FALSE, strong |-> {"b00", "b01", "b02", "b10", "b11", "b12", "bM", "bS", "w00", "w01", "w02", "w10", "w11", "w12", "wM"},
     bare |-> {"bS"}, root |-> "w11", rule50 |-> 0, depths |-> <<18>>, window |-> <<100, 140>>, pvIdx |-> 0, lastPV |-> <<>>, correction |-> -9000000,
     seekMate |-> FALSE, mayStop |-> TRUE],
  [moves |-> [w10 |-> <<M("b01", 1276, -500, 0), M("b12", 0, 0, -40000)>>, b10 |-> <<M("w10", 0, -300, 0), M("w12", 0, 0, -5000)>>, w11 |-> <<M("b01",
     1276, 1276, -5000), M("b11", 0, 0, 0), M("b10", 0, -300, 0), M("b12", 0, -300, -5000)>>, b11 |-> <<M("w10", 0, -300, 0)>>, w12 |-> <<M("b11", 0,
     0, 0), M("b12", 0, 0, 0)>>, b12 |-> <<M("wS", 208, 208, -5000)>>, w00 |-> <<M("bM", 1276, -500, -5000), M("b02", 0, -300, 0)>>, b00 |-> <<M("wS",
     1276, -500, 0), M("wM", 0, 0, 0)>>, w01 |-> <<M("b01", 0, 0, 0)>>, b01 |-> <<M("wM", 781, 781, -5000)>>, w02 |-> <<M("bM", 208, -500, -40000),
     M("b02", 0, 0, 0)>>, b02 |-> <<M("wM", 1276, -500, 0), M("wS", 0, -300, 0)>>, wM |-> <<>>, bM |-> <<>>, wS |-> <<>>], check |-> {"b01", "bM",
     "wM"}, null |-> [w10 |-> "b11", w11 |-> "b10", b11 |-> "w11", w12 |-> "b12", b12 |-> "w10", w00 |-> "b00", b00 |-> "w00", w01 |-> "b00", w02 |->
     "b02", b02 |-> "w02"], eval |-> [w10 |-> -50, b10 |-> -50, w11 |-> -900, b11 |-> 1500, w12 |-> 0, b12 |-> 1500, w00 |-> 1500, b00 |-> 0, w01 |->
     -50, b01 |-> 800, w02 |-> -300, b02 |-> -50, wM |-> -900, bM |-> 0, wS |-> 800], wdl |-> [w10 |-> 9, b10 |-> 9, w11 |-> 9, b11 |-> 9, w12 |-> 9,
     b12 |-> 9, w00 |-> 9, b00 |-> 9, w01 |-> 9, b01 |-> 9, w02 |-> 9, b02 |-> 9, wM |-> 9, bM |-> 9, wS |-> 9], rule50Counts |-> TRUE, strong |->
     {"b00", "b01", "b02", "b10", "b11", "bM", "w01", "w02", "w10", "w11", "w12", "wM", "wS"}, bare |-> {"wS"}, root |-> "w11", rule50 |-> 2, depths
     |-> <<12, 13>>, window |-> <<-32001, 32001>>, pvIdx |-> 0, lastPV |-> <<>>, correction |-> 400000, seekMate |-> FALSE, mayStop |-> TRUE],
  [moves |-> [w10 |-> <<M("b00", 781, -500, -5000), M("b10", 0, -300, 0), M("b12", 0, 0, -40000)>>, b10 |-> <<M("wM", 208, -500, -40000), M("w12", 0,
     0, 0), M("w11", 0, 0, 9000)>>, w11 |-> <<M("b01", 1276, 1276, 9000), M("b11", 0, 0, -40000)>>, b11 |-> <<M("w12", 0, -300, 9000), M("w10", 0, 0,
     0)>>, w12 |-> <<M("b12", 0, 0, 9000)>>, b12 |-> <<M("w11", 0, 0, 0)>>, w00 |-> <<M("bM", 208, 208, -5000), M("b00", 0, -300, 0)>>, b00 |->
     <<M("wM", 1276, 1276, 0), M("w01", 0, -300, 0)>>, w01 |-> <<M("bM", 0, 0, 9000)>>, b01 |-> <<M("w01", 0, -300, -5000)>>, wM |-> <<>>, bM |->
     <<>>, bS |-> <<>>], check |-> {"bM", "w11", "wM"}, null |-> [w10 |-> "b12", b10 |-> "w10", b11 |-> "w12", w12 |-> "b12", b12 |-> "w12", w00 |->
     "b00", b00 |-> "w01", w01 |-> "b00", b01 |-> "w01"], eval |-> [w10 |-> 800, b10 |-> 0, w11 |-> -300, b11 |-> 60, w12 |-> 0, b12 |-> 0, w00 |->
     1500, b00 |-> 1500, w01 |-> 1500, b01 |-> -300, wM |-> 350, bM |-> 60, bS |-> 800], wdl |-> [w10 |-> 9, b10 |-> 9, w11 |-> 9, b11 |-> 9, w12 |->
     9, b12 |-> 9, w00 |-> 2, b00 |-> 9, w01 |-> 2, b01 |-> 9, wM |-> 9, bM |-> 9, bS |-> 9], rule50Counts |-> TRUE, strong |-> {"b00", "b01", "b10",
     "b11", "b12", "bM", "bS", "w00", "w01", "w10", "w12", "wM"}, bare |-> {}, root |-> "b11", rule50 |-> 97, depths |-> <<16, 17>>, window |-> <<-20,
     20>>, pvIdx |-> 0, lastPV |-> <<"w12", "b12", "w11">>, correction |-> 0, seekMate |-> FALSE, mayStop |-> TRUE],
  [moves |-> [w10 |-> <<M("b01", 781, -500, 0), M("b11", 0, 0, 0), M("b10", 0, 0, 0)>>, b10 |-> <<M("w12", 0, 0, -5000), M("w11", 0, -300, 0)>>, w11
     |-> <<M("b02", 1276, 1276, -40000)>>, b11 |-> <<M("w11", 0, -300, -40000)>>, w12 |-> <<M("b02", 208, -500, 0), M("b12", 0, 0, 0)>>, b12 |->
     <<M("w01", 1276, -500, 0), M("w11", 0, -300, -40000)>>, w00 |-> <<M("bM", 1276, 1276, 0), M("b01", 0, -300, 0), M("b00", 0, 0, -40000)>>, b00 |->
     <<M("wM", 0, -300, 0)>>, w01 |-> <<M("bM", 781, -500, -40000), M("b00", 0, 0, 0)>>, b01 |-> <<M("wS", 1276, 1276, -5000), M("w01", 0, -300, 0),
     M("wM", 0, 0, -5000)>>, w02 |-> <<M("b00", 0, -300, 0), M("b01", 0, 0, -5000)>>, b02 |-> <<M("w01", 0, 0, -5000), M("w02", 0, -300, -5000)>>, wM
     |-> <<>>, bM |-> <<>>, wS |-> <<>>], check |-> {"b01", "bM", "wM"}, null |-> [w10 |-> "b10", b10 |-> "w11", w11 |-> "b10", b11 |-> "w10", b12 |->
     "w10", b00 |-> "w00", w01 |-> "b00", w02 |-> "b02", b02 |-> "w02"], eval |-> [w10 |-> -300, b10 |-> -50, w11 |-> 800, b11 |-> 60, w12 |-> 1500,
     b12 |-> -50, w00 |-> 350, b00 |-> 0, w01 |-> -300, b01 |-> 800, w02 |-> 60, b02 |-> 60, wM |-> 1500, bM |-> -50, wS |-> -50], wdl |-> [w10 |-> 9,
     b10 |-> 9, w11 |-> 9, b11 |-> 9, w12 |-> 9, b12 |-> 9, w00 |-> 2, b00 |-> 9, w01 |-> 2, b01 |-> 2, w02 |-> -2, b02 |-> 9, wM |-> 9, bM |-> 9, wS
     |-> 9], rule50Counts |-> FALSE, strong |-> {"b00", "b01", "b02", "b10", "b11", "b12", "bM", "w01", "w02", "w10", "w11", "w12", "wM", "wS"}, bare
     |-> {}, root |-> "w10", rule50 |-> 0, depths |-> <<12, 13>>, window |-> <<-32001, 32001>>, pvIdx |-> 0, lastPV |-> <<>>, correction |-> 0,
     seekMate |-> FALSE, mayStop |-> TRUE],
  [moves |-> [w10 |-> <<M("b02", 208, 208, 0), M("b11", 0, 0, 0)>>, b10 |-> <<M("w00", 208, 208, 0), M("w10", 0, -300, 0), M("w11", 0, -300, 0)>>, w11
     |-> <<M("b02", 1276, 1276, 0), M("b11", 0, -300, -40000)>>, b11 |-> <<M("w02", 781, 781, 0)>>, w00 |-> <<M("b01", 0, 0, -40000)>>, b00 |->
     <<M("wM", 208, 208, 9000), M("w00", 0, 0, -5000)>>, w01 |-> <<M("bS", 1276, 1276, 0), M("b02", 0, -300, 9000)>>, b01 |-> <<M("wM", 1276, -500,
     0), M("w02", 0, 0, -5000)>>, w02 |-> <<M("b00", 0, 0, 9000), M("b02", 0, 0, 0), M("bM", 0, -300, 9000)>>, b02 |-> <<M("wM", 0, 0, -40000)>>, wM
     |-> <<>>, bM |-> <<>>, bS |-> <<>>], check |-> {"b11", "bM", "w10", "wM"}, null |-> [b10 |-> "w11", w11 |-> "b10", w00 |-> "b00", b00 |-> "w01",
     b01 |-> "w02", w02 |-> "b00", b02 |-> "w00"], eval |-> [w10 |-> 60, b10 |-> 60, w11 |-> 60, b11 |-> 60, w00 |-> 0, b00 |-> 1500, w01 |-> -50, b01
     |-> 350, w02 |-> -900, b02 |-> 800, wM |-> -900, bM |-> 800, bS |-> -50], wdl |-> [w10 |-> 9, b10 |-> 9, w11 |-> 9, b11 |-> 9, w00 |-> 9, b00 |->
     2, w01 |-> 0, b01 |-> 2, w02 |-> 2, b02 |-> 2, wM |-> 9, bM |-> 9, bS |-> 9], rule50Counts |-> TRUE, strong |-> {"b00", "b02", "b10", "b11",
     "bM", "bS", "w00", "w01", "w02", "w10", "w11", "wM"}, bare |-> {}, root |-> "w11", rule50 |-> 0, depths |-> <<1, 2, 3, 5>>, window |-> <<-32001,
     32001>>, pvIdx |-> 0, lastPV |-> <<"b02", "wM">>, correction |-> 0, seekMate |-> FALSE, mayStop |-> TRUE],
  [moves |-> [w10 |-> <<M("b10", 0, -300, 9000), M("b11", 0, 0, 0)>>, b10 |-> <<M("wM", 208, -500, 0), M("w11", 0, 0, -5000)>>, w11 |-> <<M("b11", 0,
     0, 0)>>, b11 |-> <<M("w00", 208, -500, 0)>>, w00 |-> <<M("bS", 0, 0, -40000)>>, b00 |-> <<M("wM", 208, 208, -40000), M("w01", 0, 0, -5000),
     M("w00", 0, 0, 9000)>>, w01 |-> <<M("b01", 0, 0, 0)>>, b01 |-> <<M("wM", 781, 781, -40000), M("w00", 0, 0, 9000)>>, wM |-> <<>>, bM |-> <<>>, bS
     |-> <<>>], check |-> {"b00", "b10", "bM", "wM"}, null |-> [w10 |-> "b11", w11 |-> "b11", b11 |-> "w11", w00 |-> "b01", w01 |-> "b01", b01 |->
     "w01"], eval |-> [w10 |-> -900, b10 |-> 1500, w11 |-> -300, b11 |-> 350, w00 |-> -900, b00 |-> 60, w01 |-> -300, b01 |-> -50, wM |-> 1500, bM |->
     -50, bS |-> 350], wdl |-> [w10 |-> 9, b10 |-> 9, w11 |-> 9, b11 |-> 9, w00 |-> 9, b00 |-> 9, w01 |-> 9, b01 |-> 9, wM |-> 9, bM |-> 9, bS |-> 9],
     rule50Counts |-> FALSE, strong |-> {"b00", "b10", "b11", "bM", "bS", "w00", "w01", "w10", "w11", "wM"}, bare |-> {"bS"}, root |-> "b10", rule50
     |-> 97, depths |-> <<18>>, window |-> <<-20, 20>>, pvIdx |-> 0, lastPV |-> <<>>, correction |-> 0, seekMate |-> FALSE, mayStop |-> TRUE],
  [moves |-> [w10 |-> <<M("b01", 208, -500, -5000), M("b11", 0, 0, 0), M("b10", 0, 0, 0), M("b12", 0, -300, 0)>>, b10 |-> <<M("w12", 0, -300, -5000),
     M("w11", 0, 0, 0)>>, w11 |-> <<M("b00", 208, -500, 9000)>>, b11 |-> <<M("w02", 781, 781, 9000), M("w11", 0, 0, 9000)>>, w12 |-> <<M("b01", 208,
     208, 9000), M("b12", 0, 0, 0)>>, b12 |-> <<M("w11", 0, 0, 0)>>, w00 |-> <<M("b01", 0, 0, 9000), M("b00", 0, 0, 0), M("bM", 0, -300, -40000)>>,
     b00 |-> <<M("w01", 0, -300, 0)>>, w01 |-> <<M("bM", 208, -500, -5000), M("b01", 0, 0, 0)>>, b01 |-> <<M("wM", 1276, 1276, -5000), M("w02", 0, 0,
     0)>>, w02 |-> <<M("bM", 0, 0, 9000)>>, b02 |-> <<M("wS", 0, -300, -40000)>>, wM |-> <<>>, bM |-> <<>>, wS |-> <<>>], check |-> {"b00", "b01",
     "bM", "w12", "wM"}, null |-> [b10 |-> "w11", w11 |-> "b11", b11 |-> "w10", b12 |-> "w10", w00 |-> "b02", w01 |-> "b02", w02 |-> "b02", b02 |->
     "w01"], eval |-> [w10 |-> -900, b10 |-> 800, w11 |-> 60, b11 |-> -900, w12 |-> 1500, b12 |-> 60, w00 |-> 0, b00 |-> 0, w01 |-> 60, b01 |-> 800,
     w02 |-> 800, b02 |-> 60, wM |-> -300, bM |-> 60, wS |-> 0], wdl |-> [w10 |-> 9, b10 |-> 9, w11 |-> 9, b11 |-> 9, w12 |-> 9, b12 |-> 9, w00 |-> 9,
     b00 |-> 9, w01 |-> 9, b01 |-> 9, w02 |-> 9, b02 |-> 9, wM |-> 9, bM |-> 9, wS |-> 9], rule50Counts |-> FALSE, strong |-> {"b00", "b01", "b10",
     "b11", "b12", "bM", "w00", "w11", "w12", "wM", "wS"}, bare |-> {"wS"}, root |-> "w12", rule50 |-> 97, depths |-> <<2, 8>>, window |-> <<-31990,
     -31400>>, pvIdx |-> 0, lastPV |-> <<"b01", "wM">>, correction |-> 400000, seekMate |-> FALSE, mayStop |-> TRUE],
  [moves |-> [w10 |-> <<M("b11", 0, -300, -5000), M("b12", 0, 0, -5000), M("b10", 0, -300, 0)>>, b10 |-> <<M("w00", 1276, 1276, 0), M("w12", 0, -300,
     0)>>, w11 |-> <<M("b10", 0, -300, -40000), M("b12", 0, -300, 0)>>, b11 |-> <<M("w00", 208, 208, 0), M("w12", 0, -300, -40000), M("w11", 0, -300,
     -5000)>>, w12 |-> <<M("b00", 1276, -500, 0), M("b12", 0, 0, 0)>>, b12 |-> <<M("w00", 208, -500, 0)>>, w00 |-> <<M("bM", 0, 0, -5000)>>, b00 |->
     <<M("wM", 1276, 1276, -5000), M("wS", 0, 0, 0), M("w01", 0, 0, 0)>>, w01 |-> <<M("bM", 781, 781, 0)>>, b01 |-> <<M("wM", 1276, 1276, 0), M("w00",
     0, -300, -5000), M("w01", 0, -300, 0)>>, wM |-> <<>>, bM |-> <<>>, wS |-> <<>>], check |-> {"b00", "bM", "w12", "wM"}, null |-> [w10 |-> "b10",
     b10 |-> "w10", w11 |-> "b10", b11 |-> "w11", b12 |-> "w11", w00 |-> "b01", w01 |-> "b01", b01 |-> "w01"], eval |-> [w10 |-> -50, b10 |-> 1500,
     w11 |-> 350, b11 |-> 350, w12 |-> -50, b12 |-> -900, w00 |-> 60, b00 |-> 60, w01 |-> -50, b01 |-> 0, wM |-> 1500, bM |-> -300, wS |-> 0], wdl |->
     [w10 |-> 9, b10 |-> 9, w11 |-> 9, b11 |-> 9, w12 |-> 9, b12 |-> 9, w00 |-> 2, b00 |-> 2, w01 |-> 2, b01 |-> 2, wM |-> 9, bM |-> 9, wS |-> 9],
     rule50Counts |-> FALSE, strong |-> {"b00", "b01", "b10", "b11", "b12", "bM", "w00", "w01", "w10", "w11", "w12", "wM", "wS"}, bare |-> {}, root
     |-> "b11", rule50 |-> 2, depths |-> <<3, 6, 9>>, window |-> <<-31990, -31400>>, pvIdx |-> 0, lastPV |-> <<"w00", "bM">>, correction |-> 0,
     seekMate |-> FALSE, mayStop |-> TRUE],
  [moves |-> [w10 |-> <<M("b10", 0, 0, -40000), M("b12", 0, 0, 0)>>, b10 |-> <<M("w00", 781, 781, 9000), M("w12", 0, -300, -40000)>>, w11 |->
     <<M("b11", 0, 0, 9000), M("b10", 0, 0, 9000), M("b12", 0, 0, 0)>>, b11 |-> <<M("w10", 0, 0, 9000)>>, w12 |-> <<M("b11", 0, 0, -5000)>>, b12 |->
     <<M("w00", 208, 208, -5000)>>, w00 |-> <<M("bS", 781, 781, -5000), M("b01", 0, 0, 0)>>, b00 |-> <<M("wM", 208, 208, -40000), M("w01", 0, -300,
     -40000)>>, w01 |-> <<M("bS", 1276, 1276, 0), M("b01", 0, -300, 9000)>>, b01 |-> <<M("wM", 0, 0, 0)>>, wM |-> <<>>, bM |-> <<>>, bS |-> <<>>],
     check |-> {"bM", "w01", "w12", "wM"}, null |-> [w10 |-> "b10", b10 |-> "w10", b11 |-> "w10", w00 |-> "b01", b01 |-> "w00"], eval |-> [w10 |-> 0,
     b10 |-> 800, w11 |-> -300, b11 |-> 0, w12 |-> 0, b12 |-> 60, w00 |-> 60, b00 |-> 800, w01 |-> 350, b01 |-> -900, wM |-> -50, bM |-> -300, bS |->
     1500], wdl |-> [w10 |-> 9, b10 |-> 9, w11 |-> 9, b11 |-> 9, w12 |-> 9, b12 |-> 9, w00 |-> -1, b00 |-> 2, w01 |-> -1, b01 |-> 2, wM |-> 9, bM |->
     9, bS |-> 9], rule50Counts |-> TRUE, strong |-> {"b00", "b01", "b10", "b11", "b12", "bM", "bS", "w00", "w10", "w11", "w12", "wM"}, bare |->
     {"bS"}, root |-> "w10", rule50 |-> 0, depths |-> <<1, 2, 3, 5>>, window |-> <<-32001, 32001>>, pvIdx |-> 0, lastPV |-> <<>>, correction |-> 0,
     seekMate |-> FALSE, mayStop |-> TRUE],
  [moves |-> [w10 |-> <<M("b01", 1276, -500, -5000), M("b11", 0, 0, -40000)>>, b10 |-> <<M("w11", 0, -300, -40000), M("w10", 0, -300, -40000)>>, w11
     |-> <<M("b01", 208, 208, -40000)>>, b11 |-> <<M("w11", 0, -300, -5000)>>, w12 |-> <<M("b12", 0, 0, -5000), M("b10", 0, 0, 9000), M("b11", 0, 0,
     9000)>>, b12 |-> <<M("w01", 781, -500, 0), M("w11", 0, 0, 9000), M("w10", 0, -300, 9000)>>, w00 |-> <<M("b01", 0, 0, -40000)>>, b00 |-> <<M("wM",
     1276, 1276, 0), M("w01", 0, -300, 0), M("w00", 0, 0, -40000)>>, w01 |-> <<M("bM", 1276, 1276, -5000)>>, b01 |-> <<M("w01", 0, 0, 0), M("wS", 0,
     0, 9000)>>, wM |-> <<>>, bM |-> <<>>, wS |-> <<>>], check |-> {"b00", "b12", "bM", "w01", "wM"}, null |-> [w10 |-> "b11", b10 |-> "w10", w11 |->
     "b11", b11 |-> "w10", w12 |-> "b11", w00 |-> "b01", b01 |-> "w00"], eval |-> [w10 |-> -900, b10 |-> -50, w11 |-> 60, b11 |-> 800, w12 |-> 60, b12
     |-> -50, w00 |-> 800, b00 |-> -900, w01 |-> 800, b01 |-> -300, wM |-> 0, bM |-> -300, wS |-> -50], wdl |-> [w10 |-> 9, b10 |-> 9, w11 |-> 9, b11
     |-> 9, w12 |-> 9, b12 |-> 9, w00 |-> 9, b00 |-> 2, w01 |-> 2, b01 |-> 9, wM |-> 9, bM |-> 9, wS |-> 9], rule50Counts |-> TRUE, strong |-> {"b00",
     "b01", "b10", "b11", "b12", "bM", "w00", "w01", "w10", "w11", "w12", "wM", "wS"}, bare |-> {}, root |-> "b10", rule50 |-> 95, depths |-> <<4,
     12>>, window |-> <<-32001, 32001>>, pvIdx |-> 0, lastPV |-> <<>>, correction |-> 400000, seekMate |-> FALSE, mayStop |-> TRUE],
  [moves |-> [w10 |-> <<M("b02", 208, 208, 9000), M("b11", 0, -300, -5000), M("b10", 0, 0, 0)>>, b10 |-> <<M("w11", 0, 0, 0)>>, w11 |-> <<M("b00",
     781, 781, -5000)>>, b11 |-> <<M("w02", 208, 208, -40000), M("w11", 0, -300, -40000)>>, w00 |-> <<M("bS", 208, 208, -40000), M("b01", 0, 0,
     -5000)>>, b00 |-> <<M("w02", 0, 0, -40000), M("w01", 0, -300, -40000)>>, w01 |-> <<M("b01", 0, 0, 9000), M("b02", 0, 0, 0)>>, b01 |-> <<M("wM",
     208, -500, -5000), M("w02", 0, -300, 9000)>>, w02 |-> <<M("bS", 208, 208, -5000)>>, b02 |-> <<M("wM", 208, 208, 0), M("w02", 0, -300, -40000)>>,
     wM |-> <<>>, bM |-> <<>>, bS |-> <<>>], check |-> {"bM", "w00", "w10", "wM"}, null |-> [b10 |-> "w11", w11 |-> "b11", b00 |-> "w02", w01 |->
     "b01", b01 |-> "w02", w02 |-> "b02"], eval |-> [w10 |-> -50, b10 |-> -900, w11 |-> 800, b11 |-> 60, w00 |-> 60, b00 |-> 800, w01 |-> 60, b01 |->
     1500, w02 |-> -300, b02 |-> 0, wM |-> 60, bM |-> -900, bS |-> 800], wdl |-> [w10 |-> 9, b10 |-> 9, w11 |-> 9, b11 |-> 9, w00 |-> -1, b00 |-> 2,
     w01 |-> -2, b01 |-> 9, w02 |-> 0, b02 |-> 9, wM |-> 9, bM |-> 9, bS |-> 9], rule50Counts |-> TRUE, strong |-> {"b00", "b01", "b02", "b10", "b11",
     "bM", "w00", "w01", "w02", "w10", "wM"}, bare |-> {}, root |-> "w10", rule50 |-> 0, depths |-> <<18>>, window |-> <<-32001, 32001>>, pvIdx |-> 0,
     lastPV |-> <<>>, correction |-> 0, seekMate |-> FALSE, mayStop |-> TRUE],
  [moves |-> [w10 |-> <<M("bS", 208, 208, 0), M("b12", 0, -300, 0)>>, b10 |-> <<M("w11", 0, 0, 0)>>, w11 |-> <<M("b11", 0, 0, -40000), M("b12", 0,
     -300, 0)>>, b11 |-> <<M("w10", 0, 0, -40000)>>, w12 |-> <<M("b00", 781, -500, 0), M("b11", 0, -300, -40000), M("b10", 0, 0, 0), M("b12", 0, 0,
     -40000)>>, b12 |-> <<M("wM", 781, 781, -5000)>>, w00 |-> <<M("bS", 0, 0, -5000), M("b00", 0, -300, 0)>>, b00 |-> <<M("wM", 781, 781, 0), M("w01",
     0, -300, 0), M("w02", 0, 0, 0)>>, w01 |-> <<M("bS", 781, -500, -5000), M("bM", 0, 0, -40000)>>, b01 |-> <<M("wM", 781, 781, 0), M("w01", 0, -300,
     0)>>, w02 |-> <<M("bM", 0, -300, 0)>>, b02 |-> <<M("w00", 0, 0, -40000), M("wM", 0, 0, 0)>>, wM |-> <<>>, bM |-> <<>>, bS |-> <<>>], check |->
     {"b00", "b12", "bM", "w01", "wM"}, null |-> [w10 |-> "b10", b10 |-> "w11", w11 |-> "b11", w12 |-> "b11", w00 |-> "b01", b01 |-> "w00", w02 |->
     "b02", b02 |-> "w00"], eval |-> [w10 |-> 0, b10 |-> 60, w11 |-> -900, b11 |-> -900, w12 |-> 350, b12 |-> 60, w00 |-> 350, b00 |-> 350, w01 |->
     -300, b01 |-> 1500, w02 |-> -900, b02 |-> -900, wM |-> 800, bM |-> 0, bS |-> 800], wdl |-> [w10 |-> 9, b10 |-> 9, w11 |-> 9, b11 |-> 9, w12 |->
     9, b12 |-> 9, w00 |-> 0, b00 |-> 2, w01 |-> 2, b01 |-> 2, w02 |-> 2, b02 |-> 2, wM |-> 9, bM |-> 9, bS |-> 9], rule50Counts |-> TRUE, strong |->
     {"b00", "b01", "b02", "b10", "b11", "b12", "bM", "bS", "w00", "w01", "w02", "w10", "w11", "w12", "wM"}, bare |-> {"bS"}, root |-> "w12", rule50
     |-> 0, depths |-> <<18>>, window |-> <<100, 140>>, pvIdx |-> 0, lastPV |-> <<"b00", "wM">>, correction |-> 400000, seekMate |-> FALSE, mayStop
     |-> TRUE],
  [moves |-> [w10 |-> <<M("b00", 781, 781, 0), M("b11", 0, -300, 0)>>, b10 |-> <<M("w12", 0, 0, 0), M("w10", 0, -300, -5000)>>, w11 |-> <<M("b11", 0,
     0, 0), M("b10", 0, 0, -3000)>>, b11 |-> <<M("w12", 0, 0, 0)>>, w12 |-> <<M("b01", 781, 781, 0)>>, b12 |-> <<M("wS", 1276, -500, -5000), M("w12",
     0, -300, 0), M("w10", 0, -300, -3000), M("w11", 0, 0, 0)>>, w00 |-> <<M("bM", 208, 208, -5000)>>, b00 |-> <<M("wS", 0, 0, 0), M("w00", 0, 0, 0),
     M("wM", 0, 0, -40000)>>, w01 |-> <<M("b00", 0, 0, -5000), M("bM", 0, 0, -5000)>>, b01 |-> <<M("w00", 0, 0, -5000), M("wM", 0, 0, -40000),
     M("w01", 0, 0, 0)>>, wM |-> <<>>, bM |-> <<>>, wS |-> <<>>], check |-> {"b10", "bM", "wM"}, null |-> [w11 |-> "b12", b11 |-> "w10", w12 |->
     "b11", b12 |-> "w11", b00 |-> "w00", w01 |-> "b01"], eval |-> [w10 |-> 1500, b10 |-> -50, w11 |-> -900, b11 |-> 800, w12 |-> 1500, b12 |-> 0, w00
     |-> -300, b00 |-> 1500, w01 |-> -300, b01 |-> 350, wM |-> 1500, bM |-> -900, wS |-> 0], wdl |-> [w10 |-> 9, b10 |-> 9, w11 |-> 9, b11 |-> 9, w12
     |-> 9, b12 |-> 9, w00 |-> 9, b00 |-> 9, w01 |-> 9, b01 |-> 9, wM |-> 9, bM |-> 9, wS |-> 9], rule50Counts |-> TRUE, strong |-> {"b00", "b01",
     "b11", "b12", "bM", "w00", "w01", "w10", "w11", "w12", "wM", "wS"}, bare |-> {"wS"}, root |-> "w10", rule50 |-> 95, depths |-> <<18>>, window |->
     <<-32001, 32001>>, pvIdx |-> 1, lastPV |-> <<>>, correction |-> 0, seekMate |-> FALSE, mayStop |-> TRUE],
  [moves |-> [w10 |-> <<M("b11", 0, -300, -40000), M("b10", 0, 0, -40000)>>, b10 |-> <<M("w01", 1276, 1276, 0), M("w11", 0, 0, -5000)>>, w11 |->
     <<M("bM", 208, 208, -3000), M("b11", 0, 0, -40000)>>, b11 |-> <<M("wM", 208, 208, -3000)>>, w00 |-> <<M("b00", 0, 0, 0), M("bS", 0, -300, 0)>>,
     b00 |-> <<M("w02", 0, 0, 0)>>, w01 |-> <<M("b01", 0, -300, -3000), M("b00", 0, 0, 0), M("b02", 0, 0, -40000)>>, b01 |-> <<M("w00", 0, 0,
     -3000)>>, w02 |-> <<M("bS", 1276, 1276, -40000), M("b02", 0, 0, -5000)>>, b02 |-> <<M("w00", 0, 0, 0)>>, wM |-> <<>>, bM |-> <<>>, bS |-> <<>>],
     check |-> {"b00", "b10", "bM", "w00", "w02", "wM"}, null |-> [w10 |-> "b11", w11 |-> "b11", b11 |-> "w10", w01 |-> "b02", b01 |-> "w01", b02 |->
     "w01"], eval |-> [w10 |-> 0, b10 |-> 60, w11 |-> 350, b11 |-> 60, w00 |-> -300, b00 |-> 350, w01 |-> -50, b01 |-> -300, w02 |-> -900, b02 |->
     -50, wM |-> -900, bM |-> -300, bS |-> 0], wdl |-> [w10 |-> 9, b10 |-> 9, w11 |-> 9, b11 |-> 9, w00 |-> 9, b00 |-> 9, w01 |-> 9, b01 |-> 9, w02
     |-> 9, b02 |-> 9, wM |-> 9, bM |-> 9, bS |-> 9], rule50Counts |-> FALSE, strong |-> {"b00", "b01", "b02", "b10", "bM", "w00", "w01", "w02",
     "w10", "w11", "wM"}, bare |-> {}, root |-> "b10", rule50 |-> 0, depths |-> <<7, 14>>, window |-> <<31400, 31990>>, pvIdx |-> 0, lastPV |-> <<>>,
     correction |-> 400000, seekMate |-> FALSE, mayStop |-> TRUE],
  [moves |-> [w10 |-> <<M("b11", 0, 0, 0)>>, b10 |-> <<M("w01", 1276, 1276, 0), M("w10", 0, 0, 0), M("w11", 0, -300, 0)>>, w11 |-> <<M("b00", 1276,
     1276, 0), M("b11", 0, -300, -3000)>>, b11 |-> <<M("wS", 1276, -500, -40000)>>, w00 |-> <<M("b01", 0, -300, 0), M("b00", 0, 0, 0)>>, b00 |->
     <<M("wM", 208, 208, -5000), M("w01", 0, -300, -40000)>>, w01 |-> <<M("bM", 0, 0, 0), M("b01", 0, 0, -3000)>>, b01 |-> <<M("wS", 0, 0, 0)>>, wM
     |-> <<>>, bM |-> <<>>, wS |-> <<>>], check |-> {"b01", "bM", "w11", "wM"}, null |-> [b10 |-> "w10", b11 |-> "w10", w00 |-> "b00", b00 |-> "w00",
     w01 |-> "b00"], eval |-> [w10 |-> 0, b10 |-> 350, w11 |-> 1500, b11 |-> -900, w00 |-> 1500, b00 |-> -900, w01 |-> -50, b01 |-> -50, wM |-> -300,
     bM |-> 1500, wS |-> 60], wdl |-> [w10 |-> 9, b10 |-> 9, w11 |-> 9, b11 |-> 9, w00 |-> 9, b00 |-> 9, w01 |-> 9, b01 |-> 9, wM |-> 9, bM |-> 9, wS
     |-> 9], rule50Counts |-> FALSE, strong |-> {"b00", "b01", "b10", "b11", "bM", "w00", "w10", "w11", "wM", "wS"}, bare |-> {}, root |-> "w11",
     rule50 |-> 0, depths |-> <<2, 8>>, window |-> <<-20, 20>>, pvIdx |-> 0, lastPV |-> <<"b00", "wM">>, correction |-> 0, seekMate |-> TRUE, mayStop
     |-> TRUE],
  [moves |-> [w10 |-> <<M("b12", 0, 0, 0)>>, b10 |-> <<M("wS", 208, 208, -40000), M("w10", 0, 0, 0), M("w12", 0, 0, 0)>>, w11 |-> <<M("b11", 0, -300,
     0), M("b10", 0, 0, -5000)>>, b11 |-> <<M("w01", 1276, 1276, 0), M("w10", 0, 0, -3000)>>, w12 |-> <<M("b01", 781, 781, 0), M("b11", 0, -300, 0)>>,
     b12 |-> <<M("w11", 0, -300, -5000)>>, w00 |-> <<M("b02", 0, 0, -3000)>>, b00 |-> <<M("wM", 0, -300, -5000)>>, w01 |-> <<M("bM", 0, 0, 0),
     M("b02", 0, 0, -40000)>>, b01 |-> <<M("wM", 1276, 1276, 0), M("wS", 0, 0, -3000), M("w00", 0, -300, -3000)>>, w02 |-> <<M("bM", 0, -300, 0)>>,
     b02 |-> <<M("w02", 0, 0, -5000)>>, wM |-> <<>>, bM |-> <<>>, wS |-> <<>>], check |-> {"b00", "b11", "bM", "wM"}, null |-> [w10 |-> "b12", w11 |->
     "b12", w12 |-> "b12", b12 |-> "w10", w00 |-> "b02", w01 |-> "b02", w02 |-> "b01", b02 |-> "w01"], eval |-> [w10 |-> 1500, b10 |-> -900, w11 |->
     0, b11 |-> 1500, w12 |-> 350, b12 |-> 800, w00 |-> 800, b00 |-> 800, w01 |-> -50, b01 |-> 60, w02 |-> -300, b02 |-> 350, wM |-> 350, bM |-> -900,
     wS |-> -900], wdl |-> [w10 |-> 9, b10 |-> 9, w11 |-> 9, b11 |-> 9, w12 |-> 9, b12 |-> 9, w00 |-> 2, b00 |-> 2, w01 |-> 2, b01 |-> 2, w02 |-> 2,
     b02 |-> 9, wM |-> 9, bM |-> 9, wS |-> 9], rule50Counts |-> FALSE, strong |-> {"b00", "b01", "b02", "b10", "b11", "b12", "bM", "w00", "w01",
     "w02", "w10", "w11", "w12", "wM", "wS"}, bare |-> {"wS"}, root |-> "b11", rule50 |-> 97, depths |-> <<18>>, window |-> <<-32001, 32001>>, pvIdx
     |-> 1, lastPV |-> <<"w01", "bM">>, correction |-> 0, seekMate |-> FALSE, mayStop |-> TRUE],
  [moves |-> [w10 |-> <<M("b12", 0, -300, -5000), M("b11", 0, 0, 0)>>, b10 |-> <<M("w01", 781, 781, 0), M("w10", 0, 0, 0), M("w11", 0, 0, 0)>>, w11
     |-> <<M("b11", 0, 0, 0)>>, b11 |-> <<M("w12", 0, -300, -5000)>>, w12 |-> <<M("b12", 0, 0, 0)>>, b12 |-> <<M("w11", 0, -300, 0)>>, w00 |->
     <<M("b00", 0, 0, 0), M("b02", 0, 0, -40000)>>, b00 |-> <<M("wM", 208, 208, 0), M("w02", 0, 0, 0)>>, w01 |-> <<M("bS", 781, 781, 0), M("b02", 0,
     0, 0), M("b01", 0, 0, -5000)>>, b01 |-> <<M("wM", 208, 208, 0), M("w00", 0, -300, -5000)>>, w02 |-> <<M("bM", 208, -500, 0), M("b02", 0, -300,
     0)>>, b02 |-> <<M("wM", 208, 208, -5000)>>, wM |-> <<>>, bM |-> <<>>, bS |-> <<>>], check |-> {"b00", "b02", "bM", "w11", "w12", "wM"}, null |->
     [w10 |-> "b11", b12 |-> "w10", w00 |-> "b01", w01 |-> "b01", w02 |-> "b01"], eval |-> [w10 |-> -50, b10 |-> -900, w11 |-> 60, b11 |-> 60, w12 |->
     -900, b12 |-> -300, w00 |-> 0, b00 |-> 1500, w01 |-> 60, b01 |-> 350, w02 |-> 0, b02 |-> -900, wM |-> -50, bM |-> 60, bS |-> 800], wdl |-> [w10
     |-> 9, b10 |-> 9, w11 |-> 9, b11 |-> 9, w12 |-> 9, b12 |-> 9, w00 |-> 9, b00 |-> 2, w01 |-> -1, b01 |-> 2, w02 |-> 2, b02 |-> 2, wM |-> 9, bM |->
     9, bS |-> 9], rule50Counts |-> TRUE, strong |-> {"b00", "b01", "b02", "b10", "b11", "b12", "bM", "bS", "w01", "w02", "w10", "w11", "w12", "wM"},
     bare |-> {"bS"}, root |-> "w10", rule50 |-> 0, depths |-> <<12, 13>>, window |-> <<-32001, 32001>>, pvIdx |-> 0, lastPV |-> <<"b12", "w11",
     "b11">>, correction |-> 0, seekMate |-> FALSE, mayStop |-> TRUE],
  [moves |-> [w10 |-> <<M("b00", 208, 208, -40000), M("b10", 0, 0, 9000), M("b11", 0, 0, 0)>>, b10 |-> <<M("wM", 1276, 1276, 0)>>, w11 |-> <<M("bS",
     208, 208, 0), M("b10", 0, -300, -5000)>>, b11 |-> <<M("w11", 0, 0, 0)>>, w00 |-> <<M("bS", 208, 208, 0), M("b00", 0, 0, 0)>>, b00 |-> <<M("w01",
     0, -300, 0)>>, w01 |-> <<M("bS", 208, 208, -5000), M("b01", 0, -300, 0), M("bM", 0, -300, -40000)>>, b01 |-> <<M("wM", 0, -300, 0), M("w00", 0,
     0, 0)>>, wM |-> <<>>, bM |-> <<>>, bS |-> <<>>], check |-> {"b01", "bM", "w01", "wM"}, null |-> [w10 |-> "b11", b10 |-> "w10", w11 |-> "b11", b11
     |-> "w11", w00 |-> "b00", b00 |-> "w00"], eval |-> [w10 |-> -300, b10 |-> 0, w11 |-> -50, b11 |-> 1500, w00 |-> 800, b00 |-> 800, w01 |-> -900,
     b01 |-> -50, wM |-> -50, bM |-> -50, bS |-> 350], wdl |-> [w10 |-> 9, b10 |-> 9, w11 |-> 9, b11 |-> 9, w00 |-> 2, b00 |-> -2, w01 |-> 2, b01 |->
     9, wM |-> 9, bM |-> 9, bS |-> 9], rule50Counts |-> TRUE, strong |-> {"b00", "b01", "b10", "b11", "bM", "bS", "w00", "w01", "w10", "w11", "wM"},
     bare |-> {"bS"}, root |-> "w11", rule50 |-> 97, depths |-> <<18>>, window |-> <<-20, 20>>, pvIdx |-> 1, lastPV |-> <<"bS">>, correction |-> 0,
     seekMate |-> TRUE, mayStop |-> TRUE] >>
=============================================================================
