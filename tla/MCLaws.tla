------------------------------- MODULE MCLaws -------------------------------
(* The pure algorithms of the engine side by side: a behaviour is one of    *)
(* the table's arithmetic, of the statistics, of a node's move picker or of *)
(* the vote, and the others rest in a state of their own.                   *)
EXTENDS TTLaws, Vote, MovePicker, Histories

VARIABLE law

lawVars == <<law, call, stat, fronts, lowest, votes, best, next, pass, node, picker, dealt>>

TableRests == call = NoCall
StatsRest  == stat = [op |-> "none"]
Resting(n) == [move |-> CHOOSE m \in Moves : TRUE, score |-> 0, exact |-> TRUE, length |-> 1]
VoteRests  == VoteInit /\ fronts = [n \in 1 .. 1 |-> Resting(n)]
PickRests  ==
  /\ dealt = << >>
  /\ node = [mode |-> "qsearch", depth |-> 0, tt |-> Stray, value |-> << >>, see |-> << >>]
  /\ picker = [stage |-> "QCAPTURE_INIT", skipQuiets |-> FALSE]

LawsInit ==
  \/ law = "table" /\ Init /\ StatsRest /\ VoteRests /\ PickRests
  \/ law = "stats" /\ TableRests /\ StatInit /\ VoteRests /\ PickRests
  \/ law = "vote"  /\ TableRests /\ StatsRest /\ VoteInit /\ PickRests
  \/ law = "pick"  /\ TableRests /\ StatsRest /\ VoteRests /\ PickInit

TableStep == law = "table" /\ Next /\ UNCHANGED <<law, stat, voteVars, pickVars>>
StatsStep == law = "stats" /\ StatNext /\ UNCHANGED <<law, call, voteVars, pickVars>>
VoteStep  == law = "vote" /\ VoteNext /\ UNCHANGED <<law, call, stat, pickVars>>
PickStep  == law = "pick" /\ PickNext /\ UNCHANGED <<law, call, stat, voteVars>>

LawsSpec == LawsInit /\ [][TableStep \/ StatsStep \/ VoteStep \/ PickStep]_lawVars

-----------------------------------------------------------------------------
MCKeys == Key
MCPlies == {0, 1, 40, MaxPly - 1, MaxPly}

Around(v) == v - 2 .. v + 2

MCStoredValues ==
  LET edges == {0, TBWinInMaxPly, ValueTB - 100, ValueTB, MateInMaxPly,
                ValueMate - 100, ValueMate - 40, ValueMate}
  IN  UNION { (Around(v) \cup Around(-v)) \cap Values : v \in edges }

MCScores      == {-31999, -31507, -31506, 0, 20, 31507, 31999}
MCQuietValues == {-15000, -14000, -12000, 0}
MCDividends   == -60 .. 60
MCRootScores  == {-300, -299, -17, -1, 0, 1, 5, 18, 300}
=============================================================================
