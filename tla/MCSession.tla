----------------------------- MODULE MCSession -----------------------------
(* Small sessions for TLC.                                                  *)
EXTENDS Session

MCThreads == 0 .. MaxThreads - 1
MCJobs == {"build", "zero", "clear", "search"}

(* A game with a clock, pondering, analysis, and the other limits.          *)
GameLimits == {{"clock"}, {"clock", "ponderMode"}, {"infinite"}}
OtherLimits == {{"movetime"}, {"depth", "ponderMode"}, {"mate"}, {"mate", "ponderMode"}}
AllLimits == GameLimits \cup OtherLimits

GameCommands == {"stop", "go"}
IdleCommands == {"ucinewgame", "Hash", "Threads", "NumaPolicy", "EvalFile", "export_net",
                 "Clear Hash", "SyzygyPath", "error"}
QuietCommands == {"go", "ucinewgame"}
NewGame == {"go", "ucinewgame", "stop"}
JustGo == {"go"}
AllCommands == GameCommands \cup IdleCommands

(* The largest pool gets analysis or a clock with pondering, and besides a  *)
(* game's commands those that rebuild it or replace its network; smaller    *)
(* pools get them all.                                                      *)
LargePoolLimits == {{"infinite"}, {"clock", "ponderMode"}}
LargePoolCommands == {"stop", "go", "Threads", "EvalFile"}
LargePoolIsSpared ==
  size = MaxThreads =>
    /\ limits' \in {limits} \cup LargePoolLimits
    /\ sent' = sent \/ PonderHit
         \/ \E c \in LargePoolCommands, k \in Threads : Receive(c, k + 1)
MCSpec == Init /\ [][Next /\ LargePoolIsSpared]_vars /\ Fairness

(* Every command comes to its end, the last one too.                        *)
CommandsEnd == ReaderReturns /\ EndsAtRest
=============================================================================
