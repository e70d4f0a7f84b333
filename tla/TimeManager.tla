---------------------------- MODULE TimeManager ----------------------------
(***************************************************************************)
(* Time management: how TimeManagement::init (timeman.cpp) turns the limits*)
(* of a go command into budgets, and how check_time, the end of an         *)
(* iteration, ponderhit and stop (search.cpp, engine.cpp) spend them, over *)
(* the searches of a game.  The logarithms and powers of the scales are    *)
(* choices within the bounds the code clamps them to; time is counted in   *)
(* milliseconds, in nodes when nodestime is set, as in the code.           *)
(***************************************************************************)
EXTENDS Integers, FiniteSetsExt

CONSTANTS
  GoCommands,   \* what the GUI may ask: limits, options and root, see Asked
  NoBound,      \* the code: the largest TimePoint halved
  CheckPeriod,  \* calls of check_time between two looks at the clock (512)
  CheckShare,   \* and with a node limit, one in so many nodes (1024)
  Shares,       \* scales of the time left a move may get, in percent
  Adjusts,      \* originalTimeAdjust, in percent
  MaxScales,    \* maxScale without movestogo, in percent (at most 687)
  Factors,      \* what an iteration makes of the optimum, in percent
  Steps,        \* how far the clock and the node counter move at once
  MaxElapsed, MaxSearches  \* bounds of the model

Limits == [own : Nat, other : Nat, inc : Nat, movestogo : Nat, movetime : Nat, nodes : Nat, infinite : BOOLEAN,
           ponderMode : BOOLEAN, npmsec : Nat, overhead : Nat, ply : Nat, ponderOption : BOOLEAN, legal : BOOLEAN]

(* An adjustment of 515 percent stands for 10^17 units left on the clock; a *)
(* clock of less than 19 units makes it negative.                           *)
ASSUME TimeAssumption ==
  /\ GoCommands \subseteq Limits
  /\ NoBound \in Nat
  /\ Shares \subseteq Nat
  /\ Adjusts \subseteq Int /\ \A a \in Adjusts : a <= 515
  /\ MaxScales \subseteq Nat
  /\ Factors \subseteq Nat
  /\ Steps \subseteq Nat
  /\ CheckPeriod \in Nat \ {0} /\ CheckShare \in Nat \ {0}

VARIABLES
  tm,           \* TimeManagement
  limits,       \* LimitsType of the main worker
  mgr,          \* SearchManager: ponder, stopOnPonderhit, callsCnt, adjust
  clock,        \* now() - limits.startTime
  spent,        \* nodes searched by all workers in this search
  stopped,      \* stopFlag
  phase,        \* "idle", "search", "wait"
  searches,     \* searches so far
  asked,        \* ghost: the go command as it was given
  late,         \* ghost: looks at the clock missed since the search was due
  byClock       \* ghost: the clock, not the GUI, raised the stop

timeVars == <<tm, limits, mgr, clock, spent, stopped, phase, searches, asked, late, byClock>>

Unset == -1
Percent(p, x) == (p * x) \div 100
Least(S) == Min(S)
Most(S)  == Max(S)
IfTrue(b) == IF b THEN 1 ELSE 0

-----------------------------------------------------------------------------
(* TimeManagement::init for the limits l of the side to move.  A go command *)
(* has: own, other (clocks), inc, movestogo, movetime, nodes, infinite,     *)
(* ponderMode; the options npmsec (nodestime), overhead, ponderOption; ply; *)
(* and whether the root has a legal move.                                   *)
(* Mutant: a movetime stays in milliseconds when the search counts nodes.   *)
ScaledNever(l) == l

Scaled(l) == [l EXCEPT !.movetime = IF l.npmsec # 0 THEN @ * l.npmsec ELSE @]

(* In nodes as time the clock is a bank of nodes, opened by the first move  *)
(* of a game and refilled at each new time control.                         *)
Bank(t, l) ==
  IF l.npmsec = 0 THEN t
  ELSE IF t.availableNodes = Unset
  THEN [t EXCEPT !.availableNodes = l.npmsec * l.own, !.cyclicBudget = l.npmsec * (l.own - l.inc),
                 !.previousMovesToGo = l.movestogo]
  ELSE [t EXCEPT !.availableNodes = IF l.movestogo > 0 /\ l.movestogo > t.previousMovesToGo /\ t.cyclicBudget > 0
                                    THEN @ + t.cyclicBudget ELSE @,
                 !.previousMovesToGo = l.movestogo]

InNodes(t, l) == IF l.npmsec = 0 THEN l
                 ELSE [l EXCEPT !.own = t.availableNodes, !.inc = @ * l.npmsec, !.overhead = @ * l.npmsec]

MovesAhead(l) ==
  LET scaled == Most({1, l.own \div Most({1, l.npmsec})})
  IN  IF l.movestogo # 0 THEN Least({l.movestogo, 50})
      ELSE IF scaled < 1000 THEN scaled \div 20 ELSE 50

TimeLeft(l) == Most({1, l.own + l.inc * (MovesAhead(l) - 1) - l.overhead * (2 + MovesAhead(l))})

(* The share of the time left, cut when the opponent has more.              *)
Optimum(l, share, adjust) ==
  LET behind == IF l.npmsec = 0 /\ l.movestogo # 1 /\ l.own < l.other
                THEN 100 - (90 * (l.other - l.own)) \div (1 + l.own + l.other) ELSE 100
      given == IF l.movestogo = 0
               THEN Percent(adjust, Least({Percent(share, TimeLeft(l)), (19404 * l.own) \div 100000}))
               ELSE Least({((88 + (100 * l.ply) \div 116) * TimeLeft(l)) \div (100 * MovesAhead(l)), Percent(88, l.own)})
  IN  Most({1, Percent(behind, given)})

Maximum(l, optimum, scale) ==
  LET maxScale == IF l.movestogo = 0 THEN scale ELSE 130 + 11 * MovesAhead(l)
  IN  Most({optimum, Least({(8097 * l.own) \div 10000 - l.overhead, Percent(maxScale, optimum)})})

Budgeted(t, l, share, adjust, scale) ==
  LET optimum == Optimum(l, share, adjust)
  IN  [t EXCEPT !.useNodesTime = l.npmsec # 0,
                !.optimum = optimum + IfTrue(l.ponderOption) * (optimum \div 4),
                !.maximum = Maximum(l, optimum, scale)]

(* Mutant: without a clock the budgets are left as they are.                *)
Forgotten(t, l) == [t EXCEPT !.useNodesTime = l.npmsec # 0]

Unbounded(t, l) == [t EXCEPT !.useNodesTime = l.npmsec # 0, !.optimum = NoBound, !.maximum = NoBound]

(* [tm, limits, adjust] after init.                                         *)
InitBudgets(l, share, adjust, scale) ==
  LET bank == Bank(tm, l)
      own  == InNodes(bank, Scaled(l))
      used == IF l.movestogo = 0 /\ mgr.adjust < 0 THEN adjust ELSE mgr.adjust
  IN  IF l.own = 0 THEN [tm |-> Unbounded(tm, l), limits |-> [Scaled(l) EXCEPT !.npmsec = 0], adjust |-> mgr.adjust]
      ELSE [tm |-> Budgeted(bank, own, share, used, scale), limits |-> own, adjust |-> used]

-----------------------------------------------------------------------------
(* go, through start_thinking, to the head of start_searching: the flags of *)
(* the last search are cleared, the budgets set; with no legal move the     *)
(* search answers at once.                                                  *)
Go(l) ==
  /\ phase = "idle" /\ searches < MaxSearches
  /\ \E share \in Shares, adjust \in Adjusts, scale \in MaxScales :
       LET done == InitBudgets(l, share, adjust, scale)
       IN  /\ tm' = done.tm
           /\ limits' = done.limits
           /\ mgr' = [mgr EXCEPT !.adjust = done.adjust, !.ponder = l.ponderMode, !.stopOnPonderhit = FALSE]
  /\ stopped' = FALSE /\ clock' = 0 /\ spent' = 0
  /\ phase' = IF l.legal THEN "search" ELSE "idle"
  /\ searches' = searches + 1
  /\ asked' = l /\ late' = 0 /\ byClock' = FALSE

elapsed == IF tm.useNodesTime THEN spent ELSE clock
use_time_management == limits.own > 0 \/ limits.other > 0

(* Nodes that do not look at the clock: those of qsearch and of the helpers.*)
Count(n) ==
  /\ phase = "search" /\ ~stopped /\ spent + n <= MaxElapsed
  /\ spent' = spent + n
  /\ UNCHANGED <<tm, limits, mgr, clock, stopped, phase, searches, asked, late, byClock>>

Tick(n) ==
  /\ phase = "search" /\ ~stopped /\ clock + n <= MaxElapsed
  /\ clock' = clock + n
  /\ UNCHANGED <<tm, limits, mgr, spent, stopped, phase, searches, asked, late, byClock>>

(* A go command with a clock; one counted from a bank of nodes that has run *)
(* out is none, unless the opponent has one: use_time_management() is false.*)
Timed == \/ asked.own > 0 /\ (asked.npmsec = 0 \/ limits.own > 0)
         \/ asked.other > 0

(* What the GUI was promised, from the command as it gave it: a movetime in *)
(* milliseconds (in nodes once nodestime converts them), a node limit, the  *)
(* clock once the budget of this search is spent.                           *)
Due ==
  /\ ~mgr.ponder
  /\ \/ Timed /\ (elapsed > tm.maximum \/ mgr.stopOnPonderhit)
     \/ asked.movetime # 0 /\ elapsed >= asked.movetime * Most({1, asked.npmsec})
     \/ asked.nodes # 0 /\ spent >= asked.nodes

(* check_time, at the entry of a node of the main worker.                   *)
CheckTime ==
  /\ phase = "search" /\ ~stopped
  /\ LET looks == mgr.callsCnt - 1 <= 0
         period == IF limits.nodes # 0 THEN Least({CheckPeriod, limits.nodes \div CheckShare}) ELSE CheckPeriod
         raises == /\ looks /\ ~mgr.ponder
                   /\ \/ use_time_management /\ (elapsed > tm.maximum \/ mgr.stopOnPonderhit)
                      \/ limits.movetime # 0 /\ elapsed >= limits.movetime
                      \/ limits.nodes # 0 /\ spent >= limits.nodes
     IN  /\ mgr' = [mgr EXCEPT !.callsCnt = IF looks THEN period ELSE @ - 1]
         /\ stopped' = raises
         /\ byClock' = raises
         /\ late' = IF Due THEN late + 1 ELSE 0
  /\ UNCHANGED <<tm, limits, clock, spent, phase, searches, asked>>

(* A node of the main worker asked the tablebases, which is slow: the next  *)
(* one looks at the clock.                                                  *)
ProbeTables ==
  /\ phase = "search"
  /\ mgr' = [mgr EXCEPT !.callsCnt = 0]
  /\ UNCHANGED <<tm, limits, clock, spent, stopped, phase, searches, asked, late, byClock>>

(* The end of an iteration of the main worker: is there time for another?   *)
(* While pondering the answer is kept for the ponderhit, and a fail low of  *)
(* the next iteration withdraws it.                                         *)
EndIteration(factor, single, decided) ==
  /\ phase = "search" /\ ~stopped
  /\ use_time_management /\ ~mgr.stopOnPonderhit
  /\ LET whole == Percent(factor, tm.optimum)
         total == IF single THEN Least({500 * Most({1, limits.npmsec}), whole}) ELSE whole
         enough == elapsed > Least({total, tm.maximum}) \/ decided
     IN  /\ enough
         /\ IF mgr.ponder THEN mgr' = [mgr EXCEPT !.stopOnPonderhit = TRUE] /\ UNCHANGED stopped
                          ELSE stopped' = TRUE /\ UNCHANGED mgr
  /\ UNCHANGED <<tm, limits, clock, spent, phase, searches, asked, late, byClock>>

FailLow ==
  /\ phase = "search" /\ ~stopped /\ mgr.stopOnPonderhit
  /\ mgr' = [mgr EXCEPT !.stopOnPonderhit = FALSE]
  /\ UNCHANGED <<tm, limits, clock, spent, stopped, phase, searches, asked, late, byClock>>

PonderHit ==
  /\ phase # "idle" /\ mgr.ponder
  /\ mgr' = [mgr EXCEPT !.ponder = FALSE]
  /\ UNCHANGED <<tm, limits, clock, spent, stopped, phase, searches, asked, late, byClock>>

Stop ==
  /\ phase # "idle" /\ ~stopped
  /\ stopped' = TRUE
  /\ UNCHANGED <<tm, limits, mgr, clock, spent, phase, searches, asked, late, byClock>>

(* The iterations end, at a stop or at the last depth; the answer waits for *)
(* the GUI while pondering or on infinite; then the nodes are paid.         *)
IterationsEnd ==
  /\ phase = "search"
  /\ phase' = "wait"
  /\ UNCHANGED <<tm, limits, mgr, clock, spent, stopped, searches, asked, late, byClock>>

Answer ==
  /\ phase = "wait"
  /\ stopped \/ ~(mgr.ponder \/ limits.infinite)
  /\ phase' = "idle" /\ stopped' = TRUE
  /\ tm' = IF limits.npmsec = 0 THEN tm
           ELSE [tm EXCEPT !.availableNodes = Most({0, @ - (spent - limits.inc)})]
  /\ UNCHANGED <<limits, mgr, clock, spent, searches, asked, late, byClock>>

(* ucinewgame.                                                              *)
Clear ==
  /\ phase = "idle"
  /\ tm' = [tm EXCEPT !.availableNodes = Unset, !.previousMovesToGo = 0]
  /\ mgr' = [mgr EXCEPT !.callsCnt = 0, !.adjust = Unset]
  /\ UNCHANGED <<limits, clock, spent, stopped, phase, searches, asked, late, byClock>>

-----------------------------------------------------------------------------
Nothing == [own |-> 0, other |-> 0, inc |-> 0, movestogo |-> 0, movetime |-> 0, nodes |-> 0, infinite |-> FALSE,
            ponderMode |-> FALSE, npmsec |-> 0, overhead |-> 0, ponderOption |-> FALSE, ply |-> 0, legal |-> FALSE]

TimeInit ==
  /\ tm = [useNodesTime |-> FALSE, optimum |-> NoBound, maximum |-> NoBound,
           availableNodes |-> Unset, previousMovesToGo |-> 0, cyclicBudget |-> 0]
  /\ limits = Nothing /\ asked = Nothing
  /\ mgr = [ponder |-> FALSE, stopOnPonderhit |-> FALSE, callsCnt |-> 0, adjust |-> Unset]
  /\ clock = 0 /\ spent = 0 /\ stopped = FALSE /\ phase = "idle" /\ searches = 0 /\ late = 0 /\ byClock = FALSE

TimeNext ==
  \/ \E l \in GoCommands : Go(l)
  \/ \E n \in Steps : Count(n) \/ Tick(n)
  \/ CheckTime \/ ProbeTables
  \/ \E factor \in Factors, single, decided \in BOOLEAN : EndIteration(factor, single, decided)
  \/ FailLow \/ PonderHit \/ Stop \/ IterationsEnd \/ Answer \/ Clear

TimeSpec == TimeInit /\ [][TimeNext]_timeVars

-----------------------------------------------------------------------------
(* The budgets a search reads are its own: without a clock for its side     *)
(* there is no bound, and with one a move gets at least one unit and never  *)
(* more than the clock, or the bank of nodes, holds, whatever an earlier    *)
(* search of the game left behind (timeman.cpp, TimeManagement::init).      *)
BudgetIsOwn ==
  phase # "idle" =>
    IF asked.own = 0 THEN tm.optimum = NoBound /\ tm.maximum = NoBound
    ELSE /\ tm.optimum >= 1 /\ tm.maximum >= 1
         /\ tm.maximum <= Most({1, IF asked.npmsec = 0 THEN asked.own ELSE tm.availableNodes})

(* A search that is not pondering looks at the clock often enough: once it  *)
(* is due it ends within a period of calls, and the clock never ends a      *)
(* search before it is due, in milliseconds and in nodes alike (search.cpp, *)
(* check_time).                                                             *)
StopsInTime == late <= CheckPeriod /\ (byClock => Due)
=============================================================================
