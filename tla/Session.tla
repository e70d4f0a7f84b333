------------------------------ MODULE Session ------------------------------
(* A whole UCI session: the reader thread of shell/uci.cpp executes the     *)
(* commands through shell/engine.cpp and platform/thread.cpp, the main      *)
(* worker and its helpers run engine/search.cpp's start_searching, and both *)
(* drive pool threads through the one-place job slots of JobSlot.tla.       *)
(*                                                                          *)
(* The two drivers are the reader and the main worker.  What each still has *)
(* to do is a script: the primitive steps of the command it executes, in    *)
(* the order of the code.  A step on a pool thread blocks as the slot does. *)
EXTENDS JobSlot, Sequences, SequencesExt, FiniteSets

CONSTANTS MaxThreads,    \* the largest pool
          MaxCommands,   \* bound: commands the GUI sends before it quits
          LimitSet,      \* the limits a "go" may carry
          Commands,      \* the names of the commands the GUI may send
          IdleOnly       \* those the GUI sends only when no answer is owed

(* The commands that start, stop or reconfigure a search.                   *)
CommandNames == {"stop", "go", "ucinewgame", "Hash", "Threads", "NumaPolicy", "EvalFile",
                 "export_net", "Clear Hash", "SyzygyPath", "error"}

ASSUME SessionAssumption == /\ MaxThreads \in Nat \ {0}
                            /\ Threads = 0 .. MaxThreads - 1
                            /\ {"build", "zero", "clear", "search"} \subseteq Jobs
                            /\ Commands \subseteq CommandNames

Main == 0
Helpers == Threads \ {Main}
Drivers == {"reader", "main"}

VARIABLES script,    \* [Drivers -> the steps still to execute]
          size,      \* threads.size()
          sent,      \* commands received so far
          leaving,   \* "quit" (or the end of the input) or "error" was met
          stop, ponder, stopOnPonderhit,
          limits,    \* the fields set in the current search's limits
          hasMoves,  \* rootMoves is not empty
          deep,      \* [Threads -> rootDepth is the last one allowed]
          phase,     \* [Threads -> where its iterative deepening is]
          late,      \* the clock is past tm.maximum() or limits.movetime
          root,      \* [Threads -> the root its worker holds]
          network,   \* [Threads -> what its worker's network points to]
          owed,      \* searches accepted and not yet answered by a bestmove
          asked      \* the reader raised stop since the search was accepted

search == <<stop, ponder, stopOnPonderhit, limits, hasMoves, deep, phase, late>>
pool == <<size, root, network>>
gui == <<sent, leaving>>
promised == <<owed, asked>>
vars == <<slots, script, pool, gui, search, promised>>

LimitFields == {"clock", "movetime", "depth", "mate", "infinite", "ponderMode"}

TypeOK == /\ SlotTypeOK
          /\ DOMAIN script = Drivers
          /\ size \in 0 .. MaxThreads
          /\ sent \in 0 .. MaxCommands
          /\ {stop, ponder, stopOnPonderhit, hasMoves, late, asked} \subseteq BOOLEAN
          /\ leaving \in {"no", "quit", "error"}
          /\ limits \subseteq LimitFields
          /\ deep \in [Threads -> BOOLEAN]
          /\ phase \in [Threads -> {"between", "in", "decided"}]
          /\ root \in [Threads -> {"none", "old", "current"}]
          /\ network \in [Threads -> {"none", "resident", "dangling"}]
          /\ owed \in {0, 1}

(***************************************************************************)
(* Scripts.                                                                *)
(***************************************************************************)
Do(op) == <<[op |-> op, th |-> Main, job |-> NoJob]>>
On(op, th) == <<[op |-> op, th |-> th, job |-> NoJob]>>
Run(th, f) == <<[op |-> "put", th |-> th, job |-> f],
                [op |-> "notify", th |-> th, job |-> NoJob]>>

(* S(0) \o S(1) \o ... over the first n threads; the helpers are 1 .. n-1.  *)
Each(n, S(_)) == FlattenSeq([i \in 1 .. n |-> S(i - 1)])
EachHelper(n, S(_)) == FlattenSeq([i \in 1 .. n - 1 |-> S(i)])

WaitFor(th) == On("wait", th)
WaitMain == WaitFor(Main)

(* ~Thread and Thread::Thread.                                              *)
DestroyThread(th) == On("exit", th) \o Run(th, "search") \o On("join", th)
BuildThread(th) == On("start", th) \o WaitFor(th) \o Run(th, "build") \o WaitFor(th)

(* TranspositionTable::clear over the parallel-for of a pool of n threads.  *)
ZeroTable(n) == LET Zero(th) == Run(th, "zero")
                IN  Do("resetAge") \o Each(n, Zero) \o Each(n, WaitFor)

(* Engine::set_tt_size, hence TranspositionTable::resize.                   *)
SetTTSize(n) == WaitMain \o Do("freeTable") \o ZeroTable(n)

(* ThreadPool::clear.                                                       *)
ClearPool(n) == LET Clear(th) == Run(th, "clear")
                IN  Each(n, Clear) \o Each(n, WaitFor) \o Do("resetManagers")

(* Engine::resize_threads from a pool of n threads to one of k.             *)
ResizeThreads(n, k) ==
  EachHelper(n, WaitFor) \o Do("setOptions")
    \o (IF n > 0 THEN WaitMain \o Each(n, DestroyThread) ELSE << >>)
    \o Each(k, BuildThread) \o Do("resetManagers") \o WaitMain
    \o SetTTSize(k) \o Do("rehand")

SearchClear(n) == WaitMain \o ZeroTable(n) \o ClearPool(n) \o Do("tbInit")

(* Engine::~Engine and ThreadPool::~ThreadPool.                             *)
Shutdown(n) == WaitMain \o Do("resetSeams") \o WaitMain \o Each(n, DestroyThread)

(***************************************************************************)
(* Slips a maintainer could make in these sequences; none is part of Next. *)
(* Each breaks the property PROJECT.json lists it with.                    *)
(***************************************************************************)
ApplyWithoutWaiting == Do("stop")
ApplyWithoutStopping == WaitMain
QuitWithoutStopping(n) == Shutdown(n)
GoWithoutWaiting(n) == LET SetRoot(th) == On("setRoot", th)
                       IN  Do("setOptions") \o Do("arm") \o Each(n, SetRoot)
                             \o Run(Main, "search")
ClearThenRehand(n) == Do("replaceNet") \o ClearPool(n) \o Do("rehand")
MainNotGathering(n) ==
  LET Launch(th) == Run(th, "search")
  IN  Do("newSearch")
        \o (IF hasMoves THEN EachHelper(n, Launch) \o Do("iterate") \o Do("spin") \o Do("halt")
                               \o Do("vote")
                        ELSE << >>)
        \o Do("bestmove")

(* UCIEngine::apply_idle, Engine::load_network, "quit".                     *)
ApplyIdle == Do("stop") \o WaitMain
LoadNetwork(n) == Do("replaceNet") \o Do("rehand") \o ClearPool(n)
QuitScript(n) == Do("stop") \o Shutdown(n)

(* Engine::go and ThreadPool::start_thinking.                               *)
GoScript(n) == LET SetRoot(th) == On("setRoot", th)
               IN  WaitMain \o Do("setOptions") \o WaitMain \o Do("arm")
                     \o Each(n, WaitFor) \o Each(n, SetRoot) \o Run(Main, "search")

(* Search::Worker::start_searching on the main worker.                      *)
MainScript(n) ==
  LET Launch(th) == Run(th, "search")
  IN  Do("newSearch")
        \o (IF hasMoves THEN EachHelper(n, Launch) \o Do("iterate") \o Do("spin") \o Do("halt")
                               \o EachHelper(n, WaitFor) \o Do("vote")
                        ELSE << >>)
        \o Do("bestmove")

Ready(d, op) == script[d] # << >> /\ Head(script[d]).op = op
Step(d) == Head(script[d])
Advance(d) == script' = [script EXCEPT ![d] = Tail(@)]

Init == /\ SlotInit
        /\ script = [d \in Drivers |-> IF d = "reader" THEN ResizeThreads(0, 1) ELSE << >>]
        /\ size = 0 /\ sent = 0 /\ leaving = "no"
        /\ stop = FALSE /\ ponder = FALSE /\ stopOnPonderhit = FALSE
        /\ limits = {} /\ hasMoves = FALSE /\ late = FALSE
        /\ deep = [th \in Threads |-> FALSE]
        /\ phase = [th \in Threads |-> "between"]
        /\ root = [th \in Threads |-> "none"]
        /\ network = [th \in Threads |-> "none"]
        /\ owed = 0 /\ asked = FALSE

(***************************************************************************)
(* The steps on pool threads, of either driver.                            *)
(***************************************************************************)
Wait(d) == /\ Ready(d, "wait")
           /\ slot[Step(d).th] = "idle"
           /\ Advance(d)
           /\ UNCHANGED <<slots, pool, gui, search, promised>>

PutJob(d) == /\ Ready(d, "put")
             /\ Put(Step(d).th, Step(d).job)
             /\ Advance(d)
             /\ UNCHANGED <<pool, gui, search, promised>>

(* The notify_one after the hand-over: the driver is still inside the       *)
(* Thread while it executes it.                                             *)
NotifyThread(d) == /\ Ready(d, "notify")
                   /\ Advance(d)
                   /\ UNCHANGED <<slots, pool, gui, search, promised>>

StartThread == /\ Ready("reader", "start")
               /\ Start(Step("reader").th)
               /\ size' = size + 1
               /\ Advance("reader")
               /\ UNCHANGED <<root, network, gui, search, promised>>

ExitThread == /\ Ready("reader", "exit")
              /\ Exit(Step("reader").th)
              /\ Advance("reader")
              /\ UNCHANGED <<pool, gui, search, promised>>

JoinThread == LET th == Step("reader").th
              IN  /\ Ready("reader", "join")
                  /\ Join(th)
                  /\ size' = size - 1
                  /\ root' = [root EXCEPT ![th] = "none"]
                  /\ network' = [network EXCEPT ![th] = "none"]
                  /\ Advance("reader")
                  /\ UNCHANGED <<gui, search, promised>>

(***************************************************************************)
(* The other steps of the reader.                                          *)
(***************************************************************************)
Stop == /\ Ready("reader", "stop")
        /\ stop' = TRUE
        /\ asked' = (owed = 1)
        /\ Advance("reader")
        /\ UNCHANGED <<slots, pool, gui, ponder, stopOnPonderhit, limits, hasMoves,
                       deep, phase, late, owed>>

(* start_thinking, from the wait on: the flags, the root moves.             *)
Arm(l, m) == /\ Ready("reader", "arm")
             /\ stop' = FALSE
             /\ stopOnPonderhit' = FALSE
             /\ ponder' = ("ponderMode" \in l)
             /\ limits' = l
             /\ hasMoves' = m
             /\ late' = FALSE
             /\ root' = [th \in Threads |-> IF root[th] = "current" THEN "old" ELSE root[th]]
             /\ owed' = owed + 1
             /\ asked' = FALSE
             /\ Advance("reader")
             /\ UNCHANGED <<slots, size, network, gui, deep, phase>>

SetRoot == LET th == Step("reader").th
           IN  /\ Ready("reader", "setRoot")
               /\ root' = [root EXCEPT ![th] = "current"]
               /\ deep' = [deep EXCEPT ![th] = FALSE]
               /\ Advance("reader")
               /\ UNCHANGED <<slots, size, network, gui, stop, ponder, stopOnPonderhit,
                              limits, hasMoves, phase, late, promised>>

(* modify_and_replicate and a new NUMA configuration destroy every replica. *)
ReplaceNetwork ==
  /\ Ready("reader", "replaceNet")
  /\ network' = [th \in Threads |-> IF network[th] = "none" THEN "none" ELSE "dangling"]
  /\ Advance("reader")
  /\ UNCHANGED <<slots, size, root, gui, search, promised>>

EnsureNetworkReplicated ==
  /\ Ready("reader", "rehand")
  /\ network' = [th \in Threads |-> IF th < size THEN "resident" ELSE "none"]
  /\ Advance("reader")
  /\ UNCHANGED <<slots, size, root, gui, search, promised>>

(* Steps that write what a search reads, and what a search reads is all     *)
(* there is to say of them here: the option snapshot, the table's memory    *)
(* and age, the managers, the tablebases, the seams, the process itself.    *)
Writes == {"setOptions", "freeTable", "resetAge", "resetManagers", "tbInit", "resetSeams", "die"}

WriteShared == /\ \E op \in Writes : Ready("reader", op)
               /\ Advance("reader")
               /\ UNCHANGED <<slots, pool, gui, search, promised>>

(***************************************************************************)
(* The commands.                                                           *)
(***************************************************************************)
CommandScript(c, k) ==
  CASE c = "stop"      -> Do("stop")
    [] c = "go"        -> GoScript(size)
    [] c = "ucinewgame" -> SearchClear(size)
    [] c = "Hash"      -> ApplyIdle \o SetTTSize(size)
    [] c = "Threads"   -> ApplyIdle \o ResizeThreads(size, k)
    [] c = "NumaPolicy" -> ApplyIdle \o Do("replaceNet") \o ResizeThreads(size, size)
                                    \o Do("rehand")
    [] c = "EvalFile"  -> ApplyIdle \o LoadNetwork(size)
    [] c = "export_net" -> ApplyIdle \o Do("replaceNet") \o Do("rehand")
    [] c = "Clear Hash" -> ApplyIdle \o SearchClear(size)
    [] c = "SyzygyPath" -> ApplyIdle \o Do("tbInit")
    [] c = "error"     -> ApplyIdle \o Do("die")

Listening == script["reader"] = << >> /\ leaving = "no"

Receive(c, k) == /\ Listening
                 /\ sent < MaxCommands
                 /\ c \in IdleOnly => owed = 0
                 /\ c # "Threads" => k = size
                 /\ sent' = sent + 1
                 /\ leaving' = (IF c = "error" THEN "error" ELSE "no")
                 /\ script' = [script EXCEPT !["reader"] = CommandScript(c, k)]
                 /\ UNCHANGED <<slots, pool, search, promised>>

PonderHit == /\ Listening
             /\ sent < MaxCommands
             /\ sent' = sent + 1
             /\ ponder' = FALSE
             /\ UNCHANGED <<slots, script, pool, leaving, stop, stopOnPonderhit, limits,
                            hasMoves, deep, phase, late, promised>>

(* "quit", and the end of the input.                                        *)
Quit == /\ Listening
        /\ leaving' = "quit"
        /\ script' = [script EXCEPT !["reader"] = QuitScript(size)]
        /\ UNCHANGED <<slots, pool, sent, search, promised>>

(***************************************************************************)
(* The pool threads.                                                       *)
(***************************************************************************)
TakeJob(th) == /\ Take(th)
               /\ script' = IF th = Main /\ held[th] = "search"
                            THEN [script EXCEPT !["main"] = MainScript(size)] ELSE script
               /\ UNCHANGED <<pool, gui, search, promised>>

InSearch(th) == slot[th] = "busy" /\ held[th] = "search"

FinishJob(th) == /\ End(th)
                 /\ held[th] = "search" =>
                       IF th = Main THEN script["main"] = << >>
                       ELSE phase[th] = "between" /\ (stop \/ deep[th])
                 /\ UNCHANGED <<script, pool, gui, search, promised>>

ParkThread(th) == Idle(th) /\ UNCHANGED <<script, pool, gui, search, promised>>

ReturnThread(th) == Return(th) /\ UNCHANGED <<script, pool, gui, search, promised>>

(***************************************************************************)
(* The search.                                                             *)
(***************************************************************************)
MainStep(op) == /\ Ready("main", op)
                /\ Advance("main")
                /\ UNCHANGED <<slots, pool, gui>>

NewSearch == MainStep("newSearch") /\ UNCHANGED <<search, promised>>

Iterating(th) == InSearch(th) /\ (th = Main => Ready("main", "iterate"))

BeginIteration(th) ==
  /\ Iterating(th)
  /\ phase[th] = "between"
  /\ ~stop
  /\ ~deep[th]
  /\ phase' = [phase EXCEPT ![th] = "in"]
  /\ \E last \in BOOLEAN : deep' = [deep EXCEPT ![th] = last]
  /\ UNCHANGED <<slots, script, pool, gui, promised, stop, ponder, stopOnPonderhit, limits,
                 hasMoves, late>>

(* check_time, called by the main worker every few hundred nodes.           *)
CheckTime == /\ phase[Main] = "in"
             /\ ~ponder
             /\ \/ "clock" \in limits /\ (late \/ stopOnPonderhit)
                \/ "movetime" \in limits /\ late
             /\ stop' = TRUE
             /\ UNCHANGED <<slots, script, pool, gui, promised, ponder, stopOnPonderhit, limits,
                            hasMoves, deep, phase, late>>

FailLow == /\ phase[Main] = "in"
           /\ ~stop
           /\ stopOnPonderhit' = FALSE
           /\ UNCHANGED <<slots, script, pool, gui, promised, stop, ponder, limits, hasMoves,
                          deep, phase, late>>

(* The end of an iteration.  A mate found raises stop on any worker; the    *)
(* main worker, when it manages its time, may have had enough, and then     *)
(* reads ponder before it writes stopOnPonderhit or stop.                   *)
EndIteration(th) ==
  /\ phase[th] = "in"
  /\ \E mated, enough \in BOOLEAN :
       /\ mated => "mate" \in limits /\ ~stop
       /\ enough => /\ th = Main /\ "clock" \in limits
                    /\ ~stop /\ ~mated /\ ~stopOnPonderhit
       /\ stop' = (stop \/ mated \/ (enough /\ ~ponder))
       /\ phase' = [phase EXCEPT ![th] = IF enough /\ ponder THEN "decided" ELSE "between"]
  /\ UNCHANGED <<slots, script, pool, gui, promised, ponder, stopOnPonderhit, limits, hasMoves,
                 deep, late>>

StopOnPonderhit == /\ phase[Main] = "decided"
                   /\ stopOnPonderhit' = TRUE
                   /\ phase' = [phase EXCEPT ![Main] = "between"]
                   /\ UNCHANGED <<slots, script, pool, gui, promised, stop, ponder, limits,
                                  hasMoves, deep, late>>

LeaveDeepening == /\ phase[Main] = "between"
                  /\ stop \/ deep[Main]
                  /\ MainStep("iterate")
                  /\ UNCHANGED <<search, promised>>

(* A slip: the busy wait forgets that it may be pondering.                  *)
SpinIgnoringPonder == /\ stop \/ "infinite" \notin limits
                      /\ MainStep("spin")
                      /\ UNCHANGED <<search, promised>>

(* The busy wait for "stop" or "ponderhit".                                 *)
Spin == /\ stop \/ ~(ponder \/ "infinite" \in limits)
        /\ MainStep("spin")
        /\ UNCHANGED <<search, promised>>

Halt == /\ MainStep("halt")
        /\ stop' = TRUE
        /\ UNCHANGED <<ponder, stopOnPonderhit, limits, hasMoves, deep, phase, late, promised>>

(* best_worker and the rest of start_searching read every worker.           *)
Vote == MainStep("vote") /\ UNCHANGED <<search, promised>>

Bestmove == /\ MainStep("bestmove")
            /\ owed' = owed - 1
            /\ UNCHANGED <<search, asked>>

(* Time passes.                                                             *)
RunLate == /\ owed = 1
           /\ limits \cap {"clock", "movetime"} # {}
           /\ ~late
           /\ late' = TRUE
           /\ UNCHANGED <<slots, script, pool, gui, promised, stop, ponder, stopOnPonderhit,
                          limits, hasMoves, deep, phase>>

Left == leaving # "no" /\ script["reader"] = << >> /\ UNCHANGED vars

DriverStep(d) == Wait(d) \/ PutJob(d) \/ NotifyThread(d)

ReaderStep == \/ DriverStep("reader")
              \/ StartThread \/ ExitThread \/ JoinThread
              \/ Stop \/ SetRoot \/ ReplaceNetwork \/ EnsureNetworkReplicated \/ WriteShared
              \/ \E l \in LimitSet, m \in BOOLEAN : Arm(l, m)

MainWorkerStep == \/ DriverStep("main")
                  \/ NewSearch \/ LeaveDeepening \/ Spin \/ Halt \/ Vote \/ Bestmove
                  \/ StopOnPonderhit

PoolStep(th) == TakeJob(th) \/ FinishJob(th) \/ ParkThread(th) \/ ReturnThread(th)

Next == \/ ReaderStep
        \/ \E c \in Commands, k \in 1 .. MaxThreads : Receive(c, k)
        \/ PonderHit
        \/ Quit
        \/ MainWorkerStep
        \/ CheckTime \/ FailLow
        \/ RunLate
        \/ \E th \in Threads : PoolStep(th) \/ BeginIteration(th) \/ EndIteration(th)
        \/ Left
Spec == Init /\ [][Next]_vars

(***************************************************************************)
(* Fairness: every thread that can run does.  Iterations end; check_time   *)
(* is called again and again, whatever iterations come between; time       *)
(* passes; and a search without a clock comes to its last depth.  Nothing  *)
(* obliges the GUI to send anything, so neither Receive, PonderHit nor     *)
(* Quit is fair.                                                           *)
(***************************************************************************)
ReachLastDepth == /\ limits \cap {"clock", "movetime"} = {}
                  /\ BeginIteration(Main)
                  /\ deep'[Main]

Fairness == /\ WF_vars(ReaderStep)
            /\ WF_vars(MainWorkerStep)
            /\ WF_vars(RunLate)
            /\ SF_vars(CheckTime)
            /\ SF_vars(ReachLastDepth)
            /\ \A th \in Threads : /\ WF_vars(PoolStep(th))
                                   /\ WF_vars(BeginIteration(th))
                                   /\ WF_vars(EndIteration(th))

FairSpec == Spec /\ Fairness

(***************************************************************************)
(* Safety.                                                                 *)
(***************************************************************************)
ThreadOps == {"wait", "put", "notify", "start", "exit", "join"}

(* The reader and the main worker are never inside the same Thread: the     *)
(* discipline under which the single condition variable of Thread.tla       *)
(* loses no wake-up.  It rests on the order of the waits in engine.cpp and  *)
(* thread.cpp and is written down nowhere.                                  *)
ExclusiveDrivers ==
  ~ /\ \A d \in Drivers : script[d] # << >> /\ Step(d).op \in ThreadOps
    /\ Step("reader").th = Step("main").th

(* What a running worker reads is written only while every pool thread is   *)
(* parked: the option snapshot, the flags and roots of the next search, the *)
(* table's memory, the replicas of the network, the managers, the           *)
(* tablebases, the seams, a Thread about to be destroyed, and, at a critical *)
(* error, everything std::exit tears down.                                  *)
WrittenWhenParked ==
  script["reader"] # << >>
    /\ Step("reader").op \in Writes \cup {"arm", "setRoot", "replaceNet", "rehand", "exit"}
      => \A th \in Threads : slot[th] \in {"none", "idle"}

(* A worker that searches holds the root of the search the GUI asked for,   *)
(* also after the pool was rebuilt; and no worker searches, or clears its   *)
(* histories, over a network replica that was destroyed.                    *)
SearchesWhatItShould ==
  \A th \in Threads :
    slot[th] \in {"full", "busy"} /\ ~exiting[th] =>
      /\ held[th] = "search" => root[th] = "current" /\ network[th] = "resident"
      /\ held[th] = "clear" => network[th] # "dangling"

(* When the main worker ranks the workers and reads their lines, the        *)
(* helpers have parked on the current root: nobody writes what it reads.    *)
VoteReadsParkedWorkers ==
  Ready("main", "vote") =>
    \A th \in Helpers : th < size => slot[th] = "idle" /\ root[th] = "current"

(* Nothing a worker reads, and no worker's line, is touched while it runs.  *)
NobodyIsDisturbed == WrittenWhenParked /\ VoteReadsParkedWorkers

(***************************************************************************)
(* The promise to the GUI.                                                 *)
(***************************************************************************)

Held == owed = 1 /\ ~asked /\ (ponder \/ "infinite" \in limits)

(* The searches that end by themselves although the GUI holds them back:    *)
(* one without a legal move, a mate search that has found its mate, an      *)
(* infinite search whose clock has run out.                                 *)
EndsItself == \/ ~hasMoves
              \/ stop /\ "mate" \in limits
              \/ stop /\ "infinite" \in limits /\ limits \cap {"clock", "movetime"} # {}

HeldBack == Held /\ ~EndsItself

Promise == INSTANCE UciPromise WITH heldBack <- HeldBack

(* One bestmove for each search accepted, none while the GUI holds it back, *)
(* and one for every search that is not held back - also when "ponderhit"   *)
(* races with the decision to stop on it.                                   *)
KeepsPromise == Promise!PromiseSpec

(***************************************************************************)
(* Liveness.                                                               *)
(***************************************************************************)

(* The reader comes back from every command to read the next one.           *)
ReaderReturns == script["reader"] # << >> ~> script["reader"] = << >>

(* After "quit" no pool thread is left; after a critical error none runs.   *)
EndsAtRest ==
  leaving # "no" ~> /\ script["reader"] = << >>
                    /\ \A th \in Threads :
                          slot[th] \in IF leaving = "quit" THEN {"none"} ELSE {"none", "idle"}
=============================================================================
