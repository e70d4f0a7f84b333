# Verification of the engine

TLA+ modules that model the parts of this Stockfish whose correctness rests on
order, interleaving or a long history; TLC configurations that check them on
small instances; and TLAPS proofs of the facts that should hold for every
instance. Every definition is translated from the sources under `src/src/`;
`PROJECT.json` names, definition by definition, the lines it stands for, and for
each property a slip (a *mutant*) in the modelled code that the property catches.

Run a model with `tlc -config X.cfg MCmodule.tla`, a proof with
`tlapm XProofs.tla`.

## 1. The system

One process is a UCI shell around a search engine. Its threads are the **reader**
(the main thread, in `UCIEngine::loop`) and a **pool** of native threads, one per
search worker; a few server threads hand out shared memory to other processes.

| Component | State it keeps | Operations | Correct when |
|---|---|---|---|
| **Thread hand-shake** `platform/thread.cpp` | per Thread: mutex, one condition variable, `searching`, `exit`, `jobFunc` | `run_custom_job`, `wait_for_search_finished`, `idle_loop`, constructor, destructor | no wake-up is lost, a job runs once, no caller sleeps for ever |
| **Session** `shell/uci.cpp`, `shell/engine.cpp`, `platform/thread.cpp`, `start_searching` | the pool, the flags `stop`, `ponder`, `stopOnPonderhit`, the limits, roots, network pointers | UCI commands; the main worker's start, gathering and answer | what workers read is written only while they are parked; one bestmove per search, at the right time; the reader always returns |
| **Transposition table** `engine/tt.cpp` | clusters of entries of five relaxed atomics, the generation | `probe`, `save`, `penalize`, `new_search`, `clear`, `resize`, `hashfull` | an entry is one save, whole, to one thread; races never wrap a depth; arithmetic stays in range |
| **Root search** `Worker::iterative_deepening` | the root-move list with scores, flags and lines; the window; the last best line | iterations, lines, re-searches, stop, roll-back | what is shown as exact was searched; a stop loses no proven result |
| **Vote** `Search::best_worker` | fronts of all workers, votes | three passes | no worker would have been a better choice |
| **Shared memory** `platform/shm_unix.h` | lock file, socket files, memory files, per-process objects | `open`, serve, reap, destroy; crash | one written copy for all processes; nothing blocks for ever |
| **Tree search** `Worker::search`, `qsearch` | search stack, move made at each ply, statistics | node search, quiescence, null move, ProbCut, singular search, reductions and re-searches | a decisive score is true of the game; every unwinding restores the position; a stopped search stores nothing |
| **Time management** `engine/timeman.cpp`, `check_time` | optimum, maximum, node bank, the check counter | `init`, `elapsed`, `advance_nodes_time`, `check_time` | budgets are this search's own, in one unit, and end it in time |
| **Position** `engine/position.cpp` | board, list of `StateInfo` | `set`, `fen`, `flip`, `do_move`, `undo_move`, null moves, `see_ge`, repetition | what is kept by differences is what the board says; undo restores |
| **Attacks, move generation** `engine/attacks.*`, `movegen.cpp` | tables filled at start-up | attack sets, five kinds of generation, legality | exactly the legal moves |
| **Move picker** `engine/movepick.cpp` | a stage and a shared buffer | stages, partial sort, `skip_quiet_moves` | every move dealt once |
| **Histories** `engine/history.h` | shared and private statistics | racy updates, sliced clearing, averages | bounded, cleared completely |
| **NNUE** `engine/nnue/` | accumulator stack, refresh cache, network | push, pop, four ways of update, load, save | an accumulator is the sum of its features |
| **Syzygy** `platform/syzygy/tbprobe.cpp` | lazily mapped tables, the hash that finds them | `init`, `mapped`, `decompress_pairs`, probes, root ranking | no probe of half a description; a verdict is true of the game |
| **NUMA** `platform/numa*.{h,cpp}` | node map, replicas | configuration, distribution, binding, lazy replication | every worker has a resident replica of the network loaded |
| **Headless runner and seams** `engine/search_go.cpp`, `host`, `worker_set`, `parallel` | registered function tables, a snapshot of them, static workers | register, snapshot, `go` | a search uses the network, threads and caches it was given |
| **Options** `shell/ucioption.cpp`, `shell/engine.cpp` | option values | `setoption` and its handlers | what depends on an option is rebuilt, in order |
| Output, benchmark, perft, start-up, memory, utilities | streams; blocks | printing, allocation, dispatch | (see section 8) |

**How they interact.** The reader calls `Engine`, which calls `ThreadPool`; both
call members of `Thread`, and so does the main worker for its helpers - the only
two *drivers* of pool threads. Workers share the table, the shared histories,
`stop` and `increaseDepth` without locks; they hold the option snapshot and the
seams by reference, and a plain pointer to a network replica that the reader owns.
Worker 0 calls back into the shell to print. Another process meets this one only
through the directory of socket files.

**What is hard.**
*Interleaving*: the single condition variable of a Thread; the lock-free table;
roots and options written by the reader without a lock; sockets listed and removed
concurrently; table files mapped while others probe. *Ordering*: waits before
writes, gathering before the vote, re-handing the network before clearing the
workers, seams copied before the pool is built. *Stopping*: the stop flag is
loaded eight times in a root iteration and can change between any two loads.
*Failure*: processes killed while they hold the lock or serve; peers that do not
answer; network and table files that break half way. *Liveness*: the busy wait
for `ponderhit`; a reader that waits for a search only it can stop. *State kept by
differences*: keys, pins, checkers, accumulators, refresh caches, all along a
stack that is unwound and reused. *Pruning that must stay sound*: a mate found
behind a null move or without the excluded move, a tablebase result near the
hundredth ply. *Numbers*: ages modulo 32, depths in a byte, values in sixteen bits
under changing plies, striped clearing, a hand-made 128-bit product, averages in
unsigned words, canonical codes over a moving window.
`PROJECT.json` lists these hazards with their lines and covering properties.

## 2. The modules

```
JobSlot  <--implements--  Thread                              MCPool
   ^
   | extends
Session  --implements-->  UciPromise   <- SessionProofs       MCSession
Setup (NumaConfig)   Headless                                 MCSetup <- MCPool
SharedMemory <- SharedMemoryProofs                            MCSharedMemory

TTMath <- TTLaws, Vote, MovePicker, Histories                 MCLaws
   ^
   |----- TTable <- TTableProofs                              MCTTable <- MCTTableProofs
   '----- TreeSearch <- TreeSearchProofs, TimeManager         MCTree
RootSearch <- RootSearchProofs                                MCRootSearch
Attacks <- Position <- MoveGen, Accumulators <- Board         MCBoard
Syzygy, SyzygyPairs, TablebaseProbe, TableFiles               MCTablebases

LawsProofs      about TTLaws, Vote, Histories, MovePicker and TimeManager
PlatformProofs  about Thread, Setup, Headless (through MCSetup) and TableFiles
```

`MC*` modules give constants their values. Several also put machines that never
meet side by side: a variable (`part`, or the like) says which one a behaviour is
of, the others rest in one state, and the properties of each speak of its own
part. This keeps one run per question without multiplying state spaces.

### Thread, JobSlot
`Thread.tla` models one `Thread` object per member of `Threads` and any set of
`Callers`. A lock region is one action (nothing else can see its inside); waiting
on the condition variable is the location `"asleep"`; a notification wakes *any
one* sleeper of that Thread, caller or thread, and may find nobody;
`WakeSpuriously` is the standard's permission. `Construct`, `SetExit` and
`JoinThread` are the constructor and the two halves of the destructor. The code
is right only for callers that keep a discipline, `MayCall`: at most one caller
inside a Thread, and none but the last after `exit`. That discipline is not in
`thread.cpp`; the Session module checks that the engine keeps it
(`ExclusiveDrivers`).

`JobSlot.tla` is what a Thread promises: a slot with at most one job, run once.
`ImplementsSlot` is the refinement.

### Session, UciPromise
The composition. Each driver has a **script**: the primitive steps of the command
it executes, in the order of the code; steps on pool threads block as the slot
does. `CommandScript` inlines `apply_idle`, `resize_threads`, `set_tt_size`,
`ThreadPool::set`, `clear`, `start_thinking`, `load_network`, and so on, so an
order swapped in the code is an order swapped in a script. The main worker's
script is `start_searching`; the iterative deepening of all workers is reduced to
where it stands (`phase`) and to its loads and stores of `stop`, `ponder` and
`stopOnPonderhit`, one step each where the code has separate accesses (the read
of `ponder` and the later write of `stopOnPonderhit` are two). The clock may run
out at any moment (`RunLate`). The node limit is not distinguished from a clock.

`UciPromise.tla` is the protocol: an answer is owed for each search, none while
the GUI holds it back. The three searches that answer although held back are
excluded from the refinement by name (`EndsItself`) and described in section 7.

### TTMath, TTLaws, TTable
`TTMath.tla` holds the pure functions: cluster index, stripes of `clear`, the
packed byte, the value shifts. `TTLaws.tla` calls them with every argument of a
bounded set, one call a state. `TTable.tla` is one cluster under searching
threads: **each load or store of a field is a step**, and a thread nests nodes,
holding the writer of an outer probe while inner nodes save. `penalize` and the
ageing in `save` are a load and a store, as the relaxed atomics are. `MCTTable`
has two instances of it, one that races and one that nests. `MCTTableProofs`
carries the theorems on a single thread over to the second: it shows that instance
to be, definition by definition, the one `TTableProofs` proves about. (The run
itself instantiates `TTable` directly: through a module that extends it, TLC would
take the constants of the racing instance for both.)

### RootSearch
The list of root moves through iterations, lines and re-searches. What a child
search returns is any value of `Values`; `SearchMove` is step 22 of
`search<Root>`; `RaiseStop` may happen at any step. A principal variation is
represented by *which search it came from*: the value that search gave it, whether
that was inside the window, whether its line was completed. That makes "this score
belongs to this line" expressible. Between its observable effects one pass of
the loop reads the flag several times; each control location reads it once or
again exactly where the outcome can differ.

A node may also return before it looks at its moves: `ProbCut` is the two returns of
that name at the root, a value above the window with no move of the list scored.

### TreeSearch
`Worker::search` below the root and `qsearch` as a machine with an explicit call
stack: a frame per running call, a `pc` per place where a call waits for the
search it started, one action per step between two calls. The numbers of the
prunings, margins and reductions are the code's. The chess is a small game graph:
positions that may capture, give check, be bare of pieces, be known to a
tablebase, or pass. What the histories hold is an input of the game, and so are
static evaluations; the table of logarithms behind the reductions is the constant
`reductions`, of `MaxMoves` entries. `stop` may be raised in any state.
`ProvenScores` compares every decisive score returned or stored with the
exhaustive value of the game (recursive definitions, used by TLC alone). It needs
the machine's details: a mate returned by a null-move search must not come out of
the node, nor one found while a move was excluded, nor one of a stopped child.

### TimeManager
`TimeManagement::init`, `advance_nodes_time`, `check_time`, the test at the end of
an iteration, `ponderhit` and `stop`, over several searches that share the manager
as the program's one object does. Logarithms and powers are choices inside the
clamps the code puts after them. Time is milliseconds, or nodes under `nodestime`.
`MCTree` runs this beside TreeSearch, whose calls it bounds.

### MovePicker, Histories, Vote
`MovePicker.tla` keeps the picker's one buffer as the code does, with its indices
into it: `cur`, `endCur`, `endBadCaptures`, `endCaptures`. Scores, outcomes of
`see_ge` and the moment of `skip_quiet_moves` are free; the partial sort is the
code's, so moves below its limit stay in any order (`sort_all` is the same sort with a
limit that every move reaches). Its loops are recursive functions, so that they can be
proved about. `Histories.tla` is the
arithmetic: bounded updates, slices, masks, correction values, divisions done by
multiplication, averages in unsigned words. `Vote.tla` is `best_worker`'s passes:
lowest score, counting, choosing, a worker a step. `MCLaws` runs them together
with TTLaws.

### Attacks, Position, MoveGen, Accumulators, Board
One worker's board. `Attacks.tla` has squares as numbers and bitboards as sets;
`Position.tla` the record a `Position` is, with its chain of `StateInfo`, set up
from a FEN and changed by `do_move`, `undo_move` and the null moves **by the same
differences as the code**: key, pawn and material keys, pins, check squares,
checkers, captured piece, repetition, dirty piece, dirty threats. A key is the set
of Zobrist elements xor-ed into it. `MoveGen.tla` adds generation, legality,
draws, cycles and exchanges. `Accumulators.tla` is the accumulator stack and the
refresh cache: an accumulator is a function from rows to how often each was added,
a free group, so a row added twice and one forgotten can never cancel. Its
routes are those of `evaluate`: forward from the last computed slot, backward when
only the top is computed, from the cache, and the hybrid of the two.
`Board.tla` walks: moves and null moves made and taken back, nodes evaluated or
not, and compares what is kept by differences with a definition from the board.

### Syzygy, SyzygyPairs, TableFiles, TablebaseProbe
The tablebases in four machines. `Syzygy.tla`: a position's index, for tables with
and without pawns, with the files' piece groups, and which materials `init` looks
for. `SyzygyPairs.tla`: `set_sizes` and `decompress_pairs` on tables it compresses
itself and then damages. `TableFiles.tla`: the hash of tables, `init` with its
search of a directory (a material, or one bucket of an insertion, a step), and the
double-checked mapping by several probing workers, one atomic access a step. `TablebaseProbe.tla`: `probe_wdl`, `probe_dtz`, the
search through captures and zeroing moves, the ranking of root moves and the
extension of lines, on explicit graphs whose true values are computed by
retrograde iteration and whose tables are filled the way a generator may fill
them: "don't care" where a capture decides, one side only, or missing.
The extension of a line (`syzygy_extend_pv`) has a clock, which may run out between
any two moves and within any ranking, and the code does not treat the two alike:
`TimeAbort` is its test between the moves of the extension, `VerifyMove` and
`ExtendMove` draw the move at which the ranking they ask for is cut short, and `late`
says that time is up. `verified` counts the moves of the searched line that a
ranking did confirm. When the clock strikes in the first step, the searched line
stays as it was.

### NumaConfig, Setup, Headless
`NumaConfig.tla` is the configuration of nodes as pure operators: from the system,
from L3 domains, from a policy string and back, and the spread of threads.
`Setup.tla` has one action per command that rebuilds something; an action is the
code's sequence of calls, each an operator that takes the engine's record and
returns it. Replicas are addresses that may be destroyed: reading one that was
raises `fault`. `Headless.tla` is the runner with its static workers, whose
refresh caches are seeded once per network address. `MCSetup` has both, and
`MCPool` runs them beside `Thread`.

### SharedMemory
Processes opening, serving, closing and killed at any step, on one directory.
The kernel's part (lock released at death, sockets unheard, file names that stay)
is in the actions that die. A pid may be reused. `TimeOut` is a peer that did not
answer within the second the code allows and sets the history variable `missed`.

## 3. What is checked

| Run | Instance | Question and answer |
|---|---|---|
| `pool` | 2 threads, 2 callers, 2 jobs; four machines, two disks, pools up to 3 (a larger one is cut), ten policies; headless pools up to 3, two nets | no lost wake-up, refinement of the slot, every call returns and every job is run; workers fit their pool and nodes; what is evaluated with is the network loaded |
| `session` | up to 3 threads, 3 commands and a quit, every kind of command and limit | Reader and main worker never drive one Thread; nothing is written under a running worker, and the vote reads parked ones; no worker searches an old root or a destroyed network; the protocol is kept; every command ends and quitting leaves no thread |
| `ucinewgame_blocks` | violation | see section 7 |
| `laws` | words of 4 bits, the engine's own values and plies at every threshold; votes of 1 to 3 workers; a picker with 3 captures, 2 quiets and a table move; statistics with limits 1, 2, 7, 12 and pools of 1 to 9 | addresses, stripes, ages and values; the vote's choice is a best one and an unsearched move has no say; every move is dealt once, in order; statistics stay in range |
| `table` | racing: 2 threads, 1 entry, 2 positions; nesting: 1 thread, 2 nested nodes, a cluster of 2, 3 positions (two share a key, one has key 0) | no depth wraps, a hit has a depth; entries are whole and hits honest; a miss gives up the least |
| `root_lines` | 3 root moves, 1 or 2 tablebase ranks, 2 lines, 2 iterations, losses, a mate and a draw | the list stays whole, in order of rank, its windows open; exact means searched, exact losses are proven and every line has a score; an abandoned line overtakes no loss; mates are kept |
| `root_bounds` | the same with undecided values; violation | see section 7 |
| `tree` | 23 games of up to a dozen positions, up to two depths each, stopped anywhere; 12 `go` commands, two searches of a game | decisive scores are true; the stack unwinds; budgets are this search's; a search ends in time and not before |
| `board` | eleven starts, 1 to 8 plies each | state, legality, exchanges, repetitions, FENs and accumulators agree with the board |
| `tablebases` | indices of every material modelled; short tables, every damage of one field; a hash of 4, two probing workers; random graphs of 9 positions | indices are one-to-one, values read back, files mapped once, verdicts true |
| `tablebases_late` | the graphs of `tablebases`, time up within a ranking; violation | see section 7 |
| `shared_memory` | 3 pids, 3 memories, 4 starts | memory is written before it is read, one memory per directory, live sockets stay, opening ends |

### Bounds and why they are enough
* **Threads.** Two callers and two threads exhaust the sharing of a condition
  variable: the discipline makes each Thread's traffic independent of the others.
  Three pool threads give a main worker and two helpers, so "each" differs from
  "the only one"; the three-thread pool is taken through fewer kinds of command
  and limit (`LargePoolIsSpared`), those that tell helpers apart. Two racing
  threads on one entry show every load/store race of two accesses; the proofs
  cover more.
* **Commands.** Three commands reach every ordered pair around a search (a search,
  a reconfiguration, another search). The GUI sends `go` and `ucinewgame` only
  when it owes nothing (`IdleOnly`), except in `ucinewgame_blocks`.
* **Table.** A cluster of two is the smallest with a choice, one smaller than the
  code's three; `AgingDepth`, `KeepMargin` and the generations are scaled with
  depths 1-4 so that ageing, keeping and wrapping all happen within two searches.
* **Root.** Two lines over three moves leave a move outside the lines; two
  iterations give a previous one. The thresholds (`TBWin` 3, `MateIn` 4,
  `Infinite` 6) keep their order and room on both sides. Symmetry in the moves is
  sound: they occur in no constant but `Moves` itself, and ranks go by place.
* **Tree.** The games were drawn at random and a subset kept that reaches every
  branch of the machine: verified null moves, ProbCut, single and multiple
  extensions, multi-cuts, table hits of every bound, tablebase wins near the
  hundredth ply. Depths and values are the code's own, not scaled. `CheckPeriod`
  (512 calls) is 3 and `CheckShare` (1024) 4.
* **Board.** The rules of chess are not scaled: squares, pieces and rules are all
  there; the starts are small positions, each for a case that is easy to get
  wrong: a pinned en passant capture, promotions with capture, both castlings, a
  Chess960 rook that shields its king, repetitions through null moves, the
  hundredth ply, pinned recaptures, king steps and crossings, queens taken and
  born, pawn pairs, slots left uncomputed and reused. The depth of each walk is
  what that case needs.
* **Tablebases.** Words, blocks and the symbol alphabet are scaled (`Half` 4 for
  32 bits); the hash has 4 buckets for 4096; the fifty-move rule is 4 plies
  (`Fifty`), which puts wins and cursed wins into graphs of nine positions. A ranking
  is cut short at its first or second move or never (`Aborts` 1, 2 and 99), which is
  before anything is known, half way, and not. The machines come to an end, so deadlock is not an error there.
* **Setup.** Two nodes with unequal processors, node numbers with a gap and a node
  without processors are what the distribution and binding code tells apart.
* **Shared memory.** Four starts over three identifiers force a reuse.

### Fairness
`pool`, of the hand-shake: every thread that can run does; waking spuriously is never
required. Set-up and headless runner are checked for safety alone.
`session`: weak fairness of each native thread; strong fairness of
`CheckTime` (it is called at least every 512 nodes, whatever happens between) and
of reaching the last depth in a search without a clock (iterations are numbered
up to `MAX_PLY`); time passes. Nothing obliges the GUI to send anything.
`shared_memory`: a process inside `open` keeps running, and a second passes; no
peer has to answer and none has to close. Starts are finite: with arrivals that
never end, the kernel's lock would have to be fair, which it does not promise.
The other runs check safety; that a search ends in time (`StopsInTime`) is a
bound on calls, stated of states.

## 4. What is proved

For every value of the constants, from the named assumptions of the modules:

| Theorem | Says |
|---|---|
| `PlatformProofs!HandshakeIsSafe` | no wake-up is lost, no caller is stranded, each job is handed over once |
| `PlatformProofs!HandshakeImplementsSlot` | each step of the hand-shake is a step of the slot or none |
| `SessionProofs!DriversNeverMeet`, `WorkersAreNotDisturbed` | for any script of GUI commands, pool sizes, depths and iterations: a Thread never has two callers, and nothing is written, replaced or destroyed that a running worker reads |
| `SessionProofs!SearchersAreFurnished` | whoever searches has the position and the network of the command that started it |
| `SessionProofs!EngineKeepsPromise` | every step of the session is a step of `UciPromise` or none: one `bestmove` at most for each search, and none while the GUI holds it back |
| `LawsProofs` (eight theorems: `IndexLawsHold`, `ValueLawsHold` and the laws they join) | the table's arithmetic for every word size, table, pool, generation count and ply |
| `TTableProofs!RacesNeverWrapDepth`, `RacesKeepHitsDeep` | for any number of threads, entries, positions and nested nodes |
| `TTableProofs!OneThreadKeepsSaves`, `OneThreadReplacesLeast` | with one thread, whatever nests between a node's probe and its save: an entry at rest is one whole save to its key, apart from the move and a lowered depth, a hit claims no depth that was not searched, and a miss gives up the entry worth least |
| `MCTTableProofs!NestedKeepsSaves`, `NestedReplacesLeast` | the same of the instance that the run checks |
| `TreeSearchProofs!SearchStaysBalanced` | for any games, evaluations, windows, iterations and moments of a stop: calls, position and accumulators agree, nothing nests that must not, every window is open and the best value at most alpha, no ply, depth or move number leaves its table |
| `LawsProofs!VoteKeepsTheBest` | for pools of any size |
| `LawsProofs!UnsearchedNeverChosen` | in pools whose other workers' shares do not reach from a proven score to infinity, a move nobody searched is not chosen while a searched one is not lost |
| `LawsProofs!EveryMoveIsDealtOnce` | for any moves of a node, scores and outcomes of `see_ge`: each move is dealt at most once, none is forgotten unless quiets are given up, none comes out of turn |
| `LawsProofs!HistoryLawsHold` | for any limits of the counters, rows and up to 1024 workers, divisors with a magic of their own and averaged scores an int has room for: a counter stays in its limit and goes the way of the bonus, every row is cleared once and found by its key's remainder, the unclamped arm needs no clamp, no correction is decisive, the multiplication divides, and an average lies between its two scores |
| `SharedMemoryProofs!SharedIsAlwaysWritten`, `AlwaysOneSegment`, `LiveSocketAlwaysStays` | for any number of processes, memories, crashes and restarts |
| `RootSearchProofs!LinesAreAlwaysInOrder` | for any root moves, ranks, lines, iterations, values and window widths, and a stop at any point: the list stays whole and in order of rank, and no search begins on an empty window |
| `RootSearchProofs!ExactScoresAlwaysHaveTheirLine` | a line shown as exact comes with the variation of the search that gave it its score |
| `RootSearchProofs!ExactMeansAlwaysProven` | an exact score has its line, an exact loss up to the line at which the last iteration ended was searched to its end, and every line shown has a score |
| `RootSearchProofs!AbandonedLineNeverOvertakes`, `MateIsNeverForgotten` | of any step: a line abandoned behind a proven loss leaves the lines before it as they are; an iteration that ends with a mate in front is never followed by one that ends with less |
| `PlatformProofs!TablesAreFoundAndMappedOnce` | for any materials, hash size, homes, directories and probing workers: every lookup ends in the table of its material or in none, a table is mapped once, and a probe answers what its file holds |
| `LawsProofs!BudgetsAreAlwaysOwn` | for any history of searches, clocks, increments, overheads, stages and node banks: budgets are at least one unit and within what the side has left |
| `LawsProofs!SearchesStopInTime` | for any commands, clocks, and orders of calls, ticks, probes, ponderhits and stops: a search that is due stops within one period of `check_time`'s calls, and the clock stops none that is not due by its command |
| `PlatformProofs!WorkersAlwaysReadTheLoadedNetwork` | for any machine, files, policies and sequence of options, commands and searches: every worker points at the live replica of its node, with the loaded weights and a cache seeded from them |
| `PlatformProofs!AlwaysAnswersFromItsNet` | for any nets, workers, hosts and refusals |
| `PlatformProofs!NetworksAreAlwaysRead` | both of these, of the specification the run checks |

**Along which argument.**
*Thread*: the discipline as a state predicate (`Exclusive`, `EngagedAlive`,
`ExitIsLast`) is what makes `NoLostWakeup` inductive: with one caller, the only
sleeper a notification can meet is the one it is for. *TTable*: a depth travels
from a load to a store in a thread's locals, so the bound must also hold there
(`LoadedDepthInRange`). With one thread more can be said (`OneInv`): the entry
being saved holds, field by field, what the save has stored so far, every other
entry is the whole of one save, what a probe has loaded is what the entry still says,
and the running minimum of a miss is the least of those weighed. *Vote*: the choice is a best one among those already seen;
the comparison is not transitive in general, and the proof splits on whether
either side is decisive, which is where it could break. That an unsearched move has
no say follows the three passes (`SayInv`): the lowest score is a bound of all, an
unsearched worker's move has had at most one share from each worker counted, and once
the third pass has met a searched move that is not lost it holds a searched one.
*SharedMemory*: one
memory needs that whoever holds the lock knows every server (`NoneForgotten`: a
live server's socket is in the list still to be asked, or has answered), that the
lock excludes, and that only unheard sockets are reaped (`ReapsTheDead`).
*RootSearch*: two inductive invariants. In `IInv` the places of one rank are
searched together, so sorting and rolling back permute within a rank; the move kept
for a roll-back is of the front's rank; the head of a line is searched first, so a
finished line has a scored head and what is recorded at the end of an iteration is
a value; a failed window moves by a delta that stays positive. That sorting is a
permutation rests on `Ranking`: in a strict total order on n places, how many come
before each takes every value once. In `PairInv` every score, exact or not, has its
line until a stop, so what is saved or recorded for later is saved with its own;
after a stop only what is marked inexact loses it. `LineInv` says which places have
been searched: those before the line being searched, and of its own search the head
first, so an exact loss is either complete or marked when the stop is met. `ShowInv`
counts the moves that had a score before: the places that can be shown always have
one from this iteration or the last. *Session*: a command, a job and a search are
scripts, sequences of small steps that several actors execute in turn, built by
concatenation, flattening and selection. `Carries` says of a script that what it
knows on the way (which Threads are parked, who holds the pool, whether the position
is set) is enough for every step left in it; it is proved of each builder, and for
those that loop over the pool by induction on the number of Threads, stated about a
set of naturals. The invariant joins it with the state: `ReaderInv` and `MainInv` for
the two drivers, `SlotsRest` for Threads nobody drives, `SearchIsReady` for what a
search finds, `StopIsDue` for what the GUI has asked; the last one gives the
refinement. It needs none of the bounds and restrictions of the runs. *TableFiles*:
every entry of the hash stands behind a run of taken buckets that begins at its home
and whose entries have homes no farther on (`RobinHood`); the entry carried by an
insertion has passed such a run too (`CarriedIsOnItsWay`), and a table found is in
the hash under both its keys but for the one carried (`NoneIsLost`). From that a
lookup ends at its key or at the first empty bucket. The mapping needs that an entry
not yet published is unopened or held by the one worker in the mutex (`EntriesRest`,
`ProbeIsTrue`). *TreeSearch*: `TreeInv` has one part that looks along the stack of
calls (`Calls`). Each frame is typed by the place it waits at (`FrameOk`: its window,
its depth, the move number, what is left in its queue, which of its flags can be set
there); each frame and the next fit together (`Linked`: plies, windows of a null or
excluded search, what a verification forbids below it), the position and the
accumulators have as many entries as the calls have made moves (`Counted`), the top
call knows what it asked (`Topped`). One lemma for each action shows that it leaves
the stack as a call, a return or a step of the top frame, and three lemmas on those
three shapes carry the rest. *TimeManager*: the node bank, once
opened, is never overdrawn, however much a search overspends; the scales are
assumed to stay in their clamps and `originalTimeAdjust` at or below 515 percent,
that is, clocks below 10^17 units. `Punctual` gives the looks missed since the
search was due and the calls before the next look one period together, and has the
limits in force say what the command said (`Renders`), the bank apart. *Headless*: every cache of every static worker
holds the network on record, also after refused and resized calls. *Setup*:
`EngineInv` says of an engine at rest that its replicas lie where its configuration
wants them (`ReplicaHomes`) and are of one network, that its workers live in such
places (`Housed`; the pool is bound by the same configuration, and a node a thread
cannot be bound to ends the program) and have been handed theirs (`Served`). In the
middle of a command it fails, so each call a command is made of has a lemma on which
of the three it keeps, breaks or restores: new replicas break `Served`, a new
configuration `Housed` as well, a new pool restores the one and asking for the
network the other. Nothing is needed of how a configuration came about.
*TTLaws*: the product law is the schoolbook one with explicit remainders; stripes
follow from monotone boundaries; the value laws split on the thresholds. *Histories*:
every law follows from one bound, on a quotient: a counter and a bonus within the
limit divide to at most either and at least what exceeds the limit; a row is cleared
by the worker whose number is the quotient the row would have; the error of a rounded
magic, at least one because it is not exact, times the dividend stays below the
shift; a number below the largest table is told by its bits.
*MovePicker*: the inductive invariant (`PickIInv`) says of each stage which moves
have been dealt and in which part of the array the others lie: good captures ahead of
`cur`, captures that lose material before `endBadCaptures`, quiets between
`endCaptures` and `endGenerated` on both sides of the threshold. That the walk of the
good quiets may stop early at a depth of four is the argument of the comment there:
what the sort leaves is descending up to some place and below the limit after it. The
code's loops are recursive functions here, and what each does is shown by induction on
how far it has gone: a step of the sort permutes and keeps the front in order, a step
of the walk deals, drops the table move or swaps a capture to the front, and in each
case what the walk has passed and what it has not still make up the captures.

**Assumed of the constants**, beyond their types: that `Commands` are those the
reader knows; that the tables named are of different materials, up to the colours,
and have their homes inside the hash; that no prober is the number 0, which stands
for a free mutex; that the games of TreeSearch are `WellPosed` (a root's window is
open and inside the values, an iteration has at least depth 1, no position has
`MaxMoves - 1` moves or more, and chess has at most 218) and `MAX_PLY + 2` is at most
`MAX_MOVES`, as in the code (246 and 256); that a bank has at most 1024 workers and
its dividends times their divisors stay below the shift (`search.cpp`: 168960 times
3448 and 2^40), that a word holds thirty-two ints and an int the scores averaged; that a
node's captures and quiets are finite sets and disjoint, and that no quiet is scored as
high as an evasion that captures (2^28 above its value in the code; histories are a
few ten thousand). TLC evaluates these, as every assumption,
on the runs. `UnsearchedNeverChosen` and the theorems on one thread have their
hypothesis in their statement: pools of up to 36 workers, with the code's 14 votes a
worker (with 37 it is false for a score next to a table loss, and with more than a
thousand for an evaluation), and one thread (with two an entry may be torn, and the
code says so).

**Only model-checked**: of TreeSearch the truth of its scores (`ProvenScores`); the
board with its accumulators (`StateDescribesBoard`, `MovesAreJudged`,
`PositionIsTold`, `AccumulatorLaw`), the compressed tables (`TablesReadBack`), the
probes (`VerdictsAreTrue`), and how the set-up divides the machine
(`WorkersFitTheirPool`); liveness
(`WorkGetsDone`, `CommandsEnd`, `OpensEnd`, and of `KeepsPromise` that every search
not held back is answered), which is outside the prover. `MoveGen`, `Board`,
`Syzygy`, `SyzygyPairs` and `TablebaseProbe` use RECURSIVE operators, about which the
prover can say nothing, and others, `NumaConfig` among them, fold over data. Induction is open to it only as a fact about one set of
naturals, with no operator as parameter, which is how the loops over the pool were
done; a theorem on what such a definition computes for every input would need it
restated so.

## 5. What each property guards against

The hazards in `PROJECT.json` are the index. Some that need a word:

* `ExactMeansProven` has a part on losses that speaks of the lines up to the one at
  which the last iteration ended. Behind it a loss can be exact and unproved in two
  ways: an iteration stopped in its *first* line leaves the other lines' losses
  unmarked, and with three lines or more a stop can come between the test that
  marks losses and the one that ends the loop (section 7).
* `OneSegment` is conditional on `missed`: a peer that takes more than a second
  splits the sharing for good. It costs memory, not correctness.
* `SearchesWhatItShould` has the worker's network *pointer* dangling between
  replacing and re-handing; what must not happen is a job running in between.
* `ProvenScores` asks for truth of *decisive* scores only, in the sense their size
  claims: a mate score of at most the mate's distance within the game, a tablebase
  score of the side that has the win. An undecided score is an opinion.
* `SearchIsBalanced` asks that whatever path a node took - cut-offs before and
  after the move loop, a failed verification, a stop at any depth - position,
  accumulators and calls agree, that null moves, verifications and
  excluded-move searches do not nest where the code forbids it, that no window
  is ever empty, also where the code narrows it from tables and mate distances, that
  the move loop never goes on with a best value above alpha, and that the stack, the
  table of reductions and the lists of moves are not indexed past their ends.
* `BudgetIsOwn` and `StopsInTime` speak of two searches of one game under
  different limits, for the manager keeps its fields from one to the next.
* `DealsEveryMoveOnce` includes the table move that is not pseudo-legal here, and
  quiets given up in any stage.
* `AccumulatorLaw` compares with the sum over the *board's* features; the routes
  differ only in how they get there, and a stale slot or cache entry that happens
  to have the right total in integers would still differ in the free group.
* `TablesReadBack` asks of a damaged file that it is refused or that every read
  stays inside its arrays; a wrong value from a well-formed but wrong file cannot
  be told.
* `VerdictsAreTrue` knows what the tables leave out: "don't care" values may be
  anything, and it is the search through captures that must make up for them. One
  corner is excluded by name, see section 7. Of an extended line it asks that every
  prefix that was verified keeps the result of the root, and of a line extended in
  time that all of it was verified and that it ends in mate, at a full counter or not
  in a draw. What a clock leaves at the end of a line is outside it (section 7).
* `NetworksAreRead` is about pointers to replicas over reconfigurations, and about
  a load that fails half way: the program must not name a network whose weights it
  has overwritten.

## 6. Plan

Done: the thread hand-shake, the session, the table, the root and the tree, the
clock, the board with its accumulators, picker and statistics, the tablebases, the
vote, the set-up and headless runner, the shared memory; with the proofs of
section 4. What is left, in order:

1. `WorkersFitTheirPool`, once the distribution over nodes and the reading of a
   policy string are stated without folds.
2. **Accumulators**, as a theorem: whichever route is taken, a computed state is
   the sum of its features. It needs sums of functions restated without folds.
3. The map of DTZ values and the directory of a table file; Windows arms of the
   shared memory and of NUMA; `Position::set` from a material code.

The abstract specifications are the slot, the UCI promise, an evaluation that is a
sum of features, the legal moves, the value of a game, and a map filled once.

## 7. Where the code and its documentation differ

Shown by a run that ends in a violation:

* **`ucinewgame` during a search blocks the reader.** `Engine::search_clear` waits
  without stopping; `docs/07-shell.md` says every mutating command but `position`
  and `go` goes through `apply_idle`. Run `ucinewgame_blocks`.
* **A bound may be shown as exact.** `output_pv` shows a line that the stopped
  iteration left without a score with its previous score and without flags, "TB
  and previous scores are exact"; with two lines that score can be a bound. Run
  `root_bounds`.
* **A line may be shown that loses what it promises.** `syzygy_extend_pv` walks the
  searched line and cuts it where a move is not among the best, and where it runs out
  of time: "Stop and roll back to the last position once we exceed our time budget"
  (search.cpp:2681). If time is up *within* the ranking of a move (search.cpp:2661),
  that ranking fails, every rank is 0 and `rootInTB` is false: the move counts as a
  best one, the test of the draw and that of the time are both asked only of
  positions in the tables, and the walk goes on. The rest of the searched line is
  kept unverified and may give the result away. Run `tablebases_late`.

Met while modelling, modelled as the code has it:

* **A held search may be answered.** With no legal move, with a mate found under
  `go mate`, or in an infinite search with a clock, `bestmove` is sent although
  neither `stop` nor `ponderhit` came; the comment at the busy wait says it is not.
  `EndsItself` names these three, and `KeepsPromise` is about all others.
* **The check counter outlives a search.** `callsCnt` is not reset between
  searches, so `go nodes N` after a long search may look at the clock up to 512
  calls late, although the comment at `check_time` (search.cpp:2584) promises a
  rate of 0.1 % of the nodes asked for.
* **A win made a draw with the rule off.** After the extension a line that ends in a
  draw by repetition or by the rule has its score set to 0; the comment there says
  that this cannot happen when `Syzygy50MoveRule` is off. It can, for a line whose
  verification ran out of time and which fills the counter: `Position::is_draw` does
  not know the option. Seen in the machine of `tablebases`, not held in a run.
* **An emptied node bank.** With `nodestime`, a bank that has run out and no clock
  of the opponent, the time of the side is 0 and time management is off: the search
  has a budget and nothing looks at it. `StopsInTime` leaves that search out by name
  (`Timed`).
* **An exact loss behind the stop.** Losses are marked inexact in a line that sees
  the stop before it is searched (search.cpp:722). A stop raised after that test and
  before the one that leaves the loop (search.cpp:781) ends the iteration at a line
  whose followers were not marked: with `MultiPV` of three or more a loss with an
  incomplete line may stay exact behind it, although the comment there says that all
  are marked.
* **After a stop** ProbCut may still store a lower bound that is not decisive and
  a multi-cut may still update statistics, before the comment at step 22 that says
  a stopped search returns without updating anything is reached.
* **A blessed loss by en passant.** When the only capture better than all others
  is an en passant one and the position is a blessed loss, the captures' search
  answers `OK` and not `ZEROING_BEST_MOVE` (the comment near tbprobe.cpp:1955), so
  `probe_dtz` reads a stored value it should not. The setups leave that corner out.
* **`NumaPolicy` with an invalid value.** The message says "keeping previous
  config" (engine.cpp:165) and the configuration is kept, but the option keeps the
  invalid string, and the next `ThreadPool::set` takes it for a policy that binds.
* **A network edited in place.** The headless runner seeds caches once per address
  (search_go.cpp:241): a caller that loads another network at the same address
  would keep stale ones. `Headless` takes networks as unchanged at their address.

## 8. What is not modelled, and why

* In RootSearch: the skill option and the effective depth, which do not touch the
  list; output and its suppression.
* In TreeSearch: `searchmoves`, the shuffling
  rule (false below ply 20), the exception for a last piece in stalemate; the
  contents of the histories, which are any the game gives.
* In TimeManager: what logarithms and powers compute.
* In Session: parsing, `bench`, `speedtest`, `perft`, `eval`, `d`, `flip` and
  `position` (which writes only what no worker reads); several engines in a process.
* In TTable: hardware prefetch, allocation, `hashfull`. Relaxed atomics are
  modelled as interleaved accesses in program order; the reordering of two relaxed
  accesses by one thread is not modelled, so a torn entry may in reality pair
  fields in still other ways; the two properties checked under races concern one
  field each and do not depend on it.
* On the board: collisions of keys (two sets of elements with one key), a position
  from a material code, the copy of a position, the debugging self-check, the magic
  and vector look-ups that compute the attack sets; the transformation of an
  accumulator into the first layer's input.
* In the tablebases: the map of DTZ values, the directory of a file beyond its
  sizes, castling rights, materials whose leading group lies on a long diagonal and
  is stored twice; acquire and release are taken as sequentially consistent. Codes
  longer than 32 bits, which the check on symbol lengths lets through, are bounded
  away. Lines are extended in games that repeated nothing at the root.
* In Setup: the networks of a headless caller change address, never content (section
  7); Windows; the comparison of floating-point fills, taken as exact; L3
  domains that cross a node; options without a handler, `SyzygyPath` and the debug
  log; files that change while they are read.
* In SharedMemory: a directory of peers that cannot be listed, which reads as one
  without peers, and a socket that cannot be created; the Windows arm, the fall-back
  copy in private memory beyond its existence, the clean-up on signals; processes in
  different pid namespaces that share `/tmp`; two nodes of one process that share a
  socket path.
* Not at all: layer kernels (dense integer loops, out of a model checker's reach),
  the blend of outputs into an evaluation, allocation, formatting and printing,
  `bench` and `perft` (drivers of modelled commands), start-up dispatch and
  embedding (no state after start-up), scripts and tests, read as documentation.
