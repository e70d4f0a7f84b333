------------------------------- MODULE Setup -------------------------------
(***************************************************************************)
(* How the engine is put together and taken apart again: the NUMA          *)
(* configuration, the replicas of the network, the pool with its history   *)
(* banks and bindings, the seams, the hash and the options that rebuild    *)
(* them (shell/engine.cpp, platform/thread.cpp, platform/numa_shared.h,    *)
(* engine/nnue/network.cpp, shell/ucioption.cpp).                          *)
(*                                                                         *)
(* Every command runs on the reader's thread with the workers parked (see  *)
(* Session), so an action is a whole command: the functions it calls take  *)
(* the record e and return it changed, in the order of the calls.  An      *)
(* engine_abort ends the process: `dead`.  Reading through a pointer to a  *)
(* replica that was destroyed raises `fault`.                              *)
(***************************************************************************)
EXTENDS NumaConfig

CONSTANTS Machines,      \* the machines the program may start on
          Disks,         \* what the directories may hold, see LoadExternal
          DefaultName,   \* EvalFileDefaultName
          FileNames,     \* the values of EvalFile the user may give
          Policies,      \* the values of NumaPolicy the user may give
          MaxThreads, MaxHashMB,
          Values         \* the values the user may give a number

VARIABLES machine, disk, e
setupVars == <<machine, disk, e>>

None == "none"           \* std::nullopt, and an empty SystemWideSharedConstant
Wreck == "wreck"         \* weights half overwritten by a file that did not parse
NullNet == -1            \* a worker not given its network yet
Dangling == -2           \* a worker whose replica was destroyed
Word(w) == [word |-> w, text |-> << >>]

(* Option::operator= of a spin: a value out of range, or no number, is      *)
(* refused and nothing is called.                                           *)
Accepted(v, lo, hi) == v # Bad /\ v \in lo .. hi

PowerOfTwoCeil(n) == Min({2 ^ k : k \in 0 .. n} \cap (n .. 2 * n))

---------------------------------------------------------------------------
(* The network: its replicas, and the file they were read from *)

Unseat(pool) == [i \in DOMAIN pool |->
                   [pool[i] EXCEPT !.net = IF pool[i].net = NullNet THEN NullNet ELSE Dangling]]

(* Every replica is destroyed and only the first made anew, on node 0.      *)
PrepareReplicateFrom(s, weights) ==
  LET replicated == RequiresMemoryReplication(s.numa)
      homes == IF replicated THEN Nodes(s.numa) ELSE {0}
  IN  [s EXCEPT !.replicas = [n \in homes |-> IF n = 0 THEN weights ELSE None],
                !.pool = Unseat(s.pool),
                !.dead = s.dead \/ (replicated /\ ~CanBind(machine, s.numa, 0))]

(* ThreadPool::ensure_network_replicated, ensure_present and                *)
(* Worker::ensure_network_replicated: each worker gets the replica of its   *)
(* own node, made when it is the first to ask, and reseeds its cache.       *)
EnsureNetworkReplicated(s) ==
  LET asked == {w.token : w \in Range(s.pool)}
      made == {n \in asked : s.replicas[n] = None}
  IN  [s EXCEPT !.replicas = [n \in DOMAIN s.replicas |-> s.replicas[IF n \in made THEN 0 ELSE n]],
                !.pool = [i \in DOMAIN s.pool |-> [s.pool[i] EXCEPT !.net = s.pool[i].token,
                                                                !.seed = s.replicas[0]]],
                !.dead = s.dead \/ \E n \in made : ~CanBind(machine, s.numa, n)]

(* The file `path` of one directory: absent, foreign (another version: the  *)
(* weights stay), broken (refused after some weights were overwritten) or   *)
(* good.  The record of what is loaded is true in every case.               *)
LoadIgnoringFailure(l, dir, path) ==
  IF disk[dir][path] = "good" THEN [weights |-> path, current |-> path]
  ELSE IF disk[dir][path] = "broken" THEN [l EXCEPT !.weights = Wreck] ELSE l
LoadExternal(l, dir, path) ==
  CASE disk[dir][path] = "foreign" -> [l EXCEPT !.current = None]
    [] disk[dir][path] = "broken" -> [weights |-> Wreck, current |-> None]
    [] disk[dir][path] = "good" -> [weights |-> path, current |-> path]
    [] OTHER -> l
LoadInternal == [weights |-> DefaultName, current |-> DefaultName]

Requested(file) == IF file = "" THEN DefaultName ELSE file

(* The directory the program was started in, then that of the program.      *)
NetworkLoad(weights, current, file) ==
  LET path == Requested(file)
      inside == IF current # path /\ path = DefaultName THEN LoadInternal
                ELSE [weights |-> weights, current |-> current]
      Try(l, dir) == IF l.current = path THEN l ELSE LoadExternal(l, dir, path)
  IN  Try(Try(inside, 1), 2)

(* Network::verify aborts when another network than the option's is loaded. *)
VerifyNetwork(s) == [s EXCEPT !.dead = s.dead \/ s.current # Requested(s.options.evalFile)]

---------------------------------------------------------------------------
(* The pool *)

BindsThreads(s) ==
  CASE s.search.numaPolicy.word = "none" -> FALSE
    [] s.search.numaPolicy.word = "auto" -> SuggestsBindingThreads(s.numa, s.search.threads)
    [] OTHER -> TRUE

(* ThreadPool::set: the old threads are gone, the banks are sized for the   *)
(* workers of their node, each worker takes the next place of its node.     *)
SetWithOneBank(s) ==
  LET n == s.search.threads
      binds == BindsThreads(s)
      bound == IF binds THEN DistributeThreadsAmongNumaNodes(s.numa, n) ELSE << >>
      node == [i \in 1 .. n |-> IF binds THEN bound[i] ELSE 0]
      On(k, upto) == Cardinality({i \in 1 .. upto : node[i] = k})
  IN  [s EXCEPT !.bound = bound,
                !.banks = [k \in Range(node) |-> PowerOfTwoCeil(On(k, n))],
                !.pool = [i \in 1 .. n |-> [token |-> node[i], idx |-> On(node[i], i - 1),
                                            total |-> n, net |-> NullNet, seed |-> None]],
                !.dead = s.dead \/ (binds /\ \E k \in Range(node) : ~CanBind(machine, s.numa, k))]
ThreadPoolSet(s) ==
  LET n == s.search.threads
      binds == BindsThreads(s)
      bound == IF binds THEN DistributeThreadsAmongNumaNodes(s.numa, n) ELSE << >>
      node == [i \in 1 .. n |-> IF binds THEN bound[i] ELSE 0]
      On(k, upto) == Cardinality({i \in 1 .. upto : node[i] = k})
  IN  [s EXCEPT !.bound = bound,
                !.banks = [k \in Range(node) |-> PowerOfTwoCeil(On(k, n))],
                !.pool = [i \in 1 .. n |-> [token |-> node[i], idx |-> On(node[i], i - 1),
                                            total |-> On(node[i], n), net |-> NullNet, seed |-> None]],
                !.dead = s.dead \/ (binds /\ \E k \in Range(node) : ~CanBind(machine, s.numa, k))]

(* Worker::clear on every worker; the caches are reseeded from the network  *)
(* of the worker once it has one.                                           *)
ClearPool(s) ==
  [s EXCEPT !.pool = [i \in DOMAIN s.pool |->
                        LET w == s.pool[i]
                        IN  IF w.net < 0 THEN w ELSE [w EXCEPT !.seed = s.replicas[w.net]]],
            !.fault = s.fault \/ \E w \in Range(s.pool) : w.net = Dangling]

(* TranspositionTable::resize clears through the parallel-for registered.   *)
ZeroTable(s) == [s EXCEPT !.table.zeroedBy = IF s.seams = "pool" THEN Len(s.pool) ELSE 1]
SetTTSize(s) == ZeroTable([s EXCEPT !.table.mb = s.options.hash])

(* Engine::resize_threads: the options are copied and the seams registered  *)
(* and copied before the workers exist, the table is cleared by the pool,   *)
(* the workers get their networks last.                                     *)
SearchOptions(o) == [threads |-> o.threads, numaPolicy |-> o.numaPolicy]
Register(s) == [s EXCEPT !.seams = "pool"]
SnapshotHost(s) == [s EXCEPT !.host = s.seams]
CopyOptions(s) == [s EXCEPT !.search = SearchOptions(s.options)]
ResizeSnapshottingFirst(s) ==
  EnsureNetworkReplicated(SetTTSize(ThreadPoolSet(Register(SnapshotHost(CopyOptions(s))))))
ResizeThreads(s) ==
  EnsureNetworkReplicated(SetTTSize(ThreadPoolSet(SnapshotHost(Register(CopyOptions(s))))))

---------------------------------------------------------------------------
(* The options with a handler *)

(* The configurations a policy asks for; none when the string is no policy. *)
ConfigOf(policy) ==
  CASE policy.word \in {"auto", "system"} -> {FromSystem(machine, TRUE)}
    [] policy.word = "hardware" -> {FromSystem(machine, FALSE)}
    [] policy.word = "none" -> {OneNode(machine)}
    [] OTHER -> FromString(policy.text)

(* The context tells the network first, then the pool is rebuilt.           *)
ReplicateNewConfig(s, cfg) == PrepareReplicateFrom([s EXCEPT !.numa = cfg], s.replicas[0])
SetNumaConfigFromOption(s) ==
  LET found == ConfigOf(s.options.numaPolicy)
  IN  IF found = {} THEN s
      ELSE EnsureNetworkReplicated(ResizeThreads(ReplicateNewConfig(s, CHOOSE c \in found : TRUE)))

(* Engine::load_network: the workers get their new replicas before their    *)
(* caches are cleared.                                                      *)
ReloadNetwork(s) ==
  LET loaded == NetworkLoad(s.replicas[0], s.current, s.options.evalFile)
  IN  PrepareReplicateFrom([s EXCEPT !.current = loaded.current], loaded.weights)
LoadThenClear(s) == EnsureNetworkReplicated(ClearPool(ReloadNetwork(s)))
LoadNetwork(s) == ClearPool(EnsureNetworkReplicated(ReloadNetwork(s)))

---------------------------------------------------------------------------
(* The program *)

Options0 == [threads |-> 1, numaPolicy |-> Word("auto"), hash |-> 1, evalFile |-> DefaultName]
Fresh(cfg) == [options |-> Options0, search |-> SearchOptions(Options0), numa |-> cfg,
               replicas |-> [n \in {0} |-> DefaultName], current |-> DefaultName,
               pool |-> << >>, bound |-> << >>, banks |-> << >>,
               table |-> [mb |-> 0, zeroedBy |-> 0], seams |-> "default", host |-> "default",
               dead |-> FALSE, fault |-> FALSE]

(* The constructor: the default network, an empty pool, then the first one. *)
SetupInit ==
  /\ machine \in Machines
  /\ disk \in Disks
  /\ e = LET s == Fresh(FromSystem(machine, TRUE))
             made == PrepareReplicateFrom(s, NetworkLoad(Wreck, None, "").weights)
         IN  ResizeThreads(EnsureNetworkReplicated(ClearPool(made)))

Alive == ~e.dead
Do(s) == Alive /\ e' = s /\ UNCHANGED <<machine, disk>>

(* setoption: the value is kept before the handler sees it.                 *)
SetNumaPolicy(p) == Do(SetNumaConfigFromOption([e EXCEPT !.options.numaPolicy = p]))
SetThreads(n) == /\ Accepted(n, 1, MaxThreads)
                 /\ Do(ResizeThreads([e EXCEPT !.options.threads = n]))
SetHash(mb) == /\ Accepted(mb, 1, MaxHashMB)
               /\ Do(SetTTSize([e EXCEPT !.options.hash = mb]))
SetEvalFile(file) == Do(LoadNetwork([e EXCEPT !.options.evalFile = file]))

(* ucinewgame and Clear Hash. *)
SearchClear == Do(ClearPool(ZeroTable(e)))

(* export_net: written or refused, every replica is made anew. *)
SaveNetwork == Do(EnsureNetworkReplicated(PrepareReplicateFrom(e, e.replicas[0])))

(* perft and eval look at the network and touch no worker. *)
Inspect == Do(VerifyNetwork(e))

(* go: the workers evaluate through their pointers and their caches.        *)
Go == Do([CopyOptions(VerifyNetwork(e)) EXCEPT
            !.fault = e.fault \/ \E w \in Range(e.pool) : w.net < 0])

Dead == e.dead /\ UNCHANGED setupVars

SetupNext ==
  \/ \E p \in Policies : SetNumaPolicy(p)
  \/ \E n \in Values : SetThreads(n) \/ SetHash(n)
  \/ \E file \in FileNames : SetEvalFile(file)
  \/ SearchClear \/ SaveNetwork \/ Inspect \/ Go
  \/ Dead

SetupSpec == SetupInit /\ [][SetupNext]_setupVars

---------------------------------------------------------------------------
(* Properties *)

Places(k) == {w.idx : w \in {w \in Range(e.pool) : w.token = k}}

(* get_bound_thread_count_by_numa_node, what `info string` tells of it.     *)
ThreadCounts == IF e.bound = << >> THEN << >>
                ELSE [n \in 1 .. Len(e.numa.nodes) |->
                        Cardinality({i \in DOMAIN e.bound : e.bound[i] = n - 1})]

(* The nodes are not empty and share no processor, and the string that      *)
(* describes them means them.  Caches bundled together lie in one node of   *)
(* the hardware.                                                            *)
ConfigIsSound ==
  /\ \A k, l \in Nodes(e.numa) : /\ CpusOf(e.numa, k) # {}
                                 /\ k # l => CpusOf(e.numa, k) \cap CpusOf(e.numa, l) = {}
  /\ \E c \in FromString(TextOf(e.numa)) : c.nodes = e.numa.nodes
  /\ e.options.numaPolicy.word = "auto" =>
       \A k \in Nodes(e.numa) : \E cpus \in Range(System(machine, FALSE).nodes) :
         CpusOf(e.numa, k) \subseteq cpus

(* Two nodes share a block of memory only if their first processors are of  *)
(* one node of the hardware, whatever numbers sysfs gave its nodes.         *)
BlocksAreLocal ==
  \A k, l \in Nodes(e.numa) : \A hw \in Range(System(machine, FALSE).nodes) :
    (Min(CpusOf(e.numa, k)) \in hw /\ Min(CpusOf(e.numa, l)) \in UNION Range(System(machine, FALSE).nodes))
      => (Discriminator(machine, e.numa, k) = Discriminator(machine, e.numa, l)
            <=> Min(CpusOf(e.numa, l)) \in hw)

(* Threads are spread evenly: taking one from a node and giving it to       *)
(* another never makes the fuller of the two less full.                     *)
SpreadIsEven ==
  \A k, l \in Nodes(e.numa) : e.bound # << >> =>
    ThreadCounts[k + 1] * Cardinality(CpusOf(e.numa, l))
      <= (ThreadCounts[l + 1] + 1) * Cardinality(CpusOf(e.numa, k))

(* WorkersFitTheirPool: after any sequence of options (engine.cpp:393,      *)
(* thread.cpp:181) there are as many workers as asked for, each on a node   *)
(* of the configuration in force and with a history bank big enough for     *)
(* the workers of its node, whose places divide the bank among them; all    *)
(* of them zeroed the table; the spread over the nodes is even.             *)
WorkersFitTheirPool ==
  Alive =>
    /\ ConfigIsSound
    /\ BlocksAreLocal
    /\ SpreadIsEven
    /\ Len(e.pool) = e.options.threads
    /\ e.table = [mb |-> e.options.hash, zeroedBy |-> Len(e.pool)]
    /\ \A w \in Range(e.pool) :
         /\ w.token \in Nodes(e.numa) \cap DOMAIN e.banks
         /\ e.banks[w.token] >= w.total
         /\ Places(w.token) = 0 .. w.total - 1
         /\ w.total = Cardinality({i \in DOMAIN e.pool : e.pool[i].token = w.token})
    /\ e.bound # << >> => [i \in DOMAIN e.pool |-> e.pool[i].token] = e.bound

(* WorkersReadTheLoadedNetwork: whenever the program waits for a command,   *)
(* every worker points at a live replica, that of its own node, with the    *)
(* weights of all the others, its refresh cache was seeded from them, and   *)
(* the seams it will search through are the pool's; no one ever read a      *)
(* destroyed replica; a network the program says is loaded is the one whose *)
(* weights it has (engine.cpp:419,491,503, numa_shared.h:124, the comment   *)
(* of load_external).                                                       *)
WorkersReadTheLoadedNetwork ==
  Alive =>
    /\ ~e.fault
    /\ e.host = "pool"
    /\ e.current # None => e.replicas[0] = e.current
    /\ \A w \in Range(e.pool) : /\ w.net = w.token
                                /\ e.replicas[w.net] = e.replicas[0]
                                /\ w.seed = e.replicas[0]
===========================================================================
