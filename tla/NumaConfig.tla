---------------------------- MODULE NumaConfig ----------------------------
(***************************************************************************)
(* NumaConfig, the partition of the processors into NUMA nodes: how it is  *)
(* read from the system, from a policy string and back, and how threads    *)
(* are spread over it (platform/numa.cpp, the Linux build).                *)
(*                                                                         *)
(* A configuration is a record of `nodes`, a sequence of sets of           *)
(* processors (node n of the code is nodes[n + 1]), `nodeByCpu`, a set of  *)
(* pairs <<cpu, node>>, and `customAffinity`.  A policy string is the      *)
(* sequence of its ':'-separated nodes, a node the sequence of its         *)
(* ','-separated components, a component the sequence of its '-'-separated *)
(* parts: numbers, or Bad for what is no number.  A machine is what the    *)
(* kernel says: `online`, the sequence of its nodes in the order listed,   *)
(* each <<id, set of processors>>, `sysfs`, whether that list and that of  *)
(* every node can be read, `threads`, how many processors the library      *)
(* counts, `l3`, the sets of processors that share a cache, `allowed`, the *)
(* affinity at the start.                                                  *)
(***************************************************************************)
EXTENDS Integers, FiniteSets, Sequences, SequencesExt, FiniteSetsExt

CONSTANTS MaxCpuIndex,   \* 65535 in the code
          BundleSize     \* 32 in the code: processors of one bundle of caches

Bad == -1
NoNodes == [nodes |-> << >>, nodeByCpu |-> {}, customAffinity |-> FALSE]
Ascending(S) == SetToSortSeq(S, LAMBDA a, b : a < b)
Nodes(cfg) == 0 .. Len(cfg.nodes) - 1
CpusOf(cfg, n) == cfg.nodes[n + 1]
AllCpus(m) == UNION {node[2] : node \in Range(m.online)}

IsCpuAssigned(cfg, c) == \E pair \in cfg.nodeByCpu : pair[1] = c
NodeByCpu(cfg, c) == (CHOOSE pair \in cfg.nodeByCpu : pair[1] = c)[2]

(* add_cpu_to_node for each of some processors: one that has a node stays   *)
(* there, and the list of nodes only grows for one that has none.           *)
AddCpus(cfg, n, cpus) ==
  LET new == {c \in cpus : ~IsCpuAssigned(cfg, c)}
  IN  IF new = {} THEN cfg
      ELSE [cfg EXCEPT !.nodes = [i \in 1 .. Max({Len(@), n + 1}) |->
                           (IF i <= Len(@) THEN @[i] ELSE {}) \cup (IF i = n + 1 THEN new ELSE {})],
                       !.nodeByCpu = @ \cup (new \X {n})]

(* The configuration of `none`: every processor in node 0. *)
OneNode(m) == AddCpus(NoNodes, 0, 0 .. m.threads - 1)

(* nodeByCpu keeps the numbers the nodes had before. *)
RemoveEmptyNumaNodes(cfg) ==
  [cfg EXCEPT !.nodes = SelectSeq(@, LAMBDA cpus : cpus # {})]

---------------------------------------------------------------------------
(* Policy strings *)

(* The processors a component lists, in order; Malformed when it is none.   *)
(* The difference of a range is unsigned: a reversed one is far too long.   *)
Malformed == <<Bad>>
IsIndex(p) == p # Bad /\ p <= MaxCpuIndex
IndicesOf(piece) ==
  CASE piece = << >> -> << >>
    [] Len(piece) = 1 /\ IsIndex(piece[1]) -> piece
    [] Len(piece) = 2 /\ piece[1] # Bad /\ IsIndex(piece[2]) /\ piece[1] <= piece[2]
         -> Ascending(piece[1] .. piece[2])
    [] OTHER -> Malformed
IndicesFromShortenedString(node) == FlattenSeq([i \in DOMAIN node |-> IndicesOf(node[i])])

(* The configurations a string stands for: one, or none when a component    *)
(* is malformed, a processor is listed twice or no node has a processor.    *)
KeepingTheFirst(text) ==
  LET listed == SelectSeq([i \in DOMAIN text |-> IndicesFromShortenedString(text[i])],
                          LAMBDA cpus : cpus # << >>)
  IN  IF listed = << >> \/ Bad \in Range(FlattenSeq(listed)) THEN {}
      ELSE {[nodes |-> [i \in DOMAIN listed |-> Range(listed[i])],
             nodeByCpu |-> UNION {Range(listed[i]) \X {i - 1} : i \in DOMAIN listed},
             customAffinity |-> TRUE]}
FromString(text) ==
  LET listed == SelectSeq([i \in DOMAIN text |-> IndicesFromShortenedString(text[i])],
                          LAMBDA cpus : cpus # << >>)
      all == FlattenSeq(listed)
  IN  IF listed = << >> \/ Bad \in Range(all) \/ ~IsInjective(all) THEN {}
      ELSE {[nodes |-> [i \in DOMAIN listed |-> Range(listed[i])],
             nodeByCpu |-> UNION {Range(listed[i]) \X {i - 1} : i \in DOMAIN listed},
             customAffinity |-> TRUE]}

(* The string of a configuration: each node as its runs of processors. *)
Runs(cpus) == LET first == Ascending({c \in cpus : c - 1 \notin cpus})
                  last == Ascending({c \in cpus : c + 1 \notin cpus})
              IN  [i \in DOMAIN first |-> IF first[i] = last[i] THEN <<first[i]>>
                                          ELSE <<first[i], last[i]>>]
TextOf(cfg) == [i \in DOMAIN cfg.nodes |-> Runs(cfg.nodes[i])]

---------------------------------------------------------------------------
(* The system's own configuration *)

IsCpuAllowed(m, respect, c) == respect => c \in m.allowed

(* from_system with SystemNumaPolicy: the nodes sysfs lists, the empty ones *)
(* removed; all processors in node 0 when sysfs lists none.                 *)
FromSystemNuma(m, respect) ==
  LET Permitted(cpus) == {c \in cpus : IsCpuAllowed(m, respect, c)}
      Add(cfg, node) == AddCpus(cfg, node[1], Permitted(node[2]))
  IN  IF m.sysfs THEN FoldLeft(Add, NoNodes, m.online)
      ELSE AddCpus(NoNodes, 0, Permitted(0 .. m.threads - 1))

System(m, respect) ==
  [RemoveEmptyNumaNodes(FromSystemNuma(m, respect)) EXCEPT !.customAffinity = ~respect]

(* One scan over the neighbouring cache domains of a node, merging those    *)
(* that fit one bundle; and the scans until nothing changes.                *)
Domains == Seq(SUBSET Nat)
Scan[j \in Nat, ds \in Domains] ==
  IF j >= Len(ds) THEN ds
  ELSE IF Cardinality(ds[j]) + Cardinality(ds[j + 1]) <= BundleSize
       THEN Scan[j + 1, [RemoveAt(ds, j + 1) EXCEPT ![j] = ds[j] \cup ds[j + 1]]]
       ELSE Scan[j + 1, ds]
Bundle[ds \in Domains] == LET scanned == Scan[1, ds] IN IF scanned = ds THEN ds ELSE Bundle[scanned]

FromL3Info(domains) ==
  LET systemNodes == Ascending({d[1] : d \in Range(domains)})
      OfNode(n) == LET ds == SelectSeq(domains, LAMBDA d : d[1] = n)
                   IN  Bundle[[i \in DOMAIN ds |-> ds[i][2]]]
      bundles == FlattenSeq([i \in DOMAIN systemNodes |-> OfNode(systemNodes[i])])
      Add(cfg, i) == AddCpus(cfg, i - 1, bundles[i])
  IN  FoldLeft(Add, NoNodes, [i \in DOMAIN bundles |-> i])

(* The caches of the system's processors in the order of the processors,    *)
(* each with the node of its last processor.                                *)
L3Domains(m, respect) ==
  LET sys == System(m, respect)
      Seen(c) == {s \in m.l3 : c \in s}
      assigned == {pair[1] : pair \in sys.nodeByCpu}
      firsts == Ascending({c \in assigned : \E s \in Seen(c) : c = Min(s \cap assigned)})
      Domain(c) == LET cpus == {d \in UNION Seen(c) : IsCpuAllowed(m, respect, d)}
                   IN  <<NodeByCpu(sys, Max(cpus)), cpus>>
  IN  [i \in DOMAIN firsts |-> Domain(firsts[i])]

FromSystem(m, respect) ==
  LET domains == L3Domains(m, respect)
  IN  IF domains = << >> THEN System(m, respect)
      ELSE [RemoveEmptyNumaNodes(FromL3Info(domains)) EXCEPT !.customAffinity = ~respect]

---------------------------------------------------------------------------
(* What the rest of the program asks of a configuration *)

RequiresMemoryReplication(cfg) == cfg.customAffinity \/ \E n \in Nodes(cfg) : n > 0

SuggestsBindingThreads(cfg, n) ==
  LET sizes == {Cardinality(CpusOf(cfg, k)) : k \in Nodes(cfg)}
      NotSmall(k) == 10 * Cardinality(CpusOf(cfg, k)) > 6 * Max(sizes)
  IN  \/ cfg.customAffinity
      \/ /\ n > 1
         /\ Len(cfg.nodes) > 1
         /\ \/ n > Max(sizes) \div 2
            \/ n >= 4 * Cardinality({k \in Nodes(cfg) : NotSmall(k)})

(* Each thread goes to the first node that it would fill the least. *)
Fills(cfg, occupied, k, l) ==
  (occupied[k] + 1) * Cardinality(CpusOf(cfg, l)) <= (occupied[l] + 1) * Cardinality(CpusOf(cfg, k))
DistributeThreadsAmongNumaNodes(cfg, n) ==
  LET Occupied(ns) == [k \in Nodes(cfg) |-> Cardinality({i \in DOMAIN ns : ns[i] = k})]
      Best(ns) == Min({k \in Nodes(cfg) : \A l \in Nodes(cfg) : Fills(cfg, Occupied(ns), k, l)})
      Place(ns, c) == Append(ns, Best(ns))
  IN  FoldLeft(Place, << >>, [i \in 1 .. n |-> i])

(* A thread can be bound to a node that names a processor of the machine.   *)
CanBind(m, cfg, n) == n \in Nodes(cfg) /\ CpusOf(cfg, n) \cap AllCpus(m) # {}

(* Which block of shared memory the replica of a node is: the node of the   *)
(* hardware its first processor belongs to, 0 for a processor of none.      *)
Discriminator(m, cfg, n) ==
  LET sys == System(m, FALSE)
      cpu == Min(CpusOf(cfg, n))
  IN  IF IsCpuAssigned(sys, cpu) THEN NodeByCpu(sys, cpu) ELSE 0
===========================================================================
