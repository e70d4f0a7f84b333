------------------------------ MODULE Headless ------------------------------
(***************************************************************************)
(* The headless runner (engine/search_go.cpp): a search without the pool,  *)
(* on workers that are static and reused from one call to the next.  The   *)
(* caller may have registered a parallel-for with threads of its own and a *)
(* worker set; nets are told apart by their addresses, and a net that was  *)
(* handed in stays as it is at its address.                                *)
(***************************************************************************)
EXTENDS Integers, Sequences, SequencesExt

CONSTANTS Nets,          \* the addresses of the networks a caller may pass
          MaxWorkers

ASSUME MaxWorkersAssumption == MaxWorkers \in Nat \ {0}

VARIABLES hostThreads,   \* num_threads() of the parallel-for: 1 is the built-in
          workerSet,     \* the worker set registered
          workers,       \* Context::workers: which net each cache was seeded from
          seeded,        \* Context::seeded
          snapshot,      \* Context::host.workers
          answer         \* what the last call did

headlessVars == <<hostThreads, workerSet, workers, seeded, snapshot, answer>>

NoNet == "no net"
Refused == [asked |-> 0, ran |-> 0, net |-> NoNet, caches |-> {}]

HeadlessInit == /\ hostThreads \in 1 .. MaxWorkers
                /\ workerSet \in {"default", "caller"}
                /\ workers = << >>
                /\ seeded = NoNet
                /\ snapshot = "default"
                /\ answer = Refused

(* Refused before anything is built: the built-in parallel-for would run a  *)
(* helper inline, and an inline helper never returns.                       *)
Refuses(n) == n = 0 \/ (n > 1 /\ hostThreads < n)

(* The workers and what they share are rebuilt when the count changes; new  *)
(* caches are seeded from nothing.                                          *)
BuildKeepingTheSeed(n) ==
  IF Len(workers) = n THEN [ws |-> workers, net |-> seeded]
  ELSE [ws |-> [i \in 1 .. n |-> NoNet], net |-> seeded]
BuildWorkers(n) ==
  IF Len(workers) = n THEN [ws |-> workers, net |-> seeded]
  ELSE [ws |-> [i \in 1 .. n |-> NoNet], net |-> NoNet]

(* How many of the workers a search reaches through a worker set: its main  *)
(* worker is called by hand, the others through the set.                    *)
Reached(set, n) == IF set = "ours" THEN n ELSE 1

Fail == answer' = Refused

(* One call of go: the caches are seeded once per net, the set is           *)
(* registered above one worker and before the seams are copied, and what    *)
(* was registered before is put back.  A bad FEN or a position without a    *)
(* move is refused after the workers were built and seeded.                 *)
HeadlessGo(net, n, searchable) ==
  LET built == BuildWorkers(n)
      ours == IF n > 1 THEN "ours" ELSE workerSet
      caches == IF built.net = net THEN built.ws ELSE [i \in 1 .. n |-> net]
  IN  /\ UNCHANGED <<hostThreads, workerSet>>
      /\ IF Refuses(n) THEN Fail /\ UNCHANGED <<workers, seeded, snapshot>>
         ELSE /\ workers' = caches
              /\ seeded' = net
              /\ IF ~searchable THEN Fail /\ UNCHANGED snapshot
                 ELSE /\ snapshot' = ours
                      /\ answer' = [asked |-> n, ran |-> Reached(snapshot', n), net |-> net,
                                    caches |-> Range(caches)]

(* The host changes its threads between two calls. *)
HostRegisters(n) == /\ hostThreads' = n
                    /\ UNCHANGED <<workerSet, workers, seeded, snapshot, answer>>

HeadlessNext == \/ \E net \in Nets, n \in 0 .. MaxWorkers, searchable \in BOOLEAN :
                     HeadlessGo(net, n, searchable)
                \/ \E n \in 1 .. MaxWorkers : HostRegisters(n)

HeadlessSpec == HeadlessInit /\ [][HeadlessNext]_headlessVars

(* AnswersFromItsNet: a search that answers ran on all the workers asked    *)
(* for, each evaluating with a refresh cache seeded from the net passed;    *)
(* no answer is given by fewer workers (search_go.cpp:234,241,349).         *)
AnswersFromItsNet ==
  answer # Refused => answer.ran = answer.asked /\ answer.caches = {answer.net}
===========================================================================
