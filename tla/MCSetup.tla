------------------------------ MODULE MCSetup ------------------------------
(***************************************************************************)
(* The engine's set-up on four small machines, and the headless runner.    *)
(* The two share nothing, so a behaviour is one of either (`part`).        *)
(***************************************************************************)
EXTENDS Setup, Headless, TLC

VARIABLE part
mcVars == <<setupVars, headlessVars, part>>

Node(id, cpus) == <<id, cpus>>

(* One node and no caches known; two nodes numbered 0 and 3 with a cache    *)
(* each; an empty node, an unbalanced pair, three caches and a process      *)
(* that may not use every processor; no node listed at all.                 *)
MCMachines ==
  {[online |-> <<Node(0, 0 .. 3)>>, sysfs |-> TRUE, threads |-> 4, l3 |-> {}, allowed |-> 0 .. 3],
   [online |-> <<Node(0, {0, 2}), Node(3, {1, 3})>>, sysfs |-> TRUE, threads |-> 4,
    l3 |-> {{0, 2}, {1, 3}}, allowed |-> 0 .. 3],
   [online |-> <<Node(0, {}), Node(1, {0}), Node(2, {1, 2, 3, 4})>>, sysfs |-> TRUE, threads |-> 5,
    l3 |-> {{0}, {1}, {2}, {3, 4}}, allowed |-> {0, 1, 2, 4}],
   [online |-> <<Node(0, 0 .. 3)>>, sysfs |-> FALSE, threads |-> 4, l3 |-> {}, allowed |-> {1, 2}]}

MCPolicies ==
  {Word("auto"), Word("system"), Word("hardware"), Word("none")}
    \cup {[word |-> "text", text |-> t] :
            t \in {<< <<<<0>>>>, << >>, <<<<1, 3>>>> >>,          \* 0::1-3
                   << <<<<0>>, <<2>>>>, <<<<1>>, << >>>> >>,      \* 0,2:1,
                   << <<<<0, 1>>>>, <<<<1>>>> >>,                 \* 0-1:1
                   << <<<<2, 1>>>> >>,                            \* 2-1
                   << <<<<0>>>>, <<<<Bad>>>> >>,                  \* 0:x
                   << <<<<0>>>>, <<<<6>>>> >>}}                   \* 0:6, no such processor

MCDisks == {<<[f \in {"default", "a", "b"} |-> "absent"],
              ("default" :> "absent" @@ "a" :> "good" @@ "b" :> "broken")>>,
            <<("default" :> "foreign" @@ "a" :> "broken" @@ "b" :> "foreign"),
              ("default" :> "absent" @@ "a" :> "good" @@ "b" :> "absent")>>}

MCValues == {Bad, 0, 1, 2, 3, 4}

SetupRests == machine = "none" /\ disk = "none" /\ e = [dead |-> TRUE]
RunnerRests == /\ hostThreads = 1 /\ workerSet = "default" /\ workers = << >>
               /\ seeded = NoNet /\ snapshot = "default" /\ answer = Refused
EngineInit == part = "engine" /\ SetupInit /\ RunnerRests
RunnerInit == part = "runner" /\ HeadlessInit /\ SetupRests

MCInit == EngineInit \/ RunnerInit
MCNext == \/ part = "engine" /\ SetupNext /\ UNCHANGED <<part, headlessVars>>
          \/ part = "runner" /\ HeadlessNext /\ UNCHANGED <<part, setupVars>>
MCSpec == MCInit /\ [][MCNext]_mcVars

(* Of both parts: workers evaluate with the network they were given.       *)
NetworksAreRead == WorkersReadTheLoadedNetwork /\ AnswersFromItsNet
===========================================================================
