--------------------------- MODULE PlatformProofs ---------------------------
(* TLAPS proofs about the platform's threads, the set-up of the engine and   *)
(* the table files: the handshake of Thread.tla, for every set of threads,   *)
(* callers and jobs, its inductive invariant, the safety properties it       *)
(* implies, and the refinement of the one-place job slot of JobSlot.tla;     *)
(* that whoever searches evaluates with the network that was loaded, on any  *)
(* machine and after any options (Setup.tla), and in the headless runner     *)
(* (Headless.tla); and the registry and the lazy mapping of the endgame      *)
(* tables (TableFiles.tla), for any materials, homes, directories, size of   *)
(* the hash and number of workers.                                           *)
EXTENDS Thread, TableFiles, MCSetup, FiniteSetTheorems, WellFoundedInduction, TLAPS

USE JobsAssumption, CallersAssumption

LEMMA InitEstablishesInvariant == Init => IInv
  BY DEF Init, IInv, TypeOK, Exclusive, EngagedAlive, BusyIsSearching, RunningInJob,
         ExitIsLast, NoLostWakeup, NoStrandedCaller, JobHandedOnce

(* A new call finds the Thread alive and free, so it is the only one there. *)
LEMMA CallPreserves ==
  ASSUME IInv, NEW c \in Callers, NEW th \in Threads, NEW f \in Jobs \cup {NoJob},
         MayCall(th, f), Call(c, th, f)
  PROVE  IInv'
  BY DEF IInv, TypeOK, Exclusive, EngagedAlive, BusyIsSearching, RunningInJob, ExitIsLast, NoLostWakeup,
         NoStrandedCaller, JobHandedOnce, MayCall, Free, Engaged, Call, members

LEMMA CallerPreserves ==
  ASSUME IInv, NEW c \in Callers, CallerStep(c)
  PROVE  IInv'
<1> USE DEF IInv, TypeOK, Exclusive, EngagedAlive, BusyIsSearching, RunningInJob, ExitIsLast, NoLostWakeup,
            NoStrandedCaller, JobHandedOnce, members
<1>1. CASE Block(c)
  BY <1>1 DEF Block
<1>2. CASE WaitReturn(c)
  BY <1>2 DEF WaitReturn
<1>3. CASE Hand(c)
  BY <1>3 DEF Hand
<1>4. CASE Notify(c)
  BY <1>4 DEF Notify, Waiters
<1>5. CASE NotifyNobody(c)
  BY <1>5 DEF NotifyNobody, Waiters
<1> QED BY <1>1, <1>2, <1>3, <1>4, <1>5 DEF CallerStep

LEMMA ThreadPreserves ==
  ASSUME IInv, NEW th \in Threads,
         \/ Park(th) \/ SleepAgain(th) \/ TakeJob(th) \/ LeaveLoop(th)
         \/ EndJob(th) \/ Construct(th) \/ SetExit(th) \/ JoinThread(th)
  PROVE  IInv'
<1> USE DEF IInv, TypeOK, Exclusive, EngagedAlive, BusyIsSearching, RunningInJob, ExitIsLast, NoLostWakeup,
            NoStrandedCaller, JobHandedOnce, members
<1>1. CASE Park(th)
  BY <1>1 DEF Park, Waiters
<1>2. CASE SleepAgain(th)
  BY <1>2 DEF SleepAgain
<1>3. CASE TakeJob(th)
  BY <1>3 DEF TakeJob
<1>4. CASE LeaveLoop(th)
  BY <1>4 DEF LeaveLoop
<1>5. CASE EndJob(th)
  BY <1>5 DEF EndJob
<1>6. CASE Construct(th)
  BY <1>6 DEF Construct
<1>7. CASE SetExit(th)
  BY <1>7 DEF SetExit, Free, Engaged
<1>8. CASE JoinThread(th)
  BY <1>8 DEF JoinThread, Free, Engaged
<1> QED BY <1>1, <1>2, <1>3, <1>4, <1>5, <1>6, <1>7, <1>8

LEMMA WakePreserves ==
  ASSUME IInv, WakeSpuriously
  PROVE  IInv'
  BY DEF IInv, TypeOK, Exclusive, EngagedAlive, BusyIsSearching, RunningInJob, ExitIsLast, NoLostWakeup,
         NoStrandedCaller, JobHandedOnce, members, WakeSpuriously

LEMMA NextPreservesInvariant == IInv /\ [Next]_vars => IInv'
<1> SUFFICES ASSUME IInv, [Next]_vars PROVE IInv'
  OBVIOUS
<1>1. CASE UNCHANGED vars
  BY <1>1 DEF IInv, TypeOK, Exclusive, EngagedAlive, BusyIsSearching, RunningInJob, ExitIsLast, NoLostWakeup,
              NoStrandedCaller, JobHandedOnce, members, vars
<1>2. CASE Next
  BY <1>2, CallPreserves, CallerPreserves, ThreadPreserves, WakePreserves DEF Next, CallerStep
<1> QED BY <1>1, <1>2
(* The three safety properties of the handshake, for every pool.  Thread's  *)
(* condition variable serves both directions with notify_one, and still no  *)
(* wake-up is lost (run_custom_job, idle_loop), no caller sleeps on a thread *)
(* that will not notify it, and each job handed over is taken exactly once. *)
THEOREM HandshakeIsSafe ==
  Spec => []TypeOK /\ []NoLostWakeup /\ []NoStrandedCaller /\ []JobHandedOnce
<1>1. IInv => TypeOK /\ NoLostWakeup /\ NoStrandedCaller /\ JobHandedOnce
  BY DEF IInv
<1> QED BY <1>1, InitEstablishesInvariant, NextPreservesInvariant, PTL DEF Spec

(***************************************************************************)
(* The refinement.                                                         *)
(***************************************************************************)

(* What each step of the handshake is, seen as a step on the slots.  The    *)
(* steps that move neither searching nor loop across a boundary of slotOf   *)
(* leave the slots alone.                                                   *)
LEMMA StepsMapToSlotSteps ==
  ASSUME IInv, IInv', [Next]_vars
  PROVE  [Slot!SlotNext]_(Slot!slots)
<1> USE DEF IInv, TypeOK, members, slotOf, heldBy, Slot!slots
<1>1. CASE UNCHANGED vars
  BY <1>1 DEF vars
<1>2. ASSUME NEW c \in Callers, NEW th \in Threads, NEW f \in Jobs \cup {NoJob}, Call(c, th, f)
      PROVE  UNCHANGED Slot!slots
  BY <1>2 DEF Call
<1>3. ASSUME NEW c \in Callers, Block(c) \/ WaitReturn(c) \/ NotifyNobody(c)
      PROVE  UNCHANGED Slot!slots
  BY <1>3 DEF Block, WaitReturn, NotifyNobody
<1>4. ASSUME NEW c \in Callers, Notify(c)
      PROVE  UNCHANGED Slot!slots
  BY <1>4 DEF Notify, Waiters
<1>5. ASSUME NEW c \in Callers, Hand(c)
      PROVE  Slot!Put(on[c], job[c])
  <2>1. /\ searching' = [searching EXCEPT ![on[c]] = TRUE]
        /\ jobFunc' = [jobFunc EXCEPT ![on[c]] = job[c]]
        /\ ~searching[on[c]] /\ UNCHANGED <<exit, loop, running>>
    BY <1>5 DEF Hand
  <2>2. loop[on[c]] \in {"asleep", "woken"}
    BY <2>1 DEF BusyIsSearching
  <2>3. slotOf[on[c]] = "idle" /\ slotOf' = [slotOf EXCEPT ![on[c]] = "full"]
    BY <2>1, <2>2
  <2>4. heldBy' = [heldBy EXCEPT ![on[c]] = job[c]]
    BY <2>1, <2>2
  <2> QED BY <2>1, <2>3, <2>4 DEF Slot!Put
<1>6. ASSUME NEW th \in Threads, Park(th)
      PROVE  Slot!Idle(th)
  BY <1>6 DEF Park, Slot!Idle, JobHandedOnce
<1>7. ASSUME NEW th \in Threads, SleepAgain(th)
      PROVE  UNCHANGED Slot!slots
  BY <1>7 DEF SleepAgain
<1>8. ASSUME NEW th \in Threads, TakeJob(th)
      PROVE  Slot!Take(th)
  <2>1. slotOf' = [slotOf EXCEPT ![th] = "busy"] /\ slotOf[th] = "full"
    BY <1>8 DEF TakeJob
  <2>2. heldBy' = heldBy
    <3>1. \A t \in Threads : heldBy'[t] = heldBy[t]
      BY <1>8 DEF TakeJob
    <3> QED BY <3>1
  <2> QED BY <1>8, <2>1, <2>2 DEF TakeJob, Slot!Take
<1>9. ASSUME NEW th \in Threads, LeaveLoop(th)
      PROVE  Slot!Return(th)
  BY <1>9 DEF LeaveLoop, Slot!Return
<1>10. ASSUME NEW th \in Threads, EndJob(th)
       PROVE  Slot!End(th)
  <2>1. slotOf' = slotOf /\ slotOf[th] = "busy"
    BY <1>10 DEF EndJob
  <2>2. heldBy[th] # NoJob /\ heldBy'[th] = NoJob
    BY <1>10 DEF EndJob, RunningInJob, JobHandedOnce
  <2>3. heldBy' = [heldBy EXCEPT ![th] = NoJob]
    <3>1. \A t \in Threads \ {th} : heldBy'[t] = heldBy[t]
      BY <1>10 DEF EndJob
    <3> QED BY <2>2, <3>1
  <2> QED BY <1>10, <2>1, <2>2, <2>3 DEF EndJob, Slot!End
<1>11. ASSUME NEW th \in Threads, Construct(th)
       PROVE  Slot!Start(th)
  BY <1>11 DEF Construct, Slot!Start
<1>12. ASSUME NEW th \in Threads, SetExit(th)
       PROVE  Slot!Exit(th)
  BY <1>12 DEF SetExit, Slot!Exit
<1>13. ASSUME NEW th \in Threads, JoinThread(th)
       PROVE  Slot!Join(th)
  BY <1>13 DEF JoinThread, Slot!Join
<1>14. ASSUME WakeSpuriously
       PROVE  UNCHANGED Slot!slots
  BY <1>14 DEF WakeSpuriously
<1>15. ASSUME NEW c \in Callers, Hand(c)
       PROVE  on[c] \in Threads /\ job[c] \in Jobs
  BY <1>15 DEF Hand
<1> HIDE DEF IInv, TypeOK, members, slotOf, heldBy, Slot!slots
<1> QED
  BY <1>1, <1>2, <1>3, <1>4, <1>5, <1>6, <1>7, <1>8, <1>9, <1>10, <1>11, <1>12, <1>13,
     <1>14, <1>15 DEF Next, Slot!SlotNext

(* The detailed handshake implements the one-place job slot.                *)
THEOREM HandshakeImplementsSlot == Spec => ImplementsSlot
<1>1. Init => Slot!SlotInit
  BY DEF Init, Slot!SlotInit, slotOf, heldBy
<1> QED BY <1>1, InitEstablishesInvariant, NextPreservesInvariant, StepsMapToSlotSteps, PTL
        DEF Spec, ImplementsSlot, Slot!SlotSafety

-----------------------------------------------------------------------------
(* What an engine is made of, and where replicas may be.                     *)
Parts == {"options", "search", "numa", "replicas", "current", "pool", "bound", "banks", "table",
          "seams", "host", "dead", "fault"}
Shaped(s) ==
  /\ DOMAIN s = Parts
  /\ \A i \in DOMAIN s.pool : {"token", "net", "seed"} \subseteq DOMAIN s.pool[i]

ReplicaHomes(cfg) == IF RequiresMemoryReplication(cfg) THEN Nodes(cfg) ELSE {0}

(* The replicas are those of the configuration, and of one network.          *)
Placed(s) ==
  /\ s.dead = FALSE /\ s.fault = FALSE
  /\ DOMAIN s.replicas = ReplicaHomes(s.numa) /\ 0 \in ReplicaHomes(s.numa)
  /\ \A n \in DOMAIN s.replicas : s.replicas[n] \in {s.replicas[0], None}
  /\ s.current # None => s.replicas[0] = s.current

(* The workers live where a replica may be, and have it.                     *)
Housed(s) == \A i \in DOMAIN s.pool : s.pool[i].token \in ReplicaHomes(s.numa)
Served(s) ==
  \A i \in DOMAIN s.pool : /\ s.pool[i].net = s.pool[i].token
                           /\ s.replicas[s.pool[i].token] = s.replicas[0]
                           /\ s.pool[i].seed = s.replicas[0]

EngineInv(s) ==
  Shaped(s) /\ s.dead \in BOOLEAN /\
  (~s.dead => Placed(s) /\ Housed(s) /\ Served(s) /\ s.seams = "pool" /\ s.host = "pool")

(* A node is a number, and where nothing is replicated there is one home.    *)
LEMMA HomesAreNodes ==
  ASSUME NEW cfg
  PROVE  /\ \A n \in ReplicaHomes(cfg) : n \in Int /\ n >= 0
         /\ 0 \in ReplicaHomes(cfg) => Nodes(cfg) \subseteq ReplicaHomes(cfg)
<1>1. \A n \in Nodes(cfg) : n \in Int /\ n >= 0
  BY DEF Nodes
<1>2. \A n \in ReplicaHomes(cfg) : n \in Int /\ n >= 0
  BY <1>1 DEF ReplicaHomes
<1>3. Nodes(cfg) \subseteq ReplicaHomes(cfg)
  <2>1. CASE RequiresMemoryReplication(cfg)
    BY <2>1 DEF ReplicaHomes
  <2>2. CASE ~RequiresMemoryReplication(cfg)
    BY <1>1, <2>2 DEF ReplicaHomes, RequiresMemoryReplication
  <2> QED BY <2>1, <2>2
<1> QED BY <1>2, <1>3

-----------------------------------------------------------------------------
(* The calls a command is made of.                                           *)

(* A worker that asks gets the replica of its node.                          *)
LEMMA EnsureServes ==
  ASSUME NEW s, Shaped(s), s.dead \in BOOLEAN, NEW r, r = EnsureNetworkReplicated(s)
  PROVE  /\ Shaped(r) /\ r.dead \in BOOLEAN /\ (s.dead => r.dead)
         /\ r.seams = s.seams /\ r.host = s.host
         /\ ~r.dead /\ Placed(s) /\ Housed(s) => Placed(r) /\ Housed(r) /\ Served(r)
<1> DEFINE asked == {w.token : w \in Range(s.pool)}
           made == {n \in asked : s.replicas[n] = None}
           replicas == [n \in DOMAIN s.replicas |-> s.replicas[IF n \in made THEN 0 ELSE n]]
           pool == [i \in DOMAIN s.pool |-> [s.pool[i] EXCEPT !.net = s.pool[i].token, !.seed = s.replicas[0]]]
           dead == s.dead \/ \E n \in made : ~CanBind(machine, s.numa, n)
<1>1. r = [s EXCEPT !.replicas = replicas, !.pool = pool, !.dead = dead]
  BY DEF EnsureNetworkReplicated
<1>2. \A i \in DOMAIN s.pool : s.pool[i].token \in asked
  BY DEF Range
<1>3. /\ DOMAIN pool = DOMAIN s.pool
      /\ \A i \in DOMAIN s.pool : /\ DOMAIN pool[i] = DOMAIN s.pool[i] /\ pool[i].token = s.pool[i].token
                                  /\ pool[i].net = s.pool[i].token /\ pool[i].seed = s.replicas[0]
  BY DEF Shaped
<1>4. dead \in BOOLEAN /\ (s.dead => dead)
  OBVIOUS
<1>5. \A n \in DOMAIN s.replicas : replicas[n] = s.replicas[IF n \in made THEN 0 ELSE n]
  OBVIOUS
<1>6. 0 \in DOMAIN s.replicas => replicas[0] = s.replicas[0]
  BY <1>5
<1>7. \A n \in DOMAIN s.replicas : n \in asked /\ s.replicas[n] = None => replicas[n] = s.replicas[0]
  BY <1>5
<1>8. \A n \in DOMAIN s.replicas : n \notin made => replicas[n] = s.replicas[n]
  BY <1>5
<1>9. DOMAIN replicas = DOMAIN s.replicas
  OBVIOUS
<1> HIDE DEF replicas, pool, dead
<1>10. /\ DOMAIN r = Parts /\ r.replicas = replicas /\ r.pool = pool /\ r.dead = dead
       /\ r.seams = s.seams /\ r.host = s.host /\ r.numa = s.numa /\ r.current = s.current /\ r.fault = s.fault
  BY <1>1 DEF Shaped, Parts
<1>11. Shaped(r)
  BY <1>3, <1>10 DEF Shaped
<1>12. ASSUME ~dead, Placed(s), Housed(s) PROVE Placed(r) /\ Housed(r) /\ Served(r)
  <2>1. Placed(r)
    BY <1>4, <1>5, <1>6, <1>9, <1>10, <1>12 DEF Placed
  <2>2. Housed(r)
    BY <1>3, <1>10, <1>12 DEF Housed
  <2>3. \A i \in DOMAIN s.pool : replicas[s.pool[i].token] = s.replicas[0]
    <3> SUFFICES ASSUME NEW i \in DOMAIN s.pool PROVE replicas[s.pool[i].token] = s.replicas[0]
      OBVIOUS
    <3>1. s.pool[i].token \in DOMAIN s.replicas /\ s.pool[i].token \in asked
      BY <1>2, <1>12 DEF Housed, Placed
    <3>2. s.replicas[s.pool[i].token] \in {s.replicas[0], None}
      BY <1>12, <3>1 DEF Placed
    <3> HIDE DEF asked
    <3> QED BY <1>7, <1>8, <3>1, <3>2
  <2>4. Served(r)
    BY <1>3, <1>6, <1>10, <1>12, <2>3 DEF Served, Placed
  <2> QED BY <2>1, <2>2, <2>4
<1> QED BY <1>4, <1>10, <1>11, <1>12

(* What a call that touches neither the replicas nor the workers leaves.     *)
Same(s, r) ==
  /\ DOMAIN r = DOMAIN s /\ r.numa = s.numa /\ r.replicas = s.replicas /\ r.current = s.current
  /\ r.pool = s.pool /\ r.fault = s.fault

LEMMA SameStands ==
  ASSUME NEW s, NEW r, Same(s, r), r.dead = FALSE
  PROVE  /\ Shaped(s) => Shaped(r)
         /\ Placed(s) => Placed(r)
         /\ Housed(s) => Housed(r)
         /\ Served(s) => Served(r)
<1>1. Shaped(s) => Shaped(r)
  BY DEF Same, Shaped
<1>2. Placed(s) => Placed(r)
  BY DEF Same, Placed
<1>3. Housed(s) => Housed(r)
  BY DEF Same, Housed
<1>4. Served(s) => Served(r)
  BY DEF Same, Served
<1> QED BY <1>1, <1>2, <1>3, <1>4

LEMMA CallsLeaveTheRest ==
  ASSUME NEW s, Shaped(s)
  PROVE  /\ Same(s, CopyOptions(s)) /\ CopyOptions(s).dead = s.dead
         /\ CopyOptions(s).seams = s.seams /\ CopyOptions(s).host = s.host
         /\ Same(s, Register(s)) /\ Register(s).dead = s.dead /\ Register(s).seams = "pool"
         /\ Same(s, SnapshotHost(s)) /\ SnapshotHost(s).dead = s.dead
         /\ SnapshotHost(s).seams = s.seams /\ SnapshotHost(s).host = s.seams
         /\ Same(s, ZeroTable(s)) /\ ZeroTable(s).dead = s.dead
         /\ ZeroTable(s).seams = s.seams /\ ZeroTable(s).host = s.host
         /\ Same(s, SetTTSize(s)) /\ SetTTSize(s).dead = s.dead
         /\ SetTTSize(s).seams = s.seams /\ SetTTSize(s).host = s.host
         /\ Same(s, VerifyNetwork(s)) /\ VerifyNetwork(s).dead = (s.dead \/ s.current # Requested(s.options.evalFile))
         /\ VerifyNetwork(s).seams = s.seams /\ VerifyNetwork(s).host = s.host
<1>1. DOMAIN s = Parts
  BY DEF Shaped
<1>2. /\ Same(s, CopyOptions(s)) /\ CopyOptions(s).dead = s.dead
      /\ CopyOptions(s).seams = s.seams /\ CopyOptions(s).host = s.host
  BY <1>1 DEF CopyOptions, Same, Parts
<1>3. Same(s, Register(s)) /\ Register(s).dead = s.dead /\ Register(s).seams = "pool"
  BY <1>1 DEF Register, Same, Parts
<1>4. /\ Same(s, SnapshotHost(s)) /\ SnapshotHost(s).dead = s.dead
      /\ SnapshotHost(s).seams = s.seams /\ SnapshotHost(s).host = s.seams
  BY <1>1 DEF SnapshotHost, Same, Parts
<1>5. ASSUME NEW z, DOMAIN z = Parts
      PROVE  /\ Same(z, ZeroTable(z)) /\ ZeroTable(z).dead = z.dead
             /\ ZeroTable(z).seams = z.seams /\ ZeroTable(z).host = z.host
  <2> DEFINE table == [z.table EXCEPT !.zeroedBy = IF z.seams = "pool" THEN Len(z.pool) ELSE 1]
  <2>1. ZeroTable(z) = [z EXCEPT !.table = table]
    BY DEF ZeroTable
  <2> HIDE DEF table
  <2> QED BY <1>5, <2>1 DEF Same, Parts
<1>6. /\ Same(s, SetTTSize(s)) /\ SetTTSize(s).dead = s.dead
      /\ SetTTSize(s).seams = s.seams /\ SetTTSize(s).host = s.host
  <2> DEFINE table == [s.table EXCEPT !.mb = s.options.hash]
             z == [s EXCEPT !.table = table]
  <2>1. SetTTSize(s) = ZeroTable(z)
    BY DEF SetTTSize
  <2> HIDE DEF table
  <2>2. DOMAIN z = Parts /\ Same(s, z) /\ z.dead = s.dead /\ z.seams = s.seams /\ z.host = s.host
    BY <1>1 DEF Same, Parts
  <2> HIDE DEF z
  <2>3. /\ Same(z, ZeroTable(z)) /\ ZeroTable(z).dead = z.dead
        /\ ZeroTable(z).seams = z.seams /\ ZeroTable(z).host = z.host
    BY <1>5, <2>2
  <2> QED BY <2>1, <2>2, <2>3 DEF Same
<1>7. /\ Same(s, VerifyNetwork(s)) /\ VerifyNetwork(s).dead = (s.dead \/ s.current # Requested(s.options.evalFile))
      /\ VerifyNetwork(s).seams = s.seams /\ VerifyNetwork(s).host = s.host
  BY <1>1 DEF VerifyNetwork, Same, Parts
<1> QED BY <1>1, <1>2, <1>3, <1>4, <1>5, <1>6, <1>7

(* Replicas made anew are of the weights handed over, and no worker has one. *)
LEMMA ReplicasAreMadeAnew ==
  ASSUME NEW s, Shaped(s), s.dead \in BOOLEAN, NEW weights, NEW r, r = PrepareReplicateFrom(s, weights)
  PROVE  /\ Shaped(r) /\ r.dead \in BOOLEAN /\ (s.dead => r.dead)
         /\ r.seams = s.seams /\ r.host = s.host
         /\ DOMAIN r.pool = DOMAIN s.pool
         /\ ~r.dead /\ s.fault = FALSE /\ (s.current # None => weights = s.current) => Placed(r)
         /\ Housed(s) => Housed(r)
<1> DEFINE replicated == RequiresMemoryReplication(s.numa)
           homes == IF replicated THEN Nodes(s.numa) ELSE {0}
           replicas == [n \in homes |-> IF n = 0 THEN weights ELSE None]
           pool == Unseat(s.pool)
           dead == s.dead \/ (replicated /\ ~CanBind(machine, s.numa, 0))
<1>1. r = [s EXCEPT !.replicas = replicas, !.pool = pool, !.dead = dead]
  BY DEF PrepareReplicateFrom
<1>2. homes = ReplicaHomes(s.numa)
  BY DEF ReplicaHomes
<1>3. /\ DOMAIN pool = DOMAIN s.pool
      /\ \A i \in DOMAIN s.pool : DOMAIN pool[i] = DOMAIN s.pool[i] /\ pool[i].token = s.pool[i].token
  BY DEF Shaped, Unseat
<1>4. dead \in BOOLEAN /\ (s.dead => dead)
  OBVIOUS
<1>5. ~dead => 0 \in homes
  BY DEF CanBind
<1>6. DOMAIN replicas = homes /\ \A n \in homes : replicas[n] = IF n = 0 THEN weights ELSE None
  OBVIOUS
<1> HIDE DEF replicas, pool, dead, homes
<1>7. /\ DOMAIN r = Parts /\ r.replicas = replicas /\ r.pool = pool /\ r.dead = dead
      /\ r.seams = s.seams /\ r.host = s.host /\ r.numa = s.numa /\ r.current = s.current /\ r.fault = s.fault
  BY <1>1 DEF Shaped, Parts
<1>8. Shaped(r)
  BY <1>3, <1>7 DEF Shaped
<1>9. ~dead /\ s.fault = FALSE /\ (s.current # None => weights = s.current) => Placed(r)
  BY <1>2, <1>4, <1>5, <1>6, <1>7 DEF Placed
<1>10. Housed(s) => Housed(r)
  BY <1>3, <1>7 DEF Housed
<1> QED BY <1>3, <1>4, <1>7, <1>8, <1>9, <1>10

(* A new pool lives on nodes that threads can be bound to, or on the first.  *)
LEMMA PoolIsHoused ==
  ASSUME NEW s, Shaped(s), s.dead \in BOOLEAN, NEW r, r = ThreadPoolSet(s)
  PROVE  /\ Shaped(r) /\ r.dead \in BOOLEAN /\ (s.dead => r.dead)
         /\ r.seams = s.seams /\ r.host = s.host
         /\ ~r.dead /\ Placed(s) => Placed(r) /\ Housed(r)
<1> DEFINE size == s.search.threads
           binds == BindsThreads(s)
           bound == IF binds THEN DistributeThreadsAmongNumaNodes(s.numa, size) ELSE << >>
           node == [i \in 1 .. size |-> IF binds THEN bound[i] ELSE 0]
           On(k, upto) == Cardinality({i \in 1 .. upto : node[i] = k})
           banks == [k \in Range(node) |-> PowerOfTwoCeil(On(k, size))]
           pool == [i \in 1 .. size |-> [token |-> node[i], idx |-> On(node[i], i - 1),
                                         total |-> On(node[i], size), net |-> NullNet, seed |-> None]]
           dead == s.dead \/ (binds /\ \E k \in Range(node) : ~CanBind(machine, s.numa, k))
<1>1. r = [s EXCEPT !.bound = bound, !.banks = banks, !.pool = pool, !.dead = dead]
  BY DEF ThreadPoolSet
<1>2. dead \in BOOLEAN /\ (s.dead => dead)
  OBVIOUS
<1>3. \A i \in 1 .. size : node[i] \in Range(node) /\ (~binds => node[i] = 0)
  BY DEF Range
<1>4. ASSUME ~dead, 0 \in ReplicaHomes(s.numa), NEW i \in 1 .. size PROVE node[i] \in ReplicaHomes(s.numa)
  <2>1. CASE binds
    <3>1. CanBind(machine, s.numa, node[i])
      BY <1>3, <1>4, <2>1
    <3> QED BY <1>4, <3>1, HomesAreNodes DEF CanBind
  <2>2. CASE ~binds
    BY <1>3, <1>4, <2>2
  <2> QED BY <2>1, <2>2
<1> HIDE DEF node
<1>5. /\ DOMAIN pool = 1 .. size
      /\ \A i \in 1 .. size : {"token", "net", "seed"} \subseteq DOMAIN pool[i] /\ pool[i].token = node[i]
  OBVIOUS
<1> HIDE DEF bound, banks, pool, dead
<1>6. /\ DOMAIN r = Parts /\ r.pool = pool /\ r.dead = dead
      /\ r.seams = s.seams /\ r.host = s.host /\ r.numa = s.numa /\ r.current = s.current /\ r.fault = s.fault
      /\ r.replicas = s.replicas
  BY <1>1 DEF Shaped, Parts
<1>7. Shaped(r)
  BY <1>5, <1>6 DEF Shaped
<1>8. ~dead /\ Placed(s) => Placed(r)
  BY <1>2, <1>6 DEF Placed
<1>9. ASSUME ~dead, Placed(s) PROVE Housed(r)
  BY <1>4, <1>5, <1>6, <1>9 DEF Housed, Placed
<1> QED BY <1>2, <1>6, <1>7, <1>8, <1>9

(* Clearing the workers seeds each from the replica it points at.            *)
LEMMA ClearingKeepsServed ==
  ASSUME NEW s, Shaped(s), s.dead \in BOOLEAN, NEW r, r = ClearPool(s)
  PROVE  /\ Shaped(r) /\ r.dead = s.dead /\ r.seams = s.seams /\ r.host = s.host
         /\ Placed(s) /\ Housed(s) /\ Served(s) => Placed(r) /\ Housed(r) /\ Served(r)
<1> DEFINE pool == [i \in DOMAIN s.pool |->
                      LET w == s.pool[i]
                      IN  IF w.net < 0 THEN w ELSE [w EXCEPT !.seed = s.replicas[w.net]]]
           fault == s.fault \/ \E w \in Range(s.pool) : w.net = Dangling
<1>1. r = [s EXCEPT !.pool = pool, !.fault = fault]
  BY DEF ClearPool
<1>2. DOMAIN pool = DOMAIN s.pool
  OBVIOUS
<1>3. \A i \in DOMAIN s.pool :
        /\ {"token", "net", "seed"} \subseteq DOMAIN pool[i]
        /\ pool[i].token = s.pool[i].token /\ pool[i].net = s.pool[i].net
        /\ pool[i].seed \in {s.pool[i].seed, s.replicas[s.pool[i].net]}
  <2> SUFFICES ASSUME NEW i \in DOMAIN s.pool
               PROVE  /\ {"token", "net", "seed"} \subseteq DOMAIN pool[i]
                      /\ pool[i].token = s.pool[i].token /\ pool[i].net = s.pool[i].net
                      /\ pool[i].seed \in {s.pool[i].seed, s.replicas[s.pool[i].net]}
    OBVIOUS
  <2>1. pool[i] = IF s.pool[i].net < 0 THEN s.pool[i]
                  ELSE [s.pool[i] EXCEPT !.seed = s.replicas[s.pool[i].net]]
    OBVIOUS
  <2>2. {"token", "net", "seed"} \subseteq DOMAIN s.pool[i]
    BY DEF Shaped
  <2> HIDE DEF pool
  <2> QED BY <2>1, <2>2
<1>4. ASSUME Placed(s), Housed(s), Served(s) PROVE fault = FALSE
  <2>1. \A i \in DOMAIN s.pool : s.pool[i].net \in Int /\ s.pool[i].net >= 0
    BY <1>4, HomesAreNodes DEF Housed, Served
  <2> QED BY <1>4, <2>1 DEF Placed, Range, Dangling
<1> HIDE DEF pool, fault
<1>5. /\ DOMAIN r = Parts /\ r.pool = pool /\ r.dead = s.dead /\ r.fault = fault
      /\ r.seams = s.seams /\ r.host = s.host /\ r.numa = s.numa /\ r.current = s.current
      /\ r.replicas = s.replicas
  BY <1>1 DEF Shaped, Parts
<1>6. Shaped(r)
  BY <1>2, <1>3, <1>5 DEF Shaped
<1>7. ASSUME Placed(s), Housed(s), Served(s) PROVE Placed(r) /\ Housed(r) /\ Served(r)
  <2>1. Placed(r)
    BY <1>4, <1>5, <1>7 DEF Placed
  <2>2. Housed(r)
    BY <1>2, <1>3, <1>5, <1>7 DEF Housed
  <2>3. Served(r)
    BY <1>2, <1>3, <1>5, <1>7 DEF Served
  <2> QED BY <2>1, <2>2, <2>3
<1> QED BY <1>5, <1>6, <1>7

(* A network that is said to be loaded has its weights, whichever file was   *)
(* absent, foreign or broken.                                                *)
LEMMA LoadingTellsTheTruth ==
  ASSUME NEW weights, NEW current, NEW file, current # None => weights = current
  PROVE  NetworkLoad(weights, current, file).current # None =>
           NetworkLoad(weights, current, file).weights = NetworkLoad(weights, current, file).current
<1> DEFINE path == Requested(file)
           True(l) == l.current # None => l.weights = l.current
           inside == IF current # path /\ path = DefaultName THEN LoadInternal
                     ELSE [weights |-> weights, current |-> current]
           Try(l, where) == IF l.current = path THEN l ELSE LoadExternal(l, where, path)
           first == Try(inside, 1)
           second == Try(first, 2)
<1>1. NetworkLoad(weights, current, file) = second
  BY DEF NetworkLoad
<1>2. DOMAIN inside = {"weights", "current"} /\ True(inside)
  BY DEF LoadInternal
<1>3. ASSUME NEW l, NEW where, DOMAIN l = {"weights", "current"}, True(l)
      PROVE  DOMAIN Try(l, where) = {"weights", "current"} /\ True(Try(l, where))
  <2> DEFINE got == LoadExternal(l, where, path)
             Is(kind) == disk[where][path] = kind
  <2>0. Try(l, where) = IF l.current = path THEN l ELSE got
    OBVIOUS
  <2> HIDE DEF Try
  <2>1. CASE Is("foreign")
    <3>1. got = [l EXCEPT !.current = None]
      BY <2>1 DEF LoadExternal
    <3> HIDE DEF got
    <3> QED BY <1>3, <2>0, <3>1
  <2>2. CASE Is("broken")
    <3>1. got = [weights |-> Wreck, current |-> None]
      BY <2>2 DEF LoadExternal
    <3> HIDE DEF got
    <3> QED BY <1>3, <2>0, <3>1
  <2>3. CASE Is("good")
    <3>1. got = [weights |-> path, current |-> path]
      BY <2>3 DEF LoadExternal
    <3> HIDE DEF got
    <3> QED BY <1>3, <2>0, <3>1
  <2>4. CASE ~Is("foreign") /\ ~Is("broken") /\ ~Is("good")
    <3>1. got = l
      BY <2>4 DEF LoadExternal
    <3> HIDE DEF got
    <3> QED BY <1>3, <2>0, <3>1
  <2> QED BY <2>1, <2>2, <2>3, <2>4
<1> HIDE DEF inside
<1>4. DOMAIN first = {"weights", "current"} /\ True(first)
  BY <1>2, <1>3
<1> HIDE DEF first
<1>5. True(second)
  BY <1>3, <1>4
<1> QED BY <1>1, <1>5

-----------------------------------------------------------------------------
(* The commands.                                                             *)

(* Whatever the pool was, a new one is housed and served through the seams.  *)
LEMMA ResizingServes ==
  ASSUME NEW s, Shaped(s), s.dead \in BOOLEAN, s.dead \/ Placed(s)
  PROVE  LET r == ResizeThreads(s)
         IN  /\ Shaped(r) /\ r.dead \in BOOLEAN /\ (s.dead => r.dead)
             /\ ~r.dead => Placed(r) /\ Housed(r) /\ Served(r) /\ r.seams = "pool" /\ r.host = "pool"
<1> DEFINE a == CopyOptions(s)
           b == Register(a)
           c == SnapshotHost(b)
           d == ThreadPoolSet(c)
           t == SetTTSize(d)
           r == EnsureNetworkReplicated(t)
<1>0. ResizeThreads(s) = r
  BY DEF ResizeThreads
<1>1. Same(s, a) /\ a.dead = s.dead /\ Shaped(a)
  BY CallsLeaveTheRest DEF Same, Shaped
<1> HIDE DEF a
<1>2. Same(a, b) /\ b.dead = s.dead /\ b.seams = "pool" /\ Shaped(b)
  <2>1. Same(a, b) /\ b.dead = s.dead /\ b.seams = "pool"
    BY <1>1, CallsLeaveTheRest
  <2> HIDE DEF b
  <2> QED BY <1>1, <2>1 DEF Same, Shaped
<1> HIDE DEF b
<1>3. Same(b, c) /\ c.dead = s.dead /\ c.seams = "pool" /\ c.host = "pool" /\ Shaped(c)
  <2>1. Same(b, c) /\ c.dead = s.dead /\ c.seams = "pool" /\ c.host = "pool"
    BY <1>2, CallsLeaveTheRest
  <2> HIDE DEF c
  <2> QED BY <1>2, <2>1 DEF Same, Shaped
<1>4. s.dead \/ Placed(c)
  <2> HIDE DEF c
  <2> QED BY <1>1, <1>2, <1>3 DEF Same, Placed
<1> HIDE DEF c
<1>5. /\ Shaped(d) /\ d.dead \in BOOLEAN /\ (s.dead => d.dead)
      /\ d.seams = "pool" /\ d.host = "pool"
      /\ ~d.dead => Placed(d) /\ Housed(d)
  BY <1>3, <1>4, PoolIsHoused
<1> HIDE DEF d
<1>6. Same(d, t) /\ t.dead = d.dead /\ t.seams = "pool" /\ t.host = "pool" /\ Shaped(t)
  <2>1. Same(d, t) /\ t.dead = d.dead /\ t.seams = "pool" /\ t.host = "pool"
    BY <1>5, CallsLeaveTheRest
  <2> HIDE DEF t
  <2> QED BY <1>5, <2>1 DEF Same, Shaped
<1>7. ~t.dead => Placed(t) /\ Housed(t)
  <2> HIDE DEF t
  <2> QED BY <1>5, <1>6 DEF Same, Placed, Housed
<1> HIDE DEF t
<1>8. /\ Shaped(r) /\ r.dead \in BOOLEAN /\ (s.dead => r.dead)
      /\ ~r.dead => Placed(r) /\ Housed(r) /\ Served(r) /\ r.seams = "pool" /\ r.host = "pool"
  <2>1. /\ Shaped(r) /\ r.dead \in BOOLEAN /\ (t.dead => r.dead)
        /\ r.seams = t.seams /\ r.host = t.host
        /\ ~r.dead /\ Placed(t) /\ Housed(t) => Placed(r) /\ Housed(r) /\ Served(r)
    BY <1>5, <1>6, EnsureServes
  <2> HIDE DEF r
  <2> QED BY <1>5, <1>6, <1>7, <2>1
<1> HIDE DEF r
<1> QED BY <1>0, <1>8

(* A value is kept before its handler is called.                             *)
LEMMA KeepingAValue ==
  ASSUME NEW s, EngineInv(s), NEW values
  PROVE  EngineInv([s EXCEPT !.options = values]) /\ [s EXCEPT !.options = values].dead = s.dead
<1> DEFINE r == [s EXCEPT !.options = values]
<1>1. Same(s, r) /\ r.dead = s.dead /\ r.seams = s.seams /\ r.host = s.host
  BY DEF EngineInv, Shaped, Parts, Same
<1> HIDE DEF r
<1>2. Shaped(r)
  BY <1>1 DEF EngineInv, Shaped, Same
<1>3. EngineInv(r)
  BY <1>1, <1>2, SameStands DEF EngineInv
<1> QED BY <1>1, <1>3 DEF r

LEMMA NewPolicyServes ==
  ASSUME NEW s, EngineInv(s), ~s.dead
  PROVE  EngineInv(SetNumaConfigFromOption(s))
<1> DEFINE configs == ConfigOf(s.options.numaPolicy)
           n == [s EXCEPT !.numa = CHOOSE c \in configs : TRUE]
           p == PrepareReplicateFrom(n, s.replicas[0])
           z == ResizeThreads(p)
           r == EnsureNetworkReplicated(z)
<1>1. CASE configs = {}
  BY <1>1 DEF SetNumaConfigFromOption
<1>2. CASE configs # {}
  <2>1. SetNumaConfigFromOption(s) = r
    BY <1>2 DEF SetNumaConfigFromOption, ReplicateNewConfig
  <2> HIDE DEF configs
  <2>2. /\ DOMAIN n = Parts /\ n.pool = s.pool /\ n.dead = s.dead /\ n.fault = s.fault
        /\ n.current = s.current
    BY DEF EngineInv, Shaped, Parts
  <2> HIDE DEF n
  <2>3. /\ Shaped(n) /\ n.dead = FALSE /\ n.fault = FALSE
        /\ n.current # None => s.replicas[0] = n.current
    BY <2>2 DEF EngineInv, Shaped, Placed
  <2>4. Shaped(p) /\ p.dead \in BOOLEAN /\ (p.dead \/ Placed(p))
    BY <2>3, ReplicasAreMadeAnew
  <2> HIDE DEF p
  <2>5. /\ Shaped(z) /\ z.dead \in BOOLEAN
        /\ ~z.dead => Placed(z) /\ Housed(z) /\ Served(z) /\ z.seams = "pool" /\ z.host = "pool"
    BY <2>4, ResizingServes
  <2> HIDE DEF z
  <2>6. /\ Shaped(r) /\ r.dead \in BOOLEAN /\ (z.dead => r.dead)
        /\ r.seams = z.seams /\ r.host = z.host
        /\ ~r.dead /\ Placed(z) /\ Housed(z) => Placed(r) /\ Housed(r) /\ Served(r)
    BY <2>5, EnsureServes
  <2> HIDE DEF r
  <2>7. EngineInv(r)
    BY <2>5, <2>6 DEF EngineInv
  <2> QED BY <2>1, <2>7
<1> QED BY <1>1, <1>2

(* Weights handed over to new replicas, which the workers then ask for.      *)
LEMMA NewWeightsServe ==
  ASSUME NEW s, Shaped(s), s.dead \in BOOLEAN, NEW weights,
         ~s.dead => /\ Housed(s) /\ s.fault = FALSE /\ s.seams = "pool" /\ s.host = "pool"
                    /\ s.current # None => weights = s.current
  PROVE  EngineInv(EnsureNetworkReplicated(PrepareReplicateFrom(s, weights)))
<1> DEFINE p == PrepareReplicateFrom(s, weights)
           r == EnsureNetworkReplicated(p)
<1>1. /\ Shaped(p) /\ p.dead \in BOOLEAN /\ (s.dead => p.dead)
      /\ p.seams = s.seams /\ p.host = s.host
      /\ ~p.dead => Placed(p) /\ Housed(p)
  BY ReplicasAreMadeAnew
<1> HIDE DEF p
<1>2. /\ Shaped(r) /\ r.dead \in BOOLEAN /\ (p.dead => r.dead)
      /\ r.seams = p.seams /\ r.host = p.host
      /\ ~r.dead /\ Placed(p) /\ Housed(p) => Placed(r) /\ Housed(r) /\ Served(r)
  BY <1>1, EnsureServes
<1> HIDE DEF r
<1>3. EngineInv(r)
  BY <1>1, <1>2 DEF EngineInv
<1> QED BY <1>3 DEF r, p

LEMMA ClearedStaysGood ==
  ASSUME NEW s, EngineInv(s)
  PROVE  EngineInv(ClearPool(s))
<1> DEFINE r == ClearPool(s)
<1>1. /\ Shaped(r) /\ r.dead = s.dead /\ r.seams = s.seams /\ r.host = s.host
      /\ Placed(s) /\ Housed(s) /\ Served(s) => Placed(r) /\ Housed(r) /\ Served(r)
  BY ClearingKeepsServed DEF EngineInv
<1> HIDE DEF r
<1>2. EngineInv(r)
  BY <1>1 DEF EngineInv
<1> QED BY <1>2 DEF r

LEMMA NewNetworkServes ==
  ASSUME NEW s, EngineInv(s), ~s.dead
  PROVE  EngineInv(LoadNetwork(s))
<1> DEFINE loaded == NetworkLoad(s.replicas[0], s.current, s.options.evalFile)
           n == [s EXCEPT !.current = loaded.current]
           weights == loaded.weights
           r == EnsureNetworkReplicated(PrepareReplicateFrom(n, weights))
<1>1. LoadNetwork(s) = ClearPool(r)
  BY DEF LoadNetwork, ReloadNetwork
<1>2. loaded.current # None => weights = loaded.current
  BY LoadingTellsTheTruth DEF EngineInv, Placed
<1> HIDE DEF loaded, weights
<1>3. /\ DOMAIN n = Parts /\ n.pool = s.pool /\ n.dead = s.dead /\ n.fault = s.fault /\ n.numa = s.numa
      /\ n.seams = s.seams /\ n.host = s.host /\ n.current = loaded.current
  BY DEF EngineInv, Shaped, Parts
<1> HIDE DEF n
<1>4. /\ Shaped(n) /\ n.dead = FALSE /\ n.fault = FALSE /\ Housed(n)
      /\ n.seams = "pool" /\ n.host = "pool"
      /\ n.current # None => weights = n.current
  BY <1>2, <1>3 DEF EngineInv, Shaped, Placed, Housed
<1>5. EngineInv(r)
  BY <1>4, NewWeightsServe
<1> HIDE DEF r
<1> QED BY <1>1, <1>5, ClearedStaysGood

LEMMA SavingServes ==
  ASSUME NEW s, EngineInv(s), ~s.dead
  PROVE  EngineInv(EnsureNetworkReplicated(PrepareReplicateFrom(s, s.replicas[0])))
<1>1. /\ Shaped(s) /\ s.dead = FALSE /\ s.fault = FALSE /\ Housed(s) /\ s.seams = "pool" /\ s.host = "pool"
      /\ s.current # None => s.replicas[0] = s.current
  BY DEF EngineInv, Placed
<1> QED BY <1>1, NewWeightsServe

LEMMA TableStaysAside ==
  ASSUME NEW s, EngineInv(s)
  PROVE  EngineInv(ZeroTable(s)) /\ EngineInv(SetTTSize(s)) /\ EngineInv(VerifyNetwork(s))
<1>1. ASSUME NEW r, Same(s, r), r.dead \in BOOLEAN, s.dead => r.dead,
             r.seams = s.seams, r.host = s.host
      PROVE  EngineInv(r)
  <2>1. Shaped(r)
    BY <1>1 DEF EngineInv, Shaped, Same
  <2> QED BY <1>1, <2>1, SameStands DEF EngineInv
<1>2. Shaped(s) /\ s.dead \in BOOLEAN
  BY DEF EngineInv
<1> QED BY <1>1, <1>2, CallsLeaveTheRest

(* A search starts with the workers all served.                              *)
LEMMA GoingFindsAllServed ==
  ASSUME NEW s, EngineInv(s), ~s.dead
  PROVE  EngineInv([CopyOptions(VerifyNetwork(s)) EXCEPT
                      !.fault = s.fault \/ \E w \in Range(s.pool) : w.net < 0])
<1> DEFINE v == VerifyNetwork(s)
           c == CopyOptions(v)
           fault == s.fault \/ \E w \in Range(s.pool) : w.net < 0
           r == [c EXCEPT !.fault = fault]
<1>1. fault = FALSE
  <2>1. \A i \in DOMAIN s.pool : s.pool[i].net \in Int /\ s.pool[i].net >= 0
    BY HomesAreNodes DEF EngineInv, Housed, Served
  <2> QED BY <2>1 DEF EngineInv, Placed, Range
<1>2. EngineInv(v)
  BY TableStaysAside
<1> HIDE DEF v
<1>3. /\ Same(v, c) /\ c.dead = v.dead /\ c.seams = v.seams /\ c.host = v.host
  BY <1>2, CallsLeaveTheRest DEF EngineInv
<1> HIDE DEF c, fault
<1>4. EngineInv(c)
  <2>1. Shaped(c)
    BY <1>2, <1>3 DEF EngineInv, Shaped, Same
  <2> QED BY <1>2, <1>3, <2>1, SameStands DEF EngineInv
<1>5. ~c.dead => Same(c, r)
  BY <1>1, <1>4 DEF EngineInv, Shaped, Parts, Same, Placed
<1>6. Shaped(r) /\ r.dead = c.dead /\ r.seams = c.seams /\ r.host = c.host
  BY <1>4 DEF EngineInv, Shaped, Parts
<1> HIDE DEF r
<1>7. EngineInv(r)
  BY <1>4, <1>5, <1>6, SameStands DEF EngineInv
<1> QED BY <1>7 DEF r, c, v, fault

LEMMA EngineStartsServed == SetupInit => EngineInv(e)
<1> SUFFICES ASSUME SetupInit PROVE EngineInv(e)
  OBVIOUS
<1> DEFINE s == Fresh(FromSystem(machine, TRUE))
           weights == NetworkLoad(Wreck, None, "").weights
           made == PrepareReplicateFrom(s, weights)
           cleared == ClearPool(made)
           served == EnsureNetworkReplicated(cleared)
<1>1. e = ResizeThreads(served)
  BY DEF SetupInit
<1>2. /\ DOMAIN s = Parts /\ s.pool = << >> /\ s.dead = FALSE /\ s.fault = FALSE
      /\ s.current = DefaultName
  BY DEF Fresh, Parts
<1>3. DefaultName # None => weights = DefaultName
  <2>1. Requested("") = DefaultName
    BY DEF Requested
  <2>2. ASSUME DefaultName # None PROVE NetworkLoad(Wreck, None, "") = LoadInternal
    <3>1. LoadInternal.current = DefaultName
      BY DEF LoadInternal
    <3> QED BY <2>1, <2>2, <3>1 DEF NetworkLoad
  <2>3. LoadInternal.weights = DefaultName
    BY DEF LoadInternal
  <2> QED BY <2>2, <2>3
<1> HIDE DEF s, weights
<1>4. /\ Shaped(s) /\ Housed(s) /\ DOMAIN s.pool = {}
      /\ s.current # None => weights = s.current
  <2>1. \A i \in DOMAIN s.pool : FALSE
    BY <1>2
  <2> QED BY <1>2, <1>3, <2>1 DEF Shaped, Housed
<1>5. /\ Shaped(made) /\ made.dead \in BOOLEAN /\ DOMAIN made.pool = {}
      /\ (~made.dead => Placed(made) /\ Housed(made))
  BY <1>2, <1>4, ReplicasAreMadeAnew
<1> HIDE DEF made
<1>6. Served(made)
  BY <1>5 DEF Served
<1>7. /\ Shaped(cleared) /\ cleared.dead \in BOOLEAN
      /\ ~cleared.dead => Placed(cleared) /\ Housed(cleared)
  <2>1. /\ Shaped(cleared) /\ cleared.dead = made.dead
        /\ Placed(made) /\ Housed(made) /\ Served(made) => Placed(cleared) /\ Housed(cleared)
    BY <1>5, ClearingKeepsServed
  <2> HIDE DEF cleared
  <2> QED BY <1>5, <1>6, <2>1
<1> HIDE DEF cleared
<1>8. Shaped(served) /\ served.dead \in BOOLEAN /\ (served.dead \/ Placed(served))
  <2>1. /\ Shaped(served) /\ served.dead \in BOOLEAN /\ (cleared.dead => served.dead)
        /\ ~served.dead /\ Placed(cleared) /\ Housed(cleared) => Placed(served)
    BY <1>7, EnsureServes
  <2> HIDE DEF served
  <2> QED BY <1>7, <2>1
<1> HIDE DEF served
<1>9. /\ Shaped(e) /\ e.dead \in BOOLEAN
      /\ ~e.dead => Placed(e) /\ Housed(e) /\ Served(e) /\ e.seams = "pool" /\ e.host = "pool"
  BY <1>1, <1>8, ResizingServes
<1> QED BY <1>9 DEF EngineInv

(* Resizing leaves a good engine good.                                       *)
LEMMA ResizedStaysGood ==
  ASSUME NEW s, EngineInv(s)
  PROVE  EngineInv(ResizeThreads(s))
<1> DEFINE r == ResizeThreads(s)
<1>1. Shaped(s) /\ s.dead \in BOOLEAN /\ (s.dead \/ Placed(s))
  BY DEF EngineInv
<1>2. /\ Shaped(r) /\ r.dead \in BOOLEAN
      /\ ~r.dead => Placed(r) /\ Housed(r) /\ Served(r) /\ r.seams = "pool" /\ r.host = "pool"
  BY <1>1, ResizingServes
<1> HIDE DEF r
<1>3. EngineInv(r)
  BY <1>2 DEF EngineInv
<1> QED BY <1>3 DEF r

LEMMA EngineStaysServed == EngineInv(e) /\ [SetupNext]_setupVars => EngineInv(e)'
<1> SUFFICES ASSUME EngineInv(e), [SetupNext]_setupVars PROVE EngineInv(e')
  BY DEF EngineInv, Shaped, Placed, Housed, Served
<1>1. ASSUME NEW p \in Policies, SetNumaPolicy(p) PROVE EngineInv(e')
  <2> DEFINE values == [e.options EXCEPT !.numaPolicy = p]
             s == [e EXCEPT !.options = values]
  <2>1. ~e.dead /\ e' = SetNumaConfigFromOption(s)
    BY <1>1 DEF SetNumaPolicy, Do, Alive
  <2> HIDE DEF values
  <2>2. EngineInv(s) /\ s.dead = e.dead
    BY KeepingAValue
  <2> HIDE DEF s
  <2> QED BY <2>1, <2>2, NewPolicyServes
<1>2. ASSUME NEW n \in Values, SetThreads(n) PROVE EngineInv(e')
  <2> DEFINE values == [e.options EXCEPT !.threads = n]
             s == [e EXCEPT !.options = values]
  <2>1. e' = ResizeThreads(s)
    BY <1>2 DEF SetThreads, Do
  <2> HIDE DEF values
  <2>2. EngineInv(s)
    BY KeepingAValue
  <2> HIDE DEF s
  <2> QED BY <2>1, <2>2, ResizedStaysGood
<1>3. ASSUME NEW mb \in Values, SetHash(mb) PROVE EngineInv(e')
  <2> DEFINE values == [e.options EXCEPT !.hash = mb]
             s == [e EXCEPT !.options = values]
  <2>1. e' = SetTTSize(s)
    BY <1>3 DEF SetHash, Do
  <2> HIDE DEF values
  <2>2. EngineInv(s)
    BY KeepingAValue
  <2> HIDE DEF s
  <2> QED BY <2>1, <2>2, TableStaysAside
<1>4. ASSUME NEW file \in FileNames, SetEvalFile(file) PROVE EngineInv(e')
  <2> DEFINE values == [e.options EXCEPT !.evalFile = file]
             s == [e EXCEPT !.options = values]
  <2>1. ~e.dead /\ e' = LoadNetwork(s)
    BY <1>4 DEF SetEvalFile, Do, Alive
  <2> HIDE DEF values
  <2>2. EngineInv(s) /\ s.dead = e.dead
    BY KeepingAValue
  <2> HIDE DEF s
  <2> QED BY <2>1, <2>2, NewNetworkServes
<1>5. CASE SearchClear
  <2>1. e' = ClearPool(ZeroTable(e))
    BY <1>5 DEF SearchClear, Do
  <2> QED BY <2>1, TableStaysAside, ClearedStaysGood
<1>6. CASE SaveNetwork
  BY <1>6, SavingServes DEF SaveNetwork, Do, Alive
<1>7. CASE Inspect
  BY <1>7, TableStaysAside DEF Inspect, Do
<1>8. CASE Go
  BY <1>8, GoingFindsAllServed DEF Go, Do, Alive
<1>9. CASE UNCHANGED setupVars
  BY <1>9 DEF setupVars
<1>10. CASE Dead
  BY <1>10 DEF Dead, setupVars
<1> QED BY <1>1, <1>2, <1>3, <1>4, <1>5, <1>6, <1>7, <1>8, <1>9, <1>10 DEF SetupNext

(* A living engine in order is one whose workers read the loaded network.    *)
LEMMA ServedIsRead == EngineInv(e) => WorkersReadTheLoadedNetwork
  BY DEF EngineInv, Placed, Served, WorkersReadTheLoadedNetwork, Alive, Range

(* After any sequence of options, commands and searches, on any machine with *)
(* any files: every worker points at the live replica of its own node, with  *)
(* the weights that were loaded and a cache seeded from them                 *)
(* (engine.cpp resize_threads, load_network; numa_shared.h; network.cpp).    *)
THEOREM WorkersAlwaysReadTheLoadedNetwork == SetupSpec => []WorkersReadTheLoadedNetwork
  BY EngineStartsServed, EngineStaysServed, ServedIsRead, PTL DEF SetupSpec

-----------------------------------------------------------------------------
(* The headless runner, for any nets, any number of workers and any host,   *)
(* though its workers and their caches live on from one call to the next.   *)
(* All caches hold the net on record, whatever was refused or rebuilt in    *)
(* between: without that, a net on record would not be seeded again.        *)
HeadlessInv ==
  /\ hostThreads \in Nat
  /\ workerSet \in {"default", "caller"}
  /\ workers \in Seq(Nets \cup {NoNet})
  /\ \A i \in 1 .. Len(workers) : workers[i] = seeded
  /\ seeded \in Nets \cup {NoNet}
  /\ AnswersFromItsNet

LEMMA ConstantCaches ==
  ASSUME NEW n \in Nat, NEW S, NEW net \in S
  PROVE  LET c == [i \in 1 .. n |-> net]
         IN  c \in Seq(S) /\ Len(c) = n /\ \A i \in 1 .. n : c[i] = net
  OBVIOUS

LEMMA HeadlessStartsWell == HeadlessInit => HeadlessInv
<1> SUFFICES ASSUME HeadlessInit PROVE HeadlessInv
  OBVIOUS
<1>1. hostThreads \in Nat /\ workerSet \in {"default", "caller"}
  BY MaxWorkersAssumption DEF HeadlessInit
<1>2. workers = << >> /\ seeded = NoNet /\ answer = Refused
  BY DEF HeadlessInit
<1> QED BY <1>1, <1>2 DEF HeadlessInv, AnswersFromItsNet

(* What a call evaluates with, after the workers were kept or rebuilt.      *)
LEMMA CallSeeds ==
  ASSUME HeadlessInv, NEW net \in Nets, NEW n \in Nat, n # 0
  PROVE  LET built == BuildWorkers(n)
             caches == IF built.net = net THEN built.ws ELSE [i \in 1 .. n |-> net]
         IN  /\ caches \in Seq(Nets \cup {NoNet}) /\ Len(caches) = n
             /\ \A i \in 1 .. n : caches[i] = net
             /\ Range(caches) = {net}
<1> DEFINE built == BuildWorkers(n)
           fresh == [i \in 1 .. n |-> net]
           caches == IF built.net = net THEN built.ws ELSE fresh
           Hold(c) == c \in Seq(Nets \cup {NoNet}) /\ Len(c) = n /\ \A i \in 1 .. n : c[i] = net
<1>1. Hold(fresh)
  BY ConstantCaches
<1>2. built.net = net => Hold(built.ws)
  <2>1. CASE Len(workers) = n
    <3>1. built.ws = workers /\ built.net = seeded
      BY <2>1 DEF BuildWorkers
    <3> QED BY <2>1, <3>1 DEF HeadlessInv
  <2>2. CASE Len(workers) # n
    <3>1. built.ws = [i \in 1 .. n |-> NoNet] /\ built.net = NoNet
      BY <2>2 DEF BuildWorkers
    <3> QED BY <1>1, <3>1
  <2> QED BY <2>1, <2>2
<1> HIDE DEF built, fresh
<1>3. Hold(caches)
  BY <1>1, <1>2
<1>4. caches \in Seq(Nets \cup {NoNet}) /\ Len(caches) = n /\ \A i \in 1 .. n : caches[i] = net
  BY <1>3
<1>5. Range(caches) = {net}
  <2> HIDE DEF caches
  <2>1. DOMAIN caches = 1 .. n /\ 1 \in 1 .. n
    BY <1>4
  <2> QED BY <1>4, <2>1 DEF Range
<1> QED BY <1>4, <1>5 DEF built, fresh

LEMMA HeadlessStepsWell == HeadlessInv /\ [HeadlessNext]_headlessVars => HeadlessInv'
<1> SUFFICES ASSUME HeadlessInv, [HeadlessNext]_headlessVars PROVE HeadlessInv'
  OBVIOUS
<1>1. ASSUME NEW net \in Nets, NEW n \in 0 .. MaxWorkers, NEW searchable \in BOOLEAN,
             HeadlessGo(net, n, searchable)
      PROVE  HeadlessInv'
  <2> DEFINE built == BuildWorkers(n)
             caches == IF built.net = net THEN built.ws ELSE [i \in 1 .. n |-> net]
             ours == IF n > 1 THEN "ours" ELSE workerSet
  <2>1. n \in Nat /\ UNCHANGED <<hostThreads, workerSet>>
    BY <1>1, MaxWorkersAssumption DEF HeadlessGo
  <2>2. CASE Refuses(n)
    <3>1. answer' = Refused /\ UNCHANGED <<workers, seeded>>
      BY <1>1, <2>2 DEF HeadlessGo, Fail
    <3> QED BY <2>1, <3>1 DEF HeadlessInv, AnswersFromItsNet
  <2>3. CASE ~Refuses(n)
    <3>1. n # 0
      BY <2>3 DEF Refuses
    <3>2. /\ caches \in Seq(Nets \cup {NoNet}) /\ Len(caches) = n
          /\ \A i \in 1 .. n : caches[i] = net
          /\ Range(caches) = {net}
      BY <2>1, <3>1, CallSeeds
    <3>3. workers' = caches /\ seeded' = net
      BY <1>1, <2>3 DEF HeadlessGo
    <3>4. /\ answer' = Refused
          \/ /\ snapshot' = ours
             /\ answer' = [asked |-> n, ran |-> Reached(snapshot', n), net |-> net, caches |-> Range(caches)]
      BY <1>1, <2>3 DEF HeadlessGo, Fail
    <3> HIDE DEF caches
    <3>5. Reached(ours, n) = n
      BY <2>1, <3>1 DEF Reached, HeadlessInv
    <3> HIDE DEF ours
    <3>6. AnswersFromItsNet'
      <4>1. CASE answer' = Refused
        BY <4>1 DEF AnswersFromItsNet
      <4>2. CASE answer' = [asked |-> n, ran |-> n, net |-> net, caches |-> {net}]
        BY <4>2 DEF AnswersFromItsNet
      <4> QED BY <3>2, <3>4, <3>5, <4>1, <4>2
    <3> QED BY <2>1, <3>2, <3>3, <3>6 DEF HeadlessInv
  <2> QED BY <2>2, <2>3
<1>2. ASSUME NEW n \in 1 .. MaxWorkers, HostRegisters(n) PROVE HeadlessInv'
  BY <1>2, MaxWorkersAssumption DEF HostRegisters, HeadlessInv, AnswersFromItsNet
<1>3. CASE UNCHANGED headlessVars
  BY <1>3 DEF headlessVars, HeadlessInv, AnswersFromItsNet
<1> QED BY <1>1, <1>2, <1>3 DEF HeadlessNext

(* A search that answers ran on all the workers it was asked for, and every *)
(* one of them evaluated through a cache seeded from the net of this call,  *)
(* whatever calls were refused, failed or rebuilt the workers before        *)
(* (search_go.cpp, search_go and its static Context).                       *)
THEOREM AlwaysAnswersFromItsNet == HeadlessSpec => []AnswersFromItsNet
<1>1. HeadlessInv => AnswersFromItsNet
  BY DEF HeadlessInv
<1> QED BY <1>1, HeadlessStartsWell, HeadlessStepsWell, PTL DEF HeadlessSpec

(* Of both parts: workers evaluate with the network they were given          *)
(* (engine.cpp, search_go.cpp).                                              *)
THEOREM NetworksAreAlwaysRead == MCSpec => []NetworksAreRead
<1> DEFINE Inv == /\ HeadlessInv
                  /\ part \in {"engine", "runner"}
                  /\ IF part = "engine" THEN EngineInv(e) ELSE e.dead = TRUE
<1>1. MCInit => Inv
  <2>1. CASE EngineInit
    <3>1. HeadlessInv
      BY <2>1 DEF EngineInit, RunnerRests, HeadlessInv, AnswersFromItsNet
    <3> QED BY <2>1, <3>1, EngineStartsServed DEF EngineInit
  <2>2. CASE RunnerInit
    BY <2>2, HeadlessStartsWell DEF RunnerInit, SetupRests
  <2> QED BY <2>1, <2>2 DEF MCInit
<1>2. Inv /\ [MCNext]_mcVars => Inv'
  <2> SUFFICES ASSUME Inv, [MCNext]_mcVars PROVE Inv'
    OBVIOUS
  <2>1. CASE part = "engine" /\ SetupNext /\ UNCHANGED <<part, headlessVars>>
    <3>1. EngineInv(e)'
      BY <2>1, EngineStaysServed
    <3>2. HeadlessInv'
      BY <2>1, HeadlessStepsWell
    <3> QED BY <2>1, <3>1, <3>2
  <2>2. CASE part = "runner" /\ HeadlessNext /\ UNCHANGED <<part, setupVars>>
    <3>1. HeadlessInv'
      BY <2>2, HeadlessStepsWell
    <3> QED BY <2>2, <3>1 DEF setupVars
  <2>3. CASE UNCHANGED mcVars
    <3>1. HeadlessInv'
      BY <2>3, HeadlessStepsWell DEF mcVars
    <3>2. UNCHANGED <<part, setupVars>>
      BY <2>3 DEF mcVars
    <3>3. EngineInv(e) => EngineInv(e)'
      BY <3>2, EngineStaysServed
    <3> QED BY <3>1, <3>2, <3>3 DEF setupVars
  <2> QED BY <2>1, <2>2, <2>3 DEF MCNext
<1>3. Inv => NetworksAreRead
  BY ServedIsRead DEF HeadlessInv, NetworksAreRead, WorkersReadTheLoadedNetwork, Alive
<1> QED BY <1>1, <1>2, <1>3, PTL DEF MCSpec

-----------------------------------------------------------------------------
(* The hash, also while it is filled. Robin Hood hashing keeps every entry  *)
(* behind a run of taken buckets from its home on whose entries have homes  *)
(* no farther on: that is what lets a lookup stop at the first empty bucket *)
(* and an insertion pass by every bucket it does not take.                  *)
Taken(b) == hash[b].table # 0
Reaches(key, b) ==       \* the walk from home to before b finds no place
  /\ home[key] <= b
  /\ \A c \in home[key] .. b - 1 : Taken(c) /\ home[hash[c].key] <= home[key]

Entries == [key : Keys \cup {"none"}, table : Nat]

HashTyped ==
  /\ hash \in [Buckets -> Entries] /\ hash[Size] = Empty
  /\ \A b \in Buckets : Taken(b) =>
       hash[b].key \in Keys /\ hash[b].table \in found.tables /\ hash[b].key \in KeysOf(hash[b].table)

RobinHood ==
  /\ \A b \in Buckets : Taken(b) => Reaches(hash[b].key, b)
  /\ \A b, c \in Buckets : Taken(b) /\ Taken(c) /\ hash[b].key = hash[c].key => b = c

(* What insert() carries: a table on its way to a bucket.                   *)
Insertions == [material : 1 .. Len(Materials) + 1, colour : 0 .. 2, carried : Entries, bucket : 0 .. Size]
AddingTyped ==
  /\ adding \in Insertions
  /\ adding.colour # 0 => adding.material \in found.tables
CarriedIsOnItsWay ==
  adding.colour # 0 =>
    /\ adding.carried \in [key : Keys, table : found.tables]
    /\ adding.carried.key \in KeysOf(adding.carried.table)
    /\ Reaches(adding.carried.key, adding.bucket)
    /\ \A c \in home[adding.carried.key] .. adding.bucket - 1 : hash[c].key # adding.carried.key

(* A table counted as found is in the hash under both its keys, but for the *)
(* key that is carried and the second one, whose turn comes next.           *)
Held(key) == \E b \in Buckets : Taken(b) /\ hash[b].key = key
OnItsWay(i, key) ==
  \/ adding.colour # 0 /\ adding.carried.key = key
  \/ adding.colour = 1 /\ i = adding.material /\ key = Materials[i].key2
NoneIsLost == \A i \in found.tables : \A key \in KeysOf(i) : Held(key) \/ OnItsWay(i, key)

FoundTyped ==
  /\ found \in [tables : SUBSET DOMAIN Materials, wdl : Nat, dtz : Nat, cardinality : Nat, inits : Nat]
  /\ \A i \in found.tables : i <= adding.material /\ (adding.colour = 0 => i < adding.material)
  /\ found.wdl = Cardinality(found.tables) /\ found.dtz <= found.wdl

IndexInv ==
  /\ home \in [Keys -> Homes]
  /\ dir \in [DOMAIN Materials -> FileStates \X FileStates]
  /\ HashTyped /\ RobinHood /\ AddingTyped /\ CarriedIsOnItsWay /\ NoneIsLost /\ FoundTyped

-----------------------------------------------------------------------------
(* The files. A table that nobody is at work on is unopened or published,   *)
(* and published it holds what its file gives.                              *)
Stages == {"idle", "load", "lock", "recheck", "map", "parse", "publish", "use", "done"}
Inside == {"recheck", "map", "parse", "publish"}
Parsed(t, ready) ==
  IF DiskFile(dir, t[1], t[2]) = "whole"
  THEN [ready |-> ready, base |-> "file", filled |-> TRUE, mappings |-> 1]
  ELSE [ready |-> ready, base |-> "null", filled |-> FALSE, mappings |-> 0]
MappedOnly == [ready |-> FALSE, base |-> "file", filled |-> FALSE, mappings |-> 1]

Slots == (DOMAIN Materials) \X Types
EntriesRest ==
  /\ DOMAIN entry = Slots
  /\ \A t \in Slots :
       \/ entry[t] = Parsed(t, TRUE)
       \/ entry[t] = Unopened
       \/ /\ mutex \in Probers /\ probing[mutex].pc \in {"parse", "publish"} /\ SlotOf(mutex) = t

ProbeIsTrue(w) ==
  LET p == probing[w]
  IN  /\ p.pc # "idle" =>
           /\ p.key \in Keys
           /\ TableOfKey(p.key) = IF p.table = 0 THEN {} ELSE {p.table}
           /\ p.table # 0 => p.table \in DOMAIN Materials
           /\ Built
      /\ p.pc \notin {"idle", "done"} => p.table # 0
      /\ p.pc \in Inside <=> mutex = w
      /\ p.pc = "map" => entry[SlotOf(w)] = Unopened
      /\ p.pc = "parse" => entry[SlotOf(w)] = MappedOnly /\ DiskFile(dir, p.table, p.type) \in {"header", "whole"}
      /\ p.pc = "publish" => entry[SlotOf(w)] = Parsed(SlotOf(w), FALSE)
      /\ p.pc = "use" => entry[SlotOf(w)].ready
      /\ (p.pc = "done" /\ p.table = 0) => p.answer = "FAIL"
      /\ (p.pc = "done" /\ p.table # 0) =>
           p.answer = IF DiskFile(dir, p.table, p.type) = "whole" THEN "value" ELSE "FAIL"

Probes == [pc : Stages, key : Keys \cup {"none"}, type : Types, table : Nat, answer : {"none", "FAIL", "value"}]
FilesInv ==
  /\ mutex \in Probers \cup {0} /\ probing \in [Probers -> Probes]
  /\ EntriesRest
  /\ \A w \in Probers : ProbeIsTrue(w)

TablesInv == IndexInv /\ FilesInv

-----------------------------------------------------------------------------
indexVars == <<home, dir, hash, adding, found>>

LEMMA MaterialKeys ==
  ASSUME NEW i \in DOMAIN Materials
  PROVE  /\ i \in 1 .. Len(Materials) /\ i \in Nat /\ i # 0 /\ Len(Materials) \in Nat
         /\ Materials[i].key \in Keys /\ Materials[i].key2 \in Keys /\ Materials[i].men \in Nat
         /\ KeysOf(i) \subseteq Keys
<1> DEFINE T == [key : Keys, key2 : Keys, men : Nat]
<1>1. Materials \in Seq(T)
  BY MaterialsAssumption
<1>2. i \in 1 .. Len(Materials) /\ i \in Nat /\ i # 0 /\ Len(Materials) \in Nat
  BY <1>1
<1>3. Materials[i] \in T
  <2> HIDE DEF T
  <2> QED BY <1>1
<1> QED BY <1>2, <1>3 DEF KeysOf

LEMMA MaterialNumbers ==
  Len(Materials) \in Nat /\ DOMAIN Materials = 1 .. Len(Materials)
<1>1. Materials \in Seq([key : Keys, key2 : Keys, men : Nat])
  BY MaterialsAssumption
<1> QED BY <1>1

(* A key belongs to one material.                                           *)
LEMMA KeyTellsMaterial ==
  ASSUME NEW i \in DOMAIN Materials, NEW j \in DOMAIN Materials, NEW key \in KeysOf(i), key \in KeysOf(j)
  PROVE  i = j
  BY MaterialsAssumption

LEMMA HomeIsABucket ==
  ASSUME home \in [Keys -> Homes], NEW key \in Keys
  PROVE  home[key] \in Nat /\ home[key] < Size /\ home[key] \in Buckets
<1>1. home[key] \in 0 .. Size - 1 /\ Size \in Nat
  BY HomesAssumption
<1> QED BY <1>1 DEF Buckets

LEMMA AddFromStarts ==
  ASSUME NEW i \in 1 .. Len(Materials) + 1
  PROVE  LET a == AddFrom(i)
         IN  a \in Insertions /\ a.material = i /\ a.colour = 0 /\ a.bucket = 0
  BY HomesAssumption DEF AddFrom, Insertions, Entries, Empty

(* A table that is no more than opened for insertion.                       *)
LEMMA InsertingStarts ==
  ASSUME IndexInv, NEW i \in DOMAIN Materials, NEW colour \in {1, 2}
  PROVE  LET a == Inserting(i, colour)
             key == IF colour = 1 THEN Materials[i].key ELSE Materials[i].key2
         IN  /\ a \in Insertions /\ a.material = i /\ a.colour = colour /\ a.bucket = home[key] /\ a.carried = [key |-> key, table |-> i]
             /\ a.bucket \in 0 .. Size /\ key \in Keys /\ key \in KeysOf(i)
             /\ a.carried.key = key /\ a.carried.table = i
<1> DEFINE key == IF colour = 1 THEN Materials[i].key ELSE Materials[i].key2
<1>1. key \in Keys /\ key \in KeysOf(i)
  BY MaterialKeys DEF KeysOf
<1>2. home[key] \in 0 .. Size
  BY <1>1, HomeIsABucket DEF IndexInv, Buckets
<1>3. i \in 1 .. Len(Materials) + 1 /\ i \in Nat
  BY MaterialKeys
<1>4. Inserting(i, colour) = [material |-> i, colour |-> colour, carried |-> [key |-> key, table |-> i], bucket |-> home[key]]
  BY DEF Inserting
<1> HIDE DEF key
<1>5. [key |-> key, table |-> i] \in Entries
  BY <1>1, <1>3 DEF Entries
<1>6. Inserting(i, colour) \in Insertions
  BY <1>2, <1>3, <1>4, <1>5 DEF Insertions
<1> QED BY <1>1, <1>2, <1>4, <1>6 DEF key

LEMMA IndexInit == FilesInit => IndexInv
<1> SUFFICES ASSUME FilesInit PROVE IndexInv
  OBVIOUS
<1> USE DEF FilesInit
<1>1. home \in [Keys -> Homes] /\ dir \in [DOMAIN Materials -> FileStates \X FileStates]
  BY DEF FileStates
<1>2. /\ adding \in Insertions /\ adding.material = Len(Materials) + 1 /\ adding.colour = 0 /\ adding.bucket = 0
      /\ found.tables = {} /\ found.wdl = 0 /\ found.dtz = 0
      /\ found \in [tables : SUBSET DOMAIN Materials, wdl : Nat, dtz : Nat, cardinality : Nat, inits : Nat]
  BY AddFromStarts, MaterialNumbers DEF Nothing
<1>3. \A b \in Buckets : hash[b] = Empty /\ ~Taken(b)
  BY DEF Taken, Empty
<1>4. HashTyped
  BY <1>3, HomesAssumption DEF HashTyped, Entries, Empty, Buckets
<1>5. RobinHood
  BY <1>3 DEF RobinHood
<1>6. AddingTyped /\ CarriedIsOnItsWay /\ NoneIsLost
  BY <1>2, MaterialNumbers, HomesAssumption DEF AddingTyped, CarriedIsOnItsWay, NoneIsLost
<1>7. FoundTyped
  <2>1. Cardinality(found.tables) = 0
    BY <1>2, FS_EmptySet
  <2> QED BY <1>2, <2>1 DEF FoundTyped
<1> QED BY <1>1, <1>4, <1>5, <1>6, <1>7 DEF IndexInv

LEMMA ReinitKeepsIndex ==
  ASSUME IndexInv, NEW d \in Directories, Reinit(d)
  PROVE  IndexInv'
<1> USE DEF Reinit
<1>1. (home \in [Keys -> Homes] /\ dir \in [DOMAIN Materials -> FileStates \X FileStates])'
  BY DirectoriesAssumption DEF IndexInv
<1>2. /\ adding' \in Insertions /\ adding'.material = 1 /\ adding'.colour = 0 /\ adding'.bucket = 0
      /\ found'.tables = {} /\ found'.wdl = 0 /\ found'.dtz = 0
      /\ found' \in [tables : SUBSET DOMAIN Materials, wdl : Nat, dtz : Nat, cardinality : Nat, inits : Nat]
  BY AddFromStarts, MaterialNumbers DEF Nothing, IndexInv, FoundTyped
<1>3. \A b \in Buckets : hash'[b] = Empty /\ ~Taken(b)'
  BY DEF Taken, Empty
<1>4. HashTyped'
  BY <1>3, HomesAssumption DEF HashTyped, Entries, Empty, Buckets
<1>5. RobinHood'
  BY <1>3 DEF RobinHood
<1>6. AddingTyped' /\ CarriedIsOnItsWay' /\ NoneIsLost'
  BY <1>2, MaterialNumbers, HomesAssumption DEF AddingTyped, CarriedIsOnItsWay, NoneIsLost
<1>7. FoundTyped'
  <2>1. Cardinality(found'.tables) = 0
    BY <1>2, FS_EmptySet
  <2> QED BY <1>2, <2>1 DEF FoundTyped
<1> QED BY <1>1, <1>4, <1>5, <1>6, <1>7 DEF IndexInv

(* A table without a WDL file is passed by, another is counted and goes to  *)
(* the home of its first key.                                               *)
LEMMA AddKeepsIndex ==
  ASSUME IndexInv, Add
  PROVE  IndexInv'
<1> DEFINE i == adding.material
<1>1. i \in DOMAIN Materials /\ i \notin found.tables /\ adding.colour = 0 /\ home' = home /\ dir' = dir /\ hash' = hash
  BY MaterialNumbers DEF Add, Built, IndexInv, AddingTyped, FoundTyped, Insertions
<1>2. CASE adding' = AddFrom(i + 1) /\ found' = found
  <2>1. adding' \in Insertions /\ adding'.material = i + 1 /\ adding'.colour = 0 /\ adding'.bucket = 0
    BY <1>1, <1>2, AddFromStarts, MaterialNumbers
  <2>2. HashTyped' /\ RobinHood'
    BY <1>1, <1>2 DEF IndexInv, HashTyped, RobinHood, Taken, Reaches, KeysOf
  <2>3. AddingTyped' /\ CarriedIsOnItsWay'
    BY <1>1, <1>2, <2>1, MaterialNumbers, HomesAssumption DEF IndexInv, AddingTyped, CarriedIsOnItsWay
  <2>4. NoneIsLost'
    BY <1>1, <1>2, <2>1 DEF IndexInv, NoneIsLost, Held, OnItsWay, Taken, KeysOf
  <2>5. FoundTyped'
    BY <1>1, <1>2, <2>1, MaterialNumbers DEF IndexInv, FoundTyped
  <2> QED BY <1>1, <2>2, <2>3, <2>4, <2>5 DEF IndexInv
<1>3. CASE /\ adding' = Inserting(i, 1)
           /\ found' \in [tables : SUBSET DOMAIN Materials, wdl : Nat, dtz : Nat, cardinality : Nat, inits : Nat]
           /\ found'.tables = found.tables \cup {i} /\ found'.wdl = found.wdl + 1
           /\ found'.dtz \in {found.dtz, found.dtz + 1}
  <2> DEFINE key == Materials[i].key
  <2>1. /\ adding' \in Insertions /\ adding'.material = i /\ adding'.colour = 1 /\ adding'.bucket = home[key]
        /\ adding'.carried = [key |-> key, table |-> i] /\ adding'.bucket \in 0 .. Size /\ key \in KeysOf(i)
        /\ key \in Keys /\ adding'.carried.key = key /\ adding'.carried.table = i
    BY <1>1, <1>3, InsertingStarts
  <2>2. HashTyped' /\ RobinHood'
    BY <1>1, <1>3 DEF IndexInv, HashTyped, RobinHood, Taken, Reaches, KeysOf
  <2>3. AddingTyped'
    BY <1>1, <1>3, <2>1 DEF IndexInv, AddingTyped
  <2>4. home[key] .. home[key] - 1 = {} /\ home[key] <= home[key]
    BY <2>1, HomeIsABucket DEF IndexInv
  <2>5. CarriedIsOnItsWay'
    <3>1. adding'.carried \in [key : Keys, table : found'.tables]
      BY <1>3, <2>1
    <3>2. Reaches(adding.carried.key, adding.bucket)'
      <4>1. adding'.bucket = home'[key] /\ home'[key] = home[key] /\ adding'.carried.key = key
        BY <1>1, <2>1
      <4> HIDE DEF key
      <4> QED BY <4>1, <2>4 DEF Reaches
    <3>3. (adding.carried.key \in KeysOf(adding.carried.table))'
      BY <2>1 DEF KeysOf
    <3>4. adding'.bucket = home'[key] /\ home'[adding'.carried.key] .. adding'.bucket - 1 = {}
      BY <1>1, <2>1, <2>4
    <3> QED BY <2>1, <3>1, <3>2, <3>3, <3>4 DEF CarriedIsOnItsWay
  <2>6. NoneIsLost'
    <3> SUFFICES ASSUME NEW j \in found'.tables, NEW k \in KeysOf(j) PROVE Held(k)' \/ OnItsWay(j, k)'
      BY DEF NoneIsLost, KeysOf
    <3>1. CASE j = i
      BY <3>1, <2>1 DEF OnItsWay, KeysOf
    <3>2. CASE j # i
      <4>1. j \in found.tables /\ ~OnItsWay(j, k)
        BY <3>2, <1>1, <1>3 DEF OnItsWay
      <4>2. Held(k)
        BY <4>1 DEF IndexInv, NoneIsLost
      <4> QED BY <4>2, <1>1 DEF Held, Taken
    <3> QED BY <3>1, <3>2
  <2>7. FoundTyped'
    <3>1. IsFiniteSet(found.tables)
      <4>1. found.tables \in SUBSET (1 .. Len(Materials))
        BY MaterialNumbers DEF IndexInv, FoundTyped
      <4>2. IsFiniteSet(1 .. Len(Materials))
        BY MaterialNumbers, FS_Interval
      <4> QED BY <4>1, <4>2, FS_Subset
    <3>2. Cardinality(found'.tables) = Cardinality(found.tables) + 1
      <4>1. found'.tables = found.tables \cup {i} /\ i \notin found.tables
        BY <1>1, <1>3
      <4>2. Cardinality(found.tables \cup {i}) = Cardinality(found.tables) + 1
        BY <3>1, <4>1, FS_AddElement
      <4> QED BY <4>1, <4>2
    <3>3. Cardinality(found.tables) \in Nat
      BY <3>1, FS_CardinalityType
    <3> QED BY <1>1, <1>3, <2>1, <3>2, <3>3, MaterialNumbers DEF IndexInv, FoundTyped
  <2> QED BY <1>1, <2>2, <2>3, <2>5, <2>6, <2>7 DEF IndexInv
<1>4. QED
  <2>1. CASE DiskFile(dir, i, "WDL") = "absent"
    BY <2>1, <1>2 DEF Add
  <2>2. CASE DiskFile(dir, i, "WDL") # "absent"
    <3>1. adding' = Inserting(i, 1) /\ found' = [found EXCEPT
                   !.tables = @ \cup {i}, !.wdl = @ + 1,
                   !.dtz = @ + (IF DiskFile(dir, i, "DTZ") = "absent" THEN 0 ELSE 1),
                   !.cardinality = IF Materials[i].men > @ THEN Materials[i].men ELSE @]
      BY <2>2 DEF Add
    <3> DEFINE dtz == IF DiskFile(dir, i, "DTZ") = "absent" THEN 0 ELSE 1
               men == Materials[i].men
    <3>2. dtz \in {0, 1} /\ men \in Nat /\ i \in DOMAIN Materials
      BY <1>1, MaterialKeys
    <3>3. found \in [tables : SUBSET DOMAIN Materials, wdl : Nat, dtz : Nat, cardinality : Nat, inits : Nat]
      BY DEF IndexInv, FoundTyped
    <3>4. found' = [found EXCEPT !.tables = @ \cup {i}, !.wdl = @ + 1, !.dtz = @ + dtz,
                                 !.cardinality = IF men > @ THEN men ELSE @]
      BY <3>1
    <3> HIDE DEF dtz, men
    <3>5. /\ found' \in [tables : SUBSET DOMAIN Materials, wdl : Nat, dtz : Nat, cardinality : Nat, inits : Nat]
          /\ found'.tables = found.tables \cup {i} /\ found'.wdl = found.wdl + 1
          /\ found'.dtz \in {found.dtz, found.dtz + 1}
      <4>1. /\ found'.tables = found.tables \cup {i} /\ found'.wdl = found.wdl + 1
            /\ found'.dtz = found.dtz + dtz /\ found'.inits = found.inits
            /\ found'.cardinality = IF men > found.cardinality THEN men ELSE found.cardinality
        BY <3>3, <3>4
      <4>2. found' = [tables |-> found'.tables, wdl |-> found'.wdl, dtz |-> found'.dtz,
                      cardinality |-> found'.cardinality, inits |-> found'.inits]
        BY <3>3, <3>4
      <4>3. /\ found'.tables \in SUBSET DOMAIN Materials /\ found'.wdl \in Nat /\ found'.dtz \in Nat
            /\ found'.cardinality \in Nat /\ found'.inits \in Nat
        BY <3>2, <3>3, <4>1
      <4>4. found' \in [tables : SUBSET DOMAIN Materials, wdl : Nat, dtz : Nat, cardinality : Nat, inits : Nat]
        BY <4>2, <4>3, Zenon
      <4>5. found'.dtz \in {found.dtz, found.dtz + 1}
        BY <3>2, <3>3, <4>1
      <4> QED BY <4>1, <4>4, <4>5
    <3> QED BY <3>1, <3>5, <1>3
  <2> QED BY <2>1, <2>2

(* What the walk of an insertion knows of its next bucket and of the key it *)
(* carries.                                                                 *)
LEMMA InsertKnows ==
  ASSUME IndexInv, adding.colour # 0, adding.bucket < Size
  PROVE  /\ adding.bucket \in Buckets /\ adding.bucket \in Nat /\ adding.bucket # Size
         /\ adding.material \in DOMAIN Materials /\ adding.material \in found.tables /\ adding.colour \in {1, 2}
         /\ adding.carried.key \in Keys /\ adding.carried.table \in found.tables /\ adding.carried.table # 0
         /\ adding.carried \in Entries /\ adding.carried.key \in KeysOf(adding.carried.table)
         /\ home[adding.carried.key] \in Nat /\ home[adding.carried.key] <= adding.bucket
         /\ \A c \in Nat : home[adding.carried.key] <= c /\ c < adding.bucket =>
              Taken(c) /\ home[hash[c].key] <= home[adding.carried.key] /\ hash[c].key # adding.carried.key
<1>1. /\ adding.bucket \in Buckets /\ adding.bucket \in Nat /\ adding.bucket # Size
      /\ adding.material \in found.tables /\ adding.colour \in {1, 2}
  BY HomesAssumption DEF IndexInv, AddingTyped, Buckets, Insertions
<1>2. adding.material \in DOMAIN Materials /\ found.tables \subseteq DOMAIN Materials
  BY <1>1 DEF IndexInv, FoundTyped
<1>3. adding.carried \in [key : Keys, table : found.tables] /\ adding.carried.key \in KeysOf(adding.carried.table)
  BY DEF IndexInv, CarriedIsOnItsWay
<1>4. adding.carried.key \in Keys /\ adding.carried.table \in found.tables
  BY <1>3
<1>5. adding.carried.table # 0 /\ adding.carried.table \in Nat
  BY <1>2, <1>4, MaterialNumbers
<1>6. adding.carried \in Entries
  BY <1>3, <1>4, <1>5 DEF Entries
<1>7. home[adding.carried.key] \in Nat
  BY <1>4, HomeIsABucket DEF IndexInv
<1>8. /\ Reaches(adding.carried.key, adding.bucket)
      /\ \A c \in home[adding.carried.key] .. adding.bucket - 1 : hash[c].key # adding.carried.key
  BY DEF IndexInv, CarriedIsOnItsWay
<1>9. \A c \in Nat : home[adding.carried.key] <= c /\ c < adding.bucket => c \in home[adding.carried.key] .. adding.bucket - 1
  BY <1>1, <1>7
<1>10. home[adding.carried.key] <= adding.bucket
  BY <1>8 DEF Reaches
<1> QED BY <1>1, <1>2, <1>3, <1>4, <1>5, <1>6, <1>7, <1>8, <1>9, <1>10 DEF Reaches

(* What is known of a taken bucket.                                         *)
LEMMA TakenKnows ==
  ASSUME IndexInv, NEW b \in Buckets, Taken(b)
  PROVE  /\ b \in Nat /\ hash[b] \in Entries /\ hash[b].key \in Keys /\ hash[b].table \in found.tables
         /\ hash[b].key \in KeysOf(hash[b].table) /\ hash[b].table # 0
         /\ home[hash[b].key] \in Nat /\ home[hash[b].key] <= b /\ home[hash[b].key] \in Buckets
         /\ \A c \in Nat : home[hash[b].key] <= c /\ c < b =>
              Taken(c) /\ home[hash[c].key] <= home[hash[b].key] /\ c \in Buckets
<1>1. b \in Nat /\ b <= Size /\ Size \in Nat
  BY HomesAssumption DEF Buckets
<1>2. hash[b] \in Entries /\ hash[b].key \in Keys /\ hash[b].table \in found.tables /\ hash[b].key \in KeysOf(hash[b].table)
  BY DEF IndexInv, HashTyped
<1>3. home[hash[b].key] \in Nat /\ home[hash[b].key] \in Buckets
  BY <1>2, HomeIsABucket DEF IndexInv
<1>4. Reaches(hash[b].key, b)
  BY DEF IndexInv, RobinHood
<1>5. \A c \in Nat : home[hash[b].key] <= c /\ c < b => c \in home[hash[b].key] .. b - 1 /\ c \in Buckets
  BY <1>1, <1>3 DEF Buckets
<1> QED BY <1>1, <1>2, <1>3, <1>4, <1>5 DEF Reaches, Taken

(* An entry placed where the walk stopped leaves the hash in order, if its  *)
(* key is not held elsewhere and whoever was there had its home no nearer.  *)
LEMMA PlaceKeepsOrder ==
  ASSUME IndexInv, adding.colour # 0, adding.bucket < Size, Place(adding.bucket),
         home' = home, found' = found,
         \A c \in Buckets : c # adding.bucket /\ Taken(c) => hash[c].key # adding.carried.key,
         Taken(adding.bucket) => home[adding.carried.key] <= home[hash[adding.bucket].key]
  PROVE  /\ HashTyped' /\ RobinHood'
         /\ \A c \in Buckets : hash'[c] = IF c = adding.bucket THEN adding.carried ELSE hash[c]
<1> DEFINE b == adding.bucket
           en == adding.carried
<1>1. /\ b \in Buckets /\ b \in Nat /\ b # Size /\ en.key \in Keys /\ en.table \in found.tables /\ en.table # 0
      /\ en \in Entries /\ en.key \in KeysOf(en.table) /\ home[en.key] \in Nat /\ home[en.key] <= b
      /\ \A c \in Nat : home[en.key] <= c /\ c < b => Taken(c) /\ home[hash[c].key] <= home[en.key]
  BY InsertKnows
<1>2. hash \in [Buckets -> Entries] /\ hash' = [hash EXCEPT ![b] = en]
  BY DEF IndexInv, HashTyped, Place
<1>3. \A c \in Buckets : c # b /\ Taken(c) => hash[c].key # en.key
  OBVIOUS
<1>4. Taken(b) => home[en.key] <= home[hash[b].key]
  OBVIOUS
<1> HIDE DEF b, en
<1>5. \A c \in Buckets : hash'[c] = IF c = b THEN en ELSE hash[c]
  BY <1>1, <1>2
<1>6. \A c \in Buckets : Taken(c)' <=> (c = b \/ Taken(c))
  BY <1>1, <1>5 DEF Taken
<1>7. HashTyped'
  <2>1. hash' \in [Buckets -> Entries]
    BY <1>1, <1>2
  <2>2. hash'[Size] = Empty
    BY <1>1, <1>5, HomesAssumption DEF IndexInv, HashTyped, Buckets
  <2>3. ASSUME NEW c \in Buckets, Taken(c)'
        PROVE  hash'[c].key \in Keys /\ hash'[c].table \in found.tables /\ hash'[c].key \in KeysOf(hash'[c].table)
    <3>1. CASE c = b
      BY <3>1, <1>1, <1>5
    <3>2. CASE c # b
      BY <2>3, <3>2, <1>5, <1>6, TakenKnows
    <3> QED BY <3>1, <3>2
  <2> QED BY <2>1, <2>2, <2>3 DEF HashTyped, KeysOf
<1>8. RobinHood'
  <2>1. ASSUME NEW c \in Buckets, Taken(c)'
        PROVE  Reaches(hash[c].key, c)'
    <3>1. CASE c = b
      <4>1. hash'[c].key = en.key /\ home' = home
        BY <3>1, <1>5
      <4>2. ASSUME NEW d \in home[en.key] .. b - 1 PROVE Taken(d)' /\ home[hash'[d].key] <= home[en.key]
        <5>1. d \in Nat /\ home[en.key] <= d /\ d < b /\ d \in Buckets /\ d # b
          BY <1>1, HomesAssumption DEF Buckets
        <5> QED BY <5>1, <1>1, <1>5, <1>6
      <4> QED BY <3>1, <4>1, <4>2, <1>1 DEF Reaches
    <3>2. CASE c # b
      <4> DEFINE k == hash[c].key
      <4>1. Taken(c) /\ hash'[c] = hash[c] /\ c \in Nat
        BY <2>1, <3>2, <1>5, <1>6, HomesAssumption DEF Buckets
      <4>2. /\ home[k] \in Nat /\ home[k] <= c
            /\ \A d \in Nat : home[k] <= d /\ d < c => Taken(d) /\ home[hash[d].key] <= home[k] /\ d \in Buckets
        BY <4>1, TakenKnows
      <4> HIDE DEF k
      <4>3. ASSUME NEW d \in home[k] .. c - 1 PROVE Taken(d)' /\ home[hash'[d].key] <= home[k]
        <5>1. d \in Nat /\ home[k] <= d /\ d < c
          BY <4>1, <4>2
        <5>2. Taken(d) /\ home[hash[d].key] <= home[k] /\ d \in Buckets
          BY <5>1, <4>2
        <5>3. CASE d = b
          <6>1. home[hash[b].key] \in Nat
            BY <5>2, <5>3, TakenKnows
          <6>2. home[en.key] <= home[k]
            BY <5>2, <5>3, <6>1, <1>1, <1>4, <4>2
          <6> QED BY <5>2, <5>3, <6>2, <1>5, <1>6
        <5>4. CASE d # b
          BY <5>2, <5>4, <1>5, <1>6
        <5> QED BY <5>3, <5>4
      <4>4. hash'[c].key = k
        BY <4>1 DEF k
      <4> QED BY <4>2, <4>3, <4>4 DEF Reaches
    <3> QED BY <3>1, <3>2
  <2>2. ASSUME NEW c \in Buckets, NEW d \in Buckets, Taken(c)', Taken(d)', hash'[c].key = hash'[d].key
        PROVE  c = d
    <3>1. \A x \in Buckets : x # b /\ Taken(x)' => Taken(x) /\ hash'[x] = hash[x] /\ hash[x].key # en.key
      BY <1>3, <1>5, <1>6
    <3>2. hash'[b] = en
      BY <1>1, <1>5
    <3>3. \A x, y \in Buckets : Taken(x) /\ Taken(y) /\ hash[x].key = hash[y].key => x = y
      BY DEF IndexInv, RobinHood
    <3> QED BY <2>2, <3>1, <3>2, <3>3
  <2> QED BY <2>1, <2>2 DEF RobinHood
<1> QED BY <1>5, <1>7, <1>8 DEF b, en

(* insert() found the place: the next key has its turn, or the next table.  *)
LEMMA SettlingKeepsIndex ==
  ASSUME IndexInv, adding.colour # 0, adding.bucket < Size,
         hash[adding.bucket].key = adding.carried.key \/ hash[adding.bucket].table = 0,
         Place(adding.bucket), Inserted, UNCHANGED <<home, dir, found>>
  PROVE  IndexInv'
<1> DEFINE b == adding.bucket
           en == adding.carried
           i == adding.material
<1>1. /\ b \in Buckets /\ b \in Nat /\ b # Size /\ i \in DOMAIN Materials /\ i \in found.tables /\ adding.colour \in {1, 2}
      /\ en.key \in Keys /\ home[en.key] \in Nat /\ home[en.key] <= b /\ en.table # 0
      /\ \A c \in Nat : home[en.key] <= c /\ c < b => hash[c].key # en.key
  BY InsertKnows
<1>2. \A c \in Buckets : c # b /\ Taken(c) => hash[c].key # en.key
  <2> SUFFICES ASSUME NEW c \in Buckets, c # b, Taken(c), hash[c].key = en.key PROVE FALSE
    OBVIOUS
  <2>1. /\ c \in Nat /\ home[en.key] <= c
        /\ \A d \in Nat : home[en.key] <= d /\ d < c => Taken(d)
    BY TakenKnows
  <2>2. CASE c < b
    BY <2>1, <2>2, <1>1
  <2>3. CASE b < c
    <3>1. Taken(b)
      BY <2>1, <2>3, <1>1
    <3>2. hash[b].key = hash[c].key
      BY <3>1 DEF Taken
    <3> QED BY <3>1, <3>2, <2>3, <1>1, <2>1 DEF IndexInv, RobinHood
  <2> QED BY <2>1, <2>2, <2>3, <1>1
<1>3. Taken(b) => home[en.key] <= home[hash[b].key]
  BY <1>1 DEF Taken
<1>4. HashTyped' /\ RobinHood' /\ \A c \in Buckets : hash'[c] = IF c = b THEN en ELSE hash[c]
  BY <1>2, <1>3, PlaceKeepsOrder
<1>5. \A k : Held(k) \/ en.key = k => Held(k)'
  BY <1>1, <1>4 DEF Held, Taken
<1>6. (home \in [Keys -> Homes] /\ dir \in [DOMAIN Materials -> FileStates \X FileStates])'
  BY DEF IndexInv
<1>7. FoundTyped' /\ AddingTyped' /\ CarriedIsOnItsWay' /\ NoneIsLost'
  <2>1. CASE adding.colour = 1
    <3> DEFINE key == Materials[i].key2
    <3>1. /\ adding' \in Insertions /\ adding'.material = i /\ adding'.colour = 2 /\ adding'.bucket = home[key]
          /\ adding'.carried = [key |-> key, table |-> i] /\ adding'.bucket \in 0 .. Size /\ key \in KeysOf(i)
          /\ key \in Keys /\ adding'.carried.key = key /\ adding'.carried.table = i
      <4>1. adding' = Inserting(i, 2)
        BY <2>1 DEF Inserted
      <4>2. /\ Inserting(i, 2) \in Insertions /\ Inserting(i, 2).material = i /\ Inserting(i, 2).colour = 2
            /\ Inserting(i, 2).bucket = home[key] /\ Inserting(i, 2).carried = [key |-> key, table |-> i]
            /\ Inserting(i, 2).bucket \in 0 .. Size /\ key \in Keys /\ key \in KeysOf(i)
        <5>1. LET a == Inserting(i, 2)
                  k == IF 2 = 1 THEN Materials[i].key ELSE Materials[i].key2
              IN  /\ a \in Insertions /\ a.material = i /\ a.colour = 2 /\ a.bucket = home[k]
                  /\ a.carried = [key |-> k, table |-> i]
                  /\ a.bucket \in 0 .. Size /\ k \in Keys /\ k \in KeysOf(i)
          <6>1. 2 \in {1, 2} /\ i \in DOMAIN Materials
            BY <1>1
          <6> HIDE DEF i
          <6> QED BY <6>1, InsertingStarts
        <5> QED BY <5>1
      <4> HIDE DEF key
      <4> QED BY <4>1, <4>2
    <3>2. home[key] .. home[key] - 1 = {} /\ home[key] <= home[key]
      BY <3>1, HomeIsABucket DEF IndexInv
    <3>3. FoundTyped' /\ AddingTyped'
      BY <1>1, <3>1, MaterialNumbers DEF IndexInv, FoundTyped, AddingTyped
    <3>4. CarriedIsOnItsWay'
      <4>1. adding'.carried \in [key : Keys, table : found'.tables]
        BY <1>1, <3>1
      <4>2. (adding.carried.key \in KeysOf(adding.carried.table))'
        BY <3>1 DEF KeysOf
      <4>3. adding'.bucket = home'[key] /\ home'[key] = home[key] /\ adding'.carried.key = key
        BY <3>1
      <4> HIDE DEF key
      <4>4. Reaches(adding.carried.key, adding.bucket)'
        BY <4>3, <3>2 DEF Reaches
      <4>5. home'[adding'.carried.key] .. adding'.bucket - 1 = {}
        BY <4>3, <3>2
      <4> QED BY <4>1, <4>2, <4>4, <4>5 DEF CarriedIsOnItsWay
    <3>5. NoneIsLost'
      <4> SUFFICES ASSUME NEW j \in found.tables, NEW k \in KeysOf(j) PROVE Held(k)' \/ OnItsWay(j, k)'
        BY DEF NoneIsLost, KeysOf
      <4>1. Held(k) \/ OnItsWay(j, k)
        BY DEF IndexInv, NoneIsLost
      <4>2. CASE OnItsWay(j, k) /\ en.key # k
        BY <4>2, <3>1 DEF OnItsWay
      <4> QED BY <4>1, <4>2, <1>5
    <3> QED BY <3>3, <3>4, <3>5
  <2>2. CASE adding.colour = 2
    <3>1. adding' \in Insertions /\ adding'.material = i + 1 /\ adding'.colour = 0 /\ adding'.bucket = 0
      BY <1>1, <2>2, AddFromStarts, MaterialNumbers DEF Inserted
    <3>2. FoundTyped' /\ AddingTyped'
      BY <1>1, <2>2, <3>1, MaterialNumbers, HomesAssumption DEF IndexInv, FoundTyped, AddingTyped
    <3>3. CarriedIsOnItsWay'
      BY <3>1 DEF CarriedIsOnItsWay
    <3>4. NoneIsLost'
      <4> SUFFICES ASSUME NEW j \in found.tables, NEW k \in KeysOf(j) PROVE Held(k)'
        BY DEF NoneIsLost, KeysOf
      <4>1. Held(k) \/ OnItsWay(j, k)
        BY DEF IndexInv, NoneIsLost
      <4> QED BY <4>1, <1>5, <2>2 DEF OnItsWay
    <3> QED BY <3>2, <3>3, <3>4
  <2> QED BY <1>1, <2>1, <2>2
<1> QED BY <1>4, <1>6, <1>7 DEF IndexInv

(* insert() took the bucket of an entry nearer its own home, and carries    *)
(* that one on.                                                             *)
LEMMA DisplacingKeepsIndex ==
  ASSUME IndexInv, adding.colour # 0, adding.bucket < Size,
         hash[adding.bucket].key # adding.carried.key, Taken(adding.bucket),
         home[hash[adding.bucket].key] > home[adding.carried.key],
         Place(adding.bucket), UNCHANGED <<home, dir, found>>,
         adding' = [adding EXCEPT !.carried = hash[adding.bucket], !.bucket = adding.bucket + 1]
  PROVE  IndexInv'
<1> DEFINE b == adding.bucket
           en == adding.carried
           o == hash[b]
<1>1. /\ b \in Buckets /\ b \in Nat /\ b < Size /\ Size \in Nat /\ adding.colour \in {1, 2}
      /\ en.key \in Keys /\ home[en.key] \in Nat /\ home[en.key] <= b /\ en.table # 0
      /\ \A c \in Nat : home[en.key] <= c /\ c < b => hash[c].key # en.key
  BY InsertKnows, HomesAssumption
<1>2. /\ o.key \in Keys /\ o.table \in found.tables /\ o.key \in KeysOf(o.table) /\ o \in Entries
      /\ home[o.key] \in Nat /\ home[o.key] <= b
      /\ \A c \in Nat : home[o.key] <= c /\ c < b => Taken(c) /\ home[hash[c].key] <= home[o.key] /\ c \in Buckets
  BY <1>1, TakenKnows
<1>3. home[o.key] > home[en.key] /\ o.key # en.key
  OBVIOUS
<1>4. \A c \in Buckets : c # b /\ Taken(c) => hash[c].key # en.key
  <2> SUFFICES ASSUME NEW c \in Buckets, c # b, Taken(c), hash[c].key = en.key PROVE FALSE
    OBVIOUS
  <2>1. /\ c \in Nat /\ home[en.key] <= c
        /\ \A d \in Nat : home[en.key] <= d /\ d < c => home[hash[d].key] <= home[en.key]
    BY TakenKnows
  <2>2. CASE c < b
    BY <2>1, <2>2, <1>1
  <2>3. CASE b < c
    <3>1. home[o.key] <= home[en.key]
      BY <2>1, <2>3, <1>1
    <3> QED BY <3>1, <1>1, <1>2, <1>3
  <2> QED BY <2>1, <2>2, <2>3, <1>1
<1>5. Taken(b) => home[en.key] <= home[o.key]
  BY <1>1, <1>2, <1>3
<1>6. HashTyped' /\ RobinHood' /\ \A c \in Buckets : hash'[c] = IF c = b THEN en ELSE hash[c]
  BY <1>4, <1>5, PlaceKeepsOrder
<1>7. /\ adding'.material = adding.material /\ adding'.colour = adding.colour
      /\ adding'.carried = o /\ adding'.bucket = b + 1 /\ adding' \in Insertions
  <2>1. adding \in Insertions /\ b + 1 \in 0 .. Size
    BY <1>1 DEF IndexInv, AddingTyped
  <2>2. adding' = [adding EXCEPT !.carried = o, !.bucket = b + 1]
    OBVIOUS
  <2> HIDE DEF o, b
  <2> QED BY <2>1, <2>2, <1>2 DEF Insertions
<1>8. AddingTyped' /\ FoundTyped'
  BY <1>1, <1>7 DEF IndexInv, AddingTyped, FoundTyped
<1>9. CarriedIsOnItsWay'
  <2>1. adding'.carried \in [key : Keys, table : found'.tables]
    <3>1. o = [key |-> o.key, table |-> o.table] /\ found' = found
      BY <1>2 DEF Entries
    <3> HIDE DEF o
    <3> QED BY <3>1, <1>2, <1>7
  <2>2. (adding.carried.key \in KeysOf(adding.carried.table))'
    BY <1>2, <1>7 DEF KeysOf
  <2>3. ASSUME NEW c \in home[o.key] .. b
        PROVE  Taken(c)' /\ home[hash'[c].key] <= home[o.key] /\ hash'[c].key # o.key
    <3>1. c \in Nat /\ home[o.key] <= c /\ c <= b
      BY <1>1, <1>2
    <3>2. CASE c = b
      <4>1. hash'[c] = en
        BY <3>2, <1>1, <1>6
      <4> QED BY <4>1, <1>1, <1>2, <1>3 DEF Taken
    <3>3. CASE c # b
      <4>1. Taken(c) /\ home[hash[c].key] <= home[o.key] /\ c \in Buckets
        BY <3>1, <3>3, <1>1, <1>2
      <4>2. hash'[c] = hash[c]
        BY <4>1, <3>3, <1>6
      <4>3. hash[c].key # o.key
        BY <4>1, <3>3, <1>1 DEF IndexInv, RobinHood
      <4> QED BY <4>1, <4>2, <4>3 DEF Taken
    <3> QED BY <3>2, <3>3
  <2>4. home[o.key] <= b + 1 /\ b + 1 - 1 = b /\ home' = home
    BY <1>1, <1>2
  <2>5. adding'.bucket = b + 1 /\ adding'.carried.key = o.key
    BY <1>7
  <2> DEFINE k == o.key
  <2>6. /\ adding'.bucket = b + 1 /\ adding'.carried.key = k /\ home'[k] = home[k]
        /\ home[k] <= b + 1 /\ home[k] .. (b + 1) - 1 = home[k] .. b
    <3>1. home[k] \in Nat
      BY <1>2
    <3>2. /\ adding'.bucket = b + 1 /\ adding'.carried.key = k /\ home'[k] = home[k] /\ home[k] <= b + 1
      BY <2>4, <2>5
    <3> HIDE DEF k, b, en
    <3>3. home[k] .. (b + 1) - 1 = home[k] .. b
      BY <3>1, <1>1
    <3> QED BY <3>2, <3>3
  <2>7. \A c \in home[k] .. b : Taken(c)' /\ home'[hash'[c].key] <= home'[k] /\ hash'[c].key # k
    BY <2>3
  <2> HIDE DEF o, b, en, k
  <2>8. Reaches(adding.carried.key, adding.bucket)'
    BY <2>6, <2>7 DEF Reaches
  <2>9. \A c \in home'[adding'.carried.key] .. adding'.bucket - 1 : hash'[c].key # adding'.carried.key
    BY <2>6, <2>7
  <2> QED BY <2>1, <2>2, <2>8, <2>9 DEF CarriedIsOnItsWay
<1>10. NoneIsLost'
  <2> SUFFICES ASSUME NEW j \in found.tables, NEW k \in KeysOf(j) PROVE Held(k)' \/ OnItsWay(j, k)'
    BY DEF NoneIsLost, KeysOf
  <2>1. Held(k) \/ OnItsWay(j, k)
    BY DEF IndexInv, NoneIsLost
  <2>2. CASE en.key = k
    BY <2>2, <1>1, <1>6 DEF Held, Taken
  <2>3. CASE Held(k)
    <3>1. PICK c \in Buckets : Taken(c) /\ hash[c].key = k
      BY <2>3 DEF Held
    <3>2. CASE c = b
      BY <3>1, <3>2, <1>1, <1>7 DEF OnItsWay
    <3>3. CASE c # b
      BY <3>1, <3>3, <1>6 DEF Held, Taken
    <3> QED BY <3>2, <3>3
  <2>4. CASE OnItsWay(j, k) /\ en.key # k
    BY <2>4, <1>7 DEF OnItsWay
  <2> QED BY <2>1, <2>2, <2>3, <2>4
<1>11. (home \in [Keys -> Homes] /\ dir \in [DOMAIN Materials -> FileStates \X FileStates])'
  BY DEF IndexInv
<1> QED BY <1>6, <1>8, <1>9, <1>10, <1>11 DEF IndexInv

(* insert() passes by an entry whose home is no farther on than its own.    *)
LEMMA PassingKeepsIndex ==
  ASSUME IndexInv, adding.colour # 0, adding.bucket < Size,
         hash[adding.bucket].key # adding.carried.key, Taken(adding.bucket),
         home[hash[adding.bucket].key] <= home[adding.carried.key],
         adding' = [adding EXCEPT !.bucket = adding.bucket + 1], UNCHANGED <<home, dir, hash, found>>
  PROVE  IndexInv'
<1> DEFINE b == adding.bucket
           en == adding.carried
<1>1. /\ b \in Nat /\ b < Size /\ Size \in Nat /\ adding.colour \in {1, 2}
      /\ home[en.key] \in Nat /\ home[en.key] <= b
      /\ \A c \in Nat : home[en.key] <= c /\ c < b =>
           Taken(c) /\ home[hash[c].key] <= home[en.key] /\ hash[c].key # en.key
  BY InsertKnows, HomesAssumption
<1>2. /\ adding' \in Insertions /\ adding'.material = adding.material /\ adding'.colour = adding.colour
      /\ adding'.carried = en /\ adding'.bucket = b + 1
  <2>1. adding \in Insertions /\ b + 1 \in 0 .. Size /\ adding' = [adding EXCEPT !.bucket = b + 1]
    BY <1>1 DEF IndexInv, AddingTyped
  <2> HIDE DEF b
  <2> QED BY <2>1 DEF Insertions
<1>3. HashTyped' /\ RobinHood'
  BY DEF IndexInv, HashTyped, RobinHood, Taken, Reaches, KeysOf
<1>4. AddingTyped' /\ FoundTyped'
  BY <1>2 DEF IndexInv, AddingTyped, FoundTyped
<1>5. CarriedIsOnItsWay'
  <2>1. ASSUME NEW c \in home[en.key] .. b
        PROVE  Taken(c) /\ home[hash[c].key] <= home[en.key] /\ hash[c].key # en.key
    <3>1. c \in Nat /\ home[en.key] <= c /\ c <= b
      BY <1>1
    <3>2. CASE c = b
      BY <3>2
    <3>3. CASE c # b
      BY <3>1, <3>3, <1>1
    <3> QED BY <3>2, <3>3
  <2>2. /\ adding'.colour = adding.colour /\ adding'.carried = en /\ adding'.bucket = b + 1
        /\ home[en.key] <= b + 1 /\ home[en.key] .. (b + 1) - 1 = home[en.key] .. b
    <3>1. home[en.key] <= b + 1 /\ home[en.key] .. (b + 1) - 1 = home[en.key] .. b
      <4> HIDE DEF b, en
      <4> QED BY <1>1
    <3> QED BY <1>2, <3>1
  <2>3. en \in [key : Keys, table : found.tables] /\ en.key \in KeysOf(en.table)
    BY DEF IndexInv, CarriedIsOnItsWay
  <2>4. home' = home /\ hash' = hash /\ found' = found
    OBVIOUS
  <2> HIDE DEF b, en
  <2> QED BY <2>1, <2>2, <2>3, <2>4 DEF CarriedIsOnItsWay, Reaches, Taken, KeysOf
<1>6. NoneIsLost'
  BY <1>2 DEF IndexInv, NoneIsLost, Held, OnItsWay, Taken, KeysOf
<1>7. (home \in [Keys -> Homes] /\ dir \in [DOMAIN Materials -> FileStates \X FileStates])'
  BY DEF IndexInv
<1> QED BY <1>3, <1>4, <1>5, <1>6, <1>7 DEF IndexInv

LEMMA InsertKeepsIndex ==
  ASSUME IndexInv, Insert
  PROVE  IndexInv'
<1> DEFINE b == adding.bucket
           fits == hash[b].key = adding.carried.key \/ hash[b].table = 0
<1>1. adding.colour # 0 /\ b < Size /\ UNCHANGED <<home, dir, found>>
  BY DEF Insert
<1>2. CASE fits /\ Place(b) /\ Inserted
  BY <1>1, <1>2, SettlingKeepsIndex
<1>3. CASE /\ ~fits /\ home[hash[b].key] > home[adding.carried.key]
           /\ Place(b) /\ adding' = [adding EXCEPT !.carried = hash[b], !.bucket = b + 1]
  BY <1>1, <1>3, DisplacingKeepsIndex DEF Taken
<1>4. CASE /\ ~fits /\ home[hash[b].key] <= home[adding.carried.key]
           /\ adding' = [adding EXCEPT !.bucket = b + 1] /\ UNCHANGED hash
  BY <1>1, <1>4, PassingKeepsIndex DEF Taken
<1> QED BY <1>2, <1>3, <1>4 DEF Insert

(* Probing leaves the registry alone.                                       *)
LEMMA IndexStutter ==
  ASSUME IndexInv, UNCHANGED indexVars
  PROVE  IndexInv'
<1>1. HashTyped' /\ RobinHood'
  BY DEF IndexInv, HashTyped, RobinHood, Taken, Reaches, KeysOf, indexVars
<1>2. AddingTyped' /\ FoundTyped' /\ CarriedIsOnItsWay'
  BY DEF IndexInv, AddingTyped, FoundTyped, CarriedIsOnItsWay, Reaches, Taken, KeysOf, indexVars
<1>3. NoneIsLost'
  BY DEF IndexInv, NoneIsLost, Held, OnItsWay, Taken, KeysOf, indexVars
<1> QED BY <1>1, <1>2, <1>3 DEF IndexInv, indexVars

LEMMA IndexStep == IndexInv /\ [FilesNext]_fileVars => IndexInv'
<1> SUFFICES ASSUME IndexInv, [FilesNext]_fileVars PROVE IndexInv'
  OBVIOUS
<1>1. CASE \E d \in Directories : Reinit(d)
  BY <1>1, ReinitKeepsIndex
<1>2. CASE Add
  BY <1>2, AddKeepsIndex
<1>3. CASE Insert
  BY <1>3, InsertKeepsIndex
<1>4. CASE \E w \in Probers :
             \/ \E key \in Keys, type \in Types : ProbeTable(w, key, type)
             \/ LoadReady(w) \/ Lock(w) \/ Recheck(w) \/ Map(w) \/ Parse(w) \/ Publish(w) \/ Use(w)
  <2>1. UNCHANGED indexVars
    BY <1>4 DEF indexVars, ProbeTable, LoadReady, Lock, Recheck, Map, Parse, Publish, Use
  <2> QED BY <2>1, IndexStutter
<1>5. CASE UNCHANGED fileVars
  BY <1>5, IndexStutter DEF fileVars, indexVars
<1> QED BY <1>1, <1>2, <1>3, <1>4, <1>5 DEF FilesNext

-----------------------------------------------------------------------------
(* A lookup. The empty last bucket ends every walk, so there is a first     *)
(* place where it stops.                                                    *)
LEMMA FirstOf ==
  ASSUME NEW S \in SUBSET Nat, NEW n \in S
  PROVE  Min(S) \in S /\ \A m \in S : Min(S) <= m
<1>1. \E m \in S : \A k \in S : m <= k
  <2>1. IsWellFoundedOn(OpToRel(<, Nat), Nat)
    BY NatLessThanWellFounded
  <2>2. PICK m \in S : \A k \in S : ~(<<k, m>> \in OpToRel(<, Nat))
    BY <2>1, WFMin
  <2>3. ASSUME NEW k \in S PROVE m <= k
    <3>1. ~(<<k, m>> \in OpToRel(<, Nat))
      BY <2>2
    <3>2. ~(k < m)
      BY <3>1 DEF OpToRel
    <3> QED BY <3>2
  <2> QED BY <2>3
<1> QED BY <1>1 DEF Min

LEMMA StopsAreBuckets ==
  ASSUME IndexInv, NEW key \in Keys
  PROVE  /\ Stops(key) \in SUBSET Nat /\ Size \in Stops(key)
         /\ \A b \in Stops(key) : b \in Buckets /\ home[key] <= b /\ (hash[b].key = key \/ hash[b].table = 0)
<1>1. home[key] \in Nat /\ home[key] < Size /\ Size \in Nat
  BY HomeIsABucket, HomesAssumption DEF IndexInv
<1>2. hash[Size].table = 0
  BY DEF IndexInv, HashTyped, Empty
<1>3. \A b \in home[key] .. Size : b \in Nat /\ b \in Buckets /\ home[key] <= b
  BY <1>1 DEF Buckets
<1>4. Size \in home[key] .. Size
  BY <1>1
<1> QED BY <1>2, <1>3, <1>4 DEF Stops

(* get() finds what the hash holds, and nothing else.                       *)
LEMMA GetFinds ==
  ASSUME IndexInv, NEW b \in Buckets, Taken(b)
  PROVE  Get(hash[b].key) = hash[b].table
<1> DEFINE key == hash[b].key
<1>1. /\ key \in Keys /\ b \in Nat /\ home[key] \in Nat /\ home[key] <= b
      /\ \A c \in Nat : home[key] <= c /\ c < b => Taken(c) /\ c \in Buckets
  BY TakenKnows
<1>2. b \in Stops(key)
  <2>1. b \in home[key] .. Size
    BY <1>1 DEF Buckets
  <2> QED BY <2>1 DEF Stops
<1>3. Stops(key) \in SUBSET Nat /\ \A c \in Stops(key) : c \in Buckets /\ home[key] <= c /\ (hash[c].key = key \/ hash[c].table = 0)
  BY <1>1, StopsAreBuckets
<1>4. Min(Stops(key)) \in Stops(key) /\ Min(Stops(key)) <= b
  BY <1>2, <1>3, FirstOf
<1> DEFINE m == Min(Stops(key))
<1>5. m \in Nat /\ m \in Buckets /\ home[key] <= m /\ (hash[m].key = key \/ hash[m].table = 0) /\ m <= b
  BY <1>3, <1>4
<1>6. m = b
  <2> SUFFICES ASSUME m # b PROVE FALSE
    OBVIOUS
  <2>1. m < b
    BY <1>1, <1>5
  <2>2. Taken(m) /\ hash[m].key = key
    BY <2>1, <1>1, <1>5 DEF Taken
  <2> QED BY <2>1, <2>2, <1>5 DEF IndexInv, RobinHood
<1> QED BY <1>6 DEF Get

LEMMA GetFindsNothing ==
  ASSUME IndexInv, NEW key \in Keys, ~Held(key)
  PROVE  Get(key) = 0
<1>1. /\ Stops(key) \in SUBSET Nat /\ Size \in Stops(key)
      /\ \A b \in Stops(key) : b \in Buckets /\ (hash[b].key = key \/ hash[b].table = 0)
  BY StopsAreBuckets
<1>2. Min(Stops(key)) \in Stops(key)
  BY <1>1, FirstOf
<1> QED BY <1>1, <1>2 DEF Get, Held, Taken

(* Once init is through, a key finds its table.                             *)
LEMMA GetIsTrue ==
  ASSUME IndexInv, Built, NEW key \in Keys
  PROVE  /\ TableOfKey(key) = IF Get(key) = 0 THEN {} ELSE {Get(key)}
         /\ TableOfKey(key) \subseteq DOMAIN Materials
<1>1. adding.colour = 0 /\ found.tables \subseteq DOMAIN Materials
  BY MaterialNumbers DEF IndexInv, AddingTyped, FoundTyped, Built, Insertions
<1>2. CASE Held(key)
  <2>1. PICK b \in Buckets : Taken(b) /\ hash[b].key = key
    BY <1>2 DEF Held
  <2>2. hash[b].table \in found.tables /\ key \in KeysOf(hash[b].table) /\ hash[b].table # 0
    BY <2>1, TakenKnows
  <2>3. Get(key) = hash[b].table
    BY <2>1, GetFinds
  <2>4. \A i \in found.tables : key \in KeysOf(i) => i = hash[b].table
    BY <1>1, <2>2, KeyTellsMaterial
  <2> QED BY <1>1, <2>2, <2>3, <2>4 DEF TableOfKey
<1>3. CASE ~Held(key)
  <2>1. Get(key) = 0
    BY <1>3, GetFindsNothing
  <2>2. \A i \in found.tables : key \notin KeysOf(i)
    BY <1>1, <1>3 DEF IndexInv, NoneIsLost, OnItsWay
  <2> QED BY <2>1, <2>2, <1>1 DEF TableOfKey
<1> QED BY <1>2, <1>3

-----------------------------------------------------------------------------
(* The name spelled from the position is that of the file of the table.     *)
LEMMA NameIsTheFiles ==
  ASSUME IndexInv, FilesInv, NEW w \in Probers, probing[w].pc # "idle", probing[w].table # 0
  PROVE  /\ NamedFile(w) = DiskFile(dir, probing[w].table, probing[w].type)
         /\ probing[w].table \in DOMAIN Materials /\ SlotOf(w) \in Slots
<1> DEFINE i == probing[w].table
           key == probing[w].key
<1>1. /\ key \in Keys /\ TableOfKey(key) = {i} /\ i \in DOMAIN Materials
      /\ probing[w].type \in Types
  BY DEF FilesInv, ProbeIsTrue, Probes
<1>2. key \in KeysOf(i)
  BY <1>1 DEF TableOfKey
<1>3. FileNamed(w) = Materials[i].key
  BY <1>2 DEF FileNamed, Opposite, KeysOf
<1>4. \A j \in DOMAIN Materials : Materials[j].key = Materials[i].key => j = i
  BY <1>1, KeyTellsMaterial DEF KeysOf
<1>5. {j \in DOMAIN Materials : Materials[j].key = FileNamed(w)} = {i}
  BY <1>1, <1>3, <1>4
<1>6. (CHOOSE j \in {i} : TRUE) = i
  OBVIOUS
<1>7. NamedFile(w) = DiskFile(dir, i, probing[w].type)
  BY <1>5, <1>6 DEF NamedFile
<1>8. SlotOf(w) \in Slots
  BY <1>1 DEF SlotOf, Slots
<1> QED BY <1>1, <1>7, <1>8

(* An entry that says ready holds what its file gives.                      *)
LEMMA ReadyIsParsed ==
  ASSUME FilesInv, NEW t \in Slots, entry[t].ready
  PROVE  entry[t] = Parsed(t, TRUE)
<1>1. CASE entry[t] = Unopened
  BY <1>1 DEF Unopened
<1>2. CASE mutex \in Probers /\ probing[mutex].pc \in {"parse", "publish"} /\ SlotOf(mutex) = t
  <2>1. entry[t] = MappedOnly \/ entry[t] = Parsed(t, FALSE)
    BY <1>2 DEF FilesInv, ProbeIsTrue
  <2> QED BY <2>1 DEF MappedOnly, Parsed
<1> QED BY <1>1, <1>2 DEF FilesInv, EntriesRest

(* What another worker does leaves a worker's probe true, if no table loses *)
(* its readiness and only who holds the mutex touches a table.              *)
LEMMA OthersKeep ==
  ASSUME FilesInv, NEW v \in Probers, ProbeIsTrue(v), probing'[v] = probing[v],
         UNCHANGED <<dir, adding, found>>, (mutex = v) <=> (mutex' = v), mutex = v => entry' = entry,
         \A t \in Slots : entry[t].ready => entry'[t].ready
  PROVE  ProbeIsTrue(v)'
<1>1. PICK p \in Probes : p = probing[v] /\ p = probing'[v]
  BY DEF FilesInv
<1>2. TableOfKey(p.key)' = TableOfKey(p.key) /\ Built' = Built
  BY <1>1 DEF TableOfKey, KeysOf, Built
<1>3. SlotOf(v)' = SlotOf(v) /\ SlotOf(v) = <<p.table, p.type>>
  BY <1>1 DEF SlotOf
<1>4. p.pc \in Inside => entry' = entry
  BY <1>1 DEF ProbeIsTrue
<1>5. p.pc = "use" => entry'[SlotOf(v)].ready
  <2> SUFFICES ASSUME p.pc = "use" PROVE entry'[SlotOf(v)].ready
    OBVIOUS
  <2>1. p.table \in DOMAIN Materials /\ p.type \in Types /\ entry[SlotOf(v)].ready
    BY <1>1 DEF ProbeIsTrue, Probes
  <2>2. SlotOf(v) \in Slots
    BY <1>3, <2>1 DEF Slots
  <2> QED BY <2>1, <2>2
<1>6. Parsed(SlotOf(v), FALSE)' = Parsed(SlotOf(v), FALSE)
  BY <1>3 DEF Parsed, DiskFile
<1>7. DiskFile(dir, p.table, p.type)' = DiskFile(dir, p.table, p.type)
  BY <1>1 DEF DiskFile
<1>8. p.pc \in Inside <=> mutex' = v
  BY <1>1 DEF ProbeIsTrue
<1>9. /\ p.pc = "map" => entry'[SlotOf(v)] = Unopened
      /\ p.pc = "parse" => entry'[SlotOf(v)] = MappedOnly /\ DiskFile(dir, p.table, p.type) \in {"header", "whole"}
      /\ p.pc = "publish" => entry'[SlotOf(v)] = Parsed(SlotOf(v), FALSE)
  BY <1>1, <1>4 DEF ProbeIsTrue, Inside
<1>10. /\ p.pc # "idle" =>
           /\ p.key \in Keys
           /\ TableOfKey(p.key) = IF p.table = 0 THEN {} ELSE {p.table}
           /\ p.table # 0 => p.table \in DOMAIN Materials
           /\ Built
       /\ p.pc \notin {"idle", "done"} => p.table # 0
       /\ (p.pc = "done" /\ p.table = 0) => p.answer = "FAIL"
       /\ (p.pc = "done" /\ p.table # 0) =>
           p.answer = IF DiskFile(dir, p.table, p.type) = "whole" THEN "value" ELSE "FAIL"
  BY <1>1 DEF ProbeIsTrue
<1> QED BY <1>1, <1>2, <1>3, <1>5, <1>6, <1>7, <1>8, <1>9, <1>10, ZenonT(60) DEF ProbeIsTrue

LEMMA FilesStart == FilesInit => FilesInv
<1> SUFFICES ASSUME FilesInit PROVE FilesInv
  OBVIOUS
<1>1. \A w \in Probers : probing[w] = Idle
  BY DEF FilesInit
<1>2. Idle \in Probes
  BY DEF Idle, Probes, Stages, Types
<1>3. probing \in [Probers -> Probes] /\ mutex = 0
  BY <1>2 DEF FilesInit
<1>4. ASSUME NEW w \in Probers PROVE ProbeIsTrue(w)
  <2>1. probing[w].pc = "idle" /\ mutex # w
    BY <1>1, <1>3, ProbersAssumption DEF Idle
  <2> QED BY <2>1 DEF ProbeIsTrue, Inside
<1>5. EntriesRest
  <2>1. entry = [t \in Slots |-> Unopened]
    BY DEF FilesInit, Closed, Slots
  <2> QED BY <2>1 DEF EntriesRest
<1> QED BY <1>3, <1>4, <1>5 DEF FilesInv

LEMMA ReinitKeepsFiles ==
  ASSUME FilesInv, NEW d \in Directories, Reinit(d)
  PROVE  FilesInv'
<1>1. \A w \in Probers : probing'[w] = Idle
  BY DEF Reinit
<1>2. Idle \in Probes
  BY DEF Idle, Probes, Stages, Types
<1>3. probing' \in [Probers -> Probes]
  BY <1>2 DEF Reinit
<1>4. mutex' = 0
  <2>1. \A w \in Probers : mutex # w
    BY DEF Reinit, FilesInv, ProbeIsTrue, Inside
  <2> QED BY <2>1 DEF Reinit, FilesInv
<1>5. ASSUME NEW w \in Probers PROVE ProbeIsTrue(w)'
  <2>1. probing'[w].pc = "idle" /\ mutex' # w
    BY <1>1, <1>4, ProbersAssumption DEF Idle
  <2> QED BY <2>1 DEF ProbeIsTrue, Inside
<1>6. EntriesRest'
  <2>1. entry' = [t \in Slots |-> Unopened]
    BY DEF Reinit, Closed, Slots
  <2>2. DOMAIN entry' = Slots /\ \A t \in Slots : entry'[t] = Unopened
    BY <2>1
  <2> QED BY <2>2 DEF EntriesRest, Slots
<1> QED BY <1>3, <1>4, <1>5, <1>6 DEF FilesInv

(* Nobody probes while init fills the hash.                                 *)
LEMMA FillingKeepsFiles ==
  ASSUME FilesInv, ~Built, UNCHANGED <<dir, entry, mutex, probing>>
  PROVE  FilesInv'
<1>1. \A w \in Probers : probing[w].pc = "idle"
  BY DEF FilesInv, ProbeIsTrue
<1>2. mutex = 0
  BY <1>1 DEF FilesInv, ProbeIsTrue, Inside
<1>3. \A w \in Probers : ProbeIsTrue(w)'
  BY <1>1, <1>2, ProbersAssumption DEF ProbeIsTrue, Inside
<1>4. EntriesRest'
  <2>1. DOMAIN entry = Slots /\ \A t \in Slots : entry[t] = Parsed(t, TRUE) \/ entry[t] = Unopened
    BY <1>2, ProbersAssumption DEF FilesInv, EntriesRest
  <2>2. \A t \in Slots : Parsed(t, TRUE)' = Parsed(t, TRUE)
    BY DEF Parsed, DiskFile
  <2> QED BY <2>1, <2>2 DEF EntriesRest, Slots
<1> QED BY <1>3, <1>4 DEF FilesInv

LEMMA GoesOn ==
  ASSUME FilesInv, NEW w \in Probers, NEW stage \in Stages, Goes(w, stage)
  PROVE  /\ probing' \in [Probers -> Probes] /\ probing'[w].pc = stage
         /\ probing'[w].key = probing[w].key /\ probing'[w].type = probing[w].type
         /\ probing'[w].table = probing[w].table /\ probing'[w].answer = probing[w].answer
         /\ \A v \in Probers : v # w => probing'[v] = probing[v]
<1>1. probing \in [Probers -> Probes] /\ probing[w] \in Probes
  BY DEF FilesInv
<1>2. [probing[w] EXCEPT !.pc = stage] \in Probes
  BY <1>1 DEF Probes
<1> QED BY <1>1, <1>2 DEF Goes, Probes

(* A step of one worker: its own probe and the tables at rest are what is   *)
(* to be shown.                                                             *)
LEMMA StepKeepsFiles ==
  ASSUME FilesInv, NEW w \in Probers, UNCHANGED <<dir, adding, found>>,
         probing' \in [Probers -> Probes], \A v \in Probers : v # w => probing'[v] = probing[v],
         mutex' \in Probers \cup {0}, \A v \in Probers : v # w => ((mutex = v) <=> (mutex' = v)),
         mutex # w => entry' = entry, \A t \in Slots : entry[t].ready => entry'[t].ready,
         ProbeIsTrue(w)', EntriesRest'
  PROVE  FilesInv'
<1>1. ASSUME NEW v \in Probers, v # w PROVE ProbeIsTrue(v)'
  <2>1. ProbeIsTrue(v) /\ probing'[v] = probing[v] /\ ((mutex = v) <=> (mutex' = v))
    BY <1>1 DEF FilesInv
  <2>2. mutex = v => entry' = entry
    BY <1>1
  <2> QED BY <2>1, <2>2, OthersKeep
<1>2. \A v \in Probers : ProbeIsTrue(v)'
  BY <1>1
<1> QED BY <1>2 DEF FilesInv

(* With the tables left alone they rest as before, unless who was at work   *)
(* on one goes on.                                                          *)
LEMMA TablesRest ==
  ASSUME FilesInv, UNCHANGED <<dir, entry>>,
         \A v \in Probers : mutex = v /\ probing[v].pc \in {"parse", "publish"} =>
           mutex' = v /\ probing'[v] = probing[v]
  PROVE  EntriesRest'
<1>1. \A t \in Slots : Parsed(t, TRUE)' = Parsed(t, TRUE)
  BY DEF Parsed, DiskFile
<1>2. \A v \in Probers : probing'[v] = probing[v] => SlotOf(v)' = SlotOf(v)
  BY DEF SlotOf
<1>3. \A t \in Slots : \/ entry'[t] = Parsed(t, TRUE)'
                        \/ entry'[t] = Unopened
                        \/ /\ mutex' \in Probers /\ probing'[mutex'].pc \in {"parse", "publish"}
                           /\ SlotOf(mutex)' = t
  <2> SUFFICES ASSUME NEW t \in Slots, entry[t] # Parsed(t, TRUE), entry[t] # Unopened
               PROVE  mutex' \in Probers /\ probing'[mutex'].pc \in {"parse", "publish"} /\ SlotOf(mutex)' = t
    BY <1>1
  <2>1. mutex \in Probers /\ probing[mutex].pc \in {"parse", "publish"} /\ SlotOf(mutex) = t
    BY DEF FilesInv, EntriesRest
  <2>2. mutex' = mutex /\ probing'[mutex] = probing[mutex]
    BY <2>1
  <2> QED BY <2>1, <2>2 DEF SlotOf
<1> QED BY <1>3 DEF FilesInv, EntriesRest, Slots

LEMMA ProbeTableKeepsFiles ==
  ASSUME IndexInv, FilesInv, NEW w \in Probers, NEW key \in Keys, NEW type \in Types, ProbeTable(w, key, type)
  PROVE  FilesInv'
<1> DEFINE table == Get(key)
           q == [pc |-> IF table = 0 THEN "done" ELSE "load", key |-> key, type |-> type, table |-> table,
                 answer |-> IF table = 0 THEN "FAIL" ELSE "none"]
<1>1. /\ Built /\ probing[w].pc \in {"idle", "done"} /\ probing' = [probing EXCEPT ![w] = q]
      /\ UNCHANGED <<dir, found, adding, entry, mutex>> /\ probing \in [Probers -> Probes]
  BY DEF ProbeTable, FilesInv
<1>2. TableOfKey(key) = (IF table = 0 THEN {} ELSE {table}) /\ TableOfKey(key) \subseteq DOMAIN Materials
  BY <1>1, GetIsTrue
<1>3. table \in Nat /\ (table # 0 => table \in DOMAIN Materials)
  BY <1>2, MaterialNumbers
<1> HIDE DEF table
<1>4. q \in Probes
  BY <1>3 DEF Probes, Stages
<1>5. probing' \in [Probers -> Probes] /\ probing'[w] = q /\ \A v \in Probers : v # w => probing'[v] = probing[v]
  <2> HIDE DEF q
  <2> QED BY <1>1, <1>4
<1>6. mutex # w
  BY <1>1 DEF FilesInv, ProbeIsTrue, Inside
<1>7. ProbeIsTrue(w)'
  <2>1. /\ probing'[w].pc = (IF table = 0 THEN "done" ELSE "load") /\ probing'[w].key = key
        /\ probing'[w].type = type /\ probing'[w].table = table
        /\ probing'[w].answer = (IF table = 0 THEN "FAIL" ELSE "none")
    BY <1>5
  <2>2. TableOfKey(probing[w].key)' = (IF table = 0 THEN {} ELSE {table}) /\ Built'
    BY <1>1, <1>2, <2>1 DEF TableOfKey, KeysOf, Built
  <2> HIDE DEF q
  <2> QED BY <1>1, <1>3, <1>6, <2>1, <2>2 DEF ProbeIsTrue, Inside
<1>8. EntriesRest'
  <2>1. \A v \in Probers : mutex = v /\ probing[v].pc \in {"parse", "publish"} => mutex' = v /\ probing'[v] = probing[v]
    BY <1>1, <1>5, <1>6
  <2> QED BY <1>1, <2>1, TablesRest
<1>9. mutex' \in Probers \cup {0}
  BY <1>1 DEF FilesInv
<1> QED BY <1>1, <1>5, <1>7, <1>8, <1>9, StepKeepsFiles

(* A worker that goes on without touching a table.                          *)
LEMMA ReadingKeepsFiles ==
  ASSUME FilesInv, NEW w \in Probers, NEW stage \in Stages \ {"idle", "done", "parse", "publish"}, Goes(w, stage),
         probing[w].pc \notin {"idle", "done", "parse", "publish"},
         UNCHANGED <<dir, found, adding, entry>>,
         stage \in Inside <=> mutex' = w, mutex' = mutex \/ (mutex = 0 /\ mutex' = w) \/ (mutex = w /\ mutex' = 0),
         stage = "map" => entry[SlotOf(w)] = Unopened, stage = "use" => entry[SlotOf(w)].ready
  PROVE  FilesInv'
<1>1. /\ probing' \in [Probers -> Probes] /\ probing'[w].pc = stage
      /\ probing'[w].key = probing[w].key /\ probing'[w].type = probing[w].type /\ probing'[w].table = probing[w].table
      /\ \A v \in Probers : v # w => probing'[v] = probing[v]
  BY GoesOn
<1>2. SlotOf(w)' = SlotOf(w) /\ TableOfKey(probing[w].key)' = TableOfKey(probing[w].key) /\ Built' = Built
  BY <1>1 DEF SlotOf, TableOfKey, KeysOf, Built
<1>3. ProbeIsTrue(w)'
  <2>1. ProbeIsTrue(w)
    BY DEF FilesInv
  <2> QED BY <1>1, <1>2, <2>1 DEF ProbeIsTrue
<1>4. EntriesRest'
  <2>1. \A v \in Probers : mutex = v /\ probing[v].pc \in {"parse", "publish"} => mutex' = v /\ probing'[v] = probing[v]
    BY <1>1, ProbersAssumption
  <2> QED BY <2>1, TablesRest
<1>5. mutex' \in Probers \cup {0} /\ \A v \in Probers : v # w => ((mutex = v) <=> (mutex' = v))
  BY ProbersAssumption DEF FilesInv
<1> QED BY <1>1, <1>3, <1>4, <1>5, StepKeepsFiles

LEMMA LoadReadyKeepsFiles ==
  ASSUME FilesInv, NEW w \in Probers, LoadReady(w)
  PROVE  FilesInv'
<1> DEFINE stage == IF entry[SlotOf(w)].ready THEN "use" ELSE "lock"
<1>1. Goes(w, stage) /\ probing[w].pc = "load" /\ UNCHANGED <<dir, found, adding, entry, mutex>>
  BY DEF LoadReady, At
<1>2. stage \in Stages \ {"idle", "done", "parse", "publish"} /\ stage \notin Inside /\ stage # "map" /\ (stage = "use" => entry[SlotOf(w)].ready)
  BY DEF Stages, Inside
<1>3. mutex' # w
  BY <1>1 DEF FilesInv, ProbeIsTrue, Inside
<1> HIDE DEF stage
<1> QED BY <1>1, <1>2, <1>3, ReadingKeepsFiles

LEMMA LockKeepsFiles ==
  ASSUME FilesInv, NEW w \in Probers, Lock(w)
  PROVE  FilesInv'
<1>1. /\ Goes(w, "recheck") /\ probing[w].pc = "lock" /\ UNCHANGED <<dir, found, adding, entry>>
      /\ mutex = 0 /\ mutex' = w
  BY DEF Lock, At
<1>2. "recheck" \in Stages \ {"idle", "done", "parse", "publish"} /\ "recheck" \in Inside
  BY DEF Stages, Inside
<1> QED BY <1>1, <1>2, ReadingKeepsFiles

(* Under the mutex a table that is not ready is unopened.                   *)
LEMMA RecheckKeepsFiles ==
  ASSUME IndexInv, FilesInv, NEW w \in Probers, Recheck(w)
  PROVE  FilesInv'
<1>1. probing[w].pc = "recheck" /\ UNCHANGED <<dir, found, adding, entry>> /\ mutex = w /\ probing[w].table # 0
  BY DEF Recheck, At, FilesInv, ProbeIsTrue, Inside
<1>2. CASE entry[SlotOf(w)].ready
  <2>1. mutex' = 0 /\ Goes(w, "use")
    BY <1>2 DEF Recheck
  <2>2. "use" \in Stages \ {"idle", "done", "parse", "publish"} /\ "use" \notin Inside /\ mutex' # w
    BY <2>1, ProbersAssumption DEF Stages, Inside
  <2> QED BY <1>1, <1>2, <2>1, <2>2, ReadingKeepsFiles
<1>3. CASE ~entry[SlotOf(w)].ready
  <2>1. mutex' = w /\ Goes(w, "map")
    BY <1>1, <1>3 DEF Recheck
  <2>2. "map" \in Stages \ {"idle", "done", "parse", "publish"} /\ "map" \in Inside
    BY DEF Stages, Inside
  <2>3. SlotOf(w) \in Slots
    BY <1>1, NameIsTheFiles
  <2>4. entry[SlotOf(w)] # Parsed(SlotOf(w), TRUE)
    BY <1>3 DEF Parsed
  <2>5. entry[SlotOf(w)] = Unopened
    BY <1>1, <2>3, <2>4 DEF FilesInv, EntriesRest
  <2> QED BY <1>1, <2>1, <2>2, <2>5, ReadingKeepsFiles
<1> QED BY <1>2, <1>3

(* A step on the table of who holds the mutex.                              *)
LEMMA WorkKeepsFiles ==
  ASSUME IndexInv, FilesInv, NEW w \in Probers, probing[w].pc \in {"map", "parse"},
         NEW stage \in {"parse", "publish"}, Goes(w, stage), NEW en, entry' = [entry EXCEPT ![SlotOf(w)] = en],
         UNCHANGED <<dir, found, adding, mutex>>,
         stage = "parse" => en = MappedOnly /\ NamedFile(w) \in {"header", "whole"},
         stage = "publish" => en = Parsed(SlotOf(w), FALSE)
  PROVE  FilesInv'
<1>1. /\ probing' \in [Probers -> Probes] /\ probing'[w].pc = stage
      /\ probing'[w].key = probing[w].key /\ probing'[w].type = probing[w].type /\ probing'[w].table = probing[w].table
      /\ \A v \in Probers : v # w => probing'[v] = probing[v]
  BY GoesOn DEF Stages
<1>2. /\ SlotOf(w)' = SlotOf(w) /\ TableOfKey(probing[w].key)' = TableOfKey(probing[w].key) /\ Built' = Built
      /\ Parsed(SlotOf(w), FALSE)' = Parsed(SlotOf(w), FALSE)
  BY <1>1 DEF SlotOf, TableOfKey, KeysOf, Built, Parsed, DiskFile
<1>3. /\ ProbeIsTrue(w) /\ mutex = w /\ probing[w].table # 0
  BY DEF FilesInv, ProbeIsTrue, Inside
<1>4. /\ NamedFile(w) = DiskFile(dir, probing[w].table, probing[w].type) /\ SlotOf(w) \in Slots
  BY <1>3, NameIsTheFiles
<1>5. DOMAIN entry = Slots
  BY DEF FilesInv, EntriesRest
<1>6. entry'[SlotOf(w)] = en /\ \A t \in Slots : t # SlotOf(w) => entry'[t] = entry[t]
  BY <1>4, <1>5
<1>7. ~entry[SlotOf(w)].ready
  BY <1>3 DEF ProbeIsTrue, Unopened, MappedOnly
<1>8. ProbeIsTrue(w)'
  <2>1. DiskFile(dir, probing[w].table, probing[w].type)' = NamedFile(w)
    BY <1>1, <1>4 DEF DiskFile
  <2> QED BY <1>1, <1>2, <1>3, <1>6, <2>1 DEF ProbeIsTrue, Inside
<1>9. EntriesRest'
  <2>1. DOMAIN entry' = Slots
    BY <1>5
  <2>2. ASSUME NEW t \in Slots
        PROVE  \/ entry'[t] = Parsed(t, TRUE)'
               \/ entry'[t] = Unopened
               \/ mutex' \in Probers /\ probing'[mutex'].pc \in {"parse", "publish"} /\ SlotOf(mutex)' = t
    <3>1. CASE t = SlotOf(w)
      <4>1. mutex' = w /\ SlotOf(mutex)' = SlotOf(w)
        BY <1>1, <1>3 DEF SlotOf
      <4> QED BY <3>1, <4>1, <1>1
    <3>2. CASE t # SlotOf(w)
      <4>1. entry[t] = Parsed(t, TRUE) \/ entry[t] = Unopened
        BY <3>2, <1>3 DEF FilesInv, EntriesRest
      <4>2. Parsed(t, TRUE)' = Parsed(t, TRUE)
        BY DEF Parsed, DiskFile
      <4> QED BY <3>2, <4>1, <4>2, <1>6
    <3> QED BY <3>1, <3>2
  <2> QED BY <2>1, <2>2 DEF EntriesRest, Slots
<1>10. \A t \in Slots : entry[t].ready => entry'[t].ready
  BY <1>6, <1>7
<1>11. mutex' \in Probers \cup {0} /\ \A v \in Probers : v # w => ((mutex = v) <=> (mutex' = v))
  BY DEF FilesInv
<1> QED BY <1>1, <1>3, <1>8, <1>9, <1>10, <1>11, StepKeepsFiles

LEMMA FileStatesKnown ==
  ASSUME IndexInv, FilesInv, NEW w \in Probers, probing[w].pc # "idle", probing[w].table # 0
  PROVE  /\ NamedFile(w) = DiskFile(dir, SlotOf(w)[1], SlotOf(w)[2]) /\ SlotOf(w) \in Slots
  BY NameIsTheFiles DEF SlotOf

LEMMA MapKeepsFiles ==
  ASSUME IndexInv, FilesInv, NEW w \in Probers, Map(w)
  PROVE  FilesInv'
<1> DEFINE mapped == NamedFile(w) \in {"header", "whole"}
           old == entry[SlotOf(w)]
           en == [ready |-> old.ready, base |-> IF mapped THEN "file" ELSE "null", filled |-> old.filled,
                 mappings |-> IF mapped THEN old.mappings + 1 ELSE old.mappings]
<1>1. probing[w].pc = "map" /\ UNCHANGED <<dir, found, adding, mutex>>
  BY DEF Map, At
<1>2. old = Unopened /\ probing[w].table # 0
  BY <1>1 DEF FilesInv, ProbeIsTrue
<1>3. entry' = [entry EXCEPT ![SlotOf(w)] = en]
  BY Zenon DEF Map
<1>4. CASE mapped
  <2>1. Goes(w, "parse")
    BY <1>4 DEF Map, Goes
  <2>2. en = MappedOnly
    <3>1. mapped = TRUE
      BY <1>4
    <3> HIDE DEF mapped
    <3> QED BY <1>2, <3>1 DEF Unopened, MappedOnly
  <2> HIDE DEF en
  <2> QED BY <1>1, <1>3, <1>4, <2>1, <2>2, WorkKeepsFiles
<1>5. CASE ~mapped
  <2>1. Goes(w, "publish")
    BY <1>5 DEF Map, Goes
  <2>2. en = Unopened
    <3>1. mapped = FALSE
      BY <1>5
    <3> HIDE DEF mapped
    <3> QED BY <1>2, <3>1 DEF Unopened
  <2>3. DiskFile(dir, SlotOf(w)[1], SlotOf(w)[2]) # "whole"
    BY <1>1, <1>2, <1>5, FileStatesKnown
  <2>4. Unopened = Parsed(SlotOf(w), FALSE)
    BY <2>3 DEF Unopened, Parsed
  <2> HIDE DEF en
  <2> QED BY <1>1, <1>3, <2>1, <2>2, <2>4, WorkKeepsFiles
<1> QED BY <1>4, <1>5

LEMMA ParseKeepsFiles ==
  ASSUME IndexInv, FilesInv, NEW w \in Probers, Parse(w)
  PROVE  FilesInv'
<1> DEFINE old == entry[SlotOf(w)]
           good == [ready |-> old.ready, base |-> old.base, filled |-> TRUE, mappings |-> old.mappings]
           bad == [ready |-> old.ready, base |-> "null", filled |-> FALSE, mappings |-> old.mappings - 1]
           en == IF NamedFile(w) = "whole" THEN good ELSE bad
<1>1. probing[w].pc = "parse" /\ UNCHANGED <<dir, found, adding, mutex>> /\ Goes(w, "publish")
  BY DEF Parse, At
<1>2. old = MappedOnly /\ probing[w].table # 0
  BY <1>1 DEF FilesInv, ProbeIsTrue
<1>3. NamedFile(w) = DiskFile(dir, SlotOf(w)[1], SlotOf(w)[2])
  BY <1>1, <1>2, FileStatesKnown
<1>4. entry' = [entry EXCEPT ![SlotOf(w)] = en]
  BY Zenon DEF Parse
<1>5. en = Parsed(SlotOf(w), FALSE)
  <2>1. /\ good = [ready |-> FALSE, base |-> "file", filled |-> TRUE, mappings |-> 1]
        /\ bad = [ready |-> FALSE, base |-> "null", filled |-> FALSE, mappings |-> 0]
    BY <1>2 DEF MappedOnly
  <2> HIDE DEF good, bad
  <2> QED BY <2>1, <1>3, Zenon DEF Parsed
<1> HIDE DEF en
<1> QED BY <1>1, <1>4, <1>5, WorkKeepsFiles

LEMMA ReadyIsSet ==
  ASSUME NEW R, NEW B, NEW E, NEW M, NEW r \in [ready : R, base : B, filled : E, mappings : M], NEW v
  PROVE  [r EXCEPT !.ready = v] = [ready |-> v, base |-> r.base, filled |-> r.filled, mappings |-> r.mappings]
  OBVIOUS

LEMMA PublishKeepsFiles ==
  ASSUME IndexInv, FilesInv, NEW w \in Probers, Publish(w)
  PROVE  FilesInv'
<1>1. /\ probing[w].pc = "publish" /\ UNCHANGED <<dir, found, adding>> /\ Goes(w, "use")
      /\ entry' = [entry EXCEPT ![SlotOf(w)].ready = TRUE] /\ mutex' = 0
  BY DEF Publish, At
<1>2. ProbeIsTrue(w) /\ entry[SlotOf(w)] = Parsed(SlotOf(w), FALSE) /\ probing[w].table # 0 /\ mutex = w
  BY <1>1 DEF FilesInv, ProbeIsTrue, Inside
<1>3. "use" \in Stages
  BY DEF Stages
<1>4. /\ probing' \in [Probers -> Probes] /\ probing'[w].pc = "use"
      /\ probing'[w].key = probing[w].key /\ probing'[w].type = probing[w].type /\ probing'[w].table = probing[w].table
      /\ \A v \in Probers : v # w => probing'[v] = probing[v]
  BY <1>1, <1>3, GoesOn
<1>5. SlotOf(w) \in Slots /\ DOMAIN entry = Slots
  BY <1>1, <1>2, NameIsTheFiles DEF FilesInv, EntriesRest
<1>6. entry'[SlotOf(w)] = Parsed(SlotOf(w), TRUE) /\ \A t \in Slots : t # SlotOf(w) => entry'[t] = entry[t]
  <2>1. entry'[SlotOf(w)] = [entry[SlotOf(w)] EXCEPT !.ready = TRUE]
    BY <1>1, <1>5, Zenon
  <2> DEFINE r == Parsed(SlotOf(w), FALSE)
  <2>2. r \in [ready : BOOLEAN, base : {"file", "null"}, filled : BOOLEAN, mappings : 0 .. 1]
    BY DEF Parsed
  <2>3. entry'[SlotOf(w)] = Parsed(SlotOf(w), TRUE)
    <3>1. [ready |-> TRUE, base |-> r.base, filled |-> r.filled, mappings |-> r.mappings] = Parsed(SlotOf(w), TRUE)
      BY DEF Parsed
    <3>2. entry'[SlotOf(w)] = [r EXCEPT !.ready = TRUE]
      BY <1>2, <2>1, Zenon
    <3> HIDE DEF r
    <3> QED BY <2>2, <3>1, <3>2, ReadyIsSet
  <2>4. \A t \in Slots : t # SlotOf(w) => entry'[t] = entry[t]
    BY <1>1, <1>5, Zenon
  <2> QED BY <2>3, <2>4
<1>7. /\ SlotOf(w)' = SlotOf(w) /\ TableOfKey(probing[w].key)' = TableOfKey(probing[w].key) /\ Built' = Built
      /\ \A t \in Slots : Parsed(t, TRUE)' = Parsed(t, TRUE)
  BY <1>1, <1>4 DEF SlotOf, TableOfKey, KeysOf, Built, Parsed, DiskFile
<1>8. entry'[SlotOf(w)].ready
  BY <1>6 DEF Parsed
<1>9. mutex' # w
  BY <1>1, ProbersAssumption
<1>10. ProbeIsTrue(w)'
  BY <1>2, <1>4, <1>7, <1>8, <1>9 DEF ProbeIsTrue, Inside
<1>11. EntriesRest'
  <2>1. DOMAIN entry' = Slots
    BY <1>1, <1>5
  <2>2. \A t \in Slots : entry'[t] = Parsed(t, TRUE)' \/ entry'[t] = Unopened
    <3> SUFFICES ASSUME NEW t \in Slots PROVE entry'[t] = Parsed(t, TRUE)' \/ entry'[t] = Unopened
      OBVIOUS
    <3>1. CASE t = SlotOf(w)
      BY <3>1, <1>6, <1>7
    <3>2. CASE t # SlotOf(w)
      BY <3>2, <1>2, <1>6, <1>7 DEF FilesInv, EntriesRest
    <3> QED BY <3>1, <3>2
  <2> QED BY <2>1, <2>2 DEF EntriesRest, Slots
<1>12. ASSUME NEW t \in Slots, entry[t].ready PROVE entry'[t].ready
  BY <1>6, <1>8, <1>12
<1>13. mutex' \in Probers \cup {0} /\ \A v \in Probers : v # w => ((mutex = v) <=> (mutex' = v))
  BY <1>1, <1>2, ProbersAssumption
<1> QED BY <1>1, <1>2, <1>4, <1>10, <1>11, <1>12, <1>13, StepKeepsFiles

(* A worker reads a table only when it is published.                        *)
LEMMA UseKeepsFiles ==
  ASSUME IndexInv, FilesInv, NEW w \in Probers, Use(w)
  PROVE  FilesInv'
<1> DEFINE result == IF entry[SlotOf(w)].base = "null" THEN "FAIL" ELSE IF entry[SlotOf(w)].filled THEN "value" ELSE "garbage"
<1>1. probing[w].pc = "use" /\ UNCHANGED <<dir, found, adding, entry, mutex>> /\ Answers(w, result)
  BY DEF Use, At
<1>2. ProbeIsTrue(w) /\ entry[SlotOf(w)].ready /\ probing[w].table # 0 /\ mutex # w
  BY <1>1 DEF FilesInv, ProbeIsTrue, Inside
<1>3. SlotOf(w) \in Slots /\ SlotOf(w)[1] = probing[w].table /\ SlotOf(w)[2] = probing[w].type
  BY <1>1, <1>2, NameIsTheFiles DEF SlotOf
<1>4. entry[SlotOf(w)] = Parsed(SlotOf(w), TRUE)
  BY <1>2, <1>3, ReadyIsParsed
<1>5. result = IF DiskFile(dir, probing[w].table, probing[w].type) = "whole" THEN "value" ELSE "FAIL"
  <2>1. CASE DiskFile(dir, probing[w].table, probing[w].type) = "whole"
    <3>1. entry[SlotOf(w)].base = "file" /\ entry[SlotOf(w)].filled
      BY <1>3, <1>4, <2>1 DEF Parsed
    <3> QED BY <3>1, <2>1
  <2>2. CASE DiskFile(dir, probing[w].table, probing[w].type) # "whole"
    <3>1. entry[SlotOf(w)].base = "null"
      BY <1>3, <1>4, <2>2 DEF Parsed
    <3> QED BY <3>1, <2>2
  <2> QED BY <2>1, <2>2
<1> HIDE DEF result
<1>6. result \in {"FAIL", "value"}
  BY <1>5
<1>7. /\ probing' \in [Probers -> Probes] /\ probing'[w].pc = "done" /\ probing'[w].answer = result
      /\ probing'[w].key = probing[w].key /\ probing'[w].type = probing[w].type /\ probing'[w].table = probing[w].table
      /\ \A v \in Probers : v # w => probing'[v] = probing[v]
  <2>1. probing \in [Probers -> Probes]
    BY DEF FilesInv
  <2>2. PICK p \in Probes : p = probing[w]
    BY <2>1
  <2> DEFINE q == [p EXCEPT !.pc = "done", !.answer = result]
  <2>3. q \in Probes /\ q.pc = "done" /\ q.answer = result /\ q.key = p.key /\ q.type = p.type /\ q.table = p.table
    BY <1>6 DEF Probes, Stages
  <2>4. probing' = [probing EXCEPT ![w] = q]
    BY <1>1, <2>2, Zenon DEF Answers
  <2> HIDE DEF q
  <2> QED BY <2>1, <2>2, <2>3, <2>4
<1>8. TableOfKey(probing[w].key)' = TableOfKey(probing[w].key) /\ Built' = Built
  BY <1>1, <1>7 DEF TableOfKey, KeysOf, Built
<1>9. ProbeIsTrue(w)'
  <2>1. DiskFile(dir, probing[w].table, probing[w].type)' = DiskFile(dir, probing[w].table, probing[w].type)
    BY <1>1, <1>7 DEF DiskFile
  <2> QED BY <1>1, <1>2, <1>5, <1>7, <1>8, <2>1 DEF ProbeIsTrue, Inside
<1>10. EntriesRest'
  <2>1. \A v \in Probers : mutex = v /\ probing[v].pc \in {"parse", "publish"} => mutex' = v /\ probing'[v] = probing[v]
    BY <1>1, <1>2, <1>7
  <2> QED BY <1>1, <2>1, TablesRest
<1>11. mutex' \in Probers \cup {0}
  BY <1>1 DEF FilesInv
<1> QED BY <1>1, <1>7, <1>9, <1>10, <1>11, StepKeepsFiles

-----------------------------------------------------------------------------
LEMMA InductiveStart == FilesInit => TablesInv
  BY IndexInit, FilesStart DEF TablesInv

LEMMA InductiveStep == TablesInv /\ [FilesNext]_fileVars => TablesInv'
<1> SUFFICES ASSUME TablesInv, [FilesNext]_fileVars PROVE TablesInv'
  OBVIOUS
<1>1. IndexInv /\ FilesInv /\ IndexInv'
  BY IndexStep DEF TablesInv
<1>2. FilesInv'
  <2>1. CASE \E d \in Directories : Reinit(d)
    BY <2>1, <1>1, ReinitKeepsFiles
  <2>2. CASE Add
    BY <2>2, <1>1, FillingKeepsFiles DEF Add
  <2>3. CASE Insert
    <3>1. ~Built
      <4>1. adding.material \in DOMAIN Materials
        BY <2>3, <1>1, InsertKnows DEF Insert
      <4> QED BY <4>1, MaterialNumbers DEF Built
    <3> QED BY <2>3, <3>1, <1>1, FillingKeepsFiles DEF Insert
  <2>4. ASSUME NEW w \in Probers,
               \/ \E key \in Keys, type \in Types : ProbeTable(w, key, type)
               \/ LoadReady(w) \/ Lock(w) \/ Recheck(w) \/ Map(w) \/ Parse(w) \/ Publish(w) \/ Use(w)
        PROVE  FilesInv'
    BY <2>4, <1>1, ProbeTableKeepsFiles, LoadReadyKeepsFiles, LockKeepsFiles, RecheckKeepsFiles, MapKeepsFiles,
       ParseKeepsFiles, PublishKeepsFiles, UseKeepsFiles
  <2>5. CASE UNCHANGED fileVars
    <3>1. \A w \in Probers : ProbeIsTrue(w)'
      BY <2>5, <1>1, OthersKeep DEF fileVars, FilesInv
    <3>2. EntriesRest'
      BY <2>5, <1>1, TablesRest DEF fileVars
    <3> QED BY <2>5, <1>1, <3>1, <3>2 DEF fileVars, FilesInv
  <2> QED BY <2>1, <2>2, <2>3, <2>4, <2>5 DEF FilesNext
<1> QED BY <1>1, <1>2 DEF TablesInv

LEMMA InductiveSuffices == TablesInv => FilesMappedOnce
<1> SUFFICES ASSUME TablesInv PROVE FilesMappedOnce
  OBVIOUS
<1>1. IndexInv /\ FilesInv
  BY DEF TablesInv
<1>2. EveryTableIsFound
  <2>1. hash[Size] = Empty /\ found.wdl = Cardinality(found.tables) /\ found.dtz <= found.wdl
    BY <1>1 DEF IndexInv, HashTyped, FoundTyped
  <2>2. Built => \A key \in Keys : TableOfKey(key) = IF Get(key) = 0 THEN {} ELSE {Get(key)}
    BY <1>1, GetIsTrue
  <2> QED BY <2>1, <2>2 DEF EveryTableIsFound
<1>3. AnswersItsFile
  <2> SUFFICES ASSUME NEW w \in Probers, At(w, "done")
               PROVE  probing[w].answer = IF \E i \in TableOfKey(probing[w].key) : DiskFile(dir, i, probing[w].type) = "whole"
                                          THEN "value" ELSE "FAIL"
    BY DEF AnswersItsFile
  <2>1. ProbeIsTrue(w) /\ probing[w].pc = "done"
    BY <1>1 DEF FilesInv, At
  <2>2. CASE probing[w].table = 0
    BY <2>1, <2>2 DEF ProbeIsTrue
  <2>3. CASE probing[w].table # 0
    BY <2>1, <2>3 DEF ProbeIsTrue
  <2> QED BY <2>2, <2>3
<1>4. MappedOnce
  <2> SUFFICES ASSUME NEW t \in Slots
               PROVE  entry[t].mappings <= 1 /\ (entry[t].ready => (entry[t].mappings = 1) = (entry[t].base = "file"))
    BY <1>1 DEF MappedOnce, FilesInv, EntriesRest
  <2>1. CASE entry[t] = Parsed(t, TRUE)
    BY <2>1 DEF Parsed
  <2>2. CASE entry[t] = Unopened
    BY <2>2 DEF Unopened
  <2>3. CASE mutex \in Probers /\ probing[mutex].pc \in {"parse", "publish"} /\ SlotOf(mutex) = t
    <3>1. entry[t] = MappedOnly \/ entry[t] = Parsed(t, FALSE)
      BY <2>3, <1>1 DEF FilesInv, ProbeIsTrue
    <3> QED BY <3>1 DEF MappedOnly, Parsed
  <2> QED BY <1>1, <2>1, <2>2, <2>3 DEF FilesInv, EntriesRest
<1> QED BY <1>2, <1>3, <1>4 DEF FilesMappedOnce

(* Whatever tables a directory gives and wherever their keys hash to, every *)
(* table is found under both its keys and no other; and however many        *)
(* workers probe at once, each file is mapped once and every probe answers  *)
(* what its file holds.                                                     *)
THEOREM TablesAreFoundAndMappedOnce == FilesSpec => []FilesMappedOnce
  BY InductiveStart, InductiveStep, InductiveSuffices, PTL DEF FilesSpec
=============================================================================
