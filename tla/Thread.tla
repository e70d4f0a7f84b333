------------------------------- MODULE Thread -------------------------------
(* One pool thread and the callers that drive it: the handshake of          *)
(* src/platform/thread.cpp.  One mutex and ONE condition variable per       *)
(* thread serve both directions - the caller waits on it for the thread to  *)
(* park, the thread waits on it for a job - and every wake-up is a          *)
(* notify_one.  A critical section is one action; a thread blocked in       *)
(* cv.wait is "asleep" and must take the mutex again when it is woken.      *)
EXTENDS Naturals

CONSTANTS Threads,   \* the Thread objects
          Callers,   \* native threads that call the members of a Thread
          Jobs,      \* the functions handed to run_custom_job
          NoJob      \* an empty std::function: jobFunc = nullptr

ASSUME JobsAssumption == NoJob \notin Jobs

ASSUME CallersAssumption == Threads \cap Callers = {}

VARIABLES searching, exit, jobFunc,   \* the members of each Thread
          loop,      \* where its native thread is in idle_loop
          running,   \* the job it runs
          pc,        \* where each caller is in wait_for_search_finished or
                     \*   run_custom_job ("idle": in neither)
          on,        \* the Thread the caller's call is on
          job        \* the job to hand over, NoJob: the call only waits

members == <<searching, exit, jobFunc>>
vars == <<searching, exit, jobFunc, loop, running, pc, on, job>>

TypeOK == /\ searching \in [Threads -> BOOLEAN]
          /\ exit \in [Threads -> BOOLEAN]
          /\ jobFunc \in [Threads -> Jobs \cup {NoJob}]
          /\ loop \in [Threads -> {"none", "top", "asleep", "woken", "run", "returned"}]
          /\ running \in [Threads -> Jobs \cup {NoJob}]
          /\ pc \in [Callers -> {"idle", "lock", "asleep", "notify"}]
          /\ on \in [Callers -> Threads]
          /\ job \in [Callers -> Jobs \cup {NoJob}]

Init == /\ searching = [th \in Threads |-> TRUE]
        /\ exit = [th \in Threads |-> FALSE]
        /\ jobFunc = [th \in Threads |-> NoJob]
        /\ loop = [th \in Threads |-> "none"]
        /\ running = [th \in Threads |-> NoJob]
        /\ pc = [c \in Callers |-> "idle"]
        /\ on \in [Callers -> Threads]
        /\ job = [c \in Callers |-> NoJob]

Engaged(c, th) == pc[c] # "idle" /\ on[c] = th
Free(th) == \A c \in Callers : ~Engaged(c, th)

(***************************************************************************)
(* The discipline the callers keep.  It is not in thread.cpp: it is what   *)
(* the engine around it does (at most one caller is inside a Thread; once  *)
(* exit is set the one call left is the last run_custom_job), and          *)
(* Session.tla checks that it does.                                        *)
(***************************************************************************)
MayCall(th, f) == /\ loop[th] # "none"
                  /\ Free(th)
                  /\ exit[th] => f # NoJob /\ ~searching[th]

(***************************************************************************)
(* Slips a maintainer could make in this handshake; none is part of Next.  *)
(* Each breaks the property PROJECT.json lists it with.                    *)
(***************************************************************************)
HandSilently(c) == /\ pc[c] = "lock"
                   /\ job[c] # NoJob
                   /\ ~searching[on[c]]
                   /\ jobFunc' = [jobFunc EXCEPT ![on[c]] = job[c]]
                   /\ searching' = [searching EXCEPT ![on[c]] = TRUE]
                   /\ pc' = [pc EXCEPT ![c] = "idle"]
                   /\ UNCHANGED <<exit, loop, running, on, job>>

HandWithoutWaiting(c) == /\ pc[c] = "lock"
                         /\ job[c] # NoJob
                         /\ jobFunc' = [jobFunc EXCEPT ![on[c]] = job[c]]
                         /\ searching' = [searching EXCEPT ![on[c]] = TRUE]
                         /\ pc' = [pc EXCEPT ![c] = "notify"]
                         /\ UNCHANGED <<exit, loop, running, on, job>>

TakeJobKeepingIt(th) == /\ loop[th] = "woken"
                        /\ searching[th]
                        /\ ~exit[th]
                        /\ running' = [running EXCEPT ![th] = jobFunc[th]]
                        /\ loop' = [loop EXCEPT ![th] = "run"]
                        /\ UNCHANGED <<searching, exit, jobFunc, pc, on, job>>

ParkSilently(th) == /\ loop[th] = "top"
                    /\ searching' = [searching EXCEPT ![th] = FALSE]
                    /\ loop' = [loop EXCEPT ![th] = "asleep"]
                    /\ UNCHANGED <<exit, jobFunc, running, pc, on, job>>

(* Entering wait_for_search_finished (f = NoJob) or run_custom_job(f).      *)
Call(c, th, f) == /\ pc[c] = "idle"
                  /\ pc' = [pc EXCEPT ![c] = "lock"]
                  /\ on' = [on EXCEPT ![c] = th]
                  /\ job' = [job EXCEPT ![c] = f]
                  /\ UNCHANGED <<members, loop, running>>

(* The wait under the lock, common to both: sleep while the thread is busy. *)
Block(c) == /\ pc[c] = "lock"
            /\ searching[on[c]]
            /\ pc' = [pc EXCEPT ![c] = "asleep"]
            /\ UNCHANGED <<members, loop, running, on, job>>

WaitReturn(c) == /\ pc[c] = "lock"
                 /\ job[c] = NoJob
                 /\ ~searching[on[c]]
                 /\ pc' = [pc EXCEPT ![c] = "idle"]
                 /\ UNCHANGED <<members, loop, running, on, job>>

Hand(c) == /\ pc[c] = "lock"
           /\ job[c] # NoJob
           /\ ~searching[on[c]]
           /\ jobFunc' = [jobFunc EXCEPT ![on[c]] = job[c]]
           /\ searching' = [searching EXCEPT ![on[c]] = TRUE]
           /\ pc' = [pc EXCEPT ![c] = "notify"]
           /\ UNCHANGED <<exit, loop, running, on, job>>

(* The threads blocked in cv.wait on the condition variable of th.          *)
Waiters(th) == {c \in Callers : pc[c] = "asleep" /\ on[c] = th}
                  \cup (IF loop[th] = "asleep" THEN {th} ELSE {})

(* run_custom_job's notify_one, after the mutex was released: it wakes one  *)
(* waiter, whichever it is, and is lost when there is none.                 *)
Notify(c) == /\ pc[c] = "notify"
             /\ \E w \in Waiters(on[c]) :
                   /\ pc' = [d \in Callers |-> IF d = c THEN "idle"
                                               ELSE IF d = w THEN "lock" ELSE pc[d]]
                   /\ loop' = [t \in Threads |-> IF t = w THEN "woken" ELSE loop[t]]
             /\ UNCHANGED <<members, running, on, job>>

NotifyNobody(c) == /\ pc[c] = "notify"
                   /\ Waiters(on[c]) = {}
                   /\ pc' = [pc EXCEPT ![c] = "idle"]
                   /\ UNCHANGED <<members, loop, running, on, job>>

(* The top of idle_loop, in one critical section: clear searching, notify   *)
(* one waiter, and wait for searching.                                      *)
Park(th) == /\ loop[th] = "top"
            /\ searching' = [searching EXCEPT ![th] = FALSE]
            /\ loop' = [loop EXCEPT ![th] = "asleep"]
            /\ IF Waiters(th) = {}
               THEN pc' = pc
               ELSE \E c \in Waiters(th) : pc' = [pc EXCEPT ![c] = "lock"]
            /\ UNCHANGED <<exit, jobFunc, running, on, job>>

(* The woken thread finds no job (a spurious wake-up) and sleeps again.     *)
SleepAgain(th) == /\ loop[th] = "woken"
                  /\ ~searching[th]
                  /\ loop' = [loop EXCEPT ![th] = "asleep"]
                  /\ UNCHANGED <<members, running, pc, on, job>>

TakeJob(th) == /\ loop[th] = "woken"
               /\ searching[th]
               /\ ~exit[th]
               /\ running' = [running EXCEPT ![th] = jobFunc[th]]
               /\ jobFunc' = [jobFunc EXCEPT ![th] = NoJob]
               /\ loop' = [loop EXCEPT ![th] = "run"]
               /\ UNCHANGED <<searching, exit, pc, on, job>>

LeaveLoop(th) == /\ loop[th] = "woken"
                 /\ searching[th]
                 /\ exit[th]
                 /\ loop' = [loop EXCEPT ![th] = "returned"]
                 /\ UNCHANGED <<members, running, pc, on, job>>

(* The job returns and the thread goes round its loop.                      *)
EndJob(th) == /\ loop[th] = "run"
              /\ running' = [running EXCEPT ![th] = NoJob]
              /\ loop' = [loop EXCEPT ![th] = "top"]
              /\ UNCHANGED <<members, pc, on, job>>

(* std::condition_variable may wake a sleeper without a notification.       *)
WakeSpuriously == /\ \/ /\ \E th \in Threads :
                              /\ loop[th] = "asleep"
                              /\ loop' = [loop EXCEPT ![th] = "woken"]
                        /\ UNCHANGED pc
                     \/ /\ \E c \in Callers :
                              /\ pc[c] = "asleep"
                              /\ pc' = [pc EXCEPT ![c] = "lock"]
                        /\ UNCHANGED loop
                  /\ UNCHANGED <<members, running, on, job>>

(* The constructor starts the native thread; the calls that follow in it    *)
(* (wait, build the Worker, wait) are Calls.                                *)
Construct(th) == /\ loop[th] = "none"
                 /\ loop' = [loop EXCEPT ![th] = "top"]
                 /\ UNCHANGED <<members, running, pc, on, job>>

(* The destructor writes exit without the mutex, on a thread it knows to be *)
(* parked, then calls start_searching (a Call) and joins.                   *)
SetExit(th) == /\ loop[th] \in {"asleep", "woken"}
               /\ ~searching[th]
               /\ Free(th)
               /\ exit' = [exit EXCEPT ![th] = TRUE]
               /\ UNCHANGED <<searching, jobFunc, loop, running, pc, on, job>>

(* The members die with the Thread: the next one built here starts with     *)
(* theirs, searching = true and exit = false.                               *)
JoinThread(th) == /\ loop[th] = "returned"
                  /\ Free(th)
                  /\ searching' = [searching EXCEPT ![th] = TRUE]
                  /\ exit' = [exit EXCEPT ![th] = FALSE]
                  /\ jobFunc' = [jobFunc EXCEPT ![th] = NoJob]
                  /\ loop' = [loop EXCEPT ![th] = "none"]
                  /\ UNCHANGED <<running, pc, on, job>>

Next == \/ \E c \in Callers, th \in Threads, f \in Jobs \cup {NoJob} :
              MayCall(th, f) /\ Call(c, th, f)
        \/ \E c \in Callers : \/ Block(c) \/ WaitReturn(c) \/ Hand(c)
                              \/ Notify(c) \/ NotifyNobody(c)
        \/ \E th \in Threads : \/ Park(th) \/ SleepAgain(th) \/ TakeJob(th)
                               \/ LeaveLoop(th) \/ EndJob(th)
                               \/ Construct(th) \/ SetExit(th) \/ JoinThread(th)
        \/ WakeSpuriously

(* The mutex is fair enough that a caller at its lock gets it, and a woken  *)
(* pool thread and the job it runs make progress.  Nothing obliges a caller *)
(* to call, or the library to wake anyone without a notification.           *)
CallerStep(c) == Block(c) \/ WaitReturn(c) \/ Hand(c) \/ Notify(c) \/ NotifyNobody(c)
ThreadStep(th) == Park(th) \/ TakeJob(th) \/ LeaveLoop(th) \/ EndJob(th)

Fairness == /\ \A c \in Callers : WF_vars(CallerStep(c))
            /\ \A th \in Threads : WF_vars(ThreadStep(th))

Spec == Init /\ [][Next]_vars
FairSpec == Spec /\ Fairness

(***************************************************************************)
(* Safety.                                                                 *)
(***************************************************************************)

(* A pool thread that sleeps although a job was handed to it is about to be *)
(* notified: the notification was not lost, nor stolen by another sleeper   *)
(* on the shared condition variable (run_custom_job against idle_loop).     *)
NoLostWakeup ==
  \A th \in Threads :
    loop[th] = "asleep" /\ searching[th]
      => \E c \in Callers : pc[c] = "notify" /\ on[c] = th

(* A caller that sleeps in wait_for_search_finished or run_custom_job waits *)
(* for a thread that has still to pass the top of idle_loop, where it will  *)
(* be notified: not for one that sleeps itself, or that has returned.       *)
NoStrandedCaller ==
  \A c \in Callers :
    pc[c] = "asleep" => /\ searching[on[c]]
                        /\ loop[on[c]] \in {"woken", "run", "top"}
                        /\ ~exit[on[c]]

(* jobFunc holds a job exactly while one was handed over and not yet taken: *)
(* no job is overwritten before it ran, none is run twice, and the          *)
(* `if (job)` of idle_loop never finds it empty.                            *)
JobHandedOnce ==
  \A th \in Threads :
    (jobFunc[th] # NoJob)
      <=> (searching[th] /\ loop[th] \in {"asleep", "woken", "returned"})

(***************************************************************************)
(* The inductive invariant behind them (proved in PlatformProofs.tla).       *)
(***************************************************************************)

(* The discipline, as a state predicate: one caller per Thread.             *)
Exclusive == \A c, d \in Callers :
                pc[c] # "idle" /\ pc[d] # "idle" /\ on[c] = on[d] => c = d

(* Nobody is inside a Thread that has been destroyed.                       *)
EngagedAlive == \A c \in Callers : pc[c] # "idle" => loop[on[c]] # "none"

(* A Thread whose native thread is not waiting is searching.                *)
BusyIsSearching == \A th \in Threads :
                      loop[th] \in {"none", "top", "run", "returned"} => searching[th]

RunningInJob == \A th \in Threads : (running[th] # NoJob) <=> loop[th] = "run"

(* After exit only the last hand-over is left, and it never has to wait.    *)
ExitIsLast == /\ \A th \in Threads :
                    /\ exit[th] => loop[th] \in {"asleep", "woken", "returned"}
                    /\ loop[th] = "returned" => exit[th]
              /\ \A c \in Callers :
                    pc[c] = "lock" /\ exit[on[c]] => job[c] # NoJob /\ ~searching[on[c]]

IInv == /\ TypeOK
        /\ Exclusive
        /\ EngagedAlive
        /\ BusyIsSearching
        /\ RunningInJob
        /\ ExitIsLast
        /\ NoLostWakeup
        /\ NoStrandedCaller
        /\ JobHandedOnce

(***************************************************************************)
(* The abstract slot this implements.                                      *)
(***************************************************************************)
slotOf == [th \in Threads |->
             CASE loop[th] = "none" -> "none"
               [] loop[th] = "returned" -> "dead"
               [] loop[th] \in {"top", "run"} -> "busy"
               [] OTHER -> IF searching[th] THEN "full" ELSE "idle"]

heldBy == [th \in Threads |-> IF loop[th] = "run" THEN running[th] ELSE jobFunc[th]]

Slot == INSTANCE JobSlot WITH slot <- slotOf, held <- heldBy, exiting <- exit

(* Every step of the handshake is a step of the one-place job slot or       *)
(* invisible to it.                                                         *)
ImplementsSlot == Slot!SlotSafety

(***************************************************************************)
(* Liveness.                                                               *)
(***************************************************************************)

(* Whoever enters wait_for_search_finished or run_custom_job comes out.     *)
CallsReturn == \A c \in Callers : pc[c] # "idle" ~> pc[c] = "idle"

(* A job that was handed over is taken; the last one makes the thread       *)
(* return.                                                                  *)
JobsRun == \A th \in Threads :
             searching[th] /\ loop[th] \in {"asleep", "woken"}
               ~> loop[th] \in {"run", "returned"}

(* Both: no call and no job is left waiting for ever.                       *)
WorkGetsDone == CallsReturn /\ JobsRun
=============================================================================
