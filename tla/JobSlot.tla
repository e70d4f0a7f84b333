------------------------------ MODULE JobSlot ------------------------------
(* What a pool thread promises to the code that drives it: a slot that      *)
(* holds at most one job.  A job put into an idle slot is run exactly once, *)
(* the slot is idle again only when that job has ended, and a thread that   *)
(* was told to exit takes the last job as its order to return.  Thread.tla  *)
(* shows the mutex and condition variable of platform/thread.cpp implement  *)
(* this; Session.tla composes slots into the engine.                        *)
EXTENDS Naturals

CONSTANTS Threads,   \* the threads the pool can ever hold
          Jobs,      \* the functions handed to run_custom_job
          NoJob      \* an empty std::function

ASSUME NoJobAssumption == NoJob \notin Jobs

VARIABLES slot,      \* "none": no such thread, "idle", "full", "busy", "dead"
          held,      \* the job in the slot, or the job being run
          exiting    \* the thread was told to exit

slots == <<slot, held, exiting>>

SlotTypeOK == /\ slot \in [Threads -> {"none", "idle", "full", "busy", "dead"}]
              /\ held \in [Threads -> Jobs \cup {NoJob}]
              /\ exiting \in [Threads -> BOOLEAN]

SlotInit == /\ slot = [th \in Threads |-> "none"]
            /\ held = [th \in Threads |-> NoJob]
            /\ exiting = [th \in Threads |-> FALSE]

(* A thread starts out busy with nothing: it is on its way to its first     *)
(* park.                                                                    *)
Start(th) == /\ slot[th] = "none"
             /\ slot' = [slot EXCEPT ![th] = "busy"]
             /\ UNCHANGED <<held, exiting>>

Put(th, f) == /\ slot[th] = "idle"
              /\ slot' = [slot EXCEPT ![th] = "full"]
              /\ held' = [held EXCEPT ![th] = f]
              /\ UNCHANGED exiting

Take(th) == /\ slot[th] = "full"
            /\ ~exiting[th]
            /\ slot' = [slot EXCEPT ![th] = "busy"]
            /\ UNCHANGED <<held, exiting>>

(* The job returns; the slot is idle only once the thread has said so.      *)
End(th) == /\ slot[th] = "busy"
           /\ held[th] # NoJob
           /\ held' = [held EXCEPT ![th] = NoJob]
           /\ UNCHANGED <<slot, exiting>>

Idle(th) == /\ slot[th] = "busy"
            /\ held[th] = NoJob
            /\ slot' = [slot EXCEPT ![th] = "idle"]
            /\ UNCHANGED <<held, exiting>>

Exit(th) == /\ slot[th] = "idle"
            /\ exiting' = [exiting EXCEPT ![th] = TRUE]
            /\ UNCHANGED <<slot, held>>

Return(th) == /\ slot[th] = "full"
              /\ exiting[th]
              /\ slot' = [slot EXCEPT ![th] = "dead"]
              /\ UNCHANGED <<held, exiting>>

Join(th) == /\ slot[th] = "dead"
            /\ slot' = [slot EXCEPT ![th] = "none"]
            /\ held' = [held EXCEPT ![th] = NoJob]
            /\ exiting' = [exiting EXCEPT ![th] = FALSE]

SlotNext == \E th \in Threads :
               \/ Start(th) \/ Take(th) \/ End(th) \/ Idle(th)
               \/ Exit(th) \/ Return(th) \/ Join(th)
               \/ \E f \in Jobs : Put(th, f)

SlotSafety == SlotInit /\ [][SlotNext]_slots

SlotFairness == \A th \in Threads : WF_slots(Take(th) \/ End(th) \/ Idle(th) \/ Return(th))

SlotSpec == SlotSafety /\ SlotFairness
=============================================================================
