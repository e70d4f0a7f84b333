------------------------------- MODULE MCPool -------------------------------
(* The pool for TLC, from below and from above: the hand-shake of two       *)
(* threads that a reader and a main worker drive, or the set-up that sizes, *)
(* binds and feeds the workers. They share nothing, so a behaviour is one   *)
(* of either, and only the hand-shake needs threads that run.               *)
EXTENDS Thread, MCSetup

CONSTANTS t1, t2, reader, main, search, clear, none

MCThreads == {t1, t2}
MCCallers == {reader, main}
MCJobs == {search, clear}

poolVars == <<vars, mcVars>>
ThreadsRest == Init /\ \A c \in Callers : on[c] = CHOOSE th \in Threads : TRUE

PoolInit ==
  \/ part = "threads" /\ Init /\ SetupRests /\ RunnerRests
  \/ MCInit /\ ThreadsRest
PoolNext ==
  \/ part = "threads" /\ Next /\ UNCHANGED mcVars
  \/ MCNext /\ UNCHANGED vars
PoolSpec == PoolInit /\ [][PoolNext]_poolVars /\ Fairness
=============================================================================
