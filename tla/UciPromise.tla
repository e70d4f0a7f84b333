----------------------------- MODULE UciPromise -----------------------------
(* What the engine owes the GUI: one bestmove for each search it accepts,   *)
(* none while the GUI holds the search back (it ponders, or searches        *)
(* without limit, and neither "stop" nor "ponderhit" has come), and an      *)
(* answer to every search that is not held back.                            *)
EXTENDS Naturals

VARIABLES owed,   \* searches accepted and not yet answered
          heldBack

promise == <<owed, heldBack>>

PromiseInit == owed = 0 /\ heldBack = FALSE

Accept == /\ owed = 0
          /\ owed' = 1
          /\ heldBack' \in BOOLEAN

Release == /\ owed = 1
           /\ heldBack
           /\ heldBack' = FALSE
           /\ owed' = owed

Answer == /\ owed = 1
          /\ ~heldBack
          /\ owed' = 0
          /\ heldBack' = FALSE

PromiseNext == Accept \/ Release \/ Answer

PromiseSafety == PromiseInit /\ [][PromiseNext]_promise

PromiseSpec == PromiseSafety /\ WF_promise(Answer)
=============================================================================
