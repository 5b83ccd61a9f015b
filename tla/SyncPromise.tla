---------------------------- MODULE SyncPromise ----------------------------
(***************************************************************************)
(* What the clients of the PoPoS baseline promise of sync(): it returns    *)
(* the committee in force now, or it throws.                               *)
(***************************************************************************)
VARIABLES
  returned,   \* "nothing" yet, the "current" committee, or some "other" one
  thrown      \* whether sync has thrown

vars == <<returned, thrown>>

Init == returned = "nothing" /\ thrown = FALSE

Running == returned = "nothing" /\ ~thrown

Return == Running /\ returned' = "current" /\ UNCHANGED thrown

Throw == Running /\ thrown' = TRUE /\ UNCHANGED returned

Next == Return \/ Throw

Spec == Init /\ [][Next]_vars
=============================================================================
