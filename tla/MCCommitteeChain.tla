-------------------------- MODULE MCCommitteeChain --------------------------
(***************************************************************************)
(* Arguments for newTestProver.                                            *)
(***************************************************************************)
EXTENDS CommitteeChain

CONSTANTS MaxLength, MaxPeriod

Calls == [length : 1 .. MaxLength, periodLength : 1 .. MaxPeriod, workers : 1 .. N]

\* The calls for which no worker without a break is followed by one with; all
\* calls with one worker, which is what the source asks for, are among them.
SafeCalls == {x \in Calls : NoBreakAfterGap(x)}
=============================================================================
