------------------------- MODULE MC_AudienceApproval -------------------------
(***************************************************************************)
(* Two runs and two requests.  The budget is one unit short of what the    *)
(* two approvals together spend, and leaves room to charge the first run   *)
(* twice.                                                                  *)
(***************************************************************************)
EXTENDS AudienceApproval, TLC

CONSTANTS c1, c2, r1, r2

MCEpsilon == [r \in Runs |-> IF r = r1 THEN 1 ELSE 2]

ClientSymmetry == Permutations(Clients)
=============================================================================
