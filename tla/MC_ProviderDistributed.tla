------------------------ MODULE MC_ProviderDistributed ------------------------
(***************************************************************************)
(* Instances of ProviderDistributed: one message and overlapping control   *)
(* plane invocations; two messages about the same object.                  *)
(***************************************************************************)
EXTENDS ProviderDistributed

CONSTANTS m1, m2, i1, i2
=============================================================================
