------------------------- MODULE MC_FreshDataTrigger -------------------------
(* Small instances of FreshDataTrigger for TLC.                            *)
EXTENDS FreshDataTrigger

\* Three good deliveries and a bad one, completed in any order.
Four == 1 .. 4
=============================================================================
