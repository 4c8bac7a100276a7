-------------------------- MODULE MC_PrivacyWindow --------------------------
(***************************************************************************)
(* A window of two partitions: deliveries a (partition p0) and b (p1), and *)
(* the correction c of a.                                                  *)
(***************************************************************************)
EXTENDS PrivacyWindow

CONSTANTS a, b, c, p0, p1, q1, q2

MCPartitionOf == [f \in Deliveries |-> IF f = b THEN p1 ELSE p0]
MCSupersedes == [f \in Deliveries |-> IF f = c THEN a ELSE None]
=============================================================================
