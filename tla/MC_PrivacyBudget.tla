-------------------------- MODULE MC_PrivacyBudget --------------------------
(***************************************************************************)
(* Two callers and five releases: in scope s1 the window group g1 with     *)
(* partition p0 dispatched twice (a0, b0) and partition p1 once (a1), a    *)
(* release of another group of s1 (x0), and one of another scope whose     *)
(* window has the same identifier (y0).                                    *)
(***************************************************************************)
EXTENDS PrivacyBudget, TLC

CONSTANTS c1, c2, a0, b0, a1, x0, y0, s1, s2, g1, g2, p0, p1,
          MaxReleases  \* bound on the releases of one behaviour

MCScopeOf == [r \in Releases |-> IF r = y0 THEN s2 ELSE s1]
MCGroupOf == [r \in Releases |-> IF r = x0 THEN g2 ELSE g1]
MCPartitionOf == [r \in Releases |-> IF r = a1 THEN p1 ELSE p0]
MCBudget == [s \in Scopes |-> IF s = s1 THEN 4 ELSE 2]

\* a0 and b0 are two attempts of the same partition.
MCSymmetry == Permutations(Callers) \cup Permutations({a0, b0})

Requested ==
  {r \in Releases : decision[r] # "none" \/ \E c \in Callers : release[c] = r}

FewReleases == Cardinality(Requested) <= MaxReleases
=============================================================================
