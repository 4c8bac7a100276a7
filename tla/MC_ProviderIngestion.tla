------------------------ MODULE MC_ProviderIngestion ------------------------
(***************************************************************************)
(* Instances of ProviderIngestion: one provider object, so that every      *)
(* message is about it.                                                    *)
(***************************************************************************)
EXTENDS ProviderIngestion, TLC

CONSTANTS w1, w2, o1, m1, m2, r1

MCObjectOf == [m \in Messages |-> o1]

\* Workers are interchangeable; used where only safety is checked.
WorkerSymmetry == Permutations(Workers)
=============================================================================
