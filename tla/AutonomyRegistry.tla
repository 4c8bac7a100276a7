-------------------------- MODULE AutonomyRegistry --------------------------
(***************************************************************************)
(* The capability registry of the bounded autonomy kernel                  *)
(* (production_bounded_autonomy_service.py): what each capability needs,   *)
(* provides and may be used for, and the registry's queries.               *)
(*                                                                         *)
(* Capabilities are numbered in the order of their ids, so that sorting by *)
(* id is sorting by number.                                                *)
(***************************************************************************)
EXTENDS Naturals, Sequences

CONSTANT Registry   \* the descriptor of each registered capability

Capabilities == DOMAIN Registry

Roles == {"preflight", "ordinary", "postcondition"}

Required(c) == {Registry[c].requires[i] : i \in DOMAIN Registry[c].requires}

\* What the contract demands of a descriptor.
DescriptorValid(c) ==
    /\ Registry[c].role \in Roles
    /\ Registry[c].max_attempts \in 1 .. 10
    /\ Registry[c].requires \in Seq(STRING)
    /\ Registry[c].provides \subseteq STRING

\* validate(): a fallback is registered and has an outcome in common.
FallbacksValid(c) ==
    \A f \in Registry[c].fallbacks :
        f \in Capabilities /\ Registry[f].provides \cap Registry[c].provides # {}

ASSUME RegistryAssumption ==
    \A c \in Capabilities : DescriptorValid(c) /\ FallbacksValid(c)

InRole(role, mode) ==
    {c \in Capabilities : Registry[c].role = role /\ mode \in Registry[c].modes}

\* Mutants: the modes are not looked at; the exclusions are not.
ProducersInAnyMode(outcome, mode, excluded) ==
    {c \in Capabilities \ excluded :
        /\ outcome \in Registry[c].provides
        /\ Registry[c].role # "postcondition"
        /\ Registry[c].risk # "production_effect"}

ProducersAgain(outcome, mode, excluded) ==
    {c \in Capabilities :
        /\ outcome \in Registry[c].provides
        /\ mode \in Registry[c].modes
        /\ Registry[c].role # "postcondition"
        /\ Registry[c].risk # "production_effect"}

Producers(outcome, mode, excluded) ==
    {c \in Capabilities \ excluded :
        /\ outcome \in Registry[c].provides
        /\ mode \in Registry[c].modes
        /\ Registry[c].role # "postcondition"
        /\ Registry[c].risk # "production_effect"}

=============================================================================
