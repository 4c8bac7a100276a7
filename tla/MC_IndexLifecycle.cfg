\* Safety and termination of switches with two operators over three versions.
SPECIFICATION FairSpec
CONSTANTS
    None = None
    Operators = {o1, o2}
    Manifests <- MCManifests
    VersionOf <- MCVersionOf
    ForProduction <- MCForProduction
INVARIANTS
    OneActive
    ServedWasValidated
    TrailFollows
PROPERTIES
    ServingContinues
    SwitchEnds
\* The lifecycle ends when every version has failed validation.
CHECK_DEADLOCK FALSE
