\* Twelve goals with their budgets over the registry of sixteen capabilities.
SPECIFICATION Spec
CONSTANTS
    Registry <- MCRegistry
    Goals <- MCGoals
    HandlerSets <- MCHandlerSets
    GrantSets <- MCGrantSets
INVARIANTS
    AttemptsWithinBudget
    ReadyMeansDelivered
    PlanIsSound
PROPERTY
    ReplanChangesRoute
