\* Two workers, two crashes, one transient error and one outrun lease; a request
\* that a stage with a quarantined row or one without rejects, or none does.
CONSTANTS
  Workers = {w1, w2}
  None = none
  MayBreak = {"building_features", "analyzing_overlap"}
  MaxCrashes = 2
  MaxErrors = 1
  MaxDelays = 1
SPECIFICATION FairSpec
INVARIANTS PipelineIsExclusive ReviewIsBacked HolderIsCurrent
PROPERTIES NeverBackwards KeepsItsPromises WorkflowConcludes
CHECK_DEADLOCK FALSE
