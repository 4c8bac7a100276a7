------------------------ MODULE MC_FreshDataWorkflow ------------------------
(* Small instances of FreshDataWorkflow for TLC.                           *)
EXTENDS FreshDataWorkflow

=============================================================================
