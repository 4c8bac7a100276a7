------------------------- MODULE MC_BoundedAutonomy -------------------------
(***************************************************************************)
(* The default registry of ten capabilities, in the order of their ids,    *)
(* with its critic kept out of historical previews and a retrieval that    *)
(* retries a denial, and six more registered next to it:                   *)
(*   - an insight that needs retrieval and declares a fallback that does   *)
(*     not, so that a replan may follow a task that was only skipped;      *)
(*   - a second critic for production, which declares a fallback, retries, *)
(*     and does not declare what critics provide;                          *)
(*   - two capabilities that need each other;                              *)
(*   - a second preflight for shadow runs, which requires something and    *)
(*     does not declare what preflights provide.                           *)
(***************************************************************************)
EXTENDS BoundedAutonomy

AllModes == {"historical_preview", "offline_evaluation", "shadow", "production"}

Capability(module, requires, provides, priority) ==
    [module |-> module, requires |-> requires, provides |-> provides,
     priority |-> priority, modes |-> AllModes, risk |-> "review_only",
     role |-> "ordinary", max_attempts |-> 1, retryable |-> {}, fallbacks |-> {}]

Sourcing(priority) ==
    [Capability(1, <<"policy_context">>, {"source_inventory", "coverage_assessment"}, priority)
        EXCEPT !.max_attempts = 2, !.retryable = {"timeout_error"}]

MCRegistry == <<
    \* 1 module1_privacy_safe_aggregation
    Capability(1, <<"policy_context", "source_inventory">>,
               {"privacy_safe_dataset", "privacy_assessment"}, 30),
    \* 2 module1_provider_source_discovery, 3 module1_public_source_discovery
    [Sourcing(10) EXCEPT !.fallbacks = {3}],
    [Sourcing(20) EXCEPT !.modes = AllModes \ {"production"}],
    \* 4 module2_semantic_retrieval
    [Capability(2, <<"policy_context", "privacy_safe_dataset">>, {"retrieval_evidence"}, 40)
        EXCEPT !.max_attempts = 2, !.retryable = {"transient_model_error", "authorization_denied"}],
    \* 5 module3_cohort_strategy, 6 module4_evolution_review
    Capability(3, <<"policy_context", "retrieval_evidence">>, {"audience_candidates"}, 50),
    Capability(4, <<"policy_context", "audience_candidates">>, {"evolution_assessment"}, 60),
    \* 7 module5_delivery_review
    Capability(5, <<"policy_context", "governed_recommendation">>, {"delivery_review"}, 80),
    \* 8 module5_evidence_critic
    [Capability(5, <<"policy_context">>, {"evidence_critique"}, 10000)
        EXCEPT !.role = "postcondition", !.modes = AllModes \ {"historical_preview"}],
    \* 9 module5_governed_recommendation
    Capability(5, <<"policy_context", "audience_candidates", "evolution_assessment">>,
               {"governed_recommendation"}, 70),
    \* 10 module5_policy_preflight
    [Capability(5, <<>>, {"policy_context"}, 0) EXCEPT !.role = "preflight"],
    \* 11 to 16: registered by the caller
    [Capability(5, <<"policy_context", "retrieval_evidence">>, {"segment_insight"}, 10)
        EXCEPT !.fallbacks = {12}],
    Capability(5, <<"policy_context">>, {"segment_insight"}, 20),
    [Capability(5, <<"policy_context">>, {"delivery_review"}, 10000)
        EXCEPT !.role = "postcondition", !.modes = {"production"}, !.fallbacks = {7},
               !.max_attempts = 2, !.retryable = {"evidence_incomplete"}],
    Capability(4, <<"trend_baseline">>, {"trend_forecast"}, 20),
    Capability(4, <<"trend_forecast">>, {"trend_baseline"}, 20),
    [Capability(5, <<"audience_candidates">>, {"consent_record"}, 0)
        EXCEPT !.role = "preflight", !.modes = {"shadow"}] >>

Goal(outcomes, mode, tasks, attempts, again) ==
    [outcomes |-> outcomes, mode |-> mode, max_tasks |-> tasks,
     max_attempts |-> attempts, max_replans |-> again]

MCGoals == {
    Goal(<<"coverage_assessment">>, "offline_evaluation", 16, 3, 1),
    Goal(<<"coverage_assessment">>, "production", 16, 24, 1),
    Goal(<<"retrieval_evidence">>, "offline_evaluation", 16, 6, 1),
    Goal(<<"delivery_review">>, "offline_evaluation", 8, 24, 1),
    Goal(<<"segment_insight">>, "offline_evaluation", 16, 9, 2),
    Goal(<<"coverage_assessment", "segment_insight">>, "offline_evaluation", 16, 24, 2),
    Goal(<<"retrieval_evidence">>, "production", 16, 6, 1),
    Goal(<<"coverage_assessment">>, "historical_preview", 16, 24, 1),
    Goal(<<"trend_forecast">>, "offline_evaluation", 16, 24, 1),
    Goal(<<"coverage_assessment">>, "shadow", 16, 24, 1),
    Goal(<<"audience_candidates">>, "shadow", 16, 24, 0),
    Goal(<<"consent_record">>, "offline_evaluation", 16, 24, 1) }

MCHandlerSets == {Capabilities, Capabilities \ {4}}
MCGrantSets == {Capabilities, Capabilities \ {1}}
=============================================================================
