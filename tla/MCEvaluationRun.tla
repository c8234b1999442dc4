--------------------------- MODULE MCEvaluationRun --------------------------
(* EvaluationRun with every protocol of the frozen benchmark, in any order.    *)
EXTENDS EvaluationRun

\* The pairs of its gold manifest, without the lookups.
MCKinds ==
    [protocol : {"setup_then_run", "single_run", "waiting_confirmation_resume",
                 "same_request_replay", "response_loss_reconcile"},
     mode : {"issue_create"}] \cup
    [protocol : {"single_run", "authorization_denial", "unscorable"}, mode : {"qa"}]
=============================================================================
