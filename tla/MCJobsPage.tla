---------------------------- MODULE MCJobsPage ----------------------------
(* What users fill in: each cron, both operations, a form that is not complete. *)
EXTENDS JobsPage

Form(operation, sources, targets, cron, enabled, once) ==
  [operation |-> operation, sources |-> sources, targets |-> targets,
   cron |-> cron, enabled |-> enabled, delete_on_success |-> once]

Filled == {Form("copy", TRUE, FALSE, "weekly", TRUE, TRUE),
           Form("copy", TRUE, FALSE, NoCron, TRUE, FALSE),
           Form("delete", TRUE, FALSE, "weekly", TRUE, FALSE),
           Form("delete", FALSE, TRUE, "seven", TRUE, FALSE)}
=============================================================================
