--------------------------- MODULE MCStoreCleanup ---------------------------
(***************************************************************************)
(* An instance of StoreCleanup for TLC.                                    *)
(***************************************************************************)
EXTENDS StoreCleanup

\* DEFAULT_RETENTION_POLICY, confirmed.
Default ==
    [ mode |-> "derived_artifacts_only", dry_run |-> FALSE, confirm_cleanup |-> TRUE,
      delete_reports |-> TRUE, delete_artifact_index |-> TRUE, delete_temp_files |-> TRUE,
      delete_empty_dirs |-> TRUE, delete_expired_approval_packs |-> FALSE,
      delete_run_dirs |-> FALSE, max_report_age_days |-> Old, max_temp_age_days |-> Old,
      protect_states |-> {"WAITING_FOR_EXECUTE", "EXECUTING_PENDING", "FAILED_VALIDATION",
                          "FAILED_EXECUTION", "FAILED_COMPLETION"},
      protect_live_execution |-> TRUE, protect_pending_actions |-> TRUE,
      protect_ready_approval_packs |-> TRUE ]

\* Everything a policy may delete, at any age, from what is not protected by its actions.
Eager == [Default EXCEPT !.delete_expired_approval_packs = TRUE, !.max_report_age_days = Fresh,
                         !.protect_states = {}]

DryRun == [Eager EXCEPT !.dry_run = TRUE]

MCPolicies == {Default, Eager, DryRun}

\* Taken in; staged; executed live; done, with and without a dry execution; failed.
MCSaved ==
    { [state |-> q[1], pending |-> q[2], executed |-> q[3]] : q \in
        { <<"CREATED", FALSE, FALSE>>, <<"WAITING_FOR_EXECUTE", TRUE, FALSE>>,
          <<"COMPLETED", FALSE, FALSE>>, <<"COMPLETED", TRUE, TRUE>>,
          <<"FAILED_EXECUTION", FALSE, FALSE>> } }

\* A second cleanup or backup is looked at as long as a backup is at work: with the eager
\* policy, on frames that nothing protects, without reports and without a crash.
Unprotected(s) ==
    s = NoFile \/ (s.state \in {"CREATED", "COMPLETED"} /\ ~s.pending /\ ~s.executed)

TwoWithBackup ==
    count.maintenance = 2 =>
        /\ backup.pc = "copy"
        /\ count.crashes = 0 /\ count.reports = 0
        /\ clean.pc = "idle" \/ clean.policy = Eager
        /\ \A f \in Frame : Unprotected(taskframe[f]) /\ Unprotected(save[f].next)
=============================================================================
