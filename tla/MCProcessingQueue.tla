------------------------- MODULE MCProcessingQueue -------------------------
(***************************************************************************)
(* Small instances of the processing queue for TLC: records and batch      *)
(* invocations are model values, and the six stages are shortened to those *)
(* whose position matters (on-device reading, the online stage, validate). *)
(***************************************************************************)
EXTENDS ProcessingQueue

\* Batches over the whole queue, while the operator retries, re-processes and
\* cancels but moves no record by hand.
AttendedNext ==
    \/ \E l \in Loop : RunnerStep(l) \/ Interrupted(l)
    \/ StartAll
    \/ \E r \in Record : Enqueue(r) \/ Requeue(r) \/ Retry(r)
    \/ RetryRefused \/ Cancel \/ Crash
    \/ Tick

AttendedSpec == Init /\ [][AttendedNext]_vars /\ Fairness

=============================================================================
