-------------------------- MODULE ProcessingQueue --------------------------
(***************************************************************************)
(* The durable processing queue of the capture app: the queue's state      *)
(* changes (ProcessingQueueWrites), the batch loop that drives them        *)
(* (ProcessingController.process over JobRunner.run), the validate stage's *)
(* status move, the operator's retries, and the recycle bin moves that     *)
(* race with a run.                                                        *)
(*                                                                         *)
(* A record has at most one job, so a job is named by its record.  One     *)
(* database transaction is one action; the awaits between transactions     *)
(* are the interleaving points.  Instants are kept as the ticks that       *)
(* remain: a retry instant has passed when its wait is 0, and a lease is   *)
(* ahead of the clock while above 1, at it at 1 and behind it at 0.        *)
(***************************************************************************)
EXTENDS Naturals, SequencesExt

CONSTANTS
    Record,         \* captured records
    Loop,           \* invocations of ProcessingController.process
    LastStage,      \* JobStage.values is 1..LastStage; 0 is "no stage yet"
    OnDevice,       \* the stage background reading stops after
    Online,         \* the stage that may be declined or capped
    Concurrency,    \* SettingKeys.aiConcurrency
    MaxAttempts,    \* AppConstants.processing.maxAttempts
    Lease,          \* AppConstants.processing.jobLease, in ticks
    BackoffCap,     \* AppConstants.processing.backoffCapMs, in ticks
    MaxGen,         \* bound: operator retries of one job
    MaxDisturb      \* bound: crashes, cancels and other interruptions

ASSUME QueueConstants ==
    /\ Record # {} /\ IsFiniteSet(Record)
    /\ Loop # {}
    /\ LastStage \in Nat \ {0}
    /\ OnDevice \in 1..LastStage
    /\ Online \in 1..LastStage
    /\ Concurrency \in Nat \ {0}
    /\ MaxAttempts \in Nat \ {0}
    /\ Lease \in Nat \ {0}
    /\ BackoffCap \in Nat \ {0}
    /\ MaxGen \in Nat
    /\ MaxDisturb \in Nat

VARIABLES
    job,        \* processing_jobs, by record
    order,      \* records with a job, oldest queued_at first
    rec,        \* records.status, its tombstone and its status before deletion
    run,        \* the local state of each process() invocation
    isRunning,  \* ProcessingBatchState.isRunning
    token,      \* ProcessingController._token: the invocation that made it
    cancelled,  \* CancellationToken.isCancelled
    listed,     \* jobs some failures list has shown
    disturb     \* interruptions so far (bound)

vars == <<job, order, rec, run, isRunning, token, cancelled, listed, disturb>>

RecordStatus == {"draft", "captured", "queued", "processing", "extracted",
                 "needsReview", "approved", "failed", "archived", "deleted"}

\* RecordLifecycle._forward; archived and deleted derived as _build does.
Forward ==
    [draft |-> {"captured", "queued", "needsReview", "archived", "deleted"},
     captured |-> {"queued", "processing", "extracted", "needsReview",
                   "failed", "archived", "deleted"},
     queued |-> {"processing", "captured", "failed", "archived", "deleted"},
     processing |-> {"extracted", "needsReview", "failed", "queued"},
     extracted |-> {"needsReview", "approved", "queued", "archived",
                    "deleted"},
     needsReview |-> {"approved", "queued", "archived", "deleted"},
     approved |-> {"needsReview", "queued", "archived", "deleted"},
     failed |-> {"queued", "needsReview", "archived", "deleted"}]

TargetsFrom(from) ==
    CASE from = "archived" -> {s \in DOMAIN Forward : "archived" \in Forward[s]}
                                \cup {"deleted"}
      [] from = "deleted"  -> {s \in DOMAIN Forward : "deleted" \in Forward[s]}
                                \cup {"archived"}
      [] OTHER             -> Forward[from]

RestoreTarget(previous) ==
    IF previous \in TargetsFrom("deleted") THEN previous ELSE "needsReview"

RequeueFrom == {"draft", "captured", "extracted", "needsReview", "approved",
                "failed"}
FailFrom == {"captured", "queued", "processing"}

JobStatus == {"none", "queued", "running", "completed", "failed"}

NoJob == [status |-> "none", stage |-> 0, attempts |-> 0, gen |-> 0,
          wait |-> 0, lease |-> 0]

FreshJob == [NoJob EXCEPT !.status = "queued"]

HasJob(r) == job[r].status # "none"

LiveRecord(r) == rec[r].status # "deleted" /\ ~rec[r].tomb

\* Mutant: one attempt too many.
SpentTooLate(attempts) == attempts > MaxAttempts

\* JobRetry.classify and fail: the attempt that reaches the cap is the last.
Spent(attempts) == attempts >= MaxAttempts

\* JobRetry.backoffFor: doubles from one tick, capped, and never below one.
BackoffFor(attempt) ==
    LET ticks == 2 ^ (attempt - 1)
    IN  IF ticks > BackoffCap THEN BackoffCap ELSE IF ticks < 1 THEN 1 ELSE ticks

\* held is the runner's copy of its job's row, tries the attempts it claimed
\* the job with, tok the batch whose token the runner was given.
Idle == [pc |-> "idle", r |-> CHOOSE r \in Record : TRUE, held |-> NoJob,
         tries |-> 0, s |-> 1, stop |-> FALSE, only |-> {},
         tok |-> CHOOSE l \in Loop : TRUE, skip |-> {}]

Pc == {"idle", "enqueue", "claim", "stage", "perform", "persist", "pause",
       "complete", "transient", "permanent", "cancel", "await"}

\* Types, and that a record has one place in the queue exactly when it has a
\* job, however batches, saves and re-processing interleave.
TypeOK ==
    /\ \A r \in Record :
         /\ job[r].status \in JobStatus
         /\ job[r].stage \in 0..LastStage
         /\ job[r].attempts \in Nat
         /\ job[r].gen \in 0..MaxGen
         /\ job[r].wait \in 0..BackoffCap
         /\ job[r].lease \in 0..(Lease + 1)
         /\ rec[r].status \in RecordStatus
         /\ rec[r].tomb \in BOOLEAN
         /\ rec[r].before \in RecordStatus
    /\ ToSet(order) = {r \in Record : HasJob(r)}
    /\ IsInjective(order)
    /\ \A l \in Loop :
         /\ run[l].pc \in Pc
         /\ run[l].r \in Record
         /\ run[l].held.gen \in 0..MaxGen
         /\ run[l].held.stage \in 0..LastStage
         /\ run[l].s \in 1..(LastStage + 1)
         /\ run[l].tok \in Loop
    /\ isRunning \in BOOLEAN
    /\ token \in Loop
    /\ cancelled \in [Loop -> BOOLEAN]
    /\ listed \subseteq Record
    /\ disturb \in 0..MaxDisturb

Init ==
    /\ job = [r \in Record |-> NoJob]
    /\ order = <<>>
    /\ rec = [r \in Record |-> [status |-> "captured", tomb |-> FALSE,
                                before |-> "captured"]]
    /\ run = [l \in Loop |-> Idle]
    /\ isRunning = FALSE
    /\ token = CHOOSE l \in Loop : TRUE
    /\ cancelled = [l \in Loop |-> FALSE]
    /\ listed = {}
    /\ disturb = 0

Disturbs == disturb < MaxDisturb /\ disturb' = disturb + 1

\* A record has at most one place in the queue.
Without(s, r) ==
    IF r \in ToSet(s) THEN RemoveAt(s, CHOOSE i \in DOMAIN s : s[i] = r) ELSE s

-----------------------------------------------------------------------------
\* The queue's transactions

\* Mutant: an expired lease is never taken back.
NothingReleased == job

\* _releaseExpired, the first statement of every claim.
ReleasedExpired ==
    [r \in Record |->
       IF job[r].status = "running" /\ job[r].lease = 0
       THEN [job[r] EXCEPT !.status = "queued", !.wait = 0]
       ELSE job[r]]

\* The jobs a claim of run l may take, once expired leases are released.
Candidates(l, jobs) ==
    {r \in Record :
       /\ jobs[r].status = "queued"
       /\ jobs[r].wait = 0
       /\ run[l].only = {} \/ r \in run[l].only
       /\ r \notin run[l].skip
       /\ run[l].stop => jobs[r].stage < OnDevice}

\* The claim orders by queued_at: r is the one of the set that waits longest.
Oldest(r, set) ==
    \E i \in 1..Len(order) :
        /\ order[i] = r
        /\ \A k \in 1..(i - 1) : order[k] \notin set

\* queries.count(running): jobs of deleted records are not counted.
RunningCount(jobs) ==
    Cardinality({r \in Record : jobs[r].status = "running" /\ LiveRecord(r)})

Claim(l) ==
    /\ run[l].pc = "claim"
    /\ ~cancelled[token]
    /\ LET jobs == ReleasedExpired
           ready == Candidates(l, jobs)
       IN  IF RunningCount(jobs) >= Concurrency \/ ready = {}
           THEN /\ job' = jobs
                /\ run' = [run EXCEPT ![l] = Idle]
                /\ isRunning' = FALSE
           ELSE \E r \in ready :
                    /\ Oldest(r, ready)
                    /\ job' = [jobs EXCEPT ![r].status = "running",
                                           ![r].lease = Lease + 1]
                    /\ run' = [run EXCEPT ![l] =
                                 [@ EXCEPT !.pc = "stage", !.r = r,
                                           !.held = job'[r],
                                           !.tries = jobs[r].attempts,
                                           !.s = 1, !.tok = token]]
                    /\ UNCHANGED isRunning
    /\ UNCHANGED <<order, rec, token, cancelled, listed, disturb>>

\* The cancelled batch leaves its loop before it claims again.
LeaveLoop(l) ==
    /\ run[l].pc = "claim"
    /\ cancelled[token]
    /\ run' = [run EXCEPT ![l] = Idle]
    /\ isRunning' = FALSE
    /\ UNCHANGED <<job, order, rec, token, cancelled, listed, disturb>>

\* _checkGeneration: the attempt was not replaced by an operator retry.
Current(l) == job[run[l].r].gen = run[l].held.gen

MovedRecord(r, from, to) ==
    IF rec[r].status \in from THEN [rec EXCEPT ![r].status = to] ELSE rec

Released(j) == [j EXCEPT !.status = "queued", !.lease = 0]

\* Back at the top of the loop, where a job's locals are gone.
NextClaim(l) ==
    run' = [run EXCEPT ![l] = [Idle EXCEPT !.pc = "claim", !.only = run[l].only,
                                           !.stop = run[l].stop,
                                           !.tok = run[l].tok,
                                           !.skip = run[l].skip]]

EndsBatch(l) ==
    /\ run' = [run EXCEPT ![l] = Idle]
    /\ isRunning' = FALSE

\* Mutant: complete without the generation check.
CompleteUnchecked(l) ==
    /\ run[l].pc = "complete"
    /\ job' = [job EXCEPT ![run[l].r].status = "completed",
                          ![run[l].r].lease = 0]
    /\ NextClaim(l)
    /\ UNCHANGED <<order, rec, isRunning, token, cancelled, listed, disturb>>

\* complete: a superseded attempt is caught as cancelled and released instead.
Complete(l) ==
    /\ run[l].pc = "complete"
    /\ IF Current(l)
       THEN /\ job' = [job EXCEPT ![run[l].r].status = "completed",
                                  ![run[l].r].lease = 0]
            /\ NextClaim(l)
       ELSE /\ run' = [run EXCEPT ![l].pc = "cancel"]
            /\ UNCHANGED job
    /\ UNCHANGED <<order, rec, isRunning, token, cancelled, listed, disturb>>

\* fail: one attempt spent; the job stops or waits out its backoff.
Fail(l) ==
    /\ run[l].pc \in {"transient", "permanent"}
    /\ NextClaim(l)
    /\ LET r == run[l].r
           attempts == job[r].attempts + 1
           stop == \/ run[l].pc = "permanent"
                   \/ Spent(run[l].tries + 1)
                   \/ Spent(attempts)
           failed == [job[r] EXCEPT
                        !.status = IF stop THEN "failed" ELSE "queued",
                        !.attempts = attempts,
                        !.wait = IF stop THEN 0 ELSE BackoffFor(attempts),
                        !.lease = 0]
       IN  IF ~Current(l)
           THEN UNCHANGED <<job, rec, listed>>
           ELSE /\ job' = [job EXCEPT ![r] = failed]
                /\ rec' = IF stop THEN MovedRecord(r, FailFrom, "failed")
                                  ELSE rec
                /\ listed' = IF stop THEN listed \cup {r} ELSE listed
    /\ UNCHANGED <<order, isRunning, token, cancelled, disturb>>

\* release: back to the queue with the completed stages kept; what follows
\* in the loop depends on why the run stopped.
Release(l) ==
    /\ run[l].pc \in {"cancel", "pause", "await"}
    /\ job' = IF Current(l)
              THEN [job EXCEPT ![run[l].r] = Released(@)]
              ELSE job
    /\ \/ /\ run[l].pc = "cancel" \/ (run[l].pc = "pause" /\ ~Current(l))
          /\ EndsBatch(l)
       \/ /\ run[l].pc = "pause" /\ Current(l)
          /\ NextClaim(l)
          /\ UNCHANGED isRunning
       \/ /\ run[l].pc = "await"
          /\ NextClaim(l)
          /\ UNCHANGED isRunning
    /\ UNCHANGED <<order, rec, token, cancelled, listed, disturb>>

-----------------------------------------------------------------------------
\* The batch loop (ProcessingController.process) and JobRunner.run

\* A loop name is free again once no runner still holds its token.
Free(l) ==
    /\ run[l].pc = "idle"
    /\ \A k \in Loop \ {l} : run[k].pc # "idle" => run[k].tok # l

\* process: refused while a batch runs. only is the record scope of a
\* single-record run, stop the on-device-only batch of background reading.
Start(l, only, stop) ==
    /\ ~isRunning
    /\ Free(l)
    /\ isRunning' = TRUE
    /\ token' = l
    /\ cancelled' = [cancelled EXCEPT ![l] = FALSE]
    /\ run' = [run EXCEPT ![l] =
                 [Idle EXCEPT !.pc = IF only = {} THEN "enqueue" ELSE "claim",
                              !.only = only, !.stop = stop, !.tok = l]]
    /\ UNCHANGED <<job, order, rec, listed, disturb>>

\* Mutant: records that already have a job are queued again.
EnqueueAgain(l) ==
    /\ run[l].pc = "enqueue"
    /\ LET pending == {r \in Record : rec[r].status = "captured"}
       IN  /\ job' = [r \in Record |->
                        IF r \in pending THEN FreshJob ELSE job[r]]
           /\ \E q \in SetToSeqs(pending) : order' = order \o q
    /\ run' = [run EXCEPT ![l].pc = "claim"]
    /\ UNCHANGED <<rec, isRunning, token, cancelled, listed, disturb>>

\* enqueuePending: every captured record that has no job gets one.  They are
\* queued at one instant, so nothing orders them among themselves.
EnqueuePending(l) ==
    /\ run[l].pc = "enqueue"
    /\ LET pending == {r \in Record : rec[r].status = "captured" /\ ~HasJob(r)}
       IN  /\ job' = [r \in Record |->
                        IF r \in pending THEN FreshJob ELSE job[r]]
           /\ \E q \in SetToSeqs(pending) : order' = order \o q
    /\ run' = [run EXCEPT ![l].pc = "claim"]
    /\ UNCHANGED <<rec, isRunning, token, cancelled, listed, disturb>>

\* A storage error while queueing or claiming ends the batch.
StoreFails(l) ==
    /\ run[l].pc \in {"enqueue", "claim"}
    /\ Disturbs
    /\ EndsBatch(l)
    /\ UNCHANGED <<job, order, rec, token, cancelled, listed>>

StopsAfter(l, s) == run[l].stop /\ s = OnDevice /\ s # LastStage

\* The top of the stage loop: a cancelled token releases the job, a stage
\* already completed is passed over, and any other is performed.
NextStage(l) ==
    /\ run[l].pc = "stage"
    /\ LET s == run[l].s
       IN  \/ /\ s > LastStage
              /\ run' = [run EXCEPT ![l].pc = "complete"]
           \/ /\ s <= LastStage
              /\ cancelled[run[l].tok]
              /\ run' = [run EXCEPT ![l].pc = "cancel"]
           \/ /\ s <= LastStage
              /\ ~cancelled[run[l].tok]
              /\ run' = [run EXCEPT ![l] =
                   IF s > run[l].held.stage THEN [@ EXCEPT !.pc = "perform"]
                   ELSE IF StopsAfter(l, s) THEN [@ EXCEPT !.pc = "pause"]
                   ELSE [@ EXCEPT !.s = s + 1]]
    /\ UNCHANGED <<job, order, rec, isRunning, token, cancelled, listed,
                   disturb>>

\* Mutant: validate writes the record without requiring its generation.
PerformOkUnfenced(l) ==
    /\ run[l].pc = "perform"
    /\ run' = [run EXCEPT ![l].pc = "persist"]
    /\ IF run[l].s = LastStage
       THEN rec' = [rec EXCEPT ![run[l].r].status = "extracted"]
       ELSE UNCHANGED rec
    /\ UNCHANGED <<job, order, isRunning, token, cancelled, listed, disturb>>

\* A stage succeeds.  Only validate, the last one, writes the record: it
\* requires its own generation and an uncancelled batch, and sets the status.
PerformOk(l) ==
    /\ run[l].pc = "perform"
    /\ Current(l)
    /\ run[l].s = LastStage => ~cancelled[token]
    /\ run' = [run EXCEPT ![l].pc = "persist"]
    /\ IF run[l].s = LastStage
       THEN \E to \in {"extracted", "needsReview"} :
              rec' = [rec EXCEPT ![run[l].r].status = to]
       ELSE UNCHANGED rec
    /\ UNCHANGED <<job, order, isRunning, token, cancelled, listed, disturb>>

\* A stage throws: a transient or a permanent failure, or a cancellation
\* because the batch was cancelled or the attempt was replaced.
PerformThrows(l) ==
    /\ run[l].pc = "perform"
    /\ \/ run' = [run EXCEPT ![l].pc = "transient"]
       \/ run' = [run EXCEPT ![l].pc = "permanent"]
       \/ /\ ~Current(l) \/ cancelled[token]
          /\ run' = [run EXCEPT ![l].pc = "cancel"]
    /\ UNCHANGED <<job, order, rec, isRunning, token, cancelled, listed,
                   disturb>>

\* OnlineBudget.require at the daily cap: the job goes back on the queue,
\* then the cancellation it throws releases it once more.
BudgetStops(l) ==
    /\ run[l].pc = "perform"
    /\ run[l].s = Online
    /\ Current(l)
    /\ Disturbs
    /\ job' = [job EXCEPT ![run[l].r] = Released(@)]
    /\ run' = [run EXCEPT ![l].pc = "cancel"]
    /\ UNCHANGED <<order, rec, isRunning, token, cancelled, listed>>

\* The operator declines to go online: the whole claimed snapshot is saved
\* with a skip reason, and the stage counts as done.
DeclineOnline(l) ==
    /\ run[l].pc = "perform"
    /\ run[l].s = Online
    /\ Current(l)
    /\ job' = [job EXCEPT ![run[l].r] = run[l].held]
    /\ run' = [run EXCEPT ![l].pc = "persist"]
    /\ UNCHANGED <<order, rec, isRunning, token, cancelled, listed, disturb>>

\* Detection needs a template choice: with no one to ask the job is set
\* aside; an operator who skips the question cancels the batch.
NeedsTemplate(l) ==
    /\ run[l].pc = "perform"
    /\ Disturbs
    /\ \/ /\ run' = [run EXCEPT ![l].pc = "await",
                                ![l].skip = @ \cup {run[l].r}]
          /\ UNCHANGED cancelled
       \/ /\ run' = [run EXCEPT ![l].pc = "cancel"]
          /\ cancelled' = [cancelled EXCEPT ![token] = TRUE]
    /\ UNCHANGED <<job, order, rec, isRunning, token, listed>>

\* markStage: the stage is stored before the next one starts.
Persist(l) ==
    /\ run[l].pc = "persist"
    /\ LET s == run[l].s
           r == run[l].r
           stops == StopsAfter(l, s)
       IN  IF Current(l)
           THEN /\ job' = [job EXCEPT ![r].stage = s]
                /\ run' = [run EXCEPT
                     ![l].pc = IF stops THEN "pause" ELSE "stage",
                     ![l].s = IF stops THEN s ELSE s + 1,
                     ![l].held = job'[r]]
           ELSE /\ run' = [run EXCEPT ![l].pc = "cancel"]
                /\ UNCHANGED job
    /\ UNCHANGED <<order, rec, isRunning, token, cancelled, listed, disturb>>

-----------------------------------------------------------------------------
\* The operator, the record lifecycle and the machine

\* enqueue: a record saved for processing gets a job once.
Enqueue(r) ==
    /\ rec[r].status = "captured"
    /\ ~HasJob(r)
    /\ job' = [job EXCEPT ![r] = FreshJob]
    /\ order' = Append(order, r)
    /\ UNCHANGED <<rec, run, isRunning, token, cancelled, listed, disturb>>

\* requeue: from the first stage again, unless a live lease holds the job.
Requeue(r) ==
    /\ rec[r].status \in RequeueFrom \cup {"queued"}
    /\ ~(job[r].status = "running" /\ job[r].lease > 1)
    /\ job[r].gen < MaxGen
    /\ job' = [job EXCEPT ![r] =
                 IF HasJob(r) THEN [FreshJob EXCEPT !.gen = job[r].gen + 1]
                              ELSE FreshJob]
    /\ order' = Append(Without(order, r), r)
    /\ rec' = MovedRecord(r, RequeueFrom, "queued")
    /\ UNCHANGED <<run, isRunning, token, cancelled, listed, disturb>>

Retried(j) == [j EXCEPT !.status = "queued", !.attempts = 0, !.wait = 0,
                        !.lease = 0, !.gen = j.gen + 1]

\* retry from a failures list, which may be older than the job's state.
Retry(r) ==
    /\ r \in listed
    /\ job[r].gen < MaxGen
    /\ job' = [job EXCEPT ![r] = Retried(@)]
    /\ rec' = MovedRecord(r, {"failed"}, "queued")
    /\ UNCHANGED <<order, run, isRunning, token, cancelled, listed, disturb>>

\* A retry that storage refuses replaces the whole batch state, isRunning
\* included, whatever batch is in progress.
RetryRefused ==
    /\ listed # {}
    /\ isRunning
    /\ Disturbs
    /\ isRunning' = FALSE
    /\ UNCHANGED <<job, order, rec, run, token, cancelled, listed>>

\* cancel: by the operator, a resume, a lost network or an unplugged charger.
Cancel ==
    /\ ~cancelled[token]
    /\ \E l \in Loop : run[l].pc # "idle"
    /\ Disturbs
    /\ cancelled' = [cancelled EXCEPT ![token] = TRUE]
    /\ UNCHANGED <<job, order, rec, run, isRunning, token, listed>>

\* The app is killed and started again: only the tables survive.
Crash ==
    /\ \E l \in Loop : run[l].pc # "idle"
    /\ Disturbs
    /\ run' = [l \in Loop |-> Idle]
    /\ isRunning' = FALSE
    /\ cancelled' = [l \in Loop |-> FALSE]
    /\ listed' = {r \in Record : job[r].status = "failed"}
    /\ UNCHANGED <<job, order, rec, token>>

\* RecordWrites.transition, for the moves an operator makes by hand.
Transition(r, to) ==
    /\ rec[r].status # "deleted"
    /\ to \in TargetsFrom(rec[r].status)
    /\ rec' = [rec EXCEPT ![r].status = to]
    /\ Disturbs
    /\ UNCHANGED <<job, order, run, isRunning, token, cancelled, listed>>

\* moveToBin: status and tombstone in one transaction.
MoveToBin(r) ==
    /\ "deleted" \in TargetsFrom(rec[r].status) \ {rec[r].status}
    /\ rec' = [rec EXCEPT ![r] = [status |-> "deleted", tomb |-> TRUE,
                                  before |-> rec[r].status]]
    /\ Disturbs
    /\ UNCHANGED <<job, order, run, isRunning, token, cancelled, listed>>

\* restore: the tombstone lifted, the audited previous status back.
Restore(r) ==
    /\ rec[r].status = "deleted"
    /\ rec' = [rec EXCEPT ![r].status = RestoreTarget(rec[r].before),
                          ![r].tomb = FALSE, ![r].before = "captured"]
    /\ UNCHANGED <<job, order, run, isRunning, token, cancelled, listed,
                   disturb>>

Down(n) == IF n = 0 THEN 0 ELSE n - 1

Later(j) == [j EXCEPT !.wait = Down(@), !.lease = Down(@)]

Tick ==
    /\ \/ \E r \in Record : job[r].wait > 0 \/ job[r].lease > 0
       \/ \E l \in Loop : run[l].held.lease > 0
    /\ job' = [r \in Record |-> Later(job[r])]
    /\ run' = [l \in Loop |-> [run[l] EXCEPT !.held = Later(@)]]
    /\ UNCHANGED <<order, rec, isRunning, token, cancelled, listed, disturb>>

RunnerStep(l) ==
    \/ EnqueuePending(l) \/ Claim(l) \/ LeaveLoop(l) \/ NextStage(l)
    \/ PerformOk(l) \/ PerformThrows(l) \/ DeclineOnline(l) \/ Persist(l)
    \/ Complete(l) \/ Fail(l) \/ Release(l)

Interrupted(l) == StoreFails(l) \/ BudgetStops(l) \/ NeedsTemplate(l)

StartAny ==
    \E l \in Loop, only \in {{}} \cup {{r} : r \in Record}, stop \in BOOLEAN :
        Start(l, only, stop)

StartAll == \E l \in Loop : Start(l, {}, FALSE)

Operator ==
    \/ \E r \in Record : Enqueue(r) \/ Requeue(r) \/ Retry(r)
                           \/ MoveToBin(r) \/ Restore(r)
    \/ \E r \in Record, to \in {"needsReview", "approved"} : Transition(r, to)
    \/ RetryRefused \/ Cancel \/ Crash

Next ==
    \/ \E l \in Loop : RunnerStep(l) \/ Interrupted(l)
    \/ StartAny
    \/ Operator
    \/ Tick

Spec == Init /\ [][Next]_vars

-----------------------------------------------------------------------------
\* Properties

\* Fairness: the awaited futures of a runner resolve (the network ones have
\* timeouts), the clock moves, and batches over the whole queue keep being
\* started: by the operator, or by a connection gain while in the background.
Fairness ==
    /\ \A l \in Loop : WF_vars(RunnerStep(l))
    /\ SF_vars(StartAll)
    /\ WF_vars(Tick)

FairSpec == Spec /\ Fairness

Working(l, r) ==
    /\ run[l].r = r
    /\ run[l].pc \in {"stage", "perform", "persist", "pause", "complete",
                      "transient", "permanent", "cancel", "await"}

\* While batches do not overlap, a job is marked completed only once every
\* stage of its latest attempt has been stored, whatever crashes, releases,
\* lease expiries and operator retries came in between (job_runner.dart:5).
CompletedRanEveryStage ==
    \A r \in Record : job[r].status = "completed" => job[r].stage = LastStage

\* While batches do not overlap, no sequence of failures, releases and stale
\* taps on Retry spends more attempts than the cap, and a job that spent the
\* last one is not left where a claim could take it.
AttemptsBounded ==
    \A r \in Record :
        /\ job[r].attempts <= MaxAttempts
        /\ job[r].attempts = MaxAttempts => job[r].status = "failed"

\* Every job is eventually completed or stopped for good: one leased to a
\* runner that was killed is taken back, a backed-off one is tried again, and
\* none starves behind the concurrency cap.
JobSettles ==
    \A r \in Record :
        job[r].status \in {"queued", "running"}
            ~> job[r].status \in {"completed", "failed"}

\* An operator retry or re-process supersedes the attempt in progress: from
\* then on a runner of the attempt before never completes, fails, advances or
\* releases the job, and never moves the record (_checkGeneration).
SupersededAttemptsAreFenced ==
    [][\A l \in Loop, r \in Record :
          (/\ Working(l, r)
           /\ job[r].gen # run[l].held.gen
           /\ run'[l].pc # run[l].pc)
              => job'[r] = job[r] /\ rec'[r] = rec[r]]_vars

=============================================================================
