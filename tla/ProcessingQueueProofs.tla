----------------------- MODULE ProcessingQueueProofs -----------------------
(***************************************************************************)
(* What holds of the processing queue for every set of records, every      *)
(* number of stages and every limit: however many batches overlap, each    *)
(* job has one place in the queue and an attempt that was replaced changes *)
(* nothing; and where batches do not overlap a completed job ran every     *)
(* stage and attempts stay within the cap.                                 *)
(***************************************************************************)
EXTENDS ProcessingQueue, Integers, FiniteSetTheorems, SequenceTheorems, TLAPS

\* The states of a runner that holds a job.
WorkPc == {"stage", "perform", "persist", "pause", "complete", "transient",
           "permanent", "cancel", "await"}

\* A row of the jobs table, and a runner.
Row == [status: JobStatus, stage: 0..LastStage, attempts: Nat,
        gen: 0..MaxGen, wait: 0..BackoffCap, lease: 0..(Lease + 1)]

RunnerState ==
    [pc: Pc, r: Record, held: Row, tries: Nat, s: 1..(LastStage + 1),
     stop: BOOLEAN, only: SUBSET Record, tok: Loop, skip: SUBSET Record]

\* A runner performs or stores only stages there are.
Runner == {x \in RunnerState :
             x.pc \in {"perform", "persist"} => x.s <= LastStage}

Shapes ==
    /\ job \in [Record -> Row]
    /\ run \in [Loop -> Runner]
    /\ token \in Loop

-----------------------------------------------------------------------------
\* The helpers keep the shapes.

LEMMA NoJobShape == NoJob \in Row /\ FreshJob \in Row
  BY QueueConstants DEF NoJob, FreshJob, Row, JobStatus

LEMMA IdleShape == Idle \in Runner /\ Idle.pc = "idle"
<1>1. (CHOOSE r \in Record : TRUE) \in Record
  BY QueueConstants
<1>2. (CHOOSE l \in Loop : TRUE) \in Loop
  BY QueueConstants
<1>3. 1 \in 1..(LastStage + 1)
  BY QueueConstants
<1> QED
  BY <1>1, <1>2, <1>3, NoJobShape DEF Idle, Runner, RunnerState, Pc

LEMMA ReleasedRow ==
  ASSUME NEW j \in Row
  PROVE  Released(j) \in Row
<1>1. "queued" \in JobStatus /\ 0 \in 0..(Lease + 1)
  BY QueueConstants DEF JobStatus
<1> QED
  BY <1>1 DEF Released, Row

LEMMA LaterRow ==
  ASSUME NEW j \in Row
  PROVE  /\ Later(j) \in Row
         /\ Later(j).status = j.status
         /\ Later(j).stage = j.stage
         /\ Later(j).attempts = j.attempts
         /\ Later(j).gen = j.gen
<1>1. Down(j.wait) \in 0..BackoffCap /\ Down(j.lease) \in 0..(Lease + 1)
  BY QueueConstants DEF Down, Row
<1> QED
  BY <1>1 DEF Later, Row

LEMMA SpentRow ==
  ASSUME NEW j \in Row, NEW status \in JobStatus, NEW attempts \in Nat,
         NEW wait \in 0..BackoffCap
  PROVE  [j EXCEPT !.status = status, !.attempts = attempts,
                   !.wait = wait, !.lease = 0] \in Row
<1>1. 0 \in 0..(Lease + 1)
  BY QueueConstants
<1> QED
  BY <1>1 DEF Row

\* Every backoff waits at least a tick and at most the cap.
LEMMA BackoffCapped ==
  ASSUME NEW n \in Nat
  PROVE  BackoffFor(n + 1) \in 1..BackoffCap
<1>1. n + 1 - 1 \in Nat
  OBVIOUS
<1>2. 2 ^ (n + 1 - 1) \in Int
  BY <1>1
<1> QED
  BY <1>2, QueueConstants DEF BackoffFor

\* What a claim releases first: jobs keep all but their status.
LEMMA ReleasedExpiredRows ==
  ASSUME Shapes
  PROVE  /\ ReleasedExpired \in [Record -> Row]
         /\ \A r \in Record :
              /\ ReleasedExpired[r].stage = job[r].stage
              /\ ReleasedExpired[r].attempts = job[r].attempts
              /\ ReleasedExpired[r].gen = job[r].gen
              /\ \/ ReleasedExpired[r].status = job[r].status
                 \/ /\ job[r].status = "running"
                    /\ ReleasedExpired[r].status = "queued"
<1>1. 0 \in 0..BackoffCap
  BY QueueConstants
<1> QED
  BY <1>1 DEF Shapes, ReleasedExpired, Row, JobStatus

\* The runner a batch loop goes back to.
Looping(l) ==
    [Idle EXCEPT !.pc = "claim", !.only = run[l].only, !.stop = run[l].stop,
                 !.tok = run[l].tok, !.skip = run[l].skip]

LEMMA LoopingShape ==
  ASSUME Shapes, NEW l \in Loop
  PROVE  Looping(l) \in Runner /\ Looping(l).pc = "claim"
<1>1. run[l] \in Runner
  BY DEF Shapes
<1> QED
  BY <1>1, IdleShape DEF Looping, Runner, RunnerState, Pc

-----------------------------------------------------------------------------
\* Each action keeps the shapes.

\* What the step of one runner does to the runners.
Moves(l) ==
    /\ run' = [run EXCEPT ![l] = run'[l]]
    /\ run'[l] \in Runner

LEMMA ClaimShapes ==
  ASSUME Shapes, NEW l \in Loop, Claim(l)
  PROVE  Shapes' /\ Moves(l)
<1> DEFINE ready == Candidates(l, ReleasedExpired)
<1>1. CASE RunningCount(ReleasedExpired) >= Concurrency \/ ready = {}
  BY <1>1, IdleShape, ReleasedExpiredRows DEF Claim, Shapes, Moves
<1>2. CASE ~(RunningCount(ReleasedExpired) >= Concurrency \/ ready = {})
  <2>1. PICK r \in ready :
          /\ job' = [ReleasedExpired EXCEPT ![r].status = "running",
                                            ![r].lease = Lease + 1]
          /\ run' = [run EXCEPT ![l] =
                       [@ EXCEPT !.pc = "stage", !.r = r, !.held = job'[r],
                                 !.tries = ReleasedExpired[r].attempts,
                                 !.s = 1, !.tok = token]]
    BY <1>2 DEF Claim
  <2>2. r \in Record
    BY DEF Candidates
  <2>3. job' \in [Record -> Row] /\ job'[r] \in Row
    <3>1. "running" \in JobStatus /\ Lease + 1 \in 0..(Lease + 1)
      BY QueueConstants DEF JobStatus
    <3>2. ReleasedExpired[r] \in Row
      BY <2>2, ReleasedExpiredRows
    <3>3. [ReleasedExpired[r] EXCEPT !.status = "running",
                                     !.lease = Lease + 1] \in Row
      BY <3>1, <3>2 DEF Row
    <3> QED
      BY <2>1, <2>2, <3>3, ReleasedExpiredRows
  <2>4. ReleasedExpired[r].attempts \in Nat
    BY <2>2, ReleasedExpiredRows DEF Row
  <2>5. run[l] \in Runner /\ token \in Loop /\ 1 \in 1..(LastStage + 1)
    BY QueueConstants DEF Shapes
  <2>6. run'[l] = [run[l] EXCEPT !.pc = "stage", !.r = r, !.held = job'[r],
                                 !.tries = ReleasedExpired[r].attempts,
                                 !.s = 1, !.tok = token]
    BY <2>1 DEF Shapes
  <2>7. run'[l] \in Runner
    BY <2>2, <2>3, <2>4, <2>5, <2>6 DEF Runner, RunnerState, Pc
  <2> QED
    BY <2>1, <2>3, <2>7, ZenonT(40) DEF Shapes, Moves, Claim
<1> QED
  BY <1>1, <1>2

LEMMA NextClaimMoves ==
  ASSUME Shapes, NEW l \in Loop, NextClaim(l)
  PROVE  Moves(l) /\ run'[l].pc = "claim"
<1>1. run' = [run EXCEPT ![l] = Looping(l)]
  BY DEF NextClaim, Looping
<1> QED
  BY <1>1, LoopingShape DEF Shapes, Moves

LEMMA EndsBatchMoves ==
  ASSUME Shapes, NEW l \in Loop, EndsBatch(l)
  PROVE  Moves(l) /\ run'[l].pc = "idle"
  BY IdleShape DEF EndsBatch, Shapes, Moves

\* A runner whose program counter alone moves.
LEMMA PcMoves ==
  ASSUME Shapes, NEW l \in Loop, NEW pc \in Pc,
         pc \in {"perform", "persist"} => run[l].s <= LastStage,
         run' = [run EXCEPT ![l].pc = pc]
  PROVE  Moves(l) /\ run'[l] = [run[l] EXCEPT !.pc = pc]
<1>1. run[l] \in Runner /\ run'[l] = [run[l] EXCEPT !.pc = pc]
  BY DEF Shapes
<1>2. run'[l] \in Runner
  BY <1>1 DEF Runner, RunnerState
<1> QED
  BY <1>1, <1>2 DEF Moves

LEMMA MovesShape ==
  ASSUME Shapes, NEW l \in Loop, Moves(l)
  PROVE  /\ run' \in [Loop -> Runner]
         /\ \A k \in Loop \ {l} : run'[k] = run[k]
  BY DEF Shapes, Moves

LEMMA CompleteShapes ==
  ASSUME Shapes, NEW l \in Loop, Complete(l)
  PROVE  Shapes' /\ Moves(l)
<1> DEFINE r == run[l].r
<1>1. r \in Record /\ job[r] \in Row
  BY DEF Shapes, Runner, RunnerState
<1>2. CASE Current(l)
  <2>1. [job[r] EXCEPT !.status = "completed", !.lease = 0] \in Row
    <3>1. "completed" \in JobStatus /\ 0 \in 0..(Lease + 1)
      BY QueueConstants DEF JobStatus
    <3> QED
      BY <1>1, <3>1 DEF Row
  <2>2. job' = [job EXCEPT ![r] = [@ EXCEPT !.status = "completed",
                                            !.lease = 0]]
    BY <1>2, <1>1 DEF Complete, Shapes
  <2> QED
    BY <1>1, <1>2, <2>1, <2>2, NextClaimMoves, MovesShape DEF Complete, Shapes
<1>3. CASE ~Current(l)
  BY <1>3, PcMoves, MovesShape DEF Complete, Shapes, Pc
<1> QED
  BY <1>2, <1>3

LEMMA FailShapes ==
  ASSUME Shapes, NEW l \in Loop, Fail(l)
  PROVE  Shapes' /\ Moves(l)
<1> DEFINE r == run[l].r
           attempts == job[r].attempts + 1
           stop == \/ run[l].pc = "permanent"
                   \/ Spent(run[l].tries + 1)
                   \/ Spent(attempts)
<1>1. r \in Record /\ job[r] \in Row /\ job[r].attempts \in Nat
  BY DEF Shapes, Runner, RunnerState, Row
<1>2. CASE Current(l)
  <2> DEFINE failed == [job[r] EXCEPT
                          !.status = IF stop THEN "failed" ELSE "queued",
                          !.attempts = attempts,
                          !.wait = IF stop THEN 0 ELSE BackoffFor(attempts),
                          !.lease = 0]
  <2>1. job' = [job EXCEPT ![r] = failed]
    BY <1>2 DEF Fail
  <2>2. /\ (IF stop THEN "failed" ELSE "queued") \in JobStatus
        /\ (IF stop THEN 0 ELSE BackoffFor(attempts)) \in 0..BackoffCap
        /\ attempts \in Nat
    BY <1>1, BackoffCapped, QueueConstants DEF JobStatus
  <2>3. failed \in Row
    BY <1>1, <2>2, SpentRow
  <2> QED
    BY <1>1, <2>1, <2>3, NextClaimMoves, MovesShape DEF Fail, Shapes
<1>3. CASE ~Current(l)
  BY <1>3, NextClaimMoves, MovesShape DEF Fail, Shapes
<1> QED
  BY <1>2, <1>3

LEMMA ReleaseShapes ==
  ASSUME Shapes, NEW l \in Loop, Release(l)
  PROVE  Shapes' /\ Moves(l)
<1>1. Moves(l)
  BY NextClaimMoves, EndsBatchMoves DEF Release
<1>2. run[l].r \in Record /\ job[run[l].r] \in Row
  BY DEF Shapes, Runner, RunnerState
<1>3. job' \in [Record -> Row]
  BY <1>2, ReleasedRow DEF Release, Shapes
<1> QED
  BY <1>1, <1>3, MovesShape DEF Release, Shapes

LEMMA StageShapes ==
  ASSUME Shapes, NEW l \in Loop,
         NextStage(l) \/ PerformOk(l) \/ PerformThrows(l) \/ NeedsTemplate(l)
  PROVE  Shapes' /\ Moves(l)
<1>1. run[l] \in Runner
  BY DEF Shapes
<1>2. CASE NextStage(l)
  <2>1. CASE run' = [run EXCEPT ![l].s = run[l].s + 1] /\ run[l].s <= LastStage
    <3>1. run'[l] = [run[l] EXCEPT !.s = run[l].s + 1]
      BY <2>1 DEF Shapes
    <3>2. run[l].s + 1 \in 1..(LastStage + 1)
      BY <1>1, <2>1, QueueConstants DEF Runner, RunnerState
    <3>3. run'[l] \in Runner
      <4>1. run[l].pc = "stage"
        BY <1>2 DEF NextStage
      <4> QED
        BY <1>1, <3>1, <3>2, <4>1 DEF Runner, RunnerState
    <3>4. Moves(l)
      BY <2>1, <3>1, <3>3 DEF Moves
    <3> QED
      BY <1>2, <3>4, MovesShape DEF NextStage, Shapes
  <2>2. CASE \E pc \in {"complete", "cancel", "perform", "pause"} :
                run' = [run EXCEPT ![l].pc = pc]
    <3>1. PICK pc \in Pc \ {"persist"} :
            /\ run' = [run EXCEPT ![l].pc = pc]
            /\ pc = "perform" => run[l].s <= LastStage
      BY <1>2, <2>2 DEF Pc, NextStage
    <3>2. Moves(l)
      BY <3>1, PcMoves
    <3> QED
      BY <1>2, <3>2, MovesShape DEF NextStage, Shapes
  <2>3. \/ run' = [run EXCEPT ![l].s = run[l].s + 1] /\ run[l].s <= LastStage
        \/ \E pc \in {"complete", "cancel", "perform", "pause"} :
              run' = [run EXCEPT ![l].pc = pc]
    BY <1>2 DEF NextStage
  <2> QED
    BY <2>1, <2>2, <2>3
<1>3. CASE PerformOk(l) \/ PerformThrows(l)
  <2>1. run[l].s <= LastStage
    BY <1>1, <1>3 DEF PerformOk, PerformThrows, Runner
  <2>2. PICK pc \in {"persist", "transient", "permanent", "cancel"} :
          run' = [run EXCEPT ![l].pc = pc]
    BY <1>3 DEF PerformOk, PerformThrows
  <2>3. Moves(l)
    BY <2>1, <2>2, PcMoves DEF Pc
  <2> QED
    BY <1>3, <2>3, MovesShape DEF PerformOk, PerformThrows, Shapes
<1>4. CASE NeedsTemplate(l)
  <2>1. CASE run' = [run EXCEPT ![l].pc = "cancel"]
    BY <1>4, <2>1, PcMoves, MovesShape DEF NeedsTemplate, Shapes, Pc
  <2>2. CASE run' = [run EXCEPT ![l].pc = "await",
                                ![l].skip = @ \cup {run[l].r}]
    <3>1. run'[l] = [run[l] EXCEPT !.pc = "await",
                                   !.skip = @ \cup {run[l].r}]
      BY <2>2 DEF Shapes
    <3>2. run[l].skip \cup {run[l].r} \in SUBSET Record
      BY <1>1 DEF Runner, RunnerState
    <3>3. run'[l] \in Runner
      BY <1>1, <3>1, <3>2 DEF Runner, RunnerState, Pc
    <3>4. Moves(l)
      BY <2>2, <3>1, <3>3 DEF Moves
    <3> QED
      BY <1>4, <3>4, MovesShape DEF NeedsTemplate, Shapes
  <2> QED
    BY <1>4, <2>1, <2>2 DEF NeedsTemplate
<1> QED
  BY <1>2, <1>3, <1>4

LEMMA StoredShapes ==
  ASSUME Shapes, NEW l \in Loop,
         Persist(l) \/ BudgetStops(l) \/ DeclineOnline(l)
  PROVE  Shapes' /\ Moves(l)
<1> DEFINE r == run[l].r
<1>1. /\ run[l] \in Runner /\ r \in Record /\ run[l].held \in Row
      /\ job[r] \in Row
  BY DEF Shapes, Runner, RunnerState
<1>2. CASE BudgetStops(l)
  BY <1>1, <1>2, ReleasedRow, PcMoves, MovesShape
  DEF BudgetStops, Shapes, Pc
<1>3. CASE DeclineOnline(l)
  <2>1. run[l].s <= LastStage
    BY <1>1, <1>3 DEF DeclineOnline, Runner
  <2> QED
    BY <1>1, <1>3, <2>1, PcMoves, MovesShape DEF DeclineOnline, Shapes, Pc
<1>4. CASE Persist(l) /\ ~Current(l)
  BY <1>4, PcMoves, MovesShape DEF Persist, Shapes, Pc
<1>5. CASE Persist(l) /\ Current(l)
  <2> DEFINE s == run[l].s
             stops == StopsAfter(l, s)
             pc == IF stops THEN "pause" ELSE "stage"
             next == IF stops THEN s ELSE s + 1
  <2>1. s \in 1..LastStage
    BY <1>1, <1>5, QueueConstants DEF Persist, Runner, RunnerState
  <2>2. job' = [job EXCEPT ![r].stage = s]
    BY <1>5 DEF Persist
  <2>3. job'[r] \in Row /\ job' \in [Record -> Row]
    BY <1>1, <2>1, <2>2, QueueConstants DEF Row, Shapes
  <2>4. run' = [run EXCEPT ![l] = [@ EXCEPT !.pc = pc, !.s = next,
                                            !.held = job'[r]]]
    BY <1>5 DEF Persist, Shapes
  <2>5. /\ pc \in Pc /\ pc \notin {"perform", "persist"}
        /\ next \in 1..(LastStage + 1)
    BY <2>1, QueueConstants DEF Pc
  <2>6. [run[l] EXCEPT !.pc = pc, !.s = next, !.held = job'[r]] \in Runner
    <3> HIDE DEF pc, next
    <3> QED
      BY <1>1, <2>3, <2>5 DEF Runner, RunnerState
  <2> QED
    BY <1>5, <2>3, <2>4, <2>6, MovesShape DEF Persist, Shapes, Moves
<1> QED
  BY <1>2, <1>3, <1>4, <1>5

LEMMA LoopShapes ==
  ASSUME Shapes, NEW l \in Loop,
         EnqueuePending(l) \/ StoreFails(l) \/ LeaveLoop(l)
  PROVE  Shapes' /\ Moves(l)
<1>1. CASE EnqueuePending(l)
  <2>1. job' \in [Record -> Row]
    BY <1>1, NoJobShape DEF EnqueuePending, Shapes
  <2> QED
    BY <1>1, <2>1, PcMoves, MovesShape DEF EnqueuePending, Shapes, Pc
<1>2. CASE StoreFails(l)
  BY <1>2, EndsBatchMoves, MovesShape DEF StoreFails, Shapes
<1>3. CASE LeaveLoop(l)
  BY <1>3, EndsBatchMoves, MovesShape DEF LeaveLoop, EndsBatch, Shapes
<1> QED
  BY <1>1, <1>2, <1>3

LEMMA StartShapes ==
  ASSUME Shapes, NEW l \in Loop, NEW only \in SUBSET Record,
         NEW stop \in BOOLEAN, Start(l, only, stop)
  PROVE  /\ Shapes' /\ Moves(l)
         /\ run[l].pc = "idle" /\ run'[l].pc \in {"enqueue", "claim"}
<1> DEFINE pc == IF only = {} THEN "enqueue" ELSE "claim"
           fresh == [Idle EXCEPT !.pc = pc, !.only = only, !.stop = stop,
                                 !.tok = l]
<1>1. pc \in Pc /\ pc \in {"enqueue", "claim"}
  BY DEF Pc
<1>2. fresh \in Runner /\ fresh.pc = pc
  <2> HIDE DEF pc
  <2> QED
    BY <1>1, IdleShape DEF Runner, RunnerState
<1>3. run' = [run EXCEPT ![l] = fresh]
  BY DEF Start
<1> HIDE DEF pc, fresh
<1>4. run'[l] = fresh /\ Moves(l)
  BY <1>2, <1>3 DEF Shapes, Moves
<1> QED
  BY <1>1, <1>2, <1>4, MovesShape DEF Start, Free, Shapes

\* A step of one runner's own, or of the interruptions it meets.
LEMMA RunnerShapes ==
  ASSUME Shapes, NEW l \in Loop, RunnerStep(l) \/ Interrupted(l)
  PROVE  Shapes' /\ Moves(l)
  BY LoopShapes, ClaimShapes, StageShapes, StoredShapes, CompleteShapes,
     FailShapes, ReleaseShapes
  DEF RunnerStep, Interrupted

\* The operator's queue writes replace one job and leave the runners alone.
LEMMA RequeuedRow ==
  ASSUME Shapes, NEW r \in Record, job[r].gen < MaxGen
  PROVE  /\ [FreshJob EXCEPT !.gen = job[r].gen + 1] \in Row
         /\ Retried(job[r]) \in Row
<1>1. job[r] \in Row /\ job[r].gen + 1 \in 0..MaxGen
  BY QueueConstants DEF Shapes, Row
<1>2. /\ "queued" \in JobStatus /\ 0 \in Nat
      /\ 0 \in 0..BackoffCap /\ 0 \in 0..(Lease + 1)
  BY QueueConstants DEF JobStatus
<1> QED
  BY <1>1, <1>2, NoJobShape DEF Retried, Row

LEMMA WriteShapes ==
  ASSUME Shapes, NEW r \in Record, Enqueue(r) \/ Requeue(r) \/ Retry(r)
  PROVE  Shapes' /\ UNCHANGED run
<1>1. CASE Enqueue(r)
  BY <1>1, NoJobShape DEF Enqueue, Shapes
<1>2. CASE Requeue(r)
  BY <1>2, NoJobShape, RequeuedRow DEF Requeue, Shapes
<1>3. CASE Retry(r)
  BY <1>3, RequeuedRow DEF Retry, Shapes
<1> QED
  BY <1>1, <1>2, <1>3

LEMMA CrashShapes ==
  ASSUME Shapes, Crash
  PROVE  /\ Shapes'
         /\ \A l \in Loop : run'[l].pc = "idle"
  BY IdleShape DEF Crash, Shapes

LEMMA TickShapes ==
  ASSUME Shapes, Tick
  PROVE  /\ Shapes'
         /\ \A l \in Loop :
              run'[l] = [run[l] EXCEPT !.held = Later(run[l].held)]
         /\ \A r \in Record : job'[r] = Later(job[r])
<1>1. \A r \in Record : job'[r] = Later(job[r]) /\ job'[r] \in Row
  BY LaterRow DEF Tick, Shapes
<1>2. ASSUME NEW l \in Loop
      PROVE  /\ run'[l] = [run[l] EXCEPT !.held = Later(run[l].held)]
             /\ run'[l] \in Runner
  <2>1. run'[l] = [run[l] EXCEPT !.held = Later(run[l].held)]
    BY DEF Tick
  <2>2. run[l] \in Runner /\ Later(run[l].held) \in Row
    BY LaterRow DEF Shapes, Runner, RunnerState
  <2> QED
    BY <2>1, <2>2 DEF Runner, RunnerState
<1> QED
  BY <1>1, <1>2 DEF Tick, Shapes

\* The moves that touch neither a job nor a runner.
Elsewhere ==
    \/ \E r \in Record : MoveToBin(r) \/ Restore(r)
    \/ \E r \in Record, to \in {"needsReview", "approved"} : Transition(r, to)
    \/ RetryRefused
    \/ Cancel

LEMMA ElsewhereKeeps ==
  ASSUME Elsewhere
  PROVE  UNCHANGED <<job, run, token>>
  BY DEF Elsewhere, MoveToBin, Restore, Transition, RetryRefused, Cancel

\* The steps of the queue, grouped as the proofs treat them.
LEMMA NextCases ==
  ASSUME Next
  PROVE  \/ \E l \in Loop : RunnerStep(l) \/ Interrupted(l)
         \/ \E l \in Loop, only \in SUBSET Record, stop \in BOOLEAN :
               Start(l, only, stop)
         \/ \E r \in Record : Enqueue(r) \/ Requeue(r) \/ Retry(r)
         \/ Crash
         \/ Elsewhere
         \/ Tick
<1>1. CASE StartAny
  <2>1. PICK l \in Loop, only \in {{}} \cup {{r} : r \in Record},
             stop \in BOOLEAN : Start(l, only, stop)
    BY <1>1 DEF StartAny
  <2>2. only \in SUBSET Record
    OBVIOUS
  <2> QED
    BY <2>1, <2>2
<1>2. CASE Operator
  BY <1>2 DEF Operator, Elsewhere
<1> QED
  BY <1>1, <1>2 DEF Next

LEMMA ShapesKept ==
  ASSUME Shapes, [Next]_vars
  PROVE  Shapes'
<1>1. CASE UNCHANGED vars
  BY <1>1 DEF vars, Shapes
<1>2. CASE Next
  <2>1. CASE Elsewhere
    BY <2>1, ElsewhereKeeps DEF Shapes
  <2> QED
    BY <1>2, <2>1, NextCases, RunnerShapes, StartShapes, WriteShapes,
       CrashShapes, TickShapes
<1> QED
  BY <1>1, <1>2

\* Rows and runners keep their shape: the lemma every theorem below uses.
LEMMA QueueShapes == Spec => []Shapes
<1>1. Init => Shapes
  <2> SUFFICES ASSUME Init PROVE Shapes
    OBVIOUS
  <2>1. (CHOOSE l \in Loop : TRUE) \in Loop
    BY QueueConstants
  <2> QED
    BY <2>1, NoJobShape, IdleShape DEF Init, Shapes
<1>2. Shapes /\ [Next]_vars => Shapes'
  BY ShapesKept
<1> QED
  BY <1>1, <1>2, PTL DEF Spec

-----------------------------------------------------------------------------
\* A replaced attempt changes nothing.

\* Whatever a runner does while its job's generation has moved on, it leaves
\* the job and the record alone.
LEMMA OwnStepFenced ==
  ASSUME Shapes, NEW l \in Loop, RunnerStep(l) \/ Interrupted(l),
         ~Current(l), run[l].pc \in WorkPc
  PROVE  UNCHANGED <<job, rec>>
  BY DEF WorkPc, RunnerStep, Interrupted, EnqueuePending, Claim, LeaveLoop,
         NextStage, PerformOk, PerformThrows, DeclineOnline, Persist, Complete,
         Fail, Release, StoreFails, BudgetStops, NeedsTemplate

\* The fence holds for every number of overlapping batches, of records and of
\* operator retries.
THEOREM FencedAttempts == Spec => SupersededAttemptsAreFenced
<1> DEFINE Fenced ==
      \A l \in Loop, r \in Record :
          (/\ Working(l, r)
           /\ job[r].gen # run[l].held.gen
           /\ run'[l].pc # run[l].pc)
              => job'[r] = job[r] /\ rec'[r] = rec[r]
<1>1. Shapes /\ [Next]_vars => [Fenced]_vars
  <2> SUFFICES ASSUME Shapes, Next,
                      NEW l \in Loop, NEW r \in Record,
                      Working(l, r), job[r].gen # run[l].held.gen,
                      run'[l].pc # run[l].pc
               PROVE  job'[r] = job[r] /\ rec'[r] = rec[r]
    BY DEF Fenced
  <2>1. ~Current(l) /\ run[l].pc \in WorkPc
    BY DEF Working, Current, WorkPc
  <2>2. ASSUME NEW k \in Loop, RunnerStep(k) \/ Interrupted(k)
        PROVE  UNCHANGED <<job, rec>>
    <3>1. k = l
      BY <2>2, RunnerShapes, MovesShape
    <3> QED
      BY <2>1, <2>2, <3>1, OwnStepFenced
  <2>3. ASSUME NEW k \in Loop, NEW only \in SUBSET Record,
               NEW stop \in BOOLEAN, Start(k, only, stop)
        PROVE  FALSE
    <3>1. k = l
      BY <2>3, StartShapes, MovesShape
    <3> QED
      BY <2>1, <2>3, <3>1, StartShapes DEF WorkPc
  <2>4. ASSUME NEW q \in Record, Enqueue(q) \/ Requeue(q) \/ Retry(q)
        PROVE  FALSE
    BY <2>4, WriteShapes
  <2>5. CASE Crash
    BY <2>5 DEF Crash
  <2>6. CASE Elsewhere
    BY <2>6, ElsewhereKeeps
  <2>7. CASE Tick
    BY <2>7, TickShapes DEF Shapes, Runner, RunnerState
  <2> QED
    BY <2>2, <2>3, <2>4, <2>5, <2>6, <2>7, NextCases
<1> QED
  BY <1>1, QueueShapes, PTL DEF Spec, SupersededAttemptsAreFenced

-----------------------------------------------------------------------------
\* Batches that do not overlap.

\* A job of the table: complete means every stage is stored, and one at the
\* cap of attempts is out of reach of a claim.
JobGood(j) ==
    /\ j.status = "completed" => j.stage = LastStage
    /\ j.attempts <= MaxAttempts
    /\ j.attempts = MaxAttempts => j.status = "failed"

\* Runner x against the row j of its job: unless an operator replaced the
\* attempt, the copy it holds agrees with the row, which is still leased to it
\* (or given back by the budget), and it passed over no stage.
HeldGood(x, j) ==
    /\ j.status # "none"
    /\ x.held.gen <= j.gen
    /\ x.held.status = "running"
    /\ x.pc = "stage" => x.s <= x.held.stage + 1
    /\ x.pc = "complete" => x.held.stage = LastStage
    /\ x.held.gen = j.gen =>
         /\ x.held.stage = j.stage
         /\ x.held.attempts = j.attempts
         /\ \/ j.status = "running"
            \/ j.status = "queued" /\ x.pc = "cancel"

JobInv == \A r \in Record : JobGood(job[r])

RunInv == \A l \in Loop :
            run[l].pc \in WorkPc => HeldGood(run[l], job[run[l].r])

QueueInv == Shapes /\ JobInv /\ RunInv

OneLoop == \E l \in Loop : Loop = {l}

\* Rows as the writes of the queue leave them.
LEMMA GoodRows ==
  /\ JobGood(FreshJob)
  /\ \A j \in Row : JobGood([FreshJob EXCEPT !.gen = j.gen + 1])
  /\ \A j \in Row : JobGood(Retried(j))
  /\ \A j \in Row : JobGood(j) /\ j.status \in {"running", "queued"}
                      => JobGood(Released(j))
  BY QueueConstants DEF JobGood, FreshJob, NoJob, Retried, Released, Row

LEMMA OperatorKeepsInv ==
  ASSUME QueueInv, NEW r \in Record, Enqueue(r) \/ Requeue(r) \/ Retry(r)
  PROVE  QueueInv'
<1>1. Shapes' /\ UNCHANGED run
  BY WriteShapes DEF QueueInv
<1>2. /\ job' = [job EXCEPT ![r] = job'[r]]
      /\ JobGood(job'[r])
      /\ job'[r].status # "none"
      /\ job[r].status = "none" \/ job'[r].gen = job[r].gen + 1
  <2>1. job[r] \in Row
    BY DEF QueueInv, Shapes
  <2>2. CASE Enqueue(r)
    BY <2>2, GoodRows DEF Enqueue, HasJob, QueueInv, Shapes, FreshJob, NoJob
  <2>3. CASE Requeue(r)
    BY <2>1, <2>3, GoodRows
    DEF Requeue, HasJob, QueueInv, Shapes, FreshJob, NoJob
  <2>4. CASE Retry(r)
    BY <2>1, <2>4, GoodRows DEF Retry, Retried, QueueInv, Shapes, Row
  <2> QED
    BY <2>2, <2>3, <2>4
<1>3. JobInv'
  BY <1>2 DEF QueueInv, JobInv, Shapes
<1>4. ASSUME NEW l \in Loop, run[l].pc \in WorkPc
      PROVE  HeldGood(run[l], job'[run[l].r])
  <2>1. HeldGood(run[l], job[run[l].r])
    BY <1>4 DEF QueueInv, RunInv
  <2>2. CASE run[l].r # r
    BY <1>2, <2>1, <2>2 DEF QueueInv, Shapes, Runner, RunnerState
  <2>3. CASE run[l].r = r
    <3>1. /\ run[l].held.gen \in Nat /\ job[r].gen \in Nat
          /\ job'[r].gen = job[r].gen + 1
      BY <1>2, <2>1, <2>3
      DEF HeldGood, QueueInv, Shapes, Runner, RunnerState, Row
    <3> QED
      BY <1>2, <2>1, <2>3, <3>1 DEF HeldGood
  <2> QED
    BY <2>2, <2>3
<1> QED
  BY <1>1, <1>3, <1>4 DEF QueueInv, RunInv

LEMMA TickKeepsInv ==
  ASSUME QueueInv, Tick
  PROVE  QueueInv'
<1>1. Shapes'
  BY TickShapes DEF QueueInv
<1>2. JobInv'
  BY TickShapes, LaterRow DEF QueueInv, JobInv, Shapes, JobGood
<1>3. ASSUME NEW l \in Loop, run'[l].pc \in WorkPc
      PROVE  HeldGood(run'[l], job'[run'[l].r])
  <2>1. run[l] \in Runner /\ run[l].r \in Record /\ run[l].held \in Row
    BY DEF QueueInv, Shapes, Runner, RunnerState
  <2>2. /\ run'[l].pc = run[l].pc /\ run'[l].r = run[l].r
        /\ run'[l].s = run[l].s /\ run'[l].held = Later(run[l].held)
    BY <2>1, TickShapes DEF QueueInv, Runner, RunnerState
  <2>3. HeldGood(run[l], job[run[l].r])
    BY <1>3, <2>2 DEF QueueInv, RunInv
  <2>4. job[run[l].r] \in Row /\ job'[run[l].r] = Later(job[run[l].r])
    BY <2>1, TickShapes DEF QueueInv, Shapes
  <2> QED
    BY <2>1, <2>2, <2>3, <2>4, LaterRow DEF HeldGood
<1> QED
  BY <1>1, <1>2, <1>3 DEF QueueInv, RunInv

\* The step of the only runner: what is left to show of each of its actions.
LEMMA OnlyRunner ==
  ASSUME OneLoop, Shapes, NEW l \in Loop, Moves(l), Shapes', JobInv',
         run'[l].pc \in WorkPc => HeldGood(run'[l], job'[run'[l].r])
  PROVE  QueueInv'
  BY DEF OneLoop, QueueInv, RunInv

\* A runner that gives its job up, or that holds none.
LEMMA LoopKeepsInv ==
  ASSUME OneLoop, QueueInv, NEW l \in Loop,
         \/ EnqueuePending(l) \/ StoreFails(l) \/ LeaveLoop(l) \/ Fail(l)
         \/ Release(l)
         \/ \E only \in SUBSET Record, stop \in BOOLEAN : Start(l, only, stop)
  PROVE  QueueInv'
<1>1. Shapes /\ JobInv
  BY DEF QueueInv
<1>2. CASE EnqueuePending(l)
  <2>1. JobInv'
    BY <1>1, <1>2, GoodRows DEF EnqueuePending, JobInv
  <2>2. run'[l].pc = "claim"
    BY <1>1, <1>2, PcMoves DEF EnqueuePending, Pc, Shapes, Runner, RunnerState
  <2> QED
    BY <1>1, <1>2, <2>1, <2>2, LoopShapes, OnlyRunner DEF WorkPc
<1>3. CASE StoreFails(l) \/ LeaveLoop(l)
  <2>1. JobInv'
    BY <1>1, <1>3 DEF StoreFails, LeaveLoop, JobInv
  <2>2. run'[l].pc = "idle"
    BY <1>1, <1>3, EndsBatchMoves DEF StoreFails, LeaveLoop, EndsBatch
  <2> QED
    BY <1>1, <1>3, <2>1, <2>2, LoopShapes, OnlyRunner DEF WorkPc
<1>4. CASE Fail(l)
  <2>1. run'[l].pc = "claim"
    BY <1>1, <1>4, NextClaimMoves DEF Fail
  <2>2. JobInv'
    <3> DEFINE r == run[l].r
               attempts == job[r].attempts + 1
               stop == \/ run[l].pc = "permanent"
                       \/ Spent(run[l].tries + 1)
                       \/ Spent(attempts)
               failed == [job[r] EXCEPT
                            !.status = IF stop THEN "failed" ELSE "queued",
                            !.attempts = attempts,
                            !.wait = IF stop THEN 0 ELSE BackoffFor(attempts),
                            !.lease = 0]
    <3>1. CASE ~Current(l)
      BY <1>1, <1>4, <3>1 DEF Fail, JobInv
    <3>2. CASE Current(l)
      <4>1. job' = [job EXCEPT ![r] = failed]
        BY <1>4, <3>2 DEF Fail
      <4>2. job[r] \in Row /\ r \in Record /\ run[l].held \in Row
        BY <1>1 DEF Shapes, Runner, RunnerState
      <4>3. JobGood(job[r]) /\ job[r].status = "running"
        BY <1>4, <3>2, <4>2
        DEF QueueInv, JobInv, RunInv, HeldGood, Current, Fail, WorkPc
      <4>4. /\ failed.status = IF stop THEN "failed" ELSE "queued"
            /\ failed.attempts = attempts
            /\ attempts \in Nat /\ attempts <= MaxAttempts
            /\ attempts = MaxAttempts => stop
        BY <4>2, <4>3, QueueConstants DEF JobGood, Row, Spent
      <4>5. JobGood(failed)
        <5> HIDE DEF stop, attempts, failed
        <5> QED
          BY <4>4 DEF JobGood
      <4> HIDE DEF failed
      <4> QED
        BY <1>1, <4>1, <4>2, <4>5 DEF JobInv, Shapes
    <3> QED
      BY <3>1, <3>2
  <2> QED
    BY <1>1, <1>4, <2>1, <2>2, FailShapes, OnlyRunner DEF WorkPc
<1>5. CASE Release(l)
  <2>1. run'[l].pc \in {"claim", "idle"}
    BY <1>1, <1>5, NextClaimMoves, EndsBatchMoves DEF Release
  <2>2. JobInv'
    <3>1. CASE ~Current(l)
      BY <1>1, <1>5, <3>1 DEF Release, JobInv
    <3>2. CASE Current(l)
      <4>1. job[run[l].r] \in Row /\ run[l].r \in Record
        BY <1>1 DEF Shapes, Runner, RunnerState
      <4>2. JobGood(job[run[l].r])
            /\ job[run[l].r].status \in {"running", "queued"}
        BY <1>5, <3>2, <4>1
        DEF QueueInv, JobInv, RunInv, HeldGood, Current, Release, WorkPc
      <4> QED
        BY <1>1, <1>5, <3>2, <4>1, <4>2, GoodRows DEF Release, JobInv, Shapes
    <3> QED
      BY <3>1, <3>2
  <2> QED
    BY <1>1, <1>5, <2>1, <2>2, ReleaseShapes, OnlyRunner DEF WorkPc
<1>6. ASSUME NEW only \in SUBSET Record, NEW stop \in BOOLEAN,
             Start(l, only, stop)
      PROVE  QueueInv'
  <2>1. JobInv'
    BY <1>1, <1>6 DEF Start, JobInv
  <2> QED
    BY <1>1, <1>6, <2>1, StartShapes, OnlyRunner DEF WorkPc
<1> QED
  BY <1>2, <1>3, <1>4, <1>5, <1>6

LEMMA ClaimKeepsInv ==
  ASSUME OneLoop, QueueInv, NEW l \in Loop, Claim(l)
  PROVE  QueueInv'
<1> DEFINE jobs == ReleasedExpired
           ready == Candidates(l, jobs)
<1>1. Shapes /\ JobInv /\ Shapes' /\ Moves(l)
  BY ClaimShapes DEF QueueInv
<1>2. \A r \in Record : JobGood(jobs[r])
  BY <1>1, ReleasedExpiredRows DEF JobInv, JobGood
<1>3. CASE RunningCount(jobs) >= Concurrency \/ ready = {}
  <2>1. JobInv' /\ run'[l].pc = "idle"
    BY <1>1, <1>2, <1>3, IdleShape DEF Claim, JobInv, Shapes
  <2> QED
    BY <1>1, <2>1, OnlyRunner DEF WorkPc
<1>4. CASE ~(RunningCount(jobs) >= Concurrency \/ ready = {})
  <2>1. PICK r \in ready :
          /\ job' = [jobs EXCEPT ![r].status = "running",
                                 ![r].lease = Lease + 1]
          /\ run' = [run EXCEPT ![l] =
                       [@ EXCEPT !.pc = "stage", !.r = r, !.held = job'[r],
                                 !.tries = jobs[r].attempts,
                                 !.s = 1, !.tok = token]]
    BY <1>4 DEF Claim
  <2>2. r \in Record /\ jobs[r].status = "queued" /\ jobs[r] \in Row
    BY <1>1, ReleasedExpiredRows DEF Candidates
  <2>3. /\ job'[r].status = "running"
        /\ job'[r].stage = jobs[r].stage
        /\ job'[r].attempts = jobs[r].attempts
        /\ \A q \in Record \ {r} : job'[q] = jobs[q]
    BY <1>1, <2>1, <2>2, ReleasedExpiredRows DEF Row
  <2>4. JobInv'
    BY <1>2, <2>2, <2>3 DEF JobInv, JobGood
  <2>5. /\ run'[l].r = r /\ run'[l].held = job'[r] /\ run'[l].s = 1
        /\ run'[l].pc = "stage"
    BY <1>1, <2>1 DEF Shapes, Runner, RunnerState
  <2>6. job'[r].stage \in Nat /\ job'[r].gen \in Nat
    BY <1>1, <2>2, QueueConstants DEF Shapes, Row
  <2>7. HeldGood(run'[l], job'[run'[l].r])
    BY <2>3, <2>5, <2>6 DEF HeldGood
  <2> QED
    BY <1>1, <2>4, <2>7, OnlyRunner
<1> QED
  BY <1>3, <1>4

\* A move of the program counter that leaves the job alone and neither goes to
\* the top of the stage loop nor to the end of the job.
LEMMA PcKeepsInv ==
  ASSUME OneLoop, QueueInv, NEW l \in Loop, Shapes', Moves(l),
         UNCHANGED job, run[l].pc \in WorkPc \ {"cancel"},
         run'[l].pc \notin {"stage", "complete"},
         run'[l].r = run[l].r, run'[l].held = run[l].held
  PROVE  QueueInv'
<1>1. HeldGood(run[l], job[run[l].r])
  BY DEF QueueInv, RunInv
<1>2. HeldGood(run'[l], job'[run'[l].r])
  BY <1>1 DEF HeldGood
<1> QED
  BY <1>2, OnlyRunner DEF QueueInv, JobInv

LEMMA HoldingKeepsInv ==
  ASSUME OneLoop, QueueInv, NEW l \in Loop,
         \/ NextStage(l) \/ PerformOk(l) \/ PerformThrows(l)
         \/ NeedsTemplate(l) \/ BudgetStops(l) \/ DeclineOnline(l)
         \/ Persist(l) \/ Complete(l)
  PROVE  QueueInv'
<1> DEFINE r == run[l].r
<1>1. /\ Shapes /\ JobInv
      /\ run[l] \in Runner /\ r \in Record /\ job[r] \in Row
      /\ run[l].held \in Row /\ run[l].s \in 1..(LastStage + 1)
  BY DEF QueueInv, Shapes, Runner, RunnerState
<1>2. Shapes' /\ Moves(l)
  BY <1>1, StageShapes, StoredShapes, CompleteShapes
<1>3. HeldGood(run[l], job[r]) /\ run[l].pc \in WorkPc
  BY DEF QueueInv, RunInv, WorkPc, NextStage, PerformOk, PerformThrows,
     NeedsTemplate, BudgetStops, DeclineOnline, Persist, Complete
<1>4. CASE NextStage(l)
  <2>1. CASE run[l].s > LastStage
    <3>1. run'[l] = [run[l] EXCEPT !.pc = "complete"] /\ UNCHANGED job
      BY <1>1, <1>4, <2>1, QueueConstants DEF NextStage, Shapes
    <3>2. run[l].held.stage = LastStage
      BY <1>1, <1>3, <1>4, <2>1, QueueConstants
      DEF HeldGood, NextStage, Row
    <3>3. HeldGood(run'[l], job'[run'[l].r])
      BY <1>1, <1>3, <1>4, <3>1, <3>2
      DEF HeldGood, NextStage, Runner, RunnerState
    <3> QED
      BY <1>1, <1>2, <3>1, <3>3, OnlyRunner DEF JobInv
  <2>2. CASE run' = [run EXCEPT ![l].s = run[l].s + 1]
             /\ ~(run[l].s > run[l].held.stage)
    <3>1. run'[l] = [run[l] EXCEPT !.s = run[l].s + 1] /\ UNCHANGED job
      BY <1>1, <1>4, <2>2 DEF NextStage, Shapes
    <3>2. run[l].s + 1 <= run[l].held.stage + 1
      BY <1>1, <2>2, QueueConstants DEF Row
    <3>3. HeldGood(run'[l], job'[run'[l].r])
      BY <1>1, <1>3, <1>4, <3>1, <3>2
      DEF HeldGood, NextStage, Runner, RunnerState
    <3> QED
      BY <1>1, <1>2, <3>1, <3>3, OnlyRunner DEF JobInv
  <2>3. CASE \E pc \in {"cancel", "perform", "pause"} :
                run' = [run EXCEPT ![l].pc = pc]
    BY <1>1, <1>2, <1>3, <1>4, <2>3, PcKeepsInv
    DEF NextStage, Shapes, Runner, RunnerState
  <2> QED
    BY <1>4, <2>1, <2>2, <2>3 DEF NextStage
<1>5. CASE PerformOk(l) \/ PerformThrows(l) \/ NeedsTemplate(l)
  BY <1>1, <1>2, <1>3, <1>5, PcKeepsInv
  DEF PerformOk, PerformThrows, NeedsTemplate, Shapes, Runner, RunnerState
<1>6. CASE BudgetStops(l)
  <2>1. job' = [job EXCEPT ![r] = Released(job[r])]
        /\ run'[l] = [run[l] EXCEPT !.pc = "cancel"]
    BY <1>1, <1>6 DEF BudgetStops, Shapes
  <2>2. job[r].status = "running"
    BY <1>3, <1>6 DEF BudgetStops, HeldGood, Current
  <2>3. JobInv'
    BY <1>1, <2>1, <2>2, GoodRows DEF JobInv, Shapes
  <2>4. HeldGood(run'[l], job'[run'[l].r])
    BY <1>1, <1>3, <1>6, <2>1, <2>2
    DEF BudgetStops, HeldGood, Released, Shapes, Runner, RunnerState, Row
  <2> QED
    BY <1>2, <1>1, <2>3, <2>4, OnlyRunner
<1>7. CASE DeclineOnline(l)
  <2>1. job' = [job EXCEPT ![r] = run[l].held]
        /\ run'[l] = [run[l] EXCEPT !.pc = "persist"]
    BY <1>1, <1>7 DEF DeclineOnline, Shapes
  <2>2. /\ run[l].held.status = "running" /\ job[r].status = "running"
        /\ run[l].held.attempts = job[r].attempts
        /\ run[l].held.gen = job[r].gen
    BY <1>3, <1>7 DEF DeclineOnline, HeldGood, Current
  <2>3. JobGood(run[l].held)
    BY <1>1, <2>2 DEF JobGood, JobInv
  <2>4. JobInv'
    BY <1>1, <2>1, <2>3 DEF JobInv, Shapes
  <2>5. HeldGood(run'[l], job'[run'[l].r])
    BY <1>1, <2>1, <2>2
    DEF HeldGood, Shapes, Runner, RunnerState, Row
  <2> QED
    BY <1>2, <1>1, <2>4, <2>5, OnlyRunner
<1>8. CASE (Persist(l) \/ Complete(l)) /\ ~Current(l)
  BY <1>1, <1>2, <1>3, <1>8, PcKeepsInv
  DEF Persist, Complete, Shapes, Runner, RunnerState
<1>9. CASE Persist(l) /\ Current(l)
  <2> DEFINE s == run[l].s
             stops == StopsAfter(l, s)
             pc == IF stops THEN "pause" ELSE "stage"
             next == IF stops THEN s ELSE s + 1
  <2>1. job' = [job EXCEPT ![r].stage = s]
        /\ run' = [run EXCEPT ![l] = [@ EXCEPT !.pc = pc, !.s = next,
                                               !.held = job'[r]]]
    BY <1>1, <1>9 DEF Persist, Shapes
  <2>2. /\ pc \in {"pause", "stage"}
        /\ pc = "stage" => next = s + 1
    OBVIOUS
  <2> HIDE DEF pc, next
  <2>3. /\ job'[r] = [job[r] EXCEPT !.stage = s]
        /\ run'[l].pc = pc /\ run'[l].s = next /\ run'[l].r = r
        /\ run'[l].held = job'[r]
    BY <1>1, <2>1 DEF Shapes, Runner, RunnerState
  <2>4. /\ job'[r].stage = s /\ job'[r].status = "running"
        /\ job'[r].gen \in Nat /\ s \in Nat
        /\ job'[r].attempts = job[r].attempts /\ job[r].status = "running"
    <3>1. job[r].status = "running"
      BY <1>3, <1>9 DEF Persist, Current, HeldGood
    <3>2. s \in Nat /\ job[r].gen \in Nat
      BY <1>1, QueueConstants DEF Row
    <3> QED
      BY <1>1, <2>3, <3>1, <3>2 DEF Row
  <2>5. JobInv'
    BY <1>1, <2>1, <2>4 DEF JobInv, JobGood, Shapes
  <2>6. HeldGood(run'[l], job'[run'[l].r])
    <3>1. HeldGood(run'[l], job'[r])
      <4> HIDE DEF r, s
      <4> QED
        BY <2>2, <2>3, <2>4 DEF HeldGood
    <3> QED
      BY <2>3, <3>1
  <2> QED
    BY <1>2, <1>1, <2>5, <2>6, OnlyRunner
<1>10. CASE Complete(l) /\ Current(l)
  <2>1. run'[l].pc = "claim"
    BY <1>1, <1>10, NextClaimMoves DEF Complete
  <2>2. job' = [job EXCEPT ![r] = [@ EXCEPT !.status = "completed",
                                            !.lease = 0]]
    BY <1>1, <1>10 DEF Complete, Shapes
  <2>3. /\ job[r].stage = LastStage /\ job[r].status = "running"
        /\ JobGood(job[r])
    BY <1>1, <1>3, <1>10 DEF Complete, Current, HeldGood, JobInv
  <2>4. JobGood([job[r] EXCEPT !.status = "completed", !.lease = 0])
    BY <1>1, <2>3 DEF JobGood, Row
  <2>5. JobInv'
    BY <1>1, <2>2, <2>4 DEF JobInv, Shapes
  <2> QED
    BY <1>1, <1>2, <2>1, <2>5, OnlyRunner DEF WorkPc
<1> QED
  BY <1>4, <1>5, <1>6, <1>7, <1>8, <1>9, <1>10

LEMMA QueueInvariant == ASSUME OneLoop PROVE Spec => []QueueInv
<1>1. Init => QueueInv
  <2> SUFFICES ASSUME Init PROVE QueueInv
    OBVIOUS
  <2>1. (CHOOSE l \in Loop : TRUE) \in Loop
    BY QueueConstants
  <2>2. Shapes
    BY <2>1, NoJobShape, IdleShape DEF Init, Shapes
  <2>3. JobInv
    BY QueueConstants DEF Init, JobInv, JobGood, NoJob
  <2>4. RunInv
    BY IdleShape DEF Init, RunInv, WorkPc
  <2> QED
    BY <2>2, <2>3, <2>4 DEF QueueInv
<1>2. QueueInv /\ [Next]_vars => QueueInv'
  <2> SUFFICES ASSUME QueueInv, [Next]_vars PROVE QueueInv'
    OBVIOUS
  <2>1. CASE UNCHANGED vars
    BY <2>1 DEF vars, QueueInv, Shapes, JobInv, RunInv
  <2>2. CASE Elsewhere
    BY <2>2, ElsewhereKeeps DEF QueueInv, Shapes, JobInv, RunInv
  <2>3. CASE Crash
    BY <2>3, CrashShapes DEF QueueInv, JobInv, RunInv, WorkPc, Crash
  <2>4. CASE \E l \in Loop : RunnerStep(l) \/ Interrupted(l)
    BY <2>4, LoopKeepsInv, ClaimKeepsInv, HoldingKeepsInv
    DEF RunnerStep, Interrupted
  <2> QED
    BY <2>1, <2>2, <2>3, <2>4, NextCases, LoopKeepsInv, OperatorKeepsInv,
       TickKeepsInv
<1> QED
  BY <1>1, <1>2, PTL DEF Spec

\* While batches do not overlap, a completed job has stored every stage of its
\* latest attempt, for any number of stages, records, crashes and retries.
THEOREM CompletedInFull ==
  ASSUME OneLoop
  PROVE  Spec => []CompletedRanEveryStage
<1>1. QueueInv => CompletedRanEveryStage
  BY DEF QueueInv, JobInv, JobGood, CompletedRanEveryStage
<1> QED
  BY <1>1, QueueInvariant, PTL

\* While batches do not overlap, a job never has more attempts than the cap,
\* and at the cap it has failed.
THEOREM AttemptsCapped ==
  ASSUME OneLoop
  PROVE  Spec => []AttemptsBounded
<1>1. QueueInv => AttemptsBounded
  BY DEF QueueInv, JobInv, JobGood, AttemptsBounded
<1> QED
  BY <1>1, QueueInvariant, PTL

-----------------------------------------------------------------------------
\* The places in the queue.

\* Two lines with no one in common make one when joined.
LEMMA JoinedOnce ==
  ASSUME NEW S, NEW s \in Seq(S), NEW t \in Seq(S),
         IsInjective(s), IsInjective(t), ToSet(s) \cap ToSet(t) = {}
  PROVE  /\ s \o t \in Seq(S)
         /\ IsInjective(s \o t)
         /\ ToSet(s \o t) = ToSet(s) \cup ToSet(t)
<1> DEFINE u == s \o t
           n == Len(s)
           m == Len(t)
<1>1. /\ n \in Nat /\ m \in Nat
      /\ DOMAIN s = 1..n /\ DOMAIN t = 1..m
  BY LenProperties
<1>2. /\ u \in Seq(S)
      /\ DOMAIN u = 1..(n + m)
      /\ \A i \in 1..(n + m) : u[i] = IF i <= n THEN s[i] ELSE t[i - n]
  BY ConcatProperties, LenProperties
<1> HIDE DEF u, n, m
<1>3. ASSUME NEW i \in 1..(n + m)
      PROVE  \/ i \in DOMAIN s /\ u[i] = s[i]
             \/ i - n \in DOMAIN t /\ u[i] = t[i - n]
  BY <1>1, <1>2
<1>4. IsInjective(u)
  <2> SUFFICES ASSUME NEW i \in 1..(n + m), NEW j \in 1..(n + m), u[i] = u[j]
               PROVE  i = j
    BY <1>2 DEF IsInjective
  <2>1. CASE i <= n /\ j <= n
    <3>1. i \in DOMAIN s /\ j \in DOMAIN s /\ s[i] = s[j]
      BY <1>1, <1>2, <2>1
    <3> QED
      BY <3>1 DEF IsInjective
  <2>2. CASE ~(i <= n) /\ ~(j <= n)
    <3>1. i - n \in DOMAIN t /\ j - n \in DOMAIN t /\ t[i - n] = t[j - n]
      BY <1>1, <1>2, <2>2
    <3>2. i - n = j - n
      BY <3>1 DEF IsInjective
    <3> QED
      BY <1>1, <3>2
  <2>3. ASSUME NEW k \in 1..(n + m), k <= n,
               NEW p \in 1..(n + m), ~(p <= n)
        PROVE  u[k] # u[p]
    <3>1. k \in DOMAIN s /\ u[k] = s[k]
      BY <1>1, <1>2, <2>3
    <3>2. p - n \in DOMAIN t /\ u[p] = t[p - n]
      BY <1>1, <1>2, <2>3
    <3>3. u[k] \in ToSet(s) /\ u[p] \in ToSet(t)
      BY <3>1, <3>2 DEF ToSet
    <3> QED
      BY <3>3
  <2> QED
    BY <2>1, <2>2, <2>3
<1>5. ToSet(s) \subseteq ToSet(u)
  <2>1. \A i \in DOMAIN s : i \in DOMAIN u /\ u[i] = s[i]
    BY <1>1, <1>2
  <2> QED
    BY <2>1 DEF ToSet
<1>6. ToSet(t) \subseteq ToSet(u)
  <2>1. \A i \in DOMAIN t : i + n \in DOMAIN u /\ u[i + n] = t[i]
    BY <1>1, <1>2
  <2> QED
    BY <2>1 DEF ToSet
<1>7. ToSet(u) \subseteq ToSet(s) \cup ToSet(t)
  BY <1>2, <1>3 DEF ToSet
<1> QED
  BY <1>2, <1>4, <1>5, <1>6, <1>7 DEF u

LEMMA AppendedOnce ==
  ASSUME NEW S, NEW s \in Seq(S), NEW x \in S, IsInjective(s), x \notin ToSet(s)
  PROVE  /\ Append(s, x) \in Seq(S)
         /\ IsInjective(Append(s, x))
         /\ ToSet(Append(s, x)) = ToSet(s) \cup {x}
<1> DEFINE t == <<x>>
<1>1. t \in Seq(S) /\ IsInjective(t) /\ ToSet(t) = {x}
  BY DEF IsInjective, ToSet
<1>2. Append(s, x) = s \o t
  BY AppendIsConcat
<1> HIDE DEF t
<1> QED
  BY <1>1, <1>2, JoinedOnce

\* A stretch of a line.
LEMMA StretchOnce ==
  ASSUME NEW S, NEW s \in Seq(S), IsInjective(s),
         NEW m \in 1..(Len(s) + 1), NEW n \in 0..Len(s)
  PROVE  /\ SubSeq(s, m, n) \in Seq(S)
         /\ IsInjective(SubSeq(s, m, n))
         /\ ToSet(SubSeq(s, m, n)) = {s[i] : i \in m..n}
<1> DEFINE u == SubSeq(s, m, n)
<1>1. Len(s) \in Nat /\ DOMAIN s = 1..Len(s) /\ m..n \subseteq DOMAIN s
  BY LenProperties
<1>2. \A i \in m..n : s[i] \in S
  BY <1>1, ElementOfSeq
<1>3. /\ u \in Seq(S)
      /\ Len(u) = IF m <= n THEN n - m + 1 ELSE 0
      /\ \A i \in 1..(n - m + 1) : u[i] = s[m + i - 1]
  BY <1>1, <1>2, SubSeqProperties
<1>4. DOMAIN u = 1..(n - m + 1)
  BY <1>1, <1>3, LenProperties
<1> HIDE DEF u
<1>5. \A i \in DOMAIN u : m + i - 1 \in m..n /\ u[i] = s[m + i - 1]
  BY <1>1, <1>3, <1>4
<1>6. \A i \in m..n : i - m + 1 \in DOMAIN u /\ u[i - m + 1] = s[i]
  BY <1>1, <1>3, <1>4
<1>7. IsInjective(u)
  <2> SUFFICES ASSUME NEW i \in DOMAIN u, NEW j \in DOMAIN u, u[i] = u[j]
               PROVE  i = j
    BY DEF IsInjective
  <2>1. m + i - 1 = m + j - 1
    BY <1>1, <1>5 DEF IsInjective
  <2> QED
    BY <1>1, <1>4, <2>1
<1>8. ToSet(u) \subseteq {s[i] : i \in m..n}
  BY <1>5 DEF ToSet
<1>9. {s[i] : i \in m..n} \subseteq ToSet(u)
  BY <1>6 DEF ToSet
<1> QED
  BY <1>3, <1>7, <1>8, <1>9 DEF u

\* A record taken out of the line leaves the others in it, once each.
LEMMA WithoutOnce ==
  ASSUME NEW S, NEW s \in Seq(S), IsInjective(s), NEW x \in S
  PROVE  /\ Without(s, x) \in Seq(S)
         /\ IsInjective(Without(s, x))
         /\ ToSet(Without(s, x)) = ToSet(s) \ {x}
<1>1. CASE x \notin ToSet(s)
  BY <1>1 DEF Without
<1>2. CASE x \in ToSet(s)
  <2> DEFINE i == CHOOSE k \in DOMAIN s : s[k] = x
             a == SubSeq(s, 1, i - 1)
             b == SubSeq(s, i + 1, Len(s))
  <2>1. i \in DOMAIN s /\ s[i] = x
    BY <1>2 DEF ToSet
  <2>2. Len(s) \in Nat /\ DOMAIN s = 1..Len(s)
    BY LenProperties
  <2>3. Without(s, x) = a \o b
    BY <1>2 DEF Without, RemoveAt
  <2> HIDE DEF i
  <2>4. /\ 1 \in 1..(Len(s) + 1) /\ i - 1 \in 0..Len(s)
        /\ i + 1 \in 1..(Len(s) + 1) /\ Len(s) \in 0..Len(s)
    BY <2>1, <2>2
  <2>5. /\ a \in Seq(S) /\ IsInjective(a)
        /\ ToSet(a) = {s[k] : k \in 1..(i - 1)}
    BY <2>4, StretchOnce
  <2>6. /\ b \in Seq(S) /\ IsInjective(b)
        /\ ToSet(b) = {s[k] : k \in (i + 1)..Len(s)}
    BY <2>4, StretchOnce
  <2> HIDE DEF a, b
  <2>7. ToSet(a) \cap ToSet(b) = {}
    <3>1. \A j \in 1..(i - 1), k \in (i + 1)..Len(s) :
             j \in DOMAIN s /\ k \in DOMAIN s /\ j # k
      BY <2>1, <2>2
    <3>2. \A j \in 1..(i - 1), k \in (i + 1)..Len(s) : s[j] # s[k]
      BY <3>1 DEF IsInjective
    <3> QED
      BY <2>5, <2>6, <3>2
  <2>8. ToSet(a) \cup ToSet(b) = ToSet(s) \ {x}
    <3>1. \A k \in DOMAIN s :
             k \in 1..(i - 1) \/ k \in (i + 1)..Len(s) \/ k = i
      BY <2>1, <2>2
    <3>2. \A k \in 1..(i - 1) : k \in DOMAIN s /\ k # i
      BY <2>1, <2>2
    <3>3. \A k \in (i + 1)..Len(s) : k \in DOMAIN s /\ k # i
      BY <2>1, <2>2
    <3>4. \A k \in DOMAIN s : k # i => s[k] # x
      BY <2>1 DEF IsInjective
    <3>5. ToSet(a) \cup ToSet(b) \subseteq ToSet(s) \ {x}
      BY <2>5, <2>6, <3>2, <3>3, <3>4 DEF ToSet
    <3>6. ToSet(s) \ {x} \subseteq ToSet(a) \cup ToSet(b)
      <4> SUFFICES ASSUME NEW k \in DOMAIN s, s[k] # x
                   PROVE  s[k] \in ToSet(a) \cup ToSet(b)
        BY DEF ToSet
      <4>1. k \in 1..(i - 1) \/ k \in (i + 1)..Len(s)
        BY <2>1, <3>1
      <4> QED
        BY <2>5, <2>6, <4>1
    <3> QED
      BY <3>5, <3>6
  <2>9. /\ a \o b \in Seq(S) /\ IsInjective(a \o b)
        /\ ToSet(a \o b) = ToSet(a) \cup ToSet(b)
    BY <2>5, <2>6, <2>7, JoinedOnce, ZenonT(40)
  <2> QED
    BY <2>3, <2>8, <2>9
<1> QED
  BY <1>1, <1>2

\* Records queued at one instant, in whatever order, each have one place.
LEMMA TogetherOnce ==
  ASSUME NEW T, IsFiniteSet(T), NEW q \in SetToSeqs(T)
  PROVE  q \in Seq(T) /\ IsInjective(q) /\ ToSet(q) = T
<1> DEFINE n == Cardinality(T)
<1>1. n \in Nat
  BY FS_CardinalityType
<1>2. q \in [1..n -> T] /\ IsInjective(q)
  BY DEF SetToSeqs, IsInjective
<1>3. IsFiniteSet(1..n) /\ Cardinality(1..n) = n
  BY <1>1, FS_Interval
<1>4. q \in Injection(1..n, T)
  BY <1>2 DEF Injection
<1>5. q \in Surjection(1..n, T)
  BY <1>3, <1>4, FS_Injection
<1>6. q \in Seq(T)
  BY <1>1, <1>2
<1>7. ToSet(q) = T
  BY <1>2, <1>5 DEF Surjection, ToSet
<1> QED
  BY <1>2, <1>6, <1>7

-----------------------------------------------------------------------------
\* Types: the records, the flags, and one place in the queue for every job.

RecordRow == [status: RecordStatus, tomb: BOOLEAN, before: RecordStatus]

Flags ==
    /\ isRunning \in BOOLEAN
    /\ cancelled \in [Loop -> BOOLEAN]
    /\ disturb \in 0..MaxDisturb

\* A runner holds only a record that has a job, and a copy of that job.
Works(x, jobs) ==
    x.pc \in WorkPc => jobs[x.r].status # "none" /\ x.held.status # "none"

Placed ==
    /\ order \in Seq(Record) /\ IsInjective(order)
    /\ ToSet(order) = {r \in Record : HasJob(r)}
    /\ listed \subseteq {r \in Record : HasJob(r)}
    /\ \A l \in Loop : Works(run[l], job)

LEMMA MovedRecordRows ==
  ASSUME rec \in [Record -> RecordRow], NEW r \in Record, NEW from,
         NEW to \in RecordStatus
  PROVE  MovedRecord(r, from, to) \in [Record -> RecordRow]
  BY DEF MovedRecord, RecordRow

LEMMA RecordsTyped ==
  ASSUME Shapes, rec \in [Record -> RecordRow], [Next]_vars
  PROVE  rec' \in [Record -> RecordRow]
<1>1. {"extracted", "needsReview", "failed", "queued", "approved", "deleted",
       "captured"} \subseteq RecordStatus
  BY DEF RecordStatus
<1>2. CASE UNCHANGED vars
  BY <1>2 DEF vars
<1>3. ASSUME NEW l \in Loop, RunnerStep(l) \/ Interrupted(l)
      PROVE  rec' \in [Record -> RecordRow]
  <2>1. run[l].r \in Record
    BY DEF Shapes, Runner, RunnerState
  <2>2. CASE PerformOk(l)
    BY <1>1, <2>1, <2>2 DEF PerformOk, RecordRow
  <2>3. CASE Fail(l)
    BY <1>1, <2>1, <2>3, MovedRecordRows DEF Fail
  <2>4. CASE ~PerformOk(l) /\ ~Fail(l)
    <3>1. UNCHANGED rec
      BY <1>3, <2>4
      DEF RunnerStep, Interrupted, EnqueuePending, Claim, LeaveLoop, NextStage,
          PerformThrows, DeclineOnline, Persist, Complete, Release,
          StoreFails, BudgetStops, NeedsTemplate
    <3> QED
      BY <3>1
  <2> QED
    BY <2>2, <2>3, <2>4
<1>4. ASSUME NEW r \in Record, Requeue(r) \/ Retry(r)
      PROVE  rec' \in [Record -> RecordRow]
  BY <1>1, <1>4, MovedRecordRows DEF Requeue, Retry
<1>5. ASSUME NEW r \in Record, NEW to \in {"needsReview", "approved"},
             Transition(r, to)
      PROVE  rec' \in [Record -> RecordRow]
  BY <1>1, <1>5 DEF Transition, RecordRow
<1>6. ASSUME NEW r \in Record, MoveToBin(r)
      PROVE  rec' \in [Record -> RecordRow]
  BY <1>1, <1>6 DEF MoveToBin, RecordRow
<1>7. ASSUME NEW r \in Record, Restore(r)
      PROVE  rec' \in [Record -> RecordRow]
  <2>1. RestoreTarget(rec[r].before) \in RecordStatus
    BY <1>1 DEF RestoreTarget, RecordRow
  <2> QED
    BY <1>1, <1>7, <2>1 DEF Restore, RecordRow
<1>8. CASE \/ \E r \in Record : Enqueue(r)
           \/ \E l \in Loop, only \in SUBSET Record, stop \in BOOLEAN :
                Start(l, only, stop)
           \/ RetryRefused \/ Cancel \/ Crash \/ Tick
  <2>1. UNCHANGED rec
    BY <1>8 DEF Enqueue, Start, RetryRefused, Cancel, Crash, Tick
  <2> QED
    BY <2>1
<1> QED
  BY <1>2, <1>3, <1>4, <1>5, <1>6, <1>7, <1>8, NextCases DEF Elsewhere

LEMMA FlagsTyped ==
  ASSUME Shapes, Flags, [Next]_vars
  PROVE  Flags'
<1>1. ASSUME Disturbs PROVE disturb' \in 0..MaxDisturb
  BY <1>1, QueueConstants DEF Disturbs, Flags
<1>2. CASE UNCHANGED vars
  BY <1>2 DEF vars, Flags
<1>3. ASSUME NEW l \in Loop, RunnerStep(l)
      PROVE  Flags'
  BY <1>3
  DEF Flags, RunnerStep, EnqueuePending, Claim, LeaveLoop, NextStage,
      PerformOk, PerformThrows, DeclineOnline, Persist, Complete, Fail,
      Release, EndsBatch
<1>4. ASSUME NEW l \in Loop, Interrupted(l)
      PROVE  Flags'
  BY <1>1, <1>4
  DEF Flags, Interrupted, StoreFails, BudgetStops, NeedsTemplate, EndsBatch
<1>5. ASSUME NEW r \in Record, Enqueue(r) \/ Requeue(r) \/ Retry(r)
      PROVE  Flags'
  BY <1>5 DEF Flags, Enqueue, Requeue, Retry
<1>6. ASSUME NEW l \in Loop, NEW only, NEW stop, Start(l, only, stop)
      PROVE  Flags'
  BY <1>6 DEF Flags, Start
<1>7. CASE Elsewhere
  BY <1>1, <1>7
  DEF Flags, Elsewhere, MoveToBin, Restore, Transition, RetryRefused, Cancel
<1>8. CASE Crash \/ Tick
  BY <1>1, <1>8 DEF Flags, Crash, Tick
<1> QED
  BY <1>2, <1>3, <1>4, <1>5, <1>6, <1>7, <1>8, NextCases

\* No job disappears and none is made, save by the writes that queue one.
SameJobs == \A r \in Record : job'[r].status = "none" <=> job[r].status = "none"

\* The step of a runner that leaves the line of jobs as it is.
LEMMA RunnerPlaced ==
  ASSUME Shapes, Placed, NEW l \in Loop, Moves(l), UNCHANGED order, SameJobs,
         listed' \subseteq listed \cup {r \in Record : job'[r].status # "none"},
         Works(run'[l], job')
  PROVE  Placed'
<1>1. /\ run' \in [Loop -> Runner]
      /\ \A k \in Loop \ {l} : run'[k] = run[k]
  BY MovesShape
<1>2. \A k \in Loop : Works(run'[k], job')
  <2> SUFFICES ASSUME NEW k \in Loop, k # l PROVE Works(run'[k], job')
    OBVIOUS
  <2>1. run'[k] = run[k] /\ run[k].r \in Record /\ Works(run[k], job)
    BY <1>1 DEF Shapes, Runner, RunnerState, Placed
  <2> QED
    BY <2>1 DEF Works, SameJobs
<1>3. {r \in Record : job'[r].status # "none"}
        = {r \in Record : job[r].status # "none"}
  BY DEF SameJobs
<1> QED
  BY <1>2, <1>3 DEF Placed, HasJob

LEMMA LoopPlaced ==
  ASSUME Shapes, Placed, NEW l \in Loop,
         \/ StoreFails(l) \/ LeaveLoop(l) \/ Fail(l) \/ Release(l)
         \/ Complete(l)
         \/ \E only \in SUBSET Record, stop \in BOOLEAN : Start(l, only, stop)
  PROVE  Placed'
<1>1. /\ run[l].r \in Record /\ job[run[l].r] \in Row
      /\ Works(run[l], job)
  BY DEF Shapes, Runner, RunnerState, Placed
<1>2. CASE StoreFails(l) \/ LeaveLoop(l)
  <2>1. run'[l].pc = "idle" /\ Moves(l)
    BY <1>2, EndsBatchMoves DEF StoreFails, LeaveLoop, EndsBatch
  <2> QED
    BY <1>2, <2>1, RunnerPlaced
    DEF StoreFails, LeaveLoop, SameJobs, Works, WorkPc
<1>3. CASE Fail(l)
  <2>1. run'[l].pc = "claim" /\ Moves(l)
    BY <1>3, NextClaimMoves DEF Fail
  <2>2. job[run[l].r].status # "none"
    BY <1>1, <1>3 DEF Fail, Works, WorkPc
  <2>3. \/ UNCHANGED <<job, listed>>
        \/ /\ job' = [job EXCEPT ![run[l].r] = job'[run[l].r]]
           /\ job'[run[l].r].status \in {"queued", "failed"}
           /\ listed' \subseteq listed \cup {run[l].r}
    <3> DEFINE attempts == job[run[l].r].attempts + 1
               stop == \/ run[l].pc = "permanent"
                       \/ Spent(run[l].tries + 1)
                       \/ Spent(attempts)
               failed == [job[run[l].r] EXCEPT
                            !.status = IF stop THEN "failed" ELSE "queued",
                            !.attempts = attempts,
                            !.wait = IF stop THEN 0 ELSE BackoffFor(attempts),
                            !.lease = 0]
    <3>1. CASE ~Current(l)
      BY <1>3, <3>1 DEF Fail
    <3>2. CASE Current(l)
      <4>1. /\ job' = [job EXCEPT ![run[l].r] = failed]
            /\ listed' = IF stop THEN listed \cup {run[l].r} ELSE listed
        BY <1>3, <3>2 DEF Fail
      <4>2. failed.status \in {"queued", "failed"}
        BY <1>1 DEF Row
      <4> HIDE DEF failed, stop
      <4>3. job'[run[l].r] = failed
        BY <1>1, <4>1 DEF Shapes
      <4> QED
        BY <4>1, <4>2, <4>3
    <3> QED
      BY <3>1, <3>2
  <2>4. /\ SameJobs
        /\ listed' \subseteq listed \cup {r \in Record : job'[r].status # "none"}
    BY <1>1, <2>2, <2>3 DEF SameJobs, Shapes
  <2> QED
    BY <1>3, <2>1, <2>4, RunnerPlaced DEF Fail, Works, WorkPc
<1>4. CASE Release(l)
  <2>1. run'[l].pc \in {"claim", "idle"} /\ Moves(l)
    BY <1>4, NextClaimMoves, EndsBatchMoves DEF Release
  <2>2. job[run[l].r].status # "none"
    BY <1>1, <1>4 DEF Release, Works, WorkPc
  <2>3. \/ UNCHANGED job
        \/ /\ job' = [job EXCEPT ![run[l].r] = Released(job[run[l].r])]
           /\ Released(job[run[l].r]).status = "queued"
    BY <1>1, <1>4 DEF Release, Released, Shapes, Row
  <2>4. SameJobs
    BY <1>1, <2>2, <2>3 DEF SameJobs, Shapes
  <2> QED
    BY <1>4, <2>1, <2>4, RunnerPlaced DEF Release, Works, WorkPc
<1>5. CASE Complete(l)
  <2>1. job[run[l].r].status # "none" /\ run[l].held.status # "none"
    BY <1>1, <1>5 DEF Complete, Works, WorkPc
  <2>2. CASE Current(l)
    <3>1. run'[l].pc = "claim" /\ Moves(l)
      BY <1>5, <2>2, NextClaimMoves DEF Complete
    <3>2. /\ job' = [job EXCEPT ![run[l].r] = job'[run[l].r]]
          /\ job'[run[l].r].status = "completed"
      BY <1>1, <1>5, <2>2 DEF Complete, Shapes, Row
    <3>3. SameJobs
      BY <1>1, <2>1, <3>2 DEF SameJobs, Shapes
    <3> QED
      BY <1>5, <3>1, <3>3, RunnerPlaced DEF Complete, Works, WorkPc
  <2>3. CASE ~Current(l)
    <3>1. /\ Moves(l) /\ UNCHANGED <<job, order, listed>>
          /\ run'[l] = [run[l] EXCEPT !.pc = "cancel"]
      BY <1>5, <2>3, PcMoves DEF Complete, Pc
    <3>2. run'[l].r = run[l].r /\ run'[l].held = run[l].held
      BY <3>1 DEF Shapes, Runner, RunnerState
    <3> QED
      BY <2>1, <3>1, <3>2, RunnerPlaced DEF SameJobs, Works
  <2> QED
    BY <2>2, <2>3
<1>6. ASSUME NEW only \in SUBSET Record, NEW stop \in BOOLEAN,
             Start(l, only, stop)
      PROVE  Placed'
  <2>1. Moves(l) /\ run'[l].pc \in {"enqueue", "claim"}
    BY <1>6, StartShapes
  <2> QED
    BY <1>6, <2>1, RunnerPlaced DEF Start, SameJobs, Works, WorkPc
<1> QED
  BY <1>2, <1>3, <1>4, <1>5, <1>6

LEMMA ClaimPlaced ==
  ASSUME Shapes, Placed, NEW l \in Loop, Claim(l)
  PROVE  Placed'
<1> DEFINE jobs == ReleasedExpired
           ready == Candidates(l, jobs)
<1>1. Moves(l) /\ UNCHANGED <<order, listed>>
  BY ClaimShapes DEF Claim
<1>2. \A r \in Record : jobs[r].status = "none" <=> job[r].status = "none"
  BY ReleasedExpiredRows
<1>3. CASE RunningCount(jobs) >= Concurrency \/ ready = {}
  <2>1. job' = jobs /\ run'[l].pc = "idle"
    BY <1>3, IdleShape DEF Claim, Shapes
  <2> QED
    BY <1>1, <1>2, <2>1, RunnerPlaced DEF SameJobs, Works, WorkPc
<1>4. CASE ~(RunningCount(jobs) >= Concurrency \/ ready = {})
  <2>1. PICK r \in ready :
          /\ job' = [jobs EXCEPT ![r].status = "running",
                                 ![r].lease = Lease + 1]
          /\ run' = [run EXCEPT ![l] =
                       [@ EXCEPT !.pc = "stage", !.r = r, !.held = job'[r],
                                 !.tries = jobs[r].attempts,
                                 !.s = 1, !.tok = token]]
    BY <1>4 DEF Claim
  <2>2. r \in Record /\ jobs[r].status = "queued" /\ jobs[r] \in Row
    BY ReleasedExpiredRows DEF Candidates
  <2>3. /\ job'[r].status = "running"
        /\ \A q \in Record \ {r} : job'[q] = jobs[q]
    BY <2>1, <2>2, ReleasedExpiredRows DEF Row
  <2>4. SameJobs
    BY <1>2, <2>2, <2>3 DEF SameJobs
  <2>5. run'[l].r = r /\ run'[l].held = job'[r]
    BY <2>1 DEF Shapes, Runner, RunnerState
  <2> QED
    BY <1>1, <2>3, <2>4, <2>5, RunnerPlaced DEF Works
<1> QED
  BY <1>3, <1>4

LEMMA HoldingPlaced ==
  ASSUME Shapes, Placed, NEW l \in Loop,
         \/ NextStage(l) \/ PerformOk(l) \/ PerformThrows(l)
         \/ NeedsTemplate(l) \/ BudgetStops(l) \/ DeclineOnline(l)
         \/ Persist(l)
  PROVE  Placed'
<1> DEFINE r == run[l].r
<1>1. /\ r \in Record /\ job[r] \in Row /\ run[l].held \in Row
      /\ run[l] \in Runner
  BY DEF Shapes, Runner, RunnerState
<1>2. /\ Moves(l) /\ UNCHANGED <<order, listed>>
  BY StageShapes, StoredShapes
  DEF NextStage, PerformOk, PerformThrows, NeedsTemplate, BudgetStops,
      DeclineOnline, Persist
<1>3. job[r].status # "none" /\ run[l].held.status # "none"
  BY DEF Placed, Works, WorkPc, NextStage, PerformOk, PerformThrows,
     NeedsTemplate, BudgetStops, DeclineOnline, Persist
<1>4. CASE NextStage(l) \/ PerformOk(l) \/ PerformThrows(l) \/ NeedsTemplate(l)
  <2>1. UNCHANGED job /\ run'[l].r = r /\ run'[l].held = run[l].held
    BY <1>1, <1>4
    DEF NextStage, PerformOk, PerformThrows, NeedsTemplate, Shapes, Runner,
        RunnerState
  <2> QED
    BY <1>2, <1>3, <2>1, RunnerPlaced DEF SameJobs, Works
<1>5. CASE BudgetStops(l)
  <2>1. /\ job' = [job EXCEPT ![r] = Released(job[r])]
        /\ Released(job[r]).status = "queued"
    BY <1>1, <1>5 DEF BudgetStops, Released, Shapes, Row
  <2>2. run'[l].r = r /\ run'[l].held = run[l].held
    BY <1>1, <1>5 DEF BudgetStops, Shapes, Runner, RunnerState
  <2>3. SameJobs /\ job'[r].status # "none"
    BY <1>1, <1>3, <2>1 DEF SameJobs, Shapes
  <2> QED
    BY <1>2, <1>3, <2>2, <2>3, RunnerPlaced DEF Works
<1>6. CASE DeclineOnline(l)
  <2>1. job' = [job EXCEPT ![r] = run[l].held]
    BY <1>6 DEF DeclineOnline
  <2>2. run'[l].r = r /\ run'[l].held = run[l].held
    BY <1>1, <1>6 DEF DeclineOnline, Shapes, Runner, RunnerState
  <2>3. SameJobs /\ job'[r].status # "none"
    BY <1>1, <1>3, <2>1 DEF SameJobs, Shapes
  <2> QED
    BY <1>2, <1>3, <2>2, <2>3, RunnerPlaced DEF Works
<1>7. CASE Persist(l)
  <2>1. CASE Current(l)
    <3>1. job' = [job EXCEPT ![r].stage = run[l].s]
      BY <1>7, <2>1 DEF Persist
    <3>2. job'[r].status # "none" /\ SameJobs
      BY <1>1, <1>3, <3>1 DEF Shapes, Row, SameJobs
    <3>3. run'[l].r = r /\ run'[l].held = job'[r]
      BY <1>1, <1>7, <2>1 DEF Persist, Shapes, Runner, RunnerState
    <3> QED
      BY <1>2, <3>2, <3>3, RunnerPlaced DEF Works
  <2>2. CASE ~Current(l)
    <3>1. UNCHANGED job /\ run'[l].r = r /\ run'[l].held = run[l].held
      BY <1>1, <1>7, <2>2 DEF Persist, Shapes, Runner, RunnerState
    <3> QED
      BY <1>2, <1>3, <3>1, RunnerPlaced DEF SameJobs, Works
  <2> QED
    BY <2>1, <2>2
<1> QED
  BY <1>4, <1>5, <1>6, <1>7

\* A save of several records at once, or of one, gives each new job a place
\* behind the others.
LEMMA EnqueuedPlaced ==
  ASSUME Shapes, Placed, NEW q \in Seq(Record), IsInjective(q),
         \A r \in ToSet(q) : ~HasJob(r),
         order' = order \o q, UNCHANGED listed,
         \A r \in Record : job'[r].status = "none"
                              <=> job[r].status = "none" /\ r \notin ToSet(q),
         \A l \in Loop : run'[l].pc \in WorkPc => run'[l] = run[l]
  PROVE  Placed'
<1>1. ToSet(q) \subseteq Record
  BY LenProperties, ElementOfSeq DEF ToSet
<1>2. ToSet(order) \cap ToSet(q) = {}
  BY DEF Placed
<1>3. /\ order' \in Seq(Record) /\ IsInjective(order')
      /\ ToSet(order') = ToSet(order) \cup ToSet(q)
  BY <1>2, JoinedOnce DEF Placed
<1>4. {r \in Record : job'[r].status # "none"}
        = {r \in Record : HasJob(r)} \cup ToSet(q)
  BY <1>1 DEF HasJob
<1>5. \A l \in Loop : Works(run'[l], job')
  BY DEF Placed, Works, Shapes, Runner, RunnerState
<1> QED
  BY <1>3, <1>4, <1>5 DEF Placed, HasJob

LEMMA EnqueuePendingPlaced ==
  ASSUME Shapes, Placed, NEW l \in Loop, EnqueuePending(l)
  PROVE  Placed'
<1> DEFINE pending == {r \in Record : rec[r].status = "captured" /\ ~HasJob(r)}
<1>1. PICK q \in SetToSeqs(pending) : order' = order \o q
  BY DEF EnqueuePending
<1>2. IsFiniteSet(pending)
  BY QueueConstants, FS_Subset
<1>3. q \in Seq(pending) /\ IsInjective(q) /\ ToSet(q) = pending
  <2> HIDE DEF pending
  <2> QED
    BY <1>1, <1>2, TogetherOnce
<1>4. q \in Seq(Record)
  BY <1>3, SeqMonotonic
<1>5. \A r \in Record : job'[r] = IF r \in pending THEN FreshJob ELSE job[r]
  BY DEF EnqueuePending
<1>6. \A k \in Loop : run'[k].pc \in WorkPc => run'[k] = run[k]
  BY LoopShapes, MovesShape, PcMoves
  DEF EnqueuePending, Pc, WorkPc, Shapes, Runner, RunnerState
<1>7. FreshJob.status = "queued"
  BY DEF FreshJob, NoJob
<1>8. \A r \in Record : job'[r].status = "none"
                           <=> job[r].status = "none" /\ r \notin ToSet(q)
  BY <1>3, <1>5, <1>7 DEF HasJob
<1>9. \A r \in ToSet(q) : ~HasJob(r)
  BY <1>3
<1> QED
  BY <1>1, <1>3, <1>4, <1>6, <1>8, <1>9, EnqueuedPlaced DEF EnqueuePending

LEMMA WritePlaced ==
  ASSUME Shapes, Placed, NEW r \in Record, Enqueue(r) \/ Requeue(r) \/ Retry(r)
  PROVE  Placed'
<1>1. UNCHANGED run /\ job[r] \in Row /\ job \in [Record -> Row]
  BY WriteShapes DEF Shapes
<1>2. FreshJob.status = "queued" /\ FreshJob \in Row
  BY NoJobShape DEF FreshJob, NoJob
<1>3. CASE Enqueue(r)
  <2> DEFINE q == <<r>>
  <2>1. q \in Seq(Record) /\ IsInjective(q) /\ ToSet(q) = {r}
    BY DEF IsInjective, ToSet
  <2>2. order' = order \o q
    BY <1>3, AppendIsConcat DEF Enqueue, Placed
  <2> HIDE DEF q
  <2>3. \A x \in Record : job'[x].status = "none"
                             <=> job[x].status = "none" /\ x \notin ToSet(q)
    BY <1>1, <1>2, <1>3, <2>1 DEF Enqueue, HasJob
  <2>4. (\A x \in ToSet(q) : ~HasJob(x)) /\ UNCHANGED listed
    BY <1>3, <2>1 DEF Enqueue
  <2> QED
    BY <1>1, <2>1, <2>2, <2>3, <2>4, EnqueuedPlaced
<1>4. CASE Requeue(r)
  <2>1. /\ job' = [job EXCEPT ![r] = job'[r]]
        /\ job'[r].status = "queued"
    BY <1>1, <1>2, <1>4 DEF Requeue, Row
  <2>2. /\ Without(order, r) \in Seq(Record) /\ IsInjective(Without(order, r))
        /\ ToSet(Without(order, r)) = ToSet(order) \ {r}
    BY WithoutOnce DEF Placed
  <2>3. /\ order' \in Seq(Record) /\ IsInjective(order')
        /\ ToSet(order') = ToSet(order) \cup {r}
    BY <1>4, <2>2, AppendedOnce DEF Requeue
  <2>4. {x \in Record : job'[x].status # "none"}
          = {x \in Record : HasJob(x)} \cup {r}
    BY <1>1, <2>1 DEF HasJob
  <2>5. \A l \in Loop : Works(run[l], job')
    BY <1>1, <2>1 DEF Placed, Works, Shapes, Runner, RunnerState
  <2> QED
    BY <1>1, <1>4, <2>3, <2>4, <2>5 DEF Placed, HasJob, Requeue
<1>5. CASE Retry(r)
  <2>1. job' = [job EXCEPT ![r] = Retried(job[r])]
    BY <1>5 DEF Retry
  <2>2. Retried(job[r]).status = "queued"
    BY <1>1 DEF Retried, Row
  <2>3. job[r].status # "none"
    BY <1>5 DEF Retry, Placed, HasJob
  <2>4. SameJobs
    BY <1>1, <2>1, <2>2, <2>3 DEF SameJobs
  <2>5. {x \in Record : job'[x].status # "none"}
          = {x \in Record : job[x].status # "none"}
    BY <2>4 DEF SameJobs
  <2>6. \A l \in Loop : Works(run[l], job')
    BY <2>4 DEF Placed, Works, Shapes, Runner, RunnerState, SameJobs
  <2> QED
    BY <1>1, <1>5, <2>5, <2>6 DEF Placed, HasJob, Retry
<1> QED
  BY <1>3, <1>4, <1>5

LEMMA WorldPlaced ==
  ASSUME Shapes, Placed, Elsewhere \/ Crash \/ Tick \/ UNCHANGED vars
  PROVE  Placed'
<1>1. CASE UNCHANGED vars
  BY <1>1 DEF vars, Placed, HasJob
<1>2. CASE Elsewhere
  <2>1. UNCHANGED <<job, run, order, listed>>
    BY <1>2
    DEF Elsewhere, MoveToBin, Restore, Transition, RetryRefused, Cancel
  <2> QED
    BY <2>1 DEF Placed, HasJob
<1>3. CASE Crash
  <2>1. \A l \in Loop : run'[l].pc = "idle"
    BY <1>3, CrashShapes
  <2> QED
    BY <1>3, <2>1 DEF Crash, Placed, HasJob, Works, WorkPc
<1>4. CASE Tick
  <2>1. \A r \in Record : job'[r].status = job[r].status
    BY <1>4, TickShapes, LaterRow DEF Shapes
  <2>2. ASSUME NEW l \in Loop
        PROVE  Works(run'[l], job')
    <3>1. run[l] \in Runner /\ run[l].r \in Record /\ run[l].held \in Row
      BY DEF Shapes, Runner, RunnerState
    <3>2. /\ run'[l].pc = run[l].pc /\ run'[l].r = run[l].r
          /\ run'[l].held = Later(run[l].held)
      BY <1>4, <3>1, TickShapes DEF Runner, RunnerState
    <3> QED
      BY <2>1, <3>1, <3>2, LaterRow DEF Works, Placed
  <2>3. {x \in Record : job'[x].status # "none"}
          = {x \in Record : job[x].status # "none"}
    BY <2>1
  <2> QED
    BY <1>4, <2>2, <2>3 DEF Tick, Placed, HasJob
<1> QED
  BY <1>1, <1>2, <1>3, <1>4

\* Types hold for every set of records, every number of overlapping batches
\* and every limit, and the queue never loses a job nor lists one twice: not
\* when batches, saves and re-processing interleave, and not across crashes.
THEOREM QueueTypes == Spec => []TypeOK
<1> DEFINE TInv == /\ Shapes /\ rec \in [Record -> RecordRow]
                   /\ Flags /\ Placed
<1>1. Init => TInv
  <2> SUFFICES ASSUME Init PROVE TInv
    OBVIOUS
  <2>1. (CHOOSE l \in Loop : TRUE) \in Loop
    BY QueueConstants
  <2>2. Shapes
    BY <2>1, NoJobShape, IdleShape DEF Init, Shapes
  <2>3. rec \in [Record -> RecordRow] /\ Flags
    <3>1. [status |-> "captured", tomb |-> FALSE, before |-> "captured"]
            \in RecordRow
      BY DEF RecordRow, RecordStatus
    <3>2. 0 \in 0..MaxDisturb
      BY QueueConstants
    <3> QED
      BY <3>1, <3>2 DEF Init, Flags
  <2>4. order \in Seq(Record) /\ IsInjective(order) /\ ToSet(order) = {}
    <3>1. order = <<>> /\ <<>> \in Seq(Record) /\ DOMAIN <<>> = {}
      BY DEF Init
    <3> QED
      BY <3>1 DEF IsInjective, ToSet
  <2>5. Placed
    <3>1. \A r \in Record : job[r].status = "none"
      BY DEF Init, NoJob
    <3>2. \A l \in Loop : run[l].pc \notin WorkPc
      BY IdleShape DEF Init, WorkPc
    <3>3. listed = {}
      BY DEF Init
    <3> QED
      BY <2>4, <3>1, <3>2, <3>3 DEF Placed, HasJob, Works
  <2> QED
    BY <2>2, <2>3, <2>5
<1>2. TInv /\ [Next]_vars => TInv'
  <2> SUFFICES ASSUME TInv, [Next]_vars PROVE Placed'
    BY RecordsTyped, FlagsTyped, ShapesKept
  <2>1. ASSUME NEW l \in Loop, RunnerStep(l) \/ Interrupted(l)
        PROVE  Placed'
    BY <2>1, LoopPlaced, ClaimPlaced, HoldingPlaced, EnqueuePendingPlaced
    DEF RunnerStep, Interrupted
  <2> QED
    BY <2>1, NextCases, LoopPlaced, WritePlaced, WorldPlaced
<1>3. TInv => TypeOK
  <2> SUFFICES ASSUME TInv PROVE TypeOK
    OBVIOUS
  <2>1. ASSUME NEW r \in Record
        PROVE  /\ job[r] \in Row /\ rec[r] \in RecordRow
    BY DEF Shapes
  <2>2. ASSUME NEW l \in Loop
        PROVE  /\ run[l].pc \in Pc /\ run[l].r \in Record
               /\ run[l].held \in Row
               /\ run[l].s \in 1..(LastStage + 1) /\ run[l].tok \in Loop
    BY DEF Shapes, Runner, RunnerState
  <2>3. token \in Loop /\ listed \subseteq Record
    BY DEF Shapes, Placed
  <2>4. \A r \in Record :
          /\ job[r].status \in JobStatus
          /\ job[r].stage \in 0..LastStage
          /\ job[r].attempts \in Nat
          /\ job[r].gen \in 0..MaxGen
          /\ job[r].wait \in 0..BackoffCap
          /\ job[r].lease \in 0..(Lease + 1)
    BY <2>1 DEF Row
  <2>5. \A r \in Record :
          /\ rec[r].status \in RecordStatus
          /\ rec[r].tomb \in BOOLEAN
          /\ rec[r].before \in RecordStatus
    BY <2>1 DEF RecordRow
  <2>6. \A l \in Loop :
          /\ run[l].held.gen \in 0..MaxGen
          /\ run[l].held.stage \in 0..LastStage
    BY <2>2 DEF Row
  <2>7. ToSet(order) = {r \in Record : HasJob(r)} /\ IsInjective(order)
    BY DEF Placed
  <2> QED
    BY <2>2, <2>3, <2>4, <2>5, <2>6, <2>7 DEF TypeOK, Flags
<1> QED
  BY <1>1, <1>2, <1>3, PTL DEF Spec

=============================================================================
