------------------------------ MODULE AiBreaker ------------------------------
(***************************************************************************)
(* The call policy of the AI proxy around one provider, billing account    *)
(* and model in one server process: a deadline for each attempt, bounded   *)
(* retries and a circuit breaker (backend/src/services/ai/resilience.ts).  *)
(*                                                                         *)
(* callProvider takes hold of the breaker OBJECT once, before its first    *)
(* attempt, while every success puts a new object into the pool.  Calls    *)
(* that overlap may therefore count into different objects, so the model   *)
(* keeps the identity of each object.                                      *)
(*                                                                         *)
(* Instants are kept as the ticks that are left until them; an operation   *)
(* takes no time of its own and a timer fires at the tick it is due.  A    *)
(* slot of Call serves one request after another.                          *)
(***************************************************************************)
EXTENDS Naturals, FiniteSets

CONSTANTS
    Call,         \* requests in flight at once
    Retries,      \* [Call -> Nat]: retryLimit of the requests of a slot
    Threshold,    \* aiBreakerThreshold
    Timeout,      \* aiTimeoutMs, in ticks
    Obj,          \* identities for breaker objects
    None          \* no object

ASSUME BreakerAssumption ==
    /\ Retries \in [Call -> Nat]
    /\ Threshold \in Nat \ {0} /\ Timeout \in Nat \ {0}
    /\ IsFiniteSet(Call)
    /\ IsFiniteSet(Obj) /\ Cardinality(Obj) >= Cardinality(Call) + 2
    /\ None \notin Obj

VARIABLES
    heap,    \* the breaker objects; failures is kept up to Threshold
    pool,    \* the object the pool holds
    call,    \* the requests: step, object held, attempt and ticks left for it
    streak   \* history: faults in a row, each of the only call in flight

vars == <<heap, pool, call, streak>>

Breaker == [failures : 0..Threshold, openFor : 0..Timeout]
NewBreaker == [failures |-> 0, openFor |-> 0]

Idle == [at |-> "idle", holds |-> None, attempt |-> 0, left |-> 0]

Init ==
    /\ heap = [o \in Obj |-> NewBreaker]
    /\ pool = None
    /\ call = [c \in Call |-> Idle]
    /\ streak = 0

AtMost(n, top) == IF n > top THEN top ELSE n

-----------------------------------------------------------------------------
IsOpen == pool # None /\ heap[pool].openFor > 0

\* An object nothing refers to: what an object literal evaluates to.
Fresh == CHOOSE o \in Obj : o # pool /\ \A c \in Call : call[c].holds # o

Attempting(o, n) == [at |-> "attempt", holds |-> o, attempt |-> n,
                     left |-> Timeout]

\* The breaker is looked at once, here; an open one refuses the call (429).
Start(c) ==
    /\ call[c].at = "idle" /\ ~IsOpen
    /\ LET o == IF pool = None THEN Fresh ELSE pool IN
       /\ call' = [call EXCEPT ![c] = Attempting(o, 0)]
       /\ heap' = IF pool = None THEN [heap EXCEPT ![o] = NewBreaker] ELSE heap
    /\ UNCHANGED <<pool, streak>>

\* Mutant: a refused call counts as a failure and keeps the breaker open.
RefuseExtending(c) ==
    /\ call[c].at = "idle" /\ IsOpen
    /\ heap' = [heap EXCEPT ![pool].openFor = Timeout]
    /\ UNCHANGED <<pool, call, streak>>

Refuse(c) ==
    /\ call[c].at = "idle" /\ IsOpen
    /\ UNCHANGED vars

Succeed(c) ==
    /\ call[c].at = "attempt"
    /\ pool' = Fresh
    /\ heap' = [heap EXCEPT ![Fresh] = NewBreaker]
    /\ call' = [call EXCEPT ![c] = Idle]
    /\ streak' = 0

\* One more failure of object o; at the threshold it opens for Timeout.
Counted(o) ==
    LET n == AtMost(heap[o].failures + 1, Threshold) IN
    [failures |-> n,
     openFor  |-> IF n = Threshold THEN Timeout ELSE heap[o].openFor]

Lengthened(c) ==
    IF \A d \in Call \ {c} : call[d].at = "idle"
      THEN AtMost(streak + 1, Threshold) ELSE 0

\* Mutant: an object that was not in the pool yet is never put there.
FaultUnstored(c) ==
    /\ call[c].at = "attempt"
    /\ heap' = [heap EXCEPT ![call[c].holds] = Counted(call[c].holds)]
    /\ call' = [call EXCEPT ![c] = IF @.attempt < Retries[c]
                                     THEN [@ EXCEPT !.at = "backoff", !.left = 0]
                                     ELSE Idle]
    /\ streak' = Lengthened(c)
    /\ UNCHANGED pool

\* Mutant: the loop runs once too often.
FaultOnceMore(c) ==
    /\ call[c].at = "attempt"
    /\ heap' = [heap EXCEPT ![call[c].holds] = Counted(call[c].holds)]
    /\ pool' = call[c].holds
    /\ call' = [call EXCEPT ![c] = IF @.attempt <= Retries[c]
                                     THEN [@ EXCEPT !.at = "backoff", !.left = 0]
                                     ELSE Idle]
    /\ streak' = Lengthened(c)

\* A provider fault (5xx, 429, network) or an answer without text.  The empty
\* answer first resets the pool, but the catch puts the held object back
\* before anyone can look.  A retry does not look at the breaker again.
Fault(c) ==
    /\ call[c].at = "attempt"
    /\ LET o == call[c].holds IN
       /\ heap' = [heap EXCEPT ![o] = Counted(o)]
       /\ pool' = o
    /\ call' = [call EXCEPT ![c] = IF @.attempt < Retries[c]
                                     THEN [@ EXCEPT !.at = "backoff", !.left = 0]
                                     ELSE Idle]
    /\ streak' = Lengthened(c)

Retry(c) ==
    /\ call[c].at = "backoff"
    /\ call' = [call EXCEPT ![c] = Attempting(@.holds, @.attempt + 1)]
    /\ UNCHANGED <<heap, pool, streak>>

\* A fault of the client or of the configuration (isFinal), or the client
\* gone: the call ends and the breaker does not hear of it.
GiveUp(c) ==
    /\ call[c].at \in {"attempt", "backoff"}
    /\ call' = [call EXCEPT ![c] = Idle]
    /\ UNCHANGED <<heap, pool, streak>>

\* Mutant: only the first attempt has a timer.
TimeOutFirst(c) ==
    /\ call[c].at = "attempt" /\ call[c].left = 0 /\ call[c].attempt = 0
    /\ call' = [call EXCEPT ![c] = Idle]
    /\ UNCHANGED <<heap, pool, streak>>

\* The deadline rejects with ai_request_uncertain, a 409, which is final too.
TimeOut(c) ==
    /\ call[c].at = "attempt" /\ call[c].left = 0
    /\ call' = [call EXCEPT ![c] = Idle]
    /\ UNCHANGED <<heap, pool, streak>>

Tick ==
    /\ \A c \in Call : call[c].at = "attempt" => call[c].left > 0
    /\ heap' = [o \in Obj |-> [heap[o] EXCEPT !.openFor = IF @ > 0 THEN @ - 1 ELSE 0]]
    /\ call' = [c \in Call |-> [call[c] EXCEPT !.left = IF @ > 0 THEN @ - 1 ELSE 0]]
    /\ UNCHANGED <<pool, streak>>

Next ==
    \/ Tick
    \/ \E c \in Call : \/ Start(c) \/ Refuse(c) \/ Succeed(c) \/ Fault(c)
                       \/ Retry(c) \/ GiveUp(c) \/ TimeOut(c)

Spec == Init /\ [][Next]_vars

\* Time passes, timers fire; nothing is asked of the provider or the clients.
FairSpec ==
    /\ Spec
    /\ WF_vars(Tick)
    /\ \A c \in Call : WF_vars(Retry(c)) /\ WF_vars(TimeOut(c))

-----------------------------------------------------------------------------
Step == [at : {"idle", "attempt", "backoff"}, holds : Obj \cup {None},
         attempt : Nat, left : 0..Timeout]

TypeOK ==
    /\ heap \in [Obj -> Breaker]
    /\ pool \in Obj \cup {None}
    /\ call \in [Call -> Step]
    /\ \A c \in Call : call[c].attempt <= Retries[c]
    /\ streak \in 0..Threshold

(***************************************************************************)
(* Whatever the provider does, a call is over in the end: BE-AI-07 bounds  *)
(* every provider call, each attempt by its own timer.                     *)
(***************************************************************************)
EveryCallEnds == \A c \in Call : call[c].at # "idle" ~> call[c].at = "idle"

(***************************************************************************)
(* The breaker never shuts the provider off for good: as long as requests  *)
(* keep being refused and stragglers keep failing, there is still always   *)
(* a later moment at which a call is let through.                          *)
(***************************************************************************)
AdmitsAgain == []<>~IsOpen

(***************************************************************************)
(* RUNBOOK.md: AI_BREAKER_THRESHOLD is the number of transient failures    *)
(* before the breaker opens.  It opens at that many faults in a row, of    *)
(* first attempts or retries, when no other call is in flight at them and  *)
(* none succeeds between them, whatever overlapping calls left in the pool *)
(* before.                                                                 *)
(***************************************************************************)
ThresholdOpens ==
    [][streak < Threshold /\ streak' = Threshold => IsOpen']_vars

=============================================================================
