--------------------------- MODULE AiBreakerProofs ---------------------------
(***************************************************************************)
(* For any number of overlapping calls, any threshold, deadline and retry  *)
(* limits: a request is attempted at most once more than its retry limit,  *)
(* and faults in a row of calls that run alone open the breaker, although  *)
(* calls that overlapped before may count into objects of their own.       *)
(***************************************************************************)
EXTENDS AiBreaker, FiniteSetTheorems, TLAPS

\* A call under way counts into an object, and waits only for a retry it has.
UnderWay ==
    \A c \in Call :
        /\ call[c].at # "idle" => call[c].holds \in Obj
        /\ call[c].at = "backoff" => call[c].attempt < Retries[c]

\* The faults of a streak are counted in the object of the pool, which every
\* call under way holds by then.
StreakCounted ==
    streak > 0 =>
        /\ pool \in Obj
        /\ heap[pool].failures >= streak
        /\ \A c \in Call : call[c].at # "idle" => call[c].holds = pool

BreakerInv == TypeOK /\ UnderWay /\ StreakCounted

\* There are more objects than calls and the pool can refer to.
LEMMA FreshIsNew ==
    ASSUME TypeOK
    PROVE  Fresh \in Obj /\ Fresh # pool /\ \A c \in Call : call[c].holds # Fresh
<1> DEFINE held == {call[c].holds : c \in Call}
           f == [c \in Call |-> call[c].holds]
<1>1. f \in Surjection(Call, held)
  BY DEF Surjection
<1>2. IsFiniteSet(held) /\ Cardinality(held) <= Cardinality(Call)
  <2> HIDE DEF f, held
  <2> QED
    BY <1>1, FS_Surjection, BreakerAssumption
<1>3. Cardinality(held) \in Nat /\ Cardinality(Call) \in Nat /\ Cardinality(Obj) \in Nat
  BY <1>2, FS_CardinalityType, BreakerAssumption
<1>4. /\ IsFiniteSet(held \cup {pool})
      /\ Cardinality(held \cup {pool}) <= Cardinality(held) + 1
  <2> HIDE DEF held
  <2> QED
    BY <1>2, <1>3, FS_AddElement
<1>5. Cardinality(held \cup {pool}) \in Nat
  BY <1>4, FS_CardinalityType
<1>6. ~(Obj \subseteq held \cup {pool})
  <2> HIDE DEF held
  <2>1. ASSUME Obj \subseteq held \cup {pool}
        PROVE  Cardinality(Obj) <= Cardinality(held \cup {pool})
    BY <2>1, <1>4, FS_Subset
  <2> QED
    BY <2>1, <1>2, <1>3, <1>4, <1>5, BreakerAssumption
<1>7. \E o \in Obj : o # pool /\ \A c \in Call : call[c].holds # o
  BY <1>6
<1> QED
  BY <1>7 DEF Fresh

\* What one step of a call leaves of the other calls.
Moves(c, to) == call' = [call EXCEPT ![c] = to]

LEMMA CallMoves ==
    ASSUME TypeOK, NEW c \in Call, NEW to, Moves(c, to), to \in Step,
           to.attempt <= Retries[c]
    PROVE  /\ call' \in [Call -> Step]
           /\ \A d \in Call : call'[d].attempt <= Retries[d]
           /\ call'[c] = to /\ \A d \in Call \ {c} : call'[d] = call[d]
BY DEF TypeOK, Moves

LEMMA IdleIsStep == Idle \in Step /\ Idle.at = "idle" /\ Idle.attempt = 0
BY BreakerAssumption DEF Idle, Step

LEMMA AttemptIsStep ==
    ASSUME NEW o \in Obj, NEW n \in Nat
    PROVE  /\ Attempting(o, n) \in Step
           /\ Attempting(o, n).holds = o /\ Attempting(o, n).attempt = n
           /\ Attempting(o, n).at = "attempt"
BY BreakerAssumption DEF Attempting, Step

LEMMA NewBreakerIsBreaker == NewBreaker \in Breaker /\ NewBreaker.failures = 0
BY BreakerAssumption DEF NewBreaker, Breaker

\* A fault counts one more failure, up to the threshold, where it opens.
LEMMA CountedFailures ==
    ASSUME TypeOK, NEW o \in Obj
    PROVE  /\ Counted(o) \in Breaker
           /\ Counted(o).failures = AtMost(heap[o].failures + 1, Threshold)
           /\ Counted(o).failures = Threshold => Counted(o).openFor > 0
<1>1. heap[o] \in Breaker /\ Threshold \in Nat \ {0} /\ Timeout \in Nat \ {0}
  BY BreakerAssumption DEF TypeOK
<1>2. heap[o].failures \in 0..Threshold /\ heap[o].openFor \in 0..Timeout
  BY <1>1 DEF Breaker
<1>3. AtMost(heap[o].failures + 1, Threshold) \in 0..Threshold
  BY <1>1, <1>2 DEF AtMost
<1> QED
  BY <1>1, <1>2, <1>3 DEF Counted, Breaker

\* A fault ends the call or lets it wait for its retry.
AfterFault(c) == IF call[c].attempt < Retries[c]
                   THEN [call[c] EXCEPT !.at = "backoff", !.left = 0] ELSE Idle

LEMMA FaultMoves ==
    ASSUME TypeOK, UnderWay, NEW c \in Call, Fault(c)
    PROVE  /\ Moves(c, AfterFault(c)) /\ AfterFault(c) \in Step
           /\ AfterFault(c).attempt <= Retries[c]
           /\ AfterFault(c).at # "idle" => AfterFault(c).holds = call[c].holds
           /\ AfterFault(c).at = "backoff" => AfterFault(c).attempt < Retries[c]
           /\ call[c].holds \in Obj
<1>1. call[c] \in Step /\ call[c].attempt <= Retries[c] /\ Retries[c] \in Nat
  BY BreakerAssumption DEF TypeOK
<1>2. Moves(c, AfterFault(c))
  BY DEF Fault, Moves, AfterFault
<1>3. call[c].holds \in Obj
  BY DEF Fault, UnderWay
<1>4. CASE call[c].attempt < Retries[c]
  <2>1. AfterFault(c) = [at |-> "backoff", holds |-> call[c].holds,
                         attempt |-> call[c].attempt, left |-> 0]
    BY <1>1, <1>4 DEF AfterFault, Step
  <2>2. PICK r : r = AfterFault(c)
    OBVIOUS
  <2>3. /\ r.at = "backoff" /\ r.holds = call[c].holds
        /\ r.attempt = call[c].attempt /\ r \in Step
    BY <1>1, <2>1, <2>2, BreakerAssumption DEF Step
  <2> QED
    BY <1>1, <1>2, <1>3, <1>4, <2>2, <2>3
<1>5. CASE ~(call[c].attempt < Retries[c])
  BY <1>1, <1>2, <1>3, <1>5, IdleIsStep DEF AfterFault
<1> QED
  BY <1>4, <1>5

LEMMA LengthenedStreak ==
    ASSUME TypeOK, NEW c \in Call
    PROVE  /\ Lengthened(c) \in 0..Threshold
           /\ Lengthened(c) > 0 =>
                /\ \A d \in Call \ {c} : call[d].at = "idle"
                /\ Lengthened(c) = AtMost(streak + 1, Threshold)
BY BreakerAssumption DEF TypeOK, Lengthened, AtMost

LEMMA BreakerStep ==
    ASSUME BreakerInv, [Next]_vars
    PROVE  BreakerInv'
<1> USE DEF BreakerInv
<1>0. /\ TypeOK /\ UnderWay /\ StreakCounted
      /\ streak \in 0..Threshold /\ Threshold \in Nat \ {0}
      /\ heap \in [Obj -> Breaker] /\ pool \in Obj \cup {None}
      /\ call \in [Call -> Step]
      /\ \A c \in Call : /\ call[c] \in Step /\ call[c].attempt \in Nat
                         /\ call[c].attempt <= Retries[c] /\ Retries[c] \in Nat
      /\ None \notin Obj
  BY BreakerAssumption DEF TypeOK, Step
<1>1. CASE UNCHANGED vars
  BY <1>1 DEF vars, TypeOK, UnderWay, StreakCounted
<1>2. CASE Tick
  <2>1. /\ pool' = pool /\ streak' = streak
        /\ \A c \in Call : call'[c] = [call[c] EXCEPT !.left = IF @ > 0 THEN @ - 1 ELSE 0]
        /\ \A o \in Obj : heap'[o] = [heap[o] EXCEPT !.openFor = IF @ > 0 THEN @ - 1 ELSE 0]
        /\ DOMAIN call' = Call /\ DOMAIN heap' = Obj
        /\ call' = [c \in Call |-> call'[c]] /\ heap' = [o \in Obj |-> heap'[o]]
    BY <1>2 DEF Tick
  <2>2. ASSUME NEW c \in Call
        PROVE  /\ call'[c] \in Step /\ call'[c].at = call[c].at
               /\ call'[c].holds = call[c].holds /\ call'[c].attempt = call[c].attempt
    <3>1. Timeout \in Nat
      BY BreakerAssumption
    <3> QED
      BY <1>0, <2>1, <3>1 DEF Step
  <2>3. ASSUME NEW o \in Obj
        PROVE  heap'[o] \in Breaker /\ heap'[o].failures = heap[o].failures
    <3>1. Timeout \in Nat
      BY BreakerAssumption
    <3> QED
      BY <1>0, <2>1, <3>1 DEF Breaker
  <2>4. TypeOK'
    BY <1>0, <2>1, <2>2, <2>3 DEF TypeOK
  <2> QED
    BY <1>0, <2>1, <2>2, <2>3, <2>4 DEF UnderWay, StreakCounted
<1>3. ASSUME NEW c \in Call, Start(c)
      PROVE  BreakerInv'
  <2> DEFINE o == IF pool = None THEN Fresh ELSE pool
  <2>1. o \in Obj
    BY <1>0, FreshIsNew
  <2>2. /\ Moves(c, Attempting(o, 0)) /\ UNCHANGED <<pool, streak>>
        /\ heap' = IF pool = None THEN [heap EXCEPT ![o] = NewBreaker] ELSE heap
    BY <1>3 DEF Start, Moves
  <2>3. /\ Attempting(o, 0) \in Step /\ Attempting(o, 0).holds = o
        /\ Attempting(o, 0).at = "attempt"
        /\ Attempting(o, 0).attempt <= Retries[c]
    <3> HIDE DEF o
    <3> QED
      BY <1>0, <2>1, AttemptIsStep
  <2>4. /\ call' \in [Call -> Step]
        /\ \A d \in Call : call'[d].attempt <= Retries[d]
        /\ call'[c] = Attempting(o, 0) /\ \A d \in Call \ {c} : call'[d] = call[d]
    <3> HIDE DEF o
    <3> QED
      BY <1>0, <2>2, <2>3, CallMoves
  <2>5. heap' \in [Obj -> Breaker]
    BY <1>0, <2>2, NewBreakerIsBreaker
  <2>6. streak > 0 => pool \in Obj /\ o = pool /\ heap' = heap
    BY <1>0, <2>2 DEF StreakCounted
  <2> QED
    BY <1>0, <2>1, <2>2, <2>3, <2>4, <2>5, <2>6 DEF TypeOK, UnderWay, StreakCounted
<1>4. ASSUME NEW c \in Call, Succeed(c)
      PROVE  BreakerInv'
  <2>1. Fresh \in Obj
    BY <1>0, FreshIsNew
  <2>2. /\ Moves(c, Idle) /\ pool' = Fresh /\ streak' = 0
        /\ heap' = [heap EXCEPT ![Fresh] = NewBreaker]
    BY <1>4 DEF Succeed, Moves
  <2>3. /\ call' \in [Call -> Step]
        /\ \A d \in Call : call'[d].attempt <= Retries[d]
        /\ call'[c] = Idle /\ \A d \in Call \ {c} : call'[d] = call[d]
    BY <1>0, <2>2, IdleIsStep, CallMoves
  <2>4. heap' \in [Obj -> Breaker]
    BY <1>0, <2>2, NewBreakerIsBreaker
  <2> QED
    BY <1>0, <2>1, <2>2, <2>3, <2>4, IdleIsStep DEF TypeOK, UnderWay, StreakCounted
<1>5. ASSUME NEW c \in Call, Fault(c)
      PROVE  BreakerInv'
  <2>1. PICK o : o = call[c].holds
    OBVIOUS
  <2>2. /\ Moves(c, AfterFault(c)) /\ AfterFault(c) \in Step
        /\ AfterFault(c).attempt <= Retries[c]
        /\ AfterFault(c).at # "idle" => AfterFault(c).holds = o
        /\ AfterFault(c).at = "backoff" => AfterFault(c).attempt < Retries[c]
        /\ o \in Obj
    BY <1>0, <1>5, <2>1, FaultMoves
  <2>3. heap' = [heap EXCEPT ![o] = Counted(o)] /\ pool' = o /\ streak' = Lengthened(c)
    BY <1>5, <2>1 DEF Fault
  <2>4. /\ call' \in [Call -> Step]
        /\ \A d \in Call : call'[d].attempt <= Retries[d]
        /\ call'[c] = AfterFault(c) /\ \A d \in Call \ {c} : call'[d] = call[d]
    BY <1>0, <2>2, CallMoves
  <2>5. heap' \in [Obj -> Breaker] /\ heap'[o] = Counted(o)
    BY <1>0, <2>2, <2>3, CountedFailures
  <2>6. TypeOK'
    BY <1>0, <2>2, <2>3, <2>4, <2>5, LengthenedStreak DEF TypeOK
  <2>7. UnderWay'
    BY <1>0, <2>2, <2>4 DEF UnderWay
  <2>8. StreakCounted'
    <3>1. SUFFICES ASSUME streak' > 0
                   PROVE  /\ heap'[o].failures >= streak'
                          /\ \A d \in Call : call'[d].at # "idle" => call'[d].holds = o
      BY <2>2, <2>3 DEF StreakCounted
    <3>2. /\ \A d \in Call \ {c} : call[d].at = "idle"
          /\ streak' = AtMost(streak + 1, Threshold)
      BY <1>0, <2>3, <3>1, LengthenedStreak
    <3>3. heap'[o].failures = AtMost(heap[o].failures + 1, Threshold)
      BY <1>0, <2>2, <2>5, CountedFailures
    <3>4. heap[o].failures \in Nat /\ heap[o].failures >= streak
      <4>1. heap[o].failures \in Nat
        BY <1>0, <2>2 DEF Breaker
      <4>2. streak > 0 => o = pool /\ heap[pool].failures >= streak
        BY <1>0, <1>5, <2>1 DEF StreakCounted, Fault
      <4> QED
        BY <1>0, <4>1, <4>2
    <3> QED
      BY <1>0, <2>2, <2>4, <3>2, <3>3, <3>4 DEF AtMost
  <2> QED
    BY <2>6, <2>7, <2>8
<1>6. ASSUME NEW c \in Call, Retry(c)
      PROVE  BreakerInv'
  <2>1. PICK o : o = call[c].holds
    OBVIOUS
  <2>2. PICK n : n = call[c].attempt + 1
    OBVIOUS
  <2>3. o \in Obj /\ n \in Nat /\ n <= Retries[c] /\ call[c].at = "backoff"
    BY <1>0, <1>6, <2>1, <2>2 DEF Retry, UnderWay
  <2>4. Moves(c, Attempting(o, n)) /\ UNCHANGED <<heap, pool, streak>>
    BY <1>6, <2>1, <2>2 DEF Retry, Moves
  <2>5. /\ Attempting(o, n) \in Step /\ Attempting(o, n).holds = o
        /\ Attempting(o, n).attempt = n /\ Attempting(o, n).at = "attempt"
    BY <2>3, AttemptIsStep
  <2>6. /\ call' \in [Call -> Step]
        /\ \A d \in Call : call'[d].attempt <= Retries[d]
        /\ call'[c] = Attempting(o, n) /\ \A d \in Call \ {c} : call'[d] = call[d]
    BY <1>0, <2>3, <2>4, <2>5, CallMoves
  <2>7. streak > 0 => o = pool
    BY <1>0, <2>1, <2>3 DEF StreakCounted
  <2> QED
    BY <1>0, <2>3, <2>4, <2>5, <2>6, <2>7 DEF TypeOK, UnderWay, StreakCounted
<1>7. ASSUME NEW c \in Call, GiveUp(c) \/ TimeOut(c)
      PROVE  BreakerInv'
  <2>1. Moves(c, Idle) /\ UNCHANGED <<heap, pool, streak>>
    BY <1>7 DEF GiveUp, TimeOut, Moves
  <2>2. /\ call' \in [Call -> Step]
        /\ \A d \in Call : call'[d].attempt <= Retries[d]
        /\ call'[c] = Idle /\ \A d \in Call \ {c} : call'[d] = call[d]
    BY <1>0, <2>1, IdleIsStep, CallMoves
  <2> QED
    BY <1>0, <2>1, <2>2, IdleIsStep DEF TypeOK, UnderWay, StreakCounted
<1>8. ASSUME NEW c \in Call, Refuse(c)
      PROVE  BreakerInv'
  BY <1>1, <1>8 DEF Refuse
<1> QED
  BY <1>1, <1>2, <1>3, <1>4, <1>5, <1>6, <1>7, <1>8 DEF Next

LEMMA BreakerInvariant == Spec => []BreakerInv
<1>1. Init => BreakerInv
  <2> SUFFICES ASSUME Init PROVE BreakerInv
    OBVIOUS
  <2>1. /\ \A c \in Call : call[c] \in Step /\ call[c].at = "idle"
                           /\ call[c].attempt = 0 /\ Retries[c] \in Nat
        /\ call \in [Call -> Step]
    BY IdleIsStep, BreakerAssumption DEF Init
  <2>2. heap \in [Obj -> Breaker] /\ pool = None /\ streak = 0
    BY NewBreakerIsBreaker DEF Init
  <2> QED
    BY <2>1, <2>2, BreakerAssumption
    DEF BreakerInv, TypeOK, UnderWay, StreakCounted
<1>2. BreakerInv /\ [Next]_vars => BreakerInv'
  BY BreakerStep
<1> QED
  BY <1>1, <1>2, PTL DEF Spec

(***************************************************************************)
(* The loop of callProvider attempts a request at most retryLimit + 1      *)
(* times, and the objects of the pool never count past the threshold: the  *)
(* type invariant of the calls and breakers.                               *)
(***************************************************************************)
THEOREM BreakerTypes == Spec => []TypeOK
<1>1. BreakerInv => TypeOK
  BY DEF BreakerInv
<1> QED
  BY <1>1, BreakerInvariant, PTL

(***************************************************************************)
(* Faults in a row of calls that run alone open the breaker at the         *)
(* threshold, whichever objects overlapping calls counted into before: by  *)
(* then every call under way holds the object of the pool, and that object *)
(* has counted them all.                                                   *)
(***************************************************************************)
THEOREM FaultsOpenBreaker == Spec => ThresholdOpens
<1>1. ASSUME BreakerInv, BreakerInv', [Next]_vars,
             streak < Threshold, streak' = Threshold
      PROVE  IsOpen'
  <2>0. /\ TypeOK /\ UnderWay /\ StreakCounted
        /\ streak \in 0..Threshold /\ Threshold \in Nat \ {0}
        /\ pool \in Obj \cup {None} /\ None \notin Obj
        /\ heap \in [Obj -> Breaker]
    BY <1>1, BreakerAssumption DEF BreakerInv, TypeOK
  <2>1. streak' # streak /\ streak' # 0
    BY <1>1, <2>0
  <2>2. PICK c \in Call : Fault(c)
    BY <1>1, <2>1 DEF Next, Tick, Start, Refuse, Succeed, Retry, GiveUp, TimeOut, vars
  <2>3. PICK o : o = call[c].holds
    OBVIOUS
  <2>4. o \in Obj /\ heap' = [heap EXCEPT ![o] = Counted(o)] /\ pool' = o
    BY <2>0, <2>2, <2>3 DEF Fault, UnderWay
  <2>5. heap'[o] = Counted(o)
    BY <2>0, <2>4
  <2>6. heap'[o].failures >= Threshold
    BY <1>1, <2>0, <2>4 DEF BreakerInv, StreakCounted
  <2>7. heap'[o].failures \in 0..Threshold
    BY <1>1, <2>4 DEF BreakerInv, TypeOK, Breaker
  <2>8. Counted(o).openFor > 0
    BY <2>0, <2>4, <2>5, <2>6, <2>7, CountedFailures
  <2> QED
    BY <2>0, <2>4, <2>5, <2>8 DEF IsOpen
<1>2. BreakerInv /\ BreakerInv' /\ [Next]_vars
        => [streak < Threshold /\ streak' = Threshold => IsOpen']_vars
  BY <1>1
<1> QED
  BY <1>2, BreakerInvariant, PTL DEF Spec, ThresholdOpens

=============================================================================
