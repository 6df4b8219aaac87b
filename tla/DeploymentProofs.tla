-------------------------- MODULE DeploymentProofs --------------------------
(***************************************************************************)
(* For every number of addresses and every limit, map size, window and     *)
(* clock: the limiter lets no address past its limit within a window, and  *)
(* refuses a request only for what happened within the present window.     *)
(* The deployment implements the limiter, so that this holds of the server *)
(* behind it; and the server drains its pool only when nobody waits for an *)
(* answer.                                                                 *)
(***************************************************************************)
EXTENDS Deployment, FiniteSetTheorems, TLAPS

-----------------------------------------------------------------------------
\* The limiter

\* A bucket holds at most Limit requests, all admitted for its address, and
\* its last hit is one of them and not in the future.
BucketsHoldHits ==
    \A a \in DOMAIN buckets :
        /\ IsFiniteSet(buckets[a].hits)
        /\ Cardinality(buckets[a].hits) <= Limit
        /\ \A r \in buckets[a].hits :
              /\ r \in DOMAIN asked
              /\ asked[r].verdict = "admitted"
              /\ asked[r].address = a
              /\ asked[r].at <= buckets[a].last
        /\ \E r \in buckets[a].hits : asked[r].at = buckets[a].last
        /\ buckets[a].last <= now

\* A request let through is in its bucket for as long as it counts.
CountedKept ==
    \A r \in DOMAIN asked :
        (asked[r].verdict = "admitted" /\ Recent(r)) =>
            /\ asked[r].address \in DOMAIN buckets
            /\ r \in buckets[asked[r].address].hits

\* No bucket expires before the next instant to prune at.
PrunedInTime ==
    \A a \in DOMAIN buckets : nextPruneAt <= buckets[a].last + Window

\* The map is pruned again within a window.
NextPruneNear == nextPruneAt <= now + Window

\* The map never holds more addresses than it may.
MapBounded ==
    /\ IsFiniteSet(DOMAIN buckets)
    /\ Cardinality(DOMAIN buckets) <= BucketLimit

LimiterInv ==
    /\ LimiterTypeOK
    /\ MapBounded
    /\ BucketsHoldHits
    /\ CountedKept
    /\ PrunedInTime
    /\ NextPruneNear

-----------------------------------------------------------------------------
\* What pruning leaves is exactly the buckets that are live: before
\* nextPruneAt every bucket is (prune of rate_limit.ts).
LEMMA PrunedIsLive ==
    ASSUME LimiterInv
    PROVE  /\ DOMAIN Pruned = {a \in DOMAIN buckets : Live(buckets[a])}
           /\ \A a \in DOMAIN Pruned : Pruned[a] = buckets[a]
<1>1. \A a \in DOMAIN buckets : buckets[a].last \in Nat /\ now \in Nat
  BY LimiterConstants DEF LimiterInv, LimiterTypeOK, Bucket
<1>2. CASE now < nextPruneAt
  <2>1. \A a \in DOMAIN buckets : Live(buckets[a])
    BY <1>1, <1>2, LimiterConstants
       DEF LimiterInv, LimiterTypeOK, PrunedInTime, Live
  <2> QED
    BY <1>2, <2>1 DEF Pruned
<1>3. CASE ~(now < nextPruneAt)
  BY <1>3 DEF Pruned
<1> QED
  BY <1>2, <1>3

LEMMA PrunedIsSmaller ==
    ASSUME LimiterInv
    PROVE  /\ IsFiniteSet(DOMAIN Pruned)
           /\ Cardinality(DOMAIN Pruned) \in Nat
           /\ Cardinality(DOMAIN Pruned) <= BucketLimit
<1>1. DOMAIN Pruned \subseteq DOMAIN buckets
  BY PrunedIsLive
<1>2. /\ IsFiniteSet(DOMAIN Pruned)
      /\ Cardinality(DOMAIN Pruned) <= Cardinality(DOMAIN buckets)
  BY <1>1, FS_Subset DEF LimiterInv, MapBounded
<1>3. /\ Cardinality(DOMAIN Pruned) \in Nat
      /\ Cardinality(DOMAIN buckets) \in Nat
  BY <1>2, FS_CardinalityType DEF LimiterInv, MapBounded
<1> QED
  BY <1>2, <1>3, LimiterConstants DEF LimiterInv, MapBounded

\* The hits the limiter counts for an address are the requests it let
\* through within the window, and at most Limit.
LEMMA HitsAreCounted ==
    ASSUME LimiterInv, NEW a \in Address
    PROVE  /\ Hits(a) = Counted(a)
           /\ IsFiniteSet(Hits(a))
           /\ Cardinality(Hits(a)) \in Nat
           /\ Cardinality(Hits(a)) <= Limit
<1>1. CASE Known(a)
  <2>1. a \in DOMAIN buckets /\ Pruned[a] = buckets[a]
    BY <1>1, PrunedIsLive DEF Known
  <2>2. Hits(a) = {r \in buckets[a].hits : Recent(r)}
    BY <1>1, <2>1 DEF Hits
  <2>3. Hits(a) = Counted(a)
    BY <2>1, <2>2
       DEF LimiterInv, BucketsHoldHits, CountedKept, Counted
  <2>4. /\ IsFiniteSet(buckets[a].hits)
        /\ Cardinality(buckets[a].hits) <= Limit
        /\ Hits(a) \subseteq buckets[a].hits
    BY <2>1, <2>2 DEF LimiterInv, BucketsHoldHits
  <2>5. /\ IsFiniteSet(Hits(a))
        /\ Cardinality(Hits(a)) <= Cardinality(buckets[a].hits)
    BY <2>4, FS_Subset
  <2>6. Cardinality(Hits(a)) \in Nat /\ Cardinality(buckets[a].hits) \in Nat
    BY <2>4, <2>5, FS_CardinalityType
  <2> QED
    BY <2>3, <2>4, <2>5, <2>6, LimiterConstants
<1>2. CASE ~Known(a)
  <2>1. Hits(a) = {}
    BY <1>2 DEF Hits
  <2>2. Counted(a) = {}
    <3> SUFFICES ASSUME NEW r \in Counted(a)
                 PROVE  FALSE
      OBVIOUS
    <3>1. /\ r \in DOMAIN asked /\ Recent(r)
          /\ a \in DOMAIN buckets /\ r \in buckets[a].hits
      BY DEF Counted, LimiterInv, CountedKept
    <3>2. asked[r].at <= buckets[a].last
      BY <3>1 DEF LimiterInv, BucketsHoldHits
    <3>3. now \in Nat /\ asked[r].at \in Nat /\ buckets[a].last \in Nat
      BY <3>1, LimiterConstants
         DEF LimiterInv, LimiterTypeOK, Bucket, Answer
    <3>4. Live(buckets[a])
      BY <3>1, <3>2, <3>3, LimiterConstants DEF Recent, Live
    <3> QED
      BY <1>2, <3>1, <3>4, PrunedIsLive DEF Known
  <2> QED
    BY <2>1, <2>2, FS_EmptySet, LimiterConstants
<1> QED
  BY <1>1, <1>2

\* The addresses the pruned map still holds are the active ones.
LEMMA ActiveIsPruned ==
    ASSUME LimiterInv
    PROVE  Active = DOMAIN Pruned
<1>1. ASSUME NEW a \in DOMAIN Pruned
      PROVE  a \in Active
  <2>1. /\ a \in DOMAIN buckets /\ a \in Address
        /\ Live(buckets[a]) /\ Known(a)
    BY PrunedIsLive DEF LimiterInv, LimiterTypeOK, Known
  <2>2. PICK r \in buckets[a].hits :
            asked[r].at = buckets[a].last /\ r \in DOMAIN asked
            /\ asked[r].verdict = "admitted" /\ asked[r].address = a
    BY <2>1 DEF LimiterInv, BucketsHoldHits
  <2>3. r \in Counted(a)
    BY <2>1, <2>2 DEF Counted, Recent, Live
  <2> QED
    BY <2>1, <2>3 DEF Active
<1>2. ASSUME NEW a \in Active
      PROVE  a \in DOMAIN Pruned
  <2>1. a \in Address /\ Hits(a) # {}
    BY HitsAreCounted DEF Active
  <2> QED
    BY <2>1 DEF Hits, Known
<1> QED
  BY <1>1, <1>2

-----------------------------------------------------------------------------
\* The new prune instant comes before the end of every bucket that stays and
\* of every bucket that gets a hit now.
LEMMA NextPruneInTime ==
    ASSUME LimiterInv, Prunes
    PROVE  /\ nextPruneAt' \in 0..LastTick + Window
           /\ nextPruneAt' <= now + Window
           /\ \A a \in DOMAIN Pruned : nextPruneAt' <= Pruned[a].last + Window
<1>0. /\ now \in 0..LastTick /\ nextPruneAt \in 0..LastTick + Window
      /\ \A a \in DOMAIN Pruned :
            Pruned[a] = buckets[a] /\ a \in DOMAIN buckets
            /\ Pruned[a].last \in 0..LastTick
  BY PrunedIsLive DEF LimiterInv, LimiterTypeOK, Bucket
<1>1. CASE now < nextPruneAt
  <2>1. nextPruneAt' = nextPruneAt /\ Pruned = buckets
    BY <1>1 DEF Prunes, Pruned
  <2>2. nextPruneAt <= now + Window
    BY <1>0, <1>1 DEF LimiterInv, NextPruneNear
  <2> QED
    BY <1>0, <2>1, <2>2 DEF LimiterInv, PrunedInTime
<1>2. CASE ~(now < nextPruneAt)
  <2>1. nextPruneAt' \in Ends /\ \A t \in Ends : nextPruneAt' <= t
    BY <1>2 DEF Prunes
  <2>2. \A t \in Ends : t \in 0..LastTick + Window
    BY <1>0, LimiterConstants DEF Ends
  <2> QED
    BY <2>1, <2>2 DEF Ends
<1> QED
  BY <1>1, <1>2

\* A request and its answer leave the earlier ones as they were.
LEMMA AnswerKeepsOthers ==
    ASSUME LimiterInv, NEW r \in Request, NEW a \in Address,
           NEW v \in Verdict, Answers(r, a, v)
    PROVE  /\ now' = now /\ r \notin DOMAIN asked
           /\ DOMAIN asked' = DOMAIN asked \cup {r}
           /\ asked'[r] = [address |-> a, at |-> now, verdict |-> v]
           /\ \A x \in DOMAIN asked : asked'[x] = asked[x]
           /\ DOMAIN asked' \subseteq Request
           /\ asked' \in [DOMAIN asked' -> Answer]
<1>1. [address |-> a, at |-> now, verdict |-> v] \in Answer
  BY DEF LimiterInv, LimiterTypeOK, Answer
<1> QED
  BY <1>1 DEF Answers, LimiterInv, LimiterTypeOK

\* A request that is refused: its bucket, if it has one, loses expired hits.
LEMMA RefusalKeepsInv ==
    ASSUME LimiterInv, NEW r \in Request, NEW a \in Address,
           RefuseFull(r, a) \/ RefuseLimited(r, a)
    PROVE  LimiterInv'
<1>1. PICK v \in {"full", "limited"} : Answers(r, a, v)
  BY DEF RefuseFull, RefuseLimited
<1>2. /\ now' = now /\ r \notin DOMAIN asked
      /\ DOMAIN asked' = DOMAIN asked \cup {r}
      /\ asked'[r].verdict # "admitted"
      /\ \A x \in DOMAIN asked : asked'[x] = asked[x]
      /\ DOMAIN asked' \subseteq Request
      /\ asked' \in [DOMAIN asked' -> Answer]
  <2>1. v \in Verdict /\ v # "admitted"
    BY DEF Verdict
  <2>2. /\ now' = now /\ r \notin DOMAIN asked
        /\ DOMAIN asked' = DOMAIN asked \cup {r}
        /\ asked'[r] = [address |-> a, at |-> now, verdict |-> v]
        /\ \A x \in DOMAIN asked : asked'[x] = asked[x]
        /\ DOMAIN asked' \subseteq Request
        /\ asked' \in [DOMAIN asked' -> Answer]
    BY <1>1, <2>1, AnswerKeepsOthers
  <2> QED
    BY <2>1, <2>2
<1>3. /\ nextPruneAt' \in 0..LastTick + Window
      /\ nextPruneAt' <= now + Window
      /\ \A b \in DOMAIN Pruned : nextPruneAt' <= Pruned[b].last + Window
  BY <1>1, NextPruneInTime DEF Answers
<1>4. /\ DOMAIN buckets' = DOMAIN Pruned
      /\ \A b \in DOMAIN Pruned :
            /\ buckets'[b].last = buckets[b].last
            /\ buckets'[b].hits = buckets[b].hits
               \/ buckets'[b].hits = {x \in buckets[b].hits : Recent(x)}
      /\ buckets' \in [DOMAIN buckets' -> Bucket]
  <2>0. \A b \in DOMAIN Pruned :
           Pruned[b] = buckets[b] /\ buckets[b] \in Bucket
    BY PrunedIsLive DEF LimiterInv, LimiterTypeOK
  <2>1. CASE RefuseFull(r, a)
    <3>1. buckets' = Pruned
      BY <2>1 DEF RefuseFull
    <3>2. Pruned = [b \in DOMAIN Pruned |-> Pruned[b]]
      BY DEF Pruned, LimiterInv, LimiterTypeOK
    <3> QED
      BY <2>0, <3>1, <3>2
  <2>2. CASE RefuseLimited(r, a)
    <3> DEFINE new == [Pruned[a] EXCEPT !.hits = Hits(a)]
    <3>1. /\ a \in DOMAIN Pruned
          /\ buckets' = With(a, new)
          /\ Hits(a) = {x \in Pruned[a].hits : Recent(x)}
      BY <2>2 DEF RefuseLimited, Known, Hits
    <3>2. new \in Bucket /\ new.last = buckets[a].last
          /\ new.hits = {x \in buckets[a].hits : Recent(x)}
      BY <2>0, <3>1 DEF Bucket
    <3>3. /\ DOMAIN buckets' = DOMAIN Pruned
          /\ \A b \in DOMAIN Pruned :
                buckets'[b] = IF b = a THEN new ELSE Pruned[b]
          /\ buckets' = [b \in DOMAIN buckets' |-> buckets'[b]]
      BY <3>1 DEF With
    <3> HIDE DEF new
    <3> QED
      BY <2>0, <3>2, <3>3
  <2> QED
    BY <2>1, <2>2
<1>5. \A b \in DOMAIN Pruned : b \in DOMAIN buckets /\ Live(buckets[b])
  BY PrunedIsLive
<1>6. LimiterTypeOK'
  BY <1>2, <1>3, <1>4, <1>5 DEF LimiterInv, LimiterTypeOK
<1>7. BucketsHoldHits'
  <2> SUFFICES ASSUME NEW b \in DOMAIN Pruned
               PROVE  /\ IsFiniteSet(buckets'[b].hits)
                      /\ Cardinality(buckets'[b].hits) <= Limit
                      /\ \A x \in buckets'[b].hits :
                            /\ x \in DOMAIN asked'
                            /\ asked'[x].verdict = "admitted"
                            /\ asked'[x].address = b
                            /\ asked'[x].at <= buckets'[b].last
                      /\ \E x \in buckets'[b].hits :
                            asked'[x].at = buckets'[b].last
                      /\ buckets'[b].last <= now'
    BY <1>4 DEF BucketsHoldHits
  <2>1. /\ IsFiniteSet(buckets[b].hits)
        /\ Cardinality(buckets[b].hits) <= Limit
        /\ \A x \in buckets[b].hits :
              /\ x \in DOMAIN asked
              /\ asked[x].verdict = "admitted"
              /\ asked[x].address = b
              /\ asked[x].at <= buckets[b].last
        /\ buckets[b].last <= now
    BY <1>5 DEF LimiterInv, BucketsHoldHits
  <2>2. PICK h \in buckets[b].hits : asked[h].at = buckets[b].last
    BY <1>5 DEF LimiterInv, BucketsHoldHits
  <2>3. Recent(h)
    BY <1>5, <2>2 DEF Recent, Live
  <2>4. buckets'[b].hits \subseteq buckets[b].hits /\ h \in buckets'[b].hits
    BY <1>4, <2>2, <2>3
  <2>5. /\ IsFiniteSet(buckets'[b].hits)
        /\ Cardinality(buckets'[b].hits) <= Cardinality(buckets[b].hits)
    BY <2>1, <2>4, FS_Subset
  <2>6. /\ Cardinality(buckets'[b].hits) \in Nat
        /\ Cardinality(buckets[b].hits) \in Nat
    BY <2>1, <2>5, FS_CardinalityType
  <2>7. Cardinality(buckets'[b].hits) <= Limit
    BY <2>1, <2>5, <2>6, LimiterConstants
  <2>8. /\ \A x \in buckets'[b].hits : asked'[x] = asked[x]
        /\ buckets'[b].last = buckets[b].last
    BY <1>2, <1>4, <2>1, <2>4
  <2> QED
    BY <1>2, <2>1, <2>2, <2>4, <2>5, <2>7, <2>8
<1>8. CountedKept'
  <2> SUFFICES ASSUME NEW x \in DOMAIN asked',
                      asked'[x].verdict = "admitted", Recent(x)'
               PROVE  /\ asked'[x].address \in DOMAIN buckets'
                      /\ x \in buckets'[asked'[x].address].hits
    BY DEF CountedKept
  <2>1. x \in DOMAIN asked /\ asked'[x] = asked[x] /\ Recent(x)
    BY <1>2 DEF Recent
  <2> DEFINE b == asked[x].address
  <2>2. b \in DOMAIN buckets /\ x \in buckets[b].hits
    BY <2>1 DEF LimiterInv, CountedKept
  <2>3. Live(buckets[b])
    <3>1. asked[x].at <= buckets[b].last
      BY <2>2 DEF LimiterInv, BucketsHoldHits
    <3>2. asked[x].at \in Nat /\ buckets[b].last \in Nat /\ now \in Nat
      BY <2>1, <2>2 DEF LimiterInv, LimiterTypeOK, Answer, Bucket
    <3> QED
      BY <2>1, <3>1, <3>2, LimiterConstants DEF Recent, Live
  <2>4. b \in DOMAIN Pruned
    BY <2>2, <2>3, PrunedIsLive
  <2> QED
    BY <1>4, <2>1, <2>2, <2>4
<1>9. PrunedInTime' /\ NextPruneNear'
  BY <1>2, <1>3, <1>4, <1>5, PrunedIsLive DEF PrunedInTime, NextPruneNear
<1>10. MapBounded'
  BY <1>4, PrunedIsSmaller DEF MapBounded
<1> QED
  BY <1>6, <1>7, <1>8, <1>9, <1>10 DEF LimiterInv

\* A request let through joins its bucket, whose expired hits go.
LEMMA AdmissionKeepsInv ==
    ASSUME LimiterInv, NEW r \in Request, NEW a \in Address, Admit(r, a)
    PROVE  LimiterInv'
<1> DEFINE new == [hits |-> Hits(a) \cup {r}, last |-> now]
<1>1. /\ now' = now /\ r \notin DOMAIN asked
      /\ DOMAIN asked' = DOMAIN asked \cup {r}
      /\ asked'[r] = [address |-> a, at |-> now, verdict |-> "admitted"]
      /\ \A x \in DOMAIN asked : asked'[x] = asked[x]
      /\ DOMAIN asked' \subseteq Request
      /\ asked' \in [DOMAIN asked' -> Answer]
  <2>1. "admitted" \in Verdict
    BY DEF Verdict
  <2>2. Answers(r, a, "admitted")
    BY DEF Admit
  <2> QED
    BY <2>1, <2>2, AnswerKeepsOthers
<1>2. /\ nextPruneAt' \in 0..LastTick + Window
      /\ nextPruneAt' <= now + Window
      /\ \A b \in DOMAIN Pruned : nextPruneAt' <= Pruned[b].last + Window
  BY NextPruneInTime DEF Admit, Answers
<1>3. \A b \in DOMAIN Pruned :
         /\ b \in DOMAIN buckets
         /\ Pruned[b] = buckets[b]
         /\ Live(buckets[b])
  BY PrunedIsLive
<1>4. now \in 0..LastTick
  BY DEF LimiterInv, LimiterTypeOK
<1>5. /\ Hits(a) = Counted(a)
      /\ IsFiniteSet(Hits(a))
      /\ Cardinality(Hits(a)) \in Nat
      /\ Cardinality(Hits(a)) < Limit
  BY HitsAreCounted DEF Admit
<1>6. /\ DOMAIN buckets' = DOMAIN Pruned \cup {a}
      /\ buckets'[a] = new
      /\ \A b \in DOMAIN Pruned \ {a} : buckets'[b] = buckets[b]
      /\ buckets' = [b \in DOMAIN buckets' |-> buckets'[b]]
  BY <1>3 DEF Admit, With
<1>7. new \in Bucket
  BY <1>4, <1>5 DEF Bucket, Counted, LimiterInv, LimiterTypeOK
<1>8. LimiterTypeOK'
  <2>1. \A b \in DOMAIN buckets' : b \in Address /\ buckets'[b] \in Bucket
    BY <1>3, <1>6, <1>7 DEF LimiterInv, LimiterTypeOK
  <2> QED
    BY <1>1, <1>2, <1>4, <1>6, <2>1 DEF LimiterTypeOK
<1>9. BucketsHoldHits'
  <2>1. /\ IsFiniteSet(Hits(a) \cup {r})
        /\ Cardinality(Hits(a) \cup {r}) <= Limit
    <3>1. r \notin Hits(a)
      BY <1>1, <1>5 DEF Counted
    <3>2. /\ IsFiniteSet(Hits(a) \cup {r})
          /\ Cardinality(Hits(a) \cup {r}) = Cardinality(Hits(a)) + 1
      BY <1>5, <3>1, FS_AddElement
    <3> QED
      BY <1>5, <3>2, LimiterConstants
  <2>2. \A x \in Hits(a) \cup {r} :
           /\ x \in DOMAIN asked'
           /\ asked'[x].verdict = "admitted"
           /\ asked'[x].address = a
           /\ asked'[x].at <= now
    <3>1. \A x \in Hits(a) : asked[x].at <= now
      <4> TAKE x \in Hits(a)
      <4>1. a \in DOMAIN buckets /\ x \in buckets[a].hits
        BY <1>3 DEF Hits, Known
      <4>2. asked[x].at <= buckets[a].last /\ buckets[a].last <= now
            /\ x \in DOMAIN asked
        BY <4>1 DEF LimiterInv, BucketsHoldHits
      <4>3. asked[x].at \in Nat /\ buckets[a].last \in Nat
        BY <4>1, <4>2 DEF LimiterInv, LimiterTypeOK, Answer, Bucket
      <4> QED
        BY <1>4, <4>2, <4>3
    <3> QED
      BY <1>1, <1>4, <1>5, <3>1 DEF Counted
  <2>3. \A b \in DOMAIN Pruned \ {a} :
           \A x \in buckets[b].hits :
              x \in DOMAIN asked /\ asked'[x] = asked[x]
    BY <1>1, <1>3 DEF LimiterInv, BucketsHoldHits
  <2>4. \A b \in DOMAIN Pruned \ {a} :
           /\ IsFiniteSet(buckets'[b].hits)
           /\ Cardinality(buckets'[b].hits) <= Limit
           /\ \A x \in buckets'[b].hits :
                 /\ x \in DOMAIN asked'
                 /\ asked'[x].verdict = "admitted"
                 /\ asked'[x].address = b
                 /\ asked'[x].at <= buckets'[b].last
           /\ \E x \in buckets'[b].hits : asked'[x].at = buckets'[b].last
           /\ buckets'[b].last <= now'
    BY <1>1, <1>3, <1>6, <2>3 DEF LimiterInv, BucketsHoldHits
  <2>5. /\ IsFiniteSet(buckets'[a].hits)
        /\ Cardinality(buckets'[a].hits) <= Limit
        /\ \A x \in buckets'[a].hits :
              /\ x \in DOMAIN asked'
              /\ asked'[x].verdict = "admitted"
              /\ asked'[x].address = a
              /\ asked'[x].at <= buckets'[a].last
        /\ \E x \in buckets'[a].hits : asked'[x].at = buckets'[a].last
        /\ buckets'[a].last <= now'
    BY <1>1, <1>4, <1>6, <2>1, <2>2
  <2> QED
    BY <1>6, <2>4, <2>5 DEF BucketsHoldHits
<1>10. CountedKept'
  <2> SUFFICES ASSUME NEW x \in DOMAIN asked',
                      asked'[x].verdict = "admitted", Recent(x)'
               PROVE  /\ asked'[x].address \in DOMAIN buckets'
                      /\ x \in buckets'[asked'[x].address].hits
    BY DEF CountedKept
  <2>1. CASE x = r
    BY <1>1, <1>6, <2>1
  <2>2. CASE x # r
    <3> DEFINE b == asked[x].address
    <3>1. x \in DOMAIN asked /\ asked'[x] = asked[x] /\ Recent(x)
      BY <1>1, <2>2 DEF Recent
    <3>2. b \in DOMAIN buckets /\ x \in buckets[b].hits /\ b \in Address
      BY <3>1 DEF LimiterInv, CountedKept, LimiterTypeOK
    <3>3. x \in Counted(b)
      BY <3>1 DEF Counted
    <3>4. b \in DOMAIN Pruned /\ x \in Hits(b)
      BY <3>2, <3>3, HitsAreCounted DEF Hits, Known
    <3> QED
      BY <1>6, <3>1, <3>2, <3>4
  <2> QED
    BY <2>1, <2>2
<1>11. PrunedInTime' /\ NextPruneNear'
  BY <1>1, <1>2, <1>3, <1>6 DEF PrunedInTime, NextPruneNear
<1>12. MapBounded'
  <2>1. CASE Known(a)
    <3>1. DOMAIN buckets' = DOMAIN Pruned
      BY <1>6, <2>1 DEF Known
    <3> QED
      BY <3>1, PrunedIsSmaller DEF MapBounded
  <2>2. CASE ~Known(a)
    <3>1. /\ a \notin DOMAIN Pruned
          /\ Cardinality(DOMAIN Pruned) < BucketLimit
      BY <2>2 DEF Known, Admit, HasPlace
    <3>2. /\ IsFiniteSet(DOMAIN Pruned \cup {a})
          /\ Cardinality(DOMAIN Pruned \cup {a}) = Cardinality(DOMAIN Pruned) + 1
      BY <3>1, PrunedIsSmaller, FS_AddElement
    <3>3. Cardinality(DOMAIN Pruned \cup {a}) <= BucketLimit
      BY <3>1, <3>2, PrunedIsSmaller, LimiterConstants
    <3> QED
      BY <1>6, <3>2, <3>3 DEF MapBounded
  <2> QED
    BY <2>1, <2>2
<1> QED
  BY <1>8, <1>9, <1>10, <1>11, <1>12 DEF LimiterInv

\* A tick lets hits expire and changes nothing else.
LEMMA TickKeepsInv ==
    ASSUME LimiterInv, Tick
    PROVE  LimiterInv'
<1>1. /\ now' = now + 1 /\ now' \in 0..LastTick /\ now \in Nat
      /\ buckets' = buckets /\ nextPruneAt' = nextPruneAt /\ asked' = asked
  BY LimiterConstants DEF LimiterInv, LimiterTypeOK, Tick, limiter
<1>2. LimiterTypeOK'
  BY <1>1 DEF LimiterInv, LimiterTypeOK
<1>3. BucketsHoldHits'
  <2>1. \A a \in DOMAIN buckets :
           buckets[a].last \in Nat /\ buckets[a].last <= now
    BY DEF LimiterInv, LimiterTypeOK, BucketsHoldHits, Bucket
  <2> QED
    BY <1>1, <2>1 DEF LimiterInv, BucketsHoldHits
<1>4. CountedKept'
  <2>1. \A r \in DOMAIN asked : Recent(r)' => Recent(r)
    <3> TAKE r \in DOMAIN asked
    <3>1. asked[r].at \in Nat
      BY DEF LimiterInv, LimiterTypeOK, Answer
    <3> QED
      BY <1>1, <3>1, LimiterConstants DEF Recent
  <2> QED
    BY <1>1, <2>1 DEF LimiterInv, CountedKept
<1>5. PrunedInTime' /\ NextPruneNear' /\ MapBounded'
  BY <1>1, LimiterConstants
     DEF LimiterInv, LimiterTypeOK, PrunedInTime, NextPruneNear, MapBounded
<1> QED
  BY <1>2, <1>3, <1>4, <1>5 DEF LimiterInv

\* A new process: no buckets, nothing asked of it yet.
LEMMA FreshKeepsInv ==
    ASSUME now \in 0..LastTick, Fresh(buckets, nextPruneAt, asked)
    PROVE  LimiterInv
<1>1. DOMAIN buckets = {} /\ DOMAIN asked = {} /\ nextPruneAt = 0
  BY DEF Fresh, NoBuckets
<1>2. LimiterTypeOK
  BY <1>1, LimiterConstants DEF Fresh, NoBuckets, LimiterTypeOK
<1>3. MapBounded
  BY <1>1, FS_EmptySet, LimiterConstants DEF MapBounded
<1> QED
  BY <1>1, <1>2, <1>3, LimiterConstants
     DEF LimiterInv, BucketsHoldHits, CountedKept, PrunedInTime, NextPruneNear,
         LimiterTypeOK

LEMMA StutterKeepsInv ==
    ASSUME LimiterInv, UNCHANGED limiterVars
    PROVE  LimiterInv'
BY DEF LimiterInv, LimiterTypeOK, BucketsHoldHits, CountedKept, PrunedInTime,
       NextPruneNear, MapBounded, Recent, limiterVars, limiter

LEMMA LimiterStepKeepsInv ==
    ASSUME LimiterInv, [LimiterNext]_limiterVars
    PROVE  LimiterInv'
<1>1. ASSUME NEW r \in Request, NEW a \in Address, Ask(r, a)
      PROVE  LimiterInv'
  BY <1>1, RefusalKeepsInv, AdmissionKeepsInv DEF Ask
<1>2. CASE Tick
  BY <1>2, TickKeepsInv
<1>3. CASE Restart
  <2>1. now' \in 0..LastTick /\ Fresh(buckets', nextPruneAt', asked')
    BY <1>3 DEF Restart, LimiterInv, LimiterTypeOK
  <2>2. DOMAIN buckets' = {} /\ DOMAIN asked' = {} /\ nextPruneAt' = 0
    BY <2>1 DEF Fresh, NoBuckets
  <2>3. LimiterTypeOK'
    BY <2>1, <2>2, LimiterConstants DEF Fresh, NoBuckets, LimiterTypeOK
  <2>4. MapBounded'
    BY <2>2, FS_EmptySet, LimiterConstants DEF MapBounded
  <2> QED
    BY <2>1, <2>2, <2>3, <2>4, LimiterConstants
       DEF LimiterInv, BucketsHoldHits, CountedKept, PrunedInTime,
           NextPruneNear, LimiterTypeOK
<1>4. CASE UNCHANGED limiterVars
  BY <1>4, StutterKeepsInv
<1> QED
  BY <1>1, <1>2, <1>3, <1>4 DEF LimiterNext

-----------------------------------------------------------------------------
\* The invariant bounds what was let through: the counted requests of an
\* address are its bucket's live hits.
LEMMA InvBounds ==
    ASSUME LimiterInv
    PROVE  WithinLimit
<1> SUFFICES ASSUME NEW a \in Address
             PROVE  Cardinality(Counted(a)) <= Limit
  BY DEF WithinLimit
<1> QED
  BY HitsAreCounted

\* A step that answers a request has the cause of its answer before it.
LEMMA InvGivesCause ==
    ASSUME LimiterInv, NEW r \in Request, NEW a \in Address, Ask(r, a)
    PROVE  \A x \in DOMAIN asked' \ DOMAIN asked : RefusalHasCause(x)
<1>1. PICK v \in Verdict : Answers(r, a, v)
  BY DEF Ask, RefuseFull, RefuseLimited, Admit, Verdict
<1>2. /\ DOMAIN asked' = DOMAIN asked \cup {r}
      /\ asked'[r] = [address |-> a, at |-> now, verdict |-> v]
  BY <1>1, AnswerKeepsOthers
<1>3. SUFFICES RefusalHasCause(r)
  BY <1>2
<1>4. asked'[r].address = a /\ asked'[r].verdict = v
  BY <1>2
<1>5. CASE RefuseFull(r, a)
  <2>1. asked'[r].verdict = "full"
    BY <1>5 DEF RefuseFull, Answers
  <2>2. Cardinality(DOMAIN Pruned) >= BucketLimit
    <3>1. ~(Cardinality(DOMAIN Pruned) < BucketLimit)
      BY <1>5 DEF RefuseFull, HasPlace
    <3> QED
      BY <3>1, PrunedIsSmaller, LimiterConstants
  <2> QED
    BY <2>1, <2>2, ActiveIsPruned DEF RefusalHasCause
<1>6. CASE RefuseLimited(r, a)
  <2>1. asked'[r].verdict = "limited"
    BY <1>6 DEF RefuseLimited, Answers
  <2>2. Cardinality(Counted(a)) >= Limit
    BY <1>6, HitsAreCounted DEF RefuseLimited
  <2> QED
    BY <1>4, <2>1, <2>2 DEF RefusalHasCause
<1>7. CASE Admit(r, a)
  <2>1. asked'[r].verdict = "admitted"
    BY <1>7 DEF Admit, Answers
  <2> QED
    BY <2>1 DEF RefusalHasCause
<1> QED
  BY <1>5, <1>6, <1>7 DEF Ask

-----------------------------------------------------------------------------
THEOREM LimiterInvariant == LimiterSpec => []LimiterInv
<1>1. LimiterInit => LimiterInv
  <2> SUFFICES ASSUME LimiterInit
               PROVE  LimiterInv
    OBVIOUS
  <2>1. now \in 0..LastTick /\ Fresh(buckets, nextPruneAt, asked)
    BY LimiterConstants DEF LimiterInit
  <2> QED
    BY <2>1, FreshKeepsInv
<1>2. LimiterInv /\ [LimiterNext]_limiterVars => LimiterInv'
  BY LimiterStepKeepsInv
<1> QED
  BY <1>1, <1>2, PTL DEF LimiterSpec

\* No address has more than Limit requests let through within a window,
\* however many addresses there are and whenever the map is pruned.
THEOREM LimiterWithinLimit == LimiterSpec => []WithinLimit
<1>1. LimiterInv => WithinLimit
  BY InvBounds
<1> QED
  BY <1>1, LimiterInvariant, PTL

\* Each refusal has its cause in the present window.
THEOREM LimiterRefusedForCause == LimiterSpec => RefusedForCause
<1>1. LimiterInv /\ [LimiterNext]_limiterVars
        => [\A r \in DOMAIN asked' \ DOMAIN asked : RefusalHasCause(r)]_limiterVars
  <2> SUFFICES ASSUME LimiterInv, LimiterNext
               PROVE  \A r \in DOMAIN asked' \ DOMAIN asked : RefusalHasCause(r)
    OBVIOUS
  <2>1. ASSUME NEW r \in Request, NEW a \in Address, Ask(r, a)
        PROVE  \A x \in DOMAIN asked' \ DOMAIN asked : RefusalHasCause(x)
    BY <2>1, InvGivesCause
  <2>2. CASE Tick
    BY <2>2 DEF Tick, limiter
  <2>3. CASE Restart
    BY <2>3 DEF Restart, Fresh, NoBuckets
  <2> QED
    BY <2>1, <2>2, <2>3 DEF LimiterNext
<1> QED
  BY <1>1, LimiterInvariant, PTL DEF LimiterSpec, RefusedForCause

-----------------------------------------------------------------------------
\* The deployment

\* Every step of the deployment is a step of the limiter or leaves it alone;
\* only a new process empties it.
LEMMA StepsOfLimiter ==
    ASSUME [Next]_vars
    PROVE  [LimiterNext]_limiterVars
<1>1. CASE BootStep
  BY <1>1
     DEF BootStep, Start, CheckSchema, AuditConfiguration, Listen, LimiterNext
<1>2. CASE RequestStep
  BY <1>2 DEF RequestStep, Arrive, Respond, Disconnect, LimiterNext
<1>3. CASE PurgeStep
  BY <1>3 DEF PurgeStep, PurgeStart, PurgeEnd
<1>4. CASE StopStep
  BY <1>4 DEF StopStep, Interrupt, Close, Drain, Exit, Kill
<1>5. CASE OperatorStep
  BY <1>5 DEF OperatorStep, Migrate, Bootstrap, DestroyBegin, DestroyCommit,
              DestroyAbandon
<1>6. CASE Clock
  BY <1>6 DEF Clock, LimiterNext
<1>7. CASE UNCHANGED vars
  BY <1>7 DEF vars
<1> QED
  BY <1>1, <1>2, <1>3, <1>4, <1>5, <1>6, <1>7 DEF Next

\* The deployment implements the limiter's specification.
THEOREM DeploymentImplementsLimiter == Spec => LimiterSpec
<1>1. Init => LimiterInit
  BY DEF Init
<1>2. [Next]_vars => [LimiterNext]_limiterVars
  BY StepsOfLimiter
<1> QED
  BY <1>1, <1>2, PTL DEF Spec, LimiterSpec

\* No address passes its limit, across restarts, drains and kills.
THEOREM DeploymentWithinLimit == Spec => []WithinLimit
BY DeploymentImplementsLimiter, LimiterWithinLimit, PTL

\* Each 429 of the server has its cause in the present window.
THEOREM DeploymentRefusedForCause == Spec => RefusedForCause
BY DeploymentImplementsLimiter, LimiterRefusedForCause, PTL

-----------------------------------------------------------------------------
\* A client that waits has an open connection.
WaitingConnected ==
    \A r \in waiting : r \in DOMAIN asked /\ asked[r].address \in conn

\* Once the server closes no purge run starts, and once it drains no
\* connection is left.
StopInOrder ==
    /\ phase \in {"closing", "draining"} => ~purge
    /\ phase = "draining" => conn = {}
    /\ phase \in Booting \cup {"off"} => waiting = {} /\ conn = {}

StopInv == TypeOK /\ WaitingConnected /\ StopInOrder

\* The answers given so far stay, except in a new process.
LEMMA AskKeepsAnswers ==
    ASSUME TypeOK, NEW r \in Request, NEW a \in Address, Ask(r, a)
    PROVE  /\ DOMAIN asked' = DOMAIN asked \cup {r} /\ r \notin DOMAIN asked
           /\ asked'[r].address = a
           /\ \A x \in DOMAIN asked : asked'[x] = asked[x]
BY DEF Ask, RefuseFull, RefuseLimited, Admit, Answers

LEMMA StopInvStep ==
    ASSUME StopInv, LimiterTypeOK', [Next]_vars
    PROVE  StopInv'
<1> USE DEF StopInv
<1>1. CASE Start
  <2>1. phase = "off" /\ phase' = "probing" /\ waiting = {} /\ conn = {}
    BY <1>1 DEF Start, Reaches, StopInOrder
  <2>2. /\ purge' = purge /\ signalled' = signalled /\ handled' = handled
        /\ waiting' = waiting /\ conn' = conn /\ schema' = schema
        /\ orgs' = orgs /\ drawn' = drawn /\ command' = command
    BY <1>1 DEF Start, Reaches, database
  <2>3. TypeOK'
    BY <2>1, <2>2 DEF TypeOK, Phase, Booting
  <2>4. WaitingConnected' /\ StopInOrder'
    BY <2>1, <2>2 DEF WaitingConnected, StopInOrder, Booting
  <2> QED
    BY <2>3, <2>4
<1>2. CASE CheckSchema \/ AuditConfiguration
  <2>1. /\ phase \in Booting /\ phase' \in Booting
        /\ UNCHANGED <<asked, purge, signalled, handled, waiting, conn>>
        /\ UNCHANGED <<schema, orgs, drawn, command>>
    BY <1>2 DEF CheckSchema, AuditConfiguration, Reaches, Booting, limiterVars,
                limiter, database
  <2>2. TypeOK'
    BY <2>1 DEF TypeOK, Phase
  <2>3. WaitingConnected' /\ StopInOrder'
    BY <2>1 DEF WaitingConnected, StopInOrder, Booting
  <2> QED
    BY <2>2, <2>3
<1>3. CASE Listen
  <2>1. /\ phase' = "serving" /\ purge' = TRUE
        /\ UNCHANGED <<asked, signalled, handled, waiting, conn>>
        /\ UNCHANGED <<schema, orgs, drawn, command>>
    BY <1>3 DEF Listen, limiterVars, limiter, database
  <2>2. TypeOK'
    BY <2>1 DEF TypeOK, Phase
  <2>3. WaitingConnected' /\ StopInOrder'
    BY <2>1 DEF WaitingConnected, StopInOrder, Booting
  <2> QED
    BY <2>2, <2>3
<1>4. ASSUME NEW r \in Request, NEW a \in Address, Arrive(r, a)
      PROVE  StopInv'
  <2>1. /\ DOMAIN asked' = DOMAIN asked \cup {r}
        /\ asked'[r].address = a
        /\ \A x \in DOMAIN asked : asked'[x] = asked[x]
    BY <1>4, AskKeepsAnswers DEF Arrive
  <2>2. /\ Reachable(a)
        /\ handled' = handled \cup {r}
        /\ waiting' = waiting \cup {r}
        /\ conn' = conn \cup {a}
        /\ UNCHANGED <<phase, purge, signalled, schema, orgs, drawn, command>>
    BY <1>4 DEF Arrive, database
  <2>3. TypeOK'
    BY <2>2 DEF TypeOK
  <2>4. WaitingConnected'
    BY <2>1, <2>2 DEF WaitingConnected
  <2>5. StopInOrder'
    BY <2>2 DEF StopInOrder, Reachable, Booting
  <2> QED
    BY <2>3, <2>4, <2>5
<1>5. ASSUME NEW r \in Request, Respond(r)
      PROVE  StopInv'
  <2>1. /\ handled' = handled \ {r} /\ waiting' = waiting \ {r}
        /\ UNCHANGED <<asked, phase, purge, signalled, conn>>
        /\ UNCHANGED <<schema, orgs, drawn, command>>
    BY <1>5 DEF Respond, limiterVars, limiter, database
  <2>2. TypeOK'
    BY <2>1 DEF TypeOK
  <2>3. WaitingConnected' /\ StopInOrder'
    BY <2>1 DEF WaitingConnected, StopInOrder
  <2> QED
    BY <2>2, <2>3
<1>6. ASSUME NEW a \in Address, Disconnect(a)
      PROVE  StopInv'
  <2>1. /\ conn' = conn \ {a}
        /\ waiting' = {r \in waiting : asked[r].address # a}
        /\ UNCHANGED <<asked, phase, purge, signalled, handled>>
        /\ UNCHANGED <<schema, orgs, drawn, command>>
    BY <1>6 DEF Disconnect, limiterVars, limiter, database
  <2>2. TypeOK'
    BY <2>1 DEF TypeOK
  <2>3. WaitingConnected' /\ StopInOrder'
    BY <2>1 DEF WaitingConnected, StopInOrder
  <2> QED
    BY <2>2, <2>3
<1>7. CASE PurgeStep
  <2>1. /\ purge' \in BOOLEAN
        /\ phase # "serving" => ~purge' \/ purge' = purge
        /\ UNCHANGED <<asked, phase, signalled, handled, waiting, conn>>
        /\ UNCHANGED <<schema, orgs, drawn, command>>
    BY <1>7
       DEF PurgeStep, PurgeStart, PurgeEnd, limiterVars, limiter, database
  <2>2. TypeOK'
    BY <2>1 DEF TypeOK
  <2>3. WaitingConnected' /\ StopInOrder'
    BY <2>1 DEF WaitingConnected, StopInOrder
  <2> QED
    BY <2>2, <2>3
<1>8. ASSUME NEW s \in Signal, Interrupt(s)
      PROVE  StopInv'
  <2>1. /\ phase' = phase \/ phase' = "stopping"
        /\ signalled' = signalled \cup {s}
        /\ UNCHANGED <<asked, purge, handled, waiting, conn>>
        /\ UNCHANGED <<schema, orgs, drawn, command>>
    BY <1>8 DEF Interrupt, limiterVars, limiter, database
  <2>2. TypeOK'
    BY <2>1 DEF TypeOK, Phase
  <2>3. WaitingConnected' /\ StopInOrder'
    BY <2>1 DEF WaitingConnected, StopInOrder, Booting
  <2> QED
    BY <2>2, <2>3
<1>9. CASE Close
  <2>1. /\ phase' = "closing" /\ ~purge /\ purge' = purge
        /\ conn' = {asked[r].address : r \in waiting}
        /\ UNCHANGED <<asked, signalled, handled, waiting>>
        /\ UNCHANGED <<schema, orgs, drawn, command>>
    BY <1>9 DEF Close, Purged, limiterVars, limiter, database
  <2>2. conn' \subseteq conn
    BY <2>1 DEF WaitingConnected
  <2>3. TypeOK'
    BY <2>1, <2>2 DEF TypeOK, Phase
  <2>4. WaitingConnected' /\ StopInOrder'
    BY <2>1 DEF WaitingConnected, StopInOrder, Booting
  <2> QED
    BY <2>3, <2>4
<1>10. CASE Drain
  <2>1. /\ phase = "closing" /\ phase' = "draining" /\ conn = {}
        /\ UNCHANGED <<asked, purge, signalled, handled, waiting, conn>>
        /\ UNCHANGED <<schema, orgs, drawn, command>>
    BY <1>10 DEF Drain, Closed, limiterVars, limiter, database
  <2>2. TypeOK'
    BY <2>1 DEF TypeOK, Phase
  <2>3. WaitingConnected' /\ StopInOrder'
    BY <2>1 DEF WaitingConnected, StopInOrder, Booting
  <2> QED
    BY <2>2, <2>3
<1>11. CASE Exit \/ Kill
  <2>1. /\ phase' = "off" /\ purge' = FALSE /\ signalled' = {}
        /\ handled' = {} /\ waiting' = {} /\ conn' = {}
        /\ UNCHANGED <<asked, schema, orgs, drawn, command>>
    BY <1>11 DEF Exit, Kill, Stopped, limiterVars, limiter, database
  <2>2. TypeOK'
    BY <2>1 DEF TypeOK, Phase
  <2>3. WaitingConnected' /\ StopInOrder'
    BY <2>1 DEF WaitingConnected, StopInOrder, Booting
  <2> QED
    BY <2>2, <2>3
<1>12. CASE OperatorStep
  <2>1. /\ UNCHANGED <<asked, phase, purge, signalled, handled, waiting, conn>>
        /\ schema' \subseteq UNION Release
        /\ orgs' \subseteq OrgId /\ drawn' \subseteq OrgId
        /\ command' \in [Command -> OrgId \cup {NoOrg}]
    BY <1>12
       DEF OperatorStep, Migrate, Bootstrap, DestroyBegin, DestroyCommit,
           DestroyAbandon, TypeOK, limiterVars, limiter, process, database
  <2>2. TypeOK'
    BY <2>1 DEF TypeOK
  <2>3. WaitingConnected' /\ StopInOrder'
    BY <2>1 DEF WaitingConnected, StopInOrder
  <2> QED
    BY <2>2, <2>3
<1>13. CASE Clock \/ UNCHANGED vars
  <2>1. /\ UNCHANGED <<asked, phase, purge, signalled, handled, waiting, conn>>
        /\ UNCHANGED <<schema, orgs, drawn, command>>
    BY <1>13
       DEF Clock, Tick, vars, process, database, limiterVars, limiter
  <2>2. TypeOK'
    BY <2>1 DEF TypeOK
  <2>3. WaitingConnected' /\ StopInOrder'
    BY <2>1 DEF WaitingConnected, StopInOrder
  <2> QED
    BY <2>2, <2>3
<1> QED
  BY <1>1, <1>2, <1>3, <1>4, <1>5, <1>6, <1>7, <1>8, <1>9, <1>10, <1>11,
     <1>12, <1>13 DEF Next, BootStep, RequestStep, StopStep

LEMMA StopInvHolds == Spec => []StopInv
<1>1. Init /\ LimiterTypeOK => StopInv
  BY DEF Init, StopInv, TypeOK, WaitingConnected, StopInOrder, Phase, Booting
<1>2. StopInv /\ LimiterTypeOK' /\ [Next]_vars => StopInv'
  BY StopInvStep
<1>3. Spec => []LimiterTypeOK
  <2>1. LimiterInv => LimiterTypeOK
    BY DEF LimiterInv
  <2> QED
    BY <2>1, DeploymentImplementsLimiter, LimiterInvariant, PTL
<1> QED
  BY <1>1, <1>2, <1>3, PTL DEF Spec

THEOREM DeploymentTypeOK == Spec => []TypeOK
<1>1. StopInv => TypeOK
  BY DEF StopInv
<1> QED
  BY <1>1, StopInvHolds, PTL

\* The pool is drained only when no client waits and no purge run goes on
\* (BE-DEP-05), with any number of connections, requests and signals.
THEOREM DeploymentDrainedOnlyWhenIdle == Spec => []DrainedOnlyWhenIdle
<1>1. StopInv => DrainedOnlyWhenIdle
  BY DEF StopInv, StopInOrder, WaitingConnected, DrainedOnlyWhenIdle
<1> QED
  BY <1>1, StopInvHolds, PTL

\* A destroy removes only the organisation it found before its transaction.
THEOREM DeploymentDestroyIsTargeted == Spec => DestroyIsTargeted
<1>1. TypeOK /\ [Next]_vars =>
        [\A o \in orgs \ orgs' :
           \E c \in Command : command[c] = o /\ command'[c] = NoOrg]_vars
  <2> SUFFICES ASSUME TypeOK, Next, NEW o \in orgs \ orgs'
               PROVE  \E c \in Command : command[c] = o /\ command'[c] = NoOrg
    OBVIOUS
  <2>1. CASE OperatorStep
    <3>1. PICK c \in Command : DestroyCommit(c)
      BY <2>1 DEF OperatorStep, Migrate, Bootstrap, DestroyBegin,
                  DestroyAbandon, database
    <3>2. orgs = {command[c]} /\ command'[c] = NoOrg
      BY <3>1 DEF DestroyCommit, Matches, TypeOK
    <3> QED
      BY <3>2
  <2>2. CASE ~OperatorStep
    BY <2>2 DEF Next, BootStep, Start, CheckSchema, AuditConfiguration, Listen,
        RequestStep, Arrive, Respond, Disconnect, PurgeStep, PurgeStart,
        PurgeEnd, StopStep, Interrupt, Close, Drain, Exit, Kill, Clock, database
  <2> QED
    BY <2>1, <2>2
<1> QED
  BY <1>1, DeploymentTypeOK, PTL DEF Spec, DestroyIsTargeted

-----------------------------------------------------------------------------
\* From the check of the schema on, the process has the file it needs.
SchemaInv ==
    /\ schema \in Release \cup {{}}
    /\ phase \notin {"off", "probing"} => SchemaIsCurrent

\* The database has the files of one release, and a serving process the one
\* it looked for: a migration never removes a row, and destroy leaves them.
THEOREM DeploymentServesMigratedSchema == Spec => []ServesMigratedSchema
<1>1. Init => SchemaInv
  BY DEF Init, SchemaInv
<1>2. SchemaInv /\ [Next]_vars => SchemaInv'
  <2> SUFFICES ASSUME SchemaInv, [Next]_vars
               PROVE  SchemaInv'
    OBVIOUS
  <2>1. ASSUME NEW files \in Release, Migrate(files)
        PROVE  SchemaInv'
    <3>1. schema' = files /\ schema \subseteq files /\ phase' = phase
      BY <2>1 DEF Migrate, Applicable, process
    <3> QED
      BY <3>1 DEF SchemaInv, SchemaIsCurrent
  <2>2. CASE BootStep
    BY <2>2 DEF BootStep, Start, CheckSchema, AuditConfiguration, Listen,
                Reaches, SchemaInv, SchemaIsCurrent, database
  <2>3. CASE RequestStep \/ PurgeStep
    BY <2>3 DEF RequestStep, Arrive, Respond, Disconnect, PurgeStep,
                PurgeStart, PurgeEnd, SchemaInv, SchemaIsCurrent, database
  <2>4. CASE StopStep
    BY <2>4 DEF StopStep, Interrupt, Close, Drain, Exit, Kill, Stopped,
                SchemaInv, SchemaIsCurrent, database, Booting
  <2>5. ASSUME OperatorStep, \A files \in Release : ~Migrate(files)
        PROVE  SchemaInv'
    BY <2>5 DEF OperatorStep, Bootstrap, DestroyBegin, DestroyCommit,
                DestroyAbandon, SchemaInv, SchemaIsCurrent, process, database
  <2>6. CASE Clock \/ UNCHANGED vars
    BY <2>6 DEF Clock, vars, SchemaInv, SchemaIsCurrent, process, database
  <2> QED
    BY <2>1, <2>2, <2>3, <2>4, <2>5, <2>6 DEF Next
<1>3. SchemaInv => ServesMigratedSchema
  BY DEF SchemaInv, ServesMigratedSchema, Booting
<1> QED
  BY <1>1, <1>2, <1>3, PTL DEF Spec

=============================================================================
