----------------------------- MODULE RateLimit -----------------------------
(***************************************************************************)
(* The request limiter of one backend process, for one kind of route       *)
(* (middleware/rate_limit.ts): a sliding window of hits for each address,  *)
(* in a map that holds a bounded number of addresses and is pruned only    *)
(* when the earliest bucket may have expired.                              *)
(*                                                                         *)
(* A request keeps its identity so that several in one tick differ; the    *)
(* handler up to its first await is one step of the event loop.            *)
(***************************************************************************)
EXTENDS Integers, FiniteSets

CONSTANTS
    Address,
    Request,        \* requests ever made
    Limit,          \* config.rateLimitAuth or rateLimitGeneral
    BucketLimit,    \* config.rateLimitBucketLimit
    Window,         \* WINDOW_MS, in ticks
    LastTick        \* bound: the clock of the instance

\* integer() of config/schema.ts admits no limit below one.
ASSUME LimiterConstants ==
    /\ Limit \in Nat \ {0}
    /\ BucketLimit \in Nat \ {0}
    /\ Window \in Nat \ {0}
    /\ LastTick \in Nat

VARIABLES
    now,            \* Date.now()
    buckets,        \* state.buckets, by address
    nextPruneAt,    \* state.nextPruneAt
    asked           \* what this process answered to each request (history)

limiter == <<buckets, nextPruneAt, asked>>
limiterVars == <<now, limiter>>

\* last is hits.at(-1), the instant of the hit pushed last.
Bucket == [hits : SUBSET Request, last : 0..LastTick]
Verdict == {"admitted", "limited", "full"}
Answer == [address : Address, at : 0..LastTick, verdict : Verdict]
NoBuckets == [a \in {} |-> 0]

LimiterTypeOK ==
    /\ now \in 0..LastTick
    /\ DOMAIN buckets \subseteq Address
    /\ buckets \in [DOMAIN buckets -> Bucket]
    /\ nextPruneAt \in 0..LastTick + Window
    /\ DOMAIN asked \subseteq Request
    /\ asked \in [DOMAIN asked -> Answer]

Fresh(b, prune, answers) == b = NoBuckets /\ prune = 0 /\ answers = NoBuckets

LimiterInit == now = 0 /\ Fresh(buckets, nextPruneAt, asked)

-----------------------------------------------------------------------------
\* prune

\* Mutant: the bucket stays one tick more.
LiveLonger(bucket) == now - bucket.last <= Window

\* now - last < WINDOW_MS
Live(bucket) == now - bucket.last < Window

Pruned ==
    IF now < nextPruneAt THEN buckets
    ELSE [a \in {b \in DOMAIN buckets : Live(buckets[b])} |-> buckets[a]]

\* The next instant to prune at: the first end of a bucket that stays.
Ends == {now + Window} \cup {Pruned[a].last + Window : a \in DOMAIN Pruned}

Prunes ==
    IF now < nextPruneAt THEN UNCHANGED nextPruneAt
    ELSE nextPruneAt' \in Ends /\ \A t \in Ends : nextPruneAt' <= t

-----------------------------------------------------------------------------
\* A request at the limiter

Recent(r) == now - asked[r].at < Window

Known(a) == a \in DOMAIN Pruned

\* Mutant: a hit is forgotten one tick early.
HitsNewer(a) ==
    IF Known(a) THEN {r \in Pruned[a].hits : now - asked[r].at < Window - 1}
    ELSE {}

\* bucket.hits.filter: the hits of the address that still count.
Hits(a) == IF Known(a) THEN {r \in Pruned[a].hits : Recent(r)} ELSE {}

\* The address has a bucket, or the map has room for one.
HasPlace(a) == Known(a) \/ Cardinality(DOMAIN Pruned) < BucketLimit

With(a, bucket) ==
    [b \in DOMAIN Pruned \cup {a} |-> IF b = a THEN bucket ELSE Pruned[b]]

Answers(r, a, verdict) ==
    /\ r \in Request \ DOMAIN asked
    /\ asked' = [x \in DOMAIN asked \cup {r} |->
                   IF x = r
                   THEN [address |-> a, at |-> now, verdict |-> verdict]
                   ELSE asked[x]]
    /\ Prunes
    /\ UNCHANGED now

\* A new address while the map is full.
RefuseFull(r, a) ==
    /\ ~HasPlace(a)
    /\ Answers(r, a, "full")
    /\ buckets' = Pruned

\* The bucket is at its limit; its expired hits go.
RefuseLimited(r, a) ==
    /\ Known(a)
    /\ Cardinality(Hits(a)) >= Limit
    /\ Answers(r, a, "limited")
    /\ buckets' = With(a, [Pruned[a] EXCEPT !.hits = Hits(a)])

Admit(r, a) ==
    /\ HasPlace(a)
    /\ Cardinality(Hits(a)) < Limit
    /\ Answers(r, a, "admitted")
    /\ buckets' = With(a, [hits |-> Hits(a) \cup {r}, last |-> now])

Ask(r, a) == RefuseFull(r, a) \/ RefuseLimited(r, a) \/ Admit(r, a)

Tick ==
    /\ now < LastTick
    /\ now' = now + 1
    /\ UNCHANGED limiter

\* A new process starts with empty limiters.
Restart == Fresh(buckets', nextPruneAt', asked') /\ UNCHANGED now

LimiterNext ==
    \/ \E r \in Request, a \in Address : Ask(r, a)
    \/ Tick
    \/ Restart

LimiterSpec == LimiterInit /\ [][LimiterNext]_limiterVars

-----------------------------------------------------------------------------
\* Properties

\* The requests of an address that the process let through within a window.
Counted(a) ==
    {r \in DOMAIN asked : /\ asked[r].verdict = "admitted"
                          /\ asked[r].address = a
                          /\ Recent(r)}

\* No address has more than Limit requests let through within a window,
\* however the requests of other addresses prune the map between them.
WithinLimit == \A a \in Address : Cardinality(Counted(a)) <= Limit

Active == {a \in Address : Counted(a) # {}}

\* A refusal has its cause in the present window: an address is limited by
\* Limit requests of its own, and a new one is turned away only while
\* BucketLimit others are active; expired buckets, pruned late, refuse nobody.
\* RUNBOOK.md, RATE_LIMIT_BUCKET_LIMIT: "additional addresses receive 429
\* until a bucket expires".
RefusalHasCause(r) ==
    /\ asked'[r].verdict = "limited" =>
          Cardinality(Counted(asked'[r].address)) >= Limit
    /\ asked'[r].verdict = "full" => Cardinality(Active) >= BucketLimit

RefusedForCause ==
    [][\A r \in DOMAIN asked' \ DOMAIN asked : RefusalHasCause(r)]_limiterVars

=============================================================================
