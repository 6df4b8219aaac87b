------------------------------- MODULE AiProxy -------------------------------
(***************************************************************************)
(* The metered AI proxy of the backend: backend/src/services/ai/proxy.ts   *)
(* with its receipts, quotas and provider selection.  A request reserves   *)
(* its largest cost in one transaction, is then sent to the provider, and  *)
(* settles in another.  A request that carries an idempotency key leaves a *)
(* receipt for ever, so that a retry is recognised: it shares the result   *)
(* of a request in flight in the same server process or is told to keep    *)
(* the attempt paused, and never reaches the provider a second time.       *)
(*                                                                         *)
(* Several replicas serve one database; every transaction takes one        *)
(* advisory lock first.  Each element of Call is one HTTP request of a     *)
(* user of the organisation; a client retries with another one.  The user, *)
(* device, operation and model of the binding are part of its content.     *)
(* The breaker of the provider (AiBreaker) appears as a request refused    *)
(* before it is sent.  A request that names a managed account or a maximum *)
(* cost behaves like a versioned one without its receipt and is left out.  *)
(***************************************************************************)
EXTENDS Naturals, FiniteSets, Functions

CONSTANTS
    Call,           \* HTTP requests
    Replica,        \* server processes
    Project, Key, Content,
    Legacy,         \* the keys whose receipt an older release wrote
    Requests,       \* the requests clients make
    RetryLimit,     \* aiRetryLimit
    Limit,          \* the four ceilings of a project and of the organisation
    LastDay,        \* bound of the clock
    MaxRevision,    \* bound of the saved personal credentials
    None

Request == [key : Key \cup {None}, content : Content, project : Project,
            kind : {"managed", "personal"}, replica : Replica]
Ceilings == [requests : Nat, dailyRequests : Nat, budget : Nat, dailyBudget : Nat]

VARIABLES
    usage, receipt,    \* ai_usage by the request or legacy key; ai_receipts
    credential,        \* the user's personal credential: its revision, or 0
    revisions,         \* how many were saved so far
    lock,              \* the request whose transaction holds the lock
    day,
    pc, req,           \* progress of a request, and what it asks for
    account,           \* the billing account selected for it
    sent,              \* how often it was sent to the provider
    gone,              \* the requests whose client went away
    active,            \* ActiveAiRequests of each replica
    follows,           \* the request in flight a retry shares, or the status read
    reply              \* what the client is answered

ledger == <<usage, receipt>>
keys == <<credential, revisions>>
vars == <<usage, receipt, credential, revisions, lock, day, pc, req, account,
          sent, gone, active, follows, reply>>

-----------------------------------------------------------------------------
\* The cost ceiling of one attempt is the unit of money.
Usage == [project : Project, outcome : {"reserved", "ok", "failed"},
          cost : Nat, day : 0..LastDay]

Managed == 0
Binding == [content : Content, project : Project, account : 0..MaxRevision,
            form : {"configured", "legacy"}]
Status == {"running", "completed", "uncertain"}
Receipt == [binding : Binding, usage : Call \cup Legacy, status : Status]

Reply == [code : {"ok", "uncertain", "unavailable", "conflict", "refused", "error"},
          of : Call]

ASSUME ProxyAssumption ==
    /\ Requests \subseteq Request
    /\ Legacy \subseteq Key /\ IsFiniteSet(Legacy)
    /\ RetryLimit \in Nat /\ LastDay \in Nat /\ MaxRevision \in Nat
    /\ Limit \in [{"project", "organisation"} -> Ceilings]
    /\ Call \cap Legacy = {}
    /\ None \notin Call \cup Key /\ None \notin Request
    /\ None \notin Usage /\ None \notin Receipt /\ None \notin Reply

BindingOf(c, form) == [content |-> req[c].content, project |-> req[c].project,
                       account |-> account[c], form |-> form]

Retries(r) == IF r.key = None /\ r.kind = "managed" THEN RetryLimit ELSE 0

\* What an older release left of a request it served with a legacy binding.
LegacyOutcome(s) == CASE s = "running" -> "reserved"
                      [] s = "completed" -> "ok"
                      [] s = "uncertain" -> "failed"

\* The older release served a request of either kind, a personal one with a
\* credential that was saved by then and may have been replaced or deleted.
Init ==
    /\ revisions \in 0..MaxRevision
    /\ credential \in {0, revisions}
    /\ \E s \in [Legacy -> Status], x \in [Legacy -> Content],
          p \in [Legacy -> Project], a \in [Legacy -> 0..revisions] :
         /\ usage = [u \in Call \cup Legacy |->
                       IF u \in Legacy
                         THEN [project |-> p[u], outcome |-> LegacyOutcome(s[u]),
                               cost |-> 1, day |-> 0]
                         ELSE None]
         /\ receipt = [k \in Key |->
                       IF k \in Legacy
                         THEN [binding |-> [content |-> x[k], project |-> p[k],
                                            account |-> a[k], form |-> "legacy"],
                               usage |-> k, status |-> s[k]]
                         ELSE None]
    /\ lock = None /\ day = 0
    /\ pc = [c \in Call |-> "idle"]
    /\ req = [c \in Call |-> None]
    /\ account = [c \in Call |-> Managed]
    /\ sent = [c \in Call |-> 0]
    /\ gone = {}
    /\ active = [r \in Replica |-> [k \in Key |-> None]]
    /\ follows = [c \in Call |-> None]
    /\ reply = [c \in Call |-> None]

-----------------------------------------------------------------------------
Becomes(c, s) == pc' = [pc EXCEPT ![c] = s]

\* The response is sent and the request leaves the map of active ones.
Answers(c, code, from) ==
    /\ Becomes(c, "answered")
    /\ reply' = [reply EXCEPT ![c] = [code |-> code, of |-> from]]

Forgets(c) ==
    active' = IF req[c].key = None THEN active
              ELSE [active EXCEPT ![req[c].replica][req[c].key] = None]

Free == lock = None

-----------------------------------------------------------------------------
(* Requests and provider selection *)

Receive(c) ==
    /\ pc[c] = "idle"
    /\ \E r \in Requests :
         /\ req' = [req EXCEPT ![c] = r]
         /\ IF r.kind = "personal" /\ credential = 0
              THEN Answers(c, "refused", c) /\ UNCHANGED account
              ELSE /\ Becomes(c, "selected")
                   /\ account' = [account EXCEPT ![c] =
                        IF r.kind = "personal" THEN credential ELSE Managed]
                   /\ UNCHANGED reply
    /\ UNCHANGED <<ledger, keys, lock, day, sent, gone, active, follows>>

\* The client closes its connection while the request is served.
Leave(c) ==
    /\ pc[c] \notin {"idle", "answered", "lost"} /\ c \notin gone
    /\ gone' = gone \cup {c}
    /\ UNCHANGED <<ledger, keys, lock, day, pc, req, account, sent, active,
                   follows, reply>>

-----------------------------------------------------------------------------
(* Reservation *)

\* Mutant: a receipt nobody finished is taken over by the next retry.
PreviousFinished(c) ==
    IF req[c].key = None THEN None
    ELSE IF receipt[req[c].key] # None /\ receipt[req[c].key].status = "running"
           THEN None ELSE receipt[req[c].key]

Previous(c) == IF req[c].key = None THEN None ELSE receipt[req[c].key]

\* Mutant: any receipt under the key is taken for the request's own.
SameBindingAny(c, b) == TRUE

\* An account of either kind at a built-in provider also has a binding of the
\* older form, without the configuration of the provider.
SameBinding(c, b) == b \in {BindingOf(c, "configured"), BindingOf(c, "legacy")}

\* The transaction finds a receipt: the request is a retry ...
Replay(c) ==
    /\ pc[c] = "selected" /\ Free
    /\ Previous(c) # None /\ SameBinding(c, Previous(c).binding)
    /\ Becomes(c, "replayed")
    /\ follows' = [follows EXCEPT ![c] = Previous(c).status]
    /\ UNCHANGED <<ledger, keys, lock, day, req, account, sent, gone, active, reply>>

\* ... or uses the key for something else.
Mismatch(c) ==
    /\ pc[c] = "selected" /\ Free
    /\ Previous(c) # None /\ ~SameBinding(c, Previous(c).binding)
    /\ Answers(c, "conflict", c)
    /\ UNCHANGED <<ledger, keys, lock, day, req, account, sent, gone, active, follows>>

\* Rows of usage in a scope, all or those of one day, and their cost.
Rows(scope, p) == {u \in DOMAIN usage :
    usage[u] # None /\ (scope = "project" => usage[u].project = p)}
RowsOn(scope, p, d) == {u \in Rows(scope, p) : usage[u].day = d}
CostOf(rows) == SumFunction([u \in rows |-> usage[u].cost])

\* Mutant: the retries are not reserved for.
CostOfOne(c) == 1

Cost(c) == Retries(req[c]) + 1

FitsScope(c, scope) ==
    LET all == Rows(scope, req[c].project)
        today == RowsOn(scope, req[c].project, day)
        limit == Limit[scope]
    IN /\ Cardinality(all) + 1 <= limit.requests
       /\ Cardinality(today) + 1 <= limit.dailyRequests
       /\ CostOf(all) + Cost(c) <= limit.budget
       /\ CostOf(today) + Cost(c) <= limit.dailyBudget

Admissible(c) ==
    /\ req[c].kind = "personal" => credential = account[c]
    /\ c \notin gone
    /\ FitsScope(c, "project") /\ FitsScope(c, "organisation")

Refuse(c) ==
    /\ pc[c] = "selected" /\ Free /\ Previous(c) = None /\ ~Admissible(c)
    /\ Answers(c, IF c \in gone THEN "uncertain" ELSE "refused", c)
    /\ UNCHANGED <<ledger, keys, lock, day, req, account, sent, gone, active, follows>>

\* Mutant: the transaction does not take the lock.
AdmitUnlocked(c) ==
    /\ pc[c] = "selected" /\ Previous(c) = None /\ Admissible(c)
    /\ Becomes(c, "reserving")
    /\ UNCHANGED <<ledger, keys, lock, day, req, account, sent, gone, active, follows, reply>>

\* Every check has passed; the rows are written and committed later, with the
\* clock of that moment.
Admit(c) ==
    /\ pc[c] = "selected" /\ Free /\ Previous(c) = None /\ Admissible(c)
    /\ Becomes(c, "reserving")
    /\ lock' = c
    /\ UNCHANGED <<ledger, keys, day, req, account, sent, gone, active, follows, reply>>

Reserved(c) ==
    /\ usage' = [usage EXCEPT ![c] = [project |-> req[c].project,
                   outcome |-> "reserved", cost |-> Cost(c), day |-> day]]
    /\ receipt' = IF req[c].key = None THEN receipt
                  ELSE [receipt EXCEPT ![req[c].key] =
                          [binding |-> BindingOf(c, "configured"),
                           usage |-> c, status |-> "running"]]

Reserve(c) ==
    /\ pc[c] = "reserving"
    /\ Reserved(c)
    /\ lock' = None
    /\ Becomes(c, "reserved")
    /\ UNCHANGED <<keys, day, req, account, sent, gone, active, follows, reply>>

\* The database fails, before or after the commit took effect.
ReserveFails(c) ==
    /\ pc[c] = "reserving"
    /\ Reserved(c) \/ UNCHANGED ledger
    /\ lock' = None
    /\ Answers(c, "error", c)
    /\ UNCHANGED <<keys, day, req, account, sent, gone, active, follows>>

-----------------------------------------------------------------------------
(* The provider call *)

Sends(c) == /\ sent' = [sent EXCEPT ![c] = @ + 1]
            /\ Becomes(c, "sent")

\* run() starts the work and records it as active in one go.  An open breaker
\* or a client that is gone ends the call before it is sent.
Begin(c) ==
    /\ pc[c] = "reserved"
    /\ active' = IF req[c].key = None THEN active
                 ELSE [active EXCEPT ![req[c].replica][req[c].key] = c]
    /\ \/ c \notin gone /\ Sends(c)
       \/ Becomes(c, "failing") /\ UNCHANGED sent
    /\ UNCHANGED <<ledger, keys, lock, day, req, account, gone, follows, reply>>

Answered(c) ==
    /\ pc[c] = "sent"
    /\ Becomes(c, "settling")
    /\ UNCHANGED <<ledger, keys, lock, day, req, account, sent, gone, active, follows, reply>>

\* A fault that may pass is retried within the limit.
Fault(c) ==
    /\ pc[c] = "sent"
    /\ Becomes(c, IF sent[c] <= Retries(req[c]) THEN "backoff" ELSE "failing")
    /\ UNCHANGED <<ledger, keys, lock, day, req, account, sent, gone, active, follows, reply>>

Resend(c) ==
    /\ pc[c] = "backoff" /\ c \notin gone
    /\ Sends(c)
    /\ UNCHANGED <<ledger, keys, lock, day, req, account, gone, active, follows, reply>>

\* A deadline, a refusal or a client that is gone is final; so is an answer
\* for another model.
Fails(c) ==
    /\ pc[c] = "sent" \/ (pc[c] = "backoff" /\ c \in gone)
    /\ Becomes(c, "failing")
    /\ UNCHANGED <<ledger, keys, lock, day, req, account, sent, gone, active, follows, reply>>

-----------------------------------------------------------------------------
(* Settlement *)

\* Mutant: a failure removes the receipt, so that the user may try again.
SettledForgetting(c, outcome, status) ==
    /\ usage' = [usage EXCEPT ![c].outcome = outcome]
    /\ receipt' = IF req[c].key = None THEN receipt
                  ELSE IF status = "uncertain" THEN [receipt EXCEPT ![req[c].key] = None]
                  ELSE [receipt EXCEPT ![req[c].key].status = status]

\* Mutant: a receipt that is completed stays so.
SettledOnce(c, outcome, status) ==
    /\ usage' = [usage EXCEPT ![c].outcome = outcome]
    /\ receipt' = IF req[c].key = None \/ receipt[req[c].key].status # "running"
                    THEN receipt
                    ELSE [receipt EXCEPT ![req[c].key].status = status]

Settled(c, outcome, status) ==
    /\ usage' = [usage EXCEPT ![c].outcome = outcome]
    /\ receipt' = IF req[c].key = None THEN receipt
                  ELSE [receipt EXCEPT ![req[c].key].status = status]

Complete(c) ==
    /\ pc[c] = "settling" /\ Free
    /\ Settled(c, "ok", "completed")
    /\ Answers(c, "ok", c) /\ Forgets(c)
    /\ UNCHANGED <<keys, lock, day, req, account, sent, gone, follows>>

\* The database fails, before or after the commit took effect: the catch
\* takes over.
CompleteFails(c) ==
    /\ pc[c] = "settling" /\ Free
    /\ Settled(c, "ok", "completed") \/ UNCHANGED ledger
    /\ Becomes(c, "failing")
    /\ UNCHANGED <<keys, lock, day, req, account, sent, gone, active, follows, reply>>

Fail(c) ==
    /\ pc[c] = "failing" /\ Free
    /\ Settled(c, "failed", "uncertain")
    /\ Answers(c, IF req[c].key = None THEN "refused" ELSE "uncertain", c)
    /\ Forgets(c)
    /\ UNCHANGED <<keys, lock, day, req, account, sent, gone, follows>>

FailFails(c) ==
    /\ pc[c] = "failing" /\ Free
    /\ Settled(c, "failed", "uncertain") \/ UNCHANGED ledger
    /\ Answers(c, "error", c) /\ Forgets(c)
    /\ UNCHANGED <<keys, lock, day, req, account, sent, gone, follows>>

-----------------------------------------------------------------------------
(* Retries *)

InFlight(c) == active[req[c].replica][req[c].key]

\* Mutant: a retry waits for a receipt that says running.
ReadWaiting(c) ==
    /\ pc[c] = "replayed"
    /\ \/ /\ InFlight(c) # None
          /\ Becomes(c, "sharing")
          /\ follows' = [follows EXCEPT ![c] = InFlight(c)]
          /\ UNCHANGED reply
       \/ /\ InFlight(c) = None /\ Previous(c).status # "running"
          /\ Answers(c, "uncertain", c)
          /\ UNCHANGED follows
    /\ UNCHANGED <<ledger, keys, lock, day, req, account, sent, gone, active>>

\* The receipt is not read again: follows[c] is the status the transaction saw.
Read(c) ==
    /\ pc[c] = "replayed"
    /\ \/ /\ InFlight(c) # None
          /\ BindingOf(InFlight(c), "configured") = Previous(c).binding
          /\ Becomes(c, "sharing")
          /\ follows' = [follows EXCEPT ![c] = InFlight(c)]
          /\ UNCHANGED reply
       \/ /\ InFlight(c) # None =>
               BindingOf(InFlight(c), "configured") # Previous(c).binding
          /\ Answers(c, IF follows[c] = "completed" THEN "unavailable"
                        ELSE "uncertain", c)
          /\ UNCHANGED follows
    /\ UNCHANGED <<ledger, keys, lock, day, req, account, sent, gone, active>>

Share(c) ==
    /\ pc[c] = "sharing" /\ pc[follows[c]] = "answered"
    /\ Answers(c, reply[follows[c]].code, follows[c])
    /\ UNCHANGED <<ledger, keys, lock, day, req, account, sent, gone, active, follows>>

-----------------------------------------------------------------------------
(* The surroundings *)

SaveCredential ==
    /\ Free /\ revisions < MaxRevision
    /\ revisions' = revisions + 1
    /\ credential' = revisions + 1
    /\ UNCHANGED <<ledger, lock, day, pc, req, account, sent, gone, active,
                   follows, reply>>

DeleteCredential ==
    /\ Free /\ credential # 0
    /\ credential' = 0
    /\ UNCHANGED <<ledger, revisions, lock, day, pc, req, account, sent, gone,
                   active, follows, reply>>

\* A server process ends: its requests get no answer and its open transaction
\* is rolled back.  What was sent is sent.
Crash(r) ==
    LET its == {c \in Call : /\ pc[c] \notin {"idle", "answered", "lost"}
                             /\ req[c].replica = r}
    IN /\ its # {}
       /\ pc' = [c \in Call |-> IF c \in its THEN "lost" ELSE pc[c]]
       /\ active' = [active EXCEPT ![r] = [k \in Key |-> None]]
       /\ lock' = IF lock \in its THEN None ELSE lock
       /\ UNCHANGED <<ledger, keys, day, req, account, sent, gone, follows, reply>>

NextDay ==
    /\ day < LastDay
    /\ day' = day + 1
    /\ UNCHANGED <<ledger, keys, lock, pc, req, account, sent, gone, active,
                   follows, reply>>

Next ==
    \/ \E c \in Call :
         \/ Receive(c) \/ Leave(c)
         \/ Replay(c) \/ Mismatch(c) \/ Refuse(c) \/ Admit(c)
         \/ Reserve(c) \/ ReserveFails(c)
         \/ Begin(c) \/ Answered(c) \/ Fault(c) \/ Resend(c) \/ Fails(c)
         \/ Complete(c) \/ CompleteFails(c) \/ Fail(c) \/ FailFails(c)
         \/ Read(c) \/ Share(c)
    \/ SaveCredential \/ DeleteCredential
    \/ \E r \in Replica : Crash(r)
    \/ NextDay

Spec == Init /\ [][Next]_vars

\* What a server that runs does in the end.  A provider that does not answer
\* runs into the deadline (Fails); the advisory lock is granted in turn.
Serves(c) ==
    \/ Replay(c) \/ Mismatch(c) \/ Refuse(c) \/ Admit(c) \/ Reserve(c)
    \/ Begin(c) \/ Fails(c) \/ Resend(c) \/ Complete(c) \/ Fail(c)
    \/ Read(c) \/ Share(c)

FairSpec == Spec /\ \A c \in Call : WF_vars(Serves(c))

-----------------------------------------------------------------------------
Progress == {"idle", "selected", "reserving", "reserved", "sent", "backoff",
             "settling", "failing", "replayed", "sharing", "answered", "lost"}

TypeOK ==
    /\ usage \in [Call \cup Legacy -> Usage \cup {None}]
    /\ receipt \in [Key -> Receipt \cup {None}]
    /\ credential \in 0..MaxRevision /\ revisions \in credential..MaxRevision
    /\ lock \in Call \cup {None} /\ day \in 0..LastDay
    /\ pc \in [Call -> Progress]
    /\ req \in [Call -> Requests \cup {None}]
    /\ account \in [Call -> 0..MaxRevision]
    /\ sent \in [Call -> 0..RetryLimit + 1]
    /\ gone \subseteq Call
    /\ active \in [Replica -> [Key -> Call \cup {None}]]
    /\ follows \in [Call -> Call \cup Status \cup {None}]
    /\ reply \in [Call -> Reply \cup {None}]

(***************************************************************************)
(* The provider is asked at most once under an idempotency key, whatever   *)
(* is retried at whichever replica and wherever the database, the client   *)
(* or a replica fails, and never again under a key of an older release:    *)
(* a lost reply cannot cause a second bill.                                *)
(***************************************************************************)
WithKey(k) == {c \in Call : req[c] # None /\ req[c].key = k}

SentOnce ==
    \A k \in Key : \A c \in WithKey(k) :
        /\ sent[c] <= 1
        /\ sent[c] > 0 => k \notin Legacy /\ \A d \in WithKey(k) : sent[d] > 0 => d = c

(***************************************************************************)
(* The proxy implements ChargedOnce: whatever receipts, transactions,      *)
(* crashes and retries do, there is one attempt under a key and one result *)
(* to hand out under it.                                                   *)
(***************************************************************************)
KeyOf(c) == IF req[c] = None THEN None ELSE req[c].key
Attempts(k) ==
    (IF k \in Legacy THEN {<<k, 1>>} ELSE {})
    \cup {a \in Call \X (1..RetryLimit + 1) : KeyOf(a[1]) = k /\ a[2] <= sent[a[1]]}
Handed(c) == IF KeyOf(c) = None \/ reply[c] = None THEN None
             ELSE IF reply[c].code = "ok" THEN reply[c].of ELSE None

Promise == INSTANCE ChargedOnce
    WITH Earlier <- Legacy,
         key <- [c \in Call |-> KeyOf(c)],
         charged <- [k \in Key |-> Attempts(k)],
         handed <- [c \in Call |-> Handed(c)]

ChargesOnce == Promise!Spec

(***************************************************************************)
(* What was sent to the provider never costs more than the budgets: even   *)
(* if every attempt is charged in full, whatever became of the request     *)
(* that made it.  Usage of older releases counts as reserved.              *)
(***************************************************************************)
Charged(u) == IF u \in Legacy THEN usage[u].cost ELSE sent[u]
Spent(rows) == SumFunction([u \in rows |-> Charged(u)])
Asked == {c \in Call : sent[c] > 0}

SpentWithinBudget ==
    /\ \A c \in Asked : usage[c] # None
    /\ \A scope \in {"project", "organisation"}, p \in Project :
         Spent(Rows(scope, p)) <= Limit[scope].budget

(***************************************************************************)
(* The daily limits hold for every day, by the day stamped on the row,     *)
(* although the day may change between the check and the stamp.            *)
(***************************************************************************)
WithinDay ==
    \A scope \in {"project", "organisation"}, p \in Project, d \in 0..LastDay :
        /\ Cardinality(RowsOn(scope, p, d)) <= Limit[scope].dailyRequests
        /\ CostOf(RowsOn(scope, p, d)) <= Limit[scope].dailyBudget

(***************************************************************************)
(* The permanent receipt and the usage row it points to tell the same      *)
(* story, across every failure of a settlement and every crash.            *)
(***************************************************************************)
ReceiptsMatchUsage ==
    \A k \in Key : receipt[k] # None =>
        /\ usage[receipt[k].usage] # None
        /\ usage[receipt[k].usage].outcome = LegacyOutcome(receipt[k].status)

(***************************************************************************)
(* A result handed out belongs to the request that is answered: it was     *)
(* produced under the same key for the same content and billing account,   *)
(* and its receipt says completed for good.                                *)
(***************************************************************************)
ResultIsOwn ==
    \A c \in Call : reply[c] # None /\ reply[c].code = "ok" =>
        LET d == reply[c].of IN
        /\ BindingOf(d, "configured") = BindingOf(c, "configured")
        /\ req[d].key = req[c].key
        /\ usage[d].outcome = "ok"
        /\ req[c].key # None => receipt[req[c].key].status = "completed"

(***************************************************************************)
(* Every request is answered unless its server process ends, also a retry  *)
(* that shares a result or finds the receipt of a process that is gone.    *)
(***************************************************************************)
EveryRequestEnds ==
    \A c \in Call : pc[c] # "idle" ~> pc[c] \in {"answered", "lost"}

=============================================================================
