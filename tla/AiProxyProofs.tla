---------------------------- MODULE AiProxyProofs ----------------------------
(***************************************************************************)
(* The proxy keeps its promise for any number of requests, replicas, keys  *)
(* and contents: it implements ChargedOnce, hands out a result to whom it  *)
(* belongs alone, and stays within its budgets and daily limits.           *)
(***************************************************************************)
EXTENDS AiProxy, FiniteSetTheorems, SumTheorems, TLAPS

Keyed(c) == req[c] # None /\ req[c].key # None

\* Where a request is before it has been sent, and after its rows are there.
Unsent == {"idle", "selected", "reserving", "reserved", "replayed", "sharing"}
Committed == {"reserved", "sent", "backoff", "settling", "failing"}

\* One request holds the lock between its checks and its rows, and a request
\* with a key is sent once.
StepsInOrder ==
    \A c \in Call :
        /\ pc[c] = "idle" <=> req[c] = None
        /\ lock = c <=> pc[c] = "reserving"
        /\ reply[c] # None <=> pc[c] = "answered"
        /\ pc[c] \in Unsent => sent[c] = 0
        /\ pc[c] \in {"sent", "backoff", "settling"} => sent[c] >= 1
        /\ pc[c] = "backoff" => sent[c] <= Retries(req[c])
        /\ Keyed(c) => sent[c] <= 1

\* A receipt is written once under a key, by the request it names, and stays.
ReceiptsHeld ==
    /\ \A c \in Call :
         /\ pc[c] \in Committed => usage[c] # None
         /\ Keyed(c) /\ (pc[c] \in Committed \/ sent[c] >= 1) =>
               receipt[req[c].key] # None /\ receipt[req[c].key].usage = c
         /\ Keyed(c) /\ pc[c] = "reserving" => receipt[req[c].key] = None
    /\ \A k \in Key :
         /\ k \in Legacy => receipt[k] # None /\ receipt[k].usage = k
         /\ receipt[k] # None /\ receipt[k].usage \in Call =>
               /\ req[receipt[k].usage] # None
               /\ req[receipt[k].usage].key = k

\* Whoever shares a result or was handed one has it from the request that
\* the receipt under its key names.
SharesOwn ==
    /\ \A r \in Replica, k \in Key :
         active[r][k] # None =>
            receipt[k] # None /\ receipt[k].usage = active[r][k]
    /\ \A c \in Call :
         /\ pc[c] = "replayed" => Keyed(c) /\ receipt[req[c].key] # None
         /\ pc[c] = "sharing" =>
               /\ Keyed(c) /\ receipt[req[c].key] # None
               /\ follows[c] \in Call
               /\ receipt[req[c].key].usage = follows[c]
         /\ Keyed(c) /\ reply[c] # None /\ reply[c].code = "ok" =>
               /\ receipt[req[c].key] # None
               /\ receipt[req[c].key].usage = reply[c].of
               /\ sent[reply[c].of] >= 1

ProxyInv ==
    TypeOK /\ StepsInOrder /\ ReceiptsHeld /\ ReceiptsMatchUsage /\ SharesOwn


\* The rows a transaction writes have their types.
LEMMA ReservedTypes ==
    ASSUME TypeOK, NEW c \in Call, req[c] \in Request, Reserved(c)
    PROVE  /\ usage' \in [Call \cup Legacy -> Usage \cup {None}]
           /\ receipt' \in [Key -> Receipt \cup {None}]
<1>1. Cost(c) \in Nat /\ day \in 0..LastDay /\ account[c] \in 0..MaxRevision
  BY ProxyAssumption DEF TypeOK, Cost, Retries
<1>2. [project |-> req[c].project, outcome |-> "reserved", cost |-> Cost(c),
       day |-> day] \in Usage
  BY <1>1 DEF Usage, Request
<1>3. [binding |-> BindingOf(c, "configured"), usage |-> c,
       status |-> "running"] \in Receipt
  BY <1>1 DEF Receipt, Request, Binding, BindingOf, Status
<1> QED
  BY <1>2, <1>3 DEF TypeOK, Reserved

LEMMA SettledTypes ==
    ASSUME TypeOK, ReceiptsHeld, NEW c \in Call, pc[c] \in Committed,
           req[c] \in Request, NEW o \in {"ok", "failed"},
           NEW s \in {"completed", "uncertain"}, Settled(c, o, s)
    PROVE  /\ usage' \in [Call \cup Legacy -> Usage \cup {None}]
           /\ receipt' \in [Key -> Receipt \cup {None}]
<1>1. usage[c] \in Usage
  BY DEF TypeOK, ReceiptsHeld
<1>2. [usage[c] EXCEPT !.outcome = o] \in Usage
  BY <1>1 DEF Usage
<1>3. ASSUME req[c].key # None
      PROVE  [receipt[req[c].key] EXCEPT !.status = s] \in Receipt
  <2>1. req[c].key \in Key
    BY <1>3 DEF Request
  <2>2. receipt[req[c].key] # None
    BY <1>3, ProxyAssumption DEF ReceiptsHeld, Keyed
  <2>3. receipt[req[c].key] \in Receipt
    BY <2>1, <2>2 DEF TypeOK
  <2> QED
    BY <2>3 DEF Receipt, Status
<1> QED
  BY <1>2, <1>3 DEF TypeOK, Settled, Request

\* An answer is one, also one that is shared.
LEMMA AnswerIsReply ==
    ASSUME NEW code \in {"ok", "uncertain", "unavailable", "conflict",
                         "refused", "error"}, NEW d \in Call
    PROVE  [code |-> code, of |-> d] \in Reply \ {None}
BY ProxyAssumption DEF Reply

LEMMA SharedReply ==
    ASSUME TypeOK, StepsInOrder, SharesOwn, NEW c \in Call, Share(c)
    PROVE  /\ follows[c] \in Call
           /\ reply[follows[c]] \in Reply \ {None}
           /\ [code |-> reply[follows[c]].code, of |-> follows[c]]
                 \in Reply \ {None}
<1>1. follows[c] \in Call
  BY DEF Share, SharesOwn
<1>2. reply[follows[c]] \in Reply \ {None}
  BY <1>1 DEF Share, StepsInOrder, TypeOK
<1> QED
  BY <1>1, <1>2, AnswerIsReply DEF Reply

\* A settlement keeps which receipts and rows there are, and whose they are.
LEMMA SettledKeeps ==
    ASSUME TypeOK, ReceiptsHeld, NEW c \in Call, pc[c] \in Committed,
           req[c] \in Request, NEW o \in {"ok", "failed"},
           NEW s \in {"completed", "uncertain"},
           Settled(c, o, s) \/ UNCHANGED ledger
    PROVE  /\ \A u \in Call : usage[u] # None => usage'[u] # None
           /\ \A k \in Key : receipt[k] = None => receipt'[k] = None
           /\ \A k \in Key : receipt[k] # None =>
                 receipt'[k] # None /\ receipt'[k].usage = receipt[k].usage
<1>1. CASE UNCHANGED ledger
  BY <1>1 DEF ledger
<1>2. CASE Settled(c, o, s)
  <2>1. [usage[c] EXCEPT !.outcome = o] # None
    <3>1. usage[c] \in Usage
      BY DEF TypeOK, ReceiptsHeld
    <3>2. [usage[c] EXCEPT !.outcome = o] \in Usage
      BY <3>1 DEF Usage
    <3> QED
      BY <3>2, ProxyAssumption
  <2>2. CASE req[c].key = None
    BY <1>2, <2>1, <2>2 DEF Settled, TypeOK
  <2>3. CASE req[c].key # None
    <3>1. req[c].key \in Key
      BY <2>3 DEF Request
    <3>2. receipt[req[c].key] # None
      BY <2>3, ProxyAssumption DEF ReceiptsHeld, Keyed
    <3>3. receipt[req[c].key] \in Receipt
      BY <3>1, <3>2 DEF TypeOK
    <3>4. /\ [receipt[req[c].key] EXCEPT !.status = s] # None
          /\ [receipt[req[c].key] EXCEPT !.status = s].usage
                = receipt[req[c].key].usage
      BY <3>3, ProxyAssumption DEF Receipt, Status
    <3>5. receipt' = [receipt EXCEPT ![req[c].key] =
                        [receipt[req[c].key] EXCEPT !.status = s]]
      BY <1>2, <2>3 DEF Settled
    <3>6. usage' = [usage EXCEPT ![c] = [usage[c] EXCEPT !.outcome = o]]
      BY <1>2 DEF Settled
    <3>7. \A k \in Key : receipt[k] # None =>
             receipt'[k] # None /\ receipt'[k].usage = receipt[k].usage
      BY <3>1, <3>4, <3>5 DEF TypeOK
    <3>8. \A k \in Key : receipt[k] = None => receipt'[k] = None
      BY <3>1, <3>2, <3>5 DEF TypeOK
    <3> QED
      BY <2>1, <3>6, <3>7, <3>8 DEF TypeOK
  <2> QED
    BY <2>2, <2>3
<1> QED
  BY <1>1, <1>2

\* A reservation writes the request's row and the first receipt of its key.
LEMMA ReservedKeeps ==
    ASSUME TypeOK, StepsInOrder, ReceiptsHeld, NEW c \in Call,
           pc[c] = "reserving", Reserved(c)
    PROVE  /\ req[c] \in Request /\ usage'[c] # None
           /\ \A u \in Call \cup Legacy : u # c => usage'[u] = usage[u]
           /\ \A k \in Key : k # req[c].key => receipt'[k] = receipt[k]
           /\ Keyed(c) => /\ req[c].key \in Key
                          /\ receipt[req[c].key] = None
                          /\ receipt'[req[c].key] # None
                          /\ receipt'[req[c].key].usage = c
                          /\ receipt'[req[c].key].status = "running"
           /\ usage'[c].outcome = "reserved"
<1>1. req[c] \in Request
  BY ProxyAssumption DEF TypeOK, StepsInOrder
<1>2. usage'[c] # None
  <2>1. usage' \in [Call \cup Legacy -> Usage \cup {None}]
    BY <1>1, ReservedTypes
  <2>2. [project |-> req[c].project, outcome |-> "reserved",
         cost |-> Cost(c), day |-> day] \in Usage
    BY <1>1, ProxyAssumption DEF TypeOK, Cost, Retries, Usage, Request
  <2> QED
    BY <2>2, ProxyAssumption DEF Reserved, TypeOK
<1>3. Keyed(c) => /\ req[c].key \in Key /\ receipt[req[c].key] = None
                  /\ receipt'[req[c].key] # None
                  /\ receipt'[req[c].key].usage = c
                  /\ receipt'[req[c].key].status = "running"
  <2> SUFFICES ASSUME Keyed(c)
               PROVE  /\ req[c].key \in Key /\ receipt[req[c].key] = None
                      /\ receipt'[req[c].key] # None
                      /\ receipt'[req[c].key].usage = c
                      /\ receipt'[req[c].key].status = "running"
    OBVIOUS
  <2>1. req[c].key \in Key /\ receipt[req[c].key] = None
    BY <1>1 DEF Keyed, Request, ReceiptsHeld
  <2>2. receipt'[req[c].key] = [binding |-> BindingOf(c, "configured"),
                                usage |-> c, status |-> "running"]
    BY <2>1 DEF Reserved, Keyed, TypeOK
  <2>3. account[c] \in 0..MaxRevision
    BY DEF TypeOK
  <2>4. receipt'[req[c].key] \in Receipt
    BY <1>1, <2>2, <2>3 DEF Receipt, Request, Binding, BindingOf, Status
  <2> QED
    BY <2>1, <2>2, <2>4, ProxyAssumption
<1> QED
  BY <1>1, <1>2, <1>3 DEF Reserved, TypeOK

\* Every step keeps the types, one action at a time.
LEMMA TypeKept == ProxyInv /\ [Next]_vars => TypeOK'
<1> SUFFICES ASSUME ProxyInv, [Next]_vars PROVE TypeOK'
  OBVIOUS
<1> USE ProxyAssumption DEF ProxyInv
<1>1. ASSUME NEW c \in Call, Receive(c) PROVE TypeOK'
  BY <1>1, SMTT(40) DEF Receive, Answers, Becomes, TypeOK, ledger, keys, Progress,
              Reply, Managed
<1>2. ASSUME NEW c \in Call, Leave(c) PROVE TypeOK'
  BY <1>2 DEF Leave, TypeOK, ledger, keys, Progress
<1>3. ASSUME NEW c \in Call, Replay(c) PROVE TypeOK'
  BY <1>3
     DEF Replay, Becomes, TypeOK, ledger, keys, Progress, Status, Receipt,
         StepsInOrder, Previous, Request
<1>4. ASSUME NEW c \in Call, Mismatch(c) PROVE TypeOK'
  BY <1>4
     DEF Mismatch, Answers, Becomes, TypeOK, ledger, keys, Progress, Reply
<1>5. ASSUME NEW c \in Call, Refuse(c) PROVE TypeOK'
  BY <1>5 DEF Refuse, Answers, Becomes, TypeOK, ledger, keys, Progress, Reply
<1>6. ASSUME NEW c \in Call, Admit(c) PROVE TypeOK'
  BY <1>6 DEF Admit, Becomes, TypeOK, ledger, keys, Progress
<1>7. ASSUME NEW c \in Call, Reserve(c) PROVE TypeOK'
  <2>1. req[c] \in Request
    BY <1>7 DEF Reserve, TypeOK, StepsInOrder
  <2>2. /\ usage' \in [Call \cup Legacy -> Usage \cup {None}]
        /\ receipt' \in [Key -> Receipt \cup {None}]
    BY <1>7, <2>1, ReservedTypes DEF Reserve, TypeOK, ledger
  <2> QED
    BY <1>7, <2>2
       DEF Reserve, Becomes, TypeOK, keys, Progress, Reply
<1>8. ASSUME NEW c \in Call, ReserveFails(c) PROVE TypeOK'
  <2>1. req[c] \in Request
    BY <1>8 DEF ReserveFails, TypeOK, StepsInOrder
  <2>2. /\ usage' \in [Call \cup Legacy -> Usage \cup {None}]
        /\ receipt' \in [Key -> Receipt \cup {None}]
    BY <1>8, <2>1, ReservedTypes DEF ReserveFails, TypeOK, ledger
  <2> QED
    BY <1>8, <2>2
       DEF ReserveFails, Answers, Becomes, TypeOK, keys, Progress, Reply
<1>9. ASSUME NEW c \in Call, Begin(c) PROVE TypeOK'
  <2>1. req[c] \in Request /\ sent[c] = 0
    BY <1>9 DEF Begin, TypeOK, StepsInOrder, Unsent
  <2>2. sent' \in [Call -> 0..RetryLimit + 1] /\ pc' \in [Call -> Progress]
    <3>1. 1 \in 0..RetryLimit + 1
      BY DEF ProxyAssumption
    <3>2. \/ sent' = [sent EXCEPT ![c] = 1] /\ pc' = [pc EXCEPT ![c] = "sent"]
          \/ sent' = sent /\ pc' = [pc EXCEPT ![c] = "failing"]
      BY <1>9, <2>1 DEF Begin, Sends, Becomes
    <3>3. /\ sent \in [Call -> 0..RetryLimit + 1] /\ pc \in [Call -> Progress]
          /\ {"sent", "failing"} \subseteq Progress
      BY DEF TypeOK, Progress
    <3> QED
      BY <3>1, <3>2, <3>3
  <2>3. active' \in [Replica -> [Key -> Call \cup {None}]]
    BY <1>9, <2>1 DEF Begin, TypeOK, Request
  <2> QED
    BY <1>9, <2>2, <2>3 DEF Begin, TypeOK, ledger, keys
<1>10. ASSUME NEW c \in Call, Answered(c) PROVE TypeOK'
  BY <1>10 DEF Answered, Becomes, TypeOK, ledger, keys, Progress
<1>11. ASSUME NEW c \in Call, Fault(c) PROVE TypeOK'
  BY <1>11 DEF Fault, Becomes, TypeOK, ledger, keys, Progress
<1>12. ASSUME NEW c \in Call, Resend(c) PROVE TypeOK'
  BY <1>12
     DEF Resend, Sends, Becomes, TypeOK, ledger, keys, Progress,
         StepsInOrder, Retries, Request
<1>13. ASSUME NEW c \in Call, Fails(c) PROVE TypeOK'
  BY <1>13 DEF Fails, Becomes, TypeOK, ledger, keys, Progress
<1>14. ASSUME NEW c \in Call, Complete(c) PROVE TypeOK'
  <2>1. req[c] \in Request /\ pc[c] \in Committed
    BY <1>14 DEF Complete, TypeOK, StepsInOrder, Committed
  <2>2. /\ usage' \in [Call \cup Legacy -> Usage \cup {None}]
        /\ receipt' \in [Key -> Receipt \cup {None}]
    BY <1>14, <2>1, SettledTypes DEF Complete, TypeOK, ledger
  <2> QED
    BY <1>14, <2>1, <2>2
       DEF Complete, Answers, Becomes, Forgets, TypeOK, keys, Progress,
           Reply, Request
<1>15. ASSUME NEW c \in Call, CompleteFails(c) PROVE TypeOK'
  <2>1. req[c] \in Request /\ pc[c] \in Committed
    BY <1>15 DEF CompleteFails, TypeOK, StepsInOrder, Committed
  <2>2. /\ usage' \in [Call \cup Legacy -> Usage \cup {None}]
        /\ receipt' \in [Key -> Receipt \cup {None}]
    BY <1>15, <2>1, SettledTypes DEF CompleteFails, TypeOK, ledger
  <2> QED
    BY <1>15, <2>1, <2>2
       DEF CompleteFails, Becomes, TypeOK, keys, Progress, Reply, Request
<1>16. ASSUME NEW c \in Call, Fail(c) PROVE TypeOK'
  <2>1. req[c] \in Request /\ pc[c] \in Committed
    BY <1>16 DEF Fail, TypeOK, StepsInOrder, Committed
  <2>2. /\ usage' \in [Call \cup Legacy -> Usage \cup {None}]
        /\ receipt' \in [Key -> Receipt \cup {None}]
    BY <1>16, <2>1, SettledTypes DEF Fail, TypeOK, ledger
  <2>3. reply' \in [Call -> Reply \cup {None}] /\ pc' \in [Call -> Progress]
    BY <1>16 DEF Fail, Answers, Becomes, TypeOK, Reply, Progress
  <2>4. active' \in [Replica -> [Key -> Call \cup {None}]]
    BY <1>16, <2>1 DEF Fail, Forgets, TypeOK, Request
  <2> QED
    BY <1>16, <2>2, <2>3, <2>4 DEF Fail, TypeOK, keys
<1>17. ASSUME NEW c \in Call, FailFails(c) PROVE TypeOK'
  <2>1. req[c] \in Request /\ pc[c] \in Committed
    BY <1>17 DEF FailFails, TypeOK, StepsInOrder, Committed
  <2>2. /\ usage' \in [Call \cup Legacy -> Usage \cup {None}]
        /\ receipt' \in [Key -> Receipt \cup {None}]
    BY <1>17, <2>1, SettledTypes DEF FailFails, TypeOK, ledger
  <2> QED
    BY <1>17, <2>1, <2>2
       DEF FailFails, Answers, Becomes, Forgets, TypeOK, keys, Progress,
           Reply, Request
<1>18. ASSUME NEW c \in Call, Read(c) PROVE TypeOK'
  <2>1. req[c] \in Request /\ req[c].key \in Key
    BY <1>18 DEF Read, TypeOK, StepsInOrder, SharesOwn, Keyed, Request
  <2>2. InFlight(c) \in Call \cup {None}
    BY <2>1 DEF InFlight, TypeOK, Request
  <2>3. follows' \in [Call -> Call \cup Status \cup {None}]
    BY <1>18, <2>2 DEF Read, TypeOK
  <2>4. reply' \in [Call -> Reply \cup {None}] /\ pc' \in [Call -> Progress]
    BY <1>18 DEF Read, Answers, Becomes, TypeOK, Reply, Progress
  <2> QED
    BY <1>18, <2>3, <2>4 DEF Read, TypeOK, ledger, keys
<1>19. ASSUME NEW c \in Call, Share(c) PROVE TypeOK'
  BY <1>19, SharedReply
     DEF Share, Answers, Becomes, TypeOK, Progress, ledger, keys
<1>20. CASE SaveCredential
  BY <1>20 DEF SaveCredential, TypeOK, ledger, keys, Progress
<1>21. CASE DeleteCredential
  BY <1>21 DEF DeleteCredential, TypeOK, ledger, keys, Progress
<1>22. CASE NextDay
  BY <1>22 DEF NextDay, TypeOK, ledger, keys, Progress
<1>23. ASSUME NEW r \in Replica, Crash(r) PROVE TypeOK'
  BY <1>23 DEF Crash, TypeOK, ledger, keys, Progress
<1>24. CASE UNCHANGED vars
  BY <1>24 DEF vars, ledger, keys, TypeOK, ledger, keys, Progress
<1> QED
  BY <1>1, <1>2, <1>3, <1>4, <1>5, <1>6, <1>7, <1>8, <1>9, <1>10, <1>11,
     <1>12, <1>13, <1>14, <1>15, <1>16, <1>17, <1>18, <1>19, <1>20, <1>21,
     <1>22, <1>23, <1>24 DEF Next

\* Every step keeps the order of the steps of a request.
LEMMA StepsKept == ProxyInv /\ [Next]_vars => StepsInOrder'
<1> SUFFICES ASSUME ProxyInv, [Next]_vars PROVE StepsInOrder'
  OBVIOUS
<1> USE ProxyAssumption DEF ProxyInv
<1>1. ASSUME NEW c \in Call, Receive(c) PROVE StepsInOrder'
  BY <1>1, AnswerIsReply
     DEF Receive, Answers, Becomes, TypeOK, StepsInOrder, Keyed, Unsent
<1>2. ASSUME NEW c \in Call, Leave(c) PROVE StepsInOrder'
  BY <1>2 DEF Leave, TypeOK, StepsInOrder, Keyed, Unsent, Free
<1>3. ASSUME NEW c \in Call, Replay(c) PROVE StepsInOrder'
  BY <1>3 DEF Replay, Becomes, TypeOK, StepsInOrder, Keyed, Unsent, Free
<1>4. ASSUME NEW c \in Call, Mismatch(c) PROVE StepsInOrder'
  BY <1>4, AnswerIsReply
     DEF Mismatch, Answers, Becomes, TypeOK, StepsInOrder, Keyed, Unsent
<1>5. ASSUME NEW c \in Call, Refuse(c) PROVE StepsInOrder'
  BY <1>5, AnswerIsReply
     DEF Refuse, Answers, Becomes, TypeOK, StepsInOrder, Keyed, Unsent
<1>6. ASSUME NEW c \in Call, Admit(c) PROVE StepsInOrder'
  BY <1>6 DEF Admit, Becomes, TypeOK, StepsInOrder, Keyed, Unsent, Free
<1>7. ASSUME NEW c \in Call, Reserve(c) PROVE StepsInOrder'
  BY <1>7
     DEF Reserve, Reserved, Becomes, TypeOK, StepsInOrder, Keyed, Unsent,
         Free
<1>8. ASSUME NEW c \in Call, ReserveFails(c) PROVE StepsInOrder'
  BY <1>8, AnswerIsReply
     DEF ReserveFails, Answers, Becomes, TypeOK, StepsInOrder, Keyed, Unsent
<1>9. ASSUME NEW c \in Call, Begin(c) PROVE StepsInOrder'
  BY <1>9 DEF Begin, Sends, Becomes, TypeOK, StepsInOrder, Keyed, Unsent, Free
<1>10. ASSUME NEW c \in Call, Answered(c) PROVE StepsInOrder'
  BY <1>10 DEF Answered, Becomes, TypeOK, StepsInOrder, Keyed, Unsent, Free
<1>11. ASSUME NEW c \in Call, Fault(c) PROVE StepsInOrder'
  BY <1>11
     DEF Fault, Becomes, TypeOK, StepsInOrder, Keyed, Unsent, Free, Retries
<1>12. ASSUME NEW c \in Call, Resend(c) PROVE StepsInOrder'
  BY <1>12
     DEF Resend, Sends, Becomes, TypeOK, StepsInOrder, Keyed, Unsent, Free,
         Retries, Request
<1>13. ASSUME NEW c \in Call, Fails(c) PROVE StepsInOrder'
  BY <1>13 DEF Fails, Becomes, TypeOK, StepsInOrder, Keyed, Unsent, Free
<1>14. ASSUME NEW c \in Call, Complete(c) PROVE StepsInOrder'
  BY <1>14, AnswerIsReply
     DEF Complete, Answers, Becomes, TypeOK, StepsInOrder, Keyed, Unsent
<1>15. ASSUME NEW c \in Call, CompleteFails(c) PROVE StepsInOrder'
  BY <1>15
     DEF CompleteFails, Settled, Becomes, TypeOK, StepsInOrder, Keyed,
         Unsent, Free
<1>16. ASSUME NEW c \in Call, Fail(c) PROVE StepsInOrder'
  BY <1>16, AnswerIsReply
     DEF Fail, Answers, Becomes, TypeOK, StepsInOrder, Keyed, Unsent
<1>17. ASSUME NEW c \in Call, FailFails(c) PROVE StepsInOrder'
  BY <1>17, AnswerIsReply
     DEF FailFails, Answers, Becomes, TypeOK, StepsInOrder, Keyed, Unsent
<1>18. ASSUME NEW c \in Call, Read(c) PROVE StepsInOrder'
  BY <1>18, AnswerIsReply
     DEF Read, Answers, Becomes, TypeOK, StepsInOrder, Keyed, Unsent
<1>19. ASSUME NEW c \in Call, Share(c) PROVE StepsInOrder'
  <2>1. /\ pc[c] = "sharing" /\ UNCHANGED <<req, sent, lock>>
        /\ pc' = [pc EXCEPT ![c] = "answered"]
        /\ reply' = [reply EXCEPT ![c] =
              [code |-> reply[follows[c]].code, of |-> follows[c]]]
    BY <1>19 DEF Share, Answers, Becomes
  <2>2. [code |-> reply[follows[c]].code, of |-> follows[c]] # None
    BY <1>19, SharedReply
  <2> QED
    BY <2>1, <2>2 DEF TypeOK, StepsInOrder, Keyed, Unsent
<1>20. CASE SaveCredential
  BY <1>20 DEF SaveCredential, TypeOK, StepsInOrder, Keyed, Unsent, Free
<1>21. CASE DeleteCredential
  BY <1>21 DEF DeleteCredential, TypeOK, StepsInOrder, Keyed, Unsent, Free
<1>22. CASE NextDay
  BY <1>22 DEF NextDay, TypeOK, StepsInOrder, Keyed, Unsent, Free
<1>23. ASSUME NEW r \in Replica, Crash(r) PROVE StepsInOrder'
  BY <1>23 DEF Crash, TypeOK, StepsInOrder, Keyed, Unsent, Free
<1>24. CASE UNCHANGED vars
  BY <1>24 DEF vars, ledger, keys, TypeOK, StepsInOrder, Keyed, Unsent, Free
<1> QED
  BY <1>1, <1>2, <1>3, <1>4, <1>5, <1>6, <1>7, <1>8, <1>9, <1>10, <1>11,
     <1>12, <1>13, <1>14, <1>15, <1>16, <1>17, <1>18, <1>19, <1>20, <1>21,
     <1>22, <1>23, <1>24 DEF Next

\* Every step keeps whose each receipt is: they are written by reservations
\* and settlements only.
LEMMA ReceiptsKept == ProxyInv /\ [Next]_vars => ReceiptsHeld'
<1> SUFFICES ASSUME ProxyInv, [Next]_vars PROVE ReceiptsHeld'
  OBVIOUS
<1> USE ProxyAssumption DEF ProxyInv
<1>1. ASSUME NEW c \in Call, Receive(c) PROVE ReceiptsHeld'
  BY <1>1
     DEF Receive, Answers, Becomes, TypeOK, StepsInOrder, ReceiptsHeld,
         Keyed, Committed, Request, ledger, Unsent
<1>2. ASSUME NEW c \in Call, Leave(c) PROVE ReceiptsHeld'
  BY <1>2
     DEF Leave, TypeOK, StepsInOrder, ReceiptsHeld, Keyed, Committed,
         Request, ledger
<1>3. ASSUME NEW c \in Call, Replay(c) PROVE ReceiptsHeld'
  BY <1>3
     DEF Replay, Becomes, TypeOK, StepsInOrder, ReceiptsHeld, Keyed,
         Committed, Request, ledger
<1>4. ASSUME NEW c \in Call, Mismatch(c) PROVE ReceiptsHeld'
  BY <1>4
     DEF Mismatch, Answers, Becomes, TypeOK, StepsInOrder, ReceiptsHeld,
         Keyed, Committed, Request, ledger
<1>5. ASSUME NEW c \in Call, Refuse(c) PROVE ReceiptsHeld'
  BY <1>5
     DEF Refuse, Answers, Becomes, TypeOK, StepsInOrder, ReceiptsHeld, Keyed,
         Committed, Request, ledger
<1>6. ASSUME NEW c \in Call, Admit(c) PROVE ReceiptsHeld'
  BY <1>6
     DEF Admit, Becomes, TypeOK, StepsInOrder, ReceiptsHeld, Keyed,
         Committed, Request, ledger, Unsent, Previous
<1>7. ASSUME NEW c \in Call, Reserve(c) PROVE ReceiptsHeld'
  <2>1. pc[c] = "reserving" /\ Reserved(c)
    BY <1>7 DEF Reserve
  <2> QED
    BY <1>7, <2>1, ReservedKeeps
       DEF Reserve, Becomes, TypeOK, StepsInOrder, ReceiptsHeld, Keyed,
           Committed, Request
<1>8. ASSUME NEW c \in Call, ReserveFails(c) PROVE ReceiptsHeld'
  <2>1. CASE Reserved(c)
    <3>1. pc[c] = "reserving" /\ sent[c] = 0
      BY <1>8 DEF ReserveFails, StepsInOrder, Unsent
    <3>2. /\ pc' = [pc EXCEPT ![c] = "answered"]
          /\ UNCHANGED <<req, sent>>
      BY <1>8 DEF ReserveFails, Answers, Becomes
    <3> QED
      BY <2>1, <3>1, <3>2, ReservedKeeps
         DEF TypeOK, StepsInOrder, ReceiptsHeld, Keyed, Committed, Request
  <2>2. CASE UNCHANGED ledger
    BY <1>8, <2>2
       DEF ReserveFails, Answers, Becomes, ledger, TypeOK, StepsInOrder,
           ReceiptsHeld, Keyed, Committed
  <2> QED
    BY <1>8, <2>1, <2>2 DEF ReserveFails
<1>9. ASSUME NEW c \in Call, Begin(c) PROVE ReceiptsHeld'
  BY <1>9
     DEF Begin, Sends, Becomes, TypeOK, StepsInOrder, ReceiptsHeld, Keyed,
         Committed, Request, ledger, Unsent
<1>10. ASSUME NEW c \in Call, Answered(c) PROVE ReceiptsHeld'
  BY <1>10
     DEF Answered, Becomes, TypeOK, StepsInOrder, ReceiptsHeld, Keyed,
         Committed, Request, ledger
<1>11. ASSUME NEW c \in Call, Fault(c) PROVE ReceiptsHeld'
  BY <1>11
     DEF Fault, Becomes, TypeOK, StepsInOrder, ReceiptsHeld, Keyed,
         Committed, Request, ledger
<1>12. ASSUME NEW c \in Call, Resend(c) PROVE ReceiptsHeld'
  BY <1>12
     DEF Resend, Sends, Becomes, TypeOK, StepsInOrder, ReceiptsHeld, Keyed,
         Committed, Request, ledger
<1>13. ASSUME NEW c \in Call, Fails(c) PROVE ReceiptsHeld'
  BY <1>13
     DEF Fails, Becomes, TypeOK, StepsInOrder, ReceiptsHeld, Keyed,
         Committed, Request, ledger
<1>14. ASSUME NEW c \in Call, Complete(c) PROVE ReceiptsHeld'
  <2>1. req[c] \in Request /\ pc[c] \in Committed
    BY <1>14 DEF Complete, TypeOK, StepsInOrder, Committed
  <2>2. Settled(c, "ok", "completed") \/ UNCHANGED ledger
    BY <1>14 DEF Complete
  <2>3. /\ \A u \in Call : usage[u] # None => usage'[u] # None
        /\ \A k \in Key : receipt[k] = None => receipt'[k] = None
        /\ \A k \in Key : receipt[k] # None =>
              receipt'[k] # None /\ receipt'[k].usage = receipt[k].usage
    BY <2>1, <2>2, SettledKeeps
  <2>4. pc' = [pc EXCEPT ![c] = "answered"] /\ UNCHANGED <<req, sent>>
    BY <1>14 DEF Complete, Answers, Becomes
  <2> QED
    BY <2>3, <2>4 DEF TypeOK, ReceiptsHeld, Keyed, Committed, Request
<1>15. ASSUME NEW c \in Call, CompleteFails(c) PROVE ReceiptsHeld'
  <2>1. req[c] \in Request /\ pc[c] \in Committed
    BY <1>15 DEF CompleteFails, TypeOK, StepsInOrder, Committed
  <2>2. Settled(c, "ok", "completed") \/ UNCHANGED ledger
    BY <1>15 DEF CompleteFails
  <2>3. /\ \A u \in Call : usage[u] # None => usage'[u] # None
        /\ \A k \in Key : receipt[k] = None => receipt'[k] = None
        /\ \A k \in Key : receipt[k] # None =>
              receipt'[k] # None /\ receipt'[k].usage = receipt[k].usage
    BY <2>1, <2>2, SettledKeeps
  <2>4. pc' = [pc EXCEPT ![c] = "failing"] /\ UNCHANGED <<req, sent>>
    BY <1>15 DEF CompleteFails, Becomes
  <2>5. \A d \in Call : Keyed(d) => req[d].key \in Key
    BY DEF TypeOK, Keyed, Request
  <2>6. \A d \in Call :
           /\ pc'[d] \in Committed <=> pc[d] \in Committed
           /\ pc'[d] = "reserving" <=> pc[d] = "reserving"
    BY <2>1, <2>4 DEF TypeOK, Committed
  <2> QED
    BY <2>3, <2>4, <2>5, <2>6 DEF ReceiptsHeld, Keyed
<1>16. ASSUME NEW c \in Call, Fail(c) PROVE ReceiptsHeld'
  <2>1. req[c] \in Request /\ pc[c] \in Committed
    BY <1>16 DEF Fail, TypeOK, StepsInOrder, Committed
  <2>2. Settled(c, "failed", "uncertain") \/ UNCHANGED ledger
    BY <1>16 DEF Fail
  <2>3. /\ \A u \in Call : usage[u] # None => usage'[u] # None
        /\ \A k \in Key : receipt[k] = None => receipt'[k] = None
        /\ \A k \in Key : receipt[k] # None =>
              receipt'[k] # None /\ receipt'[k].usage = receipt[k].usage
    BY <2>1, <2>2, SettledKeeps
  <2>4. pc' = [pc EXCEPT ![c] = "answered"] /\ UNCHANGED <<req, sent>>
    BY <1>16 DEF Fail, Answers, Becomes
  <2> QED
    BY <2>3, <2>4 DEF TypeOK, ReceiptsHeld, Keyed, Committed, Request
<1>17. ASSUME NEW c \in Call, FailFails(c) PROVE ReceiptsHeld'
  <2>1. req[c] \in Request /\ pc[c] \in Committed
    BY <1>17 DEF FailFails, TypeOK, StepsInOrder, Committed
  <2>2. Settled(c, "failed", "uncertain") \/ UNCHANGED ledger
    BY <1>17 DEF FailFails
  <2>3. /\ \A u \in Call : usage[u] # None => usage'[u] # None
        /\ \A k \in Key : receipt[k] = None => receipt'[k] = None
        /\ \A k \in Key : receipt[k] # None =>
              receipt'[k] # None /\ receipt'[k].usage = receipt[k].usage
    BY <2>1, <2>2, SettledKeeps
  <2>4. pc' = [pc EXCEPT ![c] = "answered"] /\ UNCHANGED <<req, sent>>
    BY <1>17 DEF FailFails, Answers, Becomes
  <2> QED
    BY <2>3, <2>4 DEF TypeOK, ReceiptsHeld, Keyed, Committed, Request
<1>18. ASSUME NEW c \in Call, Read(c) PROVE ReceiptsHeld'
  BY <1>18
     DEF Read, Answers, Becomes, TypeOK, StepsInOrder, ReceiptsHeld, Keyed,
         Committed, Request, ledger
<1>19. ASSUME NEW c \in Call, Share(c) PROVE ReceiptsHeld'
  BY <1>19
     DEF Share, Answers, Becomes, TypeOK, StepsInOrder, ReceiptsHeld, Keyed,
         Committed, Request, ledger
<1>20. CASE SaveCredential
  BY <1>20
     DEF SaveCredential, TypeOK, StepsInOrder, ReceiptsHeld, Keyed,
         Committed, Request, ledger
<1>21. CASE DeleteCredential
  BY <1>21
     DEF DeleteCredential, TypeOK, StepsInOrder, ReceiptsHeld, Keyed,
         Committed, Request, ledger
<1>22. CASE NextDay
  BY <1>22
     DEF NextDay, TypeOK, StepsInOrder, ReceiptsHeld, Keyed, Committed,
         Request, ledger
<1>23. ASSUME NEW r \in Replica, Crash(r) PROVE ReceiptsHeld'
  BY <1>23
     DEF Crash, TypeOK, StepsInOrder, ReceiptsHeld, Keyed, Committed,
         Request, ledger
<1>24. CASE UNCHANGED vars
  BY <1>24
     DEF vars, ledger, keys, TypeOK, StepsInOrder, ReceiptsHeld, Keyed,
         Committed, Request, ledger
<1> QED
  BY <1>1, <1>2, <1>3, <1>4, <1>5, <1>6, <1>7, <1>8, <1>9, <1>10, <1>11,
     <1>12, <1>13, <1>14, <1>15, <1>16, <1>17, <1>18, <1>19, <1>20, <1>21,
     <1>22, <1>23, <1>24 DEF Next
\* Only a reservation and a settlement write receipts and rows.
LEMMA LedgerStep ==
    ASSUME ProxyInv, [Next]_vars
    PROVE  \/ UNCHANGED ledger
           \/ \E c \in Call : pc[c] = "reserving" /\ Reserved(c)
           \/ \E c \in Call :
                 /\ pc[c] \in Committed /\ req[c] \in Request
                 /\ \/ Settled(c, "ok", "completed")
                    \/ Settled(c, "failed", "uncertain")
<1> USE ProxyAssumption DEF ProxyInv
<1>1. ASSUME NEW c \in Call,
             Complete(c) \/ CompleteFails(c) \/ Fail(c) \/ FailFails(c)
      PROVE  /\ pc[c] \in Committed /\ req[c] \in Request
             /\ \/ Settled(c, "ok", "completed")
                \/ Settled(c, "failed", "uncertain")
                \/ UNCHANGED ledger
  BY <1>1 DEF Complete, CompleteFails, Fail, FailFails, Committed, TypeOK,
              StepsInOrder
<1>2. ASSUME NEW c \in Call, Reserve(c) \/ ReserveFails(c)
      PROVE  pc[c] = "reserving" /\ (Reserved(c) \/ UNCHANGED ledger)
  BY <1>2 DEF Reserve, ReserveFails
<1>3. ASSUME NEW c \in Call,
             \/ Receive(c) \/ Leave(c) \/ Replay(c) \/ Mismatch(c)
             \/ Refuse(c) \/ Admit(c) \/ Begin(c) \/ Answered(c) \/ Fault(c)
             \/ Resend(c) \/ Fails(c) \/ Read(c) \/ Share(c)
      PROVE  UNCHANGED ledger
  BY <1>3
     DEF Receive, Leave, Replay, Mismatch, Refuse, Admit, Begin, Answered,
              Fault, Resend, Fails, Read, Share
<1>4. ASSUME NEW r \in Replica,
             Crash(r) \/ SaveCredential \/ DeleteCredential \/ NextDay
      PROVE  UNCHANGED ledger
  BY <1>4 DEF Crash, SaveCredential, DeleteCredential, NextDay
<1>5. CASE SaveCredential \/ DeleteCredential \/ NextDay \/ UNCHANGED vars
  BY <1>5 DEF SaveCredential, DeleteCredential, NextDay, vars, ledger
<1> QED
  BY <1>1, <1>2, <1>3, <1>4, <1>5 DEF Next

\* A receipt, once written, stays, and stays that of the same request.
LEMMA ReceiptsStay ==
    ASSUME ProxyInv, [Next]_vars, NEW k \in Key, receipt[k] # None
    PROVE  receipt'[k] # None /\ receipt'[k].usage = receipt[k].usage
<1> USE DEF ProxyInv
<1>1. CASE UNCHANGED ledger
  BY <1>1 DEF ledger
<1>2. ASSUME NEW c \in Call, pc[c] = "reserving", Reserved(c)
      PROVE  receipt'[k] = receipt[k]
  <2>1. CASE Keyed(c)
    BY <1>2, <2>1, ReservedKeeps
  <2>2. CASE ~Keyed(c)
    BY <1>2, <2>2, ReservedKeeps, ProxyAssumption DEF Keyed, Reserved
  <2> QED
    BY <2>1, <2>2
<1>3. ASSUME NEW c \in Call, pc[c] \in Committed, req[c] \in Request,
             NEW o \in {"ok", "failed"}, NEW s \in {"completed", "uncertain"},
             Settled(c, o, s)
      PROVE  receipt'[k] # None /\ receipt'[k].usage = receipt[k].usage
  BY <1>3, SettledKeeps
<1>4. ASSUME NEW c \in Call, pc[c] \in Committed, req[c] \in Request,
             Settled(c, "ok", "completed") \/ Settled(c, "failed", "uncertain")
      PROVE  receipt'[k] # None /\ receipt'[k].usage = receipt[k].usage
  <2>1. CASE Settled(c, "ok", "completed")
    BY <1>3, <1>4, <2>1
  <2>2. CASE Settled(c, "failed", "uncertain")
    BY <1>3, <1>4, <2>2
  <2> QED
    BY <1>4, <2>1, <2>2
<1> QED
  BY <1>1, <1>2, <1>4, LedgerStep

\* Receipts and the rows they point to are written together.
LEMMA MatchKept == ProxyInv /\ [Next]_vars => ReceiptsMatchUsage'
<1> SUFFICES ASSUME ProxyInv, [Next]_vars PROVE ReceiptsMatchUsage'
  OBVIOUS
<1> USE ProxyAssumption DEF ProxyInv
<1>1. CASE UNCHANGED ledger
  BY <1>1 DEF ledger, ReceiptsMatchUsage
<1>2. ASSUME NEW c \in Call, pc[c] = "reserving", Reserved(c)
      PROVE  ReceiptsMatchUsage'
  <2> SUFFICES ASSUME NEW k \in Key, receipt'[k] # None
               PROVE  /\ usage'[receipt'[k].usage] # None
                      /\ usage'[receipt'[k].usage].outcome
                            = LegacyOutcome(receipt'[k].status)
    BY DEF ReceiptsMatchUsage
  <2>1. CASE k = req[c].key
    BY <1>2, <2>1, ReservedKeeps DEF Keyed, LegacyOutcome, StepsInOrder
  <2>2. CASE k # req[c].key
    <3>1. receipt'[k] = receipt[k]
      BY <1>2, <2>2, ReservedKeeps
    <3>2. receipt[k] \in Receipt
      BY <3>1 DEF TypeOK
    <3>3. receipt[k].usage # c
      BY <2>2, <3>1 DEF ReceiptsHeld
    <3> QED
      BY <1>2, <3>1, <3>2, <3>3, ReservedKeeps
         DEF ReceiptsMatchUsage, Receipt
  <2> QED
    BY <2>1, <2>2
<1>3. ASSUME NEW c \in Call, pc[c] \in Committed, req[c] \in Request,
             NEW o \in {"ok", "failed"}, NEW s \in {"completed", "uncertain"},
             o = LegacyOutcome(s), Settled(c, o, s)
      PROVE  ReceiptsMatchUsage'
  <2> SUFFICES ASSUME NEW k \in Key, receipt'[k] # None
               PROVE  /\ usage'[receipt'[k].usage] # None
                      /\ usage'[receipt'[k].usage].outcome
                            = LegacyOutcome(receipt'[k].status)
    BY DEF ReceiptsMatchUsage
  <2>1. receipt[k] \in Receipt /\ receipt'[k].usage = receipt[k].usage
    BY <1>3, SettledKeeps DEF TypeOK
  <2>2. usage[c] \in Usage
    BY <1>3 DEF TypeOK, ReceiptsHeld
  <2>3. usage'[c] \in Usage /\ usage'[c].outcome = o
    BY <1>3, <2>2 DEF Settled, TypeOK, Usage
  <2>4. CASE k = req[c].key
    <3>1. receipt[k].usage = c
      BY <1>3, <2>4 DEF ReceiptsHeld, Keyed
    <3>2. receipt'[k] = [receipt[k] EXCEPT !.status = s]
      BY <1>3, <2>4 DEF Settled, TypeOK
    <3>3. receipt'[k].status = s
      BY <2>1, <3>2 DEF Receipt
    <3> QED
      BY <1>3, <2>1, <2>3, <3>1, <3>3
  <2>5. CASE k # req[c].key
    <3>1. receipt'[k] = receipt[k]
      BY <1>3, <2>5 DEF Settled, TypeOK
    <3>2. receipt[k].usage # c
      BY <2>5, <3>1 DEF ReceiptsHeld
    <3>3. usage'[receipt[k].usage] = usage[receipt[k].usage]
      BY <1>3, <2>1, <3>2 DEF Settled, TypeOK, Receipt
    <3> QED
      BY <3>1, <3>3 DEF ReceiptsMatchUsage
  <2> QED
    BY <2>4, <2>5
<1>4. "ok" = LegacyOutcome("completed") /\ "failed" = LegacyOutcome("uncertain")
  BY DEF LegacyOutcome
<1>5. ASSUME NEW c \in Call, pc[c] \in Committed, req[c] \in Request,
             Settled(c, "ok", "completed") \/ Settled(c, "failed", "uncertain")
      PROVE  ReceiptsMatchUsage'
  <2>1. CASE Settled(c, "ok", "completed")
    BY <1>3, <1>4, <1>5, <2>1
  <2>2. CASE Settled(c, "failed", "uncertain")
    BY <1>3, <1>4, <1>5, <2>2
  <2> QED
    BY <1>5, <2>1, <2>2
<1> QED
  BY <1>1, <1>2, <1>5, LedgerStep


\* A step that shares nothing new, hands out nothing and makes nothing active
\* keeps whose result is shared and handed out.
LEMMA SharesFrame ==
    ASSUME ProxyInv, [Next]_vars, UNCHANGED <<req, follows>>,
           \A d \in Call :
              /\ sent[d] >= 1 => sent'[d] >= 1
              /\ pc'[d] \in {"replayed", "sharing"} => pc'[d] = pc[d]
              /\ reply'[d] = reply[d] \/ reply'[d].code # "ok",
           \A r \in Replica, k \in Key :
              active'[r][k] = active[r][k] \/ active'[r][k] = None
    PROVE  SharesOwn'
<1> USE ProxyAssumption DEF ProxyInv
<1>1. \A k \in Key : receipt[k] # None =>
         receipt'[k] # None /\ receipt'[k].usage = receipt[k].usage
  BY ReceiptsStay
<1>2. \A r \in Replica, k \in Key : active'[r][k] # None =>
         receipt'[k] # None /\ receipt'[k].usage = active'[r][k]
  BY <1>1 DEF SharesOwn
<1>3. \A d \in Call : Keyed(d) => req[d].key \in Key
  BY DEF TypeOK, Keyed, Request
<1>4. ASSUME NEW d \in Call, pc'[d] = "replayed"
      PROVE  Keyed(d) /\ receipt'[req[d].key] # None
  BY <1>1, <1>3, <1>4 DEF SharesOwn
<1>5. ASSUME NEW d \in Call, pc'[d] = "sharing"
      PROVE  /\ Keyed(d) /\ receipt'[req[d].key] # None
             /\ follows[d] \in Call /\ receipt'[req[d].key].usage = follows[d]
  BY <1>1, <1>3, <1>5 DEF SharesOwn
<1>6. ASSUME NEW d \in Call, Keyed(d), reply'[d] # None, reply'[d].code = "ok"
      PROVE  /\ receipt'[req[d].key] # None
             /\ receipt'[req[d].key].usage = reply'[d].of
             /\ sent'[reply'[d].of] >= 1
  <2>1. reply'[d] = reply[d]
    BY <1>6
  <2>2. reply[d].of \in Call
    BY <1>6, <2>1 DEF TypeOK, Reply
  <2> QED
    BY <1>1, <1>3, <1>6, <2>1, <2>2 DEF SharesOwn
<1> QED
  BY <1>2, <1>4, <1>5, <1>6 DEF SharesOwn, Keyed

\* Every step keeps whose result is shared and handed out.
LEMMA SharesKept == ProxyInv /\ [Next]_vars => SharesOwn'
<1> SUFFICES ASSUME ProxyInv, [Next]_vars PROVE SharesOwn'
  OBVIOUS
<1> USE ProxyAssumption DEF ProxyInv
<1>1. ASSUME NEW c \in Call, Receive(c) PROVE SharesOwn'
  <2>1. /\ UNCHANGED <<receipt, sent, active, follows>> /\ req[c] = None
        /\ \A d \in Call : d # c => req'[d] = req[d]
        /\ pc'[c] \in {"selected", "answered"}
        /\ \A d \in Call : d # c => pc'[d] = pc[d] /\ reply'[d] = reply[d]
    BY <1>1 DEF Receive, Answers, Becomes, TypeOK, StepsInOrder, ledger
  <2>2. reply'[c] # None => reply'[c].code = "refused"
    BY <1>1 DEF Receive, Answers, TypeOK, StepsInOrder
  <2>3. \A d \in Call : d # c => Keyed(d)' = Keyed(d)
    BY <2>1 DEF Keyed
  <2> QED
    BY <2>1, <2>2, <2>3 DEF SharesOwn
<1>2. ASSUME NEW c \in Call, Leave(c) PROVE SharesOwn'
  <2>1. UNCHANGED <<pc, req, sent, active, follows, reply>>
    BY <1>2 DEF Leave
  <2> QED
    BY <2>1, SharesFrame
<1>3. ASSUME NEW c \in Call, Replay(c) PROVE SharesOwn'
  <2>1. /\ UNCHANGED <<receipt, req, sent, active, reply>>
        /\ pc' = [pc EXCEPT ![c] = "replayed"]
        /\ \A d \in Call : d # c => follows'[d] = follows[d]
    BY <1>3 DEF Replay, Becomes, ledger, TypeOK
  <2>2. Keyed(c) /\ receipt[req[c].key] # None
    BY <1>3 DEF Replay, Previous, StepsInOrder, Keyed
  <2> QED
    BY <2>1, <2>2 DEF TypeOK, SharesOwn, Keyed
<1>4. ASSUME NEW c \in Call, Mismatch(c) PROVE SharesOwn'
  <2>1. /\ UNCHANGED <<req, sent, follows, active>>
        /\ pc' = [pc EXCEPT ![c] = "answered"]
        /\ \E code \in {"conflict"} :
              reply' = [reply EXCEPT ![c] = [code |-> code, of |-> c]]
    BY <1>4 DEF Mismatch, Answers, Becomes
  <2> QED
    BY <2>1, SharesFrame DEF TypeOK
<1>5. ASSUME NEW c \in Call, Refuse(c) PROVE SharesOwn'
  <2>1. /\ UNCHANGED <<req, sent, follows, active>>
        /\ pc' = [pc EXCEPT ![c] = "answered"]
        /\ \E code \in {"uncertain", "refused"} :
              reply' = [reply EXCEPT ![c] = [code |-> code, of |-> c]]
    BY <1>5 DEF Refuse, Answers, Becomes
  <2> QED
    BY <2>1, SharesFrame DEF TypeOK
<1>6. ASSUME NEW c \in Call, Admit(c) PROVE SharesOwn'
  <2>1. /\ UNCHANGED <<req, sent, active, follows, reply>>
        /\ pc' = [pc EXCEPT ![c] = "reserving"]
    BY <1>6 DEF Admit, Becomes
  <2> QED
    BY <2>1, SharesFrame DEF TypeOK
<1>7. ASSUME NEW c \in Call, Reserve(c) PROVE SharesOwn'
  <2>1. /\ UNCHANGED <<req, sent, active, follows, reply>>
        /\ pc' = [pc EXCEPT ![c] = "reserved"]
    BY <1>7 DEF Reserve, Becomes
  <2> QED
    BY <2>1, SharesFrame DEF TypeOK
<1>8. ASSUME NEW c \in Call, ReserveFails(c) PROVE SharesOwn'
  <2>1. /\ UNCHANGED <<req, sent, follows, active>>
        /\ pc' = [pc EXCEPT ![c] = "answered"]
        /\ \E code \in {"error"} :
              reply' = [reply EXCEPT ![c] = [code |-> code, of |-> c]]
    BY <1>8 DEF ReserveFails, Answers, Becomes
  <2> QED
    BY <2>1, SharesFrame DEF TypeOK
<1>9. ASSUME NEW c \in Call, Begin(c) PROVE SharesOwn'
  <2>1. req[c] \in Request /\ pc[c] = "reserved"
    BY <1>9 DEF Begin, TypeOK, StepsInOrder
  <2>2. Keyed(c) => receipt[req[c].key] # None /\ receipt[req[c].key].usage = c
    BY <2>1 DEF ReceiptsHeld, Committed
  <2>3. \A r \in Replica, k \in Key : active'[r][k] # None =>
           receipt[k] # None /\ receipt[k].usage = active'[r][k]
    BY <1>9, <2>1, <2>2 DEF Begin, SharesOwn, TypeOK, Keyed, Request
  <2>4. /\ UNCHANGED <<receipt, req, follows, reply>>
        /\ \A d \in Call : sent[d] >= 1 => sent'[d] >= 1
        /\ \A d \in Call : pc'[d] \in {"replayed", "sharing"} => pc'[d] = pc[d]
    BY <1>9, <2>1 DEF Begin, Sends, Becomes, ledger, TypeOK
  <2> QED
    BY <2>3, <2>4 DEF SharesOwn, TypeOK, Keyed, Reply
<1>10. ASSUME NEW c \in Call, Answered(c) PROVE SharesOwn'
  <2>1. /\ UNCHANGED <<req, sent, active, follows, reply>>
        /\ pc' = [pc EXCEPT ![c] = "settling"]
    BY <1>10 DEF Answered, Becomes
  <2> QED
    BY <2>1, SharesFrame DEF TypeOK
<1>11. ASSUME NEW c \in Call, Fault(c) PROVE SharesOwn'
  <2>1. /\ UNCHANGED <<req, sent, active, follows, reply>>
        /\ \E s \in {"backoff", "failing"} : pc' = [pc EXCEPT ![c] = s]
    BY <1>11 DEF Fault, Becomes
  <2> QED
    BY <2>1, SharesFrame DEF TypeOK
<1>12. ASSUME NEW c \in Call, Resend(c) PROVE SharesOwn'
  <2>1. /\ UNCHANGED <<req, active, follows, reply>>
        /\ pc' = [pc EXCEPT ![c] = "sent"]
        /\ sent' = [sent EXCEPT ![c] = @ + 1]
    BY <1>12 DEF Resend, Sends, Becomes
  <2> QED
    BY <2>1, SharesFrame DEF TypeOK
<1>13. ASSUME NEW c \in Call, Fails(c) PROVE SharesOwn'
  <2>1. /\ UNCHANGED <<req, sent, active, follows, reply>>
        /\ pc' = [pc EXCEPT ![c] = "failing"]
    BY <1>13 DEF Fails, Becomes
  <2> QED
    BY <2>1, SharesFrame DEF TypeOK
<1>14. ASSUME NEW c \in Call, Complete(c) PROVE SharesOwn'
  <2>1. req[c] \in Request
    BY <1>14 DEF Complete, TypeOK, StepsInOrder
  <2>2. Keyed(c) => /\ receipt[req[c].key] # None
                    /\ receipt[req[c].key].usage = c
                    /\ sent[c] >= 1
    BY <1>14 DEF Complete, ReceiptsHeld, StepsInOrder, Committed
  <2> QED
    BY <1>14, <2>1, <2>2, ReceiptsStay, SMTT(40)
       DEF Complete, Answers, Becomes, Forgets, TypeOK, SharesOwn, Keyed,
           Request
<1>15. ASSUME NEW c \in Call, CompleteFails(c) PROVE SharesOwn'
  <2>1. /\ UNCHANGED <<req, sent, active, follows, reply>>
        /\ pc' = [pc EXCEPT ![c] = "failing"]
    BY <1>15 DEF CompleteFails, Becomes
  <2> QED
    BY <2>1, SharesFrame DEF TypeOK
<1>16. ASSUME NEW c \in Call, Fail(c) PROVE SharesOwn'
  <2>1. /\ UNCHANGED <<req, sent, follows>>
        /\ pc' = [pc EXCEPT ![c] = "answered"]
        /\ \E code \in {"refused", "uncertain"} :
              reply' = [reply EXCEPT ![c] = [code |-> code, of |-> c]]
    BY <1>16 DEF Fail, Answers, Becomes
  <2>2. \A r \in Replica, k \in Key :
           active'[r][k] = active[r][k] \/ active'[r][k] = None
    BY <1>16 DEF Fail, Forgets, TypeOK
  <2> QED
    BY <2>1, <2>2, SharesFrame DEF TypeOK
<1>17. ASSUME NEW c \in Call, FailFails(c) PROVE SharesOwn'
  <2>1. /\ UNCHANGED <<req, sent, follows>>
        /\ pc' = [pc EXCEPT ![c] = "answered"]
        /\ \E code \in {"error"} :
              reply' = [reply EXCEPT ![c] = [code |-> code, of |-> c]]
    BY <1>17 DEF FailFails, Answers, Becomes
  <2>2. \A r \in Replica, k \in Key :
           active'[r][k] = active[r][k] \/ active'[r][k] = None
    BY <1>17 DEF FailFails, Forgets, TypeOK
  <2> QED
    BY <2>1, <2>2, SharesFrame DEF TypeOK
<1>18. ASSUME NEW c \in Call, Read(c) PROVE SharesOwn'
  <2>1. /\ pc[c] = "replayed" /\ UNCHANGED <<receipt, req, sent, active>>
        /\ Keyed(c) /\ receipt[req[c].key] # None
    BY <1>18 DEF Read, ledger, SharesOwn
  <2>2. req[c].key \in Key /\ req[c].replica \in Replica
    BY <1>18 DEF Read, TypeOK, StepsInOrder, Keyed, Request, SharesOwn
  <2>3. CASE /\ InFlight(c) # None
             /\ pc' = [pc EXCEPT ![c] = "sharing"]
             /\ follows' = [follows EXCEPT ![c] = InFlight(c)]
             /\ UNCHANGED reply
    <3>1. InFlight(c) \in Call /\ receipt[req[c].key].usage = InFlight(c)
      BY <2>2, <2>3 DEF InFlight, TypeOK, SharesOwn
    <3> QED
      BY <2>1, <2>3, <3>1 DEF TypeOK, SharesOwn, Keyed
  <2>4. CASE /\ pc' = [pc EXCEPT ![c] = "answered"]
             /\ \E code \in {"unavailable", "uncertain"} :
                   reply' = [reply EXCEPT ![c] = [code |-> code, of |-> c]]
             /\ UNCHANGED follows
    BY <2>1, <2>4 DEF TypeOK, SharesOwn, Keyed
  <2> QED
    BY <1>18, <2>3, <2>4 DEF Read, Becomes, Answers
<1>19. ASSUME NEW c \in Call, Share(c) PROVE SharesOwn'
  <2>1. follows[c] \in Call /\ reply[follows[c]] \in Reply \ {None}
    BY <1>19, SharedReply
  <2>2. /\ pc[c] = "sharing"
        /\ pc' = [pc EXCEPT ![c] = "answered"]
        /\ reply' = [reply EXCEPT ![c] =
              [code |-> reply[follows[c]].code, of |-> follows[c]]]
        /\ UNCHANGED <<receipt, req, follows, active, sent>>
    BY <1>19 DEF Share, Answers, Becomes, ledger
  <2>3. /\ Keyed(c) /\ req[c].key \in Key
        /\ receipt[req[c].key] # None /\ receipt[req[c].key].usage = follows[c]
    BY <2>2 DEF SharesOwn, TypeOK, Keyed, Request
  <2>4. Keyed(follows[c]) /\ req[follows[c]].key = req[c].key
    BY <2>1, <2>3 DEF ReceiptsHeld, Keyed
  <2>5. reply[follows[c]].code = "ok" => sent[follows[c]] >= 1
    BY <2>1, <2>3, <2>4 DEF SharesOwn
  <2> QED
    BY <2>1, <2>2, <2>3, <2>5 DEF SharesOwn, TypeOK, Keyed
<1>20. CASE SaveCredential
  BY <1>20, SharesFrame DEF SaveCredential
<1>21. CASE DeleteCredential
  BY <1>21, SharesFrame DEF DeleteCredential
<1>22. CASE NextDay
  BY <1>22, SharesFrame DEF NextDay
<1>23. ASSUME NEW r \in Replica, Crash(r) PROVE SharesOwn'
  <2>1. /\ UNCHANGED <<req, sent, follows, reply>>
        /\ \A d \in Call : pc'[d] = pc[d] \/ pc'[d] = "lost"
        /\ \A s \in Replica, k \in Key :
              active'[s][k] = active[s][k] \/ active'[s][k] = None
    BY <1>23 DEF Crash, TypeOK
  <2> QED
    BY <2>1, SharesFrame
<1>24. CASE UNCHANGED vars
  BY <1>24, SharesFrame DEF vars
<1> QED
  BY <1>1, <1>2, <1>3, <1>4, <1>5, <1>6, <1>7, <1>8, <1>9, <1>10, <1>11,
     <1>12, <1>13, <1>14, <1>15, <1>16, <1>17, <1>18, <1>19, <1>20, <1>21,
     <1>22, <1>23, <1>24 DEF Next

LEMMA InvInit == Init => ProxyInv
<1> SUFFICES ASSUME Init PROVE ProxyInv
  OBVIOUS
<1> USE ProxyAssumption
<1>1. PICK s \in [Legacy -> Status], x \in [Legacy -> Content],
           p \in [Legacy -> Project], a \in [Legacy -> 0..revisions] :
        /\ usage = [u \in Call \cup Legacy |->
                      IF u \in Legacy
                        THEN [project |-> p[u], outcome |-> LegacyOutcome(s[u]),
                              cost |-> 1, day |-> 0]
                        ELSE None]
        /\ receipt = [k \in Key |->
                      IF k \in Legacy
                        THEN [binding |-> [content |-> x[k], project |-> p[k],
                                           account |-> a[k], form |-> "legacy"],
                              usage |-> k, status |-> s[k]]
                        ELSE None]
  BY DEF Init
<1>2. \A u \in Legacy : LegacyOutcome(s[u]) \in {"reserved", "ok", "failed"}
  BY DEF LegacyOutcome, Status
<1>a. /\ revisions \in 0..MaxRevision
      /\ credential \in 0..MaxRevision /\ revisions \in credential..MaxRevision
  BY DEF Init
<1>3. \A u \in Legacy : usage[u] \in Usage /\ receipt[u] \in Receipt
  <2> SUFFICES ASSUME NEW u \in Legacy
               PROVE  usage[u] \in Usage /\ receipt[u] \in Receipt
    OBVIOUS
  <2>1. usage[u] = [project |-> p[u], outcome |-> LegacyOutcome(s[u]),
                    cost |-> 1, day |-> 0]
    BY <1>1
  <2>2. receipt[u] = [binding |-> [content |-> x[u], project |-> p[u],
                                   account |-> a[u], form |-> "legacy"],
                      usage |-> u, status |-> s[u]]
    BY <1>1
  <2>3. usage[u] \in Usage
    BY <1>2, <2>1 DEF Usage
  <2>4. receipt[u] \in Receipt
    <3>1. a[u] \in 0..MaxRevision
      BY <1>a
    <3> QED
      BY <2>2, <3>1 DEF Receipt, Binding
  <2> QED
    BY <2>3, <2>4
<1>4. \A u \in Legacy :
         /\ receipt[u] # None /\ receipt[u].usage = u
         /\ usage[u] # None
         /\ usage[u].outcome = LegacyOutcome(receipt[u].status)
  BY <1>1, <1>3
<1>5. /\ \A k \in Key \ Legacy : receipt[k] = None
       /\ \A u \in Legacy : u \in Key /\ u \notin Call
  BY <1>1
<1>6. TypeOK
  <2>1. usage \in [Call \cup Legacy -> Usage \cup {None}]
    BY <1>1, <1>3
  <2>2. receipt \in [Key -> Receipt \cup {None}]
    BY <1>1, <1>3
  <2> QED
    BY <1>a, <2>1, <2>2 DEF Init, TypeOK, Progress, Managed
<1>7. StepsInOrder
  BY DEF Init, StepsInOrder, Keyed, Unsent
<1>8. ReceiptsHeld
  <2>1. \A c \in Call : pc[c] = "idle" /\ req[c] = None
    BY DEF Init
  <2>2. \A k \in Key : receipt[k] # None => k \in Legacy /\ receipt[k].usage \notin Call
    BY <1>4, <1>5
  <2> QED
    BY <1>4, <2>1, <2>2 DEF ReceiptsHeld, Keyed, Committed
<1>9. ReceiptsMatchUsage
  BY <1>4, <1>5 DEF ReceiptsMatchUsage
<1>10. SharesOwn
  BY DEF Init, SharesOwn, Keyed
<1> QED
  BY <1>6, <1>7, <1>8, <1>9, <1>10 DEF ProxyInv

LEMMA ProxyInvariant == Spec => []ProxyInv
<1>1. Init => ProxyInv
  BY InvInit
<1>2. ProxyInv /\ [Next]_vars => ProxyInv'
  BY TypeKept, StepsKept, ReceiptsKept, MatchKept, SharesKept DEF ProxyInv
<1> QED
  BY <1>1, <1>2, PTL DEF Spec

\* Every variable of the proxy keeps its type, for any number of requests,
\* replicas, keys and retries.
THEOREM ProxyTypes == Spec => []TypeOK
<1>1. ProxyInv => TypeOK
  BY DEF ProxyInv
<1> QED
  BY <1>1, ProxyInvariant, PTL

\* A lost reply cannot cause a second bill: one request, sent once, has the
\* receipt of its key, whatever fails and whichever replica is asked again.
THEOREM ProxySendsOnce == Spec => []SentOnce
<1>1. ProxyInv => SentOnce
  <2> SUFFICES ASSUME ProxyInv, NEW k \in Key, NEW c \in Call,
                      req[c] # None, req[c].key = k
               PROVE  /\ sent[c] <= 1
                      /\ sent[c] > 0 =>
                           /\ k \notin Legacy
                           /\ \A d \in Call :
                                 req[d] # None /\ req[d].key = k /\ sent[d] > 0
                                    => d = c
    BY DEF SentOnce, WithKey
  <2>1. Keyed(c)
    BY ProxyAssumption DEF Keyed
  <2>2. \A d \in Call : req[d] # None /\ req[d].key = k /\ sent[d] > 0
                           => receipt[k].usage = d
    BY <2>1 DEF ProxyInv, TypeOK, ReceiptsHeld, Keyed
  <2>3. k \in Legacy => receipt[k].usage = k /\ k \notin Call
    BY ProxyAssumption DEF ProxyInv, ReceiptsHeld
  <2> QED
    BY <2>1, <2>2, <2>3 DEF ProxyInv, StepsInOrder
<1> QED
  BY <1>1, ProxyInvariant, PTL

\* The permanent receipt and the usage row it names agree across every failed
\* settlement and every crash.
THEOREM ProxyReceiptsMatch == Spec => []ReceiptsMatchUsage
<1>1. ProxyInv => ReceiptsMatchUsage
  BY DEF ProxyInv
<1> QED
  BY <1>1, ProxyInvariant, PTL

-----------------------------------------------------------------------------
\* The mapping to ChargedOnce.

\* Attempts and keys change only with req and sent, results only with reply.
LEMMA Stutter ==
    ASSUME UNCHANGED <<req, sent>>, \A c \in Call : Handed(c)' = Handed(c)
    PROVE  UNCHANGED Promise!vars
BY DEF Promise!vars, KeyOf, Attempts, Handed

\* The attempts under the key of a request that has its receipt.
LEMMA AttemptsOfHolder ==
    ASSUME ProxyInv, NEW c \in Call, Keyed(c), receipt[req[c].key] # None,
           receipt[req[c].key].usage = c
    PROVE  Attempts(req[c].key) = IF sent[c] = 0 THEN {} ELSE {<<c, 1>>}
<1> DEFINE k == req[c].key
<1> USE ProxyAssumption
<1>1. k \in Key /\ k \notin Legacy
  BY DEF ProxyInv, TypeOK, Request, Keyed, ReceiptsHeld
<1>2. sent \in [Call -> 0..RetryLimit + 1] /\ sent[c] <= 1
  BY DEF ProxyInv, TypeOK, StepsInOrder
<1>3. \A d \in Call : KeyOf(d) = k /\ sent[d] >= 1 => d = c
  <2> SUFFICES ASSUME NEW d \in Call, KeyOf(d) = k, sent[d] >= 1
               PROVE  d = c
    OBVIOUS
  <2>1. Keyed(d) /\ req[d].key = k
    BY <1>1 DEF KeyOf, Keyed
  <2> QED
    BY <2>1 DEF ProxyInv, ReceiptsHeld
<1>4. KeyOf(c) = k
  BY DEF KeyOf, Keyed
<1>5. \A a \in Call \X (1..RetryLimit + 1) :
         (KeyOf(a[1]) = k /\ a[2] <= sent[a[1]]) <=> (a = <<c, 1>> /\ sent[c] = 1)
  BY <1>2, <1>3, <1>4
<1>6. <<c, 1>> \in Call \X (1..RetryLimit + 1)
  OBVIOUS
<1> QED
  BY <1>1, <1>2, <1>5, <1>6 DEF Attempts

LEMMA PromiseInit == Init => Promise!Init
<1> SUFFICES ASSUME Init PROVE Promise!Init
  OBVIOUS
<1> USE ProxyAssumption
<1>1. \A c \in Call : KeyOf(c) = None /\ Handed(c) = None /\ sent[c] = 0
  BY DEF Init, KeyOf, Handed
<1>2. \A k \in Key : Attempts(k) = IF k \in Legacy THEN {<<k, 1>>} ELSE {}
  BY <1>1 DEF Attempts
<1> QED
  BY <1>1, <1>2 DEF Promise!Init, Promise!First

\* A request arrives.
LEMMA ReceiveComes ==
    ASSUME ProxyInv, NEW c \in Call, Receive(c)
    PROVE  Promise!Come(c) \/ UNCHANGED Promise!vars
<1> USE ProxyAssumption
<1>1. PICK r \in Requests : req' = [req EXCEPT ![c] = r]
  BY DEF Receive
<1>2. r \in Request /\ r # None /\ req[c] = None /\ sent[c] = 0 /\ sent' = sent
  BY DEF Receive, ProxyInv, StepsInOrder, Unsent
<1>3. KeyOf(c) = None /\ KeyOf(c)' = r.key
      /\ \A d \in Call : d # c => KeyOf(d)' = KeyOf(d)
  BY <1>1, <1>2 DEF KeyOf, ProxyInv, TypeOK
<1>4. \A d \in Call : Handed(d)' = Handed(d)
  <2>1. reply[c] = None /\ \A d \in Call : d # c => reply'[d] = reply[d]
    BY DEF Receive, Answers, ProxyInv, StepsInOrder, TypeOK
  <2>2. reply'[c] = None \/ reply'[c].code = "refused"
    BY <2>1 DEF Receive, Answers, ProxyInv, TypeOK
  <2> QED
    BY <1>1, <1>3, <2>1, <2>2 DEF Handed, KeyOf, ProxyInv, TypeOK
<1>5. \A k \in Key : Attempts(k)' = Attempts(k)
  <2> SUFFICES ASSUME NEW k \in Key,
                      NEW a \in Call \X (1..RetryLimit + 1)
               PROVE  (KeyOf(a[1])' = k /\ a[2] <= sent'[a[1]])
                         <=> (KeyOf(a[1]) = k /\ a[2] <= sent[a[1]])
    BY DEF Attempts
  <2> QED
    BY <1>2, <1>3
<1>6. CASE r.key = None
  BY <1>3, <1>4, <1>5, <1>6 DEF Promise!vars
<1>7. CASE r.key # None
  <2>1. r.key \in Key
    BY <1>2, <1>7 DEF Request
  <2>2. [d \in Call |-> KeyOf(d)]'
           = [[d \in Call |-> KeyOf(d)] EXCEPT ![c] = r.key]
    BY <1>3
  <2> QED
    BY <1>3, <1>4, <1>5, <2>1, <2>2 DEF Promise!Come
<1> QED
  BY <1>6, <1>7

\* The request is sent: the one attempt under its key.
LEMMA SendCharges ==
    ASSUME ProxyInv, NEW c \in Call, Sends(c), pc[c] \in {"reserved", "backoff"},
           UNCHANGED <<req, reply>>
    PROVE  Promise!Charge(c) \/ UNCHANGED Promise!vars
<1> USE ProxyAssumption
<1>1. /\ sent' = [sent EXCEPT ![c] = @ + 1]
      /\ sent \in [Call -> 0..RetryLimit + 1]
      /\ req[c] \in Request /\ \A d \in Call : KeyOf(d)' = KeyOf(d)
      /\ \A d \in Call : Handed(d)' = Handed(d)
  BY DEF Sends, ProxyInv, TypeOK, StepsInOrder, KeyOf, Handed
<1>2. CASE Keyed(c)
  <2> DEFINE k == req[c].key
  <2>1. pc[c] = "reserved" /\ sent[c] = 0
    <3>1. Retries(req[c]) = 0
      BY <1>2 DEF Retries, Keyed
    <3>2. pc[c] # "backoff"
      BY <1>1, <3>1 DEF ProxyInv, StepsInOrder
    <3> QED
      BY <3>2 DEF ProxyInv, StepsInOrder, Unsent
  <2>2. k \in Key /\ KeyOf(c) = k /\ Attempts(k) = {}
    BY <1>1, <1>2, <2>1, AttemptsOfHolder
       DEF ProxyInv, ReceiptsHeld, Committed, Keyed, KeyOf, Request
  <2>3. \A a \in Call \X (1..RetryLimit + 1) :
           ~(KeyOf(a[1]) = k /\ a[2] <= sent[a[1]])
    BY <2>2 DEF Attempts
  <2>4. k \notin Legacy
    BY <2>2 DEF Attempts
  <2>5. Attempts(k)' = {<<c, 1>>}
    <3>1. \A a \in Call \X (1..RetryLimit + 1) :
             (KeyOf(a[1])' = k /\ a[2] <= sent'[a[1]]) <=> a = <<c, 1>>
      BY <1>1, <2>1, <2>2, <2>3
    <3> QED
      BY <2>4, <3>1 DEF Attempts
  <2>6. \A l \in Key : l # k => Attempts(l)' = Attempts(l)
    BY <1>1, <2>2 DEF Attempts
  <2> QED
    BY <1>1, <1>2, <2>2, <2>5, <2>6 DEF Promise!Charge, Promise!First
<1>3. CASE ~Keyed(c)
  <2>1. KeyOf(c) \notin Key
    BY <1>1, <1>3 DEF Keyed, KeyOf
  <2>2. \A l \in Key : Attempts(l)' = Attempts(l)
    BY <1>1, <2>1 DEF Attempts
  <2> QED
    BY <1>1, <2>2 DEF Promise!vars
<1> QED
  BY <1>2, <1>3

\* An answer is the result of the one attempt, or no result.
LEMMA AnswerHands ==
    ASSUME ProxyInv, NEW c \in Call, NEW d \in Call, NEW code,
           pc[c] # "idle", reply[c] = None,
           [code |-> code, of |-> d] # None,
           reply' = [reply EXCEPT ![c] = [code |-> code, of |-> d]],
           UNCHANGED <<req, sent>>,
           Keyed(c) /\ code = "ok" =>
              /\ receipt[req[c].key] # None /\ receipt[req[c].key].usage = d
              /\ sent[d] >= 1
    PROVE  Promise!Hand(c) \/ UNCHANGED Promise!vars
<1> USE ProxyAssumption
<1>1. /\ \A e \in Call : KeyOf(e)' = KeyOf(e)
      /\ \A k \in Key : Attempts(k)' = Attempts(k)
  BY DEF KeyOf, Attempts
<1>2. /\ \A e \in Call : e # c => Handed(e)' = Handed(e)
      /\ Handed(c) = None
      /\ Handed(c)' = IF KeyOf(c) # None /\ code = "ok" THEN d ELSE None
  BY <1>1 DEF Handed, KeyOf, ProxyInv, TypeOK
<1>3. CASE Keyed(c) /\ code = "ok"
  <2>1. KeyOf(c) = req[c].key /\ req[c].key \in Key
    BY <1>3 DEF Keyed, KeyOf, ProxyInv, TypeOK, Request
  <2>2. Keyed(d) /\ req[d].key = req[c].key
    BY <1>3, <2>1 DEF ProxyInv, ReceiptsHeld, Keyed
  <2>3. Attempts(req[d].key) = IF sent[d] = 0 THEN {} ELSE {<<d, 1>>}
    BY <1>3, <2>2, AttemptsOfHolder
  <2>4. sent[d] # 0
    BY <1>3, <2>1 DEF ProxyInv, TypeOK
  <2>5. Attempts(req[c].key) = {<<d, 1>>}
    BY <2>2, <2>3, <2>4
  <2> QED
    BY <1>1, <1>2, <1>3, <2>1, <2>5 DEF Promise!Hand, Promise!First
<1>4. CASE ~(Keyed(c) /\ code = "ok")
  <2>1. \A e \in Call : Handed(e)' = Handed(e)
    BY <1>2, <1>4 DEF Keyed, KeyOf
  <2> QED
    BY <2>1, Stutter
<1> QED
  BY <1>3, <1>4

LEMMA PromiseNext == ProxyInv /\ [Next]_vars => [Promise!Next]_(Promise!vars)
<1> SUFFICES ASSUME ProxyInv, [Next]_vars
             PROVE  [Promise!Next]_(Promise!vars)
  OBVIOUS
<1> USE ProxyAssumption
<1>1. ASSUME NEW c \in Call, Receive(c)
      PROVE  [Promise!Next]_(Promise!vars)
  BY <1>1, ReceiveComes DEF Promise!Next
<1>2. ASSUME NEW c \in Call, Begin(c) \/ Resend(c)
      PROVE  [Promise!Next]_(Promise!vars)
  <2>1. CASE Sends(c)
    <3>1. pc[c] \in {"reserved", "backoff"} /\ UNCHANGED <<req, reply>>
      BY <1>2 DEF Begin, Resend
    <3> QED
      BY <2>1, <3>1, SendCharges DEF Promise!Next
  <2>2. CASE ~Sends(c)
    <3>1. UNCHANGED <<req, sent, reply>>
      BY <1>2, <2>2 DEF Begin, Resend
    <3> QED
      BY <3>1, Stutter DEF Handed, KeyOf
  <2> QED
    BY <2>1, <2>2
<1>3. ASSUME NEW c \in Call,
             \/ Mismatch(c) \/ Refuse(c) \/ ReserveFails(c) \/ Fail(c)
             \/ FailFails(c)
      PROVE  [Promise!Next]_(Promise!vars)
  <2>1. /\ pc[c] \notin {"idle", "answered"} /\ UNCHANGED <<req, sent>>
        /\ \E code \in {"conflict", "uncertain", "refused", "error"} :
              reply' = [reply EXCEPT ![c] = [code |-> code, of |-> c]]
    BY <1>3 DEF Mismatch, Refuse, ReserveFails, Fail, FailFails, Answers
  <2>2. PICK code \in {"conflict", "uncertain", "refused", "error"} :
           reply' = [reply EXCEPT ![c] = [code |-> code, of |-> c]]
    BY <2>1
  <2>3. reply[c] = None /\ pc[c] # "idle"
    BY <2>1 DEF ProxyInv, StepsInOrder
  <2>4. [code |-> code, of |-> c] # None
    BY AnswerIsReply
  <2>5. Promise!Hand(c) \/ UNCHANGED Promise!vars
    BY <2>1, <2>2, <2>3, <2>4, AnswerHands
  <2> QED
    BY <2>5 DEF Promise!Next
<1>4. ASSUME NEW c \in Call, Complete(c)
      PROVE  [Promise!Next]_(Promise!vars)
  <2>1. /\ pc[c] = "settling" /\ UNCHANGED <<req, sent>>
        /\ reply' = [reply EXCEPT ![c] = [code |-> "ok", of |-> c]]
    BY <1>4 DEF Complete, Answers
  <2>2. reply[c] = None /\ sent[c] >= 1
    BY <2>1 DEF ProxyInv, StepsInOrder
  <2>3. Keyed(c) => receipt[req[c].key] # None /\ receipt[req[c].key].usage = c
    BY <2>1 DEF ProxyInv, ReceiptsHeld, Committed
  <2>4. [code |-> "ok", of |-> c] # None
    BY AnswerIsReply
  <2>5. Promise!Hand(c) \/ UNCHANGED Promise!vars
    BY <2>1, <2>2, <2>3, <2>4, AnswerHands
  <2> QED
    BY <2>5 DEF Promise!Next
<1>5. ASSUME NEW c \in Call, Share(c)
      PROVE  [Promise!Next]_(Promise!vars)
  <2> DEFINE f == follows[c]
  <2>1. /\ f \in Call /\ reply[f] \in Reply \ {None}
        /\ [code |-> reply[f].code, of |-> f] # None
    BY <1>5, SharedReply DEF ProxyInv
  <2>2. /\ pc[c] = "sharing" /\ UNCHANGED <<req, sent>>
        /\ reply' = [reply EXCEPT ![c] = [code |-> reply[f].code, of |-> f]]
    BY <1>5 DEF Share, Answers
  <2>3. reply[c] = None
    BY <2>2 DEF ProxyInv, StepsInOrder
  <2>4. /\ Keyed(c) /\ req[c].key \in Key
        /\ receipt[req[c].key] # None /\ receipt[req[c].key].usage = f
    BY <2>2 DEF ProxyInv, SharesOwn, TypeOK, Keyed, Request
  <2>5. Keyed(f) /\ req[f].key = req[c].key
    BY <2>1, <2>4 DEF ProxyInv, ReceiptsHeld, Keyed
  <2>6. reply[f].code = "ok" => sent[f] >= 1
    BY <2>1, <2>4, <2>5 DEF ProxyInv, SharesOwn
  <2>7. Keyed(c) /\ reply[f].code = "ok" =>
           /\ receipt[req[c].key] # None /\ receipt[req[c].key].usage = f
           /\ sent[f] >= 1
    BY <2>4, <2>6
  <2>8. \A code : code = reply[f].code => Promise!Hand(c) \/ UNCHANGED Promise!vars
    <3> SUFFICES ASSUME NEW code, code = reply[f].code
                 PROVE  Promise!Hand(c) \/ UNCHANGED Promise!vars
      OBVIOUS
    <3> HIDE DEF f
    <3>1. f \in Call /\ pc[c] # "idle" /\ [code |-> code, of |-> f] # None
      BY <2>1, <2>2
    <3>2. reply' = [reply EXCEPT ![c] = [code |-> code, of |-> f]]
      BY <2>2
    <3> QED
      BY <2>2, <2>3, <2>7, <3>1, <3>2, AnswerHands
  <2> QED
    BY <2>8 DEF Promise!Next
<1>6. ASSUME NEW c \in Call, Read(c)
      PROVE  [Promise!Next]_(Promise!vars)
  <2>1. CASE UNCHANGED reply
    BY <1>6, <2>1, Stutter DEF Read, Handed, KeyOf
  <2>2. CASE ~UNCHANGED reply
    <3>1. /\ pc[c] = "replayed" /\ UNCHANGED <<req, sent>>
          /\ \E code \in {"unavailable", "uncertain"} :
                reply' = [reply EXCEPT ![c] = [code |-> code, of |-> c]]
      BY <1>6, <2>2 DEF Read, Answers
    <3>2. PICK code \in {"unavailable", "uncertain"} :
             reply' = [reply EXCEPT ![c] = [code |-> code, of |-> c]]
      BY <3>1
    <3>3. reply[c] = None /\ pc[c] # "idle"
      BY <3>1 DEF ProxyInv, StepsInOrder
    <3>4. [code |-> code, of |-> c] # None
      BY AnswerIsReply
    <3>5. Promise!Hand(c) \/ UNCHANGED Promise!vars
      BY <3>1, <3>2, <3>3, <3>4, AnswerHands
    <3> QED
      BY <3>5 DEF Promise!Next
  <2> QED
    BY <2>1, <2>2
<1>7. ASSUME NEW c \in Call,
             \/ Leave(c) \/ Replay(c) \/ Admit(c) \/ Reserve(c)
             \/ Answered(c) \/ Fault(c) \/ Fails(c) \/ CompleteFails(c)
      PROVE  UNCHANGED <<req, sent, reply>>
  BY <1>7 DEF Leave, Replay, Admit, Reserve, Answered, Fault, Fails,
              CompleteFails
<1>8. ASSUME NEW r \in Replica,
             Crash(r) \/ SaveCredential \/ DeleteCredential \/ NextDay
      PROVE  UNCHANGED <<req, sent, reply>>
  BY <1>8 DEF Crash, SaveCredential, DeleteCredential, NextDay
<1>9. CASE SaveCredential \/ DeleteCredential \/ NextDay \/ UNCHANGED vars
  BY <1>9, Stutter
     DEF SaveCredential, DeleteCredential, NextDay, vars, Handed, KeyOf
<1>10. CASE UNCHANGED <<req, sent, reply>>
  BY <1>10, Stutter DEF Handed, KeyOf
<1> QED
  BY <1>1, <1>2, <1>3, <1>4, <1>5, <1>6, <1>7, <1>8, <1>9, <1>10 DEF Next

\* The proxy implements ChargedOnce: under a key one attempt is made, and
\* every result handed out under it is that attempt's.
THEOREM ProxyImplementsPromise == Spec => ChargesOnce
<1>1. Init => Promise!Init
  BY PromiseInit
<1>2. ProxyInv /\ [Next]_vars => [Promise!Next]_(Promise!vars)
  BY PromiseNext
<1> QED
  BY <1>1, <1>2, ProxyInvariant, PTL DEF Spec, ChargesOnce, Promise!Spec



-----------------------------------------------------------------------------
\* Whose result is handed out

\* A receipt names the content and the account of the request it is about.
BindingsHeld ==
    \A k \in Key : receipt[k] # None /\ receipt[k].usage \in Call =>
        receipt[k].binding = BindingOf(receipt[k].usage, "configured")

\* A retry asks for what the receipt, or the request it shares, is about.
RetriesMatch ==
    \A c \in Call :
        /\ pc[c] = "replayed" => SameBinding(c, receipt[req[c].key].binding)
        /\ pc[c] = "sharing" =>
              BindingOf(follows[c], "configured") = BindingOf(c, "configured")

\* A result comes from a request that is answered and was paid for.
ResultsDone ==
    \A c \in Call : reply[c] # None /\ reply[c].code = "ok" =>
        LET d == reply[c].of IN
        /\ pc[d] = "answered" /\ usage[d].outcome = "ok"
        /\ BindingOf(d, "configured") = BindingOf(c, "configured")
        /\ req[d].key = req[c].key

ResultInv == BindingsHeld /\ RetriesMatch /\ ResultsDone

\* What a step may do to a request d: it asks for the same, an answer is
\* final, and results and retries come from the handlers that give them.
Proceeds(d) ==
    /\ pc[d] # "idle" => req'[d] = req[d] /\ account'[d] = account[d]
    /\ pc[d] = "answered" => pc'[d] = "answered" /\ reply'[d] = reply[d]
    /\ reply'[d] # None /\ reply'[d].code = "ok" =>
          reply'[d] = reply[d] \/ Complete(d) \/ Share(d)
    /\ pc'[d] = "replayed" => pc[d] = "replayed" \/ Replay(d)
    /\ pc'[d] = "sharing" =>
          \/ pc[d] = "sharing" /\ follows'[d] = follows[d]
          \/ /\ pc[d] = "replayed" /\ InFlight(d) # None
             /\ follows'[d] = InFlight(d)
             /\ BindingOf(InFlight(d), "configured") = Previous(d).binding

LEMMA StepProceeds ==
    ASSUME ProxyInv, [Next]_vars, NEW d \in Call
    PROVE  Proceeds(d)
<1> USE ProxyAssumption DEF ProxyInv
<1>0. /\ pc \in [Call -> Progress] /\ req \in [Call -> Requests \cup {None}]
      /\ account \in [Call -> 0..MaxRevision]
      /\ follows \in [Call -> Call \cup Status \cup {None}]
      /\ reply \in [Call -> Reply \cup {None}]
      /\ pc[d] \in Progress
  BY DEF TypeOK
\* Steps that give no answer and begin no retry.
<1>a. ASSUME UNCHANGED <<req, account, reply, follows>>,
             NEW c \in Call, pc[c] # "answered",
             \/ UNCHANGED pc
             \/ \E s \in Progress \ {"replayed", "sharing"} :
                   pc' = [pc EXCEPT ![c] = s]
      PROVE  Proceeds(d)
  BY <1>0, <1>a DEF Proceeds
\* Steps that answer without a result.
<1>b. ASSUME UNCHANGED <<req, account, follows>>,
             NEW c \in Call, pc[c] # "answered",
             \E code \in {"uncertain", "unavailable", "conflict", "refused",
                          "error"} : Answers(c, code, c)
      PROVE  Proceeds(d)
  BY <1>0, <1>b DEF Proceeds, Answers, Becomes
<1>1. ASSUME NEW c \in Call, Receive(c) PROVE Proceeds(d)
  <2>1. /\ pc[c] = "idle" /\ UNCHANGED follows
        /\ \/ d # c /\ UNCHANGED <<pc[d], req[d], account[d], reply[d]>>
           \/ /\ d = c /\ pc'[c] \in {"selected", "answered"}
              /\ reply'[c] = reply[c] \/ reply'[c].code = "refused"
    BY <1>0, <1>1 DEF Receive, Answers, Becomes
  <2> QED
    BY <1>0, <2>1 DEF Proceeds
<1>2. ASSUME NEW c \in Call,
             \/ Leave(c) \/ Admit(c) \/ Reserve(c) \/ Begin(c) \/ Answered(c)
             \/ Fault(c) \/ Resend(c) \/ Fails(c) \/ CompleteFails(c)
      PROVE  Proceeds(d)
  <2>1. UNCHANGED <<req, account, reply, follows>> /\ pc[c] # "answered"
    BY <1>2 DEF Leave, Admit, Reserve, Begin, Answered, Fault, Resend, Fails,
       CompleteFails, keys, ledger
  <2>2. UNCHANGED pc \/ \E s \in Progress \ {"replayed", "sharing"} :
                           pc' = [pc EXCEPT ![c] = s]
    BY <1>2 DEF Leave, Admit, Reserve, Begin, Answered, Fault, Resend, Fails,
       CompleteFails, Becomes, Sends, Progress
  <2> QED
    BY <1>a, <2>1, <2>2
<1>3. ASSUME NEW c \in Call,
             Mismatch(c) \/ Refuse(c) \/ ReserveFails(c) \/ Fail(c) \/ FailFails(c)
      PROVE  Proceeds(d)
  BY <1>3, <1>b DEF Mismatch, Refuse, ReserveFails, Fail, FailFails
<1>4. ASSUME NEW c \in Call, Replay(c) PROVE Proceeds(d)
  BY <1>0, <1>4 DEF Replay, Becomes, Proceeds
<1>5. ASSUME NEW c \in Call, Complete(c) PROVE Proceeds(d)
  BY <1>0, <1>5 DEF Complete, Answers, Becomes, Proceeds
<1>6. ASSUME NEW c \in Call, Share(c) PROVE Proceeds(d)
  BY <1>0, <1>6 DEF Share, Answers, Becomes, Proceeds
<1>7. ASSUME NEW c \in Call, Read(c) PROVE Proceeds(d)
  <2>1. UNCHANGED <<req, account>> /\ pc[c] = "replayed"
    BY <1>7 DEF Read
  <2>2. CASE \E code \in {"unavailable", "uncertain"} :
               Answers(c, code, c) /\ UNCHANGED follows
    BY <1>b, <2>1, <2>2
  <2>3. CASE /\ InFlight(c) # None
             /\ BindingOf(InFlight(c), "configured") = Previous(c).binding
             /\ pc' = [pc EXCEPT ![c] = "sharing"]
             /\ follows' = [follows EXCEPT ![c] = InFlight(c)]
             /\ UNCHANGED reply
    BY <1>0, <2>1, <2>3 DEF Proceeds
  <2> QED
    BY <1>7, <2>2, <2>3 DEF Read, Becomes
<1>8. ASSUME NEW r \in Replica, Crash(r) PROVE Proceeds(d)
  <2>1. /\ UNCHANGED <<req, account, follows, reply>>
        /\ pc'[d] = pc[d] \/ (pc'[d] = "lost" /\ pc[d] # "answered")
    BY <1>0, <1>8 DEF Crash
  <2> QED
    BY <2>1 DEF Proceeds
<1>9. CASE SaveCredential \/ DeleteCredential \/ NextDay \/ UNCHANGED vars
  <2>1. UNCHANGED <<pc, req, account, reply, follows>>
    BY <1>9 DEF SaveCredential, DeleteCredential, NextDay, vars
  <2> QED
    BY <2>1 DEF Proceeds
<1> QED
  BY <1>1, <1>2, <1>3, <1>4, <1>5, <1>6, <1>7, <1>8, <1>9 DEF Next

\* The binding of a receipt stays what it was.
LEMMA BindingsStay ==
    ASSUME ProxyInv, [Next]_vars, NEW k \in Key, receipt[k] # None
    PROVE  receipt'[k].binding = receipt[k].binding
<1> USE DEF ProxyInv
<1>0. receipt \in [Key -> Receipt \cup {None}] /\ receipt[k] \in Receipt
  BY DEF TypeOK
<1>1. CASE UNCHANGED ledger
  BY <1>1 DEF ledger
<1>2. ASSUME NEW c \in Call, pc[c] = "reserving", Reserved(c)
      PROVE  receipt'[k] = receipt[k]
  <2>1. CASE Keyed(c)
    BY <1>2, <2>1, ReservedKeeps
  <2>2. CASE ~Keyed(c)
    BY <1>2, <2>2, ReservedKeeps, ProxyAssumption DEF Keyed, Reserved
  <2> QED
    BY <2>1, <2>2
<1>3. ASSUME NEW c \in Call,
             Settled(c, "ok", "completed") \/ Settled(c, "failed", "uncertain")
      PROVE  receipt'[k].binding = receipt[k].binding
  BY <1>0, <1>3 DEF Settled, Receipt
<1> QED
  BY <1>1, <1>2, <1>3, LedgerStep

\* The rows of a request that is answered stay.
LEMMA RowsStay ==
    ASSUME ProxyInv, [Next]_vars, NEW d \in Call, pc[d] = "answered"
    PROVE  usage'[d] = usage[d]
<1>1. usage \in [Call \cup Legacy -> Usage \cup {None}]
  BY DEF ProxyInv, TypeOK
<1>2. ASSUME NEW c \in Call, c # d,
             \/ Reserved(c)
             \/ Settled(c, "ok", "completed") \/ Settled(c, "failed", "uncertain")
      PROVE  usage'[d] = usage[d]
  BY <1>1, <1>2 DEF Reserved, Settled
<1> QED
  BY <1>2, LedgerStep DEF ledger, Committed

LEMMA BindingsHeldKept ==
    ASSUME ProxyInv, BindingsHeld, [Next]_vars
    PROVE  BindingsHeld'
<1> USE ProxyAssumption DEF ProxyInv
<1>0. \A d \in Call : pc[d] # "idle" =>
         req'[d] = req[d] /\ account'[d] = account[d]
  BY StepProceeds DEF Proceeds
<1> SUFFICES ASSUME NEW k \in Key, NEW d \in Call,
                    receipt'[k] # None, receipt'[k].usage = d
             PROVE  receipt'[k].binding =
                       [content |-> req'[d].content, project |-> req'[d].project,
                        account |-> account'[d], form |-> "configured"]
  BY DEF BindingsHeld, BindingOf
<1>1. CASE receipt[k] # None
  <2>1. receipt[k].usage = d /\ receipt'[k].binding = receipt[k].binding
    BY <1>1, ReceiptsStay, BindingsStay
  <2>2. pc[d] # "idle"
    BY <1>1, <2>1 DEF ReceiptsHeld, StepsInOrder
  <2> QED
    BY <1>0, <1>1, <2>1, <2>2 DEF BindingsHeld, BindingOf
<1>2. CASE receipt[k] = None
  <2>1. PICK c \in Call : pc[c] = "reserving" /\ Reserved(c)
    <3>1. ASSUME NEW c \in Call, pc[c] \in Committed, req[c] \in Request,
                 NEW o \in {"ok", "failed"}, NEW s \in {"completed", "uncertain"},
                 Settled(c, o, s)
          PROVE  FALSE
      BY <1>2, <3>1, SettledKeeps
    <3>2. ~UNCHANGED ledger
      BY <1>2 DEF ledger
    <3> QED
      BY <3>1, <3>2, LedgerStep
  <2>2. /\ receipt \in [Key -> Receipt \cup {None}]
        /\ req[c].key # None /\ k = req[c].key
    BY <1>2, <2>1 DEF Reserved, TypeOK
  <2>3. receipt'[k] = [binding |-> BindingOf(c, "configured"), usage |-> c,
                       status |-> "running"]
    BY <2>1, <2>2 DEF Reserved
  <2> QED
    BY <1>0, <2>1, <2>3 DEF BindingOf
<1> QED
  BY <1>1, <1>2

\* What a retry found it shares: bindings of the older form are no request's.
LEMMA RetriesMatchKept ==
    ASSUME ProxyInv, ResultInv, [Next]_vars
    PROVE  RetriesMatch'
<1> USE ProxyAssumption DEF ProxyInv
<1>0. \A d \in Call : Proceeds(d)
  BY StepProceeds
<1>1. \A d \in Call : pc[d] # "idle" =>
         req'[d] = req[d] /\ account'[d] = account[d]
  BY <1>0 DEF Proceeds
<1>2. ASSUME NEW c \in Call, pc'[c] = "replayed"
      PROVE  SameBinding(c, receipt[req[c].key].binding)'
  <2>1. pc[c] = "replayed" \/ Replay(c)
    BY <1>0, <1>2 DEF Proceeds
  <2>2. /\ pc[c] # "idle"
        /\ Keyed(c) /\ receipt[req[c].key] # None
        /\ SameBinding(c, receipt[req[c].key].binding)
    <3>1. CASE pc[c] = "replayed"
      BY <3>1 DEF SharesOwn, ResultInv, RetriesMatch
    <3>2. CASE Replay(c)
      BY <3>2 DEF Replay, Previous, Keyed, StepsInOrder
    <3> QED
      BY <2>1, <3>1, <3>2
  <2>3. req[c].key \in Key
    BY <2>2 DEF Keyed, TypeOK, Request
  <2>4. receipt'[req[c].key].binding = receipt[req[c].key].binding
    BY <2>2, <2>3, BindingsStay
  <2> QED
    BY <1>1, <2>2, <2>4 DEF SameBinding, BindingOf
<1>3. ASSUME NEW c \in Call, pc'[c] = "sharing"
      PROVE  BindingOf(follows[c], "configured")' = BindingOf(c, "configured")'
  <2>1. CASE pc[c] = "sharing" /\ follows'[c] = follows[c]
    <3>1. /\ follows[c] \in Call /\ Keyed(c)
          /\ receipt[req[c].key] # None
          /\ receipt[req[c].key].usage = follows[c]
      BY <2>1 DEF SharesOwn
    <3>2. req[c].key \in Key
      BY <3>1 DEF Keyed, TypeOK, Request
    <3>3. pc[follows[c]] # "idle"
      BY <3>1, <3>2 DEF ReceiptsHeld, StepsInOrder
    <3>4. BindingOf(follows[c], "configured") = BindingOf(c, "configured")
      BY <2>1 DEF ResultInv, RetriesMatch
    <3> QED
      BY <1>1, <2>1, <3>1, <3>3, <3>4 DEF BindingOf
  <2>2. CASE /\ pc[c] = "replayed" /\ InFlight(c) # None
             /\ follows'[c] = InFlight(c)
             /\ BindingOf(InFlight(c), "configured") = Previous(c).binding
    <3> DEFINE d == InFlight(c)
    <3>1. Keyed(c) /\ req[c].key \in Key /\ req[c].replica \in Replica
      BY <2>2 DEF SharesOwn, Keyed, TypeOK, Request
    <3>2. d \in Call /\ receipt[req[c].key].usage = d /\ receipt[req[c].key] # None
      BY <2>2, <3>1 DEF InFlight, TypeOK, SharesOwn
    <3>3. pc[d] # "idle"
      BY <3>1, <3>2 DEF ReceiptsHeld, StepsInOrder
    <3>4. SameBinding(c, BindingOf(d, "configured"))
      BY <2>2, <3>1 DEF ResultInv, RetriesMatch, Previous, Keyed
    <3>5. BindingOf(d, "configured") = BindingOf(c, "configured")
      BY <3>4 DEF SameBinding, BindingOf
    <3> HIDE DEF d
    <3> QED
      BY <1>1, <2>2, <3>2, <3>3, <3>5 DEF BindingOf, d
  <2> QED
    BY <1>0, <1>3, <2>1, <2>2 DEF Proceeds
<1> QED
  BY <1>2, <1>3 DEF RetriesMatch

\* A result is final for the request it came from and for those that share it.
LEMMA ResultsDoneKept ==
    ASSUME ProxyInv, ResultInv, [Next]_vars
    PROVE  ResultsDone'
<1> USE ProxyAssumption DEF ProxyInv
<1>0. \A d \in Call : Proceeds(d)
  BY StepProceeds
<1> DEFINE Result(c, d) == /\ pc[d] = "answered" /\ usage[d].outcome = "ok"
                           /\ req[d].key = req[c].key
                           /\ req[d].content = req[c].content
                           /\ req[d].project = req[c].project
                           /\ account[d] = account[c]
<1>a. ASSUME NEW c \in Call, NEW d \in Call, pc[c] # "idle", Result(c, d)
      PROVE  Result(c, d)'
  <2>1. usage'[d] = usage[d]
    BY <1>a, RowsStay
  <2>2. /\ req'[c] = req[c] /\ req'[d] = req[d] /\ pc'[d] = "answered"
        /\ account'[c] = account[c] /\ account'[d] = account[d]
    BY <1>0, <1>a DEF Proceeds
  <2> QED
    BY <1>a, <2>1, <2>2
<1>b. ASSUME NEW c \in Call, reply[c] # None, reply[c].code = "ok"
      PROVE  reply[c].of \in Call /\ pc[c] # "idle" /\ Result(c, reply[c].of)
  <2>1. reply[c].of \in Call /\ pc[c] # "idle"
    BY <1>b DEF TypeOK, Reply, StepsInOrder
  <2> QED
    BY <1>b, <2>1 DEF ResultInv, ResultsDone, BindingOf
<1>c. ASSUME NEW c \in Call, reply'[c] # None, reply'[c].code = "ok"
      PROVE  Result(c, reply[c].of)'
  <2>1. CASE reply'[c] = reply[c]
    BY <1>a, <1>b, <1>c, <2>1
  <2>2. CASE Complete(c)
    <3>1. /\ pc[c] = "settling" /\ reply'[c].of = c /\ pc'[c] = "answered"
          /\ usage'[c].outcome = "ok"
      BY <2>2 DEF Complete, Answers, Becomes, Settled, TypeOK, ReceiptsHeld,
         Committed, Usage
    <3> QED
      BY <3>1
  <2>3. CASE Share(c)
    <3>0. PICK d \in Call : d = follows[c]
      BY <2>3, SharedReply
    <3>1. /\ reply[d] \in Reply \ {None} /\ pc[d] = "answered"
          /\ pc[c] = "sharing"
          /\ reply'[c] = [code |-> reply[d].code, of |-> d]
      BY <2>3, <3>0, SharedReply DEF Share, Answers, TypeOK
    <3>2. /\ Keyed(c) /\ req[c].key \in Key
          /\ receipt[req[c].key] # None /\ receipt[req[c].key].usage = d
      BY <3>0, <3>1 DEF SharesOwn, TypeOK, Keyed, Request
    <3>3. Keyed(d) /\ req[d].key = req[c].key
      BY <3>1, <3>2 DEF ReceiptsHeld, Keyed
    <3>4. reply[d].code = "ok" /\ reply[d].of = d
      BY <1>c, <3>1, <3>2, <3>3 DEF SharesOwn
    <3>5. usage[d].outcome = "ok"
      BY <1>b, <3>1, <3>4
    <3>6. BindingOf(d, "configured") = BindingOf(c, "configured")
      BY <3>0, <3>1 DEF ResultInv, RetriesMatch
    <3>7. Result(c, d)
      BY <3>1, <3>3, <3>5, <3>6 DEF BindingOf
    <3>8. Result(c, d)'
      BY <1>a, <3>1, <3>7
    <3> QED
      BY <3>1, <3>8
  <2> QED
    BY <1>0, <1>c, <2>1, <2>2, <2>3 DEF Proceeds
<1> QED
  BY <1>c DEF ResultsDone, BindingOf

(***************************************************************************)
(* Whatever is retried, shared, left and crashed: a result handed out was  *)
(* produced under the same key for the same content, project and billing   *)
(* account, was paid for, and its receipt says completed for good          *)
(* (findReplay, ActiveAiRequests and complete).                            *)
(***************************************************************************)
THEOREM ProxyResultsAreOwn == Spec => []ResultIsOwn
<1>1. Init => ResultInv
  <2> SUFFICES ASSUME Init PROVE ResultInv
    OBVIOUS
  <2>1. ProxyInv
    BY InvInit
  <2>2. \A c \in Call : pc[c] = "idle" /\ reply[c] = None
    BY DEF Init
  <2>3. \A k \in Key : receipt[k] # None => receipt[k].usage \notin Call
    BY ProxyAssumption DEF Init
  <2> QED
    BY <2>2, <2>3 DEF ResultInv, BindingsHeld, RetriesMatch, ResultsDone
<1>2. ProxyInv /\ ResultInv /\ [Next]_vars => ResultInv'
  BY BindingsHeldKept, RetriesMatchKept, ResultsDoneKept DEF ResultInv
<1>3. ProxyInv /\ ResultInv => ResultIsOwn
  <2> SUFFICES ASSUME ProxyInv, ResultInv, NEW c \in Call,
                      reply[c] # None, reply[c].code = "ok",
                      NEW d, d = reply[c].of
               PROVE  /\ BindingOf(d, "configured") = BindingOf(c, "configured")
                      /\ req[d].key = req[c].key /\ usage[d].outcome = "ok"
                      /\ req[c].key # None =>
                            receipt[req[c].key].status = "completed"
    BY DEF ResultIsOwn
  <2>1. /\ BindingOf(d, "configured") = BindingOf(c, "configured")
        /\ req[d].key = req[c].key /\ usage[d].outcome = "ok"
    BY DEF ResultInv, ResultsDone
  <2>2. ASSUME req[c].key # None
        PROVE  receipt[req[c].key].status = "completed"
    <3>1. Keyed(c) /\ req[c].key \in Key
      BY <2>2, ProxyAssumption
      DEF ProxyInv, TypeOK, StepsInOrder, Keyed, Request
    <3>2. receipt[req[c].key] # None /\ receipt[req[c].key].usage = d
      BY <3>1 DEF ProxyInv, SharesOwn
    <3>3. LegacyOutcome(receipt[req[c].key].status) = "ok"
      BY <2>1, <3>1, <3>2 DEF ProxyInv, ReceiptsMatchUsage
    <3>4. receipt[req[c].key].status \in Status
      BY <3>1, <3>2 DEF ProxyInv, TypeOK, Receipt
    <3> QED
      BY <3>3, <3>4 DEF LegacyOutcome, Status
  <2> QED
    BY <2>1, <2>2
<1> QED
  BY <1>1, <1>2, <1>3, ProxyInvariant, PTL DEF Spec

-----------------------------------------------------------------------------
\* Money and requests within the limits

\* Before its rows are written.
New == {"idle", "selected", "reserving"}

Filled == {u \in Call \cup Legacy : usage[u] # None}

Scopes == {"project", "organisation"}

\* A row is written once, at the cost reserved for the request, on a day that
\* has come; nothing is sent without one, nor more often than was reserved.
RowsPaid ==
    /\ IsFiniteSet(Filled)
    /\ \A u \in Filled : usage[u].day <= day
    /\ \A c \in Call :
          /\ pc[c] \in New => usage[c] = None
          /\ usage[c] # None => req[c] # None /\ usage[c].cost = Cost(c)
          /\ sent[c] > 0 => usage[c] # None
          /\ req[c] # None => sent[c] <= Cost(c)

\* What is reserved is within the budgets.
BudgetsHold ==
    \A scope \in Scopes, p \in Project :
        CostOf(Rows(scope, p)) <= Limit[scope].budget

\* What the checks of a request found is still true when its rows are written,
\* though a later day may have begun.
RoomFor(c) ==
    \A scope \in Scopes :
        /\ CostOf(Rows(scope, req[c].project)) + Cost(c) <= Limit[scope].budget
        /\ \A d \in day..LastDay :
              /\ Cardinality(RowsOn(scope, req[c].project, d)) + 1
                    <= Limit[scope].dailyRequests
              /\ CostOf(RowsOn(scope, req[c].project, d)) + Cost(c)
                    <= Limit[scope].dailyBudget

RoomLeft == \A c \in Call : pc[c] = "reserving" => RoomFor(c)

MoneyInv == RowsPaid /\ BudgetsHold /\ WithinDay /\ RoomLeft

\* The rows differ in their outcomes at most.
RowsAlike ==
    \A u \in Call \cup Legacy :
        /\ usage'[u] = None <=> usage[u] = None
        /\ usage[u] # None => /\ usage'[u].project = usage[u].project
                              /\ usage'[u].cost = usage[u].cost
                              /\ usage'[u].day = usage[u].day

\* What a step that reserves nothing may do to a request d.
Spends(d) ==
    /\ pc[d] # "idle" => req'[d] = req[d]
    /\ pc'[d] \in New => pc[d] \in New
    /\ pc'[d] = "reserving" => pc[d] = "reserving" \/ Admit(d)
    /\ \/ sent'[d] = sent[d]
       \/ pc[d] \in {"reserved", "backoff"} /\ sent'[d] = sent[d] + 1

\* A reservation and its commit.
Reserves(c) ==
    /\ pc[c] = "reserving" /\ Reserved(c)
    /\ UNCHANGED <<day, req, sent>>
    /\ \E s \in {"reserved", "answered"} : pc' = [pc EXCEPT ![c] = s]

LEMMA MoneyStep ==
    ASSUME ProxyInv, [Next]_vars
    PROVE  \/ \E c \in Call : Reserves(c)
           \/ RowsAlike /\ day' \in day..LastDay /\ \A d \in Call : Spends(d)
<1> USE ProxyAssumption DEF ProxyInv
<1>0. /\ pc \in [Call -> Progress] /\ req \in [Call -> Requests \cup {None}]
      /\ sent \in [Call -> 0..RetryLimit + 1] /\ day \in 0..LastDay
      /\ usage \in [Call \cup Legacy -> Usage \cup {None}]
      /\ \A d \in Call : pc[d] \in Progress
  BY DEF TypeOK
<1> DEFINE Quiet == RowsAlike /\ day' \in day..LastDay /\ \A d \in Call : Spends(d)
<1>a. UNCHANGED ledger => RowsAlike
  BY DEF ledger, RowsAlike
<1>b. day' = day => day' \in day..LastDay
  BY <1>0
<1>1. ASSUME NEW c \in Call, Receive(c) PROVE Quiet
  BY <1>0, <1>1, <1>a, <1>b DEF Receive, Answers, Becomes, Spends, New
<1>2. ASSUME NEW c \in Call, Replay(c) \/ Mismatch(c) \/ Refuse(c)
                             \/ Answered(c) \/ Fault(c) \/ Fails(c)
      PROVE Quiet
  <2>1. /\ UNCHANGED <<ledger, day, req, sent>>
        /\ \E s \in Progress \ New : pc' = [pc EXCEPT ![c] = s]
    BY <1>2 DEF Replay, Mismatch, Refuse, Answered, Fault, Fails, Becomes,
       Answers, Progress, New
  <2> QED
    BY <1>0, <1>a, <1>b, <2>1 DEF Spends, New
<1>3. ASSUME NEW c \in Call, Admit(c) PROVE Quiet
  BY <1>0, <1>3, <1>a, <1>b DEF Admit, Becomes, Spends, New
<1>4. ASSUME NEW c \in Call, Reserve(c) \/ ReserveFails(c)
      PROVE Quiet \/ Reserves(c)
  <2>1. /\ pc[c] = "reserving" /\ UNCHANGED <<day, req, sent>>
        /\ \E s \in {"reserved", "answered"} : pc' = [pc EXCEPT ![c] = s]
        /\ Reserved(c) \/ UNCHANGED ledger
    BY <1>4 DEF Reserve, ReserveFails, Becomes, Answers
  <2>2. CASE UNCHANGED ledger
    BY <1>0, <1>a, <1>b, <2>1, <2>2 DEF Spends, New
  <2> QED
    BY <2>1, <2>2 DEF Reserves
<1>5. ASSUME NEW c \in Call, Begin(c) \/ Resend(c) PROVE Quiet
  <2>1. /\ UNCHANGED <<ledger, day, req>> /\ pc[c] \in {"reserved", "backoff"}
        /\ \E s \in {"sent", "failing"} : pc' = [pc EXCEPT ![c] = s]
        /\ UNCHANGED sent \/ sent' = [sent EXCEPT ![c] = @ + 1]
    BY <1>5 DEF Begin, Resend, Sends, Becomes
  <2> QED
    BY <1>0, <1>a, <1>b, <2>1 DEF Spends, New
<1>6. ASSUME NEW c \in Call,
             Complete(c) \/ CompleteFails(c) \/ Fail(c) \/ FailFails(c)
      PROVE  Quiet
  <2>1. /\ pc[c] \in Committed /\ UNCHANGED <<day, req, sent>>
        /\ \E s \in {"answered", "failing"} : pc' = [pc EXCEPT ![c] = s]
        /\ \/ UNCHANGED ledger
           \/ \E o \in {"ok", "failed"} :
                 usage' = [usage EXCEPT ![c].outcome = o]
    BY <1>6 DEF Complete, CompleteFails, Fail, FailFails, Committed, Becomes,
       Answers, Settled
  <2>2. usage[c] \in Usage
    BY <1>0, <2>1 DEF ReceiptsHeld
  <2>3. RowsAlike
    <3>1. ASSUME NEW o \in {"ok", "failed"},
                 usage' = [usage EXCEPT ![c].outcome = o]
          PROVE  RowsAlike
      <4>1. [usage[c] EXCEPT !.outcome = o] \in Usage
        BY <2>2 DEF Usage
      <4>2. /\ usage'[c] # None /\ usage[c] # None
            /\ usage'[c].project = usage[c].project
            /\ usage'[c].cost = usage[c].cost
            /\ usage'[c].day = usage[c].day
        BY <1>0, <2>2, <3>1, <4>1 DEF Usage
      <4>3. \A u \in Call \cup Legacy : u # c => usage'[u] = usage[u]
        BY <1>0, <3>1
      <4> QED
        BY <4>2, <4>3 DEF RowsAlike
    <3> QED
      BY <1>a, <2>1, <3>1
  <2> QED
    BY <1>0, <1>b, <2>1, <2>3 DEF Spends, New, Committed
<1>7. ASSUME NEW c \in Call, Read(c) \/ Share(c) PROVE Quiet
  <2>1. /\ UNCHANGED <<ledger, day, req, sent>>
        /\ \E s \in Progress \ New : pc' = [pc EXCEPT ![c] = s]
    BY <1>7 DEF Read, Share, Becomes, Answers, Progress, New
  <2> QED
    BY <1>0, <1>a, <1>b, <2>1 DEF Spends, New
<1>8. ASSUME NEW r \in Replica, Crash(r) PROVE Quiet
  <2>1. /\ UNCHANGED <<ledger, day, req, sent>>
        /\ \A d \in Call : pc'[d] \in {pc[d], "lost"}
    BY <1>0, <1>8 DEF Crash, keys
  <2> QED
    BY <1>0, <1>a, <1>b, <2>1 DEF Spends, New
<1>9. CASE \/ \E c \in Call : Leave(c)
           \/ SaveCredential \/ DeleteCredential \/ UNCHANGED vars
  <2>1. UNCHANGED <<ledger, day, pc, req, sent>>
    BY <1>9 DEF Leave, SaveCredential, DeleteCredential, vars, ledger
  <2> QED
    BY <1>0, <1>a, <1>b, <2>1 DEF Spends, New
<1>10. CASE NextDay
  <2>1. UNCHANGED <<ledger, pc, req, sent>> /\ day' \in day..LastDay
    BY <1>0, <1>10 DEF NextDay
  <2> QED
    BY <1>0, <1>a, <2>1 DEF Spends, New
<1> QED
  BY <1>1, <1>2, <1>3, <1>4, <1>5, <1>6, <1>7, <1>8, <1>9, <1>10 DEF Next

\* Sums of rows, for a set of them S in a ledger f.
LEMMA CostNatural ==
    ASSUME NEW S, IsFiniteSet(S), NEW f, \A u \in S : f[u].cost \in Nat
    PROVE  SumFunction([u \in S |-> f[u].cost]) \in Nat
<1> DEFINE cost == [u \in S |-> f[u].cost]
<1>1. (\A u \in S : cost[u] \in Nat) /\ DOMAIN cost = S
  OBVIOUS
<1>2. SumFunctionOnSet(cost, S) \in Nat
  <2> HIDE DEF cost
  <2> QED
    BY <1>1, SumNatural
<1> QED
  BY <1>1, <1>2 DEF SumFunction

LEMMA RowsAreFilled ==
    ASSUME ProxyInv, RowsPaid, NEW scope, NEW p, NEW d
    PROVE  /\ Rows(scope, p) \subseteq Filled
           /\ RowsOn(scope, p, d) \subseteq Rows(scope, p)
           /\ IsFiniteSet(Rows(scope, p)) /\ IsFiniteSet(RowsOn(scope, p, d))
           /\ \A u \in Filled : usage[u] \in Usage /\ usage[u].cost \in Nat
<1>1. usage \in [Call \cup Legacy -> Usage \cup {None}]
  BY DEF ProxyInv, TypeOK
<1>2. /\ Rows(scope, p) \in SUBSET Filled
      /\ RowsOn(scope, p, d) \in SUBSET Filled
      /\ RowsOn(scope, p, d) \subseteq Rows(scope, p)
  BY <1>1 DEF Rows, RowsOn, Filled
<1>3. \A u \in Filled : usage[u] \in Usage /\ usage[u].cost \in Nat
  BY <1>1 DEF Filled, Usage
<1>4. IsFiniteSet(Filled)
  BY DEF RowsPaid
<1> QED
  BY <1>2, <1>3, <1>4, FS_Subset

LEMMA CostsAreNatural ==
    ASSUME ProxyInv, RowsPaid, NEW scope, NEW p, NEW d
    PROVE  CostOf(Rows(scope, p)) \in Nat /\ CostOf(RowsOn(scope, p, d)) \in Nat
<1>1. /\ \A u \in Rows(scope, p) : usage[u].cost \in Nat
      /\ \A u \in RowsOn(scope, p, d) : usage[u].cost \in Nat
      /\ IsFiniteSet(Rows(scope, p)) /\ IsFiniteSet(RowsOn(scope, p, d))
  BY RowsAreFilled
<1> QED
  BY <1>1, CostNatural DEF CostOf

LEMMA CostOfNone == CostOf({}) = 0
<1> DEFINE f == [u \in {} |-> usage[u].cost]
<1>1. SumFunctionOnSet(f, DOMAIN f) = 0
  <2>1. DOMAIN f = {}
    OBVIOUS
  <2> HIDE DEF f
  <2> QED
    BY <2>1, SumEmpty
<1>2. CostOf({}) = SumFunctionOnSet(f, DOMAIN f)
  BY DEF CostOf, SumFunction
<1> QED
  BY <1>1, <1>2

\* A new row adds its cost.
LEMMA CostAdded ==
    ASSUME NEW S, IsFiniteSet(S), NEW c, c \notin S,
           \A u \in S : usage[u].cost \in Nat /\ usage'[u] = usage[u],
           usage'[c].cost \in Nat
    PROVE  SumFunction([u \in S \cup {c} |-> usage'[u].cost])
             = CostOf(S) + usage'[c].cost
<1> DEFINE old == [u \in S |-> usage[u].cost]
           new == [u \in S \cup {c} |-> usage'[u].cost]
<1>1. /\ \A u \in S : old[u] \in Nat /\ new[u] = old[u]
      /\ new[c] \in Nat /\ new[c] = usage'[c].cost
      /\ DOMAIN old = S /\ DOMAIN new = S \cup {c}
  OBVIOUS
<1>2. SumFunctionOnSet(new, S \cup {c}) = SumFunctionOnSet(old, S) + new[c]
  <2> HIDE DEF old, new
  <2> QED
    BY <1>1, SumWith
<1> QED
  BY <1>1, <1>2 DEF SumFunction, CostOf

\* The rows a request finds in a scope once its own are written.
LEMMA RowsReserved ==
    ASSUME ProxyInv, RowsPaid, NEW c \in Call, Reserves(c),
           NEW scope, NEW p
    PROVE  /\ c \notin Filled /\ Cost(c) \in Nat
           /\ Rows(scope, p)' =
                IF scope = "project" /\ p # req[c].project
                  THEN Rows(scope, p) ELSE Rows(scope, p) \cup {c}
           /\ \A d : RowsOn(scope, p, d)' =
                IF (scope = "project" /\ p # req[c].project) \/ d # day
                  THEN RowsOn(scope, p, d) ELSE RowsOn(scope, p, d) \cup {c}
           /\ \A u \in Filled : usage'[u] = usage[u]
           /\ usage'[c].cost = Cost(c) /\ usage'[c].day = day /\ usage'[c] # None
           /\ Filled' = Filled \cup {c}
<1>1. /\ usage \in [Call \cup Legacy -> Usage \cup {None}]
      /\ pc[c] = "reserving" /\ Reserved(c)
  BY DEF Reserves, ProxyInv, TypeOK
<1>2. /\ req[c] \in Request /\ usage'[c] # None
      /\ \A u \in Call \cup Legacy : u # c => usage'[u] = usage[u]
  BY <1>1, ReservedKeeps DEF ProxyInv
<1>3. Cost(c) \in Nat
  BY ProxyAssumption DEF Cost, Retries
<1>4. /\ usage'[c] = [project |-> req[c].project, outcome |-> "reserved",
                      cost |-> Cost(c), day |-> day]
      /\ DOMAIN usage' = Call \cup Legacy /\ DOMAIN usage = Call \cup Legacy
  BY <1>1 DEF Reserved
<1>5. usage[c] = None
  BY <1>1 DEF RowsPaid, New
<1>6. /\ usage'[c].project = req[c].project /\ usage'[c].cost = Cost(c)
      /\ usage'[c].day = day
  BY <1>4
<1>7. Rows(scope, p)' = IF scope = "project" /\ p # req[c].project
                          THEN Rows(scope, p) ELSE Rows(scope, p) \cup {c}
  BY <1>2, <1>4, <1>5, <1>6 DEF Rows
<1>8. ASSUME NEW d
      PROVE  RowsOn(scope, p, d)' =
                IF (scope = "project" /\ p # req[c].project) \/ d # day
                  THEN RowsOn(scope, p, d) ELSE RowsOn(scope, p, d) \cup {c}
  <2>1. RowsOn(scope, p, d)' = {u \in Rows(scope, p)' : usage'[u].day = d}
    BY DEF RowsOn
  <2>2. \A u \in Rows(scope, p) : usage'[u] = usage[u] /\ u # c
    BY <1>2, <1>4, <1>5 DEF Rows
  <2> QED
    BY <1>6, <1>7, <2>1, <2>2 DEF RowsOn
<1>9. c \notin Filled /\ \A u \in Filled : usage'[u] = usage[u]
  BY <1>2, <1>5 DEF Filled
<1>10. Filled' = Filled \cup {c}
  BY <1>2, <1>5 DEF Filled
<1> QED
  BY <1>2, <1>3, <1>6, <1>7, <1>8, <1>9, <1>10

\* A reservation writes what its checks left room for.
LEMMA ReservationFits ==
    ASSUME ProxyInv, ProxyInv', MoneyInv, NEW c \in Call, Reserves(c)
    PROVE  BudgetsHold' /\ WithinDay' /\ RoomLeft'
<1>1. /\ RowsPaid /\ BudgetsHold /\ WithinDay /\ RoomFor(c)
      /\ c \notin Filled /\ Cost(c) \in Nat /\ usage'[c].cost = Cost(c)
      /\ \A u \in Filled : usage'[u] = usage[u] /\ usage[u].cost \in Nat
  BY RowsReserved, RowsAreFilled DEF MoneyInv, RoomLeft, Reserves
<1>2. /\ \A scope \in Scopes : Limit[scope] \in Ceilings
      /\ day \in 0..LastDay
  BY ProxyAssumption DEF Scopes, ProxyInv, TypeOK
<1>3. ASSUME NEW S, S \subseteq Filled, IsFiniteSet(S)
      PROVE  /\ SumFunction([u \in S \cup {c} |-> usage'[u].cost]) = CostOf(S) + Cost(c)
             /\ SumFunction([u \in S |-> usage'[u].cost]) = CostOf(S)
             /\ Cardinality(S \cup {c}) = Cardinality(S) + 1
  <2>1. c \notin S /\ \A u \in S : usage[u].cost \in Nat /\ usage'[u] = usage[u]
    BY <1>1, <1>3
  <2>2. SumFunction([u \in S \cup {c} |-> usage'[u].cost]) = CostOf(S) + Cost(c)
    BY <1>1, <1>3, <2>1, CostAdded
  <2>3. [u \in S |-> usage'[u].cost] = [u \in S |-> usage[u].cost]
    BY <2>1
  <2> QED
    BY <1>3, <2>1, <2>2, <2>3, FS_AddElement DEF CostOf
<1>4. ASSUME NEW scope \in Scopes, NEW p \in Project
      PROVE  CostOf(Rows(scope, p))' <= Limit[scope].budget
  <2>1. Rows(scope, p) \subseteq Filled /\ IsFiniteSet(Rows(scope, p))
    BY <1>1, RowsAreFilled
  <2>2. CASE scope = "project" /\ p # req[c].project
    <3>1. CostOf(Rows(scope, p))' = CostOf(Rows(scope, p))
      BY <1>1, <1>3, <2>1, <2>2, RowsReserved DEF CostOf
    <3> QED
      BY <1>1, <3>1 DEF BudgetsHold
  <2>3. CASE ~(scope = "project" /\ p # req[c].project)
    <3>0. Rows(scope, p)' = Rows(scope, p) \cup {c}
      BY <1>1, <2>3, RowsReserved
    <3>1. CostOf(Rows(scope, p))' = CostOf(Rows(scope, p)) + Cost(c)
      BY <1>3, <2>1, <3>0 DEF CostOf
    <3>2. Rows(scope, p) = Rows(scope, req[c].project)
      BY <2>3 DEF Rows, Scopes
    <3> QED
      BY <1>1, <3>1, <3>2 DEF RoomFor
  <2> QED
    BY <2>2, <2>3
<1>5. ASSUME NEW scope \in Scopes, NEW p \in Project, NEW d \in 0..LastDay
      PROVE  /\ Cardinality(RowsOn(scope, p, d))' <= Limit[scope].dailyRequests
             /\ CostOf(RowsOn(scope, p, d))' <= Limit[scope].dailyBudget
  <2>1. RowsOn(scope, p, d) \subseteq Filled /\ IsFiniteSet(RowsOn(scope, p, d))
    BY <1>1, RowsAreFilled
  <2>2. CASE (scope = "project" /\ p # req[c].project) \/ d # day
    <3>1. RowsOn(scope, p, d)' = RowsOn(scope, p, d)
      BY <1>1, <2>2, RowsReserved, SMTT(40)
    <3>2. CostOf(RowsOn(scope, p, d))' = CostOf(RowsOn(scope, p, d))
      BY <1>3, <2>1, <3>1 DEF CostOf
    <3> QED
      BY <1>1, <3>1, <3>2 DEF WithinDay, Scopes
  <2>3. CASE ~(scope = "project" /\ p # req[c].project) /\ d = day
    <3>1. RowsOn(scope, p, d)' = RowsOn(scope, p, d) \cup {c}
      BY <1>1, <2>3, RowsReserved, ZenonT(40)
    <3>2. /\ CostOf(RowsOn(scope, p, d))' = CostOf(RowsOn(scope, p, d)) + Cost(c)
          /\ Cardinality(RowsOn(scope, p, d))' = Cardinality(RowsOn(scope, p, d)) + 1
      BY <1>3, <2>1, <3>1 DEF CostOf
    <3>3. RowsOn(scope, p, d) = RowsOn(scope, req[c].project, d)
      BY <2>3 DEF RowsOn, Rows, Scopes
    <3>4. d \in day..LastDay
      BY <1>2, <2>3
    <3> QED
      BY <1>1, <3>2, <3>3, <3>4 DEF RoomFor
  <2> QED
    BY <2>2, <2>3
<1>6. ASSUME NEW e \in Call, pc'[e] = "reserving"
      PROVE  FALSE
  <2>1. /\ pc \in [Call -> Progress] /\ pc[c] = "reserving"
        /\ \A a \in Call : lock = a <=> pc[a] = "reserving"
    BY DEF ProxyInv, TypeOK, StepsInOrder, Reserves
  <2>2. e # c => pc[e] = "reserving"
    BY <1>6, <2>1 DEF Reserves
  <2>3. e = c
    BY <2>1, <2>2
  <2> QED
    BY <1>6, <2>1, <2>3 DEF Reserves
<1> QED
  BY <1>4, <1>5, <1>6 DEF BudgetsHold, WithinDay, RoomLeft, Scopes

\* A step that reserves nothing leaves the sums as they are.
LEMMA NothingReserved ==
    ASSUME ProxyInv, ProxyInv', RowsPaid, RowsAlike, NEW scope, NEW p
    PROVE  /\ Filled' = Filled
           /\ Rows(scope, p)' = Rows(scope, p)
           /\ CostOf(Rows(scope, p))' = CostOf(Rows(scope, p))
           /\ \A d : /\ RowsOn(scope, p, d)' = RowsOn(scope, p, d)
                     /\ CostOf(RowsOn(scope, p, d))' = CostOf(RowsOn(scope, p, d))
<1>1. DOMAIN usage = Call \cup Legacy /\ DOMAIN usage' = Call \cup Legacy
  BY DEF ProxyInv, TypeOK
<1>2. Filled' = Filled /\ Rows(scope, p)' = Rows(scope, p)
  BY <1>1 DEF Filled, Rows, RowsAlike
<1>3. ASSUME NEW d
      PROVE  RowsOn(scope, p, d)' = RowsOn(scope, p, d)
  BY <1>1, <1>2 DEF RowsOn, RowsAlike, Rows
<1>4. ASSUME NEW S, S \subseteq Rows(scope, p)
      PROVE  SumFunction([u \in S |-> usage'[u].cost]) = CostOf(S)
  <2>1. [u \in S |-> usage'[u].cost] = [u \in S |-> usage[u].cost]
    BY <1>1, <1>4 DEF RowsAlike, Rows
  <2> QED
    BY <2>1 DEF CostOf
<1>5. CostOf(Rows(scope, p))' = CostOf(Rows(scope, p))
  BY <1>2, <1>4 DEF CostOf
<1>6. ASSUME NEW d
      PROVE  CostOf(RowsOn(scope, p, d))' = CostOf(RowsOn(scope, p, d))
  <2>1. RowsOn(scope, p, d) \subseteq Rows(scope, p)
    BY DEF RowsOn
  <2> QED
    BY <1>3, <1>4, <2>1 DEF CostOf
<1> QED
  BY <1>2, <1>3, <1>5, <1>6

\* A request that is admitted has room now, and on the days to come.
LEMMA AdmittedHasRoom ==
    ASSUME ProxyInv, RowsPaid, NEW c \in Call, Admit(c)
    PROVE  RoomFor(c)
<1> SUFFICES ASSUME NEW scope \in Scopes
             PROVE  /\ CostOf(Rows(scope, req[c].project)) + Cost(c)
                          <= Limit[scope].budget
                    /\ \A d \in day..LastDay :
                          /\ Cardinality(RowsOn(scope, req[c].project, d)) + 1
                                <= Limit[scope].dailyRequests
                          /\ CostOf(RowsOn(scope, req[c].project, d)) + Cost(c)
                                <= Limit[scope].dailyBudget
  BY DEF RoomFor
<1> DEFINE p == req[c].project
<1>1. /\ Limit[scope] \in Ceilings /\ day \in 0..LastDay /\ LastDay \in Nat
      /\ Cost(c) \in Nat
  BY ProxyAssumption DEF Scopes, ProxyInv, TypeOK, Cost, Retries
<1>2. /\ Cardinality(RowsOn(scope, p, day)) + 1 <= Limit[scope].dailyRequests
      /\ CostOf(Rows(scope, p)) + Cost(c) <= Limit[scope].budget
      /\ CostOf(RowsOn(scope, p, day)) + Cost(c) <= Limit[scope].dailyBudget
  BY DEF Admit, Admissible, FitsScope, Scopes
<1>3. ASSUME NEW d \in day..LastDay, d # day
      PROVE  /\ Cardinality(RowsOn(scope, p, d)) + 1 <= Limit[scope].dailyRequests
             /\ CostOf(RowsOn(scope, p, d)) + Cost(c) <= Limit[scope].dailyBudget
  <2>1. RowsOn(scope, p, d) = {}
    <3>1. \A u \in Rows(scope, p) : usage[u].day <= day /\ usage[u].day \in Int
      <4>1. \A u \in Rows(scope, p) : u \in Filled
        BY RowsAreFilled
      <4>2. \A u \in Filled : usage[u].day <= day /\ usage[u] \in Usage
        BY RowsAreFilled DEF RowsPaid
      <4> QED
        BY <4>1, <4>2 DEF Usage
    <3>2. d > day /\ d \in Int
      BY <1>1, <1>3
    <3> QED
      BY <1>1, <3>1, <3>2 DEF RowsOn
  <2>2. Cardinality(RowsOn(scope, p, d)) = 0 /\ CostOf(RowsOn(scope, p, d)) = 0
    BY <2>1, FS_EmptySet, CostOfNone
  <2>3. /\ Cardinality(RowsOn(scope, p, day)) \in Nat
        /\ CostOf(RowsOn(scope, p, day)) \in Nat
    <3>1. IsFiniteSet(RowsOn(scope, p, day))
      BY RowsAreFilled
    <3> QED
      BY <3>1, FS_CardinalityType, CostsAreNatural
  <2>4. Limit[scope].dailyRequests \in Nat /\ Limit[scope].dailyBudget \in Nat
    BY <1>1 DEF Ceilings
  <2> QED
    BY <1>1, <1>2, <2>2, <2>3, <2>4
<1> QED
  BY <1>2, <1>3

LEMMA RowsPaidKept ==
    ASSUME ProxyInv, ProxyInv', RowsPaid, [Next]_vars
    PROVE  RowsPaid'
<1>0. /\ pc \in [Call -> Progress] /\ req \in [Call -> Requests \cup {None}]
      /\ sent \in [Call -> 0..RetryLimit + 1] /\ day \in Int
      /\ usage \in [Call \cup Legacy -> Usage \cup {None}]
      /\ \A c \in Call : Cost(c) \in Nat /\ Retries(req[c]) \in Nat
      /\ RetryLimit \in Nat
  BY ProxyAssumption DEF ProxyInv, TypeOK, Cost, Retries
<1>1. /\ IsFiniteSet(Filled)
      /\ \A u \in Filled : usage[u].day <= day /\ usage[u].day \in Int
      /\ \A c \in Call :
          /\ pc[c] \in New => usage[c] = None
          /\ usage[c] # None => req[c] # None /\ usage[c].cost = Cost(c)
          /\ sent[c] > 0 => usage[c] # None
          /\ req[c] # None => sent[c] <= Cost(c)
  BY <1>0 DEF RowsPaid, Filled, Usage
<1>2. ASSUME NEW c \in Call, Reserves(c)
      PROVE  RowsPaid'
  <2>1. /\ Filled' = Filled \cup {c} /\ c \notin Filled
        /\ \A u \in Filled : usage'[u] = usage[u]
        /\ usage'[c].cost = Cost(c) /\ usage'[c].day = day /\ usage'[c] # None
    BY <1>2, RowsReserved
  <2>2. /\ pc[c] = "reserving" /\ UNCHANGED <<day, req, sent>>
        /\ \E s \in {"reserved", "answered"} : pc' = [pc EXCEPT ![c] = s]
    BY <1>2 DEF Reserves
  <2>3. req[c] # None
    BY <2>2 DEF ProxyInv, StepsInOrder
  <2>4. IsFiniteSet(Filled')
    BY <1>1, <2>1, FS_AddElement
  <2>5. \A u \in Filled' : usage'[u].day <= day'
    BY <1>0, <1>1, <2>1, <2>2
  <2>6. ASSUME NEW e \in Call
        PROVE  /\ pc'[e] \in New => usage'[e] = None
               /\ usage'[e] # None => req'[e] # None /\ usage'[e].cost = Cost(e)'
               /\ sent'[e] > 0 => usage'[e] # None
               /\ req'[e] # None => sent'[e] <= Cost(e)'
    <3>1. Cost(e)' = Cost(e)
      BY <2>2 DEF Cost, Retries
    <3>2. CASE e = c
      BY <1>0, <1>1, <2>1, <2>2, <2>3, <3>1, <3>2 DEF New
    <3>3. CASE e # c
      <4>1. usage'[e] = usage[e]
        BY <1>2, <1>0, <3>3 DEF Reserves, Reserved
      <4>2. pc'[e] = pc[e]
        BY <1>0, <2>2, <3>3
      <4> QED
        BY <1>1, <2>2, <3>1, <4>1, <4>2
    <3> QED
      BY <3>2, <3>3
  <2> QED
    BY <2>4, <2>5, <2>6 DEF RowsPaid
<1>3. ASSUME RowsAlike, day' \in day..LastDay, \A d \in Call : Spends(d)
      PROVE  RowsPaid'
  <2>1. Filled' = Filled
    BY <1>3, NothingReserved
  <2>2. \A u \in Filled : usage'[u].day <= day'
    <3>1. day' >= day /\ day' \in Int
      BY <1>0, <1>3
    <3>2. \A u \in Filled : usage'[u].day = usage[u].day
      BY <1>3 DEF RowsAlike, Filled
    <3> QED
      BY <1>0, <1>1, <3>1, <3>2
  <2>3. ASSUME NEW e \in Call
        PROVE  /\ pc'[e] \in New => usage'[e] = None
               /\ usage'[e] # None => req'[e] # None /\ usage'[e].cost = Cost(e)'
               /\ sent'[e] > 0 => usage'[e] # None
               /\ req'[e] # None => sent'[e] <= Cost(e)'
    <3>1. Spends(e)
      BY <1>3
    <3>2. /\ usage'[e] = None <=> usage[e] = None
          /\ usage[e] # None => usage'[e].cost = usage[e].cost
      BY <1>3 DEF RowsAlike
    <3>3. /\ pc[e] = "idle" <=> req[e] = None
          /\ pc[e] \in Unsent => sent[e] = 0
          /\ pc[e] = "backoff" => sent[e] <= Retries(req[e])
          /\ pc[e] \in Committed => usage[e] # None
      BY DEF ProxyInv, StepsInOrder, ReceiptsHeld
    <3>4. pc'[e] \in New => usage'[e] = None
      BY <1>1, <3>1, <3>2 DEF Spends
    <3>5. CASE pc[e] = "idle"
      <4>1. usage[e] = None /\ usage'[e] = None /\ sent[e] = 0 /\ sent'[e] = 0
        BY <1>1, <3>1, <3>2, <3>3, <3>5 DEF Spends, New, Unsent
      <4>2. Cost(e)' \in Nat
        BY ProxyAssumption DEF Cost, Retries
      <4> QED
        BY <3>4, <4>1, <4>2
    <3>6. CASE pc[e] # "idle"
      <4>1. req'[e] = req[e] /\ Cost(e)' = Cost(e)
        BY <3>1, <3>6 DEF Spends, Cost, Retries
      <4>2. sent'[e] = sent[e] \/ (/\ pc[e] \in {"reserved", "backoff"}
                                   /\ sent'[e] = sent[e] + 1)
        BY <3>1 DEF Spends
      <4>3. sent[e] \in Nat
        BY <1>0
      <4>4. sent'[e] <= Cost(e)
        BY <1>0, <1>1, <3>3, <3>6, <4>2, <4>3 DEF Unsent, Cost
      <4>5. sent'[e] > 0 => usage'[e] # None
        BY <1>1, <3>2, <3>3, <4>2 DEF Committed
      <4> QED
        BY <1>1, <3>2, <3>4, <4>1, <4>4, <4>5
    <3> QED
      BY <3>5, <3>6
  <2> QED
    BY <1>1, <2>1, <2>2, <2>3 DEF RowsPaid
<1> QED
  BY <1>2, <1>3, MoneyStep

LEMMA MoneyKept ==
    ASSUME ProxyInv, ProxyInv', MoneyInv, [Next]_vars
    PROVE  MoneyInv'
<1>1. RowsPaid' /\ RowsPaid /\ BudgetsHold /\ WithinDay /\ RoomLeft
  BY RowsPaidKept DEF MoneyInv
<1>2. ASSUME NEW c \in Call, Reserves(c)
      PROVE  BudgetsHold' /\ WithinDay' /\ RoomLeft'
  BY <1>2, ReservationFits
<1>3. ASSUME RowsAlike, day' \in day..LastDay, \A d \in Call : Spends(d)
      PROVE  BudgetsHold' /\ WithinDay' /\ RoomLeft'
  <2>1. BudgetsHold'
    BY <1>1, <1>3, NothingReserved DEF BudgetsHold
  <2>2. WithinDay'
    <3>1. ASSUME NEW scope \in Scopes, NEW p \in Project, NEW d \in 0..LastDay
          PROVE  /\ Cardinality(RowsOn(scope, p, d)') <= Limit[scope].dailyRequests
                 /\ CostOf(RowsOn(scope, p, d))' <= Limit[scope].dailyBudget
      <4>1. /\ RowsOn(scope, p, d)' = RowsOn(scope, p, d)
            /\ CostOf(RowsOn(scope, p, d))' = CostOf(RowsOn(scope, p, d))
        BY <1>1, <1>3, NothingReserved
      <4> QED
        BY <1>1, <4>1 DEF WithinDay, Scopes
    <3> QED
      BY <3>1 DEF WithinDay, Scopes
  <2>3. ASSUME NEW c \in Call, pc'[c] = "reserving"
        PROVE  RoomFor(c)'
    <3>1. Spends(c)
      BY <1>3
    <3>2. pc[c] = "reserving" \/ Admit(c)
      BY <2>3, <3>1 DEF Spends
    <3>3. RoomFor(c)
      BY <1>1, <3>2, AdmittedHasRoom DEF RoomLeft
    <3>4. req'[c] = req[c]
      BY <3>1, <3>2 DEF Spends, Admit
    <3>5. Cost(c)' = Cost(c)
      BY <3>4 DEF Cost, Retries
    <3>6. day'..LastDay \subseteq day..LastDay
      <4>1. day \in Int /\ LastDay \in Int
        BY ProxyAssumption DEF ProxyInv, TypeOK
      <4> QED
        BY <1>3, <4>1
    <3>7. ASSUME NEW scope \in Scopes
          PROVE  /\ CostOf(Rows(scope, req[c].project))' + Cost(c)
                       <= Limit[scope].budget
                 /\ \A d \in day..LastDay :
                       /\ Cardinality(RowsOn(scope, req[c].project, d)') + 1
                             <= Limit[scope].dailyRequests
                       /\ CostOf(RowsOn(scope, req[c].project, d))' + Cost(c)
                             <= Limit[scope].dailyBudget
      <4> DEFINE p == req[c].project
      <4>1. PICK q : q = req[c].project
        OBVIOUS
      <4>2. /\ Rows(scope, q)' = Rows(scope, q)
            /\ CostOf(Rows(scope, q))' = CostOf(Rows(scope, q))
            /\ \A d : /\ RowsOn(scope, q, d)' = RowsOn(scope, q, d)
                      /\ CostOf(RowsOn(scope, q, d))' = CostOf(RowsOn(scope, q, d))
        BY <1>1, <1>3, NothingReserved
      <4>3. req[c].project' = q /\ req[c].project = q
        BY <3>4, <4>1
      <4> QED
        BY <3>3, <4>2, <4>3 DEF RoomFor
    <3> QED
      BY <3>4, <3>5, <3>6, <3>7 DEF RoomFor
  <2> QED
    BY <2>1, <2>2, <2>3 DEF RoomLeft
<1> QED
  BY <1>1, <1>2, <1>3, MoneyStep DEF MoneyInv

\* What an older release left is within the limits of this deployment: one that
\* lowers a limit below what is already used starts outside it.
LedgerFits == BudgetsHold /\ WithinDay

LEMMA MoneyInit ==
    ASSUME Init, LedgerFits
    PROVE  MoneyInv
<1>1. /\ \A c \in Call : pc[c] = "idle" /\ sent[c] = 0 /\ req[c] = None
      /\ day = 0
  BY DEF Init
<1>2. /\ \A c \in Call : usage[c] = None
      /\ \A u \in Legacy : usage[u].day = 0
  BY ProxyAssumption DEF Init
<1>3. RowsPaid
  <2>1. Filled \subseteq Legacy
    BY <1>2 DEF Filled
  <2>2. IsFiniteSet(Filled)
    BY <2>1, FS_Subset, ProxyAssumption
  <2>3. \A u \in Filled : usage[u].day <= day
    BY <1>1, <1>2, <2>1
  <2> QED
    BY <1>1, <1>2, <2>2, <2>3 DEF RowsPaid
<1> QED
  BY <1>1, <1>3 DEF MoneyInv, LedgerFits, RoomLeft

LEMMA MoneyInvariant == Spec /\ LedgerFits => [](ProxyInv /\ MoneyInv)
<1>1. Init /\ LedgerFits => MoneyInv
  BY MoneyInit
<1>2. ProxyInv /\ ProxyInv' /\ MoneyInv /\ [Next]_vars => MoneyInv'
  BY MoneyKept
<1> QED
  BY <1>1, <1>2, ProxyInvariant, PTL DEF Spec

\* A request is charged at most what was reserved for it.
LEMMA SpentIsReserved ==
    ASSUME ProxyInv, RowsPaid, NEW scope, NEW p
    PROVE  /\ Spent(Rows(scope, p)) \in Nat
           /\ Spent(Rows(scope, p)) <= CostOf(Rows(scope, p))
<1>1. PICK S : S = Rows(scope, p)
  OBVIOUS
<1>2. /\ IsFiniteSet(S) /\ S \subseteq Filled
      /\ \A u \in Filled : usage[u].cost \in Nat
  BY <1>1, RowsAreFilled
<1>3. ASSUME NEW u \in S
      PROVE  Charged(u) \in Nat /\ Charged(u) <= usage[u].cost
  <2>1. u \in Filled /\ usage[u].cost \in Nat
    BY <1>2
  <2>2. CASE u \in Legacy
    BY <2>1, <2>2 DEF Charged
  <2>3. CASE u \notin Legacy
    <3>1. u \in Call /\ usage[u] # None
      BY <2>1, <2>3 DEF Filled
    <3>2. sent[u] \in Nat
      BY <3>1, ProxyAssumption DEF ProxyInv, TypeOK
    <3>3. usage[u].cost = Cost(u) /\ sent[u] <= Cost(u)
      BY <3>1 DEF RowsPaid
    <3> QED
      BY <2>3, <3>2, <3>3 DEF Charged
  <2> QED
    BY <2>2, <2>3
<1> DEFINE charged == [u \in S |-> Charged(u)]
           costs == [u \in S |-> usage[u].cost]
<1>4. /\ \A u \in S : charged[u] \in Nat /\ charged[u] <= costs[u]
      /\ \A u \in S : costs[u] \in Nat
      /\ DOMAIN charged = S /\ DOMAIN costs = S
  BY <1>2, <1>3
<1>5. /\ SumFunctionOnSet(charged, S) \in Nat
      /\ SumFunctionOnSet(charged, S) <= SumFunctionOnSet(costs, S)
  <2> HIDE DEF charged, costs
  <2>1. S \subseteq S
    OBVIOUS
  <2> QED
    BY <1>2, <1>4, <2>1, SumMonotone, SumNatural
<1>6. Spent(S) = SumFunctionOnSet(charged, S)
  BY <1>4 DEF Spent, SumFunction
<1>7. CostOf(S) = SumFunctionOnSet(costs, S)
  BY <1>4 DEF CostOf, SumFunction
<1> QED
  BY <1>1, <1>5, <1>6, <1>7

(***************************************************************************)
(* The daily limits hold for every day, for any number of requests,        *)
(* projects and replicas: the lock is held from the checks to the rows, so *)
(* that the room found is still there, on whichever day the rows get.      *)
(***************************************************************************)
THEOREM ProxyWithinDay == Spec /\ LedgerFits => []WithinDay
<1>1. MoneyInv => WithinDay
  BY DEF MoneyInv
<1> QED
  BY <1>1, MoneyInvariant, PTL

(***************************************************************************)
(* What was sent to the provider never costs more than the budgets, even   *)
(* if every attempt is charged in full: an attempt has a row, a row counts *)
(* whatever became of its request, and all rows are within the budget.     *)
(***************************************************************************)
THEOREM ProxySpendsWithinBudget == Spec /\ LedgerFits => []SpentWithinBudget
<1>1. ProxyInv /\ MoneyInv => SpentWithinBudget
  <2> SUFFICES ASSUME ProxyInv, MoneyInv
               PROVE  SpentWithinBudget
    OBVIOUS
  <2>1. \A c \in Asked : usage[c] # None
    BY DEF MoneyInv, RowsPaid, Asked
  <2>2. ASSUME NEW scope \in Scopes, NEW p \in Project
        PROVE  Spent(Rows(scope, p)) <= Limit[scope].budget
    <3>1. /\ Spent(Rows(scope, p)) <= CostOf(Rows(scope, p))
          /\ CostOf(Rows(scope, p)) \in Nat
      BY SpentIsReserved, CostsAreNatural DEF MoneyInv
    <3>2. CostOf(Rows(scope, p)) <= Limit[scope].budget
      BY DEF MoneyInv, BudgetsHold
    <3>3. Spent(Rows(scope, p)) \in Nat /\ Limit[scope].budget \in Nat
      BY SpentIsReserved, ProxyAssumption DEF MoneyInv, Scopes, Ceilings
    <3> QED
      BY <3>1, <3>2, <3>3
  <2> QED
    BY <2>1, <2>2 DEF SpentWithinBudget, Scopes
<1> QED
  BY <1>1, MoneyInvariant, PTL

=============================================================================
