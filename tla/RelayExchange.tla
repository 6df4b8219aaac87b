---------------------------- MODULE RelayExchange ----------------------------
(***************************************************************************)
(* The relay end to end: the durable queue each device keeps for a project *)
(* (relay_queue.dart) against the server of RelayServer.  A device's state *)
(* is one document that a job reads whole, changes in memory across        *)
(* requests, and writes back whole.                                        *)
(*                                                                         *)
(* A request and its answer are one step, whose answer may be lost: what   *)
(* other jobs of the device write in between commutes with the server's    *)
(* part.  The pages of a list are one request.  Local packages are named   *)
(* by the idempotency keys they are uploaded with.                         *)
(***************************************************************************)
EXTENDS RelayServer

CONSTANTS
    NoPackage,
    Job         \* jobs of one device that may overlap

ASSUME ExchangeConstants == Project # {} /\ NoPackage \notin Package

VARIABLES
    disk,       \* state/<project> of each device
    blob,       \* packages/<id>: ciphertext waiting for upload
    run,        \* the jobs of each device
    applied,    \* packages merged into each device's project (history)
    confirmed   \* packages whose queueing was confirmed (history)

deviceState == <<disk, blob, run, applied, confirmed>>
vars == <<relayVars, deviceState>>

J == CHOOSE j \in Project : TRUE

Row == [status : {"none", "queued", "sent", "purged"},
        id : Package \cup {NoPackage}]
State == [rows : [Key -> Row], acks : SUBSET Package,
          received : SUBSET Package, incoming : SUBSET Package,
          enabled : BOOLEAN, never : BOOLEAN]
Step == {"idle", "read", "policy", "upload", "clean", "ack", "check",
         "queueRead", "queueWrite", "merge", "appliedRead", "appliedWrite"}

NoRow == [status |-> "none", id |-> NoPackage]
NoState == [rows |-> [k \in Key |-> NoRow], acks |-> {}, received |-> {},
            incoming |-> {}, enabled |-> FALSE, never |-> FALSE]
\* key and id are the local package and the received one the job works on;
\* seen are the server packages its list named.
Running == [at : Step, mem : State, key : SUBSET Key, id : SUBSET Package,
            seen : SUBSET Package]
NoRun == [at |-> "idle", mem |-> NoState, key |-> {}, id |-> {}, seen |-> {}]

TypeOK ==
    /\ RelayTypeOK
    /\ disk \in [Device -> State]
    /\ blob \in [Device -> SUBSET Key]
    /\ run \in [Device -> [Job -> Running]]
    /\ applied \in [Device -> SUBSET Package]
    /\ confirmed \in [Device -> SUBSET Key]

DeviceInit ==
    /\ disk = [d \in Device |-> NoState]
    /\ blob = [d \in Device |-> {}]
    /\ run = [d \in Device |-> [w \in Job |-> NoRun]]
    /\ applied = [d \in Device |-> {}]
    /\ confirmed = [d \in Device |-> {}]

-----------------------------------------------------------------------------
\* Shared steps

At(d, w, step) == run[d][w].at = step

Mem(d, w) == run[d][w].mem

Becomes(d, w, job) == run' = [run EXCEPT ![d][w] = job]

Goes(d, w, step) == run' = [run EXCEPT ![d][w].at = step]

\* The whole document, written from the job's memory.
Writes(d, state) == disk' = [disk EXCEPT ![d] = state]

Ends(d, w) == Becomes(d, w, NoRun)

\* An idle job starts a sync.
SyncBegin(d, w) ==
    /\ d \in enrolled
    /\ At(d, w, "idle")
    /\ Goes(d, w, "read")
    /\ UNCHANGED <<relayVars, disk, blob, applied, confirmed>>

-----------------------------------------------------------------------------
\* sync

SyncRead(d, w) ==
    /\ At(d, w, "read")
    /\ Becomes(d, w, [NoRun EXCEPT !.at = "policy", !.mem = disk[d]])
    /\ UNCHANGED <<relayVars, disk, blob, applied, confirmed>>

\* _refreshProjectPolicy: a project absent from the list does not upload.
WithPolicy(state, d) ==
    IF Sees(Owner[d], J)
    THEN [state EXCEPT !.enabled = project[J].enabled,
                       !.never = project[J].never]
    ELSE [state EXCEPT !.enabled = FALSE]

SyncPolicy(d, w) ==
    /\ At(d, w, "policy")
    /\ d \notin revoked
    /\ LET state == WithPolicy(Mem(d, w), d)
       IN  IF state.enabled /\ ~state.never
           THEN /\ Becomes(d, w, [run[d][w] EXCEPT !.at = "upload",
                                                   !.mem = state])
                /\ UNCHANGED disk
           ELSE Writes(d, state) /\ Ends(d, w)
    /\ UNCHANGED <<relayVars, blob, applied, confirmed>>

Queued(state) == {k \in Key : state.rows[k].status = "queued"}

WithSent(state, k, p) ==
    [state EXCEPT !.rows[k] = [status |-> "sent", id |-> p],
                  !.acks = @ \cup {p}]

\* The server's part of one upload, and the package it answers with.
Uploads(d, k, p) ==
    \/ \E size \in Sizes : Upload(d, J, k, p, size)
    \/ Reuploaded(d, J, k, p) /\ UNCHANGED relayVars

\* Mutant: the ciphertext is dropped as soon as the server has it.
SendRowDropping(d, w, k) ==
    /\ At(d, w, "upload") /\ k \in Queued(Mem(d, w)) /\ k \in blob[d]
    /\ \E p \in Package :
         /\ Uploads(d, k, p)
         /\ LET state == WithSent(Mem(d, w), k, p)
            IN  \/ /\ Writes(d, state)
                   /\ Becomes(d, w, [run[d][w] EXCEPT !.mem = state])
                \/ Ends(d, w) /\ UNCHANGED disk
    /\ blob' = [blob EXCEPT ![d] = @ \ {k}]
    /\ UNCHANGED <<applied, confirmed>>

\* One queued row is uploaded and recorded as sent and owed its own
\* acknowledgement; or the answer, or the write, is lost.
SendRow(d, w, k) ==
    /\ At(d, w, "upload") /\ k \in Queued(Mem(d, w)) /\ k \in blob[d]
    /\ \E p \in Package :
         /\ Uploads(d, k, p)
         /\ LET state == WithSent(Mem(d, w), k, p)
            IN  \/ /\ Writes(d, state)
                   /\ Becomes(d, w, [run[d][w] EXCEPT !.at = "clean",
                                      !.mem = state, !.key = {k}])
                \/ Ends(d, w) /\ UNCHANGED disk
    /\ UNCHANGED <<blob, applied, confirmed>>

SendClean(d, w) ==
    /\ At(d, w, "clean")
    /\ blob' = [blob EXCEPT ![d] = @ \ run[d][w].key]
    /\ Becomes(d, w, [run[d][w] EXCEPT !.at = "upload", !.key = {}])
    /\ UNCHANGED <<relayVars, disk, applied, confirmed>>

SendDone(d, w) ==
    /\ At(d, w, "upload") /\ Queued(Mem(d, w)) = {}
    /\ Goes(d, w, "ack")
    /\ UNCHANGED <<relayVars, disk, blob, applied, confirmed>>

\* One owed acknowledgement is sent and struck off; or the answer is lost.
SendAck(d, w, p) ==
    /\ At(d, w, "ack") /\ p \in Mem(d, w).acks
    /\ Acknowledge(d, {p})
    /\ LET state == [Mem(d, w) EXCEPT !.acks = @ \ {p}]
       IN  \/ /\ Writes(d, state)
              /\ Becomes(d, w, [run[d][w] EXCEPT !.mem = state])
           \/ Ends(d, w) /\ UNCHANGED disk
    /\ UNCHANGED <<blob, applied, confirmed>>

\* The list of what the server still holds for the device, once nothing is
\* owed: others' packages it has not received are incoming.
ReadInbox(d, w) ==
    /\ At(d, w, "ack") /\ Mem(d, w).acks = {}
    /\ Relays(d, J)
    /\ LET remote == Listed(d, J)
       IN  Becomes(d, w, [run[d][w] EXCEPT !.at = "check", !.seen = remote,
             !.mem.incoming = {p \in remote : pkg[p].author # d}
                                \ Mem(d, w).received])
    /\ UNCHANGED <<relayVars, disk, blob, applied, confirmed>>

Unlisted(d, w) ==
    {k \in Key : /\ Mem(d, w).rows[k].status = "sent"
                 /\ Mem(d, w).rows[k].id \notin run[d][w].seen}

\* A sent package that was not listed is asked for: 404 shows it as purged.
\* Any other answer leaves it.
CheckSent(d, w, k) ==
    /\ At(d, w, "check") /\ k \in Unlisted(d, w)
    /\ LET p == Mem(d, w).rows[k].id
           absent == \/ Owner[d] \notin Manager \/ ~Sees(Owner[d], J)
                     \/ Relays(d, J) /\ ~Downloadable(p)
           status == IF absent THEN "purged" ELSE "sent"
       IN  Becomes(d, w, [run[d][w] EXCEPT !.seen = @ \cup {p},
                                           !.mem.rows[k].status = status])
    /\ UNCHANGED <<relayVars, disk, blob, applied, confirmed>>

SyncWrite(d, w) ==
    /\ At(d, w, "check") /\ Unlisted(d, w) = {}
    /\ Writes(d, Mem(d, w))
    /\ Ends(d, w)
    /\ UNCHANGED <<relayVars, blob, applied, confirmed>>

-----------------------------------------------------------------------------
\* enqueue

\* The ciphertext is stored first, under a new identifier.
QueueBlob(d, w, k) ==
    /\ At(d, w, "idle")
    /\ k \notin blob[d] \cup confirmed[d] /\ disk[d].rows[k] = NoRow
    /\ \A v \in Job : k \notin run[d][v].key
    /\ blob' = [blob EXCEPT ![d] = @ \cup {k}]
    /\ Becomes(d, w, [NoRun EXCEPT !.at = "queueRead", !.key = {k}])
    /\ UNCHANGED <<relayVars, disk, applied, confirmed>>

QueueRead(d, w) ==
    /\ At(d, w, "queueRead")
    /\ Becomes(d, w, [run[d][w] EXCEPT !.at = "queueWrite", !.mem = disk[d]])
    /\ UNCHANGED <<relayVars, disk, blob, applied, confirmed>>

QueueWrite(d, w) ==
    /\ At(d, w, "queueWrite")
    /\ LET k == CHOOSE key \in run[d][w].key : TRUE
       IN  /\ Writes(d, [Mem(d, w) EXCEPT !.rows[k].status = "queued"])
           /\ confirmed' = [confirmed EXCEPT ![d] = @ \cup {k}]
    /\ Ends(d, w)
    /\ UNCHANGED <<relayVars, blob, applied>>

-----------------------------------------------------------------------------
\* receive and applied

\* Mutant: a package is acknowledged when it has been downloaded.
ReceiveAcknowledging(d, w, p) ==
    /\ At(d, w, "idle") /\ p \in disk[d].incoming
    /\ Relays(d, J) /\ Downloadable(p)
    /\ Writes(d, [disk[d] EXCEPT !.acks = @ \cup {p}])
    /\ Becomes(d, w, [NoRun EXCEPT !.at = "merge", !.id = {p}])
    /\ UNCHANGED <<relayVars, blob, applied, confirmed>>

\* The package is downloaded for the merge preview; nothing is written.
Receive(d, w, p) ==
    /\ At(d, w, "idle") /\ p \in disk[d].incoming
    /\ Relays(d, J) /\ Downloadable(p)
    /\ Becomes(d, w, [NoRun EXCEPT !.at = "merge", !.id = {p}])
    /\ UNCHANGED <<relayVars, disk, blob, applied, confirmed>>

\* The person applies the merge, and applied() is called.
Merge(d, w) ==
    /\ At(d, w, "merge")
    /\ applied' = [applied EXCEPT ![d] = @ \cup run[d][w].id]
    /\ Goes(d, w, "appliedRead")
    /\ UNCHANGED <<relayVars, disk, blob, confirmed>>

AppliedRead(d, w) ==
    /\ At(d, w, "appliedRead")
    /\ Becomes(d, w, [run[d][w] EXCEPT !.at = "appliedWrite", !.mem = disk[d]])
    /\ UNCHANGED <<relayVars, disk, blob, applied, confirmed>>

\* The receipt is stored before its acknowledgement is tried, by a sync.
AppliedWrite(d, w) ==
    /\ At(d, w, "appliedWrite")
    /\ Writes(d, [Mem(d, w) EXCEPT !.received = @ \cup run[d][w].id,
                                   !.acks = @ \cup run[d][w].id,
                                   !.incoming = @ \ run[d][w].id])
    /\ Becomes(d, w, [NoRun EXCEPT !.at = "read"])
    /\ UNCHANGED <<relayVars, blob, applied, confirmed>>

-----------------------------------------------------------------------------
\* Failures

\* A request is refused or lost before the server, a write fails, a blob is
\* missing, or the person leaves the preview: the job ends where it is.
Stops(d, w) ==
    /\ ~At(d, w, "idle")
    /\ Ends(d, w)
    /\ UNCHANGED <<relayVars, disk, blob, applied, confirmed>>

Crash(d) ==
    /\ \E w \in Job : ~At(d, w, "idle")
    /\ run' = [run EXCEPT ![d] = [w \in Job |-> NoRun]]
    /\ UNCHANGED <<relayVars, disk, blob, applied, confirmed>>

SyncStep(d, w) ==
    \/ SyncBegin(d, w) \/ SyncRead(d, w) \/ SyncPolicy(d, w)
    \/ \E k \in Key : SendRow(d, w, k) \/ CheckSent(d, w, k)
    \/ SendClean(d, w) \/ SendDone(d, w)
    \/ \E p \in Package : SendAck(d, w, p)
    \/ ReadInbox(d, w) \/ SyncWrite(d, w)

QueueStep(d, w) ==
    \/ \E k \in Key : QueueBlob(d, w, k)
    \/ QueueRead(d, w) \/ QueueWrite(d, w)

ReceiveStep(d, w) ==
    \/ \E p \in Package : Receive(d, w, p)
    \/ Merge(d, w) \/ AppliedRead(d, w) \/ AppliedWrite(d, w)

ServerStep ==
    /\ PolicyStep \/ NextDay \/ PurgeStep
    /\ UNCHANGED deviceState

Next ==
    \/ \E d \in Device, w \in Job : SyncStep(d, w) \/ QueueStep(d, w)
                                    \/ ReceiveStep(d, w) \/ Stops(d, w)
    \/ \E d \in Device : Crash(d)
    \/ ServerStep

Spec == RelayInit /\ DeviceInit /\ [][Next]_vars

-----------------------------------------------------------------------------
\* Properties

\* "Durable ciphertext outbox": a package whose queueing was confirmed stays
\* in the outbox, and its ciphertext stays with it until the server has it,
\* through crashes, lost answers and the device's other jobs.
QueuedIsKept ==
    \A d \in Device : \A k \in confirmed[d] :
        /\ disk[d].rows[k].status # "none"
        /\ disk[d].rows[k].status = "queued" => k \in blob[d]

\* End to end: a package leaves the relay before its expiry only when every
\* active member device has merged it into its project, or wrote it.
PurgedEarlyOnlyWhenApplied ==
    [][\A p \in DOMAIN pkg \ DOMAIN pkg' :
          pkg[p].expires <= now
          \/ \A d \in Audience(pkg[p].project) :
                d = pkg[p].author \/ p \in applied[d]]_vars

=============================================================================
