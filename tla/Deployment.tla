----------------------------- MODULE Deployment -----------------------------
(***************************************************************************)
(* One deployment of the backend: the server process from its boot to its  *)
(* graceful shutdown (server.ts, jobs/schedule_purge.ts, db/pool.ts), the  *)
(* requests it handles behind the limiter, and the operator's commands     *)
(* (cli/admin.ts: migrate, bootstrap, destroy), which are processes of     *)
(* their own over the same database.                                       *)
(*                                                                         *)
(* A handler runs until it has answered; its transactions are the subject  *)
(* of the other modules.  A migration file is its number and its content,  *)
(* and a release is the set of its files.                                  *)
(***************************************************************************)
EXTENDS RateLimit

CONSTANTS
    Signal,     \* the signals the server handles
    Release,    \* sets of migration files
    Needed,     \* the number of the migration the server looks for
    OrgId,      \* identifiers of organisations, drawn once each
    Command     \* admin commands in progress

ASSUME DeploymentConstants ==
    \A files \in Release : \A f \in files : f.number \in Nat

VARIABLES
    phase,      \* how far main() or stop() of server.ts has come
    purge,      \* whether current of schedulePurge is set
    signalled,  \* signals whose process.once listener is spent
    handled,    \* requests whose handler is still running
    waiting,    \* requests whose client waits for the answer
    conn,       \* addresses with an open connection
    schema,     \* rows of schema_migrations
    orgs,       \* rows of organisations
    drawn,      \* identifiers of organisations ever created
    command     \* the organisation each destroy command found

process == <<phase, purge, signalled, handled, waiting, conn>>
database == <<schema, orgs, drawn>>
vars == <<limiterVars, process, database, command>>

Booting == {"probing", "checked", "configured"}
Phase == {"off", "serving", "stopping", "closing", "draining"} \cup Booting
NoOrg == "none"

TypeOK ==
    /\ LimiterTypeOK
    /\ phase \in Phase
    /\ purge \in BOOLEAN
    /\ signalled \subseteq Signal
    /\ handled \subseteq Request
    /\ waiting \subseteq Request
    /\ conn \subseteq Address
    /\ schema \subseteq UNION Release
    /\ orgs \subseteq OrgId
    /\ drawn \subseteq OrgId
    /\ command \in [Command -> OrgId \cup {NoOrg}]

\* No server process: its handlers, connections and timers are gone.
Stopped ==
    /\ phase' = "off" /\ purge' = FALSE /\ signalled' = {}
    /\ handled' = {} /\ waiting' = {} /\ conn' = {}

Init ==
    /\ LimiterInit
    /\ phase = "off" /\ purge = FALSE /\ signalled = {}
    /\ handled = {} /\ waiting = {} /\ conn = {}
    /\ schema = {} /\ orgs = {} /\ drawn = {}
    /\ command = [c \in Command |-> NoOrg]

-----------------------------------------------------------------------------
\* main()

Reaches(p) ==
    /\ phase' = p
    /\ UNCHANGED <<purge, signalled, handled, waiting, conn>>

\* createPool and the limiters of a new process.
Start ==
    /\ phase = "off"
    /\ Reaches("probing")
    /\ Restart
    /\ UNCHANGED <<database, command>>

SchemaIsCurrent == \E f \in schema : f.number = Needed

CheckSchema ==
    /\ phase = "probing"
    /\ SchemaIsCurrent
    /\ Reaches("checked")
    /\ UNCHANGED <<limiterVars, database, command>>

\* auditConfiguration, one transaction.
AuditConfiguration ==
    /\ phase = "checked"
    /\ Reaches("configured")
    /\ UNCHANGED <<limiterVars, database, command>>

\* listen, then the first purge run and the listeners of the signals.
Listen ==
    /\ phase = "configured"
    /\ phase' = "serving"
    /\ purge' = TRUE
    /\ UNCHANGED <<limiterVars, signalled, handled, waiting, conn,
                   database, command>>

-----------------------------------------------------------------------------
\* Requests

\* A connection is accepted until the server closes; one that is still open
\* then may carry further requests.
Reachable(a) ==
    phase \in {"serving", "stopping"} \/ (phase = "closing" /\ a \in conn)

\* Refused requests too have work to do: the audit of their refusal.
Arrive(r, a) ==
    /\ Reachable(a)
    /\ Ask(r, a)
    /\ handled' = handled \cup {r}
    /\ waiting' = waiting \cup {r}
    /\ conn' = conn \cup {a}
    /\ UNCHANGED <<phase, purge, signalled, database, command>>

\* The answer; a query after the pool was drained fails and answers too.
Respond(r) ==
    /\ r \in handled
    /\ handled' = handled \ {r}
    /\ waiting' = waiting \ {r}
    /\ UNCHANGED <<limiterVars, phase, purge, signalled, conn, database,
                   command>>

\* The client closes the connection, or leaves it idle too long; handlers it
\* no longer waits for go on.
Disconnect(a) ==
    /\ a \in conn
    /\ conn' = conn \ {a}
    /\ waiting' = {r \in waiting : asked[r].address # a}
    /\ UNCHANGED <<limiterVars, phase, purge, signalled, handled,
                   database, command>>

\* Mutant: the interval goes on after the signal.
PurgeStartUncleared ==
    /\ phase \in {"serving", "stopping"}
    /\ ~purge
    /\ purge' = TRUE
    /\ UNCHANGED <<limiterVars, phase, signalled, handled, waiting, conn,
                   database, command>>

\* The interval: no run while one is current.
PurgeStart ==
    /\ phase = "serving"
    /\ ~purge
    /\ purge' = TRUE
    /\ UNCHANGED <<limiterVars, phase, signalled, handled, waiting,
                   conn, database, command>>

\* A run ends, failed or not, and current is unset.
PurgeEnd ==
    /\ purge
    /\ purge' = FALSE
    /\ UNCHANGED <<limiterVars, phase, signalled, handled, waiting,
                   conn, database, command>>

-----------------------------------------------------------------------------
\* stop()

\* The first signal clears the interval; another one finds stopping set.
Interrupt(s) ==
    /\ phase \notin Booting \cup {"off"}
    /\ s \in Signal \ signalled
    /\ signalled' = signalled \cup {s}
    /\ phase' = IF phase = "serving" THEN "stopping" ELSE phase
    /\ UNCHANGED <<limiterVars, purge, handled, waiting, conn, database,
                   command>>

\* Mutant: the server closes while a purge run is under way.
PurgedIgnored == TRUE

Purged == ~purge

\* stopPurge resolved: server.close ends the idle connections.
Close ==
    /\ phase = "stopping"
    /\ Purged
    /\ phase' = "closing"
    /\ conn' = {asked[r].address : r \in waiting}
    /\ UNCHANGED <<limiterVars, purge, signalled, handled, waiting,
                   database, command>>

\* The callback of server.close: no connection is left.
Closed == conn = {}

Drain ==
    /\ phase = "closing"
    /\ Closed
    /\ phase' = "draining"
    /\ UNCHANGED <<limiterVars, purge, signalled, handled, waiting, conn,
                   database, command>>

\* Nothing is left to run.
Exit ==
    /\ phase = "draining"
    /\ handled = {}
    /\ Stopped
    /\ UNCHANGED <<limiterVars, database, command>>

\* A boot that fails (an unreachable database, an old schema, a taken port), a
\* crash, SIGKILL, or a signal whose listener is spent or not yet there.
Kill ==
    /\ phase # "off"
    /\ Stopped
    /\ UNCHANGED <<limiterVars, database, command>>

-----------------------------------------------------------------------------
\* The operator's commands

\* The checks of pendingMigrations: each applied row is a file with the same
\* content, and no file comes before one that is applied.
InOrder(files) ==
    \A f \in files \ schema, g \in schema : g.number < f.number

\* Mutant: a row this release has no file for is passed over.
ApplicableForeign(files) == InOrder(files)

Applicable(files) == schema \subseteq files /\ InOrder(files)

\* migrate: every pending file and its history row, in one transaction.
Migrate(files) ==
    /\ Applicable(files)
    /\ schema' = schema \cup files
    /\ UNCHANGED <<limiterVars, process, orgs, drawn, command>>

\* bootstrapOrganisation; randomUUID draws an identifier never seen before.
Bootstrap(o) ==
    /\ orgs = {}
    /\ o \in OrgId \ drawn
    /\ orgs' = {o}
    /\ drawn' = drawn \cup {o}
    /\ UNCHANGED <<limiterVars, process, schema, command>>

\* destroyOrganisation: the organisation of that name, read before the
\* transaction.
DestroyBegin(c) ==
    /\ command[c] = NoOrg
    /\ \E o \in orgs : command' = [command EXCEPT ![c] = o]
    /\ UNCHANGED <<limiterVars, process, database>>

\* Mutant: the transaction does not look again which organisation is there.
MatchesAny(o) == orgs # {}

\* destroyDeployment: a single organisation, and the one that was read.
Matches(o) == orgs = {o}

\* Every table but schema_migrations is emptied, or the command fails.
DestroyCommit(c) ==
    /\ command[c] # NoOrg
    /\ orgs' = IF Matches(command[c]) THEN {} ELSE orgs
    /\ command' = [command EXCEPT ![c] = NoOrg]
    /\ UNCHANGED <<limiterVars, process, schema, drawn>>

\* The command is interrupted before its transaction.
DestroyAbandon(c) ==
    /\ command[c] # NoOrg
    /\ command' = [command EXCEPT ![c] = NoOrg]
    /\ UNCHANGED <<limiterVars, process, database>>

-----------------------------------------------------------------------------
BootStep ==
    \/ Start \/ CheckSchema \/ AuditConfiguration \/ Listen

RequestStep ==
    \/ \E r \in Request, a \in Address : Arrive(r, a)
    \/ \E r \in Request : Respond(r)
    \/ \E a \in Address : Disconnect(a)

PurgeStep == PurgeStart \/ PurgeEnd

StopStep == (\E s \in Signal : Interrupt(s)) \/ Close \/ Drain \/ Exit \/ Kill

OperatorStep ==
    \/ \E files \in Release : Migrate(files)
    \/ \E o \in OrgId : Bootstrap(o)
    \/ \E c \in Command :
          DestroyBegin(c) \/ DestroyCommit(c) \/ DestroyAbandon(c)

Clock == Tick /\ UNCHANGED <<process, database, command>>

Next ==
    \/ BootStep \/ RequestStep \/ PurgeStep \/ StopStep \/ OperatorStep
    \/ Clock

Spec == Init /\ [][Next]_vars

\* Handlers and purge runs are bounded by timeouts, idle
\* connections by the keep-alive timeout of node:http, and stop() goes on when
\* what it awaits is there.  Nothing makes a client send, or a signal come.
Fairness ==
    /\ \A r \in Request : WF_vars(Respond(r))
    /\ \A a \in Address : WF_vars(Disconnect(a))
    /\ WF_vars(PurgeEnd) /\ WF_vars(Close) /\ WF_vars(Drain) /\ WF_vars(Exit)

FairSpec == Spec /\ Fairness

-----------------------------------------------------------------------------
\* Properties

\* BE-DEP-05 "finish in-flight requests, close the exit": by the time
\* the pool is drained no client waits for an answer and no purge run is
\* under way, whatever arrived since the signal.
DrainedOnlyWhenIdle == phase = "draining" => waiting = {} /\ ~purge

\* A server told to stop does stop: what stop() awaits one after the other,
\* the purge run, the connections, the pool and the handlers whose clients
\* left, never waits for something that waits for it.
StopEnds == (phase = "stopping") ~> (phase = "off")

\* The database has the files of exactly one release, whatever releases were
\* migrated to and organisations destroyed, and a serving process the one it
\* looked for (BE-DEP-04; RUNBOOK.md "Apply the next numbered migration
\* forward only").
ServesMigratedSchema ==
    /\ schema \in Release \cup {{}}
    /\ phase \notin Booting \cup {"off"} => SchemaIsCurrent

\* Destroying a deployment removes the organisation the operator confirmed,
\* not one that another operator has bootstrapped under its name since.
DestroyIsTargeted ==
    [][\A o \in orgs \ orgs' :
          \E c \in Command : command[c] = o /\ command'[c] = NoOrg]_vars

=============================================================================
