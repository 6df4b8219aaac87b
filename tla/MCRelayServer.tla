---------------------------- MODULE MCRelayServer ----------------------------
(***************************************************************************)
(* A small instance of the relay for TLC.                                  *)
(***************************************************************************)
EXTENDS RelayServer

CONSTANTS manager, colleague, d1, d2, j2, p1

\* The manager's device is d1; a colleague owns any other.
MCOwner == [d \in Device |-> IF d = d1 THEN manager ELSE colleague]

\* A deployment in use: every device enrolled, every project relaying with
\* both accounts as members.
InUse ==
    /\ now = 0
    /\ orgDays = HardMax
    /\ project = [j \in Project |-> [enabled |-> TRUE, never |-> FALSE,
                                     days |-> HardMax]]
    /\ member = Project \X User
    /\ enrolled = Device /\ revoked = {}
    /\ pkg = [p \in {} |-> NewProject]
    /\ acked = [p \in {} |-> {}]
    /\ vector = [x \in Project \X Device |-> 0]
    /\ upload = [k \in {} |-> NewProject]
    /\ issued = [p \in {} |-> NewProject]
    /\ edit = [c \in Call |-> NoEdit]
    /\ purge = -1

MCFairSpec == (RelayInit \/ InUse) /\ [][RelayNext]_relayVars /\ RelayFairness

\* Two projects are the deployment in use: its packages of any size, with
\* nobody editing projects or devices.  One project is a deployment from its
\* first day: created, edited, joined, left and configured around one package,
\* and the colleague's device may be revoked.
TwoDeployments ==
    IF j2 \in DOMAIN project
    THEN UNCHANGED <<policyVars, deviceVars>>
    ELSE /\ j2 \notin DOMAIN project'
         /\ DOMAIN issued' \subseteq {p1} /\ revoked' \subseteq {d2}
         /\ \A p \in DOMAIN pkg' : pkg'[p].size = 1
         /\ \A c \in Call : edit'[c] # NoEdit => edit'[c].project # j2
         /\ now' <= 1

=============================================================================
