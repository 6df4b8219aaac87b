--------------------------- MODULE MCRelayExchange ---------------------------
(***************************************************************************)
(* Small instances of the relay with its devices for TLC.                  *)
(***************************************************************************)
EXTENDS RelayExchange, TLC

CONSTANTS manager, colleague, d1, d2

\* The manager's device is d1; a colleague owns any other.
MCOwner == [d \in Device |-> IF d = d1 THEN manager ELSE colleague]

\* A deployment in use: every device enrolled, the project relaying with the
\* accounts as members.
MCInit ==
    /\ now = 0
    /\ orgDays = HardMax
    /\ project = [j \in Project |-> [enabled |-> TRUE, never |-> FALSE,
                                     days |-> HardMax]]
    /\ member = Project \X User
    /\ enrolled = Device /\ revoked = {}
    /\ pkg = [p \in {} |-> NewProject]
    /\ acked = [p \in {} |-> {}]
    /\ vector = [x \in Project \X Device |-> 0]
    /\ upload = [k \in {} |-> NewProject]
    /\ issued = [p \in {} |-> NewProject]
    /\ edit = [c \in Call |-> NoEdit]
    /\ purge = -1
    /\ DeviceInit

\* Of devices of one account.
Symmetry == Permutations(Device)

MCSpec == MCInit /\ [][Next]_vars

=============================================================================
