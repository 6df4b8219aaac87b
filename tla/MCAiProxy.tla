------------------------------ MODULE MCAiProxy ------------------------------
(***************************************************************************)
(* A small instance of the AI proxy for TLC.                               *)
(***************************************************************************)
EXTENDS AiProxy

CONSTANTS k, old, x, p, q, r1, r2

R(key, project, kind, replica) ==
    [key |-> key, content |-> x, project |-> project, kind |-> kind,
     replica |-> replica]

\* A key of an older release and a new key, each on either account; the new
\* key at either replica; and an unversioned request of another project, which
\* is retried.
Mixed ==
    {R(old, p, "managed", r1), R(old, p, "personal", r1),
     R(k, p, "managed", r1), R(k, p, "managed", r2),
     R(k, p, "personal", r1), R(None, q, "managed", r2)}

\* Room for the older request, a retried one and one more; less in a day, so
\* that the next may have to wait for midnight.
Tight == [s \in {"project", "organisation"} |->
            IF s = "project"
              THEN [requests |-> 3, dailyRequests |-> 3, budget |-> 3, dailyBudget |-> 3]
              ELSE [requests |-> 3, dailyRequests |-> 2, budget |-> 4, dailyBudget |-> 3]]

\* The older release was interrupted while it served the first project; that
\* it completed or failed is no different to this one.
MCInit ==
    /\ Init
    /\ \A h \in Legacy : /\ receipt[h].binding.project = p
                          /\ receipt[h].status = "running"

MCSpec == MCInit /\ [][Next]_vars /\ \A c \in Call : WF_vars(Serves(c))

=============================================================================
