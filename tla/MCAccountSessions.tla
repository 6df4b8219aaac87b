------------------------ MODULE MCAccountSessions ------------------------
\* AccountSessions on small instances.  Accounts, devices, tokens, links and
\* requests are interchangeable model values.
EXTENDS AccountSessions, TLC

Symmetry ==
    Permutations(Device) \cup Permutations(TokenId) \cup Permutations(Invite)
        \cup Permutations(Call) \cup Permutations(User)

\* While an edit of an administrator is in flight no other request is, and no
\* account changes.
EditsAlone ==
    \A c \in Call :
        call'[c].op = "edit" =>
            /\ user' = user
            /\ \A k \in Call \ {c} : call'[k].op = "none"

\* Every account is in use when the run starts: no invitation is open.
InUseInit == Init /\ \A u \in User : user[u].status = "active"

InUseSpec == InUseInit /\ [][Next]_vars

=============================================================================
