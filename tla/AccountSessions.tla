-------------------------- MODULE AccountSessions --------------------------
(***************************************************************************)
(* Accounts, enrolled devices and refresh tokens of the backend: sign in,  *)
(* refresh rotation with reuse detection, sign out, password change and    *)
(* reset, invitations, device revocation, account edits and lockout.       *)
(*                                                                         *)
(* Every withTransaction body holds one advisory lock (repositories/       *)
(* postgres.ts), so a body is one action.  What a handler reads or         *)
(* verifies before its transaction is an action of its own, kept in call.  *)
(* Passwords are numbered in the order they are chosen; 0 is none, and a   *)
(* wrong one when typed.  An instant is kept as the ticks that remain.     *)
(***************************************************************************)
EXTENDS Integers, FiniteSets

CONSTANTS
    User, Device, TokenId, Invite,
    Call,               \* requests in flight
    NoUser, NoDevice,   \* no account, no device
    Editing,            \* the columns an administrator's edit may change
    LockoutFailures,    \* config.lockoutFailures
    LockoutWindow,      \* config.lockoutWindowMs, in ticks
    RefreshTtl,         \* config.refreshTtlSeconds, in ticks
    InviteTtl,          \* life of an invitation or a reset link, in ticks
    MaxPassword         \* bound: passwords chosen for one account

ASSUME SessionConstants ==
    /\ NoUser \notin User
    /\ NoDevice \notin Device
    /\ Editing \subseteq {"role", "status"}
    /\ LockoutFailures \in Nat \ {0}
    /\ LockoutWindow \in Nat \ {0}
    /\ RefreshTtl \in Nat \ {0}
    /\ InviteTtl \in Nat \ {0}
    /\ MaxPassword \in Nat \ {0}

ASSUME FiniteCalls == IsFiniteSet(Call)

VARIABLES
    user,       \* users, by account
    device,     \* devices: owner and revocation
    issued,     \* refresh tokens ever handed out
    row,        \* the rows of refresh_families, by the token stored in each
    invite,     \* invitations and reset links
    addrLock,   \* login_lockouts of the address
    acctLock,   \* login_lockouts of the account
    call,       \* what each request read before its transaction
    chosen      \* the password an owner chose last (history)

vars == <<user, device, issued, row, invite, addrLock, acctLock, call,
          chosen>>

tokens == <<issued, row>>
locks == <<addrLock, acctLock>>

Role == {"field_operator", "administrator"}
Status == {"none", "active", "disabled", "invited"}
Hash == [password : 0..MaxPassword, current : BOOLEAN]
Account == [status : Status, role : Role, hash : Hash]
Enrolment == [owner : User \cup {NoUser}, revoked : BOOLEAN]
RefreshFamily == [family : TokenId, user : User, device : Device,
                  rotated : BOOLEAN, revoked : BOOLEAN, ttl : 0..RefreshTtl,
                  password : 0..MaxPassword]
Invitation == [user : User \cup {NoUser}, purpose : {"invitation", "reset"},
               used : BOOLEAN, ttl : 0..InviteTtl]
Lockout == [failures : Nat, until : -1..LockoutWindow]
Operation == {"none", "failAddress", "failAccount", "change", "edit"}
Request ==
    [op : Operation, user : User \cup {NoUser},
     device : Device \cup {NoDevice}, held : Account]
    \cup [op : {"login"}, user : User, device : Device, held : Account]

NoPassword == [password |-> 0, current |-> TRUE]
NoAccount == [status |-> "none", role |-> "field_operator",
              hash |-> NoPassword]
NoLock == [failures |-> 0, until |-> -1]
NoCall == [op |-> "none", user |-> NoUser, device |-> NoDevice,
           held |-> NoAccount]

TypeOK ==
    /\ user \in [User -> Account]
    /\ device \in [Device -> Enrolment]
    /\ issued \subseteq TokenId
    /\ DOMAIN row \subseteq issued
    /\ row \in [DOMAIN row -> RefreshFamily]
    /\ invite \in [Invite -> Invitation]
    /\ addrLock \in [User -> Lockout]
    /\ acctLock \in [User -> Lockout]
    /\ call \in [Call -> Request]
    /\ chosen \in [User -> 0..MaxPassword]

\* Accounts are new, or active with a first password whose hash may predate
\* the current parameters.
Init ==
    /\ user \in [User -> {NoAccount} \cup
                   {[status |-> "active", role |-> "field_operator",
                     hash |-> [password |-> 1, current |-> c]] :
                        c \in BOOLEAN}]
    /\ device = [d \in Device |-> [owner |-> NoUser, revoked |-> FALSE]]
    /\ issued = {}
    /\ row = [t \in {} |-> NoUser]
    /\ invite = [i \in Invite |-> [user |-> NoUser, purpose |-> "reset",
                                   used |-> FALSE, ttl |-> 0]]
    /\ addrLock = [u \in User |-> NoLock]
    /\ acctLock = [u \in User |-> NoLock]
    /\ call = [c \in Call |-> NoCall]
    /\ chosen = [u \in User |-> user[u].hash.password]

-----------------------------------------------------------------------------
\* Shared steps

\* authenticate: the access token names an enrolled device of an active user.
Authenticated(u) ==
    /\ user[u].status = "active"
    /\ \E d \in Device : device[d].owner = u /\ ~device[d].revoked

\* issueTokens: a new row, in a new family unless one is named.
WithRow(rows, t, r) ==
    [x \in DOMAIN rows \cup {t} |-> IF x = t THEN r ELSE rows[x]]

NewRow(family, u, d, password) ==
    [family |-> family, user |-> u, device |-> d, rotated |-> FALSE,
     revoked |-> FALSE, ttl |-> RefreshTtl, password |-> password]

\* The rows of a set of tokens revoked, as revoke, revokeUser, revokeDevice
\* and the reuse branch of rotate each do over the rows they select.
Revoked(rows, set) ==
    [t \in DOMAIN rows |->
       IF t \in set THEN [rows[t] EXCEPT !.revoked = TRUE] ELSE rows[t]]

\* Mutant: only the presented token is revoked.
TokenAlone(t) == {t}

FamilyOf(t) == {x \in DOMAIN row : row[x].family = row[t].family}

RowsOfUser(u) == {x \in DOMAIN row : row[x].user = u}

Answered(c) == call' = [call EXCEPT ![c] = NoCall]

\* The hash of a password its owner has just chosen.
NewPassword(u) == [password |-> chosen[u] + 1, current |-> TRUE]

-----------------------------------------------------------------------------
\* Sign in

Locked(lock) == lock.until > 0

\* noteFailure: a lock that has passed restarts the count at one.
Failures(lock) == IF lock.until = 0 THEN 1 ELSE lock.failures + 1

\* Mutant: one failure more than the limit before the lock is set.
NotedTooLate(lock) ==
    [failures |-> Failures(lock),
     until |-> IF Failures(lock) > LockoutFailures THEN LockoutWindow ELSE -1]

NotedFailure(lock) ==
    [failures |-> Failures(lock),
     until |-> IF Failures(lock) >= LockoutFailures THEN LockoutWindow ELSE -1]

\* login up to its transaction: the address lock, the account row and the
\* password check, none of them under the lock.  right is whether the typed
\* password is the one behind the stored hash.
LoginBegin(c, u, d, right) ==
    /\ call[c].op = "none"
    /\ ~Locked(addrLock[u])
    /\ LET ok == right /\ user[u].status = "active"
                       /\ user[u].hash.password # 0
       IN  call' = [call EXCEPT ![c] =
             IF ok THEN [op |-> "login", user |-> u, device |-> d,
                         held |-> user[u]]
             ELSE [op |-> "failAddress", user |-> u, device |-> NoDevice,
                   held |-> [NoAccount EXCEPT !.status = user[u].status]]]
    /\ UNCHANGED <<user, device, tokens, invite, addrLock, acctLock, chosen>>

\* The first failure note; an address without an account has only this one.
NoteAddressFailure(c) ==
    /\ call[c].op = "failAddress"
    /\ LET u == call[c].user
       IN  /\ addrLock' = [addrLock EXCEPT ![u] = NotedFailure(@)]
           /\ IF call[c].held.status = "none"
              THEN Answered(c)
              ELSE call' = [call EXCEPT ![c].op = "failAccount"]
    /\ UNCHANGED <<user, device, tokens, invite, acctLock, chosen>>

NoteAccountFailure(c) ==
    /\ call[c].op = "failAccount"
    /\ acctLock' = [acctLock EXCEPT ![call[c].user] = NotedFailure(@)]
    /\ Answered(c)
    /\ UNCHANGED <<user, device, tokens, invite, addrLock, chosen>>

\* Mutant: its owner signs in on a revoked device.
EnrollableOnceMore(u, d) == device[d].owner \in {NoUser, u}

Enrollable(u, d) ==
    \/ device[d].owner = NoUser
    \/ device[d].owner = u /\ ~device[d].revoked

\* Mutant: the hash verified before the transaction is not compared again.
LoginHoldsStale(c) ==
    LET u == call[c].user
    IN  /\ user[u].status = "active"
        /\ ~Locked(acctLock[u])
        /\ Enrollable(u, call[c].device)

\* What the login transaction requires of the account it read again.
LoginHolds(c) ==
    LET u == call[c].user
    IN  /\ user[u].status = "active"
        /\ user[u].hash = call[c].held.hash
        /\ ~Locked(acctLock[u])
        /\ Enrollable(u, call[c].device)

LoginCommit(c, t) ==
    /\ call[c].op = "login"
    /\ LoginHolds(c)
    /\ t \in TokenId \ issued
    /\ LET u == call[c].user
           d == call[c].device
       IN  /\ addrLock' = [addrLock EXCEPT ![u] = NoLock]
           /\ acctLock' = [acctLock EXCEPT ![u] = NoLock]
           /\ user' = [user EXCEPT ![u].hash.current = TRUE]
           /\ device' = [device EXCEPT ![d].owner = u]
           /\ row' = WithRow(row, t,
                             NewRow(t, u, d, call[c].held.hash.password))
    /\ issued' = issued \cup {t}
    /\ Answered(c)
    /\ UNCHANGED <<invite, chosen>>

\* Any check that fails rolls the transaction back.
LoginRefused(c) ==
    /\ call[c].op = "login"
    /\ ~LoginHolds(c)
    /\ Answered(c)
    /\ UNCHANGED <<user, device, tokens, invite, addrLock, acctLock, chosen>>

-----------------------------------------------------------------------------
\* Refresh and sign out

Presentable(t) == t \in DOMAIN row /\ ~row[t].revoked /\ row[t].ttl > 0

\* Mutant: the presented row is not marked rotated.
RotateUnmarked(t, next) ==
    /\ Presentable(t)
    /\ next \in TokenId \ issued
    /\ row' = WithRow(row, next, NewRow(row[t].family, row[t].user,
                                       row[t].device, row[t].password))
    /\ issued' = issued \cup {next}
    /\ UNCHANGED <<user, device, invite, locks, call, chosen>>

\* rotateLocked: the row is marked rotated and a successor joins its family.
Rotate(t, next) ==
    /\ Presentable(t)
    /\ ~row[t].rotated
    /\ next \in TokenId \ issued
    /\ ~device[row[t].device].revoked
    /\ user[row[t].user].status = "active"
    /\ row' = WithRow([row EXCEPT ![t].rotated = TRUE], next,
                      NewRow(row[t].family, row[t].user, row[t].device,
                             row[t].password))
    /\ issued' = issued \cup {next}
    /\ UNCHANGED <<user, device, invite, locks, call, chosen>>

\* A rotated token comes back: its family is revoked, and that commits.
Reuse(t) ==
    /\ Presentable(t)
    /\ row[t].rotated
    /\ row' = Revoked(row, FamilyOf(t))
    /\ UNCHANGED <<user, device, issued, invite, locks, call, chosen>>

\* revoke: any stored token signs its family out, rotated or expired too.
SignOut(t) ==
    /\ t \in DOMAIN row
    /\ row' = Revoked(row, FamilyOf(t))
    /\ UNCHANGED <<user, device, issued, invite, locks, call, chosen>>

\* revokeDevice: the owner's rows on that device.  A device keeps its owner,
\* so that it is read before the transaction changes nothing.
RevokeDevice(d) ==
    /\ device[d].owner # NoUser
    /\ Authenticated(device[d].owner)
    /\ device' = [device EXCEPT ![d].revoked = TRUE]
    /\ row' = Revoked(row, {t \in RowsOfUser(device[d].owner) :
                              row[t].device = d})
    /\ UNCHANGED <<user, issued, invite, locks, call, chosen>>

-----------------------------------------------------------------------------
\* Passwords, invitations and account edits

\* changePassword up to its transaction; a wrong password ends it there.
ChangeBegin(c, u) ==
    /\ call[c].op = "none"
    /\ Authenticated(u)
    /\ user[u].hash.password # 0
    /\ call' = [call EXCEPT ![c] = [op |-> "change", user |-> u,
                                    device |-> NoDevice,
                                    held |-> user[u]]]
    /\ UNCHANGED <<user, device, tokens, invite, locks, chosen>>

ChangeCommit(c) ==
    /\ call[c].op = "change"
    /\ Answered(c)
    /\ LET u == call[c].user
       IN  IF user[u].status = "active" /\ user[u].hash = call[c].held.hash
           THEN /\ chosen[u] < MaxPassword
                /\ user' = [user EXCEPT ![u].hash = NewPassword(u)]
                /\ chosen' = [chosen EXCEPT ![u] = @ + 1]
                /\ row' = Revoked(row, RowsOfUser(u))
           ELSE UNCHANGED <<user, chosen, row>>
    /\ UNCHANGED <<device, issued, invite, locks>>

Unissued(i) == invite[i].user = NoUser

\* issuePasswordReset, by an operator on the command line.
IssueReset(i, u) ==
    /\ Unissued(i)
    /\ user[u].status = "active"
    /\ invite' = [invite EXCEPT ![i] = [user |-> u, purpose |-> "reset",
                                        used |-> FALSE, ttl |-> InviteTtl]]
    /\ UNCHANGED <<user, device, tokens, locks, call, chosen>>

\* createInvitedUser: the account and its invitation, in one transaction.
InviteUser(i, u, role) ==
    /\ Unissued(i)
    /\ user[u].status = "none"
    /\ user' = [user EXCEPT ![u] = [NoAccount EXCEPT !.status = "invited",
                                                     !.role = role]]
    /\ invite' = [invite EXCEPT ![i] = [user |-> u, purpose |-> "invitation",
                                        used |-> FALSE, ttl |-> InviteTtl]]
    /\ UNCHANGED <<device, tokens, locks, call, chosen>>

Redeemable(i, purpose) ==
    /\ invite[i].user # NoUser
    /\ ~invite[i].used
    /\ invite[i].purpose = purpose
    /\ invite[i].ttl > 0

\* completeReset
CompleteReset(i) ==
    /\ Redeemable(i, "reset")
    /\ LET u == invite[i].user
       IN  /\ user[u].status = "active"
           /\ chosen[u] < MaxPassword
           /\ user' = [user EXCEPT ![u].hash = NewPassword(u)]
           /\ chosen' = [chosen EXCEPT ![u] = @ + 1]
           /\ row' = Revoked(row, RowsOfUser(u))
    /\ invite' = [invite EXCEPT ![i].used = TRUE]
    /\ UNCHANGED <<device, issued, locks, call>>

\* registerAccount with an invitation.
AcceptInvitation(i) ==
    /\ Redeemable(i, "invitation")
    /\ LET u == invite[i].user
       IN  /\ user[u].status = "invited"
           /\ chosen[u] < MaxPassword
           /\ user' = [user EXCEPT ![u].hash = NewPassword(u),
                                   ![u].status = "active"]
           /\ chosen' = [chosen EXCEPT ![u] = @ + 1]
    /\ invite' = [invite EXCEPT ![i].used = TRUE]
    /\ UNCHANGED <<device, tokens, locks, call>>

\* patchUser: the whole row is read before the transaction that saves it.
Edits(account) ==
    {[account EXCEPT !.role = r] : r \in IF "role" \in Editing THEN Role ELSE {}}
    \cup {[account EXCEPT !.status = s] :
             s \in IF "status" \in Editing THEN Status \ {"none"} ELSE {}}

EditBegin(c, u) ==
    /\ call[c].op = "none"
    /\ user[u].status # "none"
    /\ \E account \in Edits(user[u]) :
         call' = [call EXCEPT ![c] = [op |-> "edit", user |-> u,
                                      device |-> NoDevice,
                                      held |-> account]]
    /\ UNCHANGED <<user, device, tokens, invite, locks, chosen>>

EditCommit(c) ==
    /\ call[c].op = "edit"
    /\ user' = [user EXCEPT ![call[c].user] = call[c].held]
    /\ Answered(c)
    /\ UNCHANGED <<device, tokens, invite, locks, chosen>>

-----------------------------------------------------------------------------
\* Time, expiry and restarts

Down(n) == IF n > 0 THEN n - 1 ELSE n

LaterLock(lock) == [lock EXCEPT !.until = Down(@)]

Tick ==
    /\ \/ \E t \in DOMAIN row : row[t].ttl > 0
       \/ \E i \in Invite : invite[i].ttl > 0
       \/ \E u \in User : Locked(addrLock[u]) \/ Locked(acctLock[u])
    /\ row' = [t \in DOMAIN row |-> [row[t] EXCEPT !.ttl = Down(@)]]
    /\ invite' = [i \in Invite |-> [invite[i] EXCEPT !.ttl = Down(@)]]
    /\ addrLock' = [u \in User |-> LaterLock(addrLock[u])]
    /\ acctLock' = [u \in User |-> LaterLock(acctLock[u])]
    /\ UNCHANGED <<user, device, issued, call, chosen>>

\* purgeTransient: an expired row goes, one of a bounded batch.
PurgeToken(t) ==
    /\ t \in DOMAIN row
    /\ row[t].ttl = 0
    /\ row' = [x \in DOMAIN row \ {t} |-> row[x]]
    /\ UNCHANGED <<user, device, issued, invite, locks, call, chosen>>

\* The connection or the process is lost before the transaction.
Abandon(c) ==
    /\ call[c].op # "none"
    /\ Answered(c)
    /\ UNCHANGED <<user, device, tokens, invite, locks, chosen>>

SignInStep(c) ==
    \/ \E u \in User, d \in Device, right \in BOOLEAN :
          LoginBegin(c, u, d, right)
    \/ NoteAddressFailure(c) \/ NoteAccountFailure(c)
    \/ \E t \in TokenId : LoginCommit(c, t)
    \/ LoginRefused(c)

TokenStep ==
    \/ \E t \in TokenId : Reuse(t) \/ SignOut(t) \/ PurgeToken(t)
    \/ \E t, next \in TokenId : Rotate(t, next)
    \/ \E d \in Device : RevokeDevice(d)

AccountStep(c) ==
    \/ \E u \in User : ChangeBegin(c, u) \/ EditBegin(c, u)
    \/ ChangeCommit(c) \/ EditCommit(c)

InviteStep(i) ==
    \/ \E u \in User : IssueReset(i, u)
    \/ \E u \in User, role \in Role : InviteUser(i, u, role)
    \/ CompleteReset(i) \/ AcceptInvitation(i)

Next ==
    \/ \E c \in Call : SignInStep(c) \/ AccountStep(c) \/ Abandon(c)
    \/ TokenStep
    \/ \E i \in Invite : InviteStep(i)
    \/ Tick

Spec == Init /\ [][Next]_vars

-----------------------------------------------------------------------------
\* Properties

\* A family is a chain: at most one of its tokens has not been rotated, so a
\* token presented a second time is always recognised as reused.
OneLiveTokenPerFamily ==
    \A s, t \in DOMAIN row :
        (row[s].family = row[t].family /\ ~row[s].rotated /\ ~row[t].rotated)
            => s = t

\* A family is revoked as a whole: after a reuse, a sign out, a device
\* revocation or a new password no stored token of the family, rotated or
\* its live successor, is left that could be refreshed (BE-SEC-03).
FamilyRevokedTogether ==
    \A s, t \in DOMAIN row :
        row[s].family = row[t].family => (row[s].revoked <=> row[t].revoked)

\* No session survives on a revoked device, or is opened on one by a sign in
\* whose checks began before the revocation; and a session's device is
\* enrolled to the session's own user.
SessionsOnOwnDevices ==
    \A t \in DOMAIN row :
        /\ device[row[t].device].owner = row[t].user
        /\ device[row[t].device].revoked => row[t].revoked

\* While no account edit is in flight, an unrevoked session was opened with
\* the account's present password: a change or a reset ends every other, and
\* a sign in that verified the old password cannot commit after it.
SessionsFollowPassword ==
    \A t \in DOMAIN row :
        ~row[t].revoked => row[t].password = user[row[t].user].hash.password

\* The wrong passwords counted against an address exceed the limit only by
\* the other requests that were already in flight when it locked.
WrongPasswordsBounded ==
    \A u \in User :
        addrLock[u].failures <= LockoutFailures - 1 + Cardinality(Call)

\* RUNBOOK "Password reset": the account owner submits the link with the new
\* password.  A password stays the one its owner chose last.
PasswordSticks ==
    \A u \in User : user[u].hash.password = chosen[u]

=============================================================================
