---------------------------- MODULE SessionProofs ----------------------------
(***************************************************************************)
(* Sessions, for any number of accounts, devices, tokens and requests in   *)
(* flight.                                                                 *)
(*                                                                         *)
(* The backend, whatever columns account edits touch: a refresh family has *)
(* at most one live token, is revoked as a whole and never outlives its    *)
(* device; a password ends the sessions before it; and guessing passwords  *)
(* is bounded.                                                             *)
(*                                                                         *)
(* The device, whatever requests are lost or late: it only takes steps of  *)
(* the backend's specification, which therefore keeps all it promises;     *)
(* only a lost answer costs the device its session; a handled sign out     *)
(* holds; and the enrolment shown matches the token held.                  *)
(***************************************************************************)
EXTENDS DeviceSession, FiniteSetTheorems, TLAPS

-----------------------------------------------------------------------------
(* The backend: AccountSessions *)

\* A family name is a token handed out, so a fresh token starts a new family.
FamiliesIssued == \A t \in DOMAIN row : row[t].family \in issued

\* A family stays with one account on one device.
FamiliesUniform ==
    \A s, t \in DOMAIN row :
        row[s].family = row[t].family
            => row[s].user = row[t].user /\ row[s].device = row[t].device

\* Only an enrolled device is ever revoked.
UnownedNotRevoked ==
    \A d \in Device : device[d].owner = NoUser => ~device[d].revoked

\* What holds of the refresh rows alone.
FamilyInv ==
    /\ DOMAIN row \subseteq issued
    /\ row \in [DOMAIN row -> RefreshFamily]
    /\ FamiliesIssued
    /\ FamiliesUniform
    /\ OneLiveTokenPerFamily
    /\ FamilyRevokedTogether

DeviceInv == SessionsOnOwnDevices /\ UnownedNotRevoked

IInv == TypeOK /\ FamilyInv /\ DeviceInv

\* Revoking a set of rows that holds a family whole or not at all keeps the
\* families as they are (the loops of revoke, revokeUser, revokeDevice and
\* the reuse branch of rotateLocked).
LEMMA RevocationKeepsFamilies ==
    ASSUME FamilyInv, NEW S,
           \A s, t \in DOMAIN row :
               row[s].family = row[t].family => (s \in S <=> t \in S),
           row' = Revoked(row, S), issued' = issued
    PROVE  FamilyInv' /\ DOMAIN row' = DOMAIN row
<1>1. DOMAIN row' = DOMAIN row
  BY DEF Revoked
<1>2. \A t \in DOMAIN row :
        row'[t] = IF t \in S THEN [row[t] EXCEPT !.revoked = TRUE] ELSE row[t]
  BY DEF Revoked
<1>3. \A t \in DOMAIN row :
        /\ row'[t] \in RefreshFamily
        /\ row'[t].family = row[t].family /\ row'[t].user = row[t].user
        /\ row'[t].device = row[t].device /\ row'[t].rotated = row[t].rotated
        /\ row'[t].revoked <=> (t \in S \/ row[t].revoked)
  <2> TAKE t \in DOMAIN row
  <2>1. row[t] \in RefreshFamily
    BY DEF FamilyInv
  <2>2. CASE t \in S
    <3>1. row'[t] = [row[t] EXCEPT !.revoked = TRUE]
      BY <1>2, <2>2
    <3> QED
      BY <2>1, <2>2, <3>1 DEF RefreshFamily
  <2>3. CASE t \notin S
    <3>1. row'[t] = row[t]
      BY <1>2, <2>3
    <3> QED
      BY <2>1, <2>3, <3>1
  <2> QED
    BY <2>2, <2>3
<1>4. row' \in [DOMAIN row' -> RefreshFamily]
  BY <1>1, <1>3 DEF Revoked
<1>5. FamiliesIssued' /\ FamiliesUniform'
  BY <1>1, <1>3 DEF FamilyInv, FamiliesIssued, FamiliesUniform
<1>6. OneLiveTokenPerFamily'
  BY <1>1, <1>3 DEF FamilyInv, OneLiveTokenPerFamily
<1>7. FamilyRevokedTogether'
  BY <1>1, <1>3 DEF FamilyInv, FamilyRevokedTogether
<1> QED
  BY <1>1, <1>4, <1>5, <1>6, <1>7 DEF FamilyInv


\* A sign in adds a family of one row, unrevoked (issueTokens).
LEMMA NewFamilyKeepsFamilies ==
    ASSUME FamilyInv, NEW t \in TokenId \ issued, NEW u \in User,
           NEW d \in Device, NEW p \in 0..MaxPassword,
           row' = WithRow(row, t, NewRow(t, u, d, p)),
           issued' = issued \cup {t}
    PROVE  FamilyInv'
<1>1. NewRow(t, u, d, p) \in RefreshFamily
  BY SessionConstants DEF NewRow, RefreshFamily
<1>2. /\ t \notin DOMAIN row
      /\ DOMAIN row' = DOMAIN row \cup {t}
      /\ row'[t] = NewRow(t, u, d, p)
      /\ \A x \in DOMAIN row : row'[x] = row[x] /\ row[x].family # t
  BY DEF FamilyInv, WithRow, FamiliesIssued
<1>3. NewRow(t, u, d, p).family = t
  BY DEF NewRow
<1>4. row' \in [DOMAIN row' -> RefreshFamily] /\ DOMAIN row' \subseteq issued'
  BY <1>1, <1>2 DEF FamilyInv, WithRow
<1>5. FamiliesIssued' /\ FamiliesUniform'
  BY <1>2, <1>3 DEF FamilyInv, FamiliesIssued, FamiliesUniform
<1>6. OneLiveTokenPerFamily' /\ FamilyRevokedTogether'
  BY <1>2, <1>3 DEF FamilyInv, OneLiveTokenPerFamily, FamilyRevokedTogether
<1> QED
  BY <1>4, <1>5, <1>6 DEF FamilyInv

\* A rotation marks the one live token and adds its successor (rotateLocked).
LEMMA RotationKeepsFamilies ==
    ASSUME FamilyInv, NEW t \in TokenId, NEW next \in TokenId, Rotate(t, next)
    PROVE  FamilyInv'
<1> DEFINE r == row[t]
           new == NewRow(r.family, r.user, r.device, r.password)
<1>1. /\ t \in DOMAIN row /\ next \notin DOMAIN row /\ next # t
      /\ r \in RefreshFamily /\ ~r.revoked /\ ~r.rotated
      /\ issued' = issued \cup {next}
  BY DEF Rotate, Presentable, FamilyInv
<1>2. /\ new \in RefreshFamily
      /\ new.family = r.family /\ new.user = r.user /\ new.device = r.device
      /\ ~new.rotated /\ ~new.revoked
  BY <1>1, SessionConstants DEF NewRow, RefreshFamily
<1> DEFINE old == [r EXCEPT !.rotated = TRUE]
<1>3. /\ old \in RefreshFamily
      /\ old.family = r.family /\ old.user = r.user /\ old.device = r.device
      /\ old.rotated /\ (old.revoked <=> r.revoked)
  BY <1>1 DEF RefreshFamily
<1>4. /\ DOMAIN row' = DOMAIN row \cup {next}
      /\ row'[next] = new
      /\ row'[t] = old
      /\ \A x \in DOMAIN row \ {t} : row'[x] = row[x]
  BY <1>1 DEF Rotate, WithRow
<1> HIDE DEF r, new, old
<1>5. row' \in [DOMAIN row' -> RefreshFamily] /\ DOMAIN row' \subseteq issued'
  <2>1. \A x \in DOMAIN row' : row'[x] \in RefreshFamily
    BY <1>2, <1>3, <1>4 DEF FamilyInv
  <2>2. row' = [x \in DOMAIN row' |-> row'[x]]
    BY DEF Rotate, WithRow
  <2> QED
    BY <1>1, <1>4, <2>1, <2>2 DEF FamilyInv
<1>6. FamiliesIssued' /\ FamiliesUniform'
  BY <1>1, <1>2, <1>3, <1>4 DEF FamilyInv, FamiliesIssued, FamiliesUniform, r
<1>7. OneLiveTokenPerFamily'
  BY <1>1, <1>2, <1>3, <1>4 DEF FamilyInv, OneLiveTokenPerFamily, r
<1>8. FamilyRevokedTogether'
  BY <1>1, <1>2, <1>3, <1>4 DEF FamilyInv, FamilyRevokedTogether, r
<1> QED
  BY <1>5, <1>6, <1>7, <1>8 DEF FamilyInv

-----------------------------------------------------------------------------
\* Types

\* The part of TypeOK that is not about the refresh rows.
AccountTypes ==
    /\ user \in [User -> Account]
    /\ device \in [Device -> Enrolment]
    /\ issued \subseteq TokenId
    /\ invite \in [Invite -> Invitation]
    /\ addrLock \in [User -> Lockout]
    /\ acctLock \in [User -> Lockout]
    /\ call \in [Call -> Request]
    /\ chosen \in [User -> 0..MaxPassword]

\* A lock stays well formed as failures are noted and time passes.
LEMMA LockTypes ==
    ASSUME NEW lock \in Lockout
    PROVE  /\ NotedFailure(lock) \in Lockout
           /\ LaterLock(lock) \in Lockout
<1>1. /\ lock.failures \in Nat /\ lock.until \in -1..LockoutWindow
      /\ LockoutWindow \in Nat \ {0} /\ LockoutFailures \in Nat \ {0}
  BY SessionConstants DEF Lockout
<1>2. Failures(lock) \in Nat
  BY <1>1 DEF Failures
<1>3. NotedFailure(lock) \in Lockout
  BY <1>1, <1>2 DEF NotedFailure, Lockout
<1>4. Down(lock.until) \in -1..LockoutWindow
  BY <1>1 DEF Down
<1>5. LaterLock(lock) \in Lockout
  BY <1>1, <1>4 DEF LaterLock, Lockout
<1> QED
  BY <1>3, <1>5

\* The fixed values are of their types.
LEMMA ConstantTypes == NoPassword \in Hash /\ NoAccount \in Account
                         /\ NoCall \in Request /\ NoLock \in Lockout
<1>1. NoPassword \in Hash
  BY SessionConstants DEF NoPassword, Hash
<1>2. NoAccount \in Account
  BY <1>1 DEF NoAccount, Account, Status, Role
<1>3. NoLock \in Lockout
  BY SessionConstants DEF NoLock, Lockout
<1> QED
  BY <1>1, <1>2, <1>3 DEF NoCall, Request, Operation

LEMMA SignInTypes ==
    ASSUME AccountTypes, NEW c \in Call, SignInStep(c)
    PROVE  AccountTypes'
<1> USE DEF AccountTypes
<1>0. call[c] \in Request
  OBVIOUS
<1>a. ASSUME NEW r \in Request, call' = [call EXCEPT ![c] = r]
      PROVE  call' \in [Call -> Request]
  BY <1>a
<1>b. ASSUME Answered(c)
      PROVE  call' \in [Call -> Request]
  BY <1>b, ConstantTypes DEF Answered
<1>1. ASSUME NEW u \in User, NEW d \in Device, NEW right \in BOOLEAN,
             LoginBegin(c, u, d, right)
      PROVE  AccountTypes'
  <2>1. [op |-> "login", user |-> u, device |-> d, held |-> user[u]]
          \in Request
    BY DEF Request, Operation
  <2>2. [NoAccount EXCEPT !.status = user[u].status] \in Account
    <3>1. user[u] \in Account
      OBVIOUS
    <3>2. user[u].status \in Status
      BY <3>1 DEF Account
    <3> QED
      BY <3>2, ConstantTypes DEF Account
  <2>3. [op |-> "failAddress", user |-> u, device |-> NoDevice,
         held |-> [NoAccount EXCEPT !.status = user[u].status]] \in Request
    BY <2>2 DEF Request, Operation
  <2>4. call' \in [Call -> Request]
    BY <1>1, <2>1, <2>3 DEF LoginBegin
  <2> QED
    BY <1>1, <2>4 DEF LoginBegin, tokens
<1>2. ASSUME NoteAddressFailure(c)
      PROVE  AccountTypes'
  <2>1. [call[c] EXCEPT !.op = "failAccount"] \in Request
    BY <1>0 DEF Request, Operation
  <2>2. call' \in [Call -> Request]
    BY <1>2, <1>b, <2>1 DEF NoteAddressFailure
  <2>3. \A w \in User : NotedFailure(addrLock[w]) \in Lockout
    BY LockTypes
  <2>4. addrLock' \in [User -> Lockout]
    <3>1. addrLock' = [addrLock EXCEPT ![call[c].user] =
                          NotedFailure(addrLock[call[c].user])]
      BY <1>2 DEF NoteAddressFailure
    <3> QED
      BY <2>3, <3>1
  <2> QED
    BY <1>2, <2>2, <2>4 DEF NoteAddressFailure, tokens
<1>3. ASSUME NoteAccountFailure(c)
      PROVE  AccountTypes'
  <2>1. \A w \in User : NotedFailure(acctLock[w]) \in Lockout
    BY LockTypes
  <2>2. acctLock' \in [User -> Lockout]
    BY <1>3, <2>1 DEF NoteAccountFailure
  <2> QED
    BY <1>3, <1>b, <2>2 DEF NoteAccountFailure, tokens
<1>4. ASSUME NEW t \in TokenId, LoginCommit(c, t)
      PROVE  AccountTypes'
  <2> DEFINE u == call[c].user
             d == call[c].device
  <2>1. u \in User \cup {NoUser} /\ d \in Device \cup {NoDevice}
    BY <1>0 DEF Request
  <2>2. addrLock' \in [User -> Lockout] /\ acctLock' \in [User -> Lockout]
    <3>1. /\ addrLock' = [addrLock EXCEPT ![u] = NoLock]
          /\ acctLock' = [acctLock EXCEPT ![u] = NoLock]
      BY <1>4 DEF LoginCommit
    <3> QED
      BY <3>1, ConstantTypes
  <2>3. user' \in [User -> Account]
    BY <1>4, ZenonT(40) DEF LoginCommit, Account, Hash
  <2>4. device' \in [Device -> Enrolment]
    BY <1>4, <2>1 DEF LoginCommit, Enrolment
  <2>5. issued' \subseteq TokenId
    BY <1>4 DEF LoginCommit
  <2> QED
    BY <1>4, <1>b, <2>2, <2>3, <2>4, <2>5 DEF LoginCommit
<1>5. ASSUME LoginRefused(c)
      PROVE  AccountTypes'
  BY <1>5, <1>b DEF LoginRefused, tokens
<1> QED
  BY <1>1, <1>2, <1>3, <1>4, <1>5 DEF SignInStep


LEMMA TokenTypes ==
    ASSUME AccountTypes, TokenStep
    PROVE  AccountTypes'
<1> USE DEF AccountTypes
<1>1. ASSUME NEW t \in TokenId, Reuse(t) \/ SignOut(t) \/ PurgeToken(t)
      PROVE  AccountTypes'
  BY <1>1 DEF Reuse, SignOut, PurgeToken, locks
<1>2. ASSUME NEW t \in TokenId, NEW next \in TokenId, Rotate(t, next)
      PROVE  AccountTypes'
  BY <1>2 DEF Rotate, locks
<1>3. ASSUME NEW d \in Device, RevokeDevice(d)
      PROVE  AccountTypes'
  <2>1. device' \in [Device -> Enrolment]
    BY <1>3 DEF RevokeDevice, Enrolment
  <2> QED
    BY <1>3, <2>1 DEF RevokeDevice, locks
<1> QED
  BY <1>1, <1>2, <1>3 DEF TokenStep

\* A password chosen under the bound is a hash.
LEMMA NewPasswordType ==
    ASSUME AccountTypes, NEW u \in User, chosen[u] < MaxPassword
    PROVE  NewPassword(u) \in Hash /\ chosen[u] + 1 \in 0..MaxPassword
<1>1. chosen[u] \in 0..MaxPassword /\ MaxPassword \in Nat
  BY SessionConstants DEF AccountTypes
<1> QED
  BY <1>1 DEF NewPassword, Hash

LEMMA AccountStepTypes ==
    ASSUME AccountTypes, NEW c \in Call, AccountStep(c) \/ Abandon(c)
    PROVE  AccountTypes'
<1> USE DEF AccountTypes
<1>0. call[c] \in Request
  OBVIOUS
<1>b. ASSUME Answered(c)
      PROVE  call' \in [Call -> Request]
  BY <1>b, ConstantTypes DEF Answered
<1>1. ASSUME NEW u \in User, ChangeBegin(c, u)
      PROVE  AccountTypes'
  <2>1. [op |-> "change", user |-> u, device |-> NoDevice,
         held |-> user[u]] \in Request
    BY DEF Request, Operation
  <2>2. call' \in [Call -> Request]
    BY <1>1, <2>1 DEF ChangeBegin
  <2> QED
    BY <1>1, <2>2 DEF ChangeBegin, tokens, locks
<1>2. ASSUME NEW u \in User, EditBegin(c, u)
      PROVE  AccountTypes'
  <2>1. \A account \in Edits(user[u]) : account \in Account
    BY DEF Edits, Account
  <2>2. PICK account \in Edits(user[u]) :
            call' = [call EXCEPT ![c] = [op |-> "edit", user |-> u,
                                         device |-> NoDevice,
                                         held |-> account]]
    BY <1>2 DEF EditBegin
  <2>3. [op |-> "edit", user |-> u, device |-> NoDevice,
         held |-> account] \in Request
    BY <2>1 DEF Request, Operation
  <2>4. call' \in [Call -> Request]
    BY <2>2, <2>3
  <2> QED
    BY <1>2, <2>4 DEF EditBegin, tokens, locks
<1>3. ASSUME ChangeCommit(c)
      PROVE  AccountTypes'
  <2> DEFINE u == call[c].user
  <2>1. CASE user[u].status = "active" /\ user[u].hash = call[c].held.hash
    <3>1. /\ chosen[u] < MaxPassword
          /\ user' = [user EXCEPT ![u].hash = NewPassword(u)]
          /\ chosen' = [chosen EXCEPT ![u] = @ + 1]
      BY <1>3, <2>1 DEF ChangeCommit
    <3>2. \A w \in User : chosen[w] < MaxPassword =>
             NewPassword(w) \in Hash /\ chosen[w] + 1 \in 0..MaxPassword
      BY NewPasswordType
    <3>3. user' \in [User -> Account]
      BY <3>1, <3>2 DEF Account
    <3>4. chosen' \in [User -> 0..MaxPassword]
      BY <3>1, <3>2
    <3> QED
      BY <1>3, <1>b, <3>3, <3>4 DEF ChangeCommit, locks
  <2>2. CASE ~(user[u].status = "active" /\ user[u].hash = call[c].held.hash)
    BY <1>3, <1>b, <2>2 DEF ChangeCommit, locks
  <2> QED
    BY <2>1, <2>2
<1>4. ASSUME EditCommit(c)
      PROVE  AccountTypes'
  <2>1. call[c].held \in Account
    BY <1>0 DEF Request
  <2>2. user' \in [User -> Account]
    BY <1>4, <2>1 DEF EditCommit
  <2> QED
    BY <1>4, <1>b, <2>2 DEF EditCommit, tokens, locks
<1>5. ASSUME Abandon(c)
      PROVE  AccountTypes'
  BY <1>5, <1>b DEF Abandon, tokens, locks
<1> QED
  BY <1>1, <1>2, <1>3, <1>4, <1>5 DEF AccountStep


LEMMA InviteStepTypes ==
    ASSUME AccountTypes, NEW i \in Invite, InviteStep(i)
    PROVE  AccountTypes'
<1> USE DEF AccountTypes
<1>0. invite[i] \in Invitation
  OBVIOUS
<1>u. [invite[i] EXCEPT !.used = TRUE] \in Invitation
  BY <1>0 DEF Invitation
<1>1. ASSUME NEW u \in User, IssueReset(i, u)
      PROVE  AccountTypes'
  <2>1. invite' \in [Invite -> Invitation]
    BY <1>1, SessionConstants DEF IssueReset, Invitation
  <2> QED
    BY <1>1, <2>1 DEF IssueReset, tokens, locks
<1>2. ASSUME NEW u \in User, NEW role \in Role, InviteUser(i, u, role)
      PROVE  AccountTypes'
  <2>1. invite' \in [Invite -> Invitation]
    BY <1>2, SessionConstants DEF InviteUser, Invitation
  <2>2. [NoAccount EXCEPT !.status = "invited", !.role = role] \in Account
    BY ConstantTypes DEF Account, Status
  <2>3. user' \in [User -> Account]
    BY <1>2, <2>2 DEF InviteUser
  <2> QED
    BY <1>2, <2>1, <2>3 DEF InviteUser, tokens, locks
<1> DEFINE v == invite[i].user
<1>p. ASSUME chosen[v] < MaxPassword,
             chosen' = [chosen EXCEPT ![v] = @ + 1]
      PROVE  /\ chosen' \in [User -> 0..MaxPassword]
             /\ v \in User => NewPassword(v) \in Hash
  <2>1. \A w \in User : chosen[w] < MaxPassword =>
           NewPassword(w) \in Hash /\ chosen[w] + 1 \in 0..MaxPassword
    BY NewPasswordType
  <2> QED
    BY <1>p, <2>1
<1>3. ASSUME CompleteReset(i)
      PROVE  AccountTypes'
  <2>1. chosen' \in [User -> 0..MaxPassword]
    BY <1>3, <1>p DEF CompleteReset
  <2>2. user' \in [User -> Account]
    <3>1. user' = [user EXCEPT ![v].hash = NewPassword(v)]
      BY <1>3 DEF CompleteReset
    <3>2. v \in User => NewPassword(v) \in Hash
      BY <1>3, <1>p DEF CompleteReset
    <3> QED
      BY <3>1, <3>2 DEF Account
  <2>3. invite' \in [Invite -> Invitation]
    BY <1>3, <1>u DEF CompleteReset
  <2> QED
    BY <1>3, <2>1, <2>2, <2>3 DEF CompleteReset, locks
<1>4. ASSUME AcceptInvitation(i)
      PROVE  AccountTypes'
  <2>1. chosen' \in [User -> 0..MaxPassword]
    BY <1>4, <1>p DEF AcceptInvitation
  <2>2. user' \in [User -> Account]
    <3>1. user' = [user EXCEPT ![v].hash = NewPassword(v),
                               ![v].status = "active"]
      BY <1>4 DEF AcceptInvitation
    <3>2. v \in User => NewPassword(v) \in Hash
      BY <1>4, <1>p DEF AcceptInvitation
    <3> QED
      BY <3>1, <3>2, ZenonT(40) DEF Account, Status
  <2>3. invite' \in [Invite -> Invitation]
    BY <1>4, <1>u DEF AcceptInvitation
  <2> QED
    BY <1>4, <2>1, <2>2, <2>3 DEF AcceptInvitation, tokens, locks
<1> QED
  BY <1>1, <1>2, <1>3, <1>4 DEF InviteStep

LEMMA TickTypes ==
    ASSUME AccountTypes, Tick
    PROVE  AccountTypes'
<1> USE DEF AccountTypes
<1>1. invite' \in [Invite -> Invitation]
  <2>1. \A i \in Invite : [invite[i] EXCEPT !.ttl = Down(@)] \in Invitation
    BY SessionConstants DEF Invitation, Down
  <2> QED
    BY <2>1 DEF Tick
<1>2. \A u \in User : /\ LaterLock(addrLock[u]) \in Lockout
                      /\ LaterLock(acctLock[u]) \in Lockout
  BY LockTypes
<1>3. addrLock' \in [User -> Lockout] /\ acctLock' \in [User -> Lockout]
  BY <1>2 DEF Tick
<1> QED
  BY <1>1, <1>3 DEF Tick

LEMMA StepTypes == ASSUME AccountTypes, [Next]_vars PROVE AccountTypes'
<1>1. CASE Next
  BY <1>1, SignInTypes, AccountStepTypes, TokenTypes, InviteStepTypes,
     TickTypes DEF Next
<1>2. CASE UNCHANGED vars
  BY <1>2 DEF vars, AccountTypes
<1> QED
  BY <1>1, <1>2


-----------------------------------------------------------------------------
\* The families and the devices

\* Rows leave only by the purge, which keeps the rest as they were.
LEMMA PurgeKeepsFamilies ==
    ASSUME FamilyInv, NEW t \in TokenId, PurgeToken(t)
    PROVE  FamilyInv' /\ DOMAIN row' \subseteq DOMAIN row
             /\ \A x \in DOMAIN row' : row'[x] = row[x]
<1>1. /\ DOMAIN row' = DOMAIN row \ {t}
      /\ \A x \in DOMAIN row' : row'[x] = row[x]
      /\ issued' = issued
      /\ row' = [x \in DOMAIN row' |-> row'[x]]
  BY DEF PurgeToken
<1>2. row' \in [DOMAIN row' -> RefreshFamily]
  BY <1>1 DEF FamilyInv
<1> QED
  BY <1>1, <1>2 DEF FamilyInv, FamiliesIssued, FamiliesUniform,
                    OneLiveTokenPerFamily, FamilyRevokedTogether

\* The clock changes no more of a row than its remaining life.
LEMMA TickKeepsFamilies ==
    ASSUME FamilyInv, Tick
    PROVE  /\ FamilyInv'
           /\ DOMAIN row' = DOMAIN row
           /\ \A t \in DOMAIN row : /\ row'[t].user = row[t].user
                                    /\ row'[t].device = row[t].device
                                    /\ row'[t].revoked <=> row[t].revoked
<1>1. /\ DOMAIN row' = DOMAIN row /\ issued' = issued
      /\ row' = [t \in DOMAIN row |-> [row[t] EXCEPT !.ttl = Down(@)]]
  BY DEF Tick
<1>2. \A t \in DOMAIN row :
        /\ row'[t] \in RefreshFamily
        /\ row'[t].family = row[t].family /\ row'[t].user = row[t].user
        /\ row'[t].device = row[t].device
        /\ row'[t].rotated <=> row[t].rotated
        /\ row'[t].revoked <=> row[t].revoked
  <2> TAKE t \in DOMAIN row
  <2>1. row[t] \in RefreshFamily
    BY DEF FamilyInv
  <2>2. Down(row[t].ttl) \in 0..RefreshTtl
    BY <2>1, SessionConstants DEF RefreshFamily, Down
  <2> QED
    BY <1>1, <2>1, <2>2 DEF RefreshFamily
<1>3. row' \in [DOMAIN row' -> RefreshFamily]
  BY <1>1, <1>2
<1> QED
  BY <1>1, <1>2, <1>3 DEF FamilyInv, FamiliesIssued, FamiliesUniform,
                          OneLiveTokenPerFamily, FamilyRevokedTogether

\* Revoking whole families keeps every session on its own device.
LEMMA RevocationKeepsDevices ==
    ASSUME FamilyInv, DeviceInv, NEW S, row' = Revoked(row, S),
           device' = device
    PROVE  DeviceInv'
<1>1. \A t \in DOMAIN row : row[t] \in RefreshFamily
  BY DEF FamilyInv
<1>2. /\ DOMAIN row' = DOMAIN row
      /\ \A t \in DOMAIN row :
           /\ row'[t].user = row[t].user /\ row'[t].device = row[t].device
           /\ row[t].revoked => row'[t].revoked
  BY <1>1 DEF Revoked, RefreshFamily
<1> QED
  BY <1>2 DEF DeviceInv, SessionsOnOwnDevices, UnownedNotRevoked


\* A step that leaves devices and rows alone keeps what is said of them.
LEMMA SameSessions ==
    ASSUME FamilyInv, DeviceInv, UNCHANGED <<device, issued, row>>
    PROVE  FamilyInv' /\ DeviceInv'
BY DEF FamilyInv, FamiliesIssued, FamiliesUniform, OneLiveTokenPerFamily,
       FamilyRevokedTogether, DeviceInv, SessionsOnOwnDevices,
       UnownedNotRevoked

LEMMA SignInKeepsSessions ==
    ASSUME IInv, NEW c \in Call, SignInStep(c)
    PROVE  FamilyInv' /\ DeviceInv'
<1> USE DEF IInv
<1>1. ASSUME NEW t \in TokenId, LoginCommit(c, t)
      PROVE  FamilyInv' /\ DeviceInv'
  <2> DEFINE u == call[c].user
             d == call[c].device
             p == call[c].held.hash.password
             new == NewRow(t, u, d, p)
  <2>1. /\ call[c] \in Request /\ call[c].op = "login"
        /\ device \in [Device -> Enrolment]
    BY <1>1 DEF LoginCommit, TypeOK
  <2>2. u \in User /\ d \in Device /\ p \in 0..MaxPassword
    BY <2>1 DEF Request, Operation, Account, Hash
  <2>3. FamilyInv'
    BY <1>1, <2>2, NewFamilyKeepsFamilies DEF LoginCommit
  \* The device is the user's, or nobody's and then without a session.
  <2>4. /\ device' = [device EXCEPT ![d].owner = u]
        /\ device[d].owner = NoUser \/ device[d].owner = u
        /\ ~device[d].revoked
    BY <1>1, <2>2 DEF LoginCommit, LoginHolds, Enrollable, DeviceInv,
                      UnownedNotRevoked
  <2>5. \A e \in Device :
          /\ device'[e].owner = IF e = d THEN u ELSE device[e].owner
          /\ device'[e].revoked <=> device[e].revoked
    BY <2>1, <2>2, <2>4 DEF Enrolment
  <2>6. /\ DOMAIN row' = DOMAIN row \cup {t} /\ row'[t] = new
        /\ t \notin DOMAIN row
        /\ \A x \in DOMAIN row : row'[x] = row[x]
    BY <1>1 DEF LoginCommit, WithRow, FamilyInv
  <2>7. new.user = u /\ new.device = d
    BY DEF NewRow
  <2>8. \A x \in DOMAIN row : row[x].user \in User /\ row[x].device \in Device
    BY DEF FamilyInv, RefreshFamily
  <2> HIDE DEF u, d, p, new
  <2>9. SessionsOnOwnDevices'
    BY <2>2, <2>4, <2>5, <2>6, <2>7, <2>8, SessionConstants
    DEF DeviceInv, SessionsOnOwnDevices
  <2>10. UnownedNotRevoked'
    BY <2>2, <2>4, <2>5 DEF DeviceInv, UnownedNotRevoked
  <2> QED
    BY <2>3, <2>9, <2>10 DEF DeviceInv
<1> QED
  BY <1>1, SameSessions DEF SignInStep, LoginBegin, NoteAddressFailure,
     NoteAccountFailure, LoginRefused, tokens

LEMMA TokenStepKeepsSessions ==
    ASSUME IInv, TokenStep
    PROVE  FamilyInv' /\ DeviceInv'
<1> USE DEF IInv
<1>1. ASSUME NEW t \in TokenId, Reuse(t) \/ SignOut(t)
      PROVE  FamilyInv' /\ DeviceInv'
  <2>1. /\ row' = Revoked(row, FamilyOf(t))
        /\ issued' = issued /\ device' = device
    BY <1>1 DEF Reuse, SignOut
  <2>2. \A x, y \in DOMAIN row : row[x].family = row[y].family
           => (x \in FamilyOf(t) <=> y \in FamilyOf(t))
    BY DEF FamilyOf
  <2> QED
    BY <2>1, <2>2, RevocationKeepsFamilies, RevocationKeepsDevices
<1>2. ASSUME NEW t \in TokenId, PurgeToken(t)
      PROVE  FamilyInv' /\ DeviceInv'
  <2>1. DeviceInv'
    BY <1>2, PurgeKeepsFamilies DEF PurgeToken, DeviceInv,
       SessionsOnOwnDevices, UnownedNotRevoked
  <2> QED
    BY <1>2, <2>1, PurgeKeepsFamilies
<1>3. ASSUME NEW t \in TokenId, NEW next \in TokenId, Rotate(t, next)
      PROVE  FamilyInv' /\ DeviceInv'
  <2> DEFINE new == NewRow(row[t].family, row[t].user, row[t].device,
                           row[t].password)
             old == [row[t] EXCEPT !.rotated = TRUE]
  <2>1. /\ t \in DOMAIN row /\ row[t] \in RefreshFamily
        /\ DOMAIN row' = DOMAIN row \cup {next}
        /\ next \notin DOMAIN row
        /\ row'[next] = new /\ row'[t] = old
        /\ \A x \in DOMAIN row \ {t} : row'[x] = row[x]
        /\ ~device[row[t].device].revoked
        /\ device' = device
    BY <1>3 DEF Rotate, Presentable, WithRow, FamilyInv
  <2>2. /\ new.user = row[t].user /\ new.device = row[t].device
        /\ old.user = row[t].user /\ old.device = row[t].device
        /\ old.revoked <=> row[t].revoked
    BY <2>1 DEF NewRow, RefreshFamily
  <2> HIDE DEF new, old
  <2>3. DeviceInv'
    BY <2>1, <2>2 DEF DeviceInv, SessionsOnOwnDevices, UnownedNotRevoked
  <2> QED
    BY <1>3, <2>3, RotationKeepsFamilies
<1>4. ASSUME NEW d \in Device, RevokeDevice(d)
      PROVE  FamilyInv' /\ DeviceInv'
  <2> DEFINE S == {t \in RowsOfUser(device[d].owner) : row[t].device = d}
  <2>1. /\ row' = Revoked(row, S) /\ issued' = issued
        /\ device' = [device EXCEPT ![d].revoked = TRUE]
        /\ device[d].owner # NoUser
        /\ device \in [Device -> Enrolment]
    BY <1>4 DEF RevokeDevice, TypeOK
  <2>2. \A x \in DOMAIN row : row[x].device = d => x \in S
    BY DEF RowsOfUser, DeviceInv, SessionsOnOwnDevices
  <2>3. \A x, y \in DOMAIN row :
          row[x].family = row[y].family => (x \in S <=> y \in S)
    BY DEF RowsOfUser, FamilyInv, FamiliesUniform
  <2>4. FamilyInv' /\ DOMAIN row' = DOMAIN row
    BY <2>1, <2>3, RevocationKeepsFamilies
  <2>5. \A x \in DOMAIN row :
          /\ row'[x].user = row[x].user /\ row'[x].device = row[x].device
          /\ row[x].revoked \/ x \in S => row'[x].revoked
    BY <2>1 DEF Revoked, FamilyInv, RefreshFamily
  <2>6. \A e \in Device :
          /\ device'[e].owner = device[e].owner
          /\ device'[e].revoked <=> (device[e].revoked \/ e = d)
    BY <2>1 DEF Enrolment
  <2>7. \A x \in DOMAIN row : row[x].device \in Device
    BY DEF FamilyInv, RefreshFamily
  <2> HIDE DEF S
  <2>8. SessionsOnOwnDevices'
    BY <2>2, <2>4, <2>5, <2>6, <2>7 DEF DeviceInv, SessionsOnOwnDevices
  <2>9. UnownedNotRevoked'
    BY <2>1, <2>6 DEF DeviceInv, UnownedNotRevoked
  <2> QED
    BY <2>4, <2>8, <2>9 DEF DeviceInv
<1> QED
  BY <1>1, <1>2, <1>3, <1>4 DEF TokenStep


\* A new password revokes every family of its account.
LEMMA RevokingUserKeepsSessions ==
    ASSUME IInv, NEW u, row' = Revoked(row, RowsOfUser(u)),
           issued' = issued, device' = device
    PROVE  FamilyInv' /\ DeviceInv'
<1>1. \A x, y \in DOMAIN row : row[x].family = row[y].family
        => (x \in RowsOfUser(u) <=> y \in RowsOfUser(u))
  BY DEF RowsOfUser, IInv, FamilyInv, FamiliesUniform
<1> QED
  BY <1>1, RevocationKeepsFamilies, RevocationKeepsDevices DEF IInv

LEMMA AccountStepKeepsSessions ==
    ASSUME IInv, NEW c \in Call, AccountStep(c) \/ Abandon(c)
    PROVE  FamilyInv' /\ DeviceInv'
<1> USE DEF IInv
<1>1. CASE ChangeCommit(c)
  <2> DEFINE u == call[c].user
  <2>1. CASE user[u].status = "active" /\ user[u].hash = call[c].held.hash
    BY <1>1, <2>1, RevokingUserKeepsSessions DEF ChangeCommit
  <2>2. CASE ~(user[u].status = "active" /\ user[u].hash = call[c].held.hash)
    BY <1>1, <2>2, SameSessions DEF ChangeCommit
  <2> QED
    BY <2>1, <2>2
<1>2. CASE EditCommit(c) \/ Abandon(c)
  BY <1>2, SameSessions DEF EditCommit, Abandon, tokens
<1>3. CASE \E u \in User : ChangeBegin(c, u) \/ EditBegin(c, u)
  BY <1>3, SameSessions DEF ChangeBegin, EditBegin, tokens
<1> QED
  BY <1>1, <1>2, <1>3 DEF AccountStep

LEMMA InviteStepKeepsSessions ==
    ASSUME IInv, NEW i \in Invite, InviteStep(i)
    PROVE  FamilyInv' /\ DeviceInv'
<1> USE DEF IInv
<1>1. CASE CompleteReset(i)
  BY <1>1, RevokingUserKeepsSessions DEF CompleteReset
<1>2. CASE \/ AcceptInvitation(i)
           \/ \E u \in User : IssueReset(i, u)
           \/ \E u \in User, role \in Role : InviteUser(i, u, role)
  BY <1>2, SameSessions DEF AcceptInvitation, IssueReset, InviteUser, tokens
<1> QED
  BY <1>1, <1>2 DEF InviteStep

LEMMA TickKeepsSessions ==
    ASSUME IInv, Tick
    PROVE  FamilyInv' /\ DeviceInv'
<1>1. device' = device
  BY DEF Tick
<1> QED
  BY <1>1, TickKeepsFamilies
  DEF IInv, DeviceInv, SessionsOnOwnDevices, UnownedNotRevoked

\* Every step of the backend keeps the sessions in order.
LEMMA StepKeepsSessions ==
    ASSUME IInv, [Next]_vars
    PROVE  FamilyInv' /\ DeviceInv'
<1>1. CASE Next
  BY <1>1, SignInKeepsSessions, TokenStepKeepsSessions,
     AccountStepKeepsSessions, InviteStepKeepsSessions, TickKeepsSessions
  DEF Next
<1>2. CASE UNCHANGED vars
  BY <1>2, SameSessions DEF vars, IInv
<1> QED
  BY <1>1, <1>2

-----------------------------------------------------------------------------
\* The theorems

LEMMA TypeSplit == TypeOK <=> AccountTypes /\ DOMAIN row \subseteq issued
                                /\ row \in [DOMAIN row -> RefreshFamily]
BY DEF TypeOK, AccountTypes

LEMMA InitIInv == ASSUME Init PROVE IInv
<1>1. row = [t \in {} |-> NoUser] /\ DOMAIN row = {} /\ issued = {}
  BY DEF Init
<1>2. FamilyInv
  BY <1>1 DEF FamilyInv, FamiliesIssued, FamiliesUniform,
              OneLiveTokenPerFamily, FamilyRevokedTogether
<1>3. device \in [Device -> Enrolment]
        /\ \A d \in Device : ~device[d].revoked
  BY DEF Init, Enrolment
<1>4. DeviceInv
  BY <1>1, <1>3 DEF DeviceInv, SessionsOnOwnDevices, UnownedNotRevoked
<1>5. user \in [User -> Account] /\ chosen \in [User -> 0..MaxPassword]
  <2>1. \A c \in BOOLEAN :
          [status |-> "active", role |-> "field_operator",
           hash |-> [password |-> 1, current |-> c]] \in Account
    BY SessionConstants DEF Account, Status, Role, Hash
  <2>2. user \in [User -> Account]
    BY <2>1, ConstantTypes DEF Init
  <2>3. \A u \in User : user[u].hash.password \in 0..MaxPassword
    BY <2>2 DEF Account, Hash
  <2> QED
    BY <2>2, <2>3 DEF Init
<1>6. invite \in [Invite -> Invitation]
  BY SessionConstants DEF Init, Invitation
<1>7. AccountTypes
  BY <1>1, <1>3, <1>5, <1>6, ConstantTypes DEF Init, AccountTypes
<1> QED
  BY <1>2, <1>4, <1>7, TypeSplit DEF IInv, FamilyInv

LEMMA KeepsIInv == ASSUME IInv, [Next]_vars PROVE IInv'
<1>1. FamilyInv' /\ DeviceInv'
  BY StepKeepsSessions
<1>2. AccountTypes'
  BY StepTypes, TypeSplit DEF IInv
<1>3. TypeOK'
  BY <1>1, <1>2 DEF FamilyInv, TypeOK, AccountTypes
<1> QED
  BY <1>1, <1>3 DEF IInv

\* The inductive invariant of the sessions: types, families and devices.
THEOREM Inductive == Spec => []IInv
BY InitIInv, KeepsIInv, PTL DEF Spec

\* Every reachable state is well typed, with tokens handed out, stored and
\* requests in flight as the handlers expect them.
THEOREM TypeCorrect == Spec => []TypeOK
BY Inductive, PTL DEF IInv

\* A refresh family has at most one token that was not rotated.
THEOREM OneLiveToken == Spec => []OneLiveTokenPerFamily
<1>1. IInv => OneLiveTokenPerFamily
  BY DEF IInv, FamilyInv
<1> QED
  BY <1>1, Inductive, PTL

\* A refresh family is revoked as a whole, by whichever path revokes it.
THEOREM RevokedTogether == Spec => []FamilyRevokedTogether
<1>1. IInv => FamilyRevokedTogether
  BY DEF IInv, FamilyInv
<1> QED
  BY <1>1, Inductive, PTL

\* A session is on a device of its own user, and none outlives the device.
THEOREM OwnDevices == Spec => []SessionsOnOwnDevices
<1>1. IInv => SessionsOnOwnDevices
  BY DEF IInv, DeviceInv
<1> QED
  BY <1>1, Inductive, PTL

-----------------------------------------------------------------------------
\* Sessions and passwords

\* While an edit of an account is in flight, nothing gives the account another
\* password: the edit does not bring an old one back.
EditsAreCurrent ==
    \A c \in Call :
        call[c].op = "edit" /\ call'[c] = call[c] =>
            user'[call[c].user].hash.password
                = user[call[c].user].hash.password

UndisturbedSpec == Init /\ [][Next /\ EditsAreCurrent]_vars

\* Nobody signs in before choosing a password, and no edit in flight would
\* change the password or the status of its account.
SignedInActive == \A t \in DOMAIN row : user[row[t].user].status = "active"
InvitedWithout ==
    \A u \in User : user[u].status = "invited" => user[u].hash.password = 0
EditsHold ==
    \A c \in Call : call[c].op = "edit" =>
        /\ user[call[c].user].status # "none"
        /\ call[c].held.status = user[call[c].user].status
        /\ call[c].held.hash.password = user[call[c].user].hash.password

\* An edit or a change in flight is of some account.
Altering == {"change", "edit"}
AlteredExist == \A c \in Call : call[c].op \in Altering => call[c].user \in User

PasswordInv ==
    /\ SessionsFollowPassword /\ SignedInActive /\ InvitedWithout
    /\ EditsHold /\ AlteredExist

\* What a step may change of the accounts, seen from the sessions.
SamePasswords ==
    \A u \in User : /\ user'[u].hash.password = user[u].hash.password
                    /\ user'[u].status = user[u].status

\* Sessions that stay, or stay revoked.
FewerSessions ==
    \A t \in DOMAIN row' :
        /\ t \in DOMAIN row
        /\ row'[t].user = row[t].user /\ row'[t].password = row[t].password
        /\ row[t].revoked => row'[t].revoked

FewerEdits ==
    \A c \in Call : call'[c].op \in Altering => call'[c] = call[c]

LEMMA FewerKeepPasswords ==
    ASSUME IInv, PasswordInv, SamePasswords, FewerSessions, FewerEdits
    PROVE  PasswordInv'
<1>1. \A t \in DOMAIN row : row[t].user \in User
  BY DEF IInv, FamilyInv, RefreshFamily
<1>2. SessionsFollowPassword' /\ SignedInActive'
  BY <1>1 DEF PasswordInv, SessionsFollowPassword, SignedInActive,
     SamePasswords, FewerSessions
<1>3. InvitedWithout'
  BY DEF PasswordInv, InvitedWithout, SamePasswords
<1>4. EditsHold' /\ AlteredExist'
  BY DEF PasswordInv, EditsHold, AlteredExist, Altering, SamePasswords,
     FewerEdits
<1> QED
  BY <1>2, <1>3, <1>4 DEF PasswordInv

\* Revoking rows changes nothing else of them.
LEMMA RevokedAreFewer ==
    ASSUME IInv, NEW S, row' = Revoked(row, S)
    PROVE  /\ FewerSessions /\ DOMAIN row' = DOMAIN row
           /\ \A t \in DOMAIN row : t \in S => row'[t].revoked
<1>1. \A t \in DOMAIN row : row[t] \in RefreshFamily
  BY DEF IInv, FamilyInv
<1> QED
  BY <1>1 DEF Revoked, RefreshFamily, FewerSessions

LEMMA AnsweredAreFewer ==
    ASSUME IInv, NEW c \in Call, Answered(c)
    PROVE  FewerEdits
BY DEF IInv, TypeOK, Answered, NoCall, FewerEdits, Altering

LEMMA SignInKeepsPasswords ==
    ASSUME IInv, PasswordInv, NEW c \in Call, SignInStep(c)
    PROVE  PasswordInv'
<1>0. call[c] \in Request /\ call \in [Call -> Request]
  BY DEF IInv, TypeOK
<1>1. ASSUME NEW t \in TokenId, LoginCommit(c, t)
      PROVE  PasswordInv'
  <2> DEFINE u == call[c].user
             d == call[c].device
             p == call[c].held.hash.password
             new == NewRow(t, u, d, p)
  <2>1. /\ u \in User /\ user \in [User -> Account]
        /\ user[u].hash.password = p /\ user[u].status = "active"
    BY <1>0, <1>1 DEF LoginCommit, LoginHolds, Request, Operation, IInv, TypeOK
  <2>2. SamePasswords
    BY <1>1, <2>1 DEF LoginCommit, SamePasswords, Account, Hash
  <2>3. FewerEdits
    BY <1>1, AnsweredAreFewer DEF LoginCommit
  <2>4. /\ DOMAIN row' = DOMAIN row \cup {t} /\ row'[t] = new
        /\ \A x \in DOMAIN row : row'[x] = row[x]
    BY <1>1 DEF LoginCommit, WithRow, IInv, FamilyInv
  <2>5. new.user = u /\ new.password = p
    BY DEF NewRow
  <2>6. \A x \in DOMAIN row : row[x].user \in User
    BY DEF IInv, FamilyInv, RefreshFamily
  <2> HIDE DEF u, d, p, new
  <2>7. SessionsFollowPassword' /\ SignedInActive'
    BY <2>1, <2>2, <2>4, <2>5, <2>6 DEF PasswordInv, SessionsFollowPassword,
       SignedInActive, SamePasswords
  <2>8. InvitedWithout' /\ EditsHold' /\ AlteredExist'
    BY <2>2, <2>3 DEF PasswordInv, InvitedWithout, EditsHold, AlteredExist,
       Altering, SamePasswords, FewerEdits
  <2> QED
    BY <2>7, <2>8 DEF PasswordInv
<1>2. CASE \/ \E u \in User, d \in Device, right \in BOOLEAN :
                 LoginBegin(c, u, d, right)
           \/ NoteAddressFailure(c) \/ NoteAccountFailure(c)
           \/ LoginRefused(c)
  <2>1. user' = user /\ row' = row
    BY <1>2 DEF LoginBegin, NoteAddressFailure, NoteAccountFailure,
       LoginRefused, tokens
  <2>2. FewerEdits
    <3>1. CASE \E u \in User, d \in Device, right \in BOOLEAN :
                  LoginBegin(c, u, d, right)
      BY <1>0, <3>1 DEF LoginBegin, FewerEdits, Altering
    <3>2. CASE NoteAddressFailure(c)
      BY <1>0, <3>2, AnsweredAreFewer
      DEF NoteAddressFailure, FewerEdits, Altering, Request, Operation
    <3>3. CASE NoteAccountFailure(c) \/ LoginRefused(c)
      BY <3>3, AnsweredAreFewer DEF NoteAccountFailure, LoginRefused
    <3> QED
      BY <1>2, <3>1, <3>2, <3>3
  <2> QED
    BY <2>1, <2>2, FewerKeepPasswords DEF SamePasswords, FewerSessions
<1> QED
  BY <1>1, <1>2 DEF SignInStep

LEMMA TokenStepKeepsPasswords ==
    ASSUME IInv, PasswordInv, TokenStep
    PROVE  PasswordInv'
<1>0. ASSUME user' = user, call' = call, FewerSessions
      PROVE  PasswordInv'
  BY <1>0, FewerKeepPasswords DEF SamePasswords, FewerEdits
<1>1. ASSUME NEW t \in TokenId, Reuse(t) \/ SignOut(t)
      PROVE  PasswordInv'
  BY <1>0, <1>1, RevokedAreFewer DEF Reuse, SignOut
<1>2. ASSUME NEW t \in TokenId, PurgeToken(t)
      PROVE  PasswordInv'
  BY <1>0, <1>2 DEF PurgeToken, FewerSessions
<1>3. ASSUME NEW d \in Device, RevokeDevice(d)
      PROVE  PasswordInv'
  BY <1>0, <1>3, RevokedAreFewer DEF RevokeDevice
<1>4. ASSUME NEW t \in TokenId, NEW next \in TokenId, Rotate(t, next)
      PROVE  PasswordInv'
  <2> DEFINE new == NewRow(row[t].family, row[t].user, row[t].device,
                           row[t].password)
             old == [row[t] EXCEPT !.rotated = TRUE]
  <2>1. /\ t \in DOMAIN row /\ row[t] \in RefreshFamily
        /\ DOMAIN row' = DOMAIN row \cup {next}
        /\ next \notin DOMAIN row
        /\ row'[next] = new /\ row'[t] = old
        /\ \A x \in DOMAIN row \ {t} : row'[x] = row[x]
        /\ ~row[t].revoked
        /\ user' = user /\ call' = call
    BY <1>4 DEF Rotate, Presentable, WithRow, IInv, FamilyInv
  <2>2. /\ new.user = row[t].user /\ new.password = row[t].password
        /\ old.user = row[t].user /\ old.password = row[t].password
        /\ old.revoked <=> row[t].revoked
    BY <2>1 DEF NewRow, RefreshFamily
  <2> HIDE DEF new, old
  <2>3. SessionsFollowPassword' /\ SignedInActive'
    BY <2>1, <2>2 DEF PasswordInv, SessionsFollowPassword, SignedInActive
  <2> QED
    BY <2>1, <2>3 DEF PasswordInv, InvitedWithout, EditsHold, AlteredExist
<1> QED
  BY <1>1, <1>2, <1>3, <1>4 DEF TokenStep

\* A new password, with every session of its account revoked.
LEMMA NewPasswordKeepsPasswords ==
    ASSUME IInv, PasswordInv, EditsAreCurrent, FewerEdits, NEW u \in User,
           user[u].status = "active",
           user' = [user EXCEPT ![u].hash = NewPassword(u)],
           row' = Revoked(row, RowsOfUser(u))
    PROVE  PasswordInv'
<1>1. /\ user \in [User -> Account]
      /\ \A t \in DOMAIN row : row[t].user \in User
  BY DEF IInv, TypeOK, FamilyInv, RefreshFamily
<1>2. \A v \in User : /\ user'[v].status = user[v].status
                      /\ v # u => user'[v] = user[v]
  BY <1>1 DEF Account
<1>3. /\ FewerSessions
      /\ \A t \in DOMAIN row : row[t].user = u => row'[t].revoked
  BY RevokedAreFewer DEF RowsOfUser
<1>4. SessionsFollowPassword' /\ SignedInActive'
  BY <1>1, <1>2, <1>3 DEF PasswordInv, SessionsFollowPassword, SignedInActive,
     FewerSessions
<1>5. InvitedWithout'
  BY <1>2 DEF PasswordInv, InvitedWithout
<1>6. EditsHold'
  <2> SUFFICES ASSUME NEW c \in Call, call'[c].op = "edit"
               PROVE  /\ user'[call'[c].user].status # "none"
                      /\ call'[c].held.status = user'[call'[c].user].status
                      /\ call'[c].held.hash.password
                           = user'[call'[c].user].hash.password
    BY DEF EditsHold
  <2>1. call'[c] = call[c]
    BY DEF FewerEdits, Altering
  <2>2. user'[call[c].user].hash.password = user[call[c].user].hash.password
    BY <2>1 DEF EditsAreCurrent
  <2>3. call[c].user \in User
    BY <2>1 DEF PasswordInv, AlteredExist, Altering
  <2> QED
    BY <1>2, <2>1, <2>2, <2>3 DEF PasswordInv, EditsHold
<1>7. AlteredExist'
  BY DEF PasswordInv, AlteredExist, FewerEdits
<1> QED
  BY <1>4, <1>5, <1>6, <1>7 DEF PasswordInv

LEMMA AccountStepKeepsPasswords ==
    ASSUME IInv, PasswordInv, EditsAreCurrent, "status" \notin Editing,
           NEW c \in Call, AccountStep(c) \/ Abandon(c)
    PROVE  PasswordInv'
<1>0. /\ call[c] \in Request /\ call \in [Call -> Request]
      /\ user \in [User -> Account]
  BY DEF IInv, TypeOK
<1>1. CASE ChangeCommit(c)
  <2> DEFINE u == call[c].user
  <2>1. CASE user[u].status = "active" /\ user[u].hash = call[c].held.hash
    <3>1. u \in User
      BY <1>1 DEF ChangeCommit, PasswordInv, AlteredExist, Altering
    <3> QED
      BY <1>1, <2>1, <3>1, NewPasswordKeepsPasswords, AnsweredAreFewer
      DEF ChangeCommit
  <2>2. CASE ~(user[u].status = "active" /\ user[u].hash = call[c].held.hash)
    BY <1>1, <2>2, FewerKeepPasswords, AnsweredAreFewer
    DEF ChangeCommit, SamePasswords, FewerSessions
  <2> QED
    BY <2>1, <2>2
<1>2. CASE EditCommit(c)
  <2>1. user' = [user EXCEPT ![call[c].user] = call[c].held]
    BY <1>2 DEF EditCommit
  <2>2. SamePasswords
    BY <1>0, <1>2, <2>1 DEF EditCommit, SamePasswords, PasswordInv, EditsHold,
       AlteredExist, Altering
  <2> QED
    BY <1>2, <2>2, FewerKeepPasswords, AnsweredAreFewer
    DEF EditCommit, FewerSessions, tokens
<1>3. CASE Abandon(c)
  BY <1>3, FewerKeepPasswords, AnsweredAreFewer
  DEF Abandon, tokens, SamePasswords, FewerSessions
<1>4. ASSUME NEW u \in User, ChangeBegin(c, u)
      PROVE  PasswordInv'
  <2>1. /\ \A k \in Call : k # c => call'[k] = call[k]
        /\ call'[c].op = "change" /\ call'[c].user = u
        /\ user' = user /\ row' = row
    BY <1>0, <1>4 DEF ChangeBegin, tokens
  <2>2. EditsHold' /\ AlteredExist'
    BY <2>1 DEF PasswordInv, EditsHold, AlteredExist
  <2> QED
    BY <2>1, <2>2 DEF PasswordInv, SessionsFollowPassword, SignedInActive,
       InvitedWithout
<1>5. ASSUME NEW u \in User, EditBegin(c, u)
      PROVE  PasswordInv'
  <2>1. PICK account \in Edits(user[u]) :
            call' = [call EXCEPT ![c] = [op |-> "edit", user |-> u,
                                         device |-> NoDevice,
                                         held |-> account]]
    BY <1>5 DEF EditBegin
  <2>2. account.status = user[u].status /\ account.hash = user[u].hash
    BY <1>0 DEF Edits, Account
  <2>3. user' = user /\ row' = row /\ user[u].status # "none"
    BY <1>5 DEF EditBegin, tokens
  <2>4. EditsHold' /\ AlteredExist'
    BY <1>0, <2>1, <2>2, <2>3 DEF PasswordInv, EditsHold, AlteredExist
  <2> QED
    BY <2>3, <2>4 DEF PasswordInv, SessionsFollowPassword, SignedInActive,
       InvitedWithout
<1> QED
  BY <1>1, <1>2, <1>3, <1>4, <1>5 DEF AccountStep

LEMMA InviteStepKeepsPasswords ==
    ASSUME IInv, PasswordInv, EditsAreCurrent, NEW i \in Invite, InviteStep(i)
    PROVE  PasswordInv'
<1>0. /\ user \in [User -> Account] /\ invite[i] \in Invitation
      /\ chosen \in [User -> 0..MaxPassword]
      /\ \A t \in DOMAIN row : row[t].user \in User
  BY DEF IInv, TypeOK, FamilyInv, RefreshFamily
<1>1. ASSUME NEW u \in User, IssueReset(i, u)
      PROVE  PasswordInv'
  BY <1>1, FewerKeepPasswords
  DEF IssueReset, tokens, SamePasswords, FewerSessions, FewerEdits
<1>2. ASSUME NEW u \in User, NEW role \in Role, InviteUser(i, u, role)
      PROVE  PasswordInv'
  <2>1. /\ user[u].status = "none" /\ row' = row /\ call' = call
        /\ \A v \in User : v # u => user'[v] = user[v]
        /\ user'[u].status = "invited" /\ user'[u].hash.password = 0
    BY <1>0, <1>2 DEF InviteUser, tokens, NoAccount, NoPassword
  <2>2. SessionsFollowPassword' /\ SignedInActive'
    BY <1>0, <2>1 DEF PasswordInv, SessionsFollowPassword, SignedInActive
  <2>3. InvitedWithout'
    BY <2>1 DEF PasswordInv, InvitedWithout
  <2>4. EditsHold' /\ AlteredExist'
    BY <2>1 DEF PasswordInv, EditsHold, AlteredExist, Altering
  <2> QED
    BY <2>2, <2>3, <2>4 DEF PasswordInv
<1> DEFINE v == invite[i].user
<1>3. CASE CompleteReset(i)
  <2>1. v \in User
    BY <1>0, <1>3 DEF CompleteReset, Redeemable, Invitation
  <2>2. FewerEdits
    BY <1>3 DEF CompleteReset, FewerEdits
  <2> QED
    BY <1>3, <2>1, <2>2, NewPasswordKeepsPasswords DEF CompleteReset
<1>4. CASE AcceptInvitation(i)
  <2>1. /\ v \in User /\ user[v].status = "invited"
        /\ user' = [user EXCEPT ![v].hash = NewPassword(v),
                                ![v].status = "active"]
        /\ row' = row /\ call' = call
    BY <1>0, <1>4 DEF AcceptInvitation, Redeemable, Invitation, tokens
  <2>2. /\ \A u \in User : u # v => user'[u] = user[u]
        /\ user'[v].status = "active"
        /\ user'[v].hash.password = chosen[v] + 1
    BY <1>0, <2>1 DEF Account, NewPassword
  <2>3. user[v].hash.password = 0 /\ chosen[v] + 1 # 0
    BY <1>0, <2>1 DEF PasswordInv, InvitedWithout
  \* Nobody is signed in to an account that has no password yet.
  <2>4. SessionsFollowPassword' /\ SignedInActive'
    BY <1>0, <2>1, <2>2 DEF PasswordInv, SessionsFollowPassword, SignedInActive
  <2>5. InvitedWithout'
    BY <2>2 DEF PasswordInv, InvitedWithout
  \* No edit of it is in flight: the new password would be news to it.
  <2>6. \A c \in Call : call[c].op = "edit" => call[c].user # v
    BY <2>1, <2>2, <2>3 DEF EditsAreCurrent
  <2>7. AlteredExist'
    BY <2>1 DEF PasswordInv, AlteredExist
  <2>8. \A c \in Call : call[c].op = "edit" =>
          /\ call[c].user \in User /\ call'[c] = call[c]
          /\ user'[call[c].user] = user[call[c].user]
    BY <2>1, <2>2, <2>6 DEF PasswordInv, AlteredExist, Altering
  <2>9. EditsHold'
    <3> SUFFICES ASSUME NEW c \in Call, call'[c].op = "edit"
                 PROVE  /\ user'[call'[c].user].status # "none"
                        /\ call'[c].held.status = user'[call'[c].user].status
                        /\ call'[c].held.hash.password
                             = user'[call'[c].user].hash.password
      BY DEF EditsHold
    <3>1. call[c].op = "edit"
      BY <2>1
    <3>2. call'[c] = call[c] /\ user'[call[c].user] = user[call[c].user]
      BY <2>8, <3>1
    <3> QED
      BY <3>1, <3>2 DEF PasswordInv, EditsHold
  <2> QED
    BY <2>4, <2>5, <2>7, <2>9 DEF PasswordInv
<1> QED
  BY <1>1, <1>2, <1>3, <1>4 DEF InviteStep

LEMMA TickKeepsPasswords ==
    ASSUME IInv, PasswordInv, Tick
    PROVE  PasswordInv'
<1>1. \A t \in DOMAIN row : row[t] \in RefreshFamily
  BY DEF IInv, FamilyInv
<1>2. FewerSessions
  BY <1>1 DEF Tick, FewerSessions, RefreshFamily
<1> QED
  BY <1>2, FewerKeepPasswords DEF Tick, SamePasswords, FewerEdits

LEMMA StepKeepsPasswords ==
    ASSUME IInv, PasswordInv, [Next /\ EditsAreCurrent]_vars,
           "status" \notin Editing
    PROVE  PasswordInv'
<1>1. CASE Next /\ EditsAreCurrent
  BY <1>1, SignInKeepsPasswords, TokenStepKeepsPasswords,
     AccountStepKeepsPasswords, InviteStepKeepsPasswords, TickKeepsPasswords
  DEF Next
<1>2. CASE UNCHANGED vars
  BY <1>2, FewerKeepPasswords
  DEF vars, tokens, SamePasswords, FewerSessions, FewerEdits
<1> QED
  BY <1>1, <1>2

LEMMA InitPasswordInv == ASSUME Init PROVE PasswordInv
<1>1. DOMAIN row = {} /\ \A c \in Call : call[c].op = "none"
  BY DEF Init, NoCall
<1>2. InvitedWithout
  BY DEF Init, InvitedWithout, NoAccount
<1> QED
  BY <1>1, <1>2 DEF PasswordInv, SessionsFollowPassword, SignedInActive,
     EditsHold, AlteredExist, Altering

(***************************************************************************)
(* Where account edits leave the status alone and none is in flight over a *)
(* change of its account's password, every session that can be refreshed   *)
(* was opened with the present password: one that a sign in verified       *)
(* before a change or a reset cannot commit after it (changePassword,      *)
(* completeReset and the second reading of the account in login).          *)
(***************************************************************************)
THEOREM PasswordsEndSessions ==
    ASSUME "status" \notin Editing
    PROVE  UndisturbedSpec => []SessionsFollowPassword
<1>1. Init => IInv /\ PasswordInv
  BY InitIInv, InitPasswordInv
<1>2. IInv /\ PasswordInv /\ [Next /\ EditsAreCurrent]_vars
        => IInv' /\ PasswordInv'
  BY KeepsIInv, StepKeepsPasswords
<1>3. PasswordInv => SessionsFollowPassword
  BY DEF PasswordInv
<1> QED
  BY <1>1, <1>2, <1>3, PTL DEF UndisturbedSpec

-----------------------------------------------------------------------------
\* Wrong passwords

\* The requests that will still count a failure against the address of u.
Noting(u) == {c \in Call : call[c].op = "failAddress" /\ call[c].user = u}

Bound == LockoutFailures - 1 + Cardinality(Call)

\* A lock with n failures to come: short of the limit until it is set, and
\* from then on those failures are all it can still count.
Within(lock, n) ==
    /\ lock.until = -1 => lock.failures <= LockoutFailures - 1
    /\ lock.until > 0 => lock.failures + n <= Bound
    /\ lock.failures <= Bound

LockInv == \A u \in User : Within(addrLock[u], Cardinality(Noting(u)))

LEMMA NotingCounts ==
    ASSUME NEW u
    PROVE  /\ Noting(u) \subseteq Call /\ IsFiniteSet(Noting(u))
           /\ Cardinality(Noting(u)) \in Nat /\ Cardinality(Call) \in Nat
           /\ Cardinality(Noting(u)) <= Cardinality(Call)
<1>1. Noting(u) \in SUBSET Call
  BY DEF Noting
<1> QED
  BY <1>1, FiniteCalls, FS_Subset, FS_CardinalityType

LEMMA NotingCountsLater ==
    ASSUME NEW u
    PROVE  /\ Noting(u)' \subseteq Call /\ IsFiniteSet(Noting(u)')
           /\ Cardinality(Noting(u)') \in Nat
           /\ Cardinality(Noting(u)') <= Cardinality(Call)
<1>1. Noting(u)' \in SUBSET Call
  BY DEF Noting
<1> QED
  BY <1>1, FiniteCalls, FS_Subset, FS_CardinalityType

\* Fewer failures to come leave a lock within its bound.
LEMMA WithinFewer ==
    ASSUME NEW lock \in Lockout, NEW m \in Nat, NEW n \in Nat, n <= m,
           Within(lock, m)
    PROVE  Within(lock, n)
BY SessionConstants, FiniteCalls, FS_CardinalityType
DEF Within, Bound, Lockout

LEMMA FewerNoting ==
    ASSUME NEW u, \A c \in Call : (call'[c].op = "failAddress"
                                   /\ call'[c].user = u) => call'[c] = call[c]
    PROVE  Cardinality(Noting(u)') <= Cardinality(Noting(u))
<1>1. Noting(u)' \in SUBSET Noting(u)
  BY DEF Noting
<1> QED
  BY <1>1, NotingCounts, FS_Subset

\* A request that ends, or goes on to something else, notes no more.
LEMMA OneLessNoting ==
    ASSUME NEW u, NEW c \in Call, call[c].op = "failAddress",
           call[c].user = u, call'[c].op # "failAddress",
           \A k \in Call \ {c} : call'[k] = call[k]
    PROVE  Cardinality(Noting(u)') = Cardinality(Noting(u)) - 1
<1>1. /\ c \in Noting(u)
      /\ Noting(u)' = Noting(u) \ {c}
  BY DEF Noting
<1> QED
  BY <1>1, NotingCounts, FS_RemoveElement, ZenonT(40)

LEMMA UnlockedWithin == ASSUME NEW n \in Nat PROVE Within(NoLock, n)
BY SessionConstants, FiniteCalls, FS_CardinalityType DEF Within, NoLock, Bound

\* A failure noted is one of those that were to come.
LEMMA NotedWithin ==
    ASSUME NEW lock \in Lockout, NEW n \in Nat, n < Cardinality(Call),
           Within(lock, n + 1)
    PROVE  Within(NotedFailure(lock), n)
<1> DEFINE f == Failures(lock)
           new == NotedFailure(lock)
<1>1. /\ lock.failures \in Nat /\ lock.until \in -1..LockoutWindow
      /\ LockoutWindow \in Nat \ {0} /\ LockoutFailures \in Nat \ {0}
      /\ Cardinality(Call) \in Nat
  BY SessionConstants, FiniteCalls, FS_CardinalityType DEF Lockout
<1>2. f \in Nat /\ f + n <= Bound
  <2>1. CASE lock.until = 0
    BY <1>1, <2>1 DEF Failures, Bound
  <2>2. CASE lock.until = -1
    BY <1>1, <2>2 DEF Failures, Bound, Within
  <2>3. CASE lock.until > 0
    BY <1>1, <2>3 DEF Failures, Bound, Within
  <2> QED
    BY <1>1, <2>1, <2>2, <2>3
<1>3. /\ new.failures = f
      /\ new.until = IF f >= LockoutFailures THEN LockoutWindow ELSE -1
  BY DEF NotedFailure
<1> HIDE DEF f, new
<1>4. new.until = -1 => new.failures <= LockoutFailures - 1
  BY <1>1, <1>2, <1>3
<1> QED
  BY <1>1, <1>2, <1>3, <1>4 DEF Within, Bound, new

\* Time that passes does not bring a lock out of its bound.
LEMMA LaterWithin ==
    ASSUME NEW lock \in Lockout, NEW n \in Nat, Within(lock, n)
    PROVE  Within(LaterLock(lock), n)
<1>1. lock.failures \in Nat /\ lock.until \in -1..LockoutWindow
  BY DEF Lockout
<1>2. /\ LaterLock(lock).failures = lock.failures
      /\ LaterLock(lock).until = Down(lock.until)
  BY DEF LaterLock, Lockout
<1>3. /\ Down(lock.until) = -1 => lock.until = -1
      /\ Down(lock.until) > 0 => lock.until > 0
  BY <1>1, SessionConstants DEF Down
<1> QED
  BY <1>2, <1>3 DEF Within

LEMMA FewerKeepLocks ==
    ASSUME IInv, LockInv, addrLock' = addrLock,
           \A c \in Call : call'[c].op = "failAddress" => call'[c] = call[c]
    PROVE  LockInv'
<1> SUFFICES ASSUME NEW u \in User
             PROVE  Within(addrLock'[u], Cardinality(Noting(u)'))
  BY DEF LockInv
<1>1. addrLock[u] \in Lockout
  BY DEF IInv, TypeOK
<1>2. Cardinality(Noting(u)') <= Cardinality(Noting(u))
  BY FewerNoting
<1> QED
  BY <1>1, <1>2, NotingCounts, NotingCountsLater, WithinFewer DEF LockInv

LEMMA SignInKeepsLocks ==
    ASSUME IInv, LockInv, NEW c \in Call, SignInStep(c)
    PROVE  LockInv'
<1>0. /\ call \in [Call -> Request] /\ call[c] \in Request
      /\ addrLock \in [User -> Lockout]
  BY DEF IInv, TypeOK
<1>a. ASSUME Answered(c)
      PROVE  /\ call'[c].op = "none"
             /\ \A k \in Call \ {c} : call'[k] = call[k]
  BY <1>0, <1>a DEF Answered, NoCall
<1>1. ASSUME NEW u \in User, NEW d \in Device, NEW right \in BOOLEAN,
             LoginBegin(c, u, d, right)
      PROVE  LockInv'
  <2>1. /\ addrLock' = addrLock /\ ~(addrLock[u].until > 0)
        /\ call'[c].user = u
        /\ \A k \in Call \ {c} : call'[k] = call[k]
    BY <1>0, <1>1 DEF LoginBegin, Locked
  <2> SUFFICES ASSUME NEW v \in User
               PROVE  Within(addrLock'[v], Cardinality(Noting(v)'))
    BY DEF LockInv
  <2>2. CASE v = u
    BY <2>1, <2>2 DEF LockInv, Within
  <2>3. CASE v # u
    <3>1. Cardinality(Noting(v)') <= Cardinality(Noting(v))
      BY <2>1, <2>3, FewerNoting
    <3> QED
      BY <1>0, <2>1, <3>1, NotingCounts, NotingCountsLater, WithinFewer
      DEF LockInv
  <2> QED
    BY <2>2, <2>3
<1>2. CASE NoteAddressFailure(c)
  <2> DEFINE u == call[c].user
  <2>1. /\ call[c].op = "failAddress"
        /\ addrLock' = [addrLock EXCEPT ![u] = NotedFailure(addrLock[u])]
    BY <1>2 DEF NoteAddressFailure
  <2>2. /\ call'[c].op # "failAddress"
        /\ \A k \in Call \ {c} : call'[k] = call[k]
    <3>1. CASE call' = [call EXCEPT ![c].op = "failAccount"]
      <4>1. call'[c] = [call[c] EXCEPT !.op = "failAccount"]
        BY <1>0, <3>1
      <4>2. call'[c].op = "failAccount"
        BY <1>0, <4>1 DEF Request
      <4> QED
        BY <1>0, <3>1, <4>2
    <3>2. CASE Answered(c)
      BY <1>a, <3>2
    <3> QED
      BY <1>2, <3>1, <3>2 DEF NoteAddressFailure
  <2> SUFFICES ASSUME NEW v \in User
               PROVE  Within(addrLock'[v], Cardinality(Noting(v)'))
    BY DEF LockInv
  <2>3. CASE v = u
    <3>1. Cardinality(Noting(v)') = Cardinality(Noting(v)) - 1
      BY <2>1, <2>2, <2>3, OneLessNoting
    <3>2. addrLock'[v] = NotedFailure(addrLock[v])
      BY <1>0, <2>1, <2>3
    <3> DEFINE n == Cardinality(Noting(v)')
    <3>3. /\ n \in Nat /\ n < Cardinality(Call)
          /\ n + 1 = Cardinality(Noting(v))
      BY <3>1, NotingCounts, NotingCountsLater
    <3> HIDE DEF n
    <3>4. Within(addrLock[v], n + 1)
      BY <3>3 DEF LockInv
    <3> QED
      BY <1>0, <3>2, <3>3, <3>4, NotedWithin DEF n
  <2>4. CASE v # u
    <3>1. Cardinality(Noting(v)') <= Cardinality(Noting(v))
      BY <2>2, FewerNoting
    <3>2. addrLock'[v] = addrLock[v]
      BY <1>0, <2>1, <2>4
    <3> QED
      BY <1>0, <3>1, <3>2, NotingCounts, NotingCountsLater, WithinFewer
      DEF LockInv
  <2> QED
    BY <2>3, <2>4
<1>3. ASSUME NEW t \in TokenId, LoginCommit(c, t)
      PROVE  LockInv'
  <2> SUFFICES ASSUME NEW v \in User
               PROVE  Within(addrLock'[v], Cardinality(Noting(v)'))
    BY DEF LockInv
  <2>1. addrLock'[v] = NoLock \/ addrLock'[v] = addrLock[v]
    BY <1>0, <1>3 DEF LoginCommit
  <2>2. Cardinality(Noting(v)') <= Cardinality(Noting(v))
    BY <1>3, <1>a, FewerNoting DEF LoginCommit
  <2> QED
    BY <1>0, <2>1, <2>2, NotingCounts, NotingCountsLater, WithinFewer,
       UnlockedWithin DEF LockInv
<1>4. CASE NoteAccountFailure(c) \/ LoginRefused(c)
  BY <1>4, <1>a, FewerKeepLocks DEF NoteAccountFailure, LoginRefused
<1> QED
  BY <1>1, <1>2, <1>3, <1>4 DEF SignInStep

LEMMA TickKeepsLocks ==
    ASSUME IInv, LockInv, Tick
    PROVE  LockInv'
<1> SUFFICES ASSUME NEW u \in User
             PROVE  Within(addrLock'[u], Cardinality(Noting(u)'))
  BY DEF LockInv
<1>1. addrLock'[u] = LaterLock(addrLock[u]) /\ addrLock[u] \in Lockout
  BY DEF Tick, IInv, TypeOK
<1>2. Noting(u)' = Noting(u)
  BY DEF Tick, Noting
<1>3. Within(LaterLock(addrLock[u]), Cardinality(Noting(u)))
  BY <1>1, NotingCounts, LaterWithin DEF LockInv
<1> QED
  BY <1>1, <1>2, <1>3

LEMMA StepKeepsLocks ==
    ASSUME IInv, LockInv, [Next]_vars
    PROVE  LockInv'
<1>0. call \in [Call -> Request]
  BY DEF IInv, TypeOK
<1>a. ASSUME NEW c \in Call, Answered(c)
      PROVE  \A k \in Call : call'[k].op = "failAddress" => call'[k] = call[k]
  BY <1>0, <1>a DEF Answered, NoCall
<1>1. ASSUME NEW c \in Call, AccountStep(c) \/ Abandon(c)
      PROVE  LockInv'
  <2>1. CASE ChangeCommit(c) \/ EditCommit(c) \/ Abandon(c)
    BY <1>a, <2>1, FewerKeepLocks DEF ChangeCommit, EditCommit, Abandon, locks
  <2>2. CASE \E u \in User : ChangeBegin(c, u) \/ EditBegin(c, u)
    <3>1. /\ addrLock' = addrLock
          /\ \E r \in {"change", "edit"} : call'[c].op = r
          /\ \A k \in Call \ {c} : call'[k] = call[k]
      BY <1>0, <2>2 DEF ChangeBegin, EditBegin, locks
    <3> QED
      BY <3>1, FewerKeepLocks
  <2> QED
    BY <1>1, <2>1, <2>2 DEF AccountStep
<1>2. CASE TokenStep
  BY <1>2, FewerKeepLocks
  DEF TokenStep, Reuse, SignOut, PurgeToken, Rotate, RevokeDevice, locks
<1>3. ASSUME NEW i \in Invite, InviteStep(i)
      PROVE  LockInv'
  BY <1>3, FewerKeepLocks
  DEF InviteStep, IssueReset, InviteUser, CompleteReset, AcceptInvitation, locks
<1>4. CASE UNCHANGED vars
  BY <1>4, FewerKeepLocks DEF vars, locks
<1> QED
  BY <1>1, <1>2, <1>3, <1>4, SignInKeepsLocks, TickKeepsLocks DEF Next

LEMMA InitLockInv == ASSUME Init PROVE LockInv
BY NotingCounts, UnlockedWithin DEF Init, LockInv

(***************************************************************************)
(* Whatever requests check the lock of an address before it is set, and    *)
(* note their failures after, the wrong passwords it counts exceed the     *)
(* limit by no more than the requests then in flight (login, noteFailure). *)
(***************************************************************************)
THEOREM GuessesBounded == Spec => []WrongPasswordsBounded
<1>1. IInv /\ LockInv /\ [Next]_vars => IInv' /\ LockInv'
  BY KeepsIInv, StepKeepsLocks
<1>2. LockInv => WrongPasswordsBounded
  BY DEF LockInv, Within, Bound, WrongPasswordsBounded
<1> QED
  BY <1>1, <1>2, InitIInv, InitLockInv, PTL DEF Spec

-----------------------------------------------------------------------------
(* The device: DeviceSession *)

-----------------------------------------------------------------------------
\* The device takes only steps of the backend

LEMMA RefreshStepIsNext ==
    ASSUME TypeOK, RefreshStep
    PROVE  [Next]_vars
<1>1. ASSUME NEW next \in TokenId, ServerRotates(next)
      PROVE  Next
  <2>1. Rotate(refresh.token, next)
    BY <1>1 DEF ServerRotates
  <2>2. refresh.token \in TokenId
    BY <2>1 DEF Rotate, Presentable, TypeOK
  <2> QED
    BY <2>1, <2>2 DEF Next, TokenStep
<1>2. CASE ServerReuses
  <2>1. Reuse(refresh.token)
    BY <1>2 DEF ServerReuses
  <2>2. refresh.token \in TokenId
    BY <2>1 DEF Reuse, Presentable, TypeOK
  <2> QED
    BY <2>1, <2>2 DEF Next, TokenStep
<1>3. CASE \/ RefreshStart \/ ServerRefuses \/ RefreshLost \/ RefreshKeeps
           \/ RefreshConfirms \/ RefreshUnconfirmed \/ RefreshRevokes
  BY <1>3 DEF RefreshStart, ServerRefuses, RefreshLost, RefreshKeeps,
              RefreshConfirms, RefreshUnconfirmed, RefreshRevokes
<1> QED
  BY <1>1, <1>2, <1>3 DEF RefreshStep

LEMMA SignInStepIsNext ==
    ASSUME DeviceSignInStep
    PROVE  [Next]_vars
<1>1. ASSUME NEW c \in Call, NEW u \in User, SignInStart(c, u)
      PROVE  Next
  BY <1>1, DeviceConstants DEF SignInStart, Next, SignInStep
<1>2. ASSUME NEW c \in Call, ServerDeclines(c)
      PROVE  Next
  BY <1>2 DEF ServerDeclines, Next, SignInStep
<1>3. ASSUME NEW c \in Call, NEW t \in TokenId, ServerOpens(c, t)
      PROVE  Next
  BY <1>3 DEF ServerOpens, Next, SignInStep
<1>4. CASE SignInSaves \/ SignInFails
  BY <1>4 DEF SignInSaves, SignInFails
<1> QED
  BY <1>1, <1>2, <1>3, <1>4 DEF DeviceSignInStep

\* A sign out handled while the device waits or after it gave up.
LEMMA SignsOutIsNext ==
    ASSUME TypeOK, NEW t, SignsOut(t)
    PROVE  [Next]_vars
<1>1. CASE t \in DOMAIN row
  <2>1. SignOut(t) /\ t \in TokenId
    BY <1>1 DEF SignsOut, TypeOK
  <2> QED
    BY <2>1 DEF Next, TokenStep
<1>2. CASE t \notin DOMAIN row
  BY <1>2 DEF SignsOut
<1> QED
  BY <1>1, <1>2

LEMMA OtherStepsAreNext ==
    ASSUME TypeOK, SignOutStep \/ Configure \/ Relaunch \/ LateStep
                     \/ ServerStep
    PROVE  [Next]_vars
<1>1. CASE SignOutStep
  BY <1>1, SignsOutIsNext
  DEF SignOutStep, SignOutStart, ServerSignsOut, SignOutLost, SignOutSaves
<1>2. CASE Configure \/ Relaunch
  BY <1>2 DEF Configure, Relaunch, Forgets
<1>3. CASE LateStep
  <2>1. PICK t \in TokenId : LateRefresh(t) \/ LateSignOut(t)
    BY <1>3 DEF LateStep
  <2>2. CASE LateSignOut(t)
    BY <2>2, SignsOutIsNext DEF LateSignOut
  <2>3. CASE LateRefresh(t)
    BY <2>1, <2>3 DEF LateRefresh, Next, TokenStep
  <2> QED
    BY <2>1, <2>2, <2>3
<1>4. CASE ServerStep
  BY <1>4, DeviceConstants DEF ServerStep, Next, TokenStep
<1> QED
  BY <1>1, <1>2, <1>3, <1>4

LEMMA DeviceStepIsNext ==
    ASSUME TypeOK, [DeviceNext]_allVars
    PROVE  [Next]_vars
<1>1. CASE DeviceNext
  BY <1>1, RefreshStepIsNext, SignInStepIsNext, OtherStepsAreNext
  DEF DeviceNext
<1>2. CASE UNCHANGED allVars
  BY <1>2 DEF allVars
<1> QED
  BY <1>1, <1>2

\* The device and its server together implement the backend's specification,
\* so that whatever is shown of it above holds here.
THEOREM DeviceImplementsSessions == DeviceSpec => Spec
<1>1. DeviceInit => Init /\ IInv
  BY InitIInv DEF DeviceInit
<1>2. IInv /\ [DeviceNext]_allVars => [Next]_vars /\ IInv'
  BY DeviceStepIsNext, KeepsIInv DEF IInv
<1> QED
  BY <1>1, <1>2, PTL DEF DeviceSpec, Spec

\* Every state of the two together keeps the sessions in order.
LEMMA SessionsInOrder == DeviceSpec => []IInv
<1>1. DeviceInit => IInv
  BY InitIInv DEF DeviceInit
<1>2. IInv /\ [DeviceNext]_allVars => IInv'
  BY DeviceStepIsNext, KeepsIInv DEF IInv
<1> QED
  BY <1>1, <1>2, PTL DEF DeviceSpec

-----------------------------------------------------------------------------
\* Types of the device, and what it shows

RefreshState == [phase : {"idle", "sent", "rotated", "refused", "kept"},
                 token : Held, next : Held]
SignInState == [phase : {"idle", "asked", "opened"},
                call : Call \cup {NoCall}, token : Held]
SignOutState == [phase : {"idle", "sent", "answered"}, token : Held]
SavedState == [token : Held, revoked : BOOLEAN]

JobTypes ==
    /\ refresh \in RefreshState
    /\ signIn \in SignInState
    /\ signOut \in SignOutState

LocalTypes ==
    /\ held \in Held
    /\ enrol \in EnrolmentState
    /\ saved \in SavedState

NetworkTypes ==
    /\ late \subseteq Posts \X TokenId
    /\ unheard \subseteq TokenId
    /\ reused \subseteq TokenId
    /\ out \subseteq TokenId

\* A token the device sends or brings home is one; the storage is ahead of the
\* memory only after a start that could not read it.
TokensPresent ==
    /\ refresh.phase \in {"sent", "rotated", "refused"}
         => refresh.token # NoToken
    /\ refresh.phase \in {"rotated", "kept"} => refresh.next # NoToken
    /\ signIn.phase = "opened" => signIn.token # NoToken
    /\ signOut.phase = "sent" => signOut.token # NoToken

\* A refresh in flight keeps the device from being marked revoked: only a
\* refused one does that, and there is one at a time.
ShownInv ==
    /\ EnrolmentMatchesToken
    /\ refresh.phase \in {"sent", "rotated"} => enrol # "revoked"

LEMMA DeviceTypeSplit ==
    DeviceTypeOK <=> TypeOK /\ JobTypes /\ LocalTypes /\ NetworkTypes
BY DEF DeviceTypeOK, JobTypes, LocalTypes, NetworkTypes, RefreshState,
       SignInState, SignOutState, SavedState

DeviceTypes == JobTypes /\ LocalTypes /\ NetworkTypes /\ TokensPresent

\* The fixed values are of their types.
LEMMA FixedTypes ==
    /\ Idle \in RefreshState
    /\ NoSignIn \in SignInState
    /\ [phase |-> "idle", token |-> NoToken] \in SignOutState
    /\ [phase |-> "answered", token |-> NoToken] \in SignOutState
BY DEF Idle, NoSignIn, RefreshState, SignInState, SignOutState, Held

\* Only the states of the enrolment machine are reached.
LEMMA ApplyTypes ==
    ASSUME NEW state \in EnrolmentState,
           NEW event \in {"start", "succeed", "fail", "revoke"}
    PROVE  /\ Apply(state, event) \in EnrolmentState
           /\ event = "start" => Apply(state, event) # "revoked"
           /\ event = "start" /\ Apply(state, event) = "enrolled"
                => state = "enrolled"
           /\ event = "fail" /\ Apply(state, event) \in {"enrolled", "revoked"}
                => state = Apply(state, event)
           /\ event = "revoke" => Apply(state, event) # "enrolled"
           /\ event = "succeed" /\ state = "enrolling"
                => Apply(state, event) = "enrolled"
BY DEF Apply, EnrolmentState

LEMMA SaveTypes ==
    ASSUME NEW token \in Held, NEW state \in EnrolmentState,
           Save(token, state)
    PROVE  /\ LocalTypes'
           /\ held' = token /\ enrol' = state
BY DEF Save, LocalTypes, SavedState

\* Requests given up on join the late ones.
LEMMA GivesUpTypes ==
    ASSUME NetworkTypes, NEW posts, posts \subseteq Posts \X TokenId,
           GivesUp(posts)
    PROVE  late' \subseteq Posts \X TokenId
BY DEF NetworkTypes, GivesUp

LEMMA PostedTypes ==
    ASSUME JobTypes, TokensPresent
    PROVE  /\ RefreshPosted \subseteq Posts \X TokenId
           /\ SignOutPosted \subseteq Posts \X TokenId
BY DEF JobTypes, TokensPresent, RefreshState, SignOutState, RefreshPosted,
       SignOutPosted, Posts, Held

LEMMA RefreshStepTypes ==
    ASSUME TypeOK, DeviceTypes, ShownInv, RefreshStep
    PROVE  DeviceTypes' /\ ShownInv'
<1> USE DEF DeviceTypes
<1>0. /\ refresh \in RefreshState /\ NoToken \in Held
      /\ TokenId \subseteq Held /\ NoToken \notin TokenId
      /\ enrol \in EnrolmentState /\ held \in Held
  BY DeviceConstants DEF JobTypes, LocalTypes, Held
<1>1. CASE RefreshStart
  <2>1. [phase |-> "sent", token |-> held, next |-> NoToken] \in RefreshState
    BY <1>0 DEF RefreshState
  <2> QED
    BY <1>1, <2>1 DEF RefreshStart, JobTypes, LocalTypes, NetworkTypes, local,
       history, TokensPresent, ShownInv, EnrolmentMatchesToken
<1>2. ASSUME NEW next \in TokenId, ServerRotates(next)
      PROVE  DeviceTypes' /\ ShownInv'
  <2>1. /\ refresh' = [refresh EXCEPT !.phase = "rotated", !.next = next]
        /\ refresh.phase = "sent"
    BY <1>2 DEF ServerRotates
  <2>2. /\ refresh' \in RefreshState
        /\ refresh'.phase = "rotated" /\ refresh'.next = next
        /\ refresh'.token = refresh.token
    BY <1>0, <2>1 DEF RefreshState
  <2> QED
    BY <1>0, <1>2, <2>1, <2>2
    DEF ServerRotates, JobTypes, LocalTypes, NetworkTypes, local, history,
        TokensPresent, ShownInv, EnrolmentMatchesToken
<1>3. CASE ServerReuses \/ ServerRefuses
  <2>1. /\ refresh' = [refresh EXCEPT !.phase = "refused"]
        /\ refresh.phase = "sent"
    BY <1>3 DEF ServerReuses, ServerRefuses
  <2>2. /\ refresh' \in RefreshState
        /\ refresh'.phase = "refused" /\ refresh'.token = refresh.token
    BY <1>0, <2>1 DEF RefreshState
  <2>3. refresh.token \in TokenId
    BY <1>0, <2>1 DEF RefreshState, TokensPresent, Held
  <2>4. NetworkTypes'
    BY <1>3, <2>3 DEF ServerReuses, ServerRefuses, NetworkTypes, history
  <2> QED
    BY <1>3, <2>1, <2>2, <2>4
    DEF ServerReuses, ServerRefuses, JobTypes, LocalTypes, local,
        TokensPresent, ShownInv, EnrolmentMatchesToken
<1>4. CASE RefreshLost
  <2>1. refresh' = Idle /\ refresh.token \in TokenId
    BY <1>0, <1>4 DEF RefreshLost, TokensPresent, RefreshState, Held
  <2>2. NetworkTypes'
    BY <1>4, <2>1, GivesUpTypes, PostedTypes
    DEF RefreshLost, NetworkTypes
  <2> QED
    BY <1>4, <2>1, <2>2, FixedTypes
    DEF RefreshLost, JobTypes, LocalTypes, local, TokensPresent, Idle,
        ShownInv, EnrolmentMatchesToken
<1>5. CASE RefreshKeeps
  <2>1. CASE /\ Save(refresh.next, enrol)
             /\ refresh' = [refresh EXCEPT !.phase = "kept"]
             /\ UNCHANGED unheard
    <3>1. refresh.next \in Held /\ refresh.next # NoToken
      BY <1>0, <1>5 DEF RefreshKeeps, RefreshState, TokensPresent
    <3>2. /\ LocalTypes' /\ held' = refresh.next /\ enrol' = enrol
      BY <1>0, <2>1, <3>1, SaveTypes
    <3>3. /\ refresh' \in RefreshState
          /\ refresh'.phase = "kept" /\ refresh'.next = refresh.next
      BY <1>0, <2>1 DEF RefreshState
    <3> QED
      BY <1>5, <2>1, <3>1, <3>2, <3>3
      DEF RefreshKeeps, JobTypes, NetworkTypes, TokensPresent, ShownInv,
          EnrolmentMatchesToken
  <2>2. CASE /\ SaveFails /\ refresh' = Idle
             /\ unheard' = unheard \cup {refresh.token}
    <3>1. refresh.token \in TokenId
      BY <1>0, <1>5 DEF RefreshKeeps, RefreshState, TokensPresent, Held
    <3> QED
      BY <1>5, <2>2, <3>1, FixedTypes
      DEF RefreshKeeps, SaveFails, JobTypes, LocalTypes, NetworkTypes, local,
          TokensPresent, Idle, ShownInv, EnrolmentMatchesToken
  <2> QED
    BY <1>5, <2>1, <2>2 DEF RefreshKeeps
<1>6. CASE RefreshConfirms
  <2>1. refresh.next \in Held /\ refresh.next # NoToken /\ refresh' = Idle
    BY <1>0, <1>6 DEF RefreshConfirms, RefreshState, TokensPresent
  <2>2. Apply("enrolling", "succeed") = "enrolled"
    BY ApplyTypes DEF EnrolmentState
  <2>3. LocalTypes' /\ held' = refresh.next /\ enrol' = "enrolled"
    BY <1>6, <2>1, <2>2, SaveTypes DEF RefreshConfirms, EnrolmentState
  <2> QED
    BY <1>6, <2>1, <2>3, FixedTypes
    DEF RefreshConfirms, JobTypes, NetworkTypes, history, TokensPresent, Idle,
        ShownInv, EnrolmentMatchesToken
<1>7. CASE RefreshUnconfirmed
  BY <1>7, FixedTypes
  DEF RefreshUnconfirmed, JobTypes, LocalTypes, NetworkTypes, local, history,
      TokensPresent, Idle, ShownInv, EnrolmentMatchesToken
<1>8. CASE RefreshRevokes
  <2>1. /\ LocalTypes'
        /\ EnrolmentMatchesToken'
    <3>1. CASE Save(NoToken, Apply(enrol, "revoke"))
      BY <1>0, <3>1, ApplyTypes, SaveTypes DEF EnrolmentMatchesToken
    <3>2. CASE SaveFails
      BY <3>2 DEF SaveFails, local, LocalTypes, ShownInv,
                  EnrolmentMatchesToken
    <3> QED
      BY <1>8, <3>1, <3>2 DEF RefreshRevokes
  <2> QED
    BY <1>8, <2>1, FixedTypes
    DEF RefreshRevokes, JobTypes, NetworkTypes, history, TokensPresent, Idle,
        ShownInv
<1> QED
  BY <1>1, <1>2, <1>3, <1>4, <1>5, <1>6, <1>7, <1>8 DEF RefreshStep

LEMMA SignInStepTypes ==
    ASSUME DeviceTypes, ShownInv, DeviceSignInStep
    PROVE  DeviceTypes' /\ ShownInv'
<1> USE DEF DeviceTypes
<1>0. /\ signIn \in SignInState /\ NoToken \in Held
      /\ TokenId \subseteq Held /\ NoToken \notin TokenId
      /\ enrol \in EnrolmentState /\ held \in Held /\ saved \in SavedState
  BY DeviceConstants DEF JobTypes, LocalTypes, Held
<1>1. ASSUME NEW c \in Call, NEW u \in User, SignInStart(c, u)
      PROVE  DeviceTypes' /\ ShownInv'
  <2>1. [phase |-> "asked", call |-> c, token |-> NoToken] \in SignInState
    BY <1>0 DEF SignInState
  <2>2. LocalTypes' /\ EnrolmentMatchesToken' /\ enrol' # "revoked"
    BY <1>0, <1>1, ApplyTypes
    DEF SignInStart, LocalTypes, ShownInv, EnrolmentMatchesToken
  <2> QED
    BY <1>1, <2>1, <2>2
    DEF SignInStart, JobTypes, NetworkTypes, history, TokensPresent, ShownInv
<1>2. ASSUME NEW c \in Call, ServerDeclines(c)
      PROVE  DeviceTypes' /\ ShownInv'
  BY <1>2 DEF ServerDeclines, deviceVars, local, jobs, history, JobTypes,
              LocalTypes, NetworkTypes, TokensPresent, ShownInv,
              EnrolmentMatchesToken
<1>3. ASSUME NEW c \in Call, NEW t \in TokenId, ServerOpens(c, t)
      PROVE  DeviceTypes' /\ ShownInv'
  <2>1. /\ signIn' \in SignInState
        /\ signIn'.phase = "opened" => signIn'.token # NoToken
    <3>1. [signIn EXCEPT !.phase = "opened", !.token = t] \in SignInState
            /\ [signIn EXCEPT !.phase = "opened", !.token = t].token = t
      BY <1>0 DEF SignInState
    <3> QED
      BY <1>0, <1>3, <3>1 DEF ServerOpens, TokensPresent
  <2> QED
    BY <1>3, <2>1
    DEF ServerOpens, JobTypes, LocalTypes, NetworkTypes, local, history,
        TokensPresent, ShownInv, EnrolmentMatchesToken
<1>4. CASE SignInSaves
  <2>1. signIn.token \in Held /\ signIn.token # NoToken
    BY <1>0, <1>4 DEF SignInSaves, SignInState, TokensPresent
  <2>2. Apply("enrolling", "succeed") = "enrolled"
    BY ApplyTypes DEF EnrolmentState
  <2>3. LocalTypes' /\ held' = signIn.token /\ enrol' = "enrolled"
    BY <1>4, <2>1, <2>2, SaveTypes DEF SignInSaves, EnrolmentState
  <2> QED
    BY <1>4, <2>1, <2>3, FixedTypes
    DEF SignInSaves, JobTypes, NetworkTypes, history, TokensPresent, NoSignIn,
        ShownInv, EnrolmentMatchesToken
<1>5. CASE SignInFails
  <2>1. /\ LocalTypes' /\ EnrolmentMatchesToken'
        /\ enrol' = "revoked" => enrol = "revoked"
    BY <1>0, <1>5, ApplyTypes
    DEF SignInFails, LocalTypes, ShownInv, EnrolmentMatchesToken
  <2> QED
    BY <1>5, <2>1, FixedTypes
    DEF SignInFails, JobTypes, NetworkTypes, history, TokensPresent, NoSignIn,
        ShownInv
<1> QED
  BY <1>1, <1>2, <1>3, <1>4, <1>5 DEF DeviceSignInStep

\* Signing a token out adds a family to those signed out.
LEMMA SignsOutTypes ==
    ASSUME IInv, NetworkTypes, NEW t, SignsOut(t)
    PROVE  out' \subseteq TokenId /\ unheard' = unheard /\ reused' = reused
<1>1. t \in DOMAIN row => row[t].family \in TokenId
  BY DEF IInv, FamilyInv, FamiliesIssued, TypeOK
<1> QED
  BY <1>1 DEF SignsOut, NetworkTypes

LEMMA SignOutStepTypes ==
    ASSUME IInv, DeviceTypes, ShownInv, SignOutStep
    PROVE  DeviceTypes' /\ ShownInv'
<1> USE DEF DeviceTypes
<1>0. /\ signOut \in SignOutState /\ NoToken \in Held
      /\ enrol \in EnrolmentState /\ held \in Held
  BY DEF JobTypes, LocalTypes, Held
<1>1. CASE SignOutStart
  <2>1. [phase |-> "sent", token |-> held] \in SignOutState
    BY <1>0 DEF SignOutState
  <2>2. /\ signOut' \in SignOutState
        /\ signOut'.phase = "sent" => signOut'.token # NoToken
    BY <1>1, <2>1, FixedTypes DEF SignOutStart
  <2> QED
    BY <1>1, <2>2
    DEF SignOutStart, JobTypes, LocalTypes, NetworkTypes, local, history,
        TokensPresent, ShownInv, EnrolmentMatchesToken
<1>2. [signOut EXCEPT !.phase = "answered"] \in SignOutState
        /\ [signOut EXCEPT !.phase = "answered"].phase = "answered"
  BY <1>0 DEF SignOutState
<1>3. CASE ServerSignsOut
  <2>1. NetworkTypes'
    BY <1>3, SignsOutTypes DEF ServerSignsOut, NetworkTypes
  <2> QED
    BY <1>2, <1>3, <2>1
    DEF ServerSignsOut, JobTypes, LocalTypes, local, TokensPresent, ShownInv,
        EnrolmentMatchesToken
<1>4. CASE SignOutLost
  <2>1. NetworkTypes'
    BY <1>4, GivesUpTypes, PostedTypes DEF SignOutLost, NetworkTypes, history
  <2> QED
    BY <1>2, <1>4, <2>1
    DEF SignOutLost, JobTypes, LocalTypes, local, TokensPresent, ShownInv,
        EnrolmentMatchesToken
<1>5. CASE SignOutSaves
  <2>1. /\ LocalTypes' /\ EnrolmentMatchesToken'
        /\ enrol' = "revoked" => enrol = "revoked"
    <3>1. CASE Save(NoToken, "notEnrolled")
      BY <1>0, <3>1, SaveTypes DEF EnrolmentState, EnrolmentMatchesToken
    <3>2. CASE SaveFails
      BY <3>2 DEF SaveFails, local, LocalTypes, ShownInv,
                  EnrolmentMatchesToken
    <3> QED
      BY <1>5, <3>1, <3>2 DEF SignOutSaves
  <2> QED
    BY <1>5, <2>1, FixedTypes
    DEF SignOutSaves, JobTypes, NetworkTypes, history, TokensPresent, ShownInv
<1> QED
  BY <1>1, <1>3, <1>4, <1>5 DEF SignOutStep

LEMMA OtherStepTypes ==
    ASSUME IInv, DeviceTypes, ShownInv,
           Configure \/ Relaunch \/ LateStep \/ ServerStep
    PROVE  DeviceTypes' /\ ShownInv'
<1> USE DEF DeviceTypes
<1>0. /\ refresh \in RefreshState /\ saved \in SavedState
      /\ NoToken \in Held /\ enrol \in EnrolmentState
  BY DEF JobTypes, LocalTypes, Held
<1>1. CASE Configure
  <2>1. LocalTypes' /\ held' = NoToken /\ enrol' = "notEnrolled"
    BY <1>0, <1>1, SaveTypes DEF Configure, EnrolmentState
  <2> QED
    BY <1>1, <2>1
    DEF Configure, JobTypes, NetworkTypes, jobs, history, TokensPresent,
        ShownInv, EnrolmentMatchesToken
<1>2. CASE Relaunch
  <2>1. /\ refresh' = Idle /\ signIn' = NoSignIn
        /\ signOut' = [phase |-> "idle", token |-> NoToken]
        /\ GivesUp(RefreshPosted \cup SignOutPosted)
        /\ saved' = saved /\ UNCHANGED <<reused, out>>
    BY <1>2 DEF Relaunch, Forgets
  <2>2. unheard' \subseteq TokenId
    <3>1. refresh.phase \in {"sent", "rotated", "refused"}
            => refresh.token \in TokenId
      BY <1>0 DEF RefreshState, TokensPresent, Held
    <3> QED
      BY <1>2, <3>1 DEF Relaunch, Forgets, NetworkTypes
  <2>3. late' \subseteq Posts \X TokenId
    BY <2>1, GivesUpTypes, PostedTypes
  <2>4. LocalTypes' /\ EnrolmentMatchesToken'
    <3>1. CASE held' = NoToken /\ enrol' = "notEnrolled"
      BY <1>0, <2>1, <3>1
      DEF LocalTypes, EnrolmentState, EnrolmentMatchesToken
    <3>2. CASE /\ held' = saved.token
               /\ enrol' = IF saved.token # NoToken THEN "enrolled"
                           ELSE IF saved.revoked THEN "revoked"
                                                 ELSE "notEnrolled"
      BY <1>0, <2>1, <3>2
      DEF SavedState, LocalTypes, EnrolmentState, EnrolmentMatchesToken
    <3> QED
      BY <1>2, <3>1, <3>2 DEF Relaunch
  <2> QED
    BY <2>1, <2>2, <2>3, <2>4, FixedTypes
    DEF JobTypes, NetworkTypes, TokensPresent, Idle, NoSignIn, ShownInv
<1>3. CASE LateStep
  <2>1. PICK t \in TokenId : LateRefresh(t) \/ LateSignOut(t)
    BY <1>3 DEF LateStep
  <2>2. UNCHANGED <<local, jobs>> /\ late' \subseteq late
    BY <2>1 DEF LateRefresh, LateSignOut, Arrives
  <2>3. NetworkTypes'
    <3>1. CASE LateSignOut(t)
      BY <2>2, <3>1, SignsOutTypes DEF LateSignOut, NetworkTypes
    <3>2. CASE LateRefresh(t)
      BY <2>1, <2>2, <3>2 DEF LateRefresh, NetworkTypes, history
    <3> QED
      BY <2>1, <3>1, <3>2
  <2> QED
    BY <2>2, <2>3 DEF local, jobs, JobTypes, LocalTypes, TokensPresent,
                      ShownInv, EnrolmentMatchesToken
<1>4. CASE ServerStep
  BY <1>4 DEF ServerStep, deviceVars, local, jobs, history, JobTypes,
              LocalTypes, NetworkTypes, TokensPresent, ShownInv,
              EnrolmentMatchesToken
<1> QED
  BY <1>1, <1>2, <1>3, <1>4

LEMMA InitDeviceTypes == ASSUME DeviceInit PROVE DeviceTypes /\ ShownInv
<1>1. LocalTypes
  BY DEF DeviceInit, LocalTypes, Held, EnrolmentState, SavedState
<1>2. JobTypes
  BY FixedTypes DEF DeviceInit, JobTypes
<1>3. NetworkTypes
  BY DEF DeviceInit, NetworkTypes
<1>4. TokensPresent /\ ShownInv
  BY DEF DeviceInit, TokensPresent, ShownInv, EnrolmentMatchesToken, Idle,
         NoSignIn
<1> QED
  BY <1>1, <1>2, <1>3, <1>4 DEF DeviceTypes

LEMMA DeviceStepTypes ==
    ASSUME IInv, DeviceTypes, ShownInv, [DeviceNext]_allVars
    PROVE  DeviceTypes' /\ ShownInv'
<1>1. CASE DeviceNext
  BY <1>1, RefreshStepTypes, SignInStepTypes, SignOutStepTypes, OtherStepTypes
  DEF DeviceNext, IInv
<1>2. CASE UNCHANGED allVars
  BY <1>2 DEF allVars, deviceVars, local, jobs, history, DeviceTypes,
              JobTypes, LocalTypes, NetworkTypes, TokensPresent, ShownInv,
              EnrolmentMatchesToken
<1> QED
  BY <1>1, <1>2

-----------------------------------------------------------------------------
\* What the steps do to the stored tokens

Rotated == {t \in DOMAIN row : row[t].rotated}

\* No row is added, rotated or restored.
KeepsRows ==
    /\ issued \subseteq issued'
    /\ \A x \in DOMAIN row' :
         /\ x \in DOMAIN row
         /\ row'[x].family = row[x].family
         /\ row'[x].rotated => row[x].rotated
         /\ row[x].revoked => row'[x].revoked

\* A family signed out is revoked, and stays it.
OutInv ==
    /\ out \subseteq issued
    /\ \A t \in DOMAIN row : row[t].family \in out => row[t].revoked

LEMMA RevokingKeepsRows ==
    ASSUME IInv, NEW S, row' = Revoked(row, S), issued' = issued
    PROVE  KeepsRows /\ \A x \in DOMAIN row' : x \in S => row'[x].revoked
<1>1. DOMAIN row' = DOMAIN row
  BY DEF Revoked
<1>2. ASSUME NEW x \in DOMAIN row
      PROVE  /\ row'[x].family = row[x].family
             /\ row'[x].rotated => row[x].rotated
             /\ row[x].revoked => row'[x].revoked
             /\ x \in S => row'[x].revoked
  <2>1. row[x] \in RefreshFamily
    BY DEF IInv, FamilyInv
  <2>2. CASE x \in S
    <3>1. row'[x] = [row[x] EXCEPT !.revoked = TRUE]
      BY <2>2 DEF Revoked
    <3> QED
      BY <2>1, <3>1 DEF RefreshFamily
  <2>3. CASE x \notin S
    BY <2>3 DEF Revoked
  <2> QED
    BY <2>2, <2>3
<1> QED
  BY <1>1, <1>2 DEF KeepsRows

LEMMA SameRows == ASSUME UNCHANGED <<issued, row>> PROVE KeepsRows
BY DEF KeepsRows

\* The server's other work rotates no token and opens no session.
LEMMA ServerStepKeepsRows == ASSUME IInv, ServerStep PROVE KeepsRows
<1>1. CASE RevokeDevice(Self)
  BY <1>1, RevokingKeepsRows DEF RevokeDevice
<1>2. ASSUME NEW c \in Call, ChangeCommit(c)
      PROVE  KeepsRows
  <2>1. issued' = issued
    BY <1>2 DEF ChangeCommit
  <2>2. CASE row' = Revoked(row, RowsOfUser(call[c].user))
    BY <2>1, <2>2, RevokingKeepsRows
  <2>3. CASE row' = row
    BY <2>1, <2>3, SameRows
  <2> QED
    BY <1>2, <2>2, <2>3 DEF ChangeCommit
<1>3. ASSUME NEW c \in Call,
             \/ \E u \in User : ChangeBegin(c, u) \/ EditBegin(c, u)
             \/ EditCommit(c) \/ Abandon(c)
      PROVE  KeepsRows
  BY <1>3, SameRows DEF ChangeBegin, EditBegin, EditCommit, Abandon, tokens
<1>4. ASSUME NEW t \in TokenId, PurgeToken(t)
      PROVE  KeepsRows
  <2>1. /\ row' = [x \in DOMAIN row \ {t} |-> row[x]]
        /\ issued' = issued
    BY <1>4 DEF PurgeToken
  <2> QED
    BY <2>1 DEF KeepsRows
<1>5. CASE Tick
  <2>1. /\ row' = [t \in DOMAIN row |-> [row[t] EXCEPT !.ttl = Down(@)]]
        /\ issued' = issued
    BY <1>5 DEF Tick
  <2>2. \A t \in DOMAIN row : row[t] \in RefreshFamily
    BY DEF IInv, FamilyInv
  <2> QED
    BY <2>1, <2>2 DEF KeepsRows, RefreshFamily
<1> QED
  BY <1>1, <1>2, <1>3, <1>4, <1>5 DEF ServerStep, AccountStep

\* Rows that are kept keep what was rotated and what was signed out.
LEMMA KeptRows ==
    ASSUME KeepsRows, OutInv
    PROVE  /\ Rotated' \subseteq Rotated
           /\ out' = out => OutInv'
BY DEF KeepsRows, OutInv, Rotated

LEMMA ReuseKeepsRows ==
    ASSUME IInv, NEW t, Reuse(t) \/ SignOut(t)
    PROVE  KeepsRows
BY RevokingKeepsRows DEF Reuse, SignOut

LEMMA SignsOutRows ==
    ASSUME IInv, OutInv, NEW t, SignsOut(t)
    PROVE  KeepsRows /\ OutInv'
<1>1. CASE t \in DOMAIN row
  <2>1. /\ row' = Revoked(row, FamilyOf(t)) /\ issued' = issued
        /\ out' = out \cup {row[t].family}
    BY <1>1 DEF SignsOut, SignOut
  <2>2. /\ KeepsRows
        /\ \A x \in DOMAIN row' : x \in FamilyOf(t) => row'[x].revoked
    BY <2>1, RevokingKeepsRows
  <2>3. row[t].family \in issued
    BY <1>1 DEF IInv, FamilyInv, FamiliesIssued
  <2> QED
    BY <2>1, <2>2, <2>3 DEF KeepsRows, OutInv, FamilyOf
<1>2. CASE t \notin DOMAIN row
  BY <1>2, SameRows, KeptRows DEF SignsOut, vars
<1> QED
  BY <1>1, <1>2

\* A rotation marks one token and adds an unrotated one to its family.
LEMMA RotateRows ==
    ASSUME IInv, OutInv, NEW t, NEW next, Rotate(t, next)
    PROVE  /\ next \in TokenId \ issued /\ issued' = issued \cup {next}
           /\ Rotated' \subseteq Rotated \cup {t}
           /\ out' = out => OutInv'
<1>1. /\ t \in DOMAIN row /\ ~row[t].revoked
      /\ next \in TokenId \ issued /\ issued' = issued \cup {next}
      /\ row[t] \in RefreshFamily
      /\ DOMAIN row \subseteq issued
  BY DEF Rotate, Presentable, IInv, FamilyInv
<1> DEFINE new == NewRow(row[t].family, row[t].user, row[t].device,
                         row[t].password)
           old == [row[t] EXCEPT !.rotated = TRUE]
<1>2. new.family = row[t].family /\ ~new.rotated
  BY DEF NewRow
<1>3. old.family = row[t].family /\ ~old.revoked
  BY <1>1 DEF RefreshFamily
<1>4. /\ DOMAIN row' = DOMAIN row \cup {next}
      /\ row'[next] = new /\ row'[t] = old
      /\ \A x \in DOMAIN row \ {t} : row'[x] = row[x]
  BY <1>1 DEF Rotate, WithRow
<1> HIDE DEF new, old
<1>5. Rotated' \subseteq Rotated \cup {t}
  BY <1>1, <1>2, <1>4 DEF Rotated
<1>6. ASSUME out' = out
      PROVE  OutInv'
  BY <1>1, <1>2, <1>3, <1>4, <1>6 DEF OutInv
<1> QED
  BY <1>1, <1>5, <1>6

\* A sign in adds an unrotated token that is a family of its own.
LEMMA OpenRows ==
    ASSUME IInv, OutInv, NEW c, NEW t, LoginCommit(c, t)
    PROVE  /\ t \in TokenId \ issued /\ issued' = issued \cup {t}
           /\ Rotated' \subseteq Rotated
           /\ out' = out => OutInv'
<1> DEFINE new == NewRow(t, call[c].user, call[c].device,
                         call[c].held.hash.password)
<1>1. /\ t \in TokenId \ issued /\ issued' = issued \cup {t}
      /\ row' = WithRow(row, t, new) /\ DOMAIN row \subseteq issued
  BY DEF LoginCommit, IInv, FamilyInv
<1>2. new.family = t /\ ~new.rotated
  BY DEF NewRow
<1>3. /\ DOMAIN row' = DOMAIN row \cup {t} /\ row'[t] = new
      /\ \A x \in DOMAIN row : row'[x] = row[x]
  BY <1>1 DEF WithRow
<1> HIDE DEF new
<1> QED
  BY <1>1, <1>2, <1>3 DEF OutInv, Rotated

-----------------------------------------------------------------------------
\* Why only a lost answer costs the session

\* The tokens of the device are its own and apart: what a sign in brought home
\* is no token the device held before.
TokensApart ==
    /\ {saved.token, refresh.token, refresh.next, signIn.token}
         \subseteq issued \cup {NoToken}
    /\ held \in {saved.token, NoToken}
    /\ signIn.token # NoToken
         => signIn.token \notin {saved.token, refresh.token, refresh.next}

\* A rotated token the device may still present is one whose answer it did not
\* hear, but for the moment between a rotation and its successor's storage.
LossInv ==
    /\ reused \subseteq unheard
    /\ \A t \in TokenId : <<"refresh", t>> \in late => t \in unheard
    /\ refresh.phase = "sent" /\ refresh.token \in Rotated
         => refresh.token \in unheard
    /\ saved.token \in Rotated
         => \/ saved.token \in unheard
            \/ refresh.phase = "rotated" /\ refresh.token = saved.token
    /\ refresh.next \in Rotated => refresh.next \in unheard
    /\ signIn.token \in Rotated => signIn.token \in unheard

HistoryInv == TokensApart /\ LossInv /\ OutInv

LEMMA NoTokenApart ==
    ASSUME IInv
    PROVE  /\ NoToken \notin issued /\ NoToken \notin Rotated
           /\ issued \subseteq TokenId /\ Rotated \subseteq issued
BY DeviceConstants DEF IInv, TypeOK, Rotated

\* Steps that leave the device alone and only shrink what is rotated.
LEMMA AwayKeepsLoss ==
    ASSUME TokensApart, LossInv, UNCHANGED <<local, jobs, history>>,
           late' \subseteq late, Rotated' \subseteq Rotated,
           issued \subseteq issued'
    PROVE  TokensApart' /\ LossInv'
BY DEF TokensApart, LossInv, local, jobs, history

\* A refresh that fails leaves its token among the unheard.
LEMMA RefreshStepHistory ==
    ASSUME IInv, DeviceTypes, HistoryInv, RefreshStep
    PROVE  HistoryInv'
<1> USE DEF HistoryInv
<1>0. refresh \in RefreshState
  BY DEF DeviceTypes, JobTypes
<1>n. /\ NoToken \notin issued /\ NoToken \notin Rotated
      /\ issued \subseteq TokenId /\ Rotated \subseteq issued
  BY NoTokenApart
<1>v. ASSUME UNCHANGED vars
      PROVE  /\ Rotated' = Rotated /\ issued' = issued
             /\ out' = out => OutInv'
  BY <1>v DEF vars, tokens, Rotated, OutInv
<1>1. CASE RefreshStart
  <2>1. UNCHANGED vars /\ out' = out
    BY <1>1 DEF RefreshStart, history
  <2> QED
    BY <1>1, <1>n, <1>v, <2>1
    DEF RefreshStart, TokensApart, LossInv, local, history
<1>2. ASSUME NEW next \in TokenId, ServerRotates(next)
      PROVE  HistoryInv'
  <2>1. /\ refresh.phase = "sent"
        /\ refresh' = [refresh EXCEPT !.phase = "rotated", !.next = next]
        /\ Rotate(refresh.token, next)
        /\ UNCHANGED <<local, signIn, signOut, late, history>>
    BY <1>2 DEF ServerRotates
  <2>2. /\ refresh'.phase = "rotated" /\ refresh'.next = next
        /\ refresh'.token = refresh.token
    BY <1>0, <2>1 DEF RefreshState
  <2>3. /\ next \in TokenId \ issued /\ issued' = issued \cup {next}
        /\ Rotated' \subseteq Rotated \cup {refresh.token}
        /\ OutInv'
    BY <2>1, RotateRows DEF history
  <2>4. refresh.token \in issued /\ refresh.token # NoToken
    BY <1>n, <2>1 DEF Rotate, Presentable, IInv, FamilyInv
  <2>5. TokensApart'
    BY <1>n, <2>1, <2>2, <2>3 DEF TokensApart, local
  <2>6. next \notin Rotated' /\ signIn.token # refresh.token
    BY <1>n, <2>3, <2>4 DEF TokensApart
  <2>7. LossInv'
    BY <2>1, <2>2, <2>3, <2>6 DEF LossInv, local, history
  <2> QED
    BY <2>3, <2>5, <2>7
<1>3. CASE ServerReuses
  <2>1. /\ refresh.phase = "sent" /\ Reuse(refresh.token)
        /\ refresh' = [refresh EXCEPT !.phase = "refused"]
        /\ reused' = reused \cup {refresh.token}
        /\ UNCHANGED <<local, signIn, signOut, late, unheard, out>>
    BY <1>3 DEF ServerReuses
  <2>2. /\ refresh'.phase = "refused" /\ refresh'.next = refresh.next
        /\ refresh'.token = refresh.token
    BY <1>0, <2>1 DEF RefreshState
  <2>3. Rotated' \subseteq Rotated /\ OutInv' /\ issued \subseteq issued'
    BY <2>1, ReuseKeepsRows, KeptRows DEF KeepsRows
  <2>4. refresh.token \in Rotated
    BY <2>1 DEF Reuse, Presentable, Rotated
  <2> QED
    BY <2>1, <2>2, <2>3, <2>4 DEF TokensApart, LossInv, local
<1>4. CASE ServerRefuses
  <2>1. /\ refresh' = [refresh EXCEPT !.phase = "refused"]
        /\ UNCHANGED <<vars, local, signIn, signOut, late, history>>
        /\ refresh.phase = "sent"
    BY <1>4 DEF ServerRefuses
  <2>2. /\ refresh'.phase = "refused" /\ refresh'.next = refresh.next
        /\ refresh'.token = refresh.token
    BY <1>0, <2>1 DEF RefreshState
  <2> QED
    BY <1>v, <2>1, <2>2 DEF TokensApart, LossInv, local, history
<1>5. CASE RefreshLost
  <2>1. /\ refresh' = Idle /\ GivesUp(RefreshPosted)
        /\ unheard' = unheard \cup {refresh.token}
        /\ UNCHANGED <<vars, local, signIn, signOut, reused, out>>
    BY <1>5 DEF RefreshLost
  <2>2. \A t \in TokenId : <<"refresh", t>> \in late' => t \in unheard'
    BY <2>1 DEF GivesUp, RefreshPosted, LossInv
  <2> QED
    BY <1>n, <1>v, <2>1, <2>2 DEF TokensApart, LossInv, local, Idle
<1>6. CASE RefreshKeeps
  <2>1. /\ refresh.phase = "rotated"
        /\ UNCHANGED <<vars, signIn, signOut, late, reused, out>>
    BY <1>6 DEF RefreshKeeps
  <2>2. CASE /\ Save(refresh.next, enrol)
             /\ refresh' = [refresh EXCEPT !.phase = "kept"]
             /\ UNCHANGED unheard
    <3>1. /\ refresh'.phase = "kept" /\ refresh'.next = refresh.next
          /\ refresh'.token = refresh.token
      BY <1>0, <2>2 DEF RefreshState
    <3>2. held' = refresh.next /\ saved'.token = refresh.next
      BY <2>2 DEF Save
    <3> QED
      BY <1>v, <2>1, <2>2, <3>1, <3>2 DEF TokensApart, LossInv
  <2>3. CASE /\ SaveFails /\ refresh' = Idle
             /\ unheard' = unheard \cup {refresh.token}
    BY <1>n, <1>v, <2>1, <2>3 DEF SaveFails, TokensApart, LossInv, local, Idle
  <2> QED
    BY <1>6, <2>2, <2>3 DEF RefreshKeeps
<1>7. CASE RefreshConfirms
  <2>1. /\ refresh' = Idle
        /\ UNCHANGED <<vars, signIn, signOut, late, history>>
        /\ held' = refresh.next /\ saved'.token = refresh.next
    BY <1>7 DEF RefreshConfirms, Save
  <2> QED
    BY <1>n, <1>v, <2>1 DEF TokensApart, LossInv, history, Idle
<1>8. CASE RefreshUnconfirmed
  <2>1. /\ refresh' = Idle /\ refresh.phase = "kept"
        /\ UNCHANGED <<vars, local, signIn, signOut, late, history>>
    BY <1>8 DEF RefreshUnconfirmed
  <2> QED
    BY <1>n, <1>v, <2>1 DEF TokensApart, LossInv, local, history, Idle
<1>9. CASE RefreshRevokes
  <2>1. /\ refresh' = Idle /\ refresh.phase = "refused"
        /\ UNCHANGED <<vars, signIn, signOut, late, history>>
        /\ \/ held' = NoToken /\ saved'.token = NoToken
           \/ UNCHANGED local
    BY <1>9 DEF RefreshRevokes, Save, SaveFails
  <2> QED
    BY <1>n, <1>v, <2>1 DEF TokensApart, LossInv, local, history, Idle
<1> QED
  BY <1>1, <1>2, <1>3, <1>4, <1>5, <1>6, <1>7, <1>8, <1>9 DEF RefreshStep

LEMMA SignInStepHistory ==
    ASSUME IInv, DeviceTypes, HistoryInv, DeviceSignInStep
    PROVE  HistoryInv'
<1> USE DEF HistoryInv
<1>0. signIn \in SignInState
  BY DEF DeviceTypes, JobTypes
<1>n. /\ NoToken \notin issued /\ NoToken \notin Rotated
      /\ issued \subseteq TokenId /\ Rotated \subseteq issued
  BY NoTokenApart
<1>v. ASSUME UNCHANGED <<issued, row, out>>
      PROVE  Rotated' = Rotated /\ OutInv'
  BY <1>v DEF Rotated, OutInv
<1>1. ASSUME NEW c \in Call, NEW u \in User, SignInStart(c, u)
      PROVE  HistoryInv'
  <2>1. /\ UNCHANGED <<issued, row>>
        /\ signIn'.token = NoToken
        /\ UNCHANGED <<held, saved, refresh, signOut, late, history>>
    BY <1>1 DEF SignInStart, LoginBegin, tokens
  <2> QED
    BY <1>n, <1>v, <2>1 DEF TokensApart, LossInv, history
<1>2. ASSUME NEW c \in Call, ServerDeclines(c)
      PROVE  HistoryInv'
  <2>1. UNCHANGED <<issued, row>> /\ UNCHANGED deviceVars
    BY <1>2 DEF ServerDeclines, LoginRefused, NoteAddressFailure,
                NoteAccountFailure, tokens
  <2> QED
    BY <1>v, <2>1, AwayKeepsLoss DEF deviceVars, history
<1>3. ASSUME NEW c \in Call, NEW t \in TokenId, ServerOpens(c, t)
      PROVE  HistoryInv'
  <2>1. /\ LoginCommit(c, t)
        /\ UNCHANGED <<local, refresh, signOut, late, history>>
        /\ \/ signIn' = [signIn EXCEPT !.phase = "opened", !.token = t]
           \/ signIn' = signIn
    BY <1>3 DEF ServerOpens
  <2>2. /\ t \in TokenId \ issued /\ issued' = issued \cup {t}
        /\ Rotated' \subseteq Rotated /\ OutInv'
    BY <2>1, OpenRows DEF history
  <2>3. signIn'.token \in {t, signIn.token}
    BY <1>0, <2>1 DEF SignInState
  <2>4. TokensApart'
    BY <1>n, <2>1, <2>2, <2>3 DEF TokensApart, local
  <2>5. LossInv'
    BY <1>n, <2>1, <2>2, <2>3 DEF LossInv, local, history
  <2> QED
    BY <2>2, <2>4, <2>5
<1>4. CASE SignInSaves
  <2>1. /\ signIn' = NoSignIn
        /\ UNCHANGED <<vars, refresh, signOut, late, history>>
        /\ held' = signIn.token /\ saved'.token = signIn.token
    BY <1>4 DEF SignInSaves, Save
  <2> QED
    BY <1>n, <1>v, <2>1
    DEF vars, tokens, TokensApart, LossInv, history, NoSignIn
<1>5. CASE SignInFails
  <2>1. /\ signIn' = NoSignIn
        /\ UNCHANGED <<vars, held, saved, refresh, signOut, late, history>>
    BY <1>5 DEF SignInFails
  <2> QED
    BY <1>n, <1>v, <2>1
    DEF vars, tokens, TokensApart, LossInv, history, NoSignIn
<1> QED
  BY <1>1, <1>2, <1>3, <1>4, <1>5 DEF DeviceSignInStep

LEMMA SignOutStepHistory ==
    ASSUME IInv, DeviceTypes, HistoryInv, SignOutStep
    PROVE  HistoryInv'
<1> USE DEF HistoryInv
<1>n. NoToken \notin issued /\ NoToken \notin Rotated
  BY NoTokenApart
<1>v. ASSUME UNCHANGED vars
      PROVE  /\ Rotated' = Rotated /\ issued' = issued
             /\ out' = out => OutInv'
  BY <1>v DEF vars, tokens, Rotated, OutInv
<1>1. CASE SignOutStart
  <2>1. UNCHANGED <<vars, local, refresh, signIn, late, history>>
    BY <1>1 DEF SignOutStart
  <2> QED
    BY <1>v, <2>1 DEF TokensApart, LossInv, local, history
<1>2. CASE ServerSignsOut
  <2>1. /\ SignsOut(signOut.token)
        /\ UNCHANGED <<local, refresh, signIn, late, unheard, reused>>
    BY <1>2 DEF ServerSignsOut, SignsOut
  <2>2. KeepsRows /\ OutInv'
    BY <2>1, SignsOutRows
  <2>3. Rotated' \subseteq Rotated /\ issued \subseteq issued'
    BY <2>2, KeptRows DEF KeepsRows
  <2> QED
    BY <2>1, <2>2, <2>3 DEF TokensApart, LossInv, local
<1>3. CASE SignOutLost
  <2>1. /\ GivesUp(SignOutPosted)
        /\ UNCHANGED <<vars, local, refresh, signIn, history>>
    BY <1>3 DEF SignOutLost
  <2>2. \A t \in TokenId : <<"refresh", t>> \in late' => t \in unheard'
    BY <2>1 DEF GivesUp, SignOutPosted, LossInv, history
  <2> QED
    BY <1>v, <2>1, <2>2 DEF TokensApart, LossInv, local, history
<1>4. CASE SignOutSaves
  <2>1. /\ UNCHANGED <<vars, refresh, signIn, late, history>>
        /\ \/ held' = NoToken /\ saved'.token = NoToken
           \/ UNCHANGED local
    BY <1>4 DEF SignOutSaves, Save, SaveFails
  <2> QED
    BY <1>n, <1>v, <2>1 DEF TokensApart, LossInv, local, history
<1> QED
  BY <1>1, <1>2, <1>3, <1>4 DEF SignOutStep

LEMMA OtherStepHistory ==
    ASSUME IInv, DeviceTypes, HistoryInv,
           Configure \/ Relaunch \/ LateStep \/ ServerStep
    PROVE  HistoryInv'
<1> USE DEF HistoryInv
<1>n. NoToken \notin issued /\ NoToken \notin Rotated
  BY NoTokenApart
<1>v. ASSUME UNCHANGED vars
      PROVE  /\ Rotated' = Rotated /\ issued' = issued
             /\ out' = out => OutInv'
  BY <1>v DEF vars, tokens, Rotated, OutInv
<1>1. CASE Configure
  <2>1. /\ UNCHANGED <<vars, jobs, late, history>>
        /\ held' = NoToken /\ saved'.token = NoToken
    BY <1>1 DEF Configure, Save
  <2> QED
    BY <1>n, <1>v, <2>1 DEF TokensApart, LossInv, jobs, history
<1>2. CASE Relaunch
  <2>1. /\ refresh' = Idle /\ signIn' = NoSignIn
        /\ GivesUp(RefreshPosted \cup SignOutPosted)
        /\ unheard' = IF refresh.phase \in {"sent", "rotated", "refused"}
                      THEN unheard \cup {refresh.token} ELSE unheard
        /\ UNCHANGED <<vars, saved, reused, out>>
        /\ held' \in {saved.token, NoToken}
    BY <1>2 DEF Relaunch, Forgets
  <2>2. \A t \in TokenId : <<"refresh", t>> \in late' => t \in unheard'
    BY <2>1 DEF GivesUp, RefreshPosted, SignOutPosted, LossInv
  <2>3. TokensApart'
    BY <1>v, <2>1 DEF TokensApart, Idle, NoSignIn
  <2>4. LossInv'
    BY <1>n, <1>v, <2>1, <2>2 DEF LossInv, Idle, NoSignIn
  <2> QED
    BY <1>v, <2>1, <2>3, <2>4
<1>3. CASE LateStep
  <2>1. PICK t \in TokenId : LateRefresh(t) \/ LateSignOut(t)
    BY <1>3 DEF LateStep
  <2>2. UNCHANGED <<local, jobs>> /\ late' \subseteq late
    BY <2>1 DEF LateRefresh, LateSignOut, Arrives
  <2>3. CASE LateSignOut(t)
    <3>1. SignsOut(t) /\ UNCHANGED <<unheard, reused>>
      BY <2>3 DEF LateSignOut, SignsOut
    <3>2. KeepsRows /\ OutInv'
      BY <3>1, SignsOutRows
    <3>3. Rotated' \subseteq Rotated /\ issued \subseteq issued'
      BY <3>2, KeptRows DEF KeepsRows
    <3> QED
      BY <2>2, <3>1, <3>2, <3>3 DEF TokensApart, LossInv, local, jobs
  <2>4. CASE LateRefresh(t)
    <3>0. t \in unheard
      BY <2>4 DEF LateRefresh, Arrives, LossInv
    <3>1. ASSUME NEW next \in TokenId, Rotate(t, next), UNCHANGED history
          PROVE  HistoryInv'
      <4>1. /\ next \in TokenId \ issued /\ issued' = issued \cup {next}
            /\ Rotated' \subseteq Rotated \cup {t} /\ OutInv'
        BY <3>1, RotateRows DEF history
      <4>2. TokensApart'
        BY <2>2, <4>1 DEF TokensApart, local, jobs
      <4>3. LossInv'
        BY <2>2, <3>0, <3>1, <4>1 DEF LossInv, local, jobs, history
      <4> QED
        BY <4>1, <4>2, <4>3
    <3>2. CASE /\ Reuse(t) /\ reused' = reused \cup {t}
               /\ UNCHANGED <<unheard, out>>
      <4>1. Rotated' \subseteq Rotated /\ OutInv' /\ issued \subseteq issued'
        BY <3>2, ReuseKeepsRows, KeptRows DEF KeepsRows
      <4> QED
        BY <2>2, <3>0, <3>2, <4>1 DEF TokensApart, LossInv, local, jobs
    <3>3. CASE Refuses(t) /\ UNCHANGED <<vars, history>>
      BY <1>v, <2>2, <3>3, AwayKeepsLoss DEF history
    <3> QED
      BY <2>4, <3>1, <3>2, <3>3 DEF LateRefresh
  <2> QED
    BY <2>1, <2>3, <2>4
<1>4. CASE ServerStep
  <2>1. KeepsRows /\ UNCHANGED deviceVars
    BY <1>4, ServerStepKeepsRows DEF ServerStep
  <2>2. Rotated' \subseteq Rotated /\ OutInv' /\ issued \subseteq issued'
    BY <2>1, KeptRows DEF KeepsRows, deviceVars, history
  <2> QED
    BY <2>1, <2>2, AwayKeepsLoss DEF deviceVars
<1> QED
  BY <1>1, <1>2, <1>3, <1>4

LEMMA InitHistory == ASSUME DeviceInit PROVE HistoryInv
<1>1. row = [t \in {} |-> NoUser] /\ DOMAIN row = {} /\ issued = {}
  BY DEF DeviceInit, Init
<1> QED
  BY <1>1 DEF DeviceInit, HistoryInv, TokensApart, LossInv, OutInv, Rotated,
              Idle, NoSignIn

LEMMA StepHistory ==
    ASSUME IInv, DeviceTypes, HistoryInv, [DeviceNext]_allVars
    PROVE  HistoryInv'
<1>1. CASE DeviceNext
  BY <1>1, RefreshStepHistory, SignInStepHistory, SignOutStepHistory,
     OtherStepHistory DEF DeviceNext
<1>2. CASE UNCHANGED allVars
  BY <1>2 DEF allVars, vars, tokens, deviceVars, local, jobs, history,
              HistoryInv, TokensApart, LossInv, OutInv, Rotated
<1> QED
  BY <1>1, <1>2

\* The inductive invariant of the device beside that of the sessions.
LEMMA DeviceInductive ==
    DeviceSpec => [](IInv /\ DeviceTypes /\ ShownInv /\ HistoryInv)
<1>1. DeviceInit => DeviceTypes /\ ShownInv /\ HistoryInv
  BY InitDeviceTypes, InitHistory
<1>2. IInv /\ DeviceTypes /\ ShownInv /\ HistoryInv /\ [DeviceNext]_allVars
        => DeviceTypes' /\ ShownInv' /\ HistoryInv'
  BY DeviceStepTypes, StepHistory
<1> QED
  BY <1>1, <1>2, SessionsInOrder, PTL DEF DeviceSpec

-----------------------------------------------------------------------------
\* The theorems

\* The device and the network keep their types.
THEOREM DeviceTypeCorrect == DeviceSpec => []DeviceTypeOK
<1>1. IInv /\ DeviceTypes => DeviceTypeOK
  BY DeviceTypeSplit DEF IInv, DeviceTypes
<1> QED
  BY <1>1, DeviceInductive, PTL

\* Enrolled is shown with a token held and revoked without one, whichever of
\* the jobs that interleave on the device stored last.
THEOREM EnrolmentShown == DeviceSpec => []EnrolmentMatchesToken
<1>1. ShownInv => EnrolmentMatchesToken
  BY DEF ShownInv
<1> QED
  BY <1>1, DeviceInductive, PTL

\* The server never takes a token for reused unless an answer was lost or a
\* successor could not be stored, however the device's jobs interleave and
\* whatever arrives late.
THEOREM OnlyLossIsReuse == DeviceSpec => []ReuseOnlyAfterLoss
<1>1. HistoryInv => ReuseOnlyAfterLoss
  BY DEF HistoryInv, LossInv, ReuseOnlyAfterLoss
<1> QED
  BY <1>1, DeviceInductive, PTL

\* Once the server handled a sign out, what the device still stores of that
\* family cannot be refreshed.
THEOREM SignOutIsFinal == DeviceSpec => []SignOutHolds
<1>1. HistoryInv => SignOutHolds
  BY DEF HistoryInv, OutInv, SignOutHolds, Presentable
<1> QED
  BY <1>1, DeviceInductive, PTL

=============================================================================
