--------------------------- MODULE DeviceSession ---------------------------
(***************************************************************************)
(* The session one device keeps (core/backend/backend_session.dart) over   *)
(* the sessions of the server: sign in, silent refresh, sign out, a kill   *)
(* of the app, and requests and answers that are lost or late.             *)
(*                                                                         *)
(* The jobs of the device interleave at every await; a request and its     *)
(* answer are steps of their own, and the server's are those of            *)
(* AccountSessions.  _save is one step: the secret is written and the      *)
(* fields set, or nothing is.                                              *)
(***************************************************************************)
EXTENDS AccountSessions

CONSTANTS
    Self,       \* the device
    NoToken,
    LateLimit   \* bound: lost requests that may yet arrive, at a time

ASSUME DeviceConstants == Self \in Device /\ NoToken \notin TokenId
                            /\ LateLimit \in Nat

VARIABLES
    held,       \* _tokens
    enrol,      \* _config.state
    saved,      \* the secret backendSession
    refresh,    \* _refreshing, and how far it has come
    signIn,     \* the sign in of the sign-in screen
    signOut,    \* the sign out of the account panel
    late,       \* requests the device gave up on that may yet arrive
    unheard,    \* tokens of refreshes the device had no answer to (history)
    reused,     \* tokens the server took for reused (history)
    out         \* families whose sign out the server handled (history)

local == <<held, enrol, saved>>
jobs == <<refresh, signIn, signOut>>
history == <<unheard, reused, out>>
deviceVars == <<local, jobs, late, history>>
allVars == <<vars, deviceVars>>

Held == TokenId \cup {NoToken}
EnrolmentState == {"notEnrolled", "enrolling", "enrolled", "revoked"}
Idle == [phase |-> "idle", token |-> NoToken, next |-> NoToken]
NoSignIn == [phase |-> "idle", call |-> NoCall, token |-> NoToken]
Posts == {"refresh", "logout"}

DeviceTypeOK ==
    /\ TypeOK
    /\ held \in Held
    /\ enrol \in EnrolmentState
    /\ saved \in [token : Held, revoked : BOOLEAN]
    /\ refresh \in
         [phase : {"idle", "sent", "rotated", "refused", "kept"},
          token : Held, next : Held]
    /\ signIn \in [phase : {"idle", "asked", "opened"},
                   call : Call \cup {NoCall}, token : Held]
    /\ signOut \in [phase : {"idle", "sent", "answered"}, token : Held]
    /\ late \subseteq Posts \X TokenId
    /\ unheard \subseteq TokenId
    /\ reused \subseteq TokenId
    /\ out \subseteq TokenId

DeviceInit ==
    /\ Init
    /\ held = NoToken /\ enrol = "notEnrolled"
    /\ saved = [token |-> NoToken, revoked |-> FALSE]
    /\ refresh = Idle /\ signIn = NoSignIn
    /\ signOut = [phase |-> "idle", token |-> NoToken]
    /\ late = {} /\ unheard = {} /\ reused = {} /\ out = {}

\* BackendConfig.apply; an event that does not apply leaves the state.
Apply(state, event) ==
    CASE state \in {"notEnrolled", "revoked"} /\ event = "start" -> "enrolling"
      [] state = "enrolling" /\ event = "succeed" -> "enrolled"
      [] state = "enrolling" /\ event = "fail" -> "notEnrolled"
      [] state = "enrolled" /\ event = "revoke" -> "revoked"
      [] OTHER -> state

\* _save: the secure storage takes the session, or refuses and nothing changes.
Save(token, state) ==
    /\ held' = token
    /\ enrol' = state
    /\ saved' = [token |-> token, revoked |-> state = "revoked"]

SaveFails == UNCHANGED local

-----------------------------------------------------------------------------
\* refresh

\* One refresh at a time, with the token held when it begins.
RefreshStart ==
    /\ held # NoToken
    /\ refresh.phase = "idle"
    /\ refresh' = [phase |-> "sent", token |-> held, next |-> NoToken]
    /\ UNCHANGED <<vars, local, signIn, signOut, late, history>>

\* The server's part of a refresh.
ServerRotates(next) ==
    /\ refresh.phase = "sent"
    /\ Rotate(refresh.token, next)
    /\ refresh' = [refresh EXCEPT !.phase = "rotated", !.next = next]
    /\ UNCHANGED <<local, signIn, signOut, late, history>>

ServerReuses ==
    /\ refresh.phase = "sent"
    /\ Reuse(refresh.token)
    /\ refresh' = [refresh EXCEPT !.phase = "refused"]
    /\ reused' = reused \cup {refresh.token}
    /\ UNCHANGED <<local, signIn, signOut, late, unheard, out>>

\* rotateLocked refuses and changes nothing.
Refuses(t) ==
    \/ ~Presentable(t)
    \/ /\ Presentable(t)
       /\ ~row[t].rotated
       /\ device[row[t].device].revoked \/ user[row[t].user].status # "active"

ServerRefuses ==
    /\ refresh.phase = "sent"
    /\ Refuses(refresh.token)
    /\ refresh' = [refresh EXCEPT !.phase = "refused"]
    /\ UNCHANGED <<vars, local, signIn, signOut, late, history>>

\* GET /auth/me with the new access token answers with an identity.
Identified == Authenticated(device[Self].owner)

\* Requests the server has not handled yet.
RefreshPosted ==
    IF refresh.phase = "sent" THEN {<<"refresh", refresh.token>>} ELSE {}
SignOutPosted ==
    IF signOut.phase = "sent" THEN {<<"logout", signOut.token>>} ELSE {}

\* Requests the device stops waiting for: lost, or on their way.
GivesUp(posts) ==
    \E some \in SUBSET posts :
        /\ late' = late \cup some
        /\ some = {} \/ Cardinality(late') <= LateLimit

\* The device hears nothing: the request or its answer is lost, or late.
RefreshLost ==
    /\ refresh.phase \in {"sent", "rotated", "refused"}
    /\ refresh' = Idle
    /\ GivesUp(RefreshPosted)
    /\ unheard' = unheard \cup {refresh.token}
    /\ UNCHANGED <<vars, local, signIn, signOut, reused, out>>

\* Mutant: the successor is stored only with the identity, after /auth/me.
RefreshKeepsNothing ==
    /\ refresh.phase = "rotated"
    /\ refresh' = [refresh EXCEPT !.phase = "kept"]
    /\ UNCHANGED <<vars, local, signIn, signOut, late, history>>

\* The successor is stored before any further request.
RefreshKeeps ==
    /\ refresh.phase = "rotated"
    /\ \/ /\ Save(refresh.next, enrol)
          /\ refresh' = [refresh EXCEPT !.phase = "kept"]
          /\ UNCHANGED unheard
       \/ /\ SaveFails
          /\ refresh' = Idle
          /\ unheard' = unheard \cup {refresh.token}
    /\ UNCHANGED <<vars, signIn, signOut, late, reused, out>>

\* /auth/me answers, and the identity is stored beside the new pair.
RefreshConfirms ==
    /\ refresh.phase = "kept"
    /\ Identified
    /\ Save(refresh.next, Apply("enrolling", "succeed"))
    /\ refresh' = Idle
    /\ UNCHANGED <<vars, signIn, signOut, late, history>>

\* /auth/me is lost or refused, or its result cannot be stored.
RefreshUnconfirmed ==
    /\ refresh.phase = "kept"
    /\ refresh' = Idle
    /\ UNCHANGED <<vars, local, signIn, signOut, late, history>>

\* Mutant: the device is marked revoked but keeps its tokens.
RefreshRevokesKeeping ==
    /\ refresh.phase = "refused"
    /\ Save(held, Apply(enrol, "revoke")) \/ SaveFails
    /\ refresh' = Idle
    /\ UNCHANGED <<vars, signIn, signOut, late, history>>

\* 401 or 403: the device gives up its tokens, whichever it holds by now.
RefreshRevokes ==
    /\ refresh.phase = "refused"
    /\ Save(NoToken, Apply(enrol, "revoke")) \/ SaveFails
    /\ refresh' = Idle
    /\ UNCHANGED <<vars, signIn, signOut, late, history>>

-----------------------------------------------------------------------------
\* signIn, with the right password: what a wrong one does at the server is the
\* subject of AccountSessions, and here it fails as a refusal does.

SignInStart(c, u) ==
    /\ signIn.phase = "idle"
    /\ LoginBegin(c, u, Self, TRUE)
    /\ enrol' = Apply(enrol, "start")
    /\ signIn' = [phase |-> "asked", call |-> c, token |-> NoToken]
    /\ UNCHANGED <<held, saved, refresh, signOut, late, history>>

\* The server opens a session; the device may no longer wait for it.
ServerOpens(c, t) ==
    /\ LoginCommit(c, t)
    /\ signIn' = IF signIn.phase = "asked" /\ signIn.call = c
                 THEN [signIn EXCEPT !.phase = "opened", !.token = t]
                 ELSE signIn
    /\ UNCHANGED <<local, refresh, signOut, late, history>>

\* The server's refusals, after which the device gives up.
ServerDeclines(c) ==
    /\ LoginRefused(c) \/ NoteAddressFailure(c) \/ NoteAccountFailure(c)
    /\ UNCHANGED deviceVars

\* /auth/me answers, and the session is stored.
SignInSaves ==
    /\ signIn.phase = "opened"
    /\ Identified
    /\ Save(signIn.token, Apply("enrolling", "succeed"))
    /\ signIn' = NoSignIn
    /\ UNCHANGED <<vars, refresh, signOut, late, history>>

\* A refusal, a lost answer at any stage, or a session that cannot be stored.
SignInFails ==
    /\ signIn.phase # "idle"
    /\ enrol' = Apply(enrol, "fail")
    /\ signIn' = NoSignIn
    /\ UNCHANGED <<vars, held, saved, refresh, signOut, late, history>>

-----------------------------------------------------------------------------
\* signOut, configure, restore

\* Without a token, or offline, the server is not told.
SignOutStart ==
    /\ signOut.phase = "idle"
    /\ \/ /\ held # NoToken
          /\ signOut' = [phase |-> "sent", token |-> held]
       \/ signOut' = [phase |-> "answered", token |-> NoToken]
    /\ UNCHANGED <<vars, local, refresh, signIn, late, history>>

\* POST /auth/logout, while the device waits or after it gave up.
SignsOut(t) ==
    /\ IF t \in DOMAIN row
       THEN SignOut(t) /\ out' = out \cup {row[t].family}
       ELSE UNCHANGED <<vars, out>>
    /\ UNCHANGED <<unheard, reused>>

ServerSignsOut ==
    /\ signOut.phase = "sent"
    /\ SignsOut(signOut.token)
    /\ signOut' = [signOut EXCEPT !.phase = "answered"]
    /\ UNCHANGED <<local, refresh, signIn, late>>

SignOutLost ==
    /\ signOut.phase = "sent"
    /\ signOut' = [signOut EXCEPT !.phase = "answered"]
    /\ GivesUp(SignOutPosted)
    /\ UNCHANGED <<vars, local, refresh, signIn, history>>

SignOutSaves ==
    /\ signOut.phase = "answered"
    /\ Save(NoToken, "notEnrolled") \/ SaveFails
    /\ signOut' = [phase |-> "idle", token |-> NoToken]
    /\ UNCHANGED <<vars, refresh, signIn, late, history>>

\* Another server or organisation, only without tokens.
Configure ==
    /\ held = NoToken
    /\ Save(NoToken, "notEnrolled")
    /\ UNCHANGED <<vars, jobs, late, history>>

\* The app is killed; what it was waiting for it never hears.
Forgets ==
    /\ refresh' = Idle /\ signIn' = NoSignIn
    /\ signOut' = [phase |-> "idle", token |-> NoToken]
    /\ GivesUp(RefreshPosted \cup SignOutPosted)
    /\ unheard' = IF refresh.phase \in {"sent", "rotated", "refused"}
                  THEN unheard \cup {refresh.token} ELSE unheard
    /\ UNCHANGED <<vars, saved, reused, out>>

\* restore: the saved session, or none if it cannot be read.
Relaunch ==
    /\ Forgets
    /\ \/ /\ held' = saved.token
          /\ enrol' = IF saved.token # NoToken THEN "enrolled"
                      ELSE IF saved.revoked THEN "revoked" ELSE "notEnrolled"
       \/ held' = NoToken /\ enrol' = "notEnrolled"

-----------------------------------------------------------------------------
\* A request the device gave up on arrives after all.

Arrives(post, t) ==
    /\ <<post, t>> \in late
    /\ late' = late \ {<<post, t>>}
    /\ UNCHANGED <<local, jobs>>

LateRefresh(t) ==
    /\ Arrives("refresh", t)
    /\ \/ \E next \in TokenId : Rotate(t, next) /\ UNCHANGED history
       \/ Reuse(t) /\ reused' = reused \cup {t} /\ UNCHANGED <<unheard, out>>
       \/ Refuses(t) /\ UNCHANGED <<vars, history>>

LateSignOut(t) == Arrives("logout", t) /\ SignsOut(t)

\* Everything else at the server.
ServerStep ==
    /\ \/ RevokeDevice(Self)
       \/ \E c \in Call : AccountStep(c) \/ Abandon(c)
       \/ \E t \in TokenId : PurgeToken(t)
       \/ Tick
    /\ UNCHANGED deviceVars

RefreshStep ==
    \/ RefreshStart \/ ServerReuses \/ ServerRefuses
    \/ \E next \in TokenId : ServerRotates(next)
    \/ RefreshLost \/ RefreshKeeps \/ RefreshConfirms \/ RefreshUnconfirmed
    \/ RefreshRevokes

DeviceSignInStep ==
    \/ \E c \in Call, u \in User : SignInStart(c, u)
    \/ \E c \in Call : ServerDeclines(c)
    \/ \E c \in Call, t \in TokenId : ServerOpens(c, t)
    \/ SignInSaves \/ SignInFails

SignOutStep == SignOutStart \/ ServerSignsOut \/ SignOutLost \/ SignOutSaves

LateStep == \E t \in TokenId : LateRefresh(t) \/ LateSignOut(t)

DeviceNext ==
    \/ RefreshStep \/ DeviceSignInStep \/ SignOutStep
    \/ Configure \/ Relaunch \/ LateStep \/ ServerStep

DeviceSpec == DeviceInit /\ [][DeviceNext]_allVars

-----------------------------------------------------------------------------
\* Properties

\* Only a refresh whose answer was lost, or whose successor the storage
\* refused, can cost a device its session: the server never takes a token for
\* reused whose successor the device has stored, for it is stored before
\* anything else is asked and one refresh runs at a time.
ReuseOnlyAfterLoss == reused \subseteq unheard

\* A sign out the server handled ends the session even if the device goes on
\* to store the successor that a refresh in flight, a late one or a sign in
\* brought: whatever it then holds of that family cannot be refreshed.
SignOutHolds ==
    held \in DOMAIN row =>
        (row[held].family \in out => ~Presentable(held))

\* What the screens show is what the device has: enrolled means it holds a
\* token and revoked that it does not, whichever of its jobs stored last.
EnrolmentMatchesToken ==
    /\ enrol = "enrolled" => held # NoToken
    /\ enrol = "revoked" => held = NoToken

=============================================================================
