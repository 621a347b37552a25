---------------------------- MODULE AuthSessions ----------------------------
(***************************************************************************)
(* The refresh sessions of one user: AuthService at the server, which      *)
(* rotates a refresh token at every use and takes the reuse of a rotated   *)
(* token for theft, and the two clients that hold the tokens: the desktop  *)
(* agent (ApiClient, authService, AuthProvider) and the tabs of the admin  *)
(* panel (AuthProvider, requestAuthRefresh).  A client's request and what  *)
(* it does with the answer are separate steps, and answers may be lost.    *)
(*                                                                         *)
(* Every transaction that writes sessions or tokens locks the User row     *)
(* before it reads what it decides on, so a transaction is one action; the *)
(* password check of login(), which holds no lock, is a step of its own.   *)
(* A session is named by its first token, as a session that is made for a  *)
(* token from before sessions existed is in the code.  A lapsed token is   *)
(* refused before anything is read and is left out; so are access tokens.  *)
(***************************************************************************)
EXTENDS Naturals

CONSTANTS
  Tokens,      \* RefreshToken rows there may ever be
  Legacy,      \* those from before sessions existed
  Desktops,    \* windows of the desktop agent
  Tabs,        \* tabs of the admin panel
  Stores,      \* where tokens are kept: a disk, a browser's localStorage
  StoreOf,     \* the store of each client
  MaxSecret,   \* bound: how often password or e-mail change
  None         \* null

Clients == Desktops \cup Tabs

ASSUME AuthSessionsAssumption ==
  /\ Legacy \subseteq Tokens
  /\ Desktops \cap Tabs = {}
  /\ StoreOf \in [Clients -> Stores]
  /\ MaxSecret \in Nat
  /\ None \notin Tokens

VARIABLES
  account,   \* User: ACTIVE or not, which password and e-mail; its company's status
  token,     \* RefreshToken rows and the session of each
  session,   \* RefreshSession.revokedAt
  secretOf,  \* the password and e-mail that a session was opened with
  replayed,  \* audit log: AUTH_REFRESH_REPLAY, with the client that caused it
  lost,      \* sessions of which an answer was given up or thrown away
  store,     \* the stored refresh token
  screen,    \* restoring, restored but for the profile, login form, application
  login,     \* login() under way in a client, from the password check on
  refresh,   \* performRefresh() under way in a client
  logout,    \* logout() under way in a client
  stray      \* refresh requests that their client has given up on, still to be served

server == <<account, token, session, secretOf>>
client == <<store, screen, login, refresh, logout, stray>>
vars == <<server, replayed, lost, client>>

Account == [active : BOOLEAN, secret : 0 .. MaxSecret, company : BOOLEAN]
Token == [state : {"unused", "live", "revoked"}, session : Tokens \cup {None}]
Login == [pc : {"idle", "checked", "answered"}, secret : 0 .. MaxSecret,
          token : Tokens \cup {None}]
Refresh == [pc : {"idle", "sent", "answered", "rejected"}, token : Tokens \cup {None},
            next : Tokens \cup {None}, current : BOOLEAN]
Logout == [pc : {"idle", "sent", "answered"}, token : Tokens \cup {None}]

Live(s) == [state |-> "live", session |-> s]
Used(s) == [state |-> "revoked", session |-> s]
NoLogin == [pc |-> "idle", secret |-> 0, token |-> None]
NoRefresh == [pc |-> "idle", token |-> None, next |-> None, current |-> FALSE]
NoLogout == [pc |-> "idle", token |-> None]

TypeOK ==
  /\ account \in Account
  /\ token \in [Tokens -> Token]
  /\ session \in [Tokens -> {"none", "open", "revoked"}]
  /\ secretOf \in [Tokens -> 0 .. MaxSecret]
  /\ replayed \in SUBSET (Tokens \X Clients)
  /\ lost \in SUBSET Tokens
  /\ store \in [Stores -> Tokens \cup {None}]
  /\ screen \in [Clients -> {"loading", "confirming", "login", "app"}]
  /\ login \in [Clients -> Login]
  /\ refresh \in [Clients -> Refresh]
  /\ logout \in [Clients -> Logout]
  /\ stray \in SUBSET (Tokens \X Clients)

\* A store may hold a token from before sessions existed.
Init ==
  /\ account = [active |-> TRUE, secret |-> 0, company |-> TRUE]
  /\ token = [t \in Tokens |-> IF t \in Legacy THEN Live(t) ELSE [state |-> "unused", session |-> None]]
  /\ session = [t \in Tokens |-> "none"]
  /\ secretOf = [t \in Tokens |-> 0]
  /\ replayed = {} /\ lost = {}
  /\ store \in [Stores -> Legacy \cup {None}]
  /\ \A s1, s2 \in Stores : s1 # s2 /\ store[s1] = store[s2] => store[s1] = None
  /\ screen = [c \in Clients |-> "loading"]
  /\ login = [c \in Clients |-> NoLogin]
  /\ refresh = [c \in Clients |-> NoRefresh]
  /\ logout = [c \in Clients |-> NoLogout]
  /\ stray = {}

-----------------------------------------------------------------------------
(* The server.                                                             *)

CanAuthenticate == account.active /\ account.company

\* The tokens once those of a set of sessions have been revoked
Revoke(sessions) ==
  [t \in Tokens |-> IF token[t].state = "live" /\ token[t].session \in sessions
                    THEN Used(token[t].session) ELSE token[t]]

\* revokeSessionFamily(), for a session that resolveAndLockSession() has found
\* or has just made for a token without one
RevokeFamily(s) ==
  /\ session' = [session EXCEPT ![s] = "revoked"]
  /\ token' = Revoke({s})

\* revokeAllUserSessions()
RevokeAll ==
  /\ session' = [s \in Tokens |-> IF session[s] = "open" THEN "revoked" ELSE session[s]]
  /\ token' = Revoke(Tokens)

\* login(): the password is checked against the user as read without a lock.
BeginLogin(c) ==
  /\ screen[c] = "login" \/ (c \in Tabs /\ screen[c] \in {"loading", "confirming"})
  /\ login[c].pc = "idle"
  /\ CanAuthenticate
  /\ login' = [login EXCEPT ![c] = [pc |-> "checked", secret |-> account.secret, token |-> None]]
  /\ screen' = [screen EXCEPT ![c] = "login"]
  /\ refresh' = [refresh EXCEPT ![c].current = @ /\ c \notin Tabs]
  /\ UNCHANGED <<server, replayed, lost, store, logout, stray>>

\* Mutant of OpenSession: the user is not compared again under the lock.
OpenSessionUnchecked(c) ==
  /\ login[c].pc = "checked"
  /\ CanAuthenticate
  /\ \E t \in Tokens :
       /\ token[t].state = "unused"
       /\ token' = [token EXCEPT ![t] = Live(t)]
       /\ session' = [session EXCEPT ![t] = "open"]
       /\ secretOf' = [secretOf EXCEPT ![t] = login[c].secret]
       /\ login' = [login EXCEPT ![c] = [pc |-> "answered", secret |-> 0, token |-> t]]
  /\ UNCHANGED <<account, replayed, lost, store, screen, refresh, logout, stray>>

\* login() under the lock: opens a session, unless the user has changed
OpenSession(c) ==
  /\ login[c].pc = "checked"
  /\ login[c].secret = account.secret
  /\ CanAuthenticate
  /\ \E t \in Tokens :
       /\ token[t].state = "unused"
       /\ token' = [token EXCEPT ![t] = Live(t)]
       /\ session' = [session EXCEPT ![t] = "open"]
       /\ secretOf' = [secretOf EXCEPT ![t] = login[c].secret]
       /\ login' = [login EXCEPT ![c] = [pc |-> "answered", secret |-> 0, token |-> t]]
  /\ UNCHANGED <<account, replayed, lost, store, screen, refresh, logout, stray>>

LoginRefused(c) ==
  /\ login[c].pc = "checked"
  /\ login[c].secret # account.secret \/ ~ CanAuthenticate
  /\ login' = [login EXCEPT ![c] = NoLogin]
  /\ UNCHANGED <<server, replayed, lost, store, screen, refresh, logout, stray>>

\* Mutant of Rotated: the token is not used up.
RotatedKeeping(t, s, n) ==
  /\ session[s] # "revoked" /\ token[t].state = "live" /\ CanAuthenticate
  /\ token[n].state = "unused"
  /\ token' = [token EXCEPT ![n] = Live(s)]
  /\ session' = [session EXCEPT ![s] = "open"]
  /\ UNCHANGED replayed

\* refresh() rotates token t of session s: it is used up and n succeeds it.  A
\* token without a session gets one.
Rotated(t, s, n) ==
  /\ session[s] # "revoked" /\ token[t].state = "live" /\ CanAuthenticate
  /\ token[n].state = "unused"
  /\ token' = [token EXCEPT ![n] = Live(s), ![t] = Used(s)]
  /\ session' = [session EXCEPT ![s] = "open"]
  /\ UNCHANGED replayed

\* refresh() refuses: the session is over, the user may not authenticate, or
\* the token has been used already, which ends its session.
Refused(t, s, c) ==
  \/ /\ session[s] = "revoked" \/ (session[s] = "none" /\ token[t].state = "revoked")
     /\ UNCHANGED <<token, session, replayed>>
  \/ /\ session[s] = "open" /\ token[t].state = "revoked"
     /\ RevokeFamily(s)
     /\ replayed' = replayed \cup {<<s, c>>}
  \/ /\ session[s] # "revoked" /\ token[t].state = "live" /\ ~ CanAuthenticate
     /\ UNCHANGED <<token, session, replayed>>

RefreshAtServer(c) ==
  LET t == refresh[c].token
      s == token[t].session
  IN  /\ refresh[c].pc = "sent"
      /\ \/ /\ Refused(t, s, c)
            /\ refresh' = [refresh EXCEPT ![c].pc = "rejected"]
         \/ \E n \in Tokens :
              /\ Rotated(t, s, n)
              /\ refresh' = [refresh EXCEPT ![c].pc = "answered", ![c].next = n]
      /\ UNCHANGED <<account, secretOf, lost, store, screen, login, logout, stray>>

\* The same for a request whose client no longer waits
StrayAtServer ==
  \E r \in stray :
    LET t == r[1]
        s == token[t].session
    IN  /\ Refused(t, s, r[2]) \/ \E n \in Tokens : Rotated(t, s, n)
        /\ stray' = stray \ {r}
        /\ UNCHANGED <<account, secretOf, lost, store, screen, login, refresh, logout>>

\* logout() at the server: a used token serves as well as a live one.
LogoutAtServer(c) ==
  /\ logout[c].pc = "sent"
  /\ LET t == logout[c].token
         s == token[t].session
     IN  IF session[s] = "open" \/ (session[s] = "none" /\ token[t].state = "live")
         THEN RevokeFamily(s)
         ELSE UNCHANGED <<token, session>>
  /\ logout' = [logout EXCEPT ![c] = [pc |-> "answered", token |-> None]]
  /\ UNCHANGED <<account, secretOf, replayed, lost, store, screen, login, refresh, stray>>

\* A new password or e-mail address, by the user, an administrator or a link
ReplaceSecret ==
  /\ account.secret < MaxSecret
  /\ account' = [account EXCEPT !.secret = @ + 1]
  /\ RevokeAll
  /\ UNCHANGED <<secretOf, replayed, lost, client>>

\* setStatus(), remove()
Deactivate ==
  /\ account.active
  /\ account' = [account EXCEPT !.active = FALSE]
  /\ RevokeAll
  /\ UNCHANGED <<secretOf, replayed, lost, client>>

Reactivate ==
  /\ ~ account.active
  /\ account' = [account EXCEPT !.active = TRUE]
  /\ UNCHANGED <<token, session, secretOf, replayed, lost, client>>

\* The company's status: no session is touched.
ToggleCompany ==
  /\ account' = [account EXCEPT !.company = ~ @]
  /\ UNCHANGED <<token, session, secretOf, replayed, lost, client>>

-----------------------------------------------------------------------------
(* The clients.                                                            *)

Stored(c) == store[StoreOf[c]]
Keep(c, t) == store' = [store EXCEPT ![StoreOf[c]] = t]
Show(c, what) == screen' = [screen EXCEPT ![c] = what]

\* An answer to the refresh under way in c, if there is one, comes to nothing.
LoseAnswer(c) ==
  lost' = IF refresh[c].pc = "answered" THEN lost \cup {token[refresh[c].token].session} ELSE lost

\* The request is still to be served when nobody waits for it any more.
Abandon(c) ==
  /\ stray' = stray \cup {<<refresh[c].token, c>>}
  /\ lost' = lost \cup {token[refresh[c].token].session}

\* The client is closed and opened again.
Restart(c) ==
  /\ Show(c, "loading")
  /\ login' = [login EXCEPT ![c] = NoLogin]
  /\ logout' = [logout EXCEPT ![c] = NoLogout]
  /\ refresh' = [refresh EXCEPT ![c] = NoRefresh]
  /\ (LoseAnswer(c) /\ UNCHANGED stray) \/ (refresh[c].pc = "sent" /\ Abandon(c))
  /\ UNCHANGED <<server, replayed, store>>

\* The answer to login(): the tokens are stored.  A tab goes on to ask for the
\* profile and stays at the login form if it gets none.
LoginAnswered(c) ==
  /\ login[c].pc = "answered"
  /\ Keep(c, login[c].token)
  /\ Show(c, "app") \/ (c \in Tabs /\ UNCHANGED screen)
  /\ login' = [login EXCEPT ![c] = NoLogin]
  /\ UNCHANGED <<server, replayed, lost, refresh, logout, stray>>

LoginUnanswered(c) ==
  /\ login[c].pc # "idle"
  /\ login' = [login EXCEPT ![c] = NoLogin]
  /\ UNCHANGED <<server, replayed, lost, store, screen, refresh, logout, stray>>

\* Mutant of BeginRefresh: a second refresh takes the place of the first.
BeginRefreshAgain(c) ==
  /\ refresh[c].pc \in {"idle", "sent"}
  /\ screen[c] # "login"
  /\ Stored(c) # None
  /\ refresh' = [refresh EXCEPT ![c] =
       [pc |-> "sent", token |-> Stored(c), next |-> None, current |-> TRUE]]
  /\ stray' = IF refresh[c].pc = "sent" THEN stray \cup {<<refresh[c].token, c>>} ELSE stray
  /\ UNCHANGED <<server, replayed, lost, store, screen, login, logout>>

\* refresh(), requestAuthRefresh(): one at a time
BeginRefresh(c) ==
  /\ refresh[c].pc = "idle"
  /\ screen[c] # "login"
  /\ Stored(c) # None
  /\ refresh' = [refresh EXCEPT ![c] =
       [pc |-> "sent", token |-> Stored(c), next |-> None, current |-> TRUE]]
  /\ UNCHANGED <<server, replayed, lost, store, screen, login, logout, stray>>

\* Mutant of StillMine: no client looks.
MineAnyway(c) == c \in Clients

\* A tab looks at its session generation and at the store again; the desktop
\* agent does not.
StillMine(c) == c \in Tabs => refresh[c].current /\ Stored(c) = refresh[c].token

\* A tab that finds another session goes on with what is stored, if anything.
GoOn(c) ==
  /\ IF screen[c] = "loading"
     THEN Show(c, IF Stored(c) = None THEN "login" ELSE "confirming")
     ELSE UNCHANGED screen
  /\ UNCHANGED store

\* clearSession()
ClearSession(c) ==
  /\ Keep(c, None)
  /\ Show(c, "login")

\* The refresh under way in c is over.
RefreshEnds(c) ==
  /\ refresh' = [refresh EXCEPT ![c] = NoRefresh]
  /\ UNCHANGED <<server, replayed, login, logout>>

\* performRefresh(): the answer is a new pair of tokens
RefreshAnswered(c) ==
  /\ refresh[c].pc = "answered"
  /\ \/ /\ StillMine(c)
        /\ Keep(c, refresh[c].next)
        /\ IF screen[c] = "loading" /\ c \in Tabs THEN Show(c, "confirming") ELSE UNCHANGED screen
        /\ UNCHANGED lost
     \/ /\ ~ StillMine(c)
        /\ GoOn(c)
        /\ LoseAnswer(c)
  /\ RefreshEnds(c)
  /\ UNCHANGED stray

\* The answer is a refusal, or there is none: a tab makes no difference.
TabGivesUp(c) ==
  /\ c \in Tabs
  /\ IF StillMine(c) THEN ClearSession(c) ELSE GoOn(c)

RefreshRejected(c) ==
  /\ refresh[c].pc = "rejected"
  /\ \/ TabGivesUp(c)
     \/ c \in Desktops /\ Keep(c, None) /\ UNCHANGED screen
  /\ RefreshEnds(c)
  /\ UNCHANGED <<lost, stray>>

\* The answer is lost on its way, or the request is, now or when it has been
\* served after all. The desktop agent keeps its tokens when nothing comes back
\* and clears them when a proxy's error does.
RefreshUnanswered(c) ==
  /\ refresh[c].pc # "idle"
  /\ \/ TabGivesUp(c)
     \/ c \in Desktops /\ (UNCHANGED store \/ Keep(c, None)) /\ UNCHANGED screen
  /\ RefreshEnds(c)
  /\ \/ LoseAnswer(c) /\ UNCHANGED stray
     \/ refresh[c].pc = "sent" /\ Abandon(c)

\* restoreSession(), AuthProvider's first effect: nothing to restore
NothingStored(c) ==
  /\ screen[c] = "loading" /\ refresh[c].pc = "idle"
  /\ Stored(c) = None
  /\ Show(c, "login")
  /\ UNCHANGED <<server, replayed, lost, store, login, refresh, logout, stray>>

\* The profile has come: a tab asks for it once it has refreshed.
Restored(c) ==
  /\ refresh[c].pc = "idle"
  /\ screen[c] = IF c \in Tabs THEN "confirming" ELSE "loading"
  /\ Stored(c) # None
  /\ Show(c, "app")
  /\ UNCHANGED <<server, replayed, lost, store, login, refresh, logout, stray>>

\* The profile does not come, for any reason: the tokens are cleared.
RestoreFails(c) ==
  /\ refresh[c].pc = "idle"
  /\ screen[c] = IF c \in Tabs THEN "confirming" ELSE "loading"
  /\ ClearSession(c)
  /\ UNCHANGED <<server, replayed, lost, login, refresh, logout, stray>>

\* logout(): the desktop agent tells the server before it clears its tokens, a
\* tab after.
BeginLogout(c) ==
  /\ screen[c] = "app" \/ (screen[c] = "confirming" /\ c \in Tabs)
  /\ logout[c].pc = "idle"
  /\ logout' = [logout EXCEPT ![c] =
       IF Stored(c) = None THEN [pc |-> "answered", token |-> None]
                           ELSE [pc |-> "sent", token |-> Stored(c)]]
  /\ IF c \in Tabs
     THEN /\ ClearSession(c)
          /\ refresh' = [refresh EXCEPT ![c].current = FALSE]
     ELSE UNCHANGED <<store, screen, refresh>>
  /\ UNCHANGED <<server, replayed, lost, login, stray>>

EndLogout(c) ==
  /\ logout[c].pc # "idle"
  /\ logout' = [logout EXCEPT ![c] = NoLogout]
  /\ IF c \in Desktops THEN ClearSession(c) ELSE UNCHANGED <<store, screen>>
  /\ UNCHANGED <<server, replayed, lost, login, refresh, stray>>

-----------------------------------------------------------------------------
ServerNext ==
  \/ \E c \in Clients :
       OpenSession(c) \/ LoginRefused(c) \/ RefreshAtServer(c) \/ LogoutAtServer(c)
  \/ StrayAtServer \/ ReplaceSecret \/ Deactivate \/ Reactivate \/ ToggleCompany

ClientNext ==
  \E c \in Clients :
    \/ BeginLogin(c) \/ LoginAnswered(c) \/ LoginUnanswered(c)
    \/ BeginRefresh(c) \/ RefreshAnswered(c) \/ RefreshRejected(c) \/ RefreshUnanswered(c)
    \/ NothingStored(c) \/ Restored(c) \/ RestoreFails(c)
    \/ BeginLogout(c) \/ EndLogout(c) \/ Restart(c)

Next == ServerNext \/ ClientNext

Spec == Init /\ [][Next]_vars

-----------------------------------------------------------------------------
\* A token that can still be used belongs to an active user and to a session
\* opened with the user's present password and e-mail address: whatever was
\* under way when they changed or the user was deactivated, no session survives
\* it and none is opened afterwards on what was checked before.
CutOff ==
  \A t \in Tokens : token[t].state = "live" =>
    /\ account.active
    /\ secretOf[token[t].session] = account.secret

\* However many refreshes of however many clients meet, a session has one token
\* that can be used, and none once it is revoked: rotation never forks it.
NoFork ==
  \A t \in Tokens : token[t].state = "live" =>
    /\ session[token[t].session] # "revoked"
    /\ \A u \in Tokens : token[u].state = "live" /\ token[u].session = token[t].session => u = t

\* A client alone with its store is taken for a thief, and its session revoked,
\* only if the client once gave up on a refresh of that session or threw its
\* answer away: neither overlapping requests, logins and logouts nor restarts do.
Shared(c) == \E d \in Clients \ {c} : StoreOf[d] = StoreOf[c]

ReplayMeansLoss ==
  \A r \in replayed : r[1] \in lost \/ Shared(r[2])

\* Only a login brings another session into a tab's store: the late answer to
\* a refresh neither resurrects what was logged out nor replaces a newer login.
OnlyLoginSwitches ==
  [][\A c \in Tabs : ~ Shared(c) =>
       LET kept == Stored(c)
           next == store'[StoreOf[c]]
       IN  next # None /\ next # kept =>
             \/ kept # None /\ token'[next].session = token[kept].session
             \/ login[c].pc = "answered" /\ next = login[c].token]_vars
=============================================================================
