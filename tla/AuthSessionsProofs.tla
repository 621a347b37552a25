------------------------- MODULE AuthSessionsProofs -------------------------
(***************************************************************************)
(* Proofs about AuthSessions, for any number of tokens, clients and stores.*)
(*                                                                         *)
(* A token row is issued once and keeps its session, and whoever holds a   *)
(* token holds one that was issued (Coherent): with it CutOff and NoFork   *)
(* are inductive, because only the server's transactions touch tokens.     *)
(*                                                                         *)
(* ReplayMeansLoss needs to know where the tokens are (Held).  Those of a  *)
(* session are at one store (OneStore), so that only its own client makes  *)
(* the tokens of a client alone with its store out of date; that client    *)
(* then has the next one (AllUsable), or gave up on the answer, which is   *)
(* what being lost means.                                                  *)
(***************************************************************************)
EXTENDS AuthSessions, TLAPS

\* Every token that is referred to has been issued, and so has the first token
\* of its session.
Known(t) == t = None \/ token[t].state # "unused"

TokensCoherent ==
  /\ \A t \in Tokens : token[t].state = "unused" <=> token[t].session = None
  /\ \A t \in Tokens : Known(token[t].session)

StoreCoherent == \A s \in Stores : Known(store[s])

LoginCoherent ==
  \A c \in Clients : /\ Known(login[c].token)
                     /\ login[c].pc = "answered" => login[c].token # None

RefreshCoherent ==
  \A c \in Clients :
    /\ Known(refresh[c].token) /\ Known(refresh[c].next)
    /\ refresh[c].pc # "idle" => refresh[c].token # None
    /\ refresh[c].pc = "answered" =>
         /\ refresh[c].next # None
         /\ token[refresh[c].next].session = token[refresh[c].token].session

LogoutCoherent ==
  \A c \in Clients : /\ Known(logout[c].token)
                     /\ logout[c].pc = "sent" => logout[c].token # None

StrayCoherent == \A r \in stray : Known(r[1]) /\ r[1] # None

Coherent == /\ TokensCoherent /\ StoreCoherent /\ LoginCoherent
            /\ RefreshCoherent /\ LogoutCoherent /\ StrayCoherent

IInv == TypeOK /\ Coherent /\ CutOff /\ NoFork

-----------------------------------------------------------------------------
(* Types, and what tokens may become.                                      *)

\* An issued token stays issued and keeps its session.
Grows ==
  \A t \in Tokens : token[t].state # "unused" =>
    token'[t].state # "unused" /\ token'[t].session = token[t].session

LEMMA Typed ==
  ASSUME TypeOK
  PROVE  /\ None \notin Tokens /\ StoreOf \in [Clients -> Stores]
         /\ \A t \in Tokens : token[t] \in Token /\ session[t] \in {"none", "open", "revoked"}
         /\ \A c \in Clients : login[c] \in Login /\ refresh[c] \in Refresh /\ logout[c] \in Logout
         /\ \A c \in Clients : StoreOf[c] \in Stores /\ Stored(c) \in Tokens \cup {None}
BY AuthSessionsAssumption DEF TypeOK, Stored

KnownNext(t) == t = None \/ token'[t].state # "unused"

LEMMA KnownGrows ==
  ASSUME Grows, NEW t \in Tokens \cup {None}, Known(t)
  PROVE  KnownNext(t)
BY DEF Grows, Known, KnownNext

LEMMA PartsGrow ==
  ASSUME TypeOK, Coherent, Grows
  PROVE  /\ UNCHANGED store => StoreCoherent'
         /\ UNCHANGED login => LoginCoherent'
         /\ UNCHANGED refresh => RefreshCoherent'
         /\ UNCHANGED logout => LogoutCoherent'
         /\ UNCHANGED stray => StrayCoherent'
<1>1. UNCHANGED store => StoreCoherent'
  BY KnownGrows DEF Known, KnownNext, Coherent, StoreCoherent, TypeOK
<1>2. UNCHANGED login => LoginCoherent'
  BY KnownGrows DEF Known, KnownNext, Coherent, LoginCoherent, TypeOK, Login
<1>3. UNCHANGED refresh => RefreshCoherent'
  <2>. HAVE UNCHANGED refresh
  <2>1. ASSUME NEW c \in Clients, refresh[c].pc = "answered"
        PROVE  token'[refresh[c].next].session = token'[refresh[c].token].session
    BY <2>1 DEF Coherent, RefreshCoherent, Known, Grows, TypeOK, Refresh
  <2>. QED BY <2>1, KnownGrows DEF Known, KnownNext, Coherent, RefreshCoherent, TypeOK, Refresh
<1>4. UNCHANGED logout => LogoutCoherent'
  BY KnownGrows DEF Known, KnownNext, Coherent, LogoutCoherent, TypeOK, Logout
<1>5. UNCHANGED stray => StrayCoherent'
  BY KnownGrows DEF Known, KnownNext, Coherent, StrayCoherent, TypeOK
<1>. QED BY <1>1, <1>2, <1>3, <1>4, <1>5

\* What a step may make of the tokens
Served ==
  /\ token' \in [Tokens -> Token]
  /\ session' \in [Tokens -> {"none", "open", "revoked"}]
  /\ Grows
  /\ TokensCoherent'

LEMMA OpenSessionTyped ==
  ASSUME TypeOK, Coherent, NEW c \in Clients, OpenSession(c)
  PROVE  TypeOK' /\ Grows /\ Coherent'
<1>. PICK t \in Tokens : /\ token[t].state = "unused"
                         /\ token' = [token EXCEPT ![t] = Live(t)]
                         /\ session' = [session EXCEPT ![t] = "open"]
                         /\ secretOf' = [secretOf EXCEPT ![t] = login[c].secret]
                         /\ login' = [login EXCEPT ![c] = [pc |-> "answered", secret |-> 0, token |-> t]]
  BY DEF OpenSession
<1>1. /\ login[c].secret \in 0 .. MaxSecret /\ 0 \in 0 .. MaxSecret
      /\ None \notin Tokens
  BY AuthSessionsAssumption DEF TypeOK, Login
<1>2. TypeOK'
  BY <1>1 DEF TypeOK, OpenSession, Live, Token, Login
<1>3. Grows
  BY DEF Grows, Live, TypeOK, Token
<1>4. TokensCoherent'
  BY <1>1, <1>3 DEF Coherent, TokensCoherent, Known, Grows, Live, TypeOK, Token
<1>5. LoginCoherent'
  BY <1>1, <1>3, KnownGrows DEF Coherent, LoginCoherent, Known, KnownNext, Live, TypeOK, Login
<1>. QED BY <1>2, <1>3, <1>4, <1>5, PartsGrow DEF Coherent, OpenSession

LEMMA RotatedTyped ==
  ASSUME TypeOK, Coherent, NEW t \in Tokens, NEW n \in Tokens, token[t].session \in Tokens,
         Rotated(t, token[t].session, n)
  PROVE  Served /\ token'[n].session = token[t].session /\ n # t
<1>1. None \notin Tokens
  BY AuthSessionsAssumption
<1>2. /\ token' = [u \in Tokens |-> IF u = t THEN [state |-> "revoked", session |-> token[t].session]
                     ELSE IF u = n THEN [state |-> "live", session |-> token[t].session] ELSE token[u]]
      /\ n # t
  BY DEF Rotated, Live, Used, TypeOK, Token
<1>3. token' \in [Tokens -> Token] /\ session' \in [Tokens -> {"none", "open", "revoked"}]
  BY <1>2 DEF Rotated, TypeOK, Token, Live, Used
<1>4. Grows
  BY <1>2 DEF Grows, TypeOK, Token, Rotated
<1>5. \A u \in Tokens : token'[u].state = "unused" <=> token'[u].session = None
  BY <1>1, <1>2 DEF Coherent, TokensCoherent, Rotated, TypeOK, Token
<1>6. ASSUME NEW u \in Tokens
      PROVE  token'[u].session = None \/ token'[token'[u].session].state # "unused"
  <2>1. CASE u = t \/ u = n
    BY <1>1, <1>2, <1>4, <2>1 DEF Coherent, TokensCoherent, Known, Grows
  <2>2. CASE u # t /\ u # n
    BY <1>1, <1>2, <1>4, <2>2 DEF Coherent, TokensCoherent, Known, Grows, TypeOK, Token
  <2>. QED BY <2>1, <2>2
<1>. QED BY <1>2, <1>3, <1>4, <1>5, <1>6 DEF Served, TokensCoherent, Known

LEMMA RevokeTyped ==
  ASSUME TypeOK, Coherent, NEW S \in SUBSET Tokens, token' = Revoke(S),
         session' \in [Tokens -> {"none", "open", "revoked"}]
  PROVE  Served /\ \A u \in Tokens : token'[u].session = token[u].session
<1>1. None \notin Tokens
  BY AuthSessionsAssumption
<1>2. token' = [u \in Tokens |-> IF token[u].state = "live" /\ token[u].session \in S
                    THEN [state |-> "revoked", session |-> token[u].session] ELSE token[u]]
  BY DEF Revoke, Used
<1>3. token' \in [Tokens -> Token] /\ \A u \in Tokens : token'[u].session = token[u].session
  BY <1>2 DEF TypeOK, Token
<1>4. Grows
  BY <1>2 DEF Grows, TypeOK, Token
<1>5. \A u \in Tokens : token'[u].state = "unused" <=> token'[u].session = None
  BY <1>1, <1>2 DEF Coherent, TokensCoherent, TypeOK, Token
<1>6. \A u \in Tokens : token'[u].session = None \/ token'[token'[u].session].state # "unused"
  BY <1>1, <1>3, <1>4 DEF Coherent, TokensCoherent, Known, Grows, TypeOK, Token
<1>. QED BY <1>3, <1>4, <1>5, <1>6 DEF Served, TokensCoherent, Known

LEMMA RevocationsTyped ==
  ASSUME TypeOK, Coherent,
         RevokeAll \/ (\E s \in Tokens : RevokeFamily(s)) \/ UNCHANGED <<token, session>>
  PROVE  Served
<1>1. CASE RevokeAll
  <2>1. Tokens \in SUBSET Tokens /\ token' = Revoke(Tokens)
    BY <1>1 DEF RevokeAll
  <2>2. session' \in [Tokens -> {"none", "open", "revoked"}]
    BY <1>1 DEF RevokeAll, TypeOK
  <2>. QED BY <2>1, <2>2, RevokeTyped
<1>2. ASSUME NEW s \in Tokens, RevokeFamily(s)
      PROVE  Served
  <2>1. {s} \in SUBSET Tokens /\ token' = Revoke({s})
    BY <1>2 DEF RevokeFamily
  <2>2. session' \in [Tokens -> {"none", "open", "revoked"}]
    BY <1>2 DEF RevokeFamily, TypeOK
  <2>. QED BY <2>1, <2>2, RevokeTyped
<1>3. CASE UNCHANGED <<token, session>>
  BY <1>3 DEF TypeOK, Coherent, TokensCoherent, Known, Grows, Served
<1>. QED BY <1>1, <1>2, <1>3

\* What refresh() does at the server with token t, whoever asked
LEMMA ServedTyped ==
  ASSUME TypeOK, Coherent, NEW t \in Tokens, token[t].state # "unused", NEW c \in Clients,
         Refused(t, token[t].session, c) \/ \E n \in Tokens : Rotated(t, token[t].session, n)
  PROVE  Served /\ replayed' \in SUBSET (Tokens \X Clients)
<1>1. token[t].session \in Tokens
  BY DEF Coherent, TokensCoherent, TypeOK, Token
<1>2. CASE Refused(t, token[t].session, c)
  <2>1. RevokeFamily(token[t].session) \/ UNCHANGED <<token, session>>
    BY <1>2 DEF Refused
  <2>2. replayed' \in SUBSET (Tokens \X Clients)
    BY <1>1, <1>2 DEF Refused, TypeOK
  <2>. QED BY <1>1, <2>1, <2>2, RevocationsTyped
<1>3. CASE \E n \in Tokens : Rotated(t, token[t].session, n)
  <2>1. PICK n \in Tokens : Rotated(t, token[t].session, n)
    BY <1>3
  <2>2. replayed' \in SUBSET (Tokens \X Clients)
    BY <2>1 DEF Rotated, TypeOK
  <2>. QED BY <1>1, <2>1, <2>2, RotatedTyped
<1>. QED BY <1>2, <1>3

LEMMA RefreshAtServerTyped ==
  ASSUME TypeOK, Coherent, NEW c \in Clients, RefreshAtServer(c)
  PROVE  TypeOK' /\ Grows /\ Coherent'
<1>. DEFINE t == refresh[c].token
<1>1. t \in Tokens /\ token[t].state # "unused" /\ None \notin Tokens /\ token[t].session \in Tokens
  BY AuthSessionsAssumption
     DEF RefreshAtServer, Coherent, TokensCoherent, RefreshCoherent, Known, TypeOK, Refresh, Token
<1>2. \/ /\ Refused(t, token[t].session, c)
         /\ refresh' = [refresh EXCEPT ![c].pc = "rejected"]
      \/ \E n \in Tokens :
           /\ Rotated(t, token[t].session, n)
           /\ refresh' = [refresh EXCEPT ![c].pc = "answered", ![c].next = n]
  BY DEF RefreshAtServer
<1>3. Served /\ replayed' \in SUBSET (Tokens \X Clients)
  BY <1>1, <1>2, ServedTyped
<1>4. TypeOK'
  <2>1. refresh' \in [Clients -> Refresh]
    <3>1. CASE refresh' = [refresh EXCEPT ![c].pc = "rejected"]
      BY <3>1 DEF TypeOK, Refresh
    <3>2. ASSUME NEW n \in Tokens, refresh' = [refresh EXCEPT ![c].pc = "answered", ![c].next = n]
          PROVE  refresh' \in [Clients -> Refresh]
      <4>. DEFINE q == [[refresh[c] EXCEPT !.pc = "answered"] EXCEPT !.next = n]
      <4>1. q \in Refresh
        BY DEF TypeOK, Refresh
      <4>2. refresh' = [refresh EXCEPT ![c] = q]
        BY <3>2
      <4>. HIDE DEF q
      <4>. QED BY <4>1, <4>2 DEF TypeOK
    <3>. QED BY <1>2, <3>1, <3>2
  <2>. QED BY <1>3, <2>1 DEF TypeOK, RefreshAtServer, Served
<1>5. RefreshCoherent'
  <2>1. \A x \in Clients : KnownNext(refresh[x].token) /\ KnownNext(refresh[x].next)
    BY <1>3, KnownGrows DEF Served, Coherent, RefreshCoherent, TypeOK, Refresh
  <2>2. \A x \in Clients : refresh[x].pc = "answered" =>
          token'[refresh[x].next].session = token'[refresh[x].token].session
    <3>. TAKE x \in Clients
    <3>. HAVE refresh[x].pc = "answered"
    <3>1. /\ refresh[x].next \in Tokens /\ refresh[x].token \in Tokens
          /\ token[refresh[x].next].state # "unused" /\ token[refresh[x].token].state # "unused"
          /\ token[refresh[x].next].session = token[refresh[x].token].session
      BY DEF Coherent, RefreshCoherent, Known, TypeOK, Refresh
    <3>. QED BY <1>3, <3>1 DEF Served, Grows
  <2>3. CASE refresh' = [refresh EXCEPT ![c].pc = "rejected"]
    <3>1. \A x \in Clients : /\ refresh'[x].token = refresh[x].token /\ refresh'[x].next = refresh[x].next
                             /\ refresh'[x].pc = IF x = c THEN "rejected" ELSE refresh[x].pc
      BY <2>3 DEF TypeOK, Refresh
    <3>. QED BY <1>1, <2>1, <2>2, <3>1 DEF Coherent, RefreshCoherent, Known, KnownNext
  <2>4. ASSUME NEW n \in Tokens, Rotated(t, token[t].session, n),
               refresh' = [refresh EXCEPT ![c].pc = "answered", ![c].next = n]
        PROVE  RefreshCoherent'
    <3>1. \A x \in Clients : /\ refresh'[x].token = refresh[x].token
                             /\ refresh'[x].next = IF x = c THEN n ELSE refresh[x].next
                             /\ refresh'[x].pc = IF x = c THEN "answered" ELSE refresh[x].pc
      BY <2>4 DEF TypeOK, Refresh
    <3>2. token'[n].session = token'[t].session /\ token'[n].state # "unused"
      BY <1>1, <1>3, <2>4, RotatedTyped DEF Grows, Served, TokensCoherent, Token
    <3>. QED BY <1>1, <2>1, <2>2, <3>1, <3>2 DEF Coherent, RefreshCoherent, Known, KnownNext
  <2>. QED BY <1>2, <2>3, <2>4
<1>. QED BY <1>3, <1>4, <1>5, PartsGrow DEF Served, Coherent, RefreshAtServer

LEMMA StrayAtServerTyped ==
  ASSUME TypeOK, Coherent, StrayAtServer
  PROVE  TypeOK' /\ Grows /\ Coherent'
<1>1. PICK r \in stray :
        /\ \/ Refused(r[1], token[r[1]].session, r[2])
           \/ \E n \in Tokens : Rotated(r[1], token[r[1]].session, n)
        /\ stray' = stray \ {r}
        /\ UNCHANGED <<account, secretOf, lost, store, screen, login, refresh, logout>>
  BY DEF StrayAtServer
<1>2. r[1] \in Tokens /\ r[2] \in Clients /\ token[r[1]].state # "unused"
  BY DEF TypeOK, Coherent, StrayCoherent, Known
<1>3. Served /\ replayed' \in SUBSET (Tokens \X Clients)
  BY <1>1, <1>2, ServedTyped
<1>4. TypeOK'
  BY <1>1, <1>3 DEF TypeOK, Served
<1>5. StrayCoherent'
  BY <1>1, <1>3, KnownGrows DEF Known, KnownNext, Coherent, StrayCoherent, TypeOK, Served
<1>. QED BY <1>1, <1>3, <1>4, <1>5, PartsGrow DEF Served, Coherent

LEMMA LogoutAtServerTyped ==
  ASSUME TypeOK, Coherent, NEW c \in Clients, LogoutAtServer(c)
  PROVE  TypeOK' /\ Grows /\ Coherent'
<1>. DEFINE t == logout[c].token
<1>1. t \in Tokens /\ token[t].session \in Tokens /\ None \notin Tokens
  BY AuthSessionsAssumption
     DEF LogoutAtServer, Coherent, TokensCoherent, LogoutCoherent, Known, TypeOK, Logout, Token
<1>2. Served
  BY <1>1, RevocationsTyped DEF LogoutAtServer
<1>3. TypeOK'
  BY <1>2 DEF TypeOK, LogoutAtServer, Logout, Served
<1>4. LogoutCoherent'
  <2>1. \A x \in Clients : KnownNext(logout[x].token)
    BY <1>2, KnownGrows DEF Coherent, LogoutCoherent, TypeOK, Logout, Served
  <2>2. \A x \in Clients : logout'[x] = IF x = c THEN [pc |-> "answered", token |-> None] ELSE logout[x]
    BY DEF LogoutAtServer, TypeOK
  <2>. QED BY <2>1, <2>2 DEF Coherent, LogoutCoherent, Known, KnownNext
<1>. QED BY <1>2, <1>3, <1>4, PartsGrow DEF Served, Coherent, LogoutAtServer

LEMMA AccountTyped ==
  ASSUME TypeOK, Coherent, ReplaceSecret \/ Deactivate \/ Reactivate \/ ToggleCompany
  PROVE  TypeOK' /\ Grows /\ Coherent'
<1>1. account' \in Account
  <2>1. CASE ReplaceSecret
    <3>1. account.secret + 1 \in 0 .. MaxSecret
      BY <2>1, AuthSessionsAssumption DEF TypeOK, Account, ReplaceSecret
    <3>. QED BY <2>1, <3>1 DEF TypeOK, Account, ReplaceSecret
  <2>2. CASE Deactivate \/ Reactivate \/ ToggleCompany
    BY <2>2 DEF TypeOK, Account, Deactivate, Reactivate, ToggleCompany
  <2>. QED BY <2>1, <2>2
<1>2. Served
  BY RevocationsTyped DEF ReplaceSecret, Deactivate, Reactivate, ToggleCompany
<1>3. UNCHANGED <<secretOf, replayed, lost, client>>
  BY DEF ReplaceSecret, Deactivate, Reactivate, ToggleCompany
<1>4. TypeOK'
  BY <1>1, <1>2, <1>3 DEF TypeOK, client, Served
<1>. QED BY <1>2, <1>3, <1>4, PartsGrow DEF Served, Coherent, client

-----------------------------------------------------------------------------
(* The clients' steps: what they may make of what they hold.               *)

ClientStep(c) ==
  /\ UNCHANGED <<server, replayed>>
  /\ lost' \in SUBSET Tokens
  /\ screen' \in [Clients -> {"loading", "confirming", "login", "app"}]
  /\ \/ UNCHANGED store
     \/ Keep(c, None)
     \/ login[c].pc = "answered" /\ Keep(c, login[c].token)
     \/ refresh[c].pc = "answered" /\ Keep(c, refresh[c].next)
  /\ \/ UNCHANGED login
     \/ login' = [login EXCEPT ![c] = NoLogin]
     \/ login' = [login EXCEPT ![c] = [pc |-> "checked", secret |-> account.secret, token |-> None]]
  /\ \/ UNCHANGED refresh
     \/ refresh' = [refresh EXCEPT ![c] = NoRefresh]
     \/ \E b \in BOOLEAN : refresh' = [refresh EXCEPT ![c].current = b]
     \/ /\ Stored(c) # None
        /\ refresh' = [refresh EXCEPT ![c] =
             [pc |-> "sent", token |-> Stored(c), next |-> None, current |-> TRUE]]
  /\ \/ UNCHANGED logout
     \/ logout' = [logout EXCEPT ![c] = NoLogout]
     \/ logout' = [logout EXCEPT ![c] = [pc |-> "answered", token |-> None]]
     \/ Stored(c) # None /\ logout' = [logout EXCEPT ![c] = [pc |-> "sent", token |-> Stored(c)]]
  /\ \/ UNCHANGED stray
     \/ refresh[c].pc = "sent" /\ stray' = stray \cup {<<refresh[c].token, c>>}

LEMMA LostTyped ==
  ASSUME TypeOK, Coherent, NEW c \in Clients,
         UNCHANGED lost \/ LoseAnswer(c) \/ (refresh[c].pc = "sent" /\ Abandon(c))
  PROVE  lost' \in SUBSET Tokens
<1>1. refresh[c].pc # "idle" => token[refresh[c].token].session \in Tokens
  BY AuthSessionsAssumption
     DEF Coherent, RefreshCoherent, TokensCoherent, Known, TypeOK, Refresh, Token
<1>. QED BY <1>1 DEF LoseAnswer, Abandon, TypeOK

LEMMA ShowTyped ==
  ASSUME TypeOK, NEW c \in Clients,
         UNCHANGED screen \/ \E what \in {"loading", "confirming", "login", "app"} : Show(c, what)
  PROVE  screen' \in [Clients -> {"loading", "confirming", "login", "app"}]
BY DEF TypeOK, Show

LEMMA LoginSteps ==
  ASSUME TypeOK, Coherent, NEW c \in Clients,
         BeginLogin(c) \/ LoginAnswered(c) \/ LoginUnanswered(c) \/ LoginRefused(c)
  PROVE  ClientStep(c)
<1>1. lost' \in SUBSET Tokens /\ screen' \in [Clients -> {"loading", "confirming", "login", "app"}]
  <2>1. UNCHANGED lost
    BY DEF BeginLogin, LoginAnswered, LoginUnanswered, LoginRefused
  <2>2. UNCHANGED screen \/ Show(c, "app") \/ Show(c, "login")
    BY DEF BeginLogin, LoginAnswered, LoginUnanswered, LoginRefused, Show
  <2>. QED BY <2>1, <2>2, ShowTyped, LostTyped
<1>2. CASE BeginLogin(c)
  <2>1. \E b \in BOOLEAN : refresh' = [refresh EXCEPT ![c].current = b]
    <3>1. refresh' = [refresh EXCEPT ![c].current = refresh[c].current /\ c \notin Tabs]
      BY <1>2 DEF BeginLogin
    <3>2. (refresh[c].current /\ c \notin Tabs) \in BOOLEAN
      BY DEF TypeOK, Refresh
    <3>. QED BY <3>1, <3>2
  <2>. QED BY <1>1, <1>2, <2>1 DEF BeginLogin, ClientStep
<1>3. CASE LoginAnswered(c)
  BY <1>1, <1>3 DEF LoginAnswered, ClientStep
<1>4. CASE LoginUnanswered(c) \/ LoginRefused(c)
  BY <1>1, <1>4 DEF LoginUnanswered, LoginRefused, ClientStep
<1>. QED BY <1>2, <1>3, <1>4

LEMMA RefreshSteps ==
  ASSUME TypeOK, Coherent, NEW c \in Clients,
         BeginRefresh(c) \/ RefreshAnswered(c) \/ RefreshRejected(c) \/ RefreshUnanswered(c)
  PROVE  ClientStep(c)
<1>1. lost' \in SUBSET Tokens
  BY LostTyped DEF BeginRefresh, RefreshAnswered, RefreshRejected, RefreshUnanswered
<1>2. screen' \in [Clients -> {"loading", "confirming", "login", "app"}]
  <2>1. GoOn(c) => UNCHANGED screen \/ Show(c, "login") \/ Show(c, "confirming")
    BY DEF GoOn, Show
  <2>2. TabGivesUp(c) => UNCHANGED screen \/ Show(c, "login") \/ Show(c, "confirming")
    BY <2>1 DEF TabGivesUp, ClearSession
  <2>. QED BY <2>1, <2>2, ShowTyped
           DEF BeginRefresh, RefreshAnswered, RefreshRejected, RefreshUnanswered
<1>3. CASE BeginRefresh(c)
  BY <1>1, <1>2, <1>3 DEF BeginRefresh, ClientStep
<1>4. CASE RefreshAnswered(c) \/ RefreshRejected(c) \/ RefreshUnanswered(c)
  <2>1. GoOn(c) => UNCHANGED store
    BY DEF GoOn
  <2>2. TabGivesUp(c) => UNCHANGED store \/ Keep(c, None)
    BY <2>1 DEF TabGivesUp, ClearSession
  <2>3. UNCHANGED <<server, replayed, login, logout>> /\ refresh' = [refresh EXCEPT ![c] = NoRefresh]
    BY <1>4 DEF RefreshAnswered, RefreshRejected, RefreshUnanswered, RefreshEnds
  <2>4. \/ UNCHANGED store
        \/ Keep(c, None)
        \/ refresh[c].pc = "answered" /\ Keep(c, refresh[c].next)
    BY <1>4, <2>1, <2>2 DEF RefreshAnswered, RefreshRejected, RefreshUnanswered
  <2>5. \/ UNCHANGED stray
        \/ refresh[c].pc = "sent" /\ stray' = stray \cup {<<refresh[c].token, c>>}
    BY <1>4 DEF RefreshAnswered, RefreshRejected, RefreshUnanswered, Abandon
  <2>. QED BY <1>1, <1>2, <2>3, <2>4, <2>5 DEF ClientStep
<1>. QED BY <1>3, <1>4

LEMMA OtherSteps ==
  ASSUME TypeOK, Coherent, NEW c \in Clients,
         \/ NothingStored(c) \/ Restored(c) \/ RestoreFails(c)
         \/ BeginLogout(c) \/ EndLogout(c) \/ Restart(c)
  PROVE  ClientStep(c)
<1>1. lost' \in SUBSET Tokens
  BY LostTyped DEF NothingStored, Restored, RestoreFails, BeginLogout, EndLogout, Restart
<1>2. screen' \in [Clients -> {"loading", "confirming", "login", "app"}]
  BY ShowTyped
     DEF NothingStored, Restored, RestoreFails, BeginLogout, EndLogout, Restart, ClearSession
<1>3. CASE NothingStored(c) \/ Restored(c) \/ RestoreFails(c) \/ EndLogout(c)
  BY <1>1, <1>2, <1>3
     DEF NothingStored, Restored, RestoreFails, EndLogout, ClearSession, ClientStep
<1>4. CASE BeginLogout(c)
  <2>1. \/ UNCHANGED refresh
        \/ \E b \in BOOLEAN : refresh' = [refresh EXCEPT ![c].current = b]
    BY <1>4 DEF BeginLogout
  <2>2. UNCHANGED store \/ Keep(c, None)
    BY <1>4 DEF BeginLogout, ClearSession
  <2>3. \/ logout' = [logout EXCEPT ![c] = [pc |-> "answered", token |-> None]]
        \/ Stored(c) # None /\ logout' = [logout EXCEPT ![c] = [pc |-> "sent", token |-> Stored(c)]]
    BY <1>4 DEF BeginLogout
  <2>4. UNCHANGED <<server, replayed, login, stray>>
    BY <1>4 DEF BeginLogout
  <2>. QED BY <1>1, <1>2, <2>1, <2>2, <2>3, <2>4 DEF ClientStep
<1>5. CASE Restart(c)
  <2>1. \/ UNCHANGED stray
        \/ refresh[c].pc = "sent" /\ stray' = stray \cup {<<refresh[c].token, c>>}
    BY <1>5 DEF Restart, Abandon
  <2>. QED BY <1>1, <1>2, <1>5, <2>1 DEF Restart, ClientStep
<1>. QED BY <1>3, <1>4, <1>5

LEMMA ClientStepTyped ==
  ASSUME TypeOK, Coherent, NEW c \in Clients, ClientStep(c)
  PROVE  TypeOK' /\ Coherent'
<1>1. /\ None \notin Tokens /\ StoreOf[c] \in Stores /\ Stored(c) \in Tokens \cup {None}
      /\ account.secret \in 0 .. MaxSecret /\ 0 \in 0 .. MaxSecret
  BY AuthSessionsAssumption DEF TypeOK, Stored, Account
<1>2. Grows /\ TokensCoherent' /\ UNCHANGED <<server, replayed>>
  BY DEF ClientStep, server, Grows, Coherent, TokensCoherent, Known
<1>3. Known(Stored(c))
  BY <1>1 DEF Coherent, StoreCoherent, Stored
<1>4. store' \in [Stores -> Tokens \cup {None}] /\ StoreCoherent'
  <2>1. UNCHANGED store \/ \E t \in Tokens \cup {None} : Known(t) /\ Keep(c, t)
    BY DEF ClientStep, Known, Coherent, LoginCoherent, RefreshCoherent, TypeOK, Login, Refresh
  <2>2. ASSUME NEW t \in Tokens \cup {None}, Known(t), Keep(c, t)
        PROVE  store' \in [Stores -> Tokens \cup {None}] /\ StoreCoherent'
    BY <1>2, <2>2 DEF Keep, TypeOK, Coherent, StoreCoherent, Known, server
  <2>. QED BY <1>2, <2>1, <2>2, PartsGrow DEF TypeOK
<1>5. login' \in [Clients -> Login] /\ LoginCoherent'
  <2>1. UNCHANGED login \/ \E l \in Login : l.pc # "answered" /\ l.token = None /\ login' = [login EXCEPT ![c] = l]
    BY <1>1 DEF ClientStep, NoLogin, Login
  <2>2. ASSUME NEW l \in Login, l.pc # "answered", l.token = None, login' = [login EXCEPT ![c] = l]
        PROVE  login' \in [Clients -> Login] /\ LoginCoherent'
    BY <1>2, <2>2 DEF TypeOK, Coherent, LoginCoherent, Known, server
  <2>. QED BY <1>2, <2>1, <2>2, PartsGrow DEF TypeOK
<1>6. refresh' \in [Clients -> Refresh] /\ RefreshCoherent'
  <2>1. CASE UNCHANGED refresh
    BY <1>2, <2>1, PartsGrow DEF TypeOK
  <2>2. ASSUME NEW b \in BOOLEAN, refresh' = [refresh EXCEPT ![c].current = b]
        PROVE  refresh' \in [Clients -> Refresh] /\ RefreshCoherent'
    <3>1. refresh' \in [Clients -> Refresh]
      BY <2>2 DEF TypeOK, Refresh
    <3>2. \A x \in Clients : /\ refresh'[x].pc = refresh[x].pc
                             /\ refresh'[x].token = refresh[x].token
                             /\ refresh'[x].next = refresh[x].next
      BY <2>2 DEF TypeOK, Refresh
    <3>. QED BY <1>2, <3>1, <3>2 DEF Coherent, RefreshCoherent, Known, server
  <2>3. ASSUME NEW q \in Refresh, Known(q.token), q.next = None, q.pc \in {"idle", "sent"},
               q.pc = "sent" => q.token # None, refresh' = [refresh EXCEPT ![c] = q]
        PROVE  refresh' \in [Clients -> Refresh] /\ RefreshCoherent'
    BY <1>2, <2>3 DEF TypeOK, Coherent, RefreshCoherent, Known, server
  <2>4. CASE refresh' = [refresh EXCEPT ![c] = NoRefresh]
    <3>1. NoRefresh \in Refresh /\ Known(NoRefresh.token)
      BY DEF NoRefresh, Refresh, Known
    <3>. QED BY <2>3, <2>4, <3>1 DEF NoRefresh
  <2>5. CASE /\ Stored(c) # None
             /\ refresh' = [refresh EXCEPT ![c] =
                  [pc |-> "sent", token |-> Stored(c), next |-> None, current |-> TRUE]]
    <3>1. [pc |-> "sent", token |-> Stored(c), next |-> None, current |-> TRUE] \in Refresh
      BY <1>1 DEF Refresh
    <3>. QED BY <1>3, <2>3, <2>5, <3>1
  <2>. QED BY <2>1, <2>2, <2>4, <2>5 DEF ClientStep
<1>7. logout' \in [Clients -> Logout] /\ LogoutCoherent'
  <2>1. UNCHANGED logout \/ \E l \in Logout : /\ Known(l.token)
                                              /\ l.pc = "sent" => l.token # None
                                              /\ logout' = [logout EXCEPT ![c] = l]
    BY <1>1, <1>3 DEF ClientStep, NoLogout, Logout, Known
  <2>2. ASSUME NEW l \in Logout, Known(l.token), l.pc = "sent" => l.token # None,
               logout' = [logout EXCEPT ![c] = l]
        PROVE  logout' \in [Clients -> Logout] /\ LogoutCoherent'
    BY <1>2, <2>2 DEF TypeOK, Coherent, LogoutCoherent, Known, server
  <2>. QED BY <1>2, <2>1, <2>2, PartsGrow DEF TypeOK
<1>8. stray' \in SUBSET (Tokens \X Clients) /\ StrayCoherent'
  <2>1. CASE UNCHANGED stray
    BY <1>2, <2>1, PartsGrow DEF TypeOK
  <2>2. CASE refresh[c].pc = "sent" /\ stray' = stray \cup {<<refresh[c].token, c>>}
    <3>1. refresh[c].token \in Tokens /\ Known(refresh[c].token) /\ refresh[c].token # None
      BY <1>1, <2>2 DEF Coherent, RefreshCoherent, TypeOK, Refresh
    <3>. QED BY <1>2, <2>2, <3>1 DEF TypeOK, Coherent, StrayCoherent, Known, server
  <2>. QED BY <2>1, <2>2 DEF ClientStep
<1>9. TypeOK'
  BY <1>2, <1>4, <1>5, <1>6, <1>7, <1>8 DEF ClientStep, TypeOK, server
<1>. QED BY <1>2, <1>4, <1>5, <1>6, <1>7, <1>8, <1>9 DEF Coherent

LEMMA StepTyped ==
  ASSUME TypeOK, Coherent, [Next]_vars
  PROVE  TypeOK' /\ Coherent'
<1>1. ASSUME NEW c \in Clients,
             OpenSession(c) \/ RefreshAtServer(c) \/ LogoutAtServer(c)
      PROVE  TypeOK' /\ Coherent'
  BY <1>1, OpenSessionTyped, RefreshAtServerTyped, LogoutAtServerTyped
<1>2. ASSUME NEW c \in Clients, LoginRefused(c)
      PROVE  TypeOK' /\ Coherent'
  BY <1>2, LoginSteps, ClientStepTyped
<1>3. CASE StrayAtServer
  BY <1>3, StrayAtServerTyped
<1>4. CASE ReplaceSecret \/ Deactivate \/ Reactivate \/ ToggleCompany
  BY <1>4, AccountTyped
<1>5. CASE ClientNext
  <2>1. PICK c \in Clients :
          \/ BeginLogin(c) \/ LoginAnswered(c) \/ LoginUnanswered(c)
          \/ BeginRefresh(c) \/ RefreshAnswered(c) \/ RefreshRejected(c) \/ RefreshUnanswered(c)
          \/ NothingStored(c) \/ Restored(c) \/ RestoreFails(c)
          \/ BeginLogout(c) \/ EndLogout(c) \/ Restart(c)
    BY <1>5 DEF ClientNext
  <2>2. ClientStep(c)
    BY <2>1, LoginSteps, RefreshSteps, OtherSteps
  <2>. QED BY <2>2, ClientStepTyped
<1>6. CASE UNCHANGED vars
  BY <1>6 DEF vars, server, client, TypeOK, Coherent, TokensCoherent, StoreCoherent, LoginCoherent,
              RefreshCoherent, LogoutCoherent, StrayCoherent, Known
<1>. QED BY <1>1, <1>2, <1>3, <1>4, <1>5, <1>6 DEF Next, ServerNext

LEMMA InitTyped ==
  ASSUME Init
  PROVE  TypeOK /\ Coherent
<1>1. None \notin Tokens /\ Legacy \subseteq Tokens /\ 0 \in 0 .. MaxSecret
  BY AuthSessionsAssumption
<1>2. TypeOK
  BY <1>1 DEF Init, TypeOK, Account, Token, Login, Refresh, Logout, NoLogin, NoRefresh, NoLogout, Live
<1>3. TokensCoherent /\ StoreCoherent
  BY <1>1 DEF Init, TokensCoherent, StoreCoherent, Known, Live
<1>4. LoginCoherent /\ RefreshCoherent /\ LogoutCoherent /\ StrayCoherent
  BY DEF Init, LoginCoherent, RefreshCoherent, LogoutCoherent, StrayCoherent, Known,
         NoLogin, NoRefresh, NoLogout
<1>. QED BY <1>2, <1>3, <1>4 DEF Coherent

\* Every reachable state has its type, and whoever holds a token holds one that
\* the server issued.
THEOREM TypeCorrect == Spec => [](TypeOK /\ Coherent)
<1>1. Init => TypeOK /\ Coherent
  BY InitTyped
<1>2. TypeOK /\ Coherent /\ [Next]_vars => (TypeOK /\ Coherent)'
  BY StepTyped
<1>. QED BY <1>1, <1>2, PTL DEF Spec

-----------------------------------------------------------------------------
(* CutOff and NoFork: what the transactions do to sessions.                *)

\* A revoked set of sessions leaves no live token in them.
LEMMA Revoked ==
  ASSUME TypeOK, Coherent, NEW S \in SUBSET Tokens, token' = Revoke(S)
  PROVE  \A t \in Tokens : token'[t].state = "live" =>
           /\ token[t].state = "live" /\ token'[t].session = token[t].session
           /\ token[t].session \notin S
BY DEF Revoke, Used, TypeOK, Token

LEMMA LiveSession ==
  ASSUME TypeOK, Coherent, NEW t \in Tokens, token[t].state # "unused"
  PROVE  token[t].session \in Tokens /\ token[token[t].session].state # "unused"
BY AuthSessionsAssumption DEF TypeOK, Token, Coherent, TokensCoherent, Known

LEMMA FamilyKeeps ==
  ASSUME TypeOK, Coherent, CutOff, NoFork, NEW s \in Tokens, RevokeFamily(s),
         UNCHANGED <<account, secretOf>>
  PROVE  CutOff' /\ NoFork'
<1>1. \A t \in Tokens : token'[t].state = "live" =>
        /\ token[t].state = "live" /\ token'[t].session = token[t].session
        /\ token[t].session # s
  <2>1. {s} \in SUBSET Tokens /\ token' = Revoke({s})
    BY DEF RevokeFamily
  <2>. QED BY <2>1, Revoked
<1>2. CutOff'
  BY <1>1 DEF CutOff
<1>3. NoFork'
  <2>1. \A x \in Tokens : session'[x] = IF x = s THEN "revoked" ELSE session[x]
    BY DEF RevokeFamily, TypeOK
  <2>2. \A t \in Tokens : token[t].state = "live" => token[t].session \in Tokens
    BY LiveSession
  <2>. QED BY <1>1, <2>1, <2>2 DEF NoFork
<1>. QED BY <1>2, <1>3

LEMMA RotatedKeeps ==
  ASSUME TypeOK, Coherent, CutOff, NoFork, NEW t \in Tokens, NEW n \in Tokens,
         Rotated(t, token[t].session, n), UNCHANGED <<account, secretOf>>
  PROVE  CutOff' /\ NoFork'
<1>. DEFINE s == token[t].session
<1>1. s \in Tokens /\ token[t].state = "live" /\ session[s] # "revoked" /\ n # t
  BY LiveSession DEF Rotated
<1>2. \A u \in Tokens :
        /\ token'[u].state = IF u = n THEN "live" ELSE IF u = t THEN "revoked" ELSE token[u].state
        /\ token'[u].session = IF u \in {n, t} THEN s ELSE token[u].session
  BY <1>1 DEF Rotated, Live, Used, TypeOK, Token
<1>3. CutOff'
  BY <1>1, <1>2 DEF CutOff
<1>4. NoFork'
  <2>1. \A x \in Tokens : session'[x] = IF x = s THEN "open" ELSE session[x]
    BY <1>1 DEF Rotated, TypeOK
  <2>2. \A u \in Tokens : token[u].state = "live" => token[u].session \in Tokens
    BY LiveSession
  <2>. QED BY <1>1, <1>2, <2>1, <2>2 DEF NoFork
<1>. QED BY <1>3, <1>4

LEMMA ServedKeeps ==
  ASSUME TypeOK, Coherent, CutOff, NoFork, NEW t \in Tokens, token[t].state # "unused",
         NEW c \in Clients, UNCHANGED <<account, secretOf>>,
         Refused(t, token[t].session, c) \/ \E n \in Tokens : Rotated(t, token[t].session, n)
  PROVE  CutOff' /\ NoFork'
<1>1. CASE Refused(t, token[t].session, c)
  <2>1. CASE RevokeFamily(token[t].session)
    BY <2>1, LiveSession, FamilyKeeps
  <2>2. CASE UNCHANGED <<token, session>>
    BY <2>2 DEF CutOff, NoFork
  <2>. QED BY <1>1, <2>1, <2>2 DEF Refused
<1>2. CASE \E n \in Tokens : Rotated(t, token[t].session, n)
  BY <1>2, RotatedKeeps
<1>. QED BY <1>1, <1>2

LEMMA OpenSessionKeeps ==
  ASSUME TypeOK, Coherent, CutOff, NoFork, NEW c \in Clients, OpenSession(c)
  PROVE  CutOff' /\ NoFork'
<1>1. PICK t \in Tokens : /\ token[t].state = "unused"
                          /\ token' = [token EXCEPT ![t] = Live(t)]
                          /\ session' = [session EXCEPT ![t] = "open"]
                          /\ secretOf' = [secretOf EXCEPT ![t] = login[c].secret]
  BY DEF OpenSession
<1>2. /\ login[c].secret = account.secret /\ account.active /\ UNCHANGED account
      /\ login[c].secret \in 0 .. MaxSecret
  BY DEF OpenSession, CanAuthenticate, TypeOK, Login
<1>3. \A u \in Tokens : /\ token'[u].state = IF u = t THEN "live" ELSE token[u].state
                        /\ token'[u].session = IF u = t THEN t ELSE token[u].session
  BY <1>1 DEF Live, TypeOK, Token
<1>4. \A u \in Tokens : token[u].state = "live" => token[u].session \in Tokens /\ token[u].session # t
  BY <1>1, LiveSession
<1>5. \A x \in Tokens : /\ secretOf'[x] = IF x = t THEN account.secret ELSE secretOf[x]
                        /\ session'[x] = IF x = t THEN "open" ELSE session[x]
  BY <1>1, <1>2 DEF TypeOK
<1>6. CutOff'
  BY <1>2, <1>3, <1>4, <1>5 DEF CutOff
<1>7. NoFork'
  BY <1>3, <1>4, <1>5 DEF NoFork
<1>. QED BY <1>6, <1>7

LEMMA AccountKeeps ==
  ASSUME TypeOK, Coherent, CutOff, NoFork,
         ReplaceSecret \/ Deactivate \/ Reactivate \/ ToggleCompany
  PROVE  CutOff' /\ NoFork'
<1>1. CASE ReplaceSecret \/ Deactivate
  <2>1. Tokens \in SUBSET Tokens /\ token' = Revoke(Tokens)
    BY <1>1 DEF ReplaceSecret, Deactivate, RevokeAll
  <2>2. \A t \in Tokens : token'[t].state # "live"
    BY <2>1, Revoked, LiveSession
  <2>. QED BY <2>2 DEF CutOff, NoFork
<1>2. CASE Reactivate \/ ToggleCompany
  <2>1. /\ UNCHANGED <<token, session, secretOf>>
        /\ account'.secret = account.secret
        /\ account.active => account'.active
    BY <1>2 DEF Reactivate, ToggleCompany, TypeOK, Account
  <2>. QED BY <2>1 DEF CutOff, NoFork
<1>. QED BY <1>1, <1>2

LEMMA StepKeeps ==
  ASSUME IInv, [Next]_vars
  PROVE  CutOff' /\ NoFork'
<1>. TypeOK /\ Coherent /\ CutOff /\ NoFork
  BY DEF IInv
<1>1. ASSUME NEW c \in Clients, RefreshAtServer(c)
      PROVE  CutOff' /\ NoFork'
  <2>1. /\ refresh[c].token \in Tokens /\ token[refresh[c].token].state # "unused"
        /\ UNCHANGED <<account, secretOf>>
    BY <1>1 DEF RefreshAtServer, Coherent, RefreshCoherent, Known, TypeOK, Refresh
  <2>. QED BY <1>1, <2>1, ServedKeeps DEF RefreshAtServer
<1>2. CASE StrayAtServer
  <2>1. PICK r \in stray :
          /\ \/ Refused(r[1], token[r[1]].session, r[2])
             \/ \E n \in Tokens : Rotated(r[1], token[r[1]].session, n)
          /\ UNCHANGED <<account, secretOf>>
    BY <1>2 DEF StrayAtServer
  <2>2. r[1] \in Tokens /\ r[2] \in Clients /\ token[r[1]].state # "unused"
    BY DEF TypeOK, Coherent, StrayCoherent, Known
  <2>. QED BY <2>1, <2>2, ServedKeeps
<1>3. ASSUME NEW c \in Clients, LogoutAtServer(c)
      PROVE  CutOff' /\ NoFork'
  <2>1. logout[c].token \in Tokens /\ token[logout[c].token].state # "unused"
    BY <1>3 DEF LogoutAtServer, Coherent, LogoutCoherent, Known, TypeOK, Logout
  <2>2. \/ RevokeFamily(token[logout[c].token].session)
        \/ UNCHANGED <<token, session>>
    BY <1>3 DEF LogoutAtServer
  <2>3. UNCHANGED <<account, secretOf>>
    BY <1>3 DEF LogoutAtServer
  <2>4. CASE UNCHANGED <<token, session>>
    BY <2>3, <2>4 DEF CutOff, NoFork
  <2>. QED BY <2>1, <2>2, <2>3, <2>4, LiveSession, FamilyKeeps
<1>4. ASSUME NEW c \in Clients, LoginRefused(c)
      PROVE  UNCHANGED server
  BY <1>4 DEF LoginRefused
<1>5. CASE ClientNext
  <2>1. \E c \in Clients : ClientStep(c)
    BY <1>5, LoginSteps, RefreshSteps, OtherSteps DEF ClientNext
  <2>. QED BY <2>1 DEF ClientStep, server, CutOff, NoFork
<1>6. UNCHANGED server => CutOff' /\ NoFork'
  BY DEF server, CutOff, NoFork
<1>. QED BY <1>1, <1>2, <1>3, <1>4, <1>5, <1>6, OpenSessionKeeps, AccountKeeps
         DEF Next, ServerNext, vars

LEMMA Inductive == Spec => []IInv
<1>1. Init => IInv
  <2>. SUFFICES ASSUME Init PROVE IInv
    OBVIOUS
  <2>1. TypeOK /\ Coherent
    BY InitTyped
  <2>2. CutOff /\ NoFork
    BY AuthSessionsAssumption DEF Init, CutOff, NoFork, Live
  <2>. QED BY <2>1, <2>2 DEF IInv
<1>2. IInv /\ [Next]_vars => IInv'
  BY StepTyped, StepKeeps DEF IInv
<1>. QED BY <1>1, <1>2, PTL DEF Spec

\* No token outlives a change of password, of e-mail address or of status, not
\* even one that is being issued while it happens.
THEOREM CutOffHolds == Spec => []CutOff
BY Inductive, PTL DEF IInv

\* Concurrent refreshes never leave a session with two tokens that can be used.
THEOREM NoForkHolds == Spec => []NoFork
BY Inductive, PTL DEF IInv

-----------------------------------------------------------------------------
(* ReplayMeansLoss: who holds which token.                                 *)

\* Token t is in store x, or in the memory or a request of a client of x.
At(x, t) ==
  \/ store[x] = t
  \/ \E c \in Clients :
       /\ StoreOf[c] = x
       /\ t \in {refresh[c].token, refresh[c].next, login[c].token} \/ <<t, c>> \in stray

\* The tokens of a session are at one store.
OneStore ==
  \A x, y \in Stores, t, u \in Tokens :
    At(x, t) /\ At(y, u) /\ token[t].session = token[u].session => x = y

\* A token that a login has just brought is its session's only one, and nowhere
\* else.
LoginApart ==
  \A c \in Clients : login[c].token # None =>
    /\ \A u \in Tokens : token[u].session = token[login[c].token].session => u = login[c].token
    /\ \A x \in Stores : store[x] # login[c].token
    /\ \A d \in Clients : /\ refresh[d].token # login[c].token
                          /\ login[d].token = login[c].token => d = c
    /\ \A r \in stray : r[1] # login[c].token

\* A session that is still to be made for an old token has no other token.
FirstOfSession ==
  \A t \in Tokens :
    token[t].state # "unused" /\ session[token[t].session] = "none" => token[t].session = t

NextComes == \A c \in Clients : refresh[c].pc # "answered" => refresh[c].next = None

StraysLost == \A r \in stray : token[r[1]].session \in lost

\* The use of t is not taken for theft, or an answer of its session was lost.
Usable(t) ==
  token[t].state = "live" \/ session[token[t].session] # "open" \/ token[t].session \in lost

\* A client alone with its store holds usable tokens, and perhaps the one it
\* has just refreshed, for which it has the next.
AllUsable ==
  \A c \in Clients : ~ Shared(c) =>
    /\ Stored(c) # None => \/ Usable(Stored(c))
                           \/ refresh[c].pc = "answered" /\ Stored(c) = refresh[c].token
    /\ refresh[c].pc = "sent" => Usable(refresh[c].token)
    /\ refresh[c].pc = "answered" => Usable(refresh[c].next)
    /\ login[c].token # None => Usable(login[c].token)

Held == OneStore /\ LoginApart /\ FirstOfSession /\ NextComes /\ StraysLost /\ AllUsable

UsableNext(t) ==
  \/ token'[t].state = "live"
  \/ session'[token'[t].session] # "open"
  \/ token'[t].session \in lost'

LEMMA HeldIsKnown ==
  ASSUME TypeOK, Coherent, NEW x \in Stores, NEW t \in Tokens, At(x, t)
  PROVE  token[t].state # "unused" /\ token[t].session \in Tokens
<1>1. None \notin Tokens
  BY AuthSessionsAssumption
<1>2. token[t].state # "unused"
  <2>1. CASE store[x] = t
    BY <1>1, <2>1 DEF Coherent, StoreCoherent, Known
  <2>2. ASSUME NEW c \in Clients,
               t \in {refresh[c].token, refresh[c].next, login[c].token} \/ <<t, c>> \in stray
        PROVE  token[t].state # "unused"
    <3>1. CASE <<t, c>> \in stray
      BY <1>1, <3>1 DEF Coherent, StrayCoherent, Known
    <3>2. CASE t \in {refresh[c].token, refresh[c].next, login[c].token}
      BY <1>1, <3>2 DEF Coherent, RefreshCoherent, LoginCoherent, Known
    <3>. QED BY <2>2, <3>1, <3>2
  <2>. QED BY <2>1, <2>2 DEF At
<1>. QED BY <1>2, LiveSession

LEMMA ClientHolds ==
  ASSUME TypeOK, NEW c \in Clients
  PROVE  /\ StoreOf[c] \in Stores
         /\ At(StoreOf[c], Stored(c)) /\ At(StoreOf[c], refresh[c].token)
         /\ At(StoreOf[c], refresh[c].next) /\ At(StoreOf[c], login[c].token)
BY Typed DEF At, Stored

LEMMA Alone ==
  ASSUME NEW c \in Clients, ~ Shared(c), NEW d \in Clients, StoreOf[d] = StoreOf[c]
  PROVE  d = c
BY DEF Shared

\* Tokens come to a store from what is held there, or are of such a session.
LEMMA OneStoreStays ==
  ASSUME TypeOK, Coherent, OneStore, Grows,
         \A x \in Stores, t \in Tokens : At(x, t)' =>
           \E u \in Tokens : At(x, u) /\ token'[t].session = token[u].session
  PROVE  OneStore'
BY DEF OneStore

-----------------------------------------------------------------------------
(* ReplayMeansLoss: the transactions.                                      *)

\* Sessions end, and no token is used up in one that stays open.
Fewer ==
  /\ \A t \in Tokens :
       /\ token'[t].session = token[t].session
       /\ token'[t].state = "unused" <=> token[t].state = "unused"
       /\ token[t].state = "live" => token'[t].state = "live" \/ session'[token[t].session] # "open"
  /\ \A s \in Tokens : session'[s] \in {session[s], "revoked"}

LEMMA RevocationsAreFewer ==
  ASSUME TypeOK, Coherent,
         RevokeAll \/ (\E s \in Tokens : RevokeFamily(s)) \/ UNCHANGED <<token, session>>
  PROVE  Fewer
<1>1. \A t \in Tokens : token[t].state = "live" => token[t].session \in Tokens
  BY LiveSession
<1>2. CASE UNCHANGED <<token, session>>
  BY <1>2 DEF Fewer
<1>3. ASSUME NEW S \in SUBSET Tokens, token' = Revoke(S),
             \A s \in Tokens : /\ session'[s] \in {session[s], "revoked"}
                               /\ s \in S => session'[s] # "open"
      PROVE  Fewer
  <2>1. \A t \in Tokens :
          /\ token'[t].state = IF token[t].state = "live" /\ token[t].session \in S
                               THEN "revoked" ELSE token[t].state
          /\ token'[t].session = token[t].session
    BY <1>3 DEF Revoke, Used, TypeOK, Token
  <2>2. ASSUME NEW t \in Tokens
        PROVE  /\ token'[t].session = token[t].session
               /\ token'[t].state = "unused" <=> token[t].state = "unused"
               /\ token[t].state = "live" => token'[t].state = "live" \/ session'[token[t].session] # "open"
    <3>1. CASE token[t].state = "live" /\ token[t].session \in S
      <4>1. token'[t].state = "revoked" /\ token'[t].session = token[t].session
        BY <2>1, <3>1
      <4>2. session'[token[t].session] # "open"
        BY <1>1, <1>3, <3>1
      <4>. QED BY <3>1, <4>1, <4>2
    <3>2. CASE ~ (token[t].state = "live" /\ token[t].session \in S)
      BY <2>1, <3>2
    <3>. QED BY <3>1, <3>2
  <2>. QED BY <1>3, <2>2 DEF Fewer
<1>4. CASE RevokeAll
  <2>1. \A s \in Tokens : session'[s] \in {session[s], "revoked"} /\ session'[s] # "open"
    BY <1>4 DEF RevokeAll, TypeOK
  <2>2. Tokens \in SUBSET Tokens /\ token' = Revoke(Tokens)
    BY <1>4 DEF RevokeAll
  <2>. QED BY <1>3, <2>1, <2>2
<1>5. ASSUME NEW f \in Tokens, RevokeFamily(f)
      PROVE  Fewer
  <2>1. \A s \in Tokens : session'[s] \in {session[s], "revoked"} /\ (s \in {f} => session'[s] # "open")
    BY <1>5 DEF RevokeFamily, TypeOK
  <2>2. {f} \in SUBSET Tokens /\ token' = Revoke({f})
    BY <1>5 DEF RevokeFamily
  <2>. QED BY <1>3, <2>1, <2>2
<1>. QED BY <1>2, <1>4, <1>5

\* Requests are served or refused, and no client learns of a token.
LEMMA FewerStep ==
  ASSUME TypeOK, Coherent, Held, Fewer, UNCHANGED <<store, login, lost>>, stray' \subseteq stray,
         \/ UNCHANGED refresh
         \/ \E c \in Clients : /\ refresh[c].pc = "sent"
                               /\ refresh' = [refresh EXCEPT ![c].pc = "rejected"]
  PROVE  Held'
<1>1. \A c \in Clients :
        /\ refresh'[c].token = refresh[c].token /\ refresh'[c].next = refresh[c].next
        /\ refresh'[c].pc = refresh[c].pc \/ (refresh[c].pc = "sent" /\ refresh'[c].pc = "rejected")
  BY DEF TypeOK, Refresh
<1>2. Grows
  BY DEF Fewer, Grows
<1>3. OneStore'
  <2>1. \A x \in Stores, t \in Tokens : At(x, t)' => At(x, t)
    BY <1>1 DEF At
  <2>. QED BY <1>2, <2>1, OneStoreStays DEF Held, Fewer
<1>4. \A c \in Clients : login[c].token \in Tokens \cup {None}
  BY DEF TypeOK, Login
<1>5. LoginApart'
  BY <1>1, <1>4 DEF Held, LoginApart, Fewer
<1>6. FirstOfSession'
  BY LiveSession DEF Held, FirstOfSession, Fewer
<1>7. NextComes'
  BY <1>1 DEF Held, NextComes
<1>8. StraysLost'
  BY DEF Held, StraysLost, Fewer, TypeOK
<1>9. ASSUME NEW x \in Stores, NEW t \in Tokens, At(x, t), Usable(t)
      PROVE  UsableNext(t)
  BY <1>9, HeldIsKnown DEF Fewer, Usable, UsableNext
<1>10. AllUsable'
  <2>. SUFFICES ASSUME NEW c \in Clients, ~ Shared(c)
                PROVE  /\ Stored(c) # None => \/ UsableNext(Stored(c))
                                              \/ refresh'[c].pc = "answered" /\ Stored(c) = refresh'[c].token
                       /\ refresh'[c].pc = "sent" => UsableNext(refresh'[c].token)
                       /\ refresh'[c].pc = "answered" => UsableNext(refresh'[c].next)
                       /\ login[c].token # None => UsableNext(login[c].token)
    BY DEF AllUsable, Usable, UsableNext, Shared, Stored
  <2>1. /\ Stored(c) # None => Stored(c) \in Tokens
        /\ refresh[c].pc # "idle" => refresh[c].token \in Tokens
        /\ refresh[c].pc = "answered" => refresh[c].next \in Tokens
        /\ login[c].token # None => login[c].token \in Tokens
    BY Typed DEF Coherent, RefreshCoherent, Refresh, Login
  <2>. QED BY <1>1, <1>9, <2>1, ClientHolds DEF Held, AllUsable
<1>. QED BY <1>3, <1>5, <1>6, <1>7, <1>8, <1>10 DEF Held

\* A token is rotated: for a client that waits, or for a request given up on.
LEMMA RotatedStep ==
  ASSUME TypeOK, Coherent, NoFork, Held, NEW t \in Tokens, NEW n \in Tokens,
         Rotated(t, token[t].session, n), UNCHANGED <<store, login, lost>>, stray' \subseteq stray,
         \/ \E c \in Clients :
              /\ refresh[c].pc = "sent" /\ refresh[c].token = t
              /\ refresh' = [refresh EXCEPT ![c].pc = "answered", ![c].next = n]
         \/ /\ UNCHANGED refresh
            /\ \E r \in stray : r[1] = t
  PROVE  Held'
<1>. DEFINE s == token[t].session
<1>1. s \in Tokens /\ token[t].state = "live" /\ session[s] # "revoked" /\ n # t
  BY LiveSession DEF Rotated
<1>2. \A u \in Tokens :
        /\ token'[u].state = IF u = n THEN "live" ELSE IF u = t THEN "revoked" ELSE token[u].state
        /\ token'[u].session = IF u \in {n, t} THEN s ELSE token[u].session
  BY <1>1 DEF Rotated, Live, Used, TypeOK, Token
<1>3. \A x \in Tokens : session'[x] = IF x = s THEN "open" ELSE session[x]
  BY <1>1 DEF Rotated, TypeOK
<1>4. token[n].state = "unused" /\ None \notin Tokens
  BY AuthSessionsAssumption DEF Rotated
<1>. HIDE DEF s
<1>5. Grows
  BY <1>1, <1>2, <1>4 DEF Grows, s
<1>6. \A c \in Clients :
        /\ refresh'[c].token = refresh[c].token
        /\ \/ refresh'[c].pc = refresh[c].pc /\ refresh'[c].next = refresh[c].next
           \/ /\ refresh[c].pc = "sent" /\ refresh[c].token = t
              /\ refresh'[c].pc = "answered" /\ refresh'[c].next = n
  <2>1. CASE UNCHANGED refresh
    BY <2>1
  <2>2. ASSUME NEW d \in Clients, refresh[d].pc = "sent", refresh[d].token = t,
               refresh' = [refresh EXCEPT ![d].pc = "answered", ![d].next = n],
               NEW c \in Clients
        PROVE  /\ refresh'[c].token = refresh[c].token
               /\ c # d => refresh'[c] = refresh[c]
               /\ c = d => refresh'[c].pc = "answered" /\ refresh'[c].next = n
    BY <2>2 DEF TypeOK, Refresh
  <2>. QED BY <2>1, <2>2
<1>7. OneStore'
  <2>1. ASSUME NEW x \in Stores, NEW v \in Tokens, At(x, v)'
        PROVE  \E u \in Tokens : At(x, u) /\ token'[v].session = token[u].session
    <3>1. CASE At(x, v)
      BY <1>5, <3>1, HeldIsKnown DEF Grows
    <3>2. CASE ~ At(x, v)
      <4>1. PICK c \in Clients : /\ StoreOf[c] = x /\ v = n
                                 /\ refresh[c].token = t
        BY <1>6, <2>1, <3>2 DEF At
      <4>. QED BY <1>2, <4>1, ClientHolds DEF s
    <3>. QED BY <3>1, <3>2
  <2>. QED BY <1>5, <2>1, OneStoreStays DEF Held
<1>8. \A c \in Clients : login[c].token # None => login[c].token \in Tokens /\ login[c].token # t
                                                  /\ token[login[c].token].session # s
                                                  /\ login[c].token # n
  <2>. TAKE c \in Clients
  <2>. HAVE login[c].token # None
  <2>1. login[c].token \in Tokens /\ token[login[c].token].state # "unused"
    BY DEF TypeOK, Login, Coherent, LoginCoherent, Known
  <2>2. login[c].token # t
    BY DEF Held, LoginApart
  <2>. QED BY <1>4, <2>1, <2>2 DEF Held, LoginApart, s
<1>9. LoginApart'
  BY <1>2, <1>6, <1>8 DEF Held, LoginApart
<1>10. FirstOfSession'
  <2>. SUFFICES ASSUME NEW u \in Tokens, token'[u].state # "unused",
                       session'[token'[u].session] = "none"
                PROVE  token'[u].session = u
    BY DEF FirstOfSession
  <2>1. u \notin {n, t}
    BY <1>1, <1>2, <1>3
  <2>2. token'[u].state = token[u].state /\ token'[u].session = token[u].session
    BY <1>2, <2>1
  <2>3. session[token[u].session] = "none"
    BY <1>3, <2>2, LiveSession
  <2>. QED BY <2>2, <2>3 DEF Held, FirstOfSession
<1>11. NextComes'
  BY <1>6 DEF Held, NextComes
<1>12. StraysLost'
  <2>1. \A r \in stray : r[1] \in Tokens /\ token[r[1]].state # "unused"
    BY <1>4 DEF TypeOK, Coherent, StrayCoherent, Known
  <2>. QED BY <1>5, <2>1 DEF Held, StraysLost, Grows
<1>13. ASSUME NEW x \in Stores, NEW u \in Tokens, At(x, u), Usable(u), u # t \/ s \in lost
       PROVE  UsableNext(u)
  <2>1. token[u].state # "unused" /\ token[u].session \in Tokens
    BY <1>13, HeldIsKnown
  <2>2. token'[u].session = token[u].session
    BY <1>5, <2>1 DEF Grows
  <2>3. CASE token[u].session \in lost
    BY <2>2, <2>3 DEF UsableNext
  <2>4. CASE token[u].session \notin lost
    <3>1. u # t /\ u # n
      BY <1>4, <1>13, <2>1, <2>4 DEF s
    <3>2. CASE token[u].state = "live"
      BY <1>2, <3>1, <3>2 DEF UsableNext
    <3>3. CASE session[token[u].session] # "open"
      <4>1. token[u].session # s
        <5>. SUFFICES ASSUME token[u].session = s
                      PROVE  FALSE
          OBVIOUS
        <5>1. session[s] = "none"
          BY <1>1, <3>3 DEF TypeOK
        <5>2. s = u /\ s = t
          BY <1>1, <2>1, <5>1 DEF Held, FirstOfSession, s
        <5>. QED BY <3>1, <5>2
      <4>. QED BY <1>3, <2>1, <2>2, <3>3, <4>1 DEF UsableNext
    <3>. QED BY <1>13, <2>4, <3>2, <3>3 DEF Usable
  <2>. QED BY <2>3, <2>4
<1>14. UsableNext(n)
  BY <1>2 DEF UsableNext
<1>15. AllUsable'
  <2>. SUFFICES ASSUME NEW c \in Clients, ~ Shared(c)
                PROVE  /\ Stored(c) # None => \/ UsableNext(Stored(c))
                                              \/ refresh'[c].pc = "answered" /\ Stored(c) = refresh'[c].token
                       /\ refresh'[c].pc = "sent" => UsableNext(refresh'[c].token)
                       /\ refresh'[c].pc = "answered" => UsableNext(refresh'[c].next)
                       /\ login[c].token # None => UsableNext(login[c].token)
    BY DEF AllUsable, Usable, UsableNext, Shared, Stored
  <2>1. /\ Stored(c) # None => Stored(c) \in Tokens
        /\ refresh[c].pc # "idle" => refresh[c].token \in Tokens
        /\ refresh[c].pc = "answered" => refresh[c].next \in Tokens
        /\ login[c].token # None => login[c].token \in Tokens
    BY Typed DEF Coherent, RefreshCoherent, Refresh, Login
  <2>2. CASE refresh'[c].pc = refresh[c].pc /\ refresh'[c].next = refresh[c].next
    <3>1. ASSUME NEW u \in Tokens, At(StoreOf[c], u), u = t
          PROVE  s \in lost
      <4>1. CASE \E r \in stray : r[1] = t
        BY <4>1 DEF Held, StraysLost, s
      <4>2. CASE \E d \in Clients :
                   /\ refresh[d].pc = "sent" /\ refresh[d].token = t
                   /\ refresh' = [refresh EXCEPT ![d].pc = "answered", ![d].next = n]
        <5>1. PICK d \in Clients :
                   /\ refresh[d].pc = "sent" /\ refresh[d].token = t
                   /\ refresh' = [refresh EXCEPT ![d].pc = "answered", ![d].next = n]
          BY <4>2
        <5>2. refresh'[d].pc = "answered"
          BY <5>1 DEF TypeOK, Refresh
        <5>3. d # c
          BY <2>2, <5>1, <5>2
        <5>4. At(StoreOf[d], t) /\ StoreOf[d] \in Stores /\ StoreOf[c] \in Stores
          BY <5>1, ClientHolds
        <5>5. StoreOf[d] = StoreOf[c]
          BY <3>1, <5>4 DEF Held, OneStore
        <5>. QED BY <5>3, <5>5, Alone
      <4>. QED BY <4>1, <4>2
    <3>2. ASSUME NEW u \in Tokens, At(StoreOf[c], u), Usable(u)
          PROVE  UsableNext(u)
      BY <1>13, <3>1, <3>2, ClientHolds
    <3>. QED BY <1>6, <2>1, <2>2, <3>2, ClientHolds DEF Held, AllUsable
  <2>3. CASE /\ refresh[c].pc = "sent" /\ refresh[c].token = t
             /\ refresh'[c].pc = "answered" /\ refresh'[c].next = n
    <3>1. ASSUME NEW u \in Tokens, At(StoreOf[c], u), Usable(u), u # t
          PROVE  UsableNext(u)
      BY <1>13, <3>1, ClientHolds
    <3>. QED BY <1>6, <1>8, <1>14, <2>1, <2>3, <3>1, ClientHolds DEF Held, AllUsable
  <2>. QED BY <1>6, <2>2, <2>3
<1>. QED BY <1>7, <1>9, <1>10, <1>11, <1>12, <1>15 DEF Held

LEMMA OpenSessionStep ==
  ASSUME TypeOK, Coherent, Held, NEW c \in Clients, OpenSession(c)
  PROVE  Held'
<1>1. PICK t \in Tokens : /\ token[t].state = "unused"
                          /\ token' = [token EXCEPT ![t] = Live(t)]
                          /\ session' = [session EXCEPT ![t] = "open"]
                          /\ login' = [login EXCEPT ![c] = [pc |-> "answered", secret |-> 0, token |-> t]]
                          /\ UNCHANGED <<store, refresh, stray, lost>>
  BY DEF OpenSession
<1>2. \A u \in Tokens : /\ token'[u].state = IF u = t THEN "live" ELSE token[u].state
                        /\ token'[u].session = IF u = t THEN t ELSE token[u].session
  BY <1>1 DEF Live, TypeOK, Token
<1>3. \A x \in Tokens : session'[x] = IF x = t THEN "open" ELSE session[x]
  BY <1>1 DEF TypeOK
<1>4. \A d \in Clients : login'[d].token = IF d = c THEN t ELSE login[d].token
  BY <1>1 DEF TypeOK
<1>5. \A x \in Stores : ~ At(x, t)
  BY <1>1, HeldIsKnown
<1>6. \A u \in Tokens : token[u].session # t
  BY <1>1, AuthSessionsAssumption DEF Coherent, TokensCoherent, Known
<1>7. None \notin Tokens
  BY AuthSessionsAssumption
<1>8. ASSUME NEW x \in Stores, NEW u \in Tokens, At(x, u)'
      PROVE  At(x, u) \/ (u = t /\ x = StoreOf[c])
  BY <1>1, <1>4, <1>8 DEF At
<1>9. OneStore'
  <2>. SUFFICES ASSUME NEW x \in Stores, NEW y \in Stores, NEW u \in Tokens, NEW v \in Tokens,
                       At(x, u)', At(y, v)', token'[u].session = token'[v].session
                PROVE  x = y
    BY DEF OneStore
  <2>1. u = t <=> v = t
    BY <1>2, <1>6
  <2>2. CASE u = t
    BY <1>5, <1>8, <2>1, <2>2
  <2>3. CASE u # t
    <3>1. At(x, u) /\ At(y, v)
      BY <1>8, <2>1, <2>3
    <3>. QED BY <1>2, <2>1, <2>3, <3>1 DEF Held, OneStore
  <2>. QED BY <2>2, <2>3
<1>10. LoginApart'
  <2>1. \A d \in Clients : StoreOf[d] \in Stores /\ refresh[d].token # t /\ login[d].token # t
    BY <1>5, ClientHolds
  <2>2. \A x \in Stores : store[x] # t
    BY <1>5 DEF At
  <2>3. \A r \in stray : r[1] # t
    BY <1>1, <1>7 DEF Coherent, StrayCoherent, Known
  <2>4. \A d \in Clients : login[d].token # None => login[d].token \in Tokens
    BY DEF TypeOK, Login
  <2>. QED BY <1>1, <1>2, <1>4, <1>6, <2>1, <2>2, <2>3, <2>4 DEF Held, LoginApart
<1>11. FirstOfSession'
  BY <1>2, <1>3, <1>6, LiveSession DEF Held, FirstOfSession
<1>12. NextComes'
  BY <1>1 DEF Held, NextComes
<1>13. StraysLost'
  <2>1. \A r \in stray : r[1] \in Tokens /\ r[1] # t
    BY <1>1, <1>7 DEF TypeOK, Coherent, StrayCoherent, Known
  <2>. QED BY <1>1, <1>2, <2>1 DEF Held, StraysLost
<1>14. ASSUME NEW x \in Stores, NEW u \in Tokens, At(x, u), Usable(u)
       PROVE  UsableNext(u)
  <2>1. u # t /\ token[u].session \in Tokens /\ token[u].session # t
    BY <1>5, <1>6, <1>14, HeldIsKnown
  <2>. QED BY <1>1, <1>2, <1>3, <1>14, <2>1 DEF Usable, UsableNext
<1>15. UsableNext(t)
  BY <1>2 DEF UsableNext
<1>16. AllUsable'
  <2>. SUFFICES ASSUME NEW d \in Clients, ~ Shared(d)
                PROVE  /\ Stored(d) # None => \/ UsableNext(Stored(d))
                                              \/ refresh[d].pc = "answered" /\ Stored(d) = refresh[d].token
                       /\ refresh[d].pc = "sent" => UsableNext(refresh[d].token)
                       /\ refresh[d].pc = "answered" => UsableNext(refresh[d].next)
                       /\ login'[d].token # None => UsableNext(login'[d].token)
    BY <1>1 DEF AllUsable, Usable, UsableNext, Shared, Stored
  <2>1. /\ Stored(d) # None => Stored(d) \in Tokens
        /\ refresh[d].pc # "idle" => refresh[d].token \in Tokens
        /\ refresh[d].pc = "answered" => refresh[d].next \in Tokens
        /\ login[d].token # None => login[d].token \in Tokens
    BY Typed DEF Coherent, RefreshCoherent, Refresh, Login
  <2>. QED BY <1>4, <1>14, <1>15, <2>1, ClientHolds DEF Held, AllUsable
<1>. QED BY <1>9, <1>10, <1>11, <1>12, <1>13, <1>16 DEF Held

-----------------------------------------------------------------------------
(* ReplayMeansLoss: the clients.                                           *)

\* A client forgets tokens; an answer that it does not take is lost.
Drop(c) ==
  /\ UNCHANGED <<server, replayed>>
  /\ lost \subseteq lost'
  /\ UNCHANGED store \/ Keep(c, None)
  /\ \A d \in Clients : login'[d].token \in {login[d].token, None}
  /\ \A d \in Clients :
       \/ /\ refresh'[d].pc = refresh[d].pc /\ refresh'[d].token = refresh[d].token
          /\ refresh'[d].next = refresh[d].next
       \/ /\ refresh'[d] = NoRefresh
          /\ refresh[d].pc = "answered" => token[refresh[d].token].session \in lost'
  /\ \/ UNCHANGED stray
     \/ /\ refresh[c].pc = "sent" /\ stray' = stray \cup {<<refresh[c].token, c>>}
        /\ token[refresh[c].token].session \in lost'

LEMMA StoreAfter ==
  ASSUME TypeOK, NEW c \in Clients, NEW t, Keep(c, t), NEW x \in Stores
  PROVE  store'[x] = IF x = StoreOf[c] THEN t ELSE store[x]
BY Typed DEF Keep, TypeOK

LEMMA DropStep ==
  ASSUME TypeOK, Coherent, Held, NEW c \in Clients, Drop(c)
  PROVE  Held'
<1>1. UNCHANGED <<token, session>> /\ None \notin Tokens /\ Grows
  BY AuthSessionsAssumption DEF Drop, server, Grows
<1>2. \A x \in Stores : store'[x] \in {store[x], None}
  BY StoreAfter DEF Drop
<1>3. \A d \in Clients : login'[d].token \in {login[d].token, None}
  BY DEF Drop
<1>4. \A d \in Clients :
        \/ /\ refresh'[d].pc = refresh[d].pc /\ refresh'[d].token = refresh[d].token
           /\ refresh'[d].next = refresh[d].next
        \/ /\ refresh'[d].pc = "idle" /\ refresh'[d].token = None /\ refresh'[d].next = None
           /\ refresh[d].pc = "answered" => token[refresh[d].token].session \in lost'
  BY DEF Drop, NoRefresh
<1>5. stray' \subseteq stray \cup {<<refresh[c].token, c>>}
  BY DEF Drop
<1>6. \A r \in stray' \ stray : r[1] = refresh[c].token /\ token[r[1]].session \in lost'
  BY DEF Drop
<1>7. OneStore'
  <2>1. ASSUME NEW x \in Stores, NEW t \in Tokens, At(x, t)'
        PROVE  At(x, t)
    <3>1. CASE store'[x] = t
      BY <1>1, <1>2, <3>1 DEF At
    <3>2. ASSUME NEW d \in Clients, StoreOf[d] = x,
                 t \in {refresh'[d].token, refresh'[d].next, login'[d].token}
          PROVE  At(x, t)
      BY <1>1, <1>3, <1>4, <3>2 DEF At
    <3>3. ASSUME NEW d \in Clients, StoreOf[d] = x, <<t, d>> \in stray'
          PROVE  At(x, t)
      <4>1. CASE <<t, d>> \in stray
        BY <3>3, <4>1 DEF At
      <4>2. CASE t = refresh[c].token /\ d = c
        BY <3>3, <4>2 DEF At
      <4>. QED BY <1>5, <3>3, <4>1, <4>2
    <3>. QED BY <2>1, <3>1, <3>2, <3>3 DEF At
  <2>. QED BY <1>1, <2>1, OneStoreStays DEF Held
<1>8. LoginApart'
  <2>1. \A d \in Clients : login'[d].token # None =>
          /\ login'[d].token = login[d].token
          /\ \A r \in stray' : r[1] # login[d].token
    BY <1>3, <1>6 DEF Held, LoginApart
  <2>. QED BY <1>1, <1>2, <1>3, <1>4, <2>1 DEF Held, LoginApart
<1>9. FirstOfSession' /\ NextComes'
  BY <1>1, <1>4 DEF Held, FirstOfSession, NextComes
<1>10. StraysLost'
  BY <1>1, <1>6 DEF Held, StraysLost, Drop
<1>11. \A t : Usable(t) => UsableNext(t)
  BY <1>1 DEF Usable, UsableNext, Drop
<1>12. AllUsable'
  <2>. SUFFICES ASSUME NEW d \in Clients, ~ Shared(d)
                PROVE  /\ Stored(d)' # None => \/ UsableNext(Stored(d)')
                                               \/ refresh'[d].pc = "answered" /\ Stored(d)' = refresh'[d].token
                       /\ refresh'[d].pc = "sent" => UsableNext(refresh'[d].token)
                       /\ refresh'[d].pc = "answered" => UsableNext(refresh'[d].next)
                       /\ login'[d].token # None => UsableNext(login'[d].token)
    BY DEF AllUsable, Usable, UsableNext, Shared
  <2>1. Stored(d)' \in {Stored(d), None}
    BY <1>2, Typed DEF Stored
  <2>2. Stored(d)' # None => \/ UsableNext(Stored(d)')
                             \/ refresh'[d].pc = "answered" /\ Stored(d)' = refresh'[d].token
    <3>. HAVE Stored(d)' # None
    <3>1. CASE Usable(Stored(d))
      BY <1>11, <2>1, <3>1
    <3>2. CASE refresh[d].pc = "answered" /\ Stored(d) = refresh[d].token
      <4>1. CASE token[refresh[d].token].session \in lost'
        BY <1>1, <2>1, <3>2, <4>1 DEF UsableNext
      <4>. QED BY <1>4, <2>1, <3>2, <4>1
    <3>. QED BY <2>1, <3>1, <3>2 DEF Held, AllUsable
  <2>. QED BY <1>3, <1>4, <1>11, <2>2 DEF Held, AllUsable
<1>. QED BY <1>7, <1>8, <1>9, <1>10, <1>12 DEF Held

\* A client stores the tokens of a login, or what a refresh has answered.
LEMMA KeepStep ==
  ASSUME TypeOK, Coherent, Held, NEW c \in Clients, UNCHANGED <<server, lost, stray>>,
         \/ /\ login[c].pc = "answered" /\ Keep(c, login[c].token)
            /\ login' = [login EXCEPT ![c] = NoLogin] /\ UNCHANGED refresh
         \/ /\ refresh[c].pc = "answered" /\ Keep(c, refresh[c].next)
            /\ refresh' = [refresh EXCEPT ![c] = NoRefresh] /\ UNCHANGED login
  PROVE  Held'
<1>1. UNCHANGED <<token, session>> /\ None \notin Tokens /\ Grows
  BY AuthSessionsAssumption DEF server, Grows
<1>2. PICK t \in Tokens :
        /\ Keep(c, t) /\ At(StoreOf[c], t)
        /\ ~ Shared(c) => Usable(t)
        /\ \A d \in Clients : login'[d].token # None => login[d].token # t
  <2>1. CASE /\ login[c].pc = "answered" /\ Keep(c, login[c].token)
             /\ login' = [login EXCEPT ![c] = NoLogin]
    <3>1. login[c].token \in Tokens /\ login[c].token # None
      BY <2>1 DEF TypeOK, Login, Coherent, LoginCoherent
    <3>2. \A d \in Clients : d # c => login[d].token # login[c].token
      BY <3>1 DEF Held, LoginApart
    <3>3. login'[c].token = None
      BY <2>1 DEF TypeOK, NoLogin
    <3>4. ~ Shared(c) => Usable(login[c].token)
      BY <3>1 DEF Held, AllUsable
    <3>. QED BY <2>1, <3>1, <3>2, <3>3, <3>4, ClientHolds
  <2>2. CASE refresh[c].pc = "answered" /\ Keep(c, refresh[c].next) /\ UNCHANGED login
    <3>1. /\ refresh[c].next \in Tokens /\ refresh[c].token \in Tokens
          /\ token[refresh[c].next].session = token[refresh[c].token].session
      BY <2>2 DEF TypeOK, Refresh, Coherent, RefreshCoherent
    <3>2. \A d \in Clients : login[d].token # None => login[d].token # refresh[c].next
      BY <3>1 DEF Held, LoginApart
    <3>3. ~ Shared(c) => Usable(refresh[c].next)
      BY <2>2 DEF Held, AllUsable
    <3>. QED BY <2>2, <3>1, <3>2, <3>3, ClientHolds
  <2>. QED BY <2>1, <2>2
<1>3. \A x \in Stores : store'[x] = IF x = StoreOf[c] THEN t ELSE store[x]
  BY <1>2, StoreAfter
<1>4. \A d \in Clients :
        /\ login'[d].token \in {login[d].token, None}
        /\ \/ refresh'[d] = refresh[d]
           \/ refresh'[d] = NoRefresh /\ d = c
  BY DEF TypeOK, NoLogin
<1>5. OneStore'
  <2>1. ASSUME NEW x \in Stores, NEW u \in Tokens, At(x, u)'
        PROVE  At(x, u)
    <3>1. CASE store'[x] = u
      BY <1>2, <1>3, <3>1 DEF At
    <3>2. ASSUME NEW d \in Clients, StoreOf[d] = x,
                 u \in {refresh'[d].token, refresh'[d].next, login'[d].token} \/ <<u, d>> \in stray'
          PROVE  At(x, u)
      <4>1. u \in {refresh[d].token, refresh[d].next, login[d].token} \/ <<u, d>> \in stray
        BY <1>1, <1>4, <3>2 DEF NoRefresh
      <4>. QED BY <3>2, <4>1 DEF At
    <3>. QED BY <2>1, <3>1, <3>2 DEF At
  <2>. QED BY <1>1, <2>1, OneStoreStays DEF Held
<1>6. LoginApart'
  <2>1. \A d \in Clients : login'[d].token # None =>
          /\ login'[d].token = login[d].token
          /\ \A x \in Stores : store'[x] # login[d].token
    BY <1>2, <1>3, <1>4 DEF Held, LoginApart
  <2>. QED BY <1>1, <1>4, <2>1 DEF Held, LoginApart, NoRefresh
<1>7. FirstOfSession' /\ NextComes' /\ StraysLost'
  BY <1>1, <1>4 DEF Held, FirstOfSession, NextComes, StraysLost, NoRefresh
<1>8. \A u : Usable(u) => UsableNext(u)
  BY <1>1 DEF Usable, UsableNext
<1>9. AllUsable'
  <2>. SUFFICES ASSUME NEW d \in Clients, ~ Shared(d)
                PROVE  /\ Stored(d)' # None => \/ UsableNext(Stored(d)')
                                               \/ refresh'[d].pc = "answered" /\ Stored(d)' = refresh'[d].token
                       /\ refresh'[d].pc = "sent" => UsableNext(refresh'[d].token)
                       /\ refresh'[d].pc = "answered" => UsableNext(refresh'[d].next)
                       /\ login'[d].token # None => UsableNext(login'[d].token)
    BY DEF AllUsable, Usable, UsableNext, Shared
  <2>1. Stored(d)' # None => \/ UsableNext(Stored(d)')
                             \/ refresh'[d].pc = "answered" /\ Stored(d)' = refresh'[d].token
    <3>1. CASE d = c
      BY <1>2, <1>3, <1>8, <3>1, Typed DEF Stored
    <3>2. CASE d # c
      <4>1. StoreOf[d] # StoreOf[c] /\ StoreOf[d] \in Stores
        BY <3>2, Alone, Typed
      <4>2. Stored(d)' = Stored(d) /\ refresh'[d] = refresh[d]
        BY <1>3, <1>4, <3>2, <4>1 DEF Stored
      <4>. QED BY <1>8, <4>2 DEF Held, AllUsable
    <3>. QED BY <3>1, <3>2
  <2>. QED BY <1>4, <1>8, <2>1 DEF Held, AllUsable, NoRefresh
<1>. QED BY <1>5, <1>6, <1>7, <1>9 DEF Held

LEMMA BeginRefreshStep ==
  ASSUME TypeOK, Coherent, Held, NEW c \in Clients, BeginRefresh(c)
  PROVE  Held'
<1>1. /\ UNCHANGED <<token, session, lost, store, login, stray>> /\ None \notin Tokens /\ Grows
      /\ refresh[c].pc = "idle" /\ Stored(c) # None
  BY AuthSessionsAssumption DEF BeginRefresh, server, Grows
<1>2. \A d \in Clients :
        \/ d # c /\ refresh'[d] = refresh[d]
        \/ /\ d = c /\ refresh'[d].pc = "sent" /\ refresh'[d].token = Stored(c)
           /\ refresh'[d].next = None
  BY DEF BeginRefresh, TypeOK
<1>3. StoreOf[c] \in Stores /\ Stored(c) \in Tokens /\ store[StoreOf[c]] = Stored(c)
  BY <1>1, Typed DEF Stored
<1>4. OneStore'
  <2>1. \A x \in Stores, u \in Tokens : At(x, u)' => At(x, u)
    BY <1>1, <1>2, <1>3 DEF At
  <2>. QED BY <1>1, <2>1, OneStoreStays DEF Held
<1>5. LoginApart'
  BY <1>1, <1>2, <1>3 DEF Held, LoginApart
<1>6. FirstOfSession' /\ NextComes' /\ StraysLost'
  BY <1>1, <1>2 DEF Held, FirstOfSession, NextComes, StraysLost
<1>7. \A u : Usable(u) => UsableNext(u)
  BY <1>1 DEF Usable, UsableNext
<1>8. AllUsable'
  <2>. SUFFICES ASSUME NEW d \in Clients, ~ Shared(d)
                PROVE  /\ Stored(d) # None => \/ UsableNext(Stored(d))
                                              \/ refresh'[d].pc = "answered" /\ Stored(d) = refresh'[d].token
                       /\ refresh'[d].pc = "sent" => UsableNext(refresh'[d].token)
                       /\ refresh'[d].pc = "answered" => UsableNext(refresh'[d].next)
                       /\ login[d].token # None => UsableNext(login[d].token)
    BY <1>1 DEF AllUsable, Usable, UsableNext, Shared, Stored
  <2>. QED BY <1>1, <1>2, <1>7 DEF Held, AllUsable
<1>. QED BY <1>4, <1>5, <1>6, <1>8 DEF Held

LEMMA LossIs ==
  ASSUME NEW c \in Clients, LoseAnswer(c) \/ (refresh[c].pc = "sent" /\ Abandon(c))
  PROVE  /\ lost \subseteq lost'
         /\ refresh[c].pc = "answered" => token[refresh[c].token].session \in lost'
BY DEF LoseAnswer, Abandon

LEMMA RefreshIsOver ==
  ASSUME TypeOK, NEW c \in Clients, refresh' = [refresh EXCEPT ![c] = NoRefresh],
         refresh[c].pc = "answered" => token[refresh[c].token].session \in lost'
  PROVE  \A d \in Clients :
           \/ /\ refresh'[d].pc = refresh[d].pc /\ refresh'[d].token = refresh[d].token
              /\ refresh'[d].next = refresh[d].next
           \/ /\ refresh'[d] = NoRefresh
              /\ refresh[d].pc = "answered" => token[refresh[d].token].session \in lost'
BY DEF TypeOK

LEMMA LoginIsOver ==
  ASSUME TypeOK, NEW c \in Clients,
         \/ UNCHANGED login
         \/ login' = [login EXCEPT ![c] = NoLogin]
         \/ login' = [login EXCEPT ![c] = [pc |-> "checked", secret |-> account.secret, token |-> None]]
  PROVE  \A d \in Clients : login'[d].token \in {login[d].token, None}
BY DEF TypeOK, NoLogin

LEMMA CurrentIs ==
  ASSUME TypeOK, NEW c \in Clients, NEW b,
         refresh' = [refresh EXCEPT ![c].current = b]
  PROVE  \A d \in Clients :
           /\ refresh'[d].pc = refresh[d].pc /\ refresh'[d].token = refresh[d].token
           /\ refresh'[d].next = refresh[d].next
BY DEF TypeOK, Refresh

LEMMA RefreshDrops ==
  ASSUME TypeOK, NEW c \in Clients,
         \/ RefreshAnswered(c) /\ ~ StillMine(c)
         \/ RefreshRejected(c) \/ RefreshUnanswered(c) \/ Restart(c)
  PROVE  Drop(c)
<1>1. /\ UNCHANGED <<server, replayed>> /\ refresh' = [refresh EXCEPT ![c] = NoRefresh]
      /\ UNCHANGED login \/ login' = [login EXCEPT ![c] = NoLogin]
  BY DEF RefreshAnswered, RefreshRejected, RefreshUnanswered, Restart, RefreshEnds
<1>2. UNCHANGED store \/ Keep(c, None)
  BY DEF RefreshAnswered, RefreshRejected, RefreshUnanswered, Restart, TabGivesUp, GoOn, ClearSession
<1>3. /\ lost \subseteq lost'
      /\ refresh[c].pc = "answered" => token[refresh[c].token].session \in lost'
  BY LossIs DEF RefreshAnswered, RefreshRejected, RefreshUnanswered, Restart
<1>4. \/ UNCHANGED stray
      \/ /\ refresh[c].pc = "sent" /\ stray' = stray \cup {<<refresh[c].token, c>>}
         /\ token[refresh[c].token].session \in lost'
  BY DEF RefreshAnswered, RefreshRejected, RefreshUnanswered, Restart, Abandon
<1>5. \A d \in Clients : login'[d].token \in {login[d].token, None}
  BY <1>1, LoginIsOver
<1>6. \A d \in Clients :
        \/ /\ refresh'[d].pc = refresh[d].pc /\ refresh'[d].token = refresh[d].token
           /\ refresh'[d].next = refresh[d].next
        \/ /\ refresh'[d] = NoRefresh
           /\ refresh[d].pc = "answered" => token[refresh[d].token].session \in lost'
  BY <1>1, <1>3, RefreshIsOver
<1>. QED BY <1>1, <1>2, <1>3, <1>4, <1>5, <1>6 DEF Drop

LEMMA OthersDrop ==
  ASSUME TypeOK, NEW c \in Clients,
         \/ BeginLogin(c) \/ LoginUnanswered(c) \/ LoginRefused(c)
         \/ NothingStored(c) \/ Restored(c) \/ RestoreFails(c)
         \/ BeginLogout(c) \/ EndLogout(c)
  PROVE  Drop(c)
<1>1. UNCHANGED <<server, replayed, lost, stray>>
  BY DEF BeginLogin, LoginUnanswered, LoginRefused, NothingStored, Restored, RestoreFails,
         BeginLogout, EndLogout
<1>2. UNCHANGED store \/ Keep(c, None)
  BY DEF BeginLogin, LoginUnanswered, LoginRefused, NothingStored, Restored, RestoreFails,
         BeginLogout, EndLogout, ClearSession
<1>3. \A d \in Clients : login'[d].token \in {login[d].token, None}
  <2>1. \/ UNCHANGED login
        \/ login' = [login EXCEPT ![c] = NoLogin]
        \/ login' = [login EXCEPT ![c] = [pc |-> "checked", secret |-> account.secret, token |-> None]]
    BY DEF BeginLogin, LoginUnanswered, LoginRefused, NothingStored, Restored, RestoreFails,
           BeginLogout, EndLogout
  <2>. QED BY <2>1, LoginIsOver
<1>4. \A d \in Clients :
        /\ refresh'[d].pc = refresh[d].pc /\ refresh'[d].token = refresh[d].token
        /\ refresh'[d].next = refresh[d].next
  <2>1. CASE BeginLogin(c)
    <3>1. refresh' = [refresh EXCEPT ![c].current = refresh[c].current /\ c \notin Tabs]
      BY <2>1 DEF BeginLogin
    <3>. QED BY <3>1, CurrentIs
  <2>2. CASE BeginLogout(c) /\ c \in Tabs
    <3>1. refresh' = [refresh EXCEPT ![c].current = FALSE]
      BY <2>2 DEF BeginLogout
    <3>. QED BY <3>1, CurrentIs
  <2>3. CASE UNCHANGED refresh
    BY <2>3
  <2>. QED BY <2>1, <2>2, <2>3
           DEF LoginUnanswered, LoginRefused, NothingStored, Restored, RestoreFails,
               BeginLogout, EndLogout
<1>. QED BY <1>1, <1>2, <1>3, <1>4 DEF Drop

LEMMA ClientHeld ==
  ASSUME TypeOK, Coherent, Held, NEW c \in Clients,
         \/ BeginLogin(c) \/ LoginAnswered(c) \/ LoginUnanswered(c) \/ LoginRefused(c)
         \/ BeginRefresh(c) \/ RefreshAnswered(c) \/ RefreshRejected(c) \/ RefreshUnanswered(c)
         \/ NothingStored(c) \/ Restored(c) \/ RestoreFails(c)
         \/ BeginLogout(c) \/ EndLogout(c) \/ Restart(c)
  PROVE  Held'
<1>1. CASE LoginAnswered(c)
  <2>1. /\ UNCHANGED <<server, lost, stray>> /\ UNCHANGED refresh
        /\ login[c].pc = "answered" /\ Keep(c, login[c].token)
        /\ login' = [login EXCEPT ![c] = NoLogin]
    BY <1>1 DEF LoginAnswered
  <2>. QED BY <2>1, KeepStep
<1>2. CASE RefreshAnswered(c) /\ StillMine(c)
  <2>1. /\ UNCHANGED <<server, lost, stray>> /\ UNCHANGED login
        /\ refresh[c].pc = "answered" /\ Keep(c, refresh[c].next)
        /\ refresh' = [refresh EXCEPT ![c] = NoRefresh]
    BY <1>2 DEF RefreshAnswered, RefreshEnds
  <2>. QED BY <2>1, KeepStep
<1>. QED BY <1>1, <1>2, BeginRefreshStep, RefreshDrops, OthersDrop, DropStep

\* What refresh() does at the server with token t, for a client that waits or
\* for a request given up on
LEMMA ServedHeld ==
  ASSUME IInv, Held, NEW t \in Tokens, token[t].state # "unused", NEW c \in Clients,
         UNCHANGED <<store, login, lost>>, stray' \subseteq stray,
         \/ /\ Refused(t, token[t].session, c)
            /\ \/ UNCHANGED refresh
               \/ /\ refresh[c].pc = "sent"
                  /\ refresh' = [refresh EXCEPT ![c].pc = "rejected"]
         \/ \E n \in Tokens :
              /\ Rotated(t, token[t].session, n)
              /\ \/ /\ refresh[c].pc = "sent" /\ refresh[c].token = t
                    /\ refresh' = [refresh EXCEPT ![c].pc = "answered", ![c].next = n]
                 \/ UNCHANGED refresh /\ \E r \in stray : r[1] = t
  PROVE  Held'
<1>. TypeOK /\ Coherent /\ NoFork
  BY DEF IInv
<1>1. CASE Refused(t, token[t].session, c) /\ (\/ UNCHANGED refresh
                                               \/ /\ refresh[c].pc = "sent"
                                                  /\ refresh' = [refresh EXCEPT ![c].pc = "rejected"])
  <2>1. RevokeFamily(token[t].session) \/ UNCHANGED <<token, session>>
    BY <1>1 DEF Refused
  <2>2. Fewer
    BY <2>1, LiveSession, RevocationsAreFewer
  <2>. QED BY <1>1, <2>2, FewerStep
<1>2. ASSUME NEW n \in Tokens, Rotated(t, token[t].session, n),
             \/ /\ refresh[c].pc = "sent" /\ refresh[c].token = t
                /\ refresh' = [refresh EXCEPT ![c].pc = "answered", ![c].next = n]
             \/ UNCHANGED refresh /\ \E r \in stray : r[1] = t
      PROVE  Held'
  BY <1>2, RotatedStep
<1>. QED BY <1>1, <1>2

LEMMA HeldStep ==
  ASSUME IInv, Held, [Next]_vars
  PROVE  Held'
<1>. TypeOK /\ Coherent /\ NoFork
  BY DEF IInv
<1>1. ASSUME NEW c \in Clients, RefreshAtServer(c)
      PROVE  Held'
  <2>1. /\ refresh[c].token \in Tokens /\ token[refresh[c].token].state # "unused"
        /\ refresh[c].pc = "sent" /\ UNCHANGED <<store, login, lost, stray>>
    BY <1>1 DEF RefreshAtServer, Coherent, RefreshCoherent, Known, TypeOK, Refresh
  <2>2. PICK t \in Tokens : t = refresh[c].token
    BY <2>1
  <2>3. \/ /\ Refused(t, token[t].session, c)
           /\ refresh' = [refresh EXCEPT ![c].pc = "rejected"]
        \/ \E n \in Tokens :
             /\ Rotated(t, token[t].session, n)
             /\ refresh' = [refresh EXCEPT ![c].pc = "answered", ![c].next = n]
    BY <1>1, <2>2 DEF RefreshAtServer
  <2>. QED BY <2>1, <2>2, <2>3, ServedHeld
<1>2. CASE StrayAtServer
  <2>1. PICK r \in stray :
          /\ \/ Refused(r[1], token[r[1]].session, r[2])
             \/ \E n \in Tokens : Rotated(r[1], token[r[1]].session, n)
          /\ stray' = stray \ {r}
          /\ UNCHANGED <<lost, store, login, refresh>>
    BY <1>2 DEF StrayAtServer
  <2>2. r[1] \in Tokens /\ r[2] \in Clients /\ token[r[1]].state # "unused"
    BY DEF TypeOK, Coherent, StrayCoherent, Known
  <2>3. PICK t \in Tokens, c \in Clients : t = r[1] /\ c = r[2]
    BY <2>2
  <2>. QED BY <2>1, <2>2, <2>3, ServedHeld
<1>3. ASSUME NEW c \in Clients, LogoutAtServer(c)
      PROVE  Held'
  <2>1. logout[c].token \in Tokens /\ token[logout[c].token].state # "unused"
    BY <1>3 DEF LogoutAtServer, Coherent, LogoutCoherent, Known, TypeOK, Logout
  <2>2. \/ RevokeFamily(token[logout[c].token].session)
        \/ UNCHANGED <<token, session>>
    BY <1>3 DEF LogoutAtServer
  <2>3. UNCHANGED <<store, login, lost, refresh, stray>>
    BY <1>3 DEF LogoutAtServer
  <2>. QED BY <2>1, <2>2, <2>3, LiveSession, RevocationsAreFewer, FewerStep
<1>4. CASE ReplaceSecret \/ Deactivate \/ Reactivate \/ ToggleCompany
  <2>1. RevokeAll \/ UNCHANGED <<token, session>>
    BY <1>4 DEF ReplaceSecret, Deactivate, Reactivate, ToggleCompany
  <2>2. UNCHANGED <<store, login, lost, refresh, stray>>
    BY <1>4 DEF ReplaceSecret, Deactivate, Reactivate, ToggleCompany, client
  <2>. QED BY <2>1, <2>2, RevocationsAreFewer, FewerStep
<1>5. CASE UNCHANGED vars
  <2>1. UNCHANGED <<token, session, store, login, lost, refresh, stray>>
    BY <1>5 DEF vars, server, client
  <2>. QED BY <2>1, RevocationsAreFewer, FewerStep
<1>. QED BY <1>1, <1>2, <1>3, <1>4, <1>5, OpenSessionStep, ClientHeld DEF Next, ServerNext, ClientNext

\* Nothing is forgotten, and a replay is taken for theft only where an answer
\* was lost.
LEMMA ReplayStep ==
  ASSUME IInv, Held, ReplayMeansLoss, [Next]_vars
  PROVE  ReplayMeansLoss'
<1>. TypeOK /\ Coherent
  BY DEF IInv
<1>1. ASSUME NEW t \in Tokens, NEW c \in Clients, UNCHANGED lost,
             Refused(t, token[t].session, c) \/ \E n \in Tokens : Rotated(t, token[t].session, n),
             Usable(t) \/ Shared(c)
      PROVE  ReplayMeansLoss'
  <2>1. CASE UNCHANGED replayed
    BY <1>1, <2>1 DEF ReplayMeansLoss
  <2>2. CASE /\ session[token[t].session] = "open" /\ token[t].state = "revoked"
             /\ replayed' = replayed \cup {<<token[t].session, c>>}
    <3>1. token[t].session \in lost \/ Shared(c)
      BY <1>1, <2>2 DEF Usable
    <3>. QED BY <1>1, <2>2, <3>1 DEF ReplayMeansLoss
  <2>. QED BY <1>1, <2>1, <2>2 DEF Refused, Rotated
<1>2. ASSUME NEW c \in Clients, RefreshAtServer(c)
      PROVE  ReplayMeansLoss'
  <2>1. refresh[c].token \in Tokens /\ refresh[c].pc = "sent" /\ UNCHANGED lost
    BY <1>2 DEF RefreshAtServer, Coherent, RefreshCoherent, TypeOK, Refresh
  <2>2. PICK t \in Tokens : t = refresh[c].token
    BY <2>1
  <2>3. Usable(t) \/ Shared(c)
    BY <2>1, <2>2 DEF Held, AllUsable
  <2>. QED BY <1>1, <1>2, <2>1, <2>2, <2>3 DEF RefreshAtServer
<1>3. CASE StrayAtServer
  <2>1. PICK r \in stray :
          /\ \/ Refused(r[1], token[r[1]].session, r[2])
             \/ \E n \in Tokens : Rotated(r[1], token[r[1]].session, n)
          /\ UNCHANGED lost
    BY <1>3 DEF StrayAtServer
  <2>2. r[1] \in Tokens /\ r[2] \in Clients
    BY DEF TypeOK
  <2>3. PICK t \in Tokens, c \in Clients : t = r[1] /\ c = r[2]
    BY <2>2
  <2>4. Usable(t)
    BY <2>3 DEF Held, StraysLost, Usable
  <2>. QED BY <1>1, <2>1, <2>3, <2>4
<1>4. ASSUME UNCHANGED replayed, lost \subseteq lost'
      PROVE  ReplayMeansLoss'
  BY <1>4 DEF ReplayMeansLoss
<1>5. ASSUME NEW c \in Clients, OpenSession(c) \/ LogoutAtServer(c)
      PROVE  ReplayMeansLoss'
  BY <1>4, <1>5 DEF OpenSession, LogoutAtServer
<1>6. ASSUME NEW c \in Clients, RefreshAnswered(c) \/ LoginAnswered(c) \/ BeginRefresh(c)
      PROVE  ReplayMeansLoss'
  BY <1>4, <1>6, LossIs DEF LoginAnswered, BeginRefresh, RefreshAnswered, RefreshEnds
<1>7. ASSUME NEW c \in Clients, Drop(c)
      PROVE  ReplayMeansLoss'
  BY <1>4, <1>7 DEF Drop
<1>8. CASE ReplaceSecret \/ Deactivate \/ Reactivate \/ ToggleCompany
  BY <1>4, <1>8 DEF ReplaceSecret, Deactivate, Reactivate, ToggleCompany
<1>9. CASE UNCHANGED vars
  BY <1>4, <1>9 DEF vars
<1>10. CASE ClientNext
  BY <1>6, <1>7, <1>10, OthersDrop, RefreshDrops DEF ClientNext
<1>11. CASE ServerNext
  BY <1>2, <1>3, <1>5, <1>7, <1>8, <1>11, OthersDrop DEF ServerNext
<1>. QED BY <1>9, <1>10, <1>11 DEF Next

LEMMA HeldInitially ==
  ASSUME Init
  PROVE  Held /\ ReplayMeansLoss
<1>1. None \notin Tokens /\ Legacy \subseteq Tokens /\ TypeOK
  BY AuthSessionsAssumption, InitTyped
<1>2. /\ \A t \in Tokens : token[t] = IF t \in Legacy THEN Live(t)
                                      ELSE [state |-> "unused", session |-> None]
      /\ stray = {} /\ replayed = {}
      /\ \A c \in Clients : /\ refresh[c].token = None /\ refresh[c].next = None
                            /\ refresh[c].pc = "idle" /\ login[c].token = None
  BY DEF Init, NoRefresh, NoLogin
<1>3. \A x \in Stores, t \in Tokens : At(x, t) => store[x] = t /\ t \in Legacy
  BY <1>1, <1>2 DEF At, Init
<1>4. OneStore
  BY <1>1, <1>2, <1>3 DEF OneStore, Live, Init
<1>5. LoginApart /\ NextComes /\ StraysLost
  BY <1>2 DEF LoginApart, NextComes, StraysLost
<1>6. \A t \in Tokens : \/ t \in Legacy /\ token[t].state = "live" /\ token[t].session = t
                        \/ t \notin Legacy /\ token[t].state = "unused"
  <2>. TAKE t \in Tokens
  <2>1. CASE t \in Legacy
    <3>1. token[t] = Live(t)
      BY <1>2, <2>1
    <3>. QED BY <2>1, <3>1 DEF Live
  <2>2. CASE t \notin Legacy
    <3>1. token[t] = [state |-> "unused", session |-> None]
      BY <1>2, <2>2
    <3>. QED BY <2>2, <3>1
  <2>. QED BY <2>1, <2>2
<1>7. FirstOfSession
  BY <1>6 DEF FirstOfSession
<1>8. AllUsable
  <2>1. ASSUME NEW c \in Clients, Stored(c) # None
        PROVE  Usable(Stored(c))
    <3>1. Stored(c) \in Legacy
      BY <2>1, <1>1, Typed DEF Init, Stored
    <3>. QED BY <1>1, <1>6, <3>1 DEF Usable
  <2>. QED BY <1>2, <2>1 DEF AllUsable
<1>. QED BY <1>2, <1>4, <1>5, <1>7, <1>8 DEF Held, ReplayMeansLoss

LEMMA HeldAlways == Spec => [](Held /\ ReplayMeansLoss)
<1>1. Init => Held /\ ReplayMeansLoss
  BY HeldInitially
<1>2. IInv /\ Held /\ ReplayMeansLoss /\ [Next]_vars => (Held /\ ReplayMeansLoss)'
  BY HeldStep, ReplayStep
<1>. QED BY <1>1, <1>2, Inductive, PTL DEF Spec

\* refresh() takes a client alone with its tokens for a thief only after an
\* answer to that client was lost: requests that overlap, logouts, logins and
\* restarts never have it send a token that it has used up.
THEOREM ReplayNeedsLoss == Spec => []ReplayMeansLoss
BY HeldAlways, PTL

-----------------------------------------------------------------------------
(* OnlyLoginSwitches.                                                      *)

\* What a step puts into a store: nothing, a login's token or a refresh's next.
LEMMA StoreStep ==
  ASSUME TypeOK, Coherent, [Next]_vars
  PROVE  \/ UNCHANGED store
         \/ \E d \in Clients :
              \/ Keep(d, None)
              \/ login[d].pc = "answered" /\ Keep(d, login[d].token)
              \/ /\ refresh[d].pc = "answered" /\ StillMine(d) /\ Keep(d, refresh[d].next)
                 /\ UNCHANGED token
<1>1. CASE ServerNext
  BY <1>1 DEF ServerNext, OpenSession, LoginRefused, RefreshAtServer, LogoutAtServer, StrayAtServer,
              ReplaceSecret, Deactivate, Reactivate, ToggleCompany, client
<1>2. ASSUME NEW d \in Clients, RefreshAnswered(d) /\ StillMine(d)
      PROVE  refresh[d].pc = "answered" /\ Keep(d, refresh[d].next) /\ UNCHANGED token
  BY <1>2 DEF RefreshAnswered, RefreshEnds, server
<1>3. CASE ClientNext
  BY <1>2, <1>3, OthersDrop, RefreshDrops DEF ClientNext, LoginAnswered, BeginRefresh, Drop
<1>4. CASE UNCHANGED vars
  BY <1>4 DEF vars, client
<1>. QED BY <1>1, <1>3, <1>4 DEF Next

LEMMA SwitchStep ==
  ASSUME TypeOK, Coherent, [Next]_vars, NEW c \in Tabs, ~ Shared(c),
         store'[StoreOf[c]] # None, store'[StoreOf[c]] # Stored(c)
  PROVE  \/ Stored(c) # None /\ token'[store'[StoreOf[c]]].session = token[Stored(c)].session
         \/ login[c].pc = "answered" /\ store'[StoreOf[c]] = login[c].token
<1>1. c \in Clients /\ StoreOf[c] \in Stores
  BY Typed DEF Clients
<1>2. ASSUME NEW d \in Clients, NEW t, Keep(d, t)
      PROVE  d = c /\ store'[StoreOf[c]] = t
  <2>1. store'[StoreOf[c]] = IF StoreOf[c] = StoreOf[d] THEN t ELSE Stored(c)
    BY <1>1, <1>2, StoreAfter DEF Stored
  <2>. QED BY <1>1, <2>1, Alone
<1>3. CASE UNCHANGED store
  BY <1>3 DEF Stored
<1>4. ASSUME NEW d \in Clients, Keep(d, None)
      PROVE  FALSE
  BY <1>2, <1>4
<1>5. ASSUME NEW d \in Clients, login[d].pc = "answered", Keep(d, login[d].token)
      PROVE  login[c].pc = "answered" /\ store'[StoreOf[c]] = login[c].token
  BY <1>2, <1>5
<1>6. ASSUME NEW d \in Clients, refresh[d].pc = "answered", StillMine(d), Keep(d, refresh[d].next),
             UNCHANGED token
      PROVE  Stored(c) # None /\ token'[store'[StoreOf[c]]].session = token[Stored(c)].session
  <2>1. d = c /\ store'[StoreOf[c]] = refresh[c].next
    BY <1>2, <1>6
  <2>2. Stored(c) = refresh[c].token
    BY <1>6, <2>1 DEF StillMine
  <2>3. /\ refresh[c].token # None
        /\ token[refresh[c].next].session = token[refresh[c].token].session
    BY <1>1, <1>6, <2>1 DEF Coherent, RefreshCoherent
  <2>. QED BY <1>6, <2>1, <2>2, <2>3
<1>. QED BY <1>3, <1>4, <1>5, <1>6, StoreStep

\* A tab's AuthProvider never has the late answer to a refresh bring back a
\* session that was logged out, or replace a newer login.
THEOREM OnlyLoginsSwitch == Spec => OnlyLoginSwitches
<1>1. TypeOK /\ Coherent /\ [Next]_vars =>
        [\A c \in Tabs : ~ Shared(c) =>
           LET kept == Stored(c)
               next == store'[StoreOf[c]]
           IN  next # None /\ next # kept =>
                 \/ kept # None /\ token'[next].session = token[kept].session
                 \/ login[c].pc = "answered" /\ next = login[c].token]_vars
  BY SwitchStep
<1>. QED BY <1>1, TypeCorrect, PTL DEF OnlyLoginSwitches, Spec
=============================================================================
