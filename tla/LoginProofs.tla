----------------------------- MODULE LoginProofs -----------------------------
(***************************************************************************)
(* Proofs about Login.  A login is in one place at a time: pending, with   *)
(* the one callback that took it from the map, or turned into a session.   *)
(***************************************************************************)
EXTENDS Login, TLAPS

Statements == {"idle", "discord", "upsert", "session"}

Requested == [login : {0} \cup DOMAIN logins, browser : Browsers \cup {0},
              user : Users \cup {0}, name : Names \cup {0}]

SessionRow == [login : DOMAIN logins, browser : Browsers, user : Users, expires : Nat]

\* Starting a login keeps those before it.
LEMMA LoginsGrow ==
  ASSUME TypeOK, NEW b \in Browsers, logins' = Append(logins, [browser |-> b, at |-> now])
  PROVE  /\ Len(logins') = Len(logins) + 1 /\ Len(logins) \in Nat
         /\ logins' \in Seq([browser : Browsers, at : Time])
         /\ DOMAIN logins = 1..Len(logins) /\ DOMAIN logins' = 1..(Len(logins) + 1)
         /\ \A s \in DOMAIN logins : s \in DOMAIN logins' /\ logins'[s] = logins[s]
         /\ Len(logins') \in DOMAIN logins' /\ Len(logins') \notin DOMAIN logins
         /\ logins'[Len(logins')] = [browser |-> b, at |-> now]
<1>1. logins \in Seq([browser : Browsers, at : Time]) /\ now \in Time
  BY DEF TypeOK
<1>2. [browser |-> b, at |-> now] \in [browser : Browsers, at : Time]
  BY <1>1
<1> QED BY <1>1, <1>2

LEMMA ElementTyped ==
  ASSUME NEW S, NEW q \in Seq(S), NEW i \in DOMAIN q
  PROVE  q[i] \in S
OBVIOUS

LEMMA LoginTyped ==
  ASSUME TypeOK, NEW s \in DOMAIN logins
  PROVE  logins[s].browser \in Browsers /\ logins[s].at \in Time
<1>1. logins \in Seq([browser : Browsers, at : Time])
  BY DEF TypeOK
<1>2. logins[s] \in [browser : Browsers, at : Time]
  BY <1>1, ElementTyped
<1> QED BY <1>2

LEMMA NoRequestTyped == NoRequest \in Requested
BY DEF NoRequest, Requested

LEMMA TypeInit == Init => TypeOK
<1> SUFFICES ASSUME Init PROVE TypeOK
  OBVIOUS
<1>1. request \in [Callbacks -> Requested]
  BY NoRequestTyped DEF Init
<1>2. now \in Time /\ cleaned \in Time
  BY LoginAssumption DEF Init, Time
<1>3. logins \in Seq([browser : Browsers, at : Time]) /\ Len(logins) <= MaxLogins
  BY LoginAssumption DEF Init
<1>4. /\ states \subseteq DOMAIN logins /\ cookie \in [Browsers -> {0} \cup DOMAIN logins]
      /\ username \in [Users -> Names \cup {0}]
      /\ \A u, v \in Users : username[u] = username[v] /\ username[u] # 0 => u = v
      /\ sessions \subseteq SessionRow
  BY DEF Init
<1>5. pc \in [Callbacks -> Statements]
  BY DEF Init, Statements
<1> QED BY <1>1, <1>2, <1>3, <1>4, <1>5 DEF Init, TypeOK, Requested, Statements, SessionRow

\* The type of what the callbacks hold is kept by a step of one of them.
LEMMA CallbackTyped ==
  ASSUME TypeOK, NEW g \in Callbacks, NEW p \in Statements, NEW r \in Requested,
         pc' = [pc EXCEPT ![g] = p], request' = [request EXCEPT ![g] = r],
         UNCHANGED <<now, logins, cleaned, name>>,
         states' \subseteq states,
         cookie' \in [Browsers -> {0} \cup DOMAIN logins],
         username' \in [Users -> Names \cup {0}],
         \A u, v \in Users : username'[u] = username'[v] /\ username'[u] # 0 => u = v,
         sessions' \subseteq SessionRow
  PROVE  TypeOK'
<1>1. pc' \in [Callbacks -> Statements]
  BY DEF TypeOK, Statements
<1>2. request' \in [Callbacks -> Requested]
  BY DEF TypeOK, Requested
<1>3. Requested' = Requested /\ SessionRow' = SessionRow
  BY DEF Requested, SessionRow
<1>4. DOMAIN logins' = DOMAIN logins
  OBVIOUS
<1>5. states' \subseteq DOMAIN logins
  BY DEF TypeOK
<1>6. request' \in [Callbacks -> [login : {0} \cup DOMAIN logins', browser : Browsers \cup {0},
                                  user : Users \cup {0}, name : Names \cup {0}]]
  BY <1>2, <1>4 DEF Requested
<1>7. sessions' \subseteq [login : DOMAIN logins', browser : Browsers, user : Users, expires : Nat]
  BY <1>4 DEF SessionRow
<1> QED BY <1>1, <1>4, <1>5, <1>6, <1>7 DEF TypeOK, Statements

LEMMA CallbackKeepsType ==
  ASSUME LoginInv, NEW g \in Callbacks, Callback(g)
  PROVE  TypeOK'
<1> USE DEF LoginInv
<1>1. /\ request[g] \in Requested /\ pc[g] \in Statements
      /\ pc = [pc EXCEPT ![g] = pc[g]] /\ request = [request EXCEPT ![g] = request[g]]
      /\ cookie \in [Browsers -> {0} \cup DOMAIN logins]
      /\ username \in [Users -> Names \cup {0}]
      /\ \A u, v \in Users : username[u] = username[v] /\ username[u] # 0 => u = v
      /\ sessions \subseteq SessionRow
  BY DEF TypeOK, Requested, Statements, SessionRow
<1>2. CASE \E b \in Browsers, s \in DOMAIN logins : GetState(g, b, s)
  <2>1. PICK b \in Browsers, s \in DOMAIN logins : GetState(g, b, s)
    BY <1>2
  <2> DEFINE r == [NoRequest EXCEPT !.login = s, !.browser = b]
  <2>2. r \in Requested
    BY DEF NoRequest, Requested
  <2>3. /\ UNCHANGED <<now, logins, cookie, cleaned, name, username, sessions>>
        /\ states' \subseteq states
    BY <2>1 DEF GetState, database
  <2>4. CASE Expired(s)
    <3>1. pc' = [pc EXCEPT ![g] = pc[g]] /\ request' = [request EXCEPT ![g] = request[g]]
      BY <1>1, <2>1, <2>4 DEF GetState, callback
    <3> QED BY <1>1, <2>3, <3>1, CallbackTyped
  <2>5. CASE ~Expired(s)
    <3>1. pc' = [pc EXCEPT ![g] = "discord"] /\ request' = [request EXCEPT ![g] = r]
      BY <2>1, <2>5 DEF GetState
    <3>2. "discord" \in Statements
      BY DEF Statements
    <3> HIDE DEF r
    <3> QED BY <1>1, <2>2, <2>3, <3>1, <3>2, CallbackTyped
  <2> QED BY <2>4, <2>5
<1>3. CASE getDiscordUser(g)
  <2>1. PICK u \in Users : request' = [request EXCEPT ![g].user = u, ![g].name = name[u]]
    BY <1>3 DEF getDiscordUser
  <2> DEFINE r == [request[g] EXCEPT !.user = u, !.name = name[u]]
  <2>2. name[u] \in Names
    BY DEF TypeOK
  <2>3. r \in Requested
    BY <1>1, <2>2 DEF Requested
  <2>4. request' = [request EXCEPT ![g] = r]
    BY <2>1
  <2>5. /\ pc' = [pc EXCEPT ![g] = "upsert"] /\ "upsert" \in Statements
        /\ UNCHANGED <<now, logins, states, cookie, cleaned, name, username, sessions>>
    BY <1>3 DEF getDiscordUser, Statements, pending, database
  <2> HIDE DEF r
  <2> QED BY <1>1, <2>3, <2>4, <2>5, CallbackTyped
<1>4. CASE UpsertDiscordUser(g)
  <2>1. /\ username' = [username EXCEPT ![request[g].user] = request[g].name]
        /\ ~Clash(g)
        /\ pc' = [pc EXCEPT ![g] = "session"] /\ "session" \in Statements
        /\ request' = [request EXCEPT ![g] = request[g]]
        /\ UNCHANGED <<now, logins, states, cookie, cleaned, name, sessions>>
    BY <1>1, <1>4 DEF UpsertDiscordUser, Statements, pending
  <2>2. request[g].name \in Names \cup {0}
    BY <1>1 DEF Requested
  <2>3. username' \in [Users -> Names \cup {0}]
    BY <1>1, <2>1, <2>2
  <2>4. \A u, v \in Users : username'[u] = username'[v] /\ username'[u] # 0 => u = v
    BY <1>1, <2>1 DEF Clash
  <2> QED BY <1>1, <2>1, <2>3, <2>4, CallbackTyped
<1>5. CASE UpsertFails(g) \/ CallbackFails(g)
  <2>1. /\ pc' = [pc EXCEPT ![g] = "idle"] /\ "idle" \in Statements
        /\ request' = [request EXCEPT ![g] = NoRequest]
        /\ UNCHANGED <<now, logins, states, cookie, cleaned, name, username, sessions>>
    BY <1>5 DEF UpsertFails, CallbackFails, Return, Statements, pending, database
  <2> QED BY <1>1, <2>1, NoRequestTyped, CallbackTyped
<1>6. CASE CreateSession(g)
  <2> DEFINE b == request[g].browser
             t == [login |-> request[g].login, browser |-> b, user |-> request[g].user,
                   expires |-> now + SessionLife]
  <2>1. /\ pc' = [pc EXCEPT ![g] = "idle"] /\ "idle" \in Statements
        /\ request' = [request EXCEPT ![g] = NoRequest]
        /\ cookie' = [cookie EXCEPT ![b] = 0]
        /\ sessions' = sessions \cup {t}
        /\ UNCHANGED <<now, logins, states, cleaned, name, username>>
    BY <1>6 DEF CreateSession, Return, Statements, removeOauthCookie
  <2>2. cookie' \in [Browsers -> {0} \cup DOMAIN logins]
    BY <1>1, <2>1
  <2>3. request[g].login \in DOMAIN logins /\ b \in Browsers /\ request[g].user \in Users
    <3>1. pc[g] = "session" /\ HeldOnce(g)
      BY <1>6 DEF CreateSession
    <3>2. /\ request[g].login \in DOMAIN logins /\ request[g].user # 0
          /\ b = logins[request[g].login].browser
      BY <3>1 DEF HeldOnce
    <3>3. request[g].user \in Users \cup {0}
      BY <1>1 DEF TypeOK, Requested
    <3>5. b \in Browsers
      BY <3>2, LoginTyped
    <3>6. request[g].user \in Users
      BY <3>2, <3>3
    <3> QED BY <3>2, <3>5, <3>6
  <2>4. now + SessionLife \in Nat
    BY LoginAssumption DEF TypeOK, Time
  <2>5. sessions' \subseteq SessionRow
    BY <1>1, <2>1, <2>3, <2>4 DEF SessionRow
  <2> HIDE DEF t, b
  <2> QED BY <1>1, <2>1, <2>2, <2>5, NoRequestTyped, CallbackTyped
<1> QED BY <1>2, <1>3, <1>4, <1>5, <1>6 DEF Callback

\* Every other step keeps the types too.
LEMMA OthersKeepType ==
  ASSUME TypeOK,
         \/ \E b \in Browsers : LoginPage(b)
         \/ doCleanupStates \/ DeleteExpiredSessions \/ Tick
         \/ \E u \in Users, n \in Names : Rename(u, n)
         \/ Restart
         \/ UNCHANGED vars
  PROVE  TypeOK'
<1>1. CASE \E b \in Browsers : LoginPage(b)
  <2>1. PICK b \in Browsers : LoginPage(b)
    BY <1>1
  <2>2. /\ logins' = Append(logins, [browser |-> b, at |-> now])
        /\ states' = states \cup {Len(logins')}
        /\ cookie' = [cookie EXCEPT ![b] = Len(logins')]
        /\ UNCHANGED <<now, cleaned, name, username, sessions, pc, request>>
        /\ Len(logins) < MaxLogins
    BY <2>1 DEF LoginPage, NewState, addOauthCookie, database, callback
  <2>3. /\ DOMAIN logins \subseteq DOMAIN logins' /\ Len(logins') \in DOMAIN logins'
        /\ logins' \in Seq([browser : Browsers, at : Time]) /\ Len(logins') = Len(logins) + 1
        /\ Len(logins) \in Nat
    BY <2>2, LoginsGrow
  <2>4. states' \subseteq DOMAIN logins'
    BY <2>2, <2>3 DEF TypeOK
  <2>5. cookie' \in [Browsers -> {0} \cup DOMAIN logins']
    BY <2>2, <2>3 DEF TypeOK
  <2>6. /\ request' \in [Callbacks -> [login : {0} \cup DOMAIN logins', browser : Browsers \cup {0},
                                       user : Users \cup {0}, name : Names \cup {0}]]
    BY <2>2, <2>3 DEF TypeOK
  <2>7. sessions' \subseteq [login : DOMAIN logins', browser : Browsers, user : Users, expires : Nat]
    BY <2>2, <2>3 DEF TypeOK
  <2>8. Len(logins') <= MaxLogins
    BY <2>2, <2>3, LoginAssumption
  <2> QED BY <2>2, <2>3, <2>4, <2>5, <2>6, <2>7, <2>8 DEF TypeOK
<1>2. CASE doCleanupStates
  BY <1>2 DEF doCleanupStates, TypeOK, database, callback
<1>3. CASE DeleteExpiredSessions
  BY <1>3 DEF DeleteExpiredSessions, TypeOK, pending, callback
<1>4. CASE Tick
  <2>1. now' \in Time
    BY <1>4, LoginAssumption DEF Tick, TypeOK, Time
  <2> QED BY <1>4, <2>1 DEF Tick, TypeOK, pending, database, callback
<1>5. CASE \E u \in Users, n \in Names : Rename(u, n)
  <2>1. PICK u \in Users, n \in Names : Rename(u, n)
    BY <1>5
  <2>2. /\ name' = [name EXCEPT ![u] = n] /\ \A v \in Users : name[v] # n
        /\ UNCHANGED <<now, logins, states, cookie, cleaned, username, sessions, pc, request>>
    BY <2>1 DEF Rename, pending, database, callback
  <2>3. name \in [Users -> Names] /\ \A v, w \in Users : name[v] = name[w] => v = w
    BY DEF TypeOK, IsInjective
  <2>4. name' \in [Users -> Names] /\ \A v, w \in Users : name'[v] = name'[w] => v = w
    BY <2>2, <2>3
  <2>5. IsInjective(name')
    BY <2>4 DEF IsInjective
  <2> QED BY <2>2, <2>4, <2>5 DEF TypeOK
<1>6. CASE Restart
  <2>1. \A g \in Callbacks : pc'[g] = "idle" /\ request'[g] = NoRequest
    BY <1>6 DEF Restart
  <2>2. pc' \in [Callbacks -> {"idle", "discord", "upsert", "session"}]
    BY <1>6 DEF Restart
  <2>3. request' \in [Callbacks -> Requested]
    BY <1>6, NoRequestTyped DEF Restart
  <2> QED BY <1>6, <2>2, <2>3 DEF Restart, TypeOK, Requested, database
<1>7. CASE UNCHANGED vars
  BY <1>7 DEF vars, TypeOK, pending, database, callback
<1> QED BY <1>1, <1>2, <1>3, <1>4, <1>5, <1>6, <1>7

-----------------------------------------------------------------------------
(* The inductive invariant. *)

LEMMA InvInit == Init => LoginInv
BY TypeInit DEF Init, LoginInv, CookieOfBrowser, SessionOfLogin, SessionHasUser

\* A step that leaves logins, callbacks, users and sessions alone, and may drop
\* pending logins or end callbacks, keeps the invariant.
LEMMA InvNoCallback ==
  ASSUME LoginInv, TypeOK',
         UNCHANGED <<logins, cookie, username>>,
         states' \subseteq states, sessions' \subseteq sessions,
         \A g \in Callbacks : pc'[g] # "idle" => pc'[g] = pc[g] /\ request'[g] = request[g]
  PROVE  LoginInv'
<1>1. CookieOfBrowser'
  BY DEF LoginInv, CookieOfBrowser
<1>2. \A t \in sessions' : t.login \notin states'
  BY DEF LoginInv
<1>3. SessionOfLogin' /\ SessionHasUser'
  BY DEF LoginInv, SessionOfLogin, SessionHasUser, GetSession
<1>4. ASSUME NEW g \in Callbacks, pc'[g] # "idle" PROVE HeldOnce(g)'
  <2>1. pc'[g] = pc[g] /\ request'[g] = request[g] /\ HeldOnce(g)
    BY <1>4 DEF LoginInv
  <2>2. \A h \in Callbacks \ {g} : pc'[h] # "idle" => request'[h].login # request'[g].login
    BY <2>1 DEF HeldOnce
  <2> QED BY <2>1, <2>2 DEF HeldOnce
<1> QED BY <1>1, <1>2, <1>3, <1>4 DEF LoginInv

LEMMA InvLoginPage ==
  ASSUME LoginInv, TypeOK', NEW b \in Browsers, LoginPage(b)
  PROVE  LoginInv'
<1> DEFINE n == Len(logins')
<1>1. /\ logins' = Append(logins, [browser |-> b, at |-> now])
      /\ states' = states \cup {n}
      /\ cookie' = [cookie EXCEPT ![b] = n]
      /\ UNCHANGED <<username, sessions, pc, request>>
  BY DEF LoginPage, NewState, addOauthCookie, database, callback
<1>2. TypeOK
  BY DEF LoginInv
<1>3. /\ \A s \in DOMAIN logins : s \in DOMAIN logins' /\ logins'[s] = logins[s]
      /\ n \notin DOMAIN logins /\ n \in DOMAIN logins' /\ logins'[n].browser = b
      /\ n # 0 /\ n \in Nat
  <2>1. logins'[n] = [browser |-> b, at |-> now] /\ n = Len(logins) + 1 /\ Len(logins) \in Nat
    BY <1>1, <1>2, LoginsGrow
  <2> HIDE DEF n
  <2>2. logins'[n].browser = b /\ n # 0 /\ n \in Nat
    BY <2>1
  <2>3. /\ \A s \in DOMAIN logins : s \in DOMAIN logins' /\ logins'[s] = logins[s]
        /\ n \notin DOMAIN logins /\ n \in DOMAIN logins'
    BY <1>1, <1>2, LoginsGrow DEF n
  <2> QED BY <2>2, <2>3
<1> HIDE DEF n
<1>4. CookieOfBrowser'
  <2>1. ASSUME NEW c \in Browsers, cookie'[c] # 0 PROVE logins'[cookie'[c]].browser = c
    <3>1. CASE c = b
      BY <1>1, <1>2, <1>3, <3>1 DEF TypeOK
    <3>2. CASE c # b
      <4>1. cookie'[c] = cookie[c] /\ cookie[c] \in DOMAIN logins
        BY <1>1, <1>2, <2>1, <3>2 DEF TypeOK
      <4> QED BY <1>3, <2>1, <4>1 DEF LoginInv, CookieOfBrowser
    <3> QED BY <3>1, <3>2
  <2> QED BY <2>1 DEF CookieOfBrowser
<1>5. ASSUME NEW g \in Callbacks, pc'[g] # "idle" PROVE HeldOnce(g)'
  <2>1. HeldOnce(g) /\ request[g].login \in DOMAIN logins
    BY <1>1, <1>5 DEF LoginInv, HeldOnce
  <2>2. request[g].login \in DOMAIN logins' /\ request[g].login \notin states'
    BY <1>1, <1>3, <2>1 DEF HeldOnce
  <2>3. request[g].browser = logins'[request[g].login].browser
    BY <1>3, <2>1 DEF HeldOnce
  <2> QED BY <1>1, <2>1, <2>2, <2>3 DEF HeldOnce
<1>6. \A t \in sessions : t.login \in DOMAIN logins
  BY <1>2 DEF TypeOK
<1>7. \A t \in sessions' : t.login \notin states'
  BY <1>1, <1>3, <1>6 DEF LoginInv
<1>8. SessionOfLogin' /\ SessionHasUser'
  BY <1>1, <1>3, <1>6 DEF LoginInv, SessionOfLogin, SessionHasUser, GetSession
<1> QED BY <1>4, <1>5, <1>7, <1>8 DEF LoginInv

LEMMA InvGetState ==
  ASSUME LoginInv, TypeOK', NEW g \in Callbacks, NEW b \in Browsers, NEW s \in DOMAIN logins,
         GetState(g, b, s)
  PROVE  LoginInv'
<1>1. /\ pc[g] = "idle" /\ s = cookie[b] /\ s \in states /\ states' = states \ {s}
      /\ UNCHANGED <<logins, cookie, username, sessions>>
  BY DEF GetState, database
<1>2. CASE Expired(s)
  <2>1. UNCHANGED <<pc, request>>
    BY <1>2 DEF GetState, callback
  <2> QED BY <1>1, <2>1, InvNoCallback
<1>3. CASE ~Expired(s)
  <2>1. TypeOK
    BY DEF LoginInv
  <2>2. s # 0 /\ logins[s].browser = b
    <3>1. s \in 1..Len(logins)
      BY <2>1 DEF TypeOK
    <3> QED BY <1>1, <3>1 DEF LoginInv, CookieOfBrowser
  <2>3. /\ pc'[g] = "discord" /\ request'[g].login = s /\ request'[g].browser = b
        /\ \A h \in Callbacks \ {g} : pc'[h] = pc[h] /\ request'[h] = request[h]
    <3> DEFINE r == [NoRequest EXCEPT !.login = s, !.browser = b]
    <3>1. r.login = s /\ r.browser = b
      BY DEF NoRequest
    <3>2. pc' = [pc EXCEPT ![g] = "discord"] /\ request' = [request EXCEPT ![g] = r]
      BY <1>3 DEF GetState
    <3> HIDE DEF r
    <3>3. DOMAIN pc = Callbacks /\ DOMAIN request = Callbacks
      BY <2>1 DEF TypeOK
    <3> QED BY <3>1, <3>2, <3>3
  <2>4. HeldOnce(g)'
    <3>1. \A h \in Callbacks \ {g} : pc'[h] # "idle" => request'[h].login # s
      BY <1>1, <2>3 DEF LoginInv, HeldOnce
    <3>2. \A t \in sessions' : t.login # s
      BY <1>1 DEF LoginInv
    <3> QED BY <1>1, <2>2, <2>3, <3>1, <3>2 DEF HeldOnce
  <2>5. ASSUME NEW h \in Callbacks \ {g}, pc'[h] # "idle" PROVE HeldOnce(h)'
    <3>1. HeldOnce(h) /\ request'[h].login # s
      BY <1>1, <2>3, <2>5 DEF LoginInv, HeldOnce
    <3>2. \A i \in Callbacks \ {h} : pc'[i] # "idle" => request'[i].login # request'[h].login
      BY <2>3, <2>5, <3>1 DEF HeldOnce
    <3> QED BY <1>1, <2>3, <2>5, <3>1, <3>2 DEF HeldOnce
  <2>6. CookieOfBrowser' /\ (\A t \in sessions' : t.login \notin states')
        /\ SessionOfLogin' /\ SessionHasUser'
    BY <1>1 DEF LoginInv, CookieOfBrowser, SessionOfLogin, SessionHasUser, GetSession
  <2> QED BY <2>4, <2>5, <2>6 DEF LoginInv
<1> QED BY <1>2, <1>3

LEMMA InvDiscord ==
  ASSUME LoginInv, TypeOK', NEW g \in Callbacks, getDiscordUser(g)
  PROVE  LoginInv'
<1>1. PICK u \in Users : request' = [request EXCEPT ![g].user = u, ![g].name = name[u]]
  BY DEF getDiscordUser
<1>2. /\ pc[g] = "discord" /\ pc' = [pc EXCEPT ![g] = "upsert"]
      /\ UNCHANGED <<logins, states, cookie, username, sessions>>
  BY DEF getDiscordUser, pending, database
<1>3. TypeOK
  BY DEF LoginInv
<1>4. u # 0 /\ name[u] # 0
  BY <1>3, LoginAssumption DEF TypeOK
<1>5. /\ pc'[g] = "upsert" /\ request'[g].login = request[g].login
      /\ request'[g].browser = request[g].browser
      /\ request'[g].user = u /\ request'[g].name = name[u]
      /\ \A h \in Callbacks \ {g} : pc'[h] = pc[h] /\ request'[h] = request[h]
  BY <1>1, <1>2, <1>3 DEF TypeOK
<1>6. \A h \in Callbacks : pc'[h] # "idle" => pc[h] # "idle"
  BY <1>2, <1>5
<1>7. \A h \in Callbacks : request'[h].login = request[h].login
  BY <1>5
<1>8. ASSUME NEW h \in Callbacks, pc'[h] # "idle" PROVE HeldOnce(h)'
  <2>1. HeldOnce(h)
    BY <1>6, <1>8 DEF LoginInv
  <2>2. \A i \in Callbacks \ {h} : pc'[i] # "idle" => request'[i].login # request'[h].login
    BY <1>6, <1>7, <2>1 DEF HeldOnce
  <2>3. CASE h = g
    BY <1>2, <1>4, <1>5, <2>1, <2>2, <2>3 DEF HeldOnce
  <2>4. CASE h # g
    BY <1>2, <1>5, <2>1, <2>2, <2>4 DEF HeldOnce
  <2> QED BY <2>3, <2>4
<1>9. CookieOfBrowser' /\ (\A t \in sessions' : t.login \notin states')
      /\ SessionOfLogin' /\ SessionHasUser'
  BY <1>2 DEF LoginInv, CookieOfBrowser, SessionOfLogin, SessionHasUser, GetSession
<1> QED BY <1>8, <1>9 DEF LoginInv

LEMMA InvUpsert ==
  ASSUME LoginInv, TypeOK', NEW g \in Callbacks, UpsertDiscordUser(g)
  PROVE  LoginInv'
<1>1. /\ pc[g] = "upsert" /\ pc' = [pc EXCEPT ![g] = "session"]
      /\ username' = [username EXCEPT ![request[g].user] = request[g].name]
      /\ UNCHANGED <<logins, states, cookie, sessions, request>>
  BY DEF UpsertDiscordUser, pending
<1>2. TypeOK /\ HeldOnce(g)
  BY <1>1 DEF LoginInv
<1>3. request[g].user \in Users /\ request[g].name # 0
  BY <1>1, <1>2 DEF TypeOK, HeldOnce
<1>4. /\ pc'[g] = "session" /\ \A h \in Callbacks \ {g} : pc'[h] = pc[h]
      /\ username'[request[g].user] # 0
      /\ \A u \in Users : username[u] # 0 => username'[u] # 0
  BY <1>1, <1>2, <1>3 DEF TypeOK
<1>5. ASSUME NEW h \in Callbacks, pc'[h] # "idle" PROVE HeldOnce(h)'
  <2>1. HeldOnce(h) /\ pc[h] # "idle"
    BY <1>1, <1>4, <1>5 DEF LoginInv
  <2>2. \A i \in Callbacks : pc'[i] # "idle" => pc[i] # "idle"
    BY <1>1, <1>4
  <2>3. CASE h = g
    BY <1>1, <1>3, <1>4, <2>1, <2>2, <2>3 DEF HeldOnce
  <2>4. CASE h # g
    <3>1. request[h].user \in Users \cup {0}
      BY <1>2 DEF TypeOK
    <3>2. pc[h] = "session" => username'[request[h].user] # 0
      BY <1>4, <2>1, <3>1 DEF HeldOnce
    <3> QED BY <1>1, <1>4, <2>1, <2>2, <2>4, <3>2 DEF HeldOnce
  <2> QED BY <2>3, <2>4
<1>6. SessionHasUser'
  <2>1. \A t \in sessions : t.user \in Users
    BY <1>2 DEF TypeOK
  <2> QED BY <1>1, <1>4, <2>1 DEF LoginInv, SessionHasUser, GetSession
<1>7. CookieOfBrowser' /\ (\A t \in sessions' : t.login \notin states') /\ SessionOfLogin'
  BY <1>1 DEF LoginInv, CookieOfBrowser, SessionOfLogin
<1> QED BY <1>5, <1>6, <1>7 DEF LoginInv

LEMMA InvCreateSession ==
  ASSUME LoginInv, TypeOK', NEW g \in Callbacks, CreateSession(g)
  PROVE  LoginInv'
<1> DEFINE b == request[g].browser
           t0 == [login |-> request[g].login, browser |-> b, user |-> request[g].user,
                  expires |-> now + SessionLife]
<1>1. /\ pc[g] = "session"
      /\ pc' = [pc EXCEPT ![g] = "idle"]
      /\ request' = [request EXCEPT ![g] = NoRequest]
      /\ cookie' = [cookie EXCEPT ![b] = 0]
      /\ sessions' = sessions \cup {t0}
      /\ UNCHANGED <<logins, states, username>>
  BY DEF CreateSession, Return, removeOauthCookie
<1>2. TypeOK /\ HeldOnce(g)
  BY <1>1 DEF LoginInv
<1>3. /\ t0.login = request[g].login /\ t0.browser = b /\ t0.user = request[g].user
      /\ t0.login \notin states /\ b = logins[t0.login].browser
      /\ \A t \in sessions : t.login # t0.login
      /\ username[t0.user] # 0
  BY <1>1, <1>2 DEF HeldOnce
<1> HIDE DEF t0, b
<1>4. pc'[g] = "idle" /\ \A h \in Callbacks \ {g} : pc'[h] = pc[h] /\ request'[h] = request[h]
  BY <1>1, <1>2 DEF TypeOK
<1>5. ASSUME NEW h \in Callbacks, pc'[h] # "idle" PROVE HeldOnce(h)'
  <2>1. h # g /\ pc[h] # "idle" /\ HeldOnce(h)
    BY <1>4, <1>5 DEF LoginInv
  <2>2. request[h].login # t0.login
    BY <1>1, <1>3, <2>1 DEF HeldOnce
  <2>3. \A t \in sessions' : t.login # request[h].login
    BY <1>1, <2>1, <2>2 DEF HeldOnce
  <2>4. \A i \in Callbacks \ {h} : pc'[i] # "idle" => request'[i].login # request'[h].login
    BY <1>4, <2>1 DEF HeldOnce
  <2> QED BY <1>1, <1>4, <2>1, <2>3, <2>4 DEF HeldOnce
<1>6. CookieOfBrowser'
  BY <1>1, <1>2 DEF LoginInv, CookieOfBrowser, TypeOK
<1>7. \A t \in sessions' : t.login \notin states'
  BY <1>1, <1>3 DEF LoginInv
<1>8. SessionOfLogin'
  BY <1>1, <1>3 DEF LoginInv, SessionOfLogin
<1>9. SessionHasUser'
  BY <1>1, <1>3 DEF LoginInv, SessionHasUser, GetSession
<1> QED BY <1>5, <1>6, <1>7, <1>8, <1>9 DEF LoginInv

LEMMA InvReturn ==
  ASSUME LoginInv, TypeOK', NEW g \in Callbacks, UpsertFails(g) \/ CallbackFails(g)
  PROVE  LoginInv'
<1>1. /\ pc' = [pc EXCEPT ![g] = "idle"]
      /\ request' = [request EXCEPT ![g] = NoRequest]
      /\ UNCHANGED <<logins, states, cookie, username, sessions>>
  BY DEF UpsertFails, CallbackFails, Return, pending, database
<1>2. \A h \in Callbacks : pc'[h] # "idle" => pc'[h] = pc[h] /\ request'[h] = request[h]
  BY <1>1 DEF LoginInv, TypeOK
<1> QED BY <1>1, <1>2, InvNoCallback

LEMMA InvStep == LoginInv /\ [Next]_vars => LoginInv'
<1> SUFFICES ASSUME LoginInv, [Next]_vars PROVE LoginInv'
  OBVIOUS
<1>1. TypeOK
  BY DEF LoginInv
<1>2. CASE \E b \in Browsers : LoginPage(b)
  BY <1>1, <1>2, OthersKeepType, InvLoginPage
<1>3. CASE \E g \in Callbacks : Callback(g)
  <2>1. PICK g \in Callbacks : Callback(g)
    BY <1>3
  <2>2. TypeOK'
    BY <2>1, CallbackKeepsType
  <2> QED BY <2>1, <2>2, InvGetState, InvDiscord, InvUpsert, InvCreateSession, InvReturn
          DEF Callback
<1>4. CASE doCleanupStates \/ DeleteExpiredSessions \/ Tick \/ UNCHANGED vars
           \/ \E u \in Users, n \in Names : Rename(u, n)
  <2>1. TypeOK'
    BY <1>1, <1>4, OthersKeepType
  <2>2. UNCHANGED <<logins, cookie, username, pc, request>>
    BY <1>4 DEF doCleanupStates, DeleteExpiredSessions, Tick, Rename, vars, pending, database,
                callback
  <2>3. states' \subseteq states /\ sessions' \subseteq sessions
    BY <1>4 DEF doCleanupStates, DeleteExpiredSessions, Tick, Rename, vars, pending, database,
                callback
  <2> QED BY <2>1, <2>2, <2>3, InvNoCallback
<1>5. CASE Restart
  <2>1. TypeOK'
    BY <1>1, <1>5, OthersKeepType
  <2>2. /\ states' = {} /\ \A g \in Callbacks : pc'[g] = "idle"
        /\ UNCHANGED <<logins, cookie, username, sessions>>
    BY <1>5 DEF Restart, database
  <2> QED BY <2>1, <2>2, InvNoCallback
<1> QED BY <1>2, <1>3, <1>4, <1>5 DEF Next

-----------------------------------------------------------------------------
(* Theorems. *)

\* The types hold, a login is pending, or with one callback, or a session, and
\* a session has a user (LoginCallback, server/web/tracker/auth.go).
THEOREM LoginInvariant == Spec => []LoginInv
<1>1. Init => LoginInv
  BY InvInit
<1>2. LoginInv /\ [Next]_vars => LoginInv'
  BY InvStep
<1> QED BY <1>1, <1>2, PTL DEF Spec

\* However often a callback is opened, a login gives one session, in the
\* browser that started it.
THEOREM OneSessionPerLogin == Spec => []SessionOfLogin
<1>1. LoginInv => SessionOfLogin
  BY DEF LoginInv
<1> QED BY <1>1, LoginInvariant, PTL

\* The clock and the cleanup: a pending login was not expired at the last
\* cleanup, which is never late.
Swept ==
  /\ now - cleaned <= CleanupEvery /\ cleaned <= now
  /\ \A s \in states : cleaned - logins[s].at <= FlowDuration /\ logins[s].at <= now

LEMMA SweptStep == LoginInv /\ LoginInv' /\ Swept /\ [Next]_vars => Swept'
<1> SUFFICES ASSUME LoginInv, LoginInv', Swept, [Next]_vars PROVE Swept'
  OBVIOUS
<1>1. TypeOK /\ TypeOK'
  BY DEF LoginInv
<1>2. /\ now \in Nat /\ cleaned \in Nat /\ FlowDuration \in Nat /\ CleanupEvery \in Nat
      /\ states \subseteq DOMAIN logins
      /\ \A s \in DOMAIN logins : logins[s].at \in Nat
  <2>1. \A s \in DOMAIN logins : logins[s].at \in Time
    BY <1>1, LoginTyped
  <2>2. Time \subseteq Nat
    BY LoginAssumption DEF Time
  <2>3. now \in Time /\ cleaned \in Time /\ states \subseteq DOMAIN logins
    BY <1>1 DEF TypeOK
  <2> QED BY <2>1, <2>2, <2>3, LoginAssumption
<1>3. CASE \E b \in Browsers : LoginPage(b)
  <2>1. PICK b \in Browsers : LoginPage(b)
    BY <1>3
  <2>2. /\ logins' = Append(logins, [browser |-> b, at |-> now])
        /\ states' = states \cup {Len(logins')}
        /\ UNCHANGED <<now, cleaned>>
    BY <2>1 DEF LoginPage, NewState
  <2>3. /\ \A s \in DOMAIN logins : logins'[s] = logins[s]
        /\ logins'[Len(logins')] = [browser |-> b, at |-> now]
    BY <1>1, <2>2, LoginsGrow
  <2>4. \A s \in states' : s \in states \/ s = Len(logins')
    BY <2>2
  <2>5. \A s \in states' : logins'[s].at = now \/ (s \in states /\ logins'[s].at = logins[s].at)
    BY <1>2, <2>3, <2>4
  <2> QED BY <1>2, <2>2, <2>5 DEF Swept
<1>4. CASE doCleanupStates
  <2>1. /\ states' = {s \in states : ~(now - logins[s].at > FlowDuration)}
        /\ cleaned' = now /\ UNCHANGED <<now, logins>>
    BY <1>4 DEF doCleanupStates, Expired
  <2> QED BY <1>2, <2>1 DEF Swept
<1>5. CASE Tick
  <2>1. now' = now + 1 /\ now - cleaned < CleanupEvery /\ UNCHANGED <<logins, states, cleaned>>
    BY <1>5 DEF Tick, pending
  <2> QED BY <1>2, <2>1 DEF Swept
<1>6. CASE Restart
  <2>1. states' = {} /\ cleaned' = now /\ now' = now
    BY <1>6 DEF Restart
  <2> QED BY <1>2, <2>1 DEF Swept
<1>7. CASE \/ DeleteExpiredSessions \/ UNCHANGED vars
           \/ \E u \in Users, n \in Names : Rename(u, n)
  <2>1. UNCHANGED <<now, logins, states, cleaned>>
    BY <1>7 DEF DeleteExpiredSessions, Rename, vars, pending
  <2> QED BY <2>1 DEF Swept
<1>8. CASE \E g \in Callbacks : Callback(g)
  <2>1. UNCHANGED <<now, logins, cleaned>> /\ states' \subseteq states
    BY <1>8 DEF Callback, GetState, getDiscordUser, UpsertDiscordUser, UpsertFails,
                CreateSession, CallbackFails, pending
  <2> QED BY <2>1 DEF Swept
<1> QED BY <1>3, <1>4, <1>5, <1>6, <1>7, <1>8 DEF Next

\* Auth.states holds no login for longer than one cleanup after its expiry.
THEOREM PendingLoginsExpire == Spec => []StatesExpire
<1>1. Init => Swept
  BY LoginAssumption DEF Init, Swept
<1>2. LoginInv /\ Swept => StatesExpire
  <2> SUFFICES ASSUME LoginInv, Swept, NEW s \in states
               PROVE  now - logins[s].at <= FlowDuration + CleanupEvery
    BY DEF StatesExpire
  <2>1. TypeOK /\ s \in DOMAIN logins
    BY DEF LoginInv, TypeOK
  <2>2. now \in Nat /\ cleaned \in Nat /\ logins[s].at \in Nat
    BY <2>1, LoginTyped, LoginAssumption DEF TypeOK, Time
  <2> QED BY <2>2, LoginAssumption DEF Swept
<1> QED BY <1>1, <1>2, LoginInvariant, SweptStep, PTL DEF Spec

\* A browser loses the login it could complete to time, to a restart, to a
\* callback that takes it, or to a session it gets; never to a failure.
THEOREM LoginsSurviveFailures == Spec => PendingSurvives
<1> DEFINE Kept(b) == \/ now' > now \/ Restart
                      \/ \E g \in Callbacks : pc[g] = "idle" /\ request'[g].login = cookie[b]
                      \/ \E t \in sessions' \ sessions : t.browser = b
<1>1. ASSUME LoginInv, [Next]_vars, NEW b \in Browsers, LoginLost(b) PROVE Kept(b)
  <2>1. /\ TypeOK /\ cookie[b] \in states /\ ~Expired(cookie[b])
        /\ ~(cookie'[b] \in states' /\ ~(now' - logins'[cookie'[b]].at > FlowDuration))
    BY <1>1 DEF LoginInv, LoginLost, Completable, Expired
  <2>2. /\ now \in Nat /\ FlowDuration \in Nat
        /\ cookie[b] \in DOMAIN logins /\ DOMAIN cookie = Browsers
        /\ DOMAIN pc = Callbacks /\ DOMAIN request = Callbacks
    BY <2>1, LoginAssumption DEF TypeOK, Time
  <2>3. ~(/\ cookie'[b] = cookie[b] /\ cookie[b] \in states' /\ now' = now
          /\ logins'[cookie[b]] = logins[cookie[b]])
    BY <2>1 DEF Expired
  <2>4. CASE \E c \in Browsers : LoginPage(c)
    <3>1. PICK c \in Browsers : LoginPage(c)
      BY <2>4
    <3>2. /\ logins' = Append(logins, [browser |-> c, at |-> now])
          /\ states' = states \cup {Len(logins')}
          /\ cookie' = [cookie EXCEPT ![c] = Len(logins')]
          /\ now' = now
      BY <3>1 DEF LoginPage, NewState, addOauthCookie
    <3>3. /\ \A s \in DOMAIN logins : logins'[s] = logins[s]
          /\ logins'[Len(logins')] = [browser |-> c, at |-> now]
      BY <2>1, <3>2, LoginsGrow
    <3>4. CASE c = b
      <4>1. cookie'[b] = Len(logins') /\ cookie'[b] \in states'
        BY <2>2, <3>2, <3>4
      <4>2. logins'[cookie'[b]].at = now
        BY <3>3, <4>1
      <4> QED BY <2>1, <2>2, <3>2, <4>1, <4>2
    <3>5. CASE c # b
      BY <2>1, <2>2, <2>3, <3>2, <3>3, <3>5
    <3> QED BY <3>4, <3>5
  <2>5. CASE doCleanupStates
    BY <2>1, <2>3, <2>5 DEF doCleanupStates
  <2>6. CASE Tick
    BY <2>2, <2>6 DEF Tick
  <2>7. CASE Restart
    BY <2>7
  <2>8. CASE \/ DeleteExpiredSessions \/ UNCHANGED vars
             \/ \E u \in Users, n \in Names : Rename(u, n)
    BY <2>1, <2>3, <2>8 DEF DeleteExpiredSessions, Rename, vars, pending
  <2>9. CASE \E g \in Callbacks : Callback(g)
    <3>1. PICK g \in Callbacks : Callback(g)
      BY <2>9
    <3>2. ASSUME NEW c \in Browsers, NEW s \in DOMAIN logins, GetState(g, c, s) PROVE Kept(b)
      <4>1. /\ pc[g] = "idle" /\ states' = states \ {s}
            /\ UNCHANGED <<now, logins, cookie>>
        BY <3>2 DEF GetState
      <4>2. s = cookie[b]
        BY <2>1, <2>3, <4>1
      <4> DEFINE r == [NoRequest EXCEPT !.login = s, !.browser = c]
      <4>3. r.login = s
        BY DEF NoRequest
      <4>4. request' = [request EXCEPT ![g] = r]
        BY <2>1, <3>2, <4>2 DEF GetState
      <4> HIDE DEF r
      <4>5. request'[g].login = cookie[b]
        BY <2>2, <4>2, <4>3, <4>4
      <4> QED BY <4>1, <4>5
    <3>3. ASSUME CreateSession(g) PROVE Kept(b)
      <4> DEFINE t == [login |-> request[g].login, browser |-> request[g].browser,
                       user |-> request[g].user, expires |-> now + SessionLife]
      <4>1. /\ pc[g] = "session" /\ sessions' = sessions \cup {t}
            /\ cookie' = [cookie EXCEPT ![request[g].browser] = 0]
            /\ UNCHANGED <<now, logins, states>>
        BY <3>3 DEF CreateSession, removeOauthCookie
      <4>2. request[g].browser = b
        BY <2>1, <2>2, <2>3, <4>1
      <4>3. HeldOnce(g)
        BY <1>1, <4>1 DEF LoginInv
      <4>4. t.login = request[g].login /\ t.browser = b
        BY <4>2
      <4> HIDE DEF t
      <4>5. t \in sessions' \ sessions
        BY <4>1, <4>3, <4>4 DEF HeldOnce
      <4> QED BY <4>4, <4>5
    <3>4. CASE getDiscordUser(g) \/ UpsertDiscordUser(g) \/ UpsertFails(g) \/ CallbackFails(g)
      BY <2>1, <2>3, <3>4 DEF getDiscordUser, UpsertDiscordUser, UpsertFails, CallbackFails,
                              pending
    <3> QED BY <3>1, <3>2, <3>3, <3>4 DEF Callback
  <2> QED BY <1>1, <2>4, <2>5, <2>6, <2>7, <2>8, <2>9 DEF Next
<1> HIDE DEF Kept
<1>2. LoginInv /\ [Next]_vars => [\A b \in Browsers : LoginLost(b) => Kept(b)]_vars
  BY <1>1
<1> QED BY <1>2, LoginInvariant, PTL DEF Spec, PendingSurvives, Kept

\* The unique name of a row stands in the way of a login only if Discord has
\* meanwhile given it to someone else.
THEOREM RefusalsAreStale == Spec => RefusedByStaleName
<1> DEFINE Stale(g) ==
      \/ name[request[g].user] # request[g].name
      \/ \E u \in Users : username[u] = request[g].name /\ name[u] # username[u]
<1>1. ASSUME LoginInv, NEW g \in Callbacks, UpsertFails(g) PROVE Stale(g)
  <2>1. PICK u \in Users \ {request[g].user} : username[u] = request[g].name
    BY <1>1 DEF UpsertFails, Clash
  <2>2. request[g].user \in Users
    <3>1. TypeOK /\ HeldOnce(g) /\ pc[g] = "upsert"
      BY <1>1 DEF LoginInv, UpsertFails
    <3> QED BY <3>1 DEF TypeOK, HeldOnce
  <2>3. name[u] # name[request[g].user]
    BY <1>1, <2>1, <2>2 DEF LoginInv, TypeOK, IsInjective
  <2> QED BY <2>1, <2>3
<1> HIDE DEF Stale
<1>2. LoginInv /\ [Next]_vars => [\A g \in Callbacks : UpsertFails(g) => Stale(g)]_vars
  BY <1>1
<1> QED BY <1>2, LoginInvariant, PTL DEF Spec, RefusedByStaleName, Stale
=============================================================================
