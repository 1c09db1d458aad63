-------------------------------- MODULE Login --------------------------------
(***************************************************************************)
(* The login of the tracker: the states of pending logins, kept in memory  *)
(* (server/auth/auth.go; server/cauth/auth.go repeats it for the rewards   *)
(* site), and LoginCallback (server/web/tracker/auth.go), which turns one  *)
(* of them into a session.                                                 *)
(*                                                                         *)
(* A callback is a request of its own: it takes its state from the map,    *)
(* asks Discord who the user is, and then writes the user and the session  *)
(* in two statements.  Discord names are unique at any moment, but the     *)
(* table discord_users, where they have to be unique too, holds the name a *)
(* user had at the last login.                                             *)
(*                                                                         *)
(* Time is counted in ticks; the cleanup of the map is never late, for all *)
(* it needs is the mutex, which no one holds for longer than a map access. *)
(***************************************************************************)
EXTENDS Integers, Sequences, FiniteSets, Functions

CONSTANTS
  Browsers,
  Users,         \* Discord users
  Names,         \* Discord user names
  Callbacks,     \* goroutines serving LoginCallback
  FlowDuration,  \* MaxLoginFlowDuration
  CleanupEvery,  \* the pause of cleanupStates
  SessionLife,   \* how long a session is valid
  MaxLogins,     \* bound on the logins started
  MaxTime        \* bound on the clock

ASSUME LoginAssumption ==
  /\ {FlowDuration, SessionLife, MaxLogins, MaxTime} \subseteq Nat
  /\ CleanupEvery \in Nat \ {0}
  /\ Cardinality(Users) <= Cardinality(Names)
  /\ 0 \notin Names \cup Users

VARIABLES
  now,       \* the clock
  logins,    \* every login started: its browser and the moment
  states,    \* Auth.states: the pending ones, by number
  cookie,    \* the cookie oauthstate of each browser, 0 without one
  cleaned,   \* when doCleanupStates ran last
  name,      \* the name of each user on Discord
  username,  \* discord_user_username of each user, 0 without a row
  pc,        \* the next statement of each callback
  request,   \* the login it completes, its browser, and the user Discord named
  sessions   \* the table sessions

pending == <<logins, states, cookie, cleaned>>
database == <<username, sessions>>
callback == <<pc, request>>
vars == <<now, pending, name, database, callback>>

Time == 0..MaxTime
NoRequest == [login |-> 0, browser |-> 0, user |-> 0, name |-> 0]

TypeOK ==
  /\ now \in Time
  /\ logins \in Seq([browser : Browsers, at : Time]) /\ Len(logins) <= MaxLogins
  /\ states \subseteq DOMAIN logins
  /\ cookie \in [Browsers -> {0} \cup DOMAIN logins]
  /\ cleaned \in Time
  /\ name \in [Users -> Names] /\ IsInjective(name)
  /\ username \in [Users -> Names \cup {0}]
  /\ \A u, v \in Users : username[u] = username[v] /\ username[u] # 0 => u = v
  /\ pc \in [Callbacks -> {"idle", "discord", "upsert", "session"}]
  /\ request \in [Callbacks -> [login : {0} \cup DOMAIN logins, browser : Browsers \cup {0},
                                user : Users \cup {0}, name : Names \cup {0}]]
  /\ sessions \subseteq [login : DOMAIN logins, browser : Browsers, user : Users,
                         expires : Nat]

Init ==
  /\ now = 0
  /\ logins = <<>>
  /\ states = {}
  /\ cookie = [b \in Browsers |-> 0]
  /\ cleaned = 0
  /\ name \in [Users -> Names] /\ IsInjective(name)
  /\ username = [u \in Users |-> 0]
  /\ pc = [g \in Callbacks |-> "idle"]
  /\ request = [g \in Callbacks |-> NoRequest]
  /\ sessions = {}

Expired(s) == now - logins[s].at > FlowDuration

-----------------------------------------------------------------------------
(* The states of pending logins. *)

NewState(b) ==
  /\ logins' = Append(logins, [browser |-> b, at |-> now])
  /\ states' = states \cup {Len(logins')}

addOauthCookie(b, s) == cookie' = [cookie EXCEPT ![b] = s]

removeOauthCookie(b) == cookie' = [cookie EXCEPT ![b] = 0]

\* The page of the login starts one, and its cookie replaces that of the login
\* before.
LoginPage(b) ==
  /\ Len(logins) < MaxLogins
  /\ NewState(b)
  /\ addOauthCookie(b, Len(logins'))
  /\ UNCHANGED <<now, cleaned, name, database, callback>>

\* Mutant: only pending logins that were completed are removed.
CleanupNothing ==
  /\ cleaned # now
  /\ cleaned' = now
  /\ UNCHANGED <<now, logins, states, cookie, name, database, callback>>

doCleanupStates ==
  /\ cleaned # now
  /\ states' = {s \in states : ~Expired(s)}
  /\ cleaned' = now
  /\ UNCHANGED <<now, logins, cookie, name, database, callback>>

Tick ==
  /\ now < MaxTime
  /\ now - cleaned < CleanupEvery
  /\ now' = now + 1
  /\ UNCHANGED <<pending, name, database, callback>>

-----------------------------------------------------------------------------
(* LoginCallback. *)

Return(g) ==
  /\ pc' = [pc EXCEPT ![g] = "idle"]
  /\ request' = [request EXCEPT ![g] = NoRequest]

\* Mutant: a state stays in the map until it expires.
GetStateKeeps(g, b, s) ==
  /\ pc[g] = "idle"
  /\ s = cookie[b]
  /\ s \in states /\ ~Expired(s)
  /\ pc' = [pc EXCEPT ![g] = "discord"]
  /\ request' = [request EXCEPT ![g] = [NoRequest EXCEPT !.login = s, !.browser = b]]
  /\ UNCHANGED <<now, pending, name, database>>

\* Browser b opens the callback of login s, which may have been started in
\* another browser, or answered before.
GetState(g, b, s) ==
  /\ pc[g] = "idle"
  /\ s = cookie[b]
  /\ s \in states
  /\ states' = states \ {s}
  /\ IF Expired(s)
       THEN UNCHANGED callback
       ELSE /\ pc' = [pc EXCEPT ![g] = "discord"]
            /\ request' = [request EXCEPT ![g] = [NoRequest EXCEPT !.login = s, !.browser = b]]
  /\ UNCHANGED <<now, logins, cookie, cleaned, name, database>>

\* A user who is neither whitelisted nor in the guilds is turned away, as by
\* any failure.
getDiscordUser(g) ==
  /\ pc[g] = "discord"
  /\ \E u \in Users :
       request' = [request EXCEPT ![g].user = u, ![g].name = name[u]]
  /\ pc' = [pc EXCEPT ![g] = "upsert"]
  /\ UNCHANGED <<now, pending, name, database>>

Clash(g) == \E u \in Users \ {request[g].user} : username[u] = request[g].name

\* Mutant: a user who cannot be stored is logged in all the same.
UpsertDespiteClash(g) ==
  /\ pc[g] = "upsert"
  /\ username' = IF Clash(g) THEN username
                 ELSE [username EXCEPT ![request[g].user] = request[g].name]
  /\ pc' = [pc EXCEPT ![g] = "session"]
  /\ UNCHANGED <<now, pending, name, sessions, request>>

UpsertDiscordUser(g) ==
  /\ pc[g] = "upsert"
  /\ ~Clash(g)
  /\ username' = [username EXCEPT ![request[g].user] = request[g].name]
  /\ pc' = [pc EXCEPT ![g] = "session"]
  /\ UNCHANGED <<now, pending, name, sessions, request>>

\* Mutant: a user has to be stored for the first time.
InsertFails(g) ==
  /\ pc[g] = "upsert"
  /\ Clash(g) \/ username[request[g].user] # 0
  /\ Return(g)
  /\ UNCHANGED <<now, pending, name, database>>

\* discord_user_username is UNIQUE.
UpsertFails(g) ==
  /\ pc[g] = "upsert"
  /\ Clash(g)
  /\ Return(g)
  /\ UNCHANGED <<now, pending, name, database>>

\* The answer carries the session to the browser that sent the request, and
\* removes its cookie oauthstate.
CreateSession(g) ==
  /\ pc[g] = "session"
  /\ LET b == request[g].browser IN
       /\ sessions' = sessions \cup
            {[login |-> request[g].login, browser |-> b, user |-> request[g].user,
              expires |-> now + SessionLife]}
       /\ removeOauthCookie(b)
  /\ Return(g)
  /\ UNCHANGED <<now, logins, states, cleaned, name, username>>

\* Mutant: the cookie is removed however the callback ends.
FailAndForget(g) ==
  /\ pc[g] # "idle"
  /\ removeOauthCookie(request[g].browser)
  /\ Return(g)
  /\ UNCHANGED <<now, logins, states, cleaned, name, database>>

CallbackFails(g) ==
  /\ pc[g] # "idle"
  /\ Return(g)
  /\ UNCHANGED <<now, pending, name, database>>

-----------------------------------------------------------------------------

\* A user takes a name that nobody has at the moment.
Rename(u, n) ==
  /\ \A v \in Users : name[v] # n
  /\ name' = [name EXCEPT ![u] = n]
  /\ UNCHANGED <<now, pending, database, callback>>

DeleteExpiredSessions ==
  /\ \E t \in sessions : t.expires < now
  /\ sessions' = {t \in sessions : t.expires >= now}
  /\ UNCHANGED <<now, pending, name, username, callback>>

\* The states in memory are lost.
Restart ==
  /\ states' = {}
  /\ cleaned' = now
  /\ pc' = [g \in Callbacks |-> "idle"]
  /\ request' = [g \in Callbacks |-> NoRequest]
  /\ UNCHANGED <<now, logins, cookie, name, database>>

Callback(g) ==
  \/ \E b \in Browsers, s \in DOMAIN logins : GetState(g, b, s)
  \/ getDiscordUser(g)
  \/ UpsertDiscordUser(g) \/ UpsertFails(g)
  \/ CreateSession(g)
  \/ CallbackFails(g)

Next ==
  \/ \E b \in Browsers : LoginPage(b)
  \/ doCleanupStates
  \/ DeleteExpiredSessions
  \/ Tick
  \/ \E g \in Callbacks : Callback(g)
  \/ \E u \in Users, n \in Names : Rename(u, n)
  \/ Restart

Spec == Init /\ [][Next]_vars

-----------------------------------------------------------------------------
(* Properties. *)

\* A login gives one session at most, however often and by however many
\* requests at once its callback is opened, and gives it to the browser that
\* started the login.
SessionOfLogin ==
  \A t, u \in sessions :
    /\ t.login = u.login => t = u
    /\ t.browser = logins[t.login].browser

\* The user a session is joined with, 0 when there is no row of the user.
GetSession(t) == username[t.user]

\* GetSession finds a user for every session: none is given to a user who
\* could not be stored under the name Discord told.
SessionHasUser == \A t \in sessions : GetSession(t) # 0

\* A browser has the cookie of a login it started itself.
CookieOfBrowser == \A b \in Browsers : cookie[b] # 0 => logins[cookie[b]].browser = b

\* A login that callback g completes is neither pending, nor with another
\* callback, nor a session yet; the user is stored before the session is.
HeldOnce(g) ==
  /\ request[g].login \in DOMAIN logins /\ request[g].login \notin states
  /\ request[g].browser = logins[request[g].login].browser
  /\ \A h \in Callbacks \ {g} : pc[h] # "idle" => request[h].login # request[g].login
  /\ \A t \in sessions : t.login # request[g].login
  /\ pc[g] \in {"upsert", "session"} => request[g].user # 0 /\ request[g].name # 0
  /\ pc[g] = "session" => username[request[g].user] # 0

\* A login is pending, or with one callback, or has its session, and a
\* callback that is about to create one has stored its user: the inductive
\* invariant of the login, with what it promises as its last conjuncts.
LoginInv ==
  /\ TypeOK
  /\ CookieOfBrowser
  /\ \A g \in Callbacks : pc[g] # "idle" => HeldOnce(g)
  /\ \A t \in sessions : t.login \notin states
  /\ SessionOfLogin
  /\ SessionHasUser

\* The map holds no login for longer than a cleanup after it has expired:
\* logins nobody completes do not pile up.
StatesExpire == \A s \in states : now - logins[s].at <= FlowDuration + CleanupEvery

\* The browser can still complete the login it started last.
Completable(b) == cookie[b] \in states /\ ~Expired(cookie[b])

\* A login in progress ends by being completed, by expiring, or with the
\* process.  Another login in the same browser ends it too, when it is started
\* later or when it gets its session; but never by failing, and nothing that
\* happens in another browser does.
LoginLost(b) == Completable(b) /\ ~Completable(b)'

PendingSurvives ==
  [][\A b \in Browsers : LoginLost(b) =>
       \/ now' > now \/ Restart
       \/ \E g \in Callbacks : pc[g] = "idle" /\ request'[g].login = cookie[b]
       \/ \E t \in sessions' \ sessions : t.browser = b]_vars

\* A user is turned away because of a name only when a row of the table, or
\* what this callback was told, is no longer what Discord says.
RefusedByStaleName ==
  [][\A g \in Callbacks :
       UpsertFails(g) =>
         \/ name[request[g].user] # request[g].name
         \/ \E u \in Users : username[u] = request[g].name /\ name[u] # username[u]]_vars
=============================================================================
