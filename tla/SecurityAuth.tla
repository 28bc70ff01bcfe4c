---------------------------- MODULE SecurityAuth ----------------------------
(***************************************************************************)
(* One-time assertions, sessions, form tokens and action guards            *)
(* (server/edge1_security_auth_store.py) as the gateway and the threaded   *)
(* HTTP adapter use them.                                                  *)
(*                                                                         *)
(* Every store call is one SQLite transaction.  A request makes several of *)
(* them and reads the clock before each, so between two of its steps other *)
(* requests run, time passes, the audit file or the store fails, or the    *)
(* process dies.  The rate buckets only end a request early and are a free *)
(* choice here; signatures and scopes are decided before the first step.   *)
(***************************************************************************)
EXTENDS Integers, FiniteSets

CONSTANTS
  Assertions, AssertionExpiry,  \* signed assertions and their exp claims
  AuthRequests,                 \* request threads of the HTTP server
  AuthIdle, AuthAbsolute,       \* session_idle_ and session_absolute_timeout_seconds
  ClockSkew,                    \* clock_skew_seconds
  InFlight, Cooldown,           \* action_inflight_timeout_ and action_cooldown_seconds
  CallMax,                      \* bound on the clock from begin_action() to finish_action()
  MaxSessions, MaxAuthTime      \* bounds on the rows and on the clock

ASSUME AuthBounds ==
  /\ AssertionExpiry \in [Assertions -> Nat]
  /\ {AuthIdle, AuthAbsolute, InFlight, Cooldown, MaxSessions, MaxAuthTime}
       \subseteq Nat \ {0}
  /\ ClockSkew \in Nat
  /\ CallMax \in 0 .. InFlight - 1

VARIABLES
  authNow,      \* the clock
  authSpent,    \* rows of assertion_replay
  authSessions, \* session -> row of sessions
  authIssued,   \* number of session identifiers made so far
  authLogins,   \* sessions with a login_succeeded line in the audit file
  authHeld,     \* sessions whose token a client was given
  authCsrf,     \* rows of session_csrf
  authGuards,   \* session -> row of action_guards (the adapter has one action)
  authReq       \* request thread -> where it stands

authVars == <<authNow, authSpent, authSessions, authIssued, authLogins,
              authHeld, authCsrf, authGuards, authReq>>

SessionIds == 1..MaxSessions
AuthTimes == 0..MaxAuthTime
Unset == -1
NoSession == [from |-> "none"]
NoGuard == [started |-> Unset, completed |-> Unset]
IdleReq == [at |-> "idle", kind |-> "none", sid |-> 0, from |-> "none",
            stamp |-> 0, begun |-> Unset]

SessionRows ==
  [from : Assertions, born : AuthTimes, expires : Nat, seen : AuthTimes,
   revoked : BOOLEAN]
AuthSteps == {"idle", "consume", "audit", "create", "csrf", "account", "resolve",
          "checked", "begin", "running", "correlate", "finish", "revoke"}
\* The steps of a guarded call, from begin_action() to finish_action().
Acting == {"running", "correlate", "finish"}

AuthRow(s) == authSessions[s]
EndRequest(r) == authReq' = [authReq EXCEPT ![r] = IdleReq]
Advance(r, step) == authReq' = [authReq EXCEPT ![r].at = step]
AdvanceNow(r, step) ==
  authReq' = [authReq EXCEPT ![r].at = step, ![r].stamp = authNow]
----------------------------------------------------------------------------
AuthInit ==
  /\ authNow = 0 /\ authIssued = 0
  /\ authSpent = {} /\ authLogins = {} /\ authHeld = {} /\ authCsrf = {}
  /\ authSessions = [s \in SessionIds |-> NoSession]
  /\ authGuards = [s \in SessionIds |-> NoGuard]
  /\ authReq = [r \in AuthRequests |-> IdleReq]

\* _exchange() and _vpn_account_api(): exchange_assertion() reads the clock
\* once and validates the assertion's times against it.
BeginExchange(r, a, kind) ==
  /\ authReq[r].at = "idle"
  /\ AssertionExpiry[a] > authNow - ClockSkew
  /\ authReq' = [authReq EXCEPT ![r] =
       [IdleReq EXCEPT !.at = "consume", !.kind = kind, !.from = a,
                       !.stamp = authNow]]
  /\ UNCHANGED <<authNow, authSpent, authSessions, authIssued, authLogins,
                 authHeld, authCsrf, authGuards>>

\* Mutant: the purge takes the rows that expire this second too.
StillSpentEarly(now) == {a \in authSpent : AssertionExpiry[a] > now}

\* DELETE FROM assertion_replay WHERE expires_at < now.
StillSpent(now) == {a \in authSpent : AssertionExpiry[a] >= now}

\* consume_assertion(): a replayed assertion rolls the purge back as well.
ConsumeAssertion(r) ==
  /\ authReq[r].at = "consume"
  /\ LET kept == StillSpent(authReq[r].stamp)
         a == authReq[r].from
     IN \/ /\ a \in kept
           /\ EndRequest(r)
           /\ UNCHANGED <<authSpent, authIssued>>
        \/ /\ a \notin kept
           /\ authIssued < MaxSessions
           /\ authIssued' = authIssued + 1
           /\ authSpent' = kept \cup {a}
           /\ authReq' = [authReq EXCEPT ![r].at = "audit",
                                         ![r].sid = authIssued + 1,
                                         ![r].begun = authNow]
  /\ UNCHANGED <<authNow, authSessions, authLogins, authHeld, authCsrf,
                 authGuards>>

\* The login_succeeded line, written and synced before the session exists.
AuditLogin(r) ==
  /\ authReq[r].at = "audit"
  /\ authLogins' = authLogins \cup {authReq[r].sid}
  /\ Advance(r, "create")
  /\ UNCHANGED <<authNow, authSpent, authSessions, authIssued, authHeld,
                 authCsrf, authGuards>>

Sooner(x, y) == IF x < y THEN x ELSE y

CreateSession(r) ==
  /\ authReq[r].at = "create"
  /\ authSessions' = [authSessions EXCEPT ![authReq[r].sid] =
       [from |-> authReq[r].from, born |-> authReq[r].begun,
        expires |-> Sooner(AssertionExpiry[authReq[r].from] + AuthAbsolute,
                            authReq[r].stamp + AuthAbsolute),
        seen |-> authReq[r].stamp, revoked |-> FALSE]]
  /\ Advance(r, IF authReq[r].kind = "account" THEN "account" ELSE "csrf")
  /\ UNCHANGED <<authNow, authSpent, authIssued, authLogins, authHeld,
                 authCsrf, authGuards>>

\* set_csrf(), then the response with both cookies.
SetCsrf(r) ==
  /\ authReq[r].at = "csrf"
  /\ authCsrf' = authCsrf \cup {authReq[r].sid}
  /\ authHeld' = authHeld \cup {authReq[r].sid}
  /\ EndRequest(r)
  /\ UNCHANGED <<authNow, authSpent, authSessions, authIssued, authLogins,
                 authGuards>>

\* The backend calls of _vpn_account_api() are over; finally: logout().
EndAccount(r) ==
  /\ authReq[r].at = "account"
  /\ Advance(r, "revoke")
  /\ UNCHANGED <<authNow, authSpent, authSessions, authIssued, authLogins,
                 authHeld, authCsrf, authGuards>>

\* The audit file or the store fails while a session is being made: the
\* request is denied, and the assertion stays spent.
ExchangeFails(r) ==
  /\ authReq[r].at \in {"audit", "create", "csrf"}
  /\ EndRequest(r)
  /\ UNCHANGED <<authNow, authSpent, authSessions, authIssued, authLogins,
                 authHeld, authCsrf, authGuards>>
----------------------------------------------------------------------------
\* A request that presents a session token: a console or session page, the
\* validate action or a logout.
BeginRequest(r, s, kind) ==
  /\ authReq[r].at = "idle" /\ s \in authHeld
  /\ authReq' = [authReq EXCEPT ![r] =
       [IdleReq EXCEPT !.at = "resolve", !.kind = kind, !.sid = s,
                       !.stamp = authNow]]
  /\ UNCHANGED <<authNow, authSpent, authSessions, authIssued, authLogins,
                 authHeld, authCsrf, authGuards>>

Active(s, now) ==
  /\ ~AuthRow(s).revoked
  /\ now < AuthRow(s).expires
  /\ now - AuthRow(s).seen < AuthIdle

\* resolve_session(): an active session is touched, any other one revoked.
Resolved(s, now) ==
  /\ authSessions' = [authSessions EXCEPT
       ![s] = IF Active(s, now) THEN [@ EXCEPT !.seen = now]
                                ELSE [@ EXCEPT !.revoked = TRUE]]
  /\ authCsrf' = IF Active(s, now) THEN authCsrf ELSE authCsrf \ {s}

\* authenticate_session().
ResolveSession(r) ==
  /\ authReq[r].at = "resolve"
  /\ LET s == authReq[r].sid
         now == authReq[r].stamp
     IN /\ Resolved(s, now)
        /\ IF Active(s, now) /\ authReq[r].kind # "page"
             THEN Advance(r, "checked") ELSE EndRequest(r)
  /\ UNCHANGED <<authNow, authSpent, authIssued, authLogins, authHeld,
                 authGuards>>

\* The request is refused after authentication: its scope is missing, its
\* audit line cannot be written, or its bucket is full.
RefuseRequest(r) ==
  /\ authReq[r].at = "checked"
  /\ EndRequest(r)
  /\ UNCHANGED <<authNow, authSpent, authSessions, authIssued, authLogins,
                 authHeld, authCsrf, authGuards>>

\* verify_csrf().
CheckCsrf(r) ==
  /\ authReq[r].at = "checked"
  /\ LET s == authReq[r].sid
     IN IF s \in authCsrf /\ authNow < AuthRow(s).expires
          THEN AdvanceNow(r, IF authReq[r].kind = "logout" THEN "revoke"
                                                           ELSE "begin")
          ELSE EndRequest(r)
  /\ UNCHANGED <<authNow, authSpent, authSessions, authIssued, authLogins,
                 authHeld, authCsrf, authGuards>>

\* logout(): revoke_session(), or its failure.
RevokeSession(r) ==
  /\ authReq[r].at = "revoke"
  /\ \/ /\ authSessions' = [authSessions EXCEPT ![authReq[r].sid].revoked = TRUE]
        /\ authCsrf' = authCsrf \ {authReq[r].sid}
     \/ UNCHANGED <<authSessions, authCsrf>>
  /\ EndRequest(r)
  /\ UNCHANGED <<authNow, authSpent, authIssued, authLogins, authHeld,
                 authGuards>>

\* Mutant: only the cooldown of a finished run is looked at.
GuardRefusesCoolingOnly(g, now) ==
  /\ g # NoGuard
  /\ g.completed # Unset /\ now - g.completed < Cooldown

GuardRefuses(g, now) ==
  /\ g # NoGuard
  /\ \/ g.completed = Unset /\ now - g.started < InFlight
     \/ g.completed # Unset /\ now - g.completed < Cooldown

\* begin_action().
BeginAction(r) ==
  /\ authReq[r].at = "begin"
  /\ LET s == authReq[r].sid
         now == authReq[r].stamp
     IN \/ /\ GuardRefuses(authGuards[s], now)
           /\ EndRequest(r)
           /\ UNCHANGED authGuards
        \/ /\ ~GuardRefuses(authGuards[s], now)
           /\ authGuards' = [authGuards EXCEPT
                ![s] = [started |-> now, completed |-> Unset]]
           /\ authReq' = [authReq EXCEPT ![r].at = "running", ![r].begun = now]
  /\ UNCHANGED <<authNow, authSpent, authSessions, authIssued, authLogins,
                 authHeld, authCsrf>>

\* The call of operations.run() is over: an answer, the client's timeout or a
\* failure.  After a timeout the operation itself may go on at the Operations
\* API; it is not part of this model.
CallEnds(r) ==
  /\ authReq[r].at = "running"
  /\ \/ AdvanceNow(r, "correlate")
     \/ AdvanceNow(r, "finish")
  /\ UNCHANGED <<authNow, authSpent, authSessions, authIssued, authLogins,
                 authHeld, authCsrf, authGuards>>

\* correlate_operations_event() authenticates again; denied or not, the
\* finally clause comes next.
Correlate(r) ==
  /\ authReq[r].at = "correlate"
  /\ Resolved(authReq[r].sid, authReq[r].stamp)
  /\ AdvanceNow(r, "finish")
  /\ UNCHANGED <<authNow, authSpent, authIssued, authLogins, authHeld,
                 authGuards>>

\* finish_action(), or its failure.
FinishAction(r) ==
  /\ authReq[r].at = "finish"
  /\ \/ authGuards' = [authGuards EXCEPT
                         ![authReq[r].sid].completed = authReq[r].stamp]
     \/ UNCHANGED authGuards
  /\ EndRequest(r)
  /\ UNCHANGED <<authNow, authSpent, authSessions, authIssued, authLogins,
                 authHeld, authCsrf>>
----------------------------------------------------------------------------
\* The process dies: its requests are gone, the rows stay.
AuthCrash ==
  /\ authReq' = [r \in AuthRequests |-> IdleReq]
  /\ UNCHANGED <<authNow, authSpent, authSessions, authIssued, authLogins,
                 authHeld, authCsrf, authGuards>>

\* The client's timeout, and the store's for its locks, end a call before its
\* guard does: CallMax < InFlight.
AuthTick ==
  /\ authNow < MaxAuthTime
  /\ \A r \in AuthRequests :
       /\ authReq[r].at \in Acting => authNow - authReq[r].begun < CallMax
       /\ authReq[r].at = "begin" => authNow - authReq[r].stamp < CallMax
  /\ authNow' = authNow + 1
  /\ UNCHANGED <<authSpent, authSessions, authIssued, authLogins, authHeld,
                 authCsrf, authGuards, authReq>>

AuthNext ==
  \/ \E r \in AuthRequests :
       \/ \E a \in Assertions, k \in {"console", "account"} :
            BeginExchange(r, a, k)
       \/ ConsumeAssertion(r) \/ AuditLogin(r) \/ CreateSession(r)
       \/ SetCsrf(r) \/ EndAccount(r) \/ ExchangeFails(r)
       \/ \E s \in SessionIds, k \in {"page", "action", "logout"} :
            BeginRequest(r, s, k)
       \/ ResolveSession(r) \/ RefuseRequest(r) \/ CheckCsrf(r)
       \/ RevokeSession(r) \/ BeginAction(r) \/ CallEnds(r) \/ Correlate(r)
       \/ FinishAction(r)
  \/ AuthCrash
  \/ AuthTick

AuthSpec == AuthInit /\ [][AuthNext]_authVars
----------------------------------------------------------------------------
\* The rows are rows, and a token was only handed out for a session that exists.
AuthTypeOK ==
  /\ authNow \in AuthTimes /\ authIssued \in 0..MaxSessions
  /\ authSpent \subseteq Assertions
  /\ authSessions \in [SessionIds -> SessionRows \cup {NoSession}]
  /\ authCsrf \subseteq authHeld
  /\ authHeld \subseteq {s \in SessionIds : AuthRow(s) # NoSession}
  /\ authGuards \in [SessionIds -> [started : AuthTimes \cup {Unset},
                                    completed : AuthTimes \cup {Unset}]]
  /\ \A r \in AuthRequests : authReq[r].at \in AuthSteps

Twins(s, t) ==
  /\ s # t /\ AuthRow(s) # NoSession /\ AuthRow(t) # NoSession
  /\ AuthRow(s).from = AuthRow(t).from

\* consume_assertion() and its purge, run by concurrent requests with clock
\* readings of different ages: up to its exp claim an assertion is consumed at
\* most once, also when requests fail half-way.  Within the clock skew after it
\* the assertion is still valid and its row may be gone: OneSessionPerAssertion.
ConsumedOnceUpToExpiry ==
  \A s, t \in SessionIds : Twins(s, t) =>
    \E u \in {s, t} : AuthRow(u).born > AssertionExpiry[AuthRow(u).from]

\* "A replayed assertion is denied even when its signature remains valid."
OneSessionPerAssertion == \A s, t \in SessionIds : ~Twins(s, t)

\* exchange_assertion() writes the audit line first, so that no failure or
\* crash leaves a session whose login is not in the audit file.
SessionsAreAudited ==
  \A s \in SessionIds : AuthRow(s) # NoSession => s \in authLogins

\* A session that logout, expiry or idleness ended has no form token left,
\* whichever requests were between their steps when it ended.
CsrfFollowsSession ==
  \A s \in authCsrf : ~AuthRow(s).revoked

\* What the session store keeps while requests overlap, fail half-way and read
\* the clock at different times: up to its expiry an assertion makes at most one
\* session, the login of each is audited, and its form token ends with it.
SessionsAreSound ==
  AuthTypeOK /\ ConsumedOnceUpToExpiry /\ SessionsAreAudited /\ CsrfFollowsSession

\* The action guard admits one call at a time: from begin_action() to
\* finish_action() no other request of the session is between its own, whichever
\* clock readings they hold and whatever an earlier, dead process left behind.
OneCallAtATime ==
  \A q, r \in AuthRequests :
    q # r /\ authReq[q].at \in Acting /\ authReq[r].at \in Acting =>
      authReq[q].sid # authReq[r].sid
============================================================================
