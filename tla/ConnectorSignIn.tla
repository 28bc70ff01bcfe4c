-------------------------- MODULE ConnectorSignIn --------------------------
(***************************************************************************)
(* Sign-in to the Business159 connector gateway                            *)
(* (server/business159_claude_gateway.py): the authorization form with its *)
(* authenticator code (TotpGuard), authorization codes, access and refresh *)
(* tokens, and state.json (StateStore).                                    *)
(*                                                                         *)
(* Pending sign-ins and authorization codes live in the process; the rest  *)
(* is a dictionary that is written to state.json as a whole, after it was  *)
(* changed in memory. A request may wait for a lock after it has read the  *)
(* clock, writing may raise, and the process may die and start again. Time *)
(* is counted in steps of the authenticator. A disabled connector only     *)
(* refuses new requests, which here need not be made.                      *)
(***************************************************************************)
EXTENDS Naturals, FiniteSets

CONSTANTS
  SgThreads,                              \* handler threads
  PendingTtl, CodeTtl, AccessTtl, RefreshTtl,
  LockoutFailures, LockoutTime,           \* totp_lockout_failures, _seconds
  StepsAhead,                             \* of the authenticator's clock
  MaxSgTime, MaxSerial                    \* bounds: the clock, secrets drawn

ASSUME SgAssumption ==
  /\ {PendingTtl, CodeTtl, AccessTtl, RefreshTtl} \subseteq Nat
  /\ LockoutFailures \in Nat \ {0} /\ LockoutTime \in Nat
  /\ StepsAhead \in Nat /\ MaxSgTime \in Nat /\ MaxSerial \in Nat

VARIABLES
  sgNow,       \* the clock
  sgSerial,    \* secrets drawn so far; each is its number
  sgPending,   \* Gateway.pending: sign-ins that have begun
  sgCodes,     \* Gateway.codes: authorization codes
  sgMem,       \* StateStore.data
  sgDisk,      \* state.json
  sgThread,    \* what each thread is doing
  sgGranted,   \* history: <<authenticator step, authorization code>>
  sgPairs,     \* history: the token pairs that were answered
  sgPresented, \* history: refresh tokens that were presented
  sgWrong      \* history: answers "invalid" since a right code or a lock

sgVars == <<sgNow, sgSerial, sgPending, sgCodes, sgMem, sgDisk, sgThread,
            sgGranted, sgPairs, sgPresented, sgWrong>>
sgHistory == <<sgGranted, sgPairs, sgPresented>>

Serials == 1..MaxSerial
Drawn == sgSerial + 1
SgEntries == [id : Serials, exp : Nat]
WrongCode == 0             \* a code of no step
SgIdle == [at |-> "idle"]
SgSet(t, state) == sgThread' = [sgThread EXCEPT ![t] = state]

\* What _expire() and _flush() leave of a dictionary of entries.
Live(entries) == {e \in entries : e.exp > sgNow}
Without(entries, id) == {e \in entries : e.id # id}
Named(entries, id) == \E e \in entries : e.id = id
----------------------------------------------------------------------------
EmptyStore == [access |-> {}, refresh |-> {}, last |-> 0, failures |-> 0, locked |-> 0]

SgInit ==
  /\ sgNow = 1 /\ sgSerial = 0 /\ sgPending = {} /\ sgCodes = {}
  /\ sgMem = EmptyStore /\ sgDisk = EmptyStore
  /\ sgThread = [t \in SgThreads |-> SgIdle]
  /\ sgGranted = {} /\ sgPairs = {} /\ sgPresented = {} /\ sgWrong = 0

\* update() and mutate(): the data is changed in memory, expired tokens are
\* dropped, and the file is replaced unless writing it raises.
Store(data, written) ==
  /\ sgMem' = [data EXCEPT !.access = Live(@), !.refresh = Live(@)]
  /\ sgDisk' = IF written THEN sgMem' ELSE sgDisk

\* start_authorization() of a request that passes its checks.
StartAuthorization ==
  /\ Drawn \in Serials /\ sgSerial' = Drawn
  /\ sgPending' = Live(sgPending) \cup {[id |-> Drawn, exp |-> sgNow + PendingTtl]}
  /\ sgCodes' = Live(sgCodes)
  /\ UNCHANGED <<sgNow, sgMem, sgDisk, sgThread, sgHistory, sgWrong>>

\* complete_authorization() up to the guard: the form may be posted twice.
PostForm(t, p, code) ==
  /\ sgThread[t] = SgIdle /\ Named(Live(sgPending), p)
  /\ sgPending' = Live(sgPending) /\ sgCodes' = Live(sgCodes)
  /\ SgSet(t, [at |-> "verify", pending |-> p, code |-> code, since |-> sgNow])
  /\ UNCHANGED <<sgNow, sgSerial, sgMem, sgDisk, sgHistory, sgWrong>>

\* Mutant: the step that was used last is tried again.
MatchesFromLast(code, now) == code \in {now - 1, now, now + 1} /\ code >= sgMem.last

\* The code is that of a step around now which is later than the last one used.
Matches(code, now) == code \in {now - 1, now, now + 1} /\ code > sgMem.last

\* _fail(): the count, or the lock when it is full.
Failed(now) ==
  IF sgMem.failures + 1 >= LockoutFailures
  THEN [sgMem EXCEPT !.failures = 0, !.locked = now + LockoutTime]
  ELSE [sgMem EXCEPT !.failures = @ + 1]

\* verify() under the guard's lock. It has read the clock before it had the
\* lock; only a right code that is on disk goes on.
VerifyCode(t) ==
  LET r == sgThread[t] IN
  /\ r.at = "verify"
  /\ \E now \in r.since..sgNow, written \in BOOLEAN :
       \/ /\ sgMem.locked > now /\ written
          /\ SgSet(t, SgIdle) /\ UNCHANGED <<sgMem, sgDisk, sgWrong>>
       \/ /\ sgMem.locked <= now /\ Matches(r.code, now)
          /\ Store([sgMem EXCEPT !.last = r.code, !.failures = 0], written)
          /\ sgWrong' = 0
          /\ SgSet(t, IF written THEN [r EXCEPT !.at = "grant"] ELSE SgIdle)
       \/ /\ sgMem.locked <= now /\ ~Matches(r.code, now)
          /\ Store(Failed(now), written)
          /\ sgWrong' = IF Failed(now).failures = 0 THEN 0
                        ELSE IF written THEN sgWrong + 1 ELSE sgWrong
          /\ SgSet(t, SgIdle)
  /\ UNCHANGED <<sgNow, sgSerial, sgPending, sgCodes, sgHistory>>

\* The rest of complete_authorization(): the pending sign-in becomes a code.
GrantCode(t) ==
  /\ sgThread[t].at = "grant" /\ Drawn \in Serials /\ sgSerial' = Drawn
  /\ sgPending' = Without(sgPending, sgThread[t].pending)
  /\ sgCodes' = sgCodes \cup {[id |-> Drawn, exp |-> sgNow + CodeTtl]}
  /\ sgGranted' = sgGranted \cup {<<sgThread[t].code, Drawn>>}
  /\ SgSet(t, SgIdle)
  /\ UNCHANGED <<sgNow, sgMem, sgDisk, sgPairs, sgPresented, sgWrong>>

\* exchange() of an authorization code, which is taken out before the redirect,
\* the client and the challenge are compared.
ExchangeCode(t, c) ==
  /\ sgThread[t] = SgIdle /\ Named(Live(sgCodes), c)
  /\ sgCodes' = Without(Live(sgCodes), c) /\ sgPending' = Live(sgPending)
  /\ \E next \in {SgIdle, [at |-> "issue", origin |-> c, since |-> sgNow]} : SgSet(t, next)
  /\ UNCHANGED <<sgNow, sgSerial, sgMem, sgDisk, sgHistory, sgWrong>>

\* exchange() of a refresh token: the file is written also when it is unknown.
ExchangeRefresh(t, n) ==
  /\ sgThread[t] = SgIdle
  /\ sgPresented' = sgPresented \cup {n}
  /\ \E written \in BOOLEAN :
       /\ Store([sgMem EXCEPT !.refresh = Without(@, n)], written)
       /\ SgSet(t, IF written /\ Named(Live(sgMem.refresh), n)
                   THEN [at |-> "issue", origin |-> n, since |-> sgNow] ELSE SgIdle)
  /\ UNCHANGED <<sgNow, sgSerial, sgPending, sgCodes, sgGranted, sgPairs, sgWrong>>

\* issue_tokens(): the client gets the pair when it is on disk.
IssueTokens(t) ==
  /\ sgThread[t].at = "issue" /\ Drawn \in Serials /\ sgSerial' = Drawn
  /\ \E now \in sgThread[t].since..sgNow, written \in BOOLEAN :
       /\ Store([sgMem EXCEPT
                   !.access = @ \cup {[id |-> Drawn, exp |-> now + AccessTtl]},
                   !.refresh = @ \cup {[id |-> Drawn, exp |-> now + RefreshTtl]}], written)
       /\ sgPairs' = IF ~written THEN sgPairs ELSE sgPairs \cup
            {[origin |-> sgThread[t].origin, id |-> Drawn,
              access |-> now + AccessTtl, refresh |-> now + RefreshTtl]}
  /\ SgSet(t, SgIdle)
  /\ UNCHANGED <<sgNow, sgPending, sgCodes, sgGranted, sgPresented, sgWrong>>

\* bearer_valid()
BearerValid(store, n) == Named(Live(store.access), n)

\* The process dies and is started again by systemd.
RestartGateway ==
  /\ sgPending' = {} /\ sgCodes' = {} /\ sgMem' = sgDisk
  /\ sgThread' = [t \in SgThreads |-> SgIdle]
  /\ UNCHANGED <<sgNow, sgSerial, sgDisk, sgHistory, sgWrong>>

SgTick ==
  /\ sgNow < MaxSgTime /\ sgNow' = sgNow + 1
  /\ UNCHANGED <<sgSerial, sgPending, sgCodes, sgMem, sgDisk, sgThread, sgHistory, sgWrong>>

\* The authenticator shows the code of its current step; by the time it is
\* compared, that step may be over.
SgNext ==
  \/ StartAuthorization \/ RestartGateway \/ SgTick
  \/ \E t \in SgThreads :
       \/ \E p \in Serials, code \in {WrongCode} \cup (sgNow..(sgNow + StepsAhead)) :
            PostForm(t, p, code)
       \/ VerifyCode(t) \/ GrantCode(t) \/ IssueTokens(t)
       \/ \E c \in Serials : ExchangeCode(t, c)
       \/ \E p \in sgPairs : ExchangeRefresh(t, p.id)

SgSpec == SgInit /\ [][SgNext]_sgVars
----------------------------------------------------------------------------
\* A code of the authenticator signs in at most once, and each authorization
\* code and each refresh token becomes at most one pair of tokens: also when
\* forms are posted twice, writing state.json fails and the gateway restarts.
UsedOnce ==
  /\ \A g, h \in sgGranted : g[1] = h[1] => g = h
  /\ \A p, q \in sgPairs : p.origin = q.origin => p = q

\* A client that was given tokens stays signed in: until they expire, or the
\* refresh token is presented, the gateway accepts them, now and after a restart.
StaysSignedIn ==
  \A p \in sgPairs, store \in {sgMem, sgDisk} :
    /\ p.access > sgNow => BearerValid(store, p.id)
    /\ p.refresh > sgNow /\ p.id \notin sgPresented => Named(Live(store.refresh), p.id)

\* Fewer than totp_lockout_failures codes are answered "invalid" before sign-in
\* locks, restarts included.
WrongCodesBounded == sgWrong < LockoutFailures /\ sgWrong <= sgMem.failures

SgTypeOK ==
  /\ sgPending \subseteq SgEntries /\ sgCodes \subseteq SgEntries
  /\ \A store \in {sgMem, sgDisk} :
       store.access \subseteq SgEntries /\ store.refresh \subseteq SgEntries

\* Steps, codes and refresh tokens are used once, answered tokens are kept until
\* they expire, and wrong codes are bounded, whichever writes of state.json fail
\* and whenever the gateway restarts.
SignInIsAccountable == SgTypeOK /\ UsedOnce /\ StaysSignedIn /\ WrongCodesBounded
=============================================================================
