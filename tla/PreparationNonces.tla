------------------------- MODULE PreparationNonces -------------------------
(***************************************************************************)
(* Replay protection of the mail preparation API                           *)
(* (server/outbound_mail_preparation_auth.py). A signed request carries a  *)
(* timestamp and a nonce; verify_request() compares the timestamp with a   *)
(* clock reading and then claims the nonce in a SQLite transaction, with   *)
(* that reading, after it has waited for the write lock. Old nonces are    *)
(* deleted by the same transaction. Signatures and digests are decided     *)
(* before the first step here.                                             *)
(***************************************************************************)
EXTENDS Naturals

CONSTANTS
  PnThreads,              \* requests in progress
  Nonces,
  PnSkew, NonceTtl,    \* clock_skew_seconds, nonce_ttl_seconds
  LockWait,               \* the connection's timeout
  MaxPnTime               \* bound

\* The configuration keeps nonces for longer than a request can be valid and
\* wait: 900 seconds against twice 300 and 5 in
\* config/messaging/outbound-mail-gateway.json. validate_config() asks for less.
ASSUME PnAssumption ==
  /\ {PnSkew, NonceTtl, LockWait, MaxPnTime} \subseteq Nat
  /\ NonceTtl >= 2 * PnSkew + LockWait

VARIABLES
  pnNow,      \* the clock
  pnSigned,   \* nonce -> timestamp of the request signed with it, 0 for none
  pnRows,     \* used_nonces: <<nonce, used_at>>
  pnThread,   \* what each thread is doing
  pnAccepted  \* history: nonce -> how often its request was accepted

pnVars == <<pnNow, pnSigned, pnRows, pnThread, pnAccepted>>
PnIdle == [at |-> "idle"]
PnSet(t, state) == pnThread' = [pnThread EXCEPT ![t] = state]
Distance(a, b) == IF a > b THEN a - b ELSE b - a
----------------------------------------------------------------------------
PnInit ==
  /\ pnNow = 1 /\ pnSigned = [n \in Nonces |-> 0] /\ pnRows = {}
  /\ pnThread = [t \in PnThreads |-> PnIdle]
  /\ pnAccepted = [n \in Nonces |-> 0]

\* build_headers() at a client, whose clock may be off.
SignRequest(n, stamp) ==
  /\ pnSigned[n] = 0 /\ pnSigned' = [pnSigned EXCEPT ![n] = stamp]
  /\ UNCHANGED <<pnNow, pnRows, pnThread, pnAccepted>>

\* verify_request() up to the claim. A client sends its request as often as it
\* likes, for example when an answer was lost.
CheckRequest(t, n) ==
  /\ pnThread[t] = PnIdle /\ pnSigned[n] # 0
  /\ Distance(pnNow, pnSigned[n]) <= PnSkew
  /\ PnSet(t, [at |-> "claim", nonce |-> n, now |-> pnNow])
  /\ UNCHANGED <<pnNow, pnSigned, pnRows, pnAccepted>>

\* Mutant: a nonce goes in the second in which it becomes as old as the limit.
UnexpiredBefore(now) == {r \in pnRows : r[2] + NonceTtl > now}

\* What the DELETE leaves: used_at < now - ttl_seconds goes.
Unexpired(now) == {r \in pnRows : r[2] + NonceTtl >= now}

\* _claim_nonce(): a nonce that is still there rolls the transaction back.
ClaimNonce(t) ==
  LET c == pnThread[t]
      kept == Unexpired(c.now)
  IN
  /\ c.at = "claim" /\ pnNow <= c.now + LockWait
  /\ IF \E r \in kept : r[1] = c.nonce
     THEN UNCHANGED <<pnRows, pnAccepted>>
     ELSE /\ pnRows' = kept \cup {<<c.nonce, c.now>>}
          /\ pnAccepted' = [pnAccepted EXCEPT ![c.nonce] = @ + 1]
  /\ PnSet(t, PnIdle)
  /\ UNCHANGED <<pnNow, pnSigned>>

\* The lock is not had in time, or the process dies.
ClaimFails(t) ==
  /\ pnThread[t].at = "claim" /\ PnSet(t, PnIdle)
  /\ UNCHANGED <<pnNow, pnSigned, pnRows, pnAccepted>>

PnTick ==
  /\ pnNow < MaxPnTime /\ pnNow' = pnNow + 1
  /\ UNCHANGED <<pnSigned, pnRows, pnThread, pnAccepted>>

PnNext ==
  \/ PnTick
  \/ \E n \in Nonces :
       \/ \E stamp \in 1..MaxPnTime :
            Distance(pnNow, stamp) <= PnSkew /\ SignRequest(n, stamp)
       \/ \E t \in PnThreads : CheckRequest(t, n)
  \/ \E t \in PnThreads : ClaimNonce(t) \/ ClaimFails(t)

PnSpec == PnInit /\ [][PnNext]_pnVars
----------------------------------------------------------------------------
\* A signed request is accepted at most once: its nonce is still in the table
\* whenever its timestamp may pass, though every request deletes with a clock
\* reading of its own and may have waited since.
AcceptedOnce == \A n \in Nonces : pnAccepted[n] <= 1
=============================================================================
