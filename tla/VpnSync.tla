------------------------------ MODULE VpnSync ------------------------------
(***************************************************************************)
(* Enrollment rows carried into the registration store                     *)
(* (server/vpn_enrollment_registration_sync.py): the devices table of the  *)
(* enrollment service (DeviceLedger), the registration store               *)
(* (VpnRegistration) and the timer-driven sync_once() between them.        *)
(*                                                                         *)
(* sync_once() reads the registry, then the enrollment rows, then posts    *)
(* one row after the other; both sides change underneath it, and a request *)
(* that fails ends the run wherever it is.                                 *)
(***************************************************************************)
EXTENDS DeviceLedger, VpnRegistration

VARIABLE sync   \* the run of sync_once(), or SyncIdle

syncVars == <<ledger, regVars, sync>>
SyncIdle == [at |-> "idle"]
----------------------------------------------------------------------------
SyncInit == LedgerInit /\ RegInit /\ sync = SyncIdle

\* GET /v1/vpn-access/devices: every device with its status.
ReadRegistry ==
  /\ sync = SyncIdle
  /\ sync' = [at |-> "rows", devices |-> regDevices]
  /\ UNCHANGED <<ledger, regVars>>

\* enrollment_rows()
ReadRows ==
  /\ sync.at = "rows"
  /\ sync' = [at |-> "posts", devices |-> sync.devices, rows |-> ledger,
              next |-> 1]
  /\ UNCHANGED <<ledger, regVars>>

\* Mutant: only a device that is shown as registered is quarantined.
NeedsQuarantineRegistered(row) ==
  row.revoked /\ RegStatus(row.key) = "registered"

\* What the run does for a row depends on the two snapshots alone.
NeedsQuarantine(row) ==
  LET existing == sync.devices[row.key] IN
  /\ row.revoked
  /\ existing # NoRegDevice /\ existing.quarantined = "no"

NeedsUpsert(row) ==
  LET existing == sync.devices[row.key] IN
  /\ ~row.revoked
  /\ existing # NoRegDevice =>
       existing.address # row.address \/ existing.label # row.label

\* One turn of the loop, with the POST it makes.
PostRow(n) ==
  /\ sync.at = "posts" /\ sync.next = n /\ n \in DOMAIN sync.rows
  /\ LET row == sync.rows[n] IN
     \/ NeedsQuarantine(row) /\ SetQuarantine(row.key, "sync")
     \/ NeedsUpsert(row) /\ UpsertDevice(row.key, row.address, row.label)
     \/ ~NeedsQuarantine(row) /\ ~NeedsUpsert(row) /\ UNCHANGED regVars
  /\ sync' = [sync EXCEPT !.next = n + 1]
  /\ UNCHANGED ledger

SyncEnds ==
  /\ sync.at = "posts" /\ sync.next > Len(sync.rows)
  /\ sync' = SyncIdle
  /\ UNCHANGED <<ledger, regVars>>

\* A request is refused or times out, or the process is killed.
SyncFails ==
  /\ sync # SyncIdle
  /\ sync' = SyncIdle
  /\ UNCHANGED <<ledger, regVars>>

\* What an operator does to the part of the store that sync_once() reads.
OperatorActs ==
  \E k \in RegKeys, actor \in {"operator", "no"} : SetQuarantine(k, actor)

SyncNext ==
  \/ LedgerNext /\ Len(ledger') <= MaxKeys /\ UNCHANGED <<regVars, sync>>
  \/ OperatorActs /\ UNCHANGED <<ledger, sync>>
  \/ ReadRegistry \/ ReadRows \/ SyncEnds \/ SyncFails
  \/ \E n \in 1..MaxKeys : PostRow(n)

SyncSpec == SyncInit /\ [][SyncNext]_syncVars

\* The timer starts sync_once() again and again, and a request that is made
\* over and over is answered some time.
SyncFairness ==
  /\ WF_syncVars(ReadRegistry) /\ SF_syncVars(ReadRows)
  /\ SF_syncVars(SyncEnds)
  /\ \A n \in 1..MaxKeys : SF_syncVars(PostRow(n))
----------------------------------------------------------------------------
\* The synchronisation quarantines a device only when its enrollment is
\* revoked, however stale its two snapshots are when it posts.
SyncQuarantinesRevoked ==
  \A k \in RegKeys : Known(k) /\ regDevices[k].quarantined = "sync" =>
    \E d \in DOMAIN ledger : ledger[d].key = k /\ ledger[d].revoked

\* "revoked enrollment devices quarantined in registration state when they
\* already have a registration record": some time after the revocation the
\* registry shows the device as quarantined, although runs fail, read stale
\* rows, register the device after its revocation or find it cleared.
RevokedGetsQuarantined ==
  \A k \in RegKeys :
    (Known(k) /\ \E d \in DOMAIN ledger : ledger[d].key = k /\ ledger[d].revoked)
      ~> RegStatus(k) = "quarantined"

\* A new label reaches the registry, unless the device is revoked first.
RenamedIsShown ==
  \A k \in RegKeys :
    (\E d \in DOMAIN ledger : ledger[d].key = k /\ ledger[d].label = "renamed")
      ~> \/ Known(k) /\ regDevices[k].label = "renamed"
         \/ \E d \in DOMAIN ledger : ledger[d].key = k /\ ledger[d].revoked

\* The registry follows the enrollment rows: sync_once() quarantines nobody else's
\* device, and revocations and new labels arrive in the end.
RegistryFollows ==
  []SyncQuarantinesRevoked /\ RevokedGetsQuarantined /\ RenamedIsShown
=============================================================================
