# Verification of the Edge1 management services

This directory holds TLA+ models of the parts of this repository that keep state
under failure and concurrency, the TLC configurations that check them on small
instances, and TLAPS proofs of the main results. Paths are relative to the
repository's root; `app/` and `migrations/` are those of the messaging gateway
(`services/wwcx-messaging-gateway`).

## 1. Inventory

The repository is a collection of services for one edge host. Most of its lines
are exporters, report builders, validators of documents and read-only HTTP
facades. The parts below keep durable state, are run by several processes or
threads, or change several things one after the other and may stop half-way.

| Component | State | Operations | Talks to | What is hard |
|---|---|---|---|---|
| Outbound queue and worker (`app/persistence.py`, `app/outbound_worker.py`) | `outbound_jobs`, `messages`, control state | enqueue, claim, gates, complete, block, retry, pause | rate limiter, adapters, suppressions | several one-shot workers, crashes between any two statements, lost replies |
| Rate limiter (`app/outbound_policy.py`) | send reservations | `reserve` | worker | `now()` is fixed before the advisory lock is held |
| Carrier adapters (`app/telnyx_provider.py`, `app/bandwidth_provider.py`) | none | `send`, `acquire_media` | the carriers | an HTTP failure does not say whether the message was taken |
| Webhook intake and recovery (`app/main.py`, `app/webhook_*.py`, `app/inbound_worker.py`) | receipts, events, counters | the webhook route, `run_once` | event store | redelivery while the first delivery is in progress, crashes between receipt, event and mark |
| Keyword compliance (`app/compliance.py`, `app/persistence.py`) | consent state, `suppressions` | part of `put_if_absent` | read by the outbound worker | late, repeated, tied and concurrent STOP and START |
| Delivery status (`app/delivery_*.py`) | delivery events and state, `messages.status` | `put_if_absent`, `reconcile_one` | the outbound worker writes the same row | callbacks overtake the send that caused them, and each other |
| Media quarantine (`app/quarantine_storage.py`, `app/media_quarantine.py`, `app/trusted_scanner.py`) | blob, metadata and scan-state file per digest | ingest, scan | ClamAV | three files, two writers, bytes that change under the scanner |
| Telegraph queue (`reference/telegraph_store_forward.py`) | one SQLite table and its events | enqueue, cancel, expire, claim, fail, acknowledge, transfer | a transport | reads and writes in separate transactions, leases that run out |
| Turn ownership (`server/edge1_operator_turn_state.py`) | turn rows, audit, outbox, idempotency keys | `seed`, `handoff` | callers | lost answers, reused keys, stale requests, a conversation started over |
| Operations API and privileged broker (`server/edge1_operations_api.py`, `edge1_operations_typed_actions.py`, `edge1_operator_privileged_broker.py`) | idempotency table; the console's process | typed action, broker request | systemd | a caller hangs up and its request is executed later |
| Security auth (`server/edge1_security_auth_*.py`) | spent assertions, sessions, form tokens, guards | exchange, session, logout, action | audit file, operations | clock readings of different ages, several stores per request |
| VPN enrollment (`deploy/edge1-vpn-enroll/overlay/edge1_vpn_enroll/`) | invites, devices; WireGuard file and interface | create, redeem, revoke, rename | kernel | only the database rolls back |
| VPN registration and its synchronisation (`server/vpn_access_registration.py`, `vpn_enrollment_registration_sync.py`) | policies, devices, acceptances, quarantine | store methods, `sync_once` | reads the enrollment rows | stale snapshots, runs that stop at a row |
| Release controller (`server/edge1_release_controller.py`) | links, drop-ins, services, `state.json` | `prepare`, `promote`, `rollback_last` | systemd | a transaction without a log |
| Outbound mail pilot and ledger (`tools/messaging/execute_outbound_mail_one_message_pilot.py`, `server/outbound_mail_*.py`) | three runtime documents, evidence, delivery events | execute, guarded send, apply event | SMTP provider | a timed-out request goes on, a dead pilot leaves documents active |
| Gateway rollout (`deploy/messaging/activate-outbound-mail-phase-b2-apache.sh`, `install-outbound-mail-disabled-runtime-migration.sh`) | virtual host, fragment and backups; drop-in, runtime files, the service | activate, roll back; migrate, disable, roll back | Apache, systemd | a trap that undoes what a script has done so far, kills between two commands, edits by others |
| Cookie Monster activation (`deploy/cookie_monster_edge1_activate.py`, `cookie_monster_runtime_publish.py`) | registry, job file, published files, backups | apply, rollback | publisher | failures inside and after the publisher |
| Staged proposals (`tools/ai_filesystem_connector/staged_proposals.py`) | manifests, snapshots, the repository tree | stage, approve, reject, validate, apply | | manifests written back from stale copies, torn files |
| News ingestion (`server/edge1_comms/ingest.py`, `upstream_nntp.py`, `storage.py`) | articles, ledger, cursors | `run_ingestion`, retention | upstream server, git | budgets, renumbering, pushes in the middle of a run |
| Branch writes (`tools/bigbird_repository_controller.py`) | records, branches, audit | `create_branch_commit` | git | processes killed by a time limit, no mutual exclusion |
| Connector sessions and sign-in (`server/business159_claude_gateway.py`) | session pool, child processes, answers; pending sign-ins, codes, `state.json` | initialize, message, delete, reap; authorize, exchange, refresh | child processes | late answers, eviction under load; memory ahead of the file, restarts |
| Preparation API (`server/outbound_mail_preparation_auth.py`) | used nonces | verify a signed request | mail gateway | clock readings that age while a request waits for the lock |

Not modelled, with the reason in `PROJECT.json`: in-memory development stores, the
telegraph adapter, inbound mail hub, numbering and portability, telephony
reports, portal, AVA office manager, exporters and inventories, time authority
and library servers. Three of them hold stores with transitions of their own: the AVA
office manager, the portability cases and camera enrollment. In this repository only
tests call their writing operations, so that nothing says which callers meet; they read
a row, check it and update it by key alone, and a first concurrent caller would make
them worth a model.

## 2. Modules

| Module | Models | Run |
|---|---|---|
| `SendRateLimiter` | `PostgresSendRateLimiter.reserve` | `stores`; `OutboundQueue` uses it as `Limiter` |
| `OutboundQueue` | queue tables, `run_once`, `send`, pause, suppressions | `outbound_queue`, `outbound_hourly` |
| `OutboundStops` | `OutboundQueue` with history of pauses and STOPs | `outbound_queue` |
| `TelegraphQueue` | the store-and-forward queue | `recovery_queues` |
| `WebhookIntake` | webhook route, receipts, counters, recovery worker | `recovery_queues`, `webhook_*` |
| `LatestWins` | abstract: a register that shows the newest accepted item | refined by `Consent`, `DeliveryStatus` |
| `Consent`, `DeliveryStatus` | STOP/START/HELP; callbacks and reconciler | `host_files`; `reconcilers` |
| `DeviceLedger` | abstract: what readers of the devices table may rely on | refined by `VpnEnrollment`, used by `VpnSync` |
| `VpnEnrollment`, `VpnRegistration` | enrollment; registration store | `stores`, `vpn_reenroll` |
| `VpnSync` | composes `DeviceLedger` and `VpnRegistration` with `sync_once` | `reconcilers` |
| `RuntimeMigration`, `ApacheRoute` | rollout of the mail gateway: migration to runtime paths; the Apache route, composed with it | `outbound_queue` |
| `TurnState`, `SecurityAuth`, `OperationsControl`, `PreparationNonces` | turn rows; sessions; typed action and broker; request nonces | `stores` (`SecurityAuth` also `auth_replay`) |
| `ReleaseController`, `MailPilot`, `CookieActivation`, `StagedProposals`, `CommsIngest`, `MediaQuarantine`, `RepositoryController`, `ConnectorSessions`, `ConnectorSignIn` | as named | `host_files` (`CommsIngest` also `ingest_lost`) |
| `SendRateLimiterProofs`, `OutboundQueueProofs`, `ConsentProofs`, `WebhookIntakeProofs` | theorems about the module of that name; the second also about `OutboundStops` | |
| `ReconcilerProofs` | theorems about `DeliveryStatus` and `VpnSync` | |
| `VpnProofs` | theorems about `VpnEnrollment` and `VpnRegistration` | |
| `StoreProofs` | theorems about `TurnState`, `SecurityAuth`, `OperationsControl`, `PreparationNonces`, `TelegraphQueue` | |
| `HostFilesProofs` | theorems about `ReleaseController`, `CookieActivation`, `MailPilot`, `MediaQuarantine`, `RepositoryController`, `ConnectorSessions`, `StagedProposals`, `ConnectorSignIn`, `RuntimeMigration` with `ApacheRoute`, `CommsIngest` | |
| `MC*` | TLC instances | |

### How code becomes actions

A statement that can wait for, or be overtaken by, another process is a step;
local code between two such statements belongs to the step before it. A
database transaction that takes its write lock first (BEGIN IMMEDIATE, an
advisory or a row lock) is one step; one that reads before it writes is two.
Writing a file, moving a link, restarting a service and calling somebody
are steps of their own. What a transaction writes becomes visible with its
commit, so row locks are operators over program counters (`Locked`,
`ConsentLocked`, `StateLocked`). A process that dies, or whose call raises, is
one action: the open transaction is gone, everything committed or written
stays, and an except or finally branch, where the code has one, is its own
sequence of steps.

* **`SendRateLimiter`** — `Begin` is BEGIN, which fixes `now()`; `Commit` is
  everything under the advisory lock. `Verdict` is the order of the code's checks.
* **`OutboundQueue`** — `Start` (pause check), `ClaimLock`/`ClaimCommit`
  (`FOR UPDATE SKIP LOCKED` and the UPDATE), `Gates` (allowlist, registry, policy,
  suppressions, MMS, in the code's order), `ReserveBegin`/`ReserveCommit`,
  `Send`, and one action per way `run_once` ends: `Block`, `Retry`, `Rejected`,
  `Complete`, `ReconcileRequired`. `SendMayEnd` says how an adapter may end:
  `Report` maps HTTP replies to error classes, `MayBeTaken` (external) is when the
  carrier may have taken the message. An adapter called "contract" may do
  whatever the documented contract of `MessagingProvider` allows. `Enqueue` does
  not look at `paused`: the route's check is an earlier read. `DeliveryUpdate` is the
  delivery store, which writes the status of a sent job's message row
  (`app/delivery_status.py:131`, `:185`); which status is current is the subject of
  `DeliveryStatus`.
* **`OutboundStops`** adds no step: it remembers how many runs had begun when the
  gateway was paused, and which jobs had not passed the gates when their recipient
  was suppressed.
* **`WebhookIntake`** — `Refuse` and `Admit` are the route's checks;
  `RecordVerified`, `ServerPut`, `ServerCompare`, `ServerMark`, `ServerAudit` are
  its database calls in order, and `WorkerStart`, `Claim`, `WorkerPut`,
  `WorkerPutFails`, `WorkerRetry`, `WorkerMark` those of the recovery worker. Two
  servers stand for `--workers N`. `due` says that `available_at` has passed.
* **`Consent`**, **`DeliveryStatus`** — the statements of `put_if_absent` and
  `reconcile_one` up to the commit. A replay of a committed event changes
  nothing and is not a step.
* **`TelegraphQueue`** — every call is its read and its write (`CancelReads`,
  `CancelWrites`, `FindExpired`, `ExpireFound`, ...); `ClaimDue` starts with an
  UPDATE and is one step. `process_once` reads the clock once.
* **`TurnState`** — `SeedTurn`, and a handoff that is applied, replayed or refused
  in the order of the code's checks; callers keep requests and may lose answers.
* **`SecurityAuth`** — one action per store call of the exchange, session, logout
  and action requests; each reads the clock before it. Rate buckets only end a request
  early and are a free refusal. `CallEnds` is the end of the *call* of a guarded action:
  an answer, a failure or the client's timeout. The operation at the Operations API may
  outlive its call and is not part of the model (section 7).
* **`OperationsControl`** — the API's claim, precondition check, submission,
  verification and completion; the broker's `BrokerTakes`, `BrokerRestarts`,
  `BrokerObserves`, `BrokerAnswers`; `HangUp` leaves the request in the backlog,
  and an answer to a caller that is gone ends the broker.
* **`VpnEnrollment`** — the database transaction `enrTx` with a step for each
  thing it changes outside (`AppendBlock`, `SetPeer`, `RemoveBlock`,
  `RemovePeer`); `RollBack` returns the rows and nothing else; `Reboot` loads
  the file into the kernel, the first block of an address losing it to a later one.
  Blocks are only ever appended, under a key that is new, so the file is the set of its
  blocks and their order is that of their keys.
* **`VpnRegistration`**, **`VpnSync`** — store methods, and `sync_once` as two
  snapshots and one post per row. The label stands for the display name, which is
  the only thing of an enrolled row that changes.
* **`ReleaseController`** — `promote` as the list `ForwardSteps`, its except
  branch as `UndoSteps`; each step may raise or be the last. `ServiceRestarts` is
  systemd.
* **`MailPilot`** — documents one by one, restart, send, and the finally branch;
  the gateway's thread is a process of its own. The final scanner's verdict is a
  free choice; the entry point at this commit passes none, which refuses.
* **`CookieActivation`** — `apply` and its except branch, the publisher file by
  file, and `rollback`. A failing publisher is rolled back by `publish` (`undo_publish`),
  a later failure by the except clause (`undo_web`). `RestoreFails` is a restore that
  fails: `publish` ignores it and the except clause goes on, the except clause ends
  silently. `cmSwallowed` remembers which of the two it was.
* **`StagedProposals`** — every command reads the manifest at its start and
  writes that copy at its end; files are written one by one and may be torn.
* **`CommsIngest`** — one run at a time (the file lock), source after source,
  item after item, with the budget; upstream, pushes and retention are free. A batch
  maps the numbers of the candidates (article numbers, commits) to items;
  `ScanStops` is where the reader's loop ends.
* **`MediaQuarantine`** — one digest, three files, several workers.
* **`ConnectorSignIn`** — `StartAuthorization`, `PostForm`, `VerifyCode`, `GrantCode`,
  `ExchangeCode`, `ExchangeRefresh`, `IssueTokens`. `Store` changes the dictionary in
  memory and then the file, and the second may fail; `RestartGateway` reads the file
  and loses what is only in memory. `since` is when a request could first have read
  the clock that it uses after waiting for a lock.
* **`PreparationNonces`** — `CheckRequest` compares the timestamp with the clock,
  `ClaimNonce` is the transaction, which uses that same reading.
* **`RuntimeMigration`**, **`ApacheRoute`** — each command of the two shell scripts that changes
  the host, or that sets the flag which decides what a rollback does, is a step.
  `MigrationFails` and `RouteFails` are a failed command and a trapped signal alike;
  after `RouteKilled` and `MigrationKilled` nothing is undone. `RollbackRestore` is the trap
  of the manual rollback, which returns to the script when a signal ran it. An
  administrator edits, starts and cleans up between the scripts. The route's probes need
  the gateway that the migration stops. What undoes a failure may fail itself, and both
  scripts then go on: `rollback()` runs under `set +e` (`RestoreDropin`, `ReloadOld`,
  `RestartOld`, `UndoFiles`), `restore_from_current_evidence` is the condition of an `if`
  (`UndoVhost`, `UndoFragment`), and the manual rollback's trap copies with `|| true`
  (`RollbackRestore`). `rmTrouble` and `arTrouble` remember that this has happened. The
  runtime entry point needs its configuration, policy and identities only
  (`NeededFiles`); it starts without audit, nonces and suppressions.
* **`RepositoryController`**, **`ConnectorSessions`** — each git command or file, and
  each section under the pool's lock, is a step. `Evicted` is what a new session may
  take out of the pool: a session that was used longest ago when the pool is full.

## 3. Runs

| Run | Shows |
|---|---|
| `outbound_queue` | Part *queue*: 2 workers, 2 jobs, Bandwidth adapter: at most once, rows agree with the carrier and with each other, bounded submissions, terminal rows stay, the ledger is used as `SendRateLimiter` says. Part *stops*: 3 jobs (free, policy-refused, MMS) in one run after another: nothing passes around the gates, a pause and a STOP end sending. Gateway rollout (4 runtime files, 1 edit of the virtual host), the migration alone, the route alone and both together: both scripts can be undone as far as what undoes them succeeds |
| `recovery_queues` | Receipts (2 servers, 1 worker, 1 event, 2 bodies, 2 deliveries): acknowledged is stored, one accepted receipt, final receipts stay final, counters do not overcount, recovery ends. Telegraph queue (2 producers, 2 workers, 1 telegram, capacity 1): events explain states, rows are sound, every telegram ends |
| `stores` | `SendRateLimiter`, `TurnState`, `SecurityAuth`, `VpnEnrollment`, `VpnRegistration`, `OperationsControl`, `PreparationNonces` |
| `host_files` | `Consent`, `ReleaseController`, `MailPilot`, `CookieActivation`, `StagedProposals`, `CommsIngest`, `MediaQuarantine`, `RepositoryController`, `ConnectorSessions`, `ConnectorSignIn` |
| `reconcilers` | `DeliveryStatus` and `VpnSync`: what is shown is true, and is shown in the end |
| `outbound_hourly`, `auth_replay`, `webhook_new_event`, `webhook_changed_body`, `webhook_orphan`, `vpn_reenroll`, `ingest_lost` | **violated**: section 4 |

`outbound_queue`, `recovery_queues`, `stores`, `host_files` and `reconcilers` are *sums*: the initial state
chooses one component, only that component's variables ever change, and the
others stay at their initial values. Each behaviour is thus a behaviour of one
component, and the state space is the sum and not the product of theirs. A run
that checks an invariant of a component checks it on all of that component's
states. Components that do share state are composed instead: `OutboundQueue` with
`SendRateLimiter`, `VpnSync` with the ledger and the store, `ApacheRoute` with
`RuntimeMigration`.

Every property of a passing run has a mutant: a definition changed the way a
plausible bug would change the code (`SafeRetryWhenLost`: a lost reply counts as
safe to retry; `NeverLocked`: the consent row is not locked; `AfterTimeoutKeep`: the
session survives a timeout; ...), under which TLC finds the property violated.

### What the properties say

A run checks the properties in the second column; several are conjunctions of named
parts, each with its own comment in the module.

| Component | Property | Parts |
|---|---|---|
| Limiter | `WindowsBounded` | |
| Queue | `AtMostOnce`, `RowsAgreeWithCarrier`, `TerminalIsFinal`, `ImplementsLimiter`, `StoppedStaysUnsent` | |
| | `GatesHold` | `SubmittedIsAuthorized`, `PauseEndsSending` (runs that had begun submit at most once each) |
| | `JobsAreAccounted` | `MessageAgreesWithJob`, `SubmissionsBounded` |
| Intake | `ReceiptsAreTrue` | `ReceiptsAgreeWithStore`, `AcknowledgedIsStored`, `AuditNeverOvercounts` |
| | `TerminalReceiptIsFinal`, `RecoveryEnds` | |
| Consent | `NewestDecisionIsEnforced`, `ManualSuppressionStays`, `ImplementsLatestWins` | |
| Delivery | `StatusIsTrue` | `MessageShowsCurrent`, `EventRowsAreHonest` |
| | `EventuallyShown`, `ImplementsLatestWins` | |
| Media | `QuarantineHolds` | `CleanIsGenuine` (a clean verdict is about the stored bytes), `VerdictStands` |
| Telegraph | `TelegramsAreSound` | `EventsTellState` and the rows' own conditions |
| | `EveryTelegramEnds` | |
| Turns | `TurnsAreAccounted` | `TurnsFormAChain`, `OneEffectPerKey`, `AnswersAreTrue` |
| Operations | `ReloadsAreExact` | `OneRunPerKey`, `OneReloadPerProcess`, `SucceededIsTrue` |
| Auth | `SessionsAreSound` | `ConsumedOnceUpToExpiry`, `SessionsAreAudited`, `CsrfFollowsSession` |
| | `OneCallAtATime` (from `begin_action` to `finish_action`) | |
| | `OneSessionPerAssertion` (violated: section 4) | |
| Enrollment | `PeersFollowDevices` | `RevokedIsCutOff`, `EnrolledIsServed`, `InviteUsesAreDevices` |
| | `ImplementsLedger` | |
| Registration | `RegistrationIsStable` | `PolicyKept`, `OnlyClearingReleases` |
| Synchronisation | `RegistryFollows` | `SyncQuarantinesRevoked`, `RevokedGetsQuarantined`, `RenamedIsShown` |
| Release | `PromotionIsSound` | `SuccessIsComplete`, `FailureRestores`, `LinksAreKnownGood` |
| Mail | `PilotIsReversible` | `BackupsAreSafe`, `EvidenceIsTrue` |
| | `SuppressionHolds` | `LedgerCountsOnce`, `SuppressedIsNotMailed` |
| Gateway rollout | `RolloutIsReversible` | `MigrationIsReversible`, `RuntimeHasItsFiles`, `EndsAsReported`, `EditsAreKept` |
| Cookie Monster | `ActivationIsReversible` | `FailedApplyRestores`, `RollbackRestores`, `ActiveIsRestorable` |
| Proposals | `ApplyIsAccountable` | `OriginalKept`, `OnlyApprovedIsWritten`, `AppliedIsRecorded` |
| Ingestion | `EveryItemOnce` | `ItemsPostedOnce`, `CursorPassesNothing` |
| Branches | `CommittedIsThere` | |
| Connector | `SessionsAreAccounted` | `AnswersMatch`, `ChildrenAccounted` |
| | `SignInIsAccountable` | `UsedOnce`, `StaysSignedIn`, `WrongCodesBounded` |
| Preparation API | `AcceptedOnce` | |

`OneReservationPerJob`, `ClaimExclusive` and `AuditIsHonest` are proved (section 5) and
have no run of their own. So are the type invariants that no property above has as a part:
each is a part of the inductive invariant of its module's proof.

### Bounds

* Two processes of a kind: every race in this code is between two holders of the
  same row, file or key. `Consent` has a third handler because three commands for one
  address can be open at the same time.
* `MaxClock`, `MaxAuthTime`, `MaxTgTime`: enough for the longest window, lease or
  expiry of the instance to pass while something is open.
* `MaxAttempts`, `MaxTries` = 2: one retry and one exhaustion. `MaxDeliveries` = 2: a
  delivery and a redelivery.
* `MaxTransactions` = 3 promotions (a good one, a failed one, a rollback),
  `MaxPilotRuns` = 2, `MaxApplies` = 2, `MaxSnapshots` = 2: a second execution on
  what the first has left.
* `MaxEpoch`, `MaxSeeds` = 2: a handoff, one back, and a conversation started over.
* `LastAddress`, `MaxKeys` = 3: two devices, and an address taken again.
* `RuntimeFiles` of four: one that is always copied, one that may have no source (nonces),
  one that may exist before (the suppression database), one that the runtime entry point
  needs. `MaxEdits` = 1: one foreign edit of the Apache site. Rollbacks whose own commands
  fail are explored where each script runs alone; the two together run with rollbacks
  whose commands succeed, since they share no file and meet only in the gateway that the
  route's probes need.
* In the part *stops* one run is in progress at a time: gates, pauses, STOPs and retries of
  successive runs. Workers that overlap in them are covered by the theorems, and so are the
  simulator, the Telnyx and the "contract" adapter.
* `MaxIngRuns` = 3 with `Budget` = `ScanLimit` = 2 over three articles: a group takes
  two runs. `MaxRenumberings` = 1.
* `MaxPool` = 1, `MaxChildren` = 2, `MaxMessages` = 3: an eviction, and a message id
  used again after a timeout. `MaxInst` = 3, `MaxOpRequests` = 2: the console is
  restarted by the broker and by systemd.
* `MaxSerial` = 4: a sign-in, its code, a pair of tokens and the next pair, or two codes
  from a form that was posted twice; `MaxSgTime` = 2 lets each of them expire.
* `NonceTtl` = 3 with `PnSkew` = `LockWait` = 1: the smallest values of the proportion
  the deployed ones (900, 300, 5 seconds) satisfy, `NonceTtl >= 2 * PnSkew + LockWait`,
  which the property needs; `validate_config()` alone asks for `NonceTtl >= PnSkew`.
* `CallMax < InFlight` in `SecurityAuth`: the client of the Operations API gives up after
  15 seconds, the guard after 60 (`config/security/edge1-security-auth-http.json:44`, `:38`);
  nothing in the code compares the two. `finish_action`
  does not check whose call it finishes and relies on that. `ClockSkew` = 2 with an
  assertion that expires at 0: both sides of its expiry are within `MaxAuthTime`.

Symmetry is used over interchangeable processes, releases, invites and keys
(`n1`/`n2`, `k1`/`k2`), and in no run with a liveness property. Deadlock is checked
except in `stores`, `host_files` and the three small instances of
`auth_replay`, `vpn_reenroll` and `ingest_lost`, which have a finite amount of work and
then stop.

### Fairness

The message workers are one-shot processes started by an operator or a
timer, and the repository schedules none of them. The specifications assume only
that a started process runs (`WF` of its steps) and that time passes; that workers
*keep being started* and eventually stop crashing are premises of
`EventuallyShown` and `RecoveryEnds`. `EveryTelegramEnds` assumes that
`process_once` keeps being called and that time reaches the expiry.
A found telegram is expired unless `process_once` raises every time (`SF` of `ExpireFound`).
`RegistryFollows` assumes what the unit's timer gives: runs of `sync_once` keep
starting (`WF` of `ReadRegistry`), and not all of them fail at the same request (`SF` of
the later steps): a row that the store refuses every time, and the rows behind it,
are outside this property.

## 4. Where the documents and the code disagree

1. `outbound_hourly`: `docs/outbound-policy.md:36` of the gateway describes a limit
   on "hourly messages per provider+sender". `reserve()` grants a job that already has
   a reservation at once, however old, so a job retried after a safe-retry error is
   submitted in a later hour without being counted there. What does hold, and is
   proved, is the bound on *reservations*.
2. `webhook_new_event`: `docs/webhook-receipts.md:21` says new events become
   `accepted` and genuine replays `duplicate`. When the handler dies between
   `put_if_absent` and `mark_processed`, recovery finds the event stored and marks
   the only receipt of a new event `duplicate`.
3. `webhook_changed_body`: `docs/webhook-receipts.md:14` says a changed body is
   rejected with 409. Until the first receipt is marked processed there is nothing
   to compare with, and a changed body is answered as an ordinary duplicate.
4. `webhook_orphan`: `docs/webhook-receipts.md:21` says a failure leaves a durable
   `verified` receipt to retry. A recovery worker that dies after its claim leaves
   it `processing`, and nothing claims it again.
5. `vpn_reenroll`: `docs/policies/network-access/device-registration-and-credential-lifecycle.md:10`
   says a device changing owners is revoked and re-enrolled. `allocate_address` skips
   the addresses of unrevoked rows and of the interface only, while
   `devices.address` is unique over all rows: once the lowest address belongs to a
   revoked row it is proposed every time and the INSERT is refused.
6. `ingest_lost`: `docs/communications/edge1-comms-relay-ingestion-live-acceptance-20260815.md:110`
   says new eligible commits are posted. The list of commits and the tip come from
   two resolutions of the ref; a push in between, when the list was empty,
   moves the cursor to a tip that was never listed.
7. `auth_replay`: `docs/security/edge1-security-auth-gateway-20260805.md:101` says "A
   replayed assertion is denied even when its signature remains valid."
   `validate_assertion` accepts an assertion until `exp + clock_skew_seconds` (10 s in the
   contract), while `consume_assertion` first deletes the rows with `expires_at < now`
   (`server/edge1_security_auth_store.py:124`). In between a used assertion opens a second
   session. Up to its `exp` claim an assertion is consumed at most once
   (`ConsumedOnceUpToExpiry`, proved).

## 5. Proofs

TLAPS checks these for every value of the constants that satisfies the named
assumptions (in particular any number of jobs, workers, commands, any limits).

* **`SendRateLimiterProofs!RateLimit`** — `Spec => [](TypeOK /\ WindowsBounded /\
  OneReservationPerJob)`. Assumptions: `SenderAssumption`, `LimitAssumption`,
  `NoTxAssumption`. The invariant is inductive once the ledger is known to be
  finite. The heart is the commit step: if a window contains the new row's
  timestamp `t`, then all rows of the window are at or after `t - w`, and the
  code's count has no upper end, so it counts them all, the ones newer than `t`
  included. This is why the stale `now()` does no harm, and why an upper end
  (mutant `RecentUpToNow`) would.
* **`OutboundQueueProofs!TypeCorrect`, `AtMostOnceDelivery`,
  `QueueImplementsLimiter`** (`QueueAssumption`, `LimiterAssumption`) — `AtMostOnce` is not inductive alone: that a claimed
  job was never taken needs `ClaimExclusive` (no other worker is between its
  send and its record) and `RowsAgreeWithCarrier` (a pending job was not taken,
  and a worker that is about to retry, block or complete knows the truth). The
  three together with `TypeOK` are inductive. The refinement shows that each
  step is a step of the limiter or leaves its variables alone, so `RateLimit`
  carries over to the queue.
* **`ConsentProofs!StopIsHonoured`, `ManualStays`, `ConsentImplementsLatestWins`** —
  the inductive invariant `IInv` adds: one open transaction per event; at most
  one handler per address past its upsert (the row lock); the verdict that
  handler holds is still right at its commit (`DecisionIsFresh`), because nobody
  else can change the row in between; the row's source is the newest logged
  decision (`NewestOnTop`); HELP is always applied; stale commands are never
  on top. The refinement maps the logged decisions to `accepted` and the row's
  source to `current`; a commit is `Accept`, every other step stutters.
* **`OutboundQueueProofs!JobsAccounted`, `TerminalStaysFinal`** — `SubmissionsBounded` (a
  job is submitted at most as often as it was claimed) needs `SparedClaims`: a worker
  between its claim and its submission has a claim to spare, a pending job has an
  attempt left, and a job that was never queued has no submission. `MessageAgreesWithJob`
  knows the second writer of `messages`: a row with the carrier's id belongs to a sent job,
  and its status is the job's or a delivery status; no other row is touched by it. `TerminalIsFinal` follows from
  the invariant of `AtMostOnceDelivery`: the worker that writes a row holds its claim,
  and a claimed row is `processing`.
* **`OutboundQueueProofs!GatesAndPauseHold`, `StopsAreObeyed`** (of `OutboundStops`;
  `FiniteWorkers`) — "while paused, no more submissions than runs that had begun" is not
  inductive, because a run in progress could submit again and again. `PauseInv` charges
  every run that may still submit (`Unsent`) one submission. That these are counted by
  `Cardinality` is why the set of workers has to be finite. `ClearedByGates` carries
  the verdict of the gates and the reservation from one step of the worker to the next;
  `StopInv` says that a stopped job is not past the gates while its stop is in force.
* **`WebhookIntakeProofs!ReceiptsTellTheTruth`, `ProcessedStaysProcessed`**
  (`IntakeAssumption`: finitely many keys and servers, at least one attempt) — `ServersKnow` and
  `WorkersKnow` say what a handler or the recovery worker may still rely on after
  each of its database calls: the event is stored, and it is the event of this receipt
  when the verdict is `accepted`. The counter is the difficult part: `CreditsAreCovered`
  counts the handlers that are about to add to it, `audit["accepted"] +
  Cardinality(Crediting) <= Cardinality(StoredKeys)`, and a handler joins them
  only in the step in which it stores the event.
* **`ReconcilerProofs!StatusIsNeverLost`, `DeliveryImplementsLatestWins`**
  (`EventAssumption`) — `LocksExclude` (the unique index and the row lock), `HandlersKnow`
  and `WorkersKnow` (what was read under the lock is so at the commit; only
  `known` may have turned true since the UPDATE that found no message) and
  `NewestOnTop`. The refinement maps the stored events to `accepted` and the state's
  source to `current`. Only `Commit` is a step of `LatestWins`; the reconciler stutters.
* **`ReconcilerProofs!OnlyRevokedAreQuarantined`** — `SyncSpec => []SyncQuarantinesRevoked`.
  `SnapshotIsPast`: what `sync_once()` has read of the enrollment rows as revoked is
  revoked in the ledger for ever (`RevocationsStay`), so a late post is still right. The
  other calls of the registration store keep a quarantine or lift it; none makes one
  in the synchronisation's name.
* **`VpnProofs!TunnelsFollowTheTable`, `EnrollmentImplementsLedger`** (`EnrBounds`) —
  `KeysAreUsedOnce`, what the open transaction has done outside the database
  (`Enrolling`, `Revoking`), and `ServedForGood`: a device nobody has tried to revoke has
  its block in the file, no later block claims its address, and the kernel has its peer.
  The middle part is what makes `Reboot` harmless. The ledger's steps are the two
  commits; a rolled-back transaction leaves the rows as they were.
* **`VpnProofs!RegistrationStaysStable`** (`NoRowAssumption`) — `RInv` adds that at most
  one policy is active; without it the creation of a policy could leave two.
* **`StoreProofs!TurnsStayAccounted`** (`TurnBounds`) — `KeysAgreeWithAudit` and
  `SameSize` tie the audit and the idempotency keys together, so that a key that is
  replayed can only get the row of its own handoff; `LivesAgree` keeps the rows of a
  conversation that was seeded again apart from the earlier ones.
* **`StoreProofs!SessionsStaySound`, `CallsNeverOverlap`** (`AuthBounds`) —
  `ConsumedOnce` covers also the sessions that are still being made (`BornFrom`), because two
  requests may stand between consuming an assertion and inserting the session, and
  `MakersAreAlone` says that nobody has their tokens yet. `CallsAreGuarded`: the guard's
  row is that of the call and is younger than the in-flight timeout. This uses
  `CallMax < InFlight`: otherwise a second `begin_action` may take the guard over while the
  first call goes on, and `finish_action` of the first releases the guard of the second.
* **`StoreProofs!ReloadsStayExact`** (`OpBounds`) — `KeysClaimed`, `ProcessesPassed` (a
  process that a reload replaced is gone, so the one that the broker is about to restart was
  never replaced), `RequestsAreTheirs` (what the broker serves under the number that
  a thread waits for is that thread's request, although others have hung up) and
  `AnswersAreEarned`.
* **`StoreProofs!RequestsAcceptedOnce`** — `PnSpec => []AcceptedOnce`, from
  `PnAssumption`. The inductive invariant `PnInv` adds what a request that waits for the lock was
  checked for (`ClaimsAreChecked`), and `AcceptedIsKnown`: the nonce of an accepted
  request is in the table with a time that is at most the skew before the request's
  timestamp, or the clock has passed every claim of it. A claim deletes a row
  only in the second case, because it deletes by the time it read before the lock.
* **`StoreProofs!TelegramsStaySound`** (`TelegraphAssumption`) — the events and the rows are
  compared through `Explains`, which is stronger than `EventsTellState`: it also says
  which events an absent and a queued row have. `OutcomesAreTrue` is about the workers: what
  one of them is about to write, perhaps long after its lease ran out and another took the
  telegram over, is true of the telegram and leaves it an attempt if it is to be sent again.
* **`HostFilesProofs!PromotionStaysSound`** (`ReleasesDiffer`) — `Forward` and `Undone`
  say, for every step of `promote()` and of its except branch, what has been done before
  it; `RunIsSound` that what `promote()` read at its start stays true. `StateIsTrue` is
  the property extended to the calls that only recheck a release that is current.
* **`HostFilesProofs!ActivationStaysReversible`** (`CookieBounds`) — the same for `apply()`,
  its except clause and `rollback()`: `ApplyIsOrdered`, `UndoIsOrdered`,
  `RollbackIsOrdered`. What they say of a failed `apply()` depends on `cmSwallowed`. The first also says that nothing is published before the backup is
  complete, and that the current-activation file is written last.
* **`HostFilesProofs!SuppressionStays`, `PilotStaysReversible`** (`PilotBounds`) — `LateIsHeld`: a
  request that came after a suppression does not pass the gateway's own look at the
  ledger, which never takes a suppression back. `PostedIsKnown` and `RollbackIsTold`
  connect the handler that outlives its execution with the record of that execution.
* **`HostFilesProofs!QuarantineStays`** — `FirstIngestAlone`: until the ingest that linked the
  blob has written the other two files there is no identifier, no scan and no state.
  `CarriedIsGenuine`: a verdict "clean" in a worker's hands is true, unless the blob was
  altered, which the worker will find before it records.
* **`HostFilesProofs!CommittedStaysThere`** (`RepoAssumption`) — `CreatedIsThere`: a branch is
  created once, so the process that did it still finds its commit when it records it.
* **`HostFilesProofs!SessionsStayAccounted`** (`CgAssumption`: a pool of at least one) —
  `UsesDiffer` (an id of a session is used by one thread at a time, and one message with it is on
  its way) and `ThreadsAreSound`: whatever is on its way for the id of a waiting
  thread is the thread's own message, because a session whose caller gave up leaves the
  pool before the id can be used in it again.
* **`HostFilesProofs!ApplyStaysAccountable`** (`StagedAssumption`: contents that are told
  apart are different) — the manifests that commands hold have to be true like those on disk
  (`ManifestIsTrue`), since a command writes back the copy it read at its start. They stay
  true because the facts they state only grow (`Grows`): approvals, snapshots, and
  files that are no longer the original. `SnapshotsAreOwn`: no two commands copy into one
  snapshot, and `CommandIsSound` says what each has copied and written so far.
* **`HostFilesProofs!SignInStaysAccountable`** (`SgAssumption`) — each part is stated of the
  dictionary in memory *and* of state.json, because a restart makes the second the first:
  `StepsUsedOnce` (an accepted step of the authenticator is at most the `last` on disk),
  `OriginsUsedOnce` (a code or a refresh token that became a pair, or is about to, is
  in no store), `TokensAreKept`, `FailuresAreCounted`.

* **`HostFilesProofs!RolloutStaysReversible`** — `MigrationIsOrdered` says for each step of the
  migration script which files are its own, what it found and what its rollback has put
  back; `ActivationOrdered` and `ManualOrdered` the same of the Apache script, the second only
  as long as no signal has come. `CopiesAreCurrent` is what the text
  comparison needs: the copy a running script restores has the administrator's latest edit.
  The two scripts share no file, so each invariant is kept by the other's steps. Without any
  condition the theorem says that the files that were there before stay and that the
  administrator's edits stay; the rest holds unless a command of the undoing failed.

* **`HostFilesProofs!EveryItemStaysOnce`** (`IngestAssumption`) — the ledger row is written with the
  article and never leaves, which gives `ItemsPostedOnce`. `ScanIsSound` is about the run
  that holds a scan: whatever its cursor will cover is dealt with or still in
  the batch, as long as upstream has not renumbered since. The cursor is written
  only when the batch is empty. `ScanFindsAll` shows that neither the scan limit nor the budget
  makes a scan pass over a wanted number: the loop stops at the number that fills
  the budget, and that number is the cursor.

An invariant that a proof adds was first checked by TLC on the component's instance. The
bounds on clocks, serials and runs that make the instances finite are constants
of the specifications, and the theorems hold for every value of them. What the code
fixes is fixed in the theorems too: the two services of a release, the three documents of
the pilot; two files stand for the lists of published and proposed files.

## 6. Only model-checked

* Liveness (`RecoveryEnds`, `EventuallyShown`, `EveryTelegramEnds`,
  and the leads-to parts of `RegistryFollows`): fairness and `ENABLED` are outside the
  prover's reach.

Every safety property of the passing runs has a theorem in section 5.

## 7. Left out

* Keyword texts, phone numbers, payloads, digests, policy lists and documents are
  constants or model values. `OutboundPolicy.evaluate` is the set `PolicyRefuses`.
* Signature verification, normalisation and the checks of forms and headers:
  cryptography and parsing, decided before the first modelled step.
* Read-only routes, exporters, inventories and report builders, which make up most
  of the repository's lines: they compute a document from facts and keep nothing
  between calls.
* Other installers and acceptance scripts: sequences of host commands, most of them
  without recovery code; those that undo their changes do it the way the two scripts
  of `RuntimeMigration` and `ApacheRoute` do.
* Protocol servers for NNTP and IRC: parsing over the store.
* Two controllers of `promote()` at the same time, and files that a crash leaves
  half-written where the reader is outside the repository (`wg-quick`).
* Operator actions on `processing` jobs and receipts: there is no code for them.

### Known windows without a property

The code leaves these open, no document denies them, and the models show or
exclude them as said:

* `app/persistence.py:70`: a STOP that arrives while an operator's suppression
  exists leaves no keyword row, so lifting that suppression lifts the STOP with it.
* `server/edge1_release_controller.py:479`: nothing locks out a second controller; the
  model runs one at a time. `:487`: after a death between the two restarts one
  service runs the old code, and a repeated `promote()` only rechecks and answers
  `already-current`.
* `deploy/edge1-vpn-enroll/overlay/edge1_vpn_enroll/core.py:174`: the WireGuard file is
  written in place; a death in the middle leaves it short.
* `server/edge1_security_auth_http_actions.py:15`: a logout after the authorization does
  not stop the action.
* `deploy/cookie_monster_edge1_activate.py:682`: a dataset that was prepared
  half-way is a conflict for every later preflight.
* `tools/ai_filesystem_connector/staged_proposals.py:507`: when an application that
  died is repeated, the rollback metadata names the later snapshot; the originals are
  in the earlier one (`OriginalKept`).
* `reference/telegraph_store_forward.py:173`: two processes may enqueue past `max_messages`.
* `server/edge1_comms/storage.py:42`: an article whose header is refused stops every later
  run at the same place.
* `app/quarantine_storage.py:195`: a death between the three files leaves a blob that
  every later ingest reports as an incomplete duplicate; nothing is released.
* `deploy/messaging/activate-outbound-mail-phase-b2-apache.sh:331`: the trap of the manual
  rollback does not exit. A TERM or HUP between two commands puts the activated files back and
  the script goes on, so that it can report `rollback_state restored` with the include line,
  or the whole route, in place (`EndsAsReported` exempts rollbacks that took a
  signal). `:415`: a signal between the fragment and `MUTATION_STARTED` leaves the
  fragment, which nothing includes and which every later activation refuses. `:250`: the
  restore runs as a condition, where `set -e` is off, and its result is that of
  `is-active` alone: a failing `cp` or `rm` is followed by the reload and by
  `automatic_rollback=pass`. `:325`: the manual rollback's trap ignores a copy that fails.
  Both leave the virtual host old, new or half a copy (`arTrouble`).
* `deploy/messaging/install-outbound-mail-disabled-runtime-migration.sh:312`: `rollback()`
  runs under `set +e`. A failing restore of the drop-in, `daemon-reload`, restart or move
  is ignored, `rollback_executed yes` is recorded all the same, and the runtime entry point
  may go on running while its files are moved aside (`rmTrouble`).
  `docs/messaging-operations/outbound-mail-disabled-runtime-migration-20260804.md:157` and
  `outbound-mail-phase-b2-apache-activation-20260801.md:71` beside it describe the rollbacks
  without failures of their own.
* `deploy/cookie_monster_edge1_activate.py:530`: `publish()` ignores a publisher rollback
  that fails. The except clause restores the registry and the job only, the published files
  stay half-written, and `activation-state.json` does not name the publisher backup, so that
  a later `rollback()` does not restore them either; an operator has to run the publisher's
  `--rollback`. `:742`: the except clause ends silently when one of its own restores fails.
* `server/edge1_security_auth_http_actions.py:45`: `finish_action` follows the call, which
  the client ends after 15 seconds. `config/edge1-operations-allowlist.json:34` allows
  `security.validate_config` 300 seconds, so that the operation of a session may overlap its
  next one. What is modelled and proved is that the *calls* do not overlap.
* `tools/bigbird_repository_controller.py:345`: a process killed between `update-ref` and its
  record leaves a branch without one; the retry is refused.
* `server/business159_claude_gateway.py:391`: `reap()` lists under the lock and
  drops afterwards, also a session that was used in between.
* `server/edge1_operator_privileged_broker.py:193`: the process checked and the process
  restarted can differ when systemd restarts it in between.

## 8. Plan

1. Done: all modules of section 2; the proofs of section 5, which cover every safety
   property of the passing runs.
2. Next proofs: that `VpnSync`'s ledger, which stands for `VpnEnrollment`, may be replaced by it
   in `OnlyRevokedAreQuarantined`; the git cursor of `CommsIngest` under the restriction that
   nothing is pushed between the two resolutions of the ref.
3. Next models: the installer of the release controller, the request nonces of the Operations API, the directory journal of the
   telegraph reference, camera enrollment, portability cases.
4. Next compositions: `Consent` with `OutboundQueue` through `suppressions`;
   `DeliveryStatus` with `OutboundQueue` through `messages`.
