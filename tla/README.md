# Verification of the managed directory

A TLA+ model of the RustDesk managed directory (`src/directory-api/`): the API that enrolls devices,
lets operators approve and shut them out, leases relay access to them and has passports issued to
them. Every definition names the code it stands for in `PROJECT.json` under `map`.

## The system

| Part | State | Operations |
|---|---|---|
| Device lifecycle (`app/main.py`, `app/admin_ui.py`, migrations 003, 016, 018, 022) | `managed_devices`: status, RustDesk id, public key, name, poll token | enroll, poll, approve, deny, block, revoke, delete; triggers that re-check the operator and withdraw what a decision ends |
| Device credentials | `device_credentials`, signed JWTs held by clients | issue at approval, sign at poll, validate at each device request, revoke |
| Re-enrollment (`app/main.py`, `app/security_extension.py`) | authorizations by Owners, requests by clients | request, authorize, complete, enroll again, expire |
| Enrollment secrets | secrets with a use limit; attempts per address | create, revoke, use; rate limit |
| Relay access | `relay_access_leases`; nftables allow set | lease; `rustdesk-relay-guard-sync` copies usable leases into the firewall every two seconds |
| Passports | `ca_jobs`, `device_passports`, identity keys; the signer's `devices.json`, nonces and log on the CA machine | queue, hand out, sign or refuse, take answers, redeliver |
| Heartbeat, presence, session telemetry | last seen, names, sessions | heartbeat, session start, update and end |
| Operator accounts | accounts, roles, lockout, sessions and refresh tokens, invitations, role changes, access resets | login, refresh, invite, disable, enable, delete, unlock, request and complete a role change, reset |
| RustDrop (`app/rustdrop.py`) | `filedrop_drops`, registrations, transfer events; the blobs on a storage VM | register, create, upload in parts or whole, download, complete, decline, sweep |
| Managed chat (`app/managed_chat.py`) | conversations, messages, receipts; one socket per device in memory | send, connect, drain, fetch, acknowledge, age out |
| Edge certificates (`app/edge_certs.py`) | `edge_client_certs`; the certificates at Cloudflare | issue, replace, revoke by block or by the holder |
| Device sync and logs (`app/device_sync.py`, `app/device_logs.py`) | versions derived from the tables, a cached fingerprint; a request flag per device | heartbeat reply, long poll, fetch, request and upload of a log |
| Sealed transport (`app/sealed.py`) | `sealed_replay`; networks, observations, alerts | open and claim an envelope, purge; gate, classify, alert, the Owner's decisions |
| Health alerts (`app/mobile_api.py`) | `health_alert_state` | report, push, mail |
| Lists for hbbs (`deploy/sbin/rustdesk-approved-ids-sync`) | three files read by hbbs | query and replace each, once a minute |
| Host services (`deploy/sbin`) | files, firewall | health collector, backup and verification, bundle publishing, bootstrap and recovery |
| hbbs and hbbr (`src/src`) | peer map, relay pairs | register, punch, relay; upstream code with local checks |

The API is one uvicorn process over one PostgreSQL database. Its plain handlers run in the threads of
a pool, the asynchronous ones on the event loop, so requests overlap between any two transactions, and
the scripts of the host use the same database. A request is **authenticated in one transaction and
performed in another**; between the two anything else can commit: a block, a role change, a
re-enrollment. Rows are locked (`FOR UPDATE`) inside each transaction, and triggers
repeat the decisive checks. Outside the database, the relay guard and the passport signer act on
copies: one polls, the other is handed jobs over a link that can lose or repeat them, and both are
restarted by systemd wherever they died.

What is hard to test here, and what makes each part correct:

* *Lifecycle*: a decision performed late must not undo a newer one; access must exist exactly while
  a device is approved; revocation is final; a grant to return is used once and does not survive a
  later block; ids, keys and names stay unique.
* *Relay*: a lease written for an old approval must not open the firewall for a new one; a revoked
  device must end outside; a mode change must arrive in spite of failures.
* *Passports*: RDS alone decides a device's key; a signed request is used once; a shut-out device
  is not signed for; every job is answered.
* *Operators*: an Owner always remains; a lost role or session loses its power at once.
* *RustDrop*: two machines without a common transaction; what is offered has its file, every drop
  goes in the end, its blob with it, and a revoked device can then be deleted.
* *Chat*: a message sent while its recipient connects, reconnects or is drained falls into no gap.
* *Edge certificates*: Cloudflare and the table must not disagree in the dangerous direction.
* *Sync*: a stale fingerprint stored late must not hide a change for good; a requested log arrives.
* *Sealed calls*: a call runs once although replay entries are purged; a slow classification does not
  undo the Owner's decision; a claim of interception opens nothing; newcomers are announced.
* *Alerts and lists*: overlapping reports add up; hbbs never falls back and catches up.

`PROJECT.json` lists these hazards at the lines where they bite. Others that were met and that no
property covers:

* the heartbeat's rename checks for a collision before it updates (`main.py:4389`), so a name taken in
  between aborts the heartbeat; the limit of two waiting passport requests is counted without a lock
  (`main.py:4771`); deleting a device deletes its queued revoke job (migration 045);
* the row a gate inserts for an address may be more specific than a decision about its block that came
  in between (`sealed.py:496`); a device without a certificate is refused on an approved network before
  the call that would fetch one (`sealed.py:562`);
* the version of the drops is the latest time in their rows, to the millisecond and taken when the
  transaction began: a deletion, a second write in one millisecond, or a commit behind one that began
  later does not move it (`device_sync.py:112`); a log that was packed before the Owner asked clears the request
  (`device_logs.py:131`);
* push tokens of disabled operators stay until Firebase rejects them (`mobile_api.py:203`); the key
  exchange cannot be turned off while a device needs it, but such a device can be approved afterwards
  (`main.py:7957`).

## Modules

| Module | Stands for |
|---|---|
| `ManagedAccess` | The promise about a device: statuses, access, one-shot permission to return. No requests, tables or clock. |
| `DeviceLifecycle` | The tables, handlers, triggers and expiries behind it. Implements `ManagedAccess` (`KeepsPromise`). |
| `RelayGuard` | The firewall daemon, composed with `DeviceLifecycle`. |
| `Passport` | Queue, link and signer for one device, over `ManagedAccess`. |
| `OperatorAccounts` | Operator accounts, sessions, role changes, recovery links and the emergency script. |
| `RustDrop`, `ManagedChat`, `EdgeCerts`, `DeviceSync`, `SealedTransport`, `InspectedNetworks`, `HealthAlerts`, `RendezvousLists` | The services for approved devices, one module each. |
| `DeviceServices` | Those services side by side. |
| `DeviceLifecycleProofs` (with `RelayGuard`), `PassportProofs`, `OperatorAccountsProofs`, `RustDropProofs`, `ManagedChatProofs`, `EdgeCertsProofs`, `SealedTransportProofs` (with `InspectedNetworks`), `DeviceServicesProofs` (alerts, lists, sync and the composition) | Theorems. |
| `MC...` | Symmetry sets and constraints for TLC; the `.cfg` files give the constants values. |

### DeviceLifecycle

One variable per column or table that a property tells apart. `status` is `absent` before the row
is inserted and `deleted` after. `poll` is the poll token: the key it was handed out for, whether
some client received it (the response may be lost), whether it is unexpired. `issued` and `live`
are the credentials, by serial; `signed` the JWTs that left the server. `auths` and `request` are
the two sides of a re-enrollment. `opReq` and `devReq` hold the requests that have been
authenticated and not yet performed: `OperatorRequest` and `DeviceRequest` put them there, the
handler takes them out in a later step, re-checking exactly what its own transaction and the
triggers re-check, no more. Every handler is one action, because it is one transaction over locked
rows; the exception is the dashboard's approve button, which checks the status in a transaction of
its own (`DashboardApproveCheck`) before it calls `approve_device`.

Left out: audit events, texts, timestamps (a lifetime is "fresh or not", and an `Expire...` action
may end it at any time). Credentials never expire because nothing in the code sets their
`expires_at`. Two lease requests of one device are serialised. The heartbeat's check of a new name
and the update are one step; the unique index decides that race.

### RelayGuard

The loop is split where it can be interrupted: read the mode (and delete the table when it must be
reinstalled), create the table, query, load. A failing query yields no rows, as in the script. The
environment stops the database, flushes the table and restarts the daemon; every restart forgets the
mode file. `leased` is a history variable for `AdmitsOnlyCurrentLeases`.

### Passport

`job` is `ca_jobs`; `get_jobs` hands out everything waiting and `Overdue` makes a job waiting again
after `REDELIVER_AFTER`. `batch`, `results` and `wire` are jobs and answers between RDS and the
signer. The signer's record exists twice, `mem` and `disk`, because the code changes the former
before it writes the latter. A nonce stands for one signed request. `MaxFaults` bounds lost batches
and answers, redelivery of a job still in hand, failed writes and restarts; `MaxJobs` the queue.
`post_results` handles the answers of one post in one transaction (`landed`). `ShutOut` queues the
revoke job in a savepoint, and a block or revocation stands although that failed (`main.py:4175`): this
is one of the faults, and `unqueued` remembers it, so that `passport_repeat_revoked` is about a revoke
that was queued.

Left out: cryptography (a signature names the key that made it), issuing-key rotation, mail, the
`import` command, the issuance log's hash chain. The signer's hourly limit is a refusal that may
happen at any issue or renewal. Passport mode is a free choice where the code reads it, since it can
be switched at any time. A batch of at most 50 jobs is "all that wait", and an id mismatch cannot
arise because a row's RustDesk id never changes. One passport request of the device is in flight at
a time.

### OperatorAccounts

`life`, `role`, `pwd`, `totp`, `fails` and `locked` are the account row; a password or authenticator
is named by where it came from (the first one, a recovery link, the emergency script), so that a
session can record what its sign-in was checked against. `req` holds the Owners with an
authenticated request: `RequireOwner` puts one in, and the request is performed later without
another look at the session, as in the code. An Owner may have several in flight, so he stays in
`req` until `RequestEnds`.

A handler that decides on rows it holds is one action. Completing a role change is three, because
the triggers of migrations 007 and 013 read other Owners' rows. `RowFree` and `ApplyComplete` state
the locks: the target is held `FOR UPDATE` from the first statement; the foreign key `completed_by`
takes the completer's row `FOR KEY SHARE`, before the apply trigger runs (the constraint's trigger
sorts first by name). The emergency script's plain `UPDATE` waits for the former only.

Time is a state that lapses: a session ages and then idles out or expires, a lockout runs out, a link
or request expires. Idle and expired are different: the idle timeout is read at every check, and when
`SetIdleTimeout` raises it, an idle session that nobody revoked counts again. Left out: mail, e-mail addresses, the rate limits, the login audit, the dashboard
cookie's own inactivity token. The failure count stops at the limit, where its value no longer
matters. The bootstrap of the first Owner is the initial state.

### RustDrop

`row` is `filedrop_drops`, `blob` the parts the storage VM holds. A request reads its row, talks to
the storage VM and writes the row in separate steps: `call` holds what it goes on to do and the status
it read. Handlers on the event loop wait for the sweep's transaction (`LoopFree`); the others run in
threads. `ttl` and `stuck` are the two clocks of the sweep. A download from the first byte renews the
former, as often as it is asked for: the code keeps no count and neither does the model. `standing` lets a party be revoked and
deleted: deletion fails while a row refers to the device.

### ManagedChat

One event loop with blocking database calls, so an action is what runs between two awaits. A socket
whose link is `dead` is down without the server knowing: a write to it may raise or vanish.
`message`, `connection` and `pushing` are the mailbox, the registry of sockets and the writes under
way. The acknowledgment after a push is a transaction of its own that may fail and leave a message
that has arrived in the mailbox (`PushEnds`). `chatFaults` counts whatever loses a connection, an
answer or a transaction.

### EdgeCerts

`cert` holds both sides of a certificate, the row and the state at Cloudflare. A request in progress
(`task`) signs, records and revokes in separate steps, and the database sees nothing of it until it
commits. An issue is authenticated in one step (`BeginIssue`) and reads the device's certificates in
the next (`ReadCerts`), without another look at its status; `late` and `crossed` remember that a block
overtook it. `Blocking` and `Recording` are the locks that a block and a record have on the device's row.

### DeviceSync

One client with the versions it holds, what it is about to fetch and what it shows. The cached
fingerprint is computed in one step and stored in another, so that an old value may replace a newer
one. The directory's version is a hash of its content, so it is the content here, which may change
back. A drop's times are those at which its transaction began (`DropBegins`); it commits later, in any
order (`DropWritten`). `recurred` remembers the keys with a change that led to no new version. The log
request is a version the client acts on without fetching.

### SealedTransport and InspectedNetworks

The first has the replay window: envelopes whose timestamp may be wrong either way, any number of
copies, the check of the timestamp and the claim apart by up to `ClaimDelay`, and the purge. The
second has the gate for inspected calls: the lookup and the insert of a network, the observation,
classification and alerts as tasks that a restart or an exception loses (`NetRestart`, `WorkFails`;
`lost` remembers for which device), and the Owner's decisions for an address or
its block. Encryption is perfect and the inner call opaque.

### HealthAlerts and RendezvousLists

`RecordLocked` is a report that finds its row and locks it; without a row there is nothing to lock,
hence `FindNoRow` and `UpsertFirst`. `RendezvousLists` is the script with its three files. It reads
the settings one query at a time (`ReadSetting`), while the API may change several in one transaction
(`ChangeSettings`); any query and any write may fail, and a temporary file that cannot be made ends
the script.

`DeviceServices` composes the eight. They share a process and no state that these models tell apart,
so TLC follows one at a time with the others in their initial state, instead of their product.

## Model checking

Runs with `expect: pass`:

| Run | Instance | Shows |
|---|---|---|
| `device_races` | 1 device, 2 keys, 1 Owner, 2 operator requests and 1 device request in flight, 2 approvals, 2 uses of the secret | Credentials, poll tokens, authorizations and revocation are right under every interleaving and expiry, and the whole implements `ManagedAccess` |
| `device_rows` | 2 devices, ids and keys, one name; or 1 device and 2 operators whose roles and activity change | No shared id, key or reserved name; a return uses up an authorization of someone who is an active Owner at that step |
| `relay_guard` | 1 device, 2 approvals, one table loss or restart, any number of outages | The four relay properties, three of them under fairness |
| `passports_faults` | 3 jobs and 1 fault of any kind, or 4 jobs and none | Two-box rule, no replay; without faults a shut-out device ends shut out at the signer |
| `passports_live` | 2 jobs, 1 fault | Every job is answered |
| `accounts` | 1 protected Owner, 1 username to invite, 2 sessions of either scope; 1 role change and lockout after 2 failures, or 2 links; emergency script. Or 2 Owners and a Manager with 2 role changes | Sessions match their accounts; none comes back after expiry or revocation, an idle one only with a longer timeout; one open link; deletion leaves nothing usable; an Owner remains; Owner is given and taken only by verified requests |
| `services` | 1 drop of 2 parts, 2 devices, 2 calls, 1 fault; 1 message, 2 sockets, 2 faults; 2 certificates and 2 requests, 2 faults; 1 drop to sync, 3 contents of the directory, 2 changes, 1 client restart; 1 envelope, 2 copies, times in units of 5 minutes; 2 networks of one block, 2 calls; 4 reports by 2 watchers; 2 ids, 2 settings, 3 changes, 2 failures | What is offered has its file and everything drains; no gap in chat; Cloudflare and the table agree; clients, logs and hbbs catch up; sealed calls run once; the Owner's decisions stand; alerts add up |

Bounds: two approvals are what a lease, credential or token of an earlier one needs to meet a later
one; two requests in flight are two decisions racing; two keys are a key and its replacement. A
second device matters only where rows compete (identities), because nothing else relates two rows.
Four passport jobs are two rounds of approving and shutting out. Two role changes are two Owners
removing each other, or a stale request behind a promotion; two links are a reset and the one that
replaces it. Deadlock is not checked because
every instance ends when its bounds are used up. The constraints in the MC modules remove parts of
the state that the run's properties do not depend on, and where a run asks two independent questions
("or" in the table) they keep each part small by not mixing them. What `accounts` does not mix,
links and role changes of one account, the theorems about `OperatorAccounts` cover. In
`MCRelayGuard`, whose run checks liveness, no step of the daemon or of the kernel leaves the
constraint, so no fair behaviour of the daemon is cut short.

In `services`, two calls about one drop are what overlaps; two sockets are a connection and the one
that replaces it; two copies of an envelope are a delivery and its replay, `Stamps` lie before and
after the clock, and `MaxTime` goes beyond retention. Two settings are what a change of several needs
to fall between two reads; three contents are a directory that changes to something new, or back. One
of the two devices may be revoked and deleted. `RegistrationsStay` stops registrations from ageing once
the drop exists: from then on they only matter for starting the sweep, which the registered may do
too, and no fair action ends one. `OneAtATime` looks at a device's policy, its certificate, restarts,
failures and repeated alerts with one call and one network, at two overlapping calls with one network,
and at two networks of one block with one call; no action of that module is fair, so it cuts no fair
behaviour short, and the theorems about `InspectedNetworks` have no such limit. One drop and one message are enough for what the properties say of
each by itself; batches of several are within the theorems. Not both devices may
leave: the sweep starts with a registration, so after a restart of the API without any approved device
left the remaining drops would stay.

Runs with `expect: violation`, each about a sentence of the code base that the code does not keep:

* `dashboard_approve_race`: "Denied clients cannot be approved directly" (`app/admin_ui.py`). A
  denial that commits between the dashboard's check and `approve_device` is overridden.
* `passport_repeat_revoked`: "the CA VM treats repeats safely" (`app/ca_link.py`). An approve job
  whose first delivery is lost comes again after the revoke job behind it; the signer takes it as a
  fresh approval, and RDS stores the passport of a revoked device.
* `passport_keys`: `get_device_passport` returns "which identity key the CA has on file"
  (`app/main.py`). A key update still queued when the device is blocked, re-enrolled with another key
  and approved again leaves RDS with the updated key and the signer with the re-enrolled one. No
  failure is needed. A failed write at the signer, or a lost answer to a key update, has the same
  effect.

* `account_links`: an account without an authenticator "must finish the reset's one-time /ops/recover
  link, which enrolls the new authenticator" (`app/main.py`). A password-only reset after an
  authenticator-only one revokes the link that would enroll it and leaves one that asks for a code of
  the authenticator that is gone. Another reset by an Owner is needed.
* `account_recovery`: "Use normal Owner-to-Owner access recovery when multiple Owners exist"
  (`rustdesk-owner-emergency-recovery`). A resets B and C; a completion that B had authenticated
  before demotes A; the links lapse. Two Owners remain, neither can sign in, and the script, which
  wants exactly one, refuses.

Other things the code does are described by a hazard and by an exception that a property states, and
the property shows that nothing else goes wrong:

* A device with a recorded transfer can never be deleted, because `filedrop_transfer_events` (migration
  039) refers to it without `ON DELETE` and is never emptied. Migration 029 calls the same thing a
  defect for chat messages (`RevokedCanGo`).
* A drop is not removed while its recipient asks for its first byte again and again. The comment at
  `rustdrop.py:787` wants to prevent exactly that, "a drop be kept alive forever via repeated tiny range
  requests", but `bytes=0-0` is such a request and renews. It also holds up the deletion of the drop's
  revoked sender (`DropsDrain`, `RevokedCanGo`).
* A certificate request that was authenticated before a block leaves the blocked device a certificate
  that works, although `edge_certs.py:11` says that blocking or revoking a device revokes its
  certificates (`BlockedHasNoCert`).
* A network alert is lost when its background work raises or the API restarts, since the gate has
  marked the device as alerted before (`NewcomersAlerted`).
* hbbs may get some settings from before a change and others from after it. Each is one that RDS had,
  never a default taken for an unreadable one, and the next run corrects the mix (`NeverFallsBack`,
  `ListsCatchUp`).
* A client may go on showing a directory that was changed back, or drops whose version did not move
  (`SyncConverges`).

Fairness. `RelayGuard`: the daemon's loop (systemd restarts it) and the kernel's element timeout;
nothing about the database, which `ModeApplied` and `LeaseAdmitted` take as a hypothesis. `Passport`:
the signer polls, works and posts in an endless loop, RDS takes what arrives, and time passes, so a
job that stays out becomes overdue. `RustDrop`: time passes, the event loop runs the sweep, a request
that was let in ends with an answer or an error, and while there are drops some client registers,
which starts the sweep after a restart of the API. `DeviceSync`: the client polls, fetches and uploads,
and the cache ages. `RendezvousLists`: the timer runs the script. In the composition no fair action is
enabled in the initial state of its service, so a service that TLC does not follow is not asked to
move. Faults are never fair.

## Proofs

TLAPS proves, for every value of the constants, every invariant and every action property that the
passing runs check. Assumed of the constants: `None`, `NoNet` and the like are none of the values
they stand beside, the first Owner is an operator, the default and the first mode are modes, the
bounds are naturals, and the sets that something is counted over (addresses in a block, health
reports under way) are finite. TLC evaluates the assumptions on each run.

The directory:

* `TypeCorrect` and `CredentialsSound`. `ApprovedIffCredentialed` and `CredentialBoundToKey` are not
  inductive alone: a re-enrollment changes the key, so the second needs that nothing is live outside
  approval, and a signed credential is for the key on file only if the poll token that fetched it
  was. `CredentialsConsistent` is their conjunction with `PollTokenBoundToKey`.
* `GrantsSound`. `GrantsConsistent` joins the three facts about authorizations; an insertion, a return or a
  block brings no older grant with it because grants belong to rows that are not revoked.
* `RevocationIsTerminal`: by cases over the handlers, from types alone. It holds for requests
  authenticated at any time before, since the guards are those of the performing transaction.
* `ImplementsManagedAccess`: initial states and steps map, with access and grants read off the tables.
  The step lemma uses `CredentialsConsistent` (approval gives exactly one credential) and
  `GrantsConsistent` (using up an authorization leaves none).
* `IdentitiesUnique`: `UniqueIdentities` is inductive, because every handler that writes an id, a key
  or a name, or makes a row reserve its name again, checks the other rows in the same transaction.
* `ReturnsUseAGrant` (`ReturnConsumesOwnerGrant`): by cases over the handlers; only the two that end
  in `ReturnToPending` lead back, and both look the Owner up in the same transaction.
* `GuardAdmitsCurrentLeases` (`AdmitsOnlyCurrentLeases`), about `RelayGuard`. `UsableLeased`, that a
  usable lease belongs to a device granted one under its present approval, is what the query relies
  on. It survives an approval because leases, and authenticated requests for them, carry serials that
  were issued (`SerialsIssued`) and a new approval issues a larger one; that a credential is live only
  under an approval is `CredentialsConsistent`.

Passports:

* `PassportTypes`: `TypeOK` with `JobsCarry`. That the signer's record always has a key rests on jobs
  carrying one, which rests on rows having one from enrollment to deletion.
* `KeysComeFromTheDirectory` (`TwoBoxRule`) and `RequestsUsedOnce` (`NoReplay`), for any number of
  faults. The latter's invariant `ReplayInv` says that the nonce of an answered request is in memory
  *and* on disk until the request is too old, which is what a restart needs, and that the jobs in
  hand have distinct ids, none answered.
* `ShutOutArrives` (`ReliableShutOut`). `RevokeComesLast` says that for a device that is shut out a
  revoke is due while the signer holds it as approved, and one is due behind every passport that is
  due. The signer takes the oldest job first, so the last word is the revoke. `InOrder` is what makes
  "oldest" meaningful between queue and signer: without a fault, whatever is in hand is older than
  what waits, and no job handed out is forgotten. A lost answer breaks the second half, and
  `passport_repeat_revoked` shows what follows.

Operators:

* `OwnerAlwaysRemains`, for any number of concurrent completions. `LocksSound` is the argument: the
  completer of an applied change is an active Owner and not its target, and nobody changes his row
  until the commit. So whoever commits leaves himself as an Owner, whatever the last-Owner trigger
  read.
* `OwnersChangeVerified`, from `ChangesSound`: one open request per target, and an unverified one only
  where Owner is neither the role now nor the role asked for.
* `AccountTypes`, `SessionsStayCurrent` and `SessionsNeverRevive`: the second is inductive, the third
  follows from it because an account is disabled only together with its sessions. It allows one way
  back, from idle, in the step that raises the timeout.
* `LinksReplaceEachOther` and `DeletionIsFinal`. The latter's `LiveOwners` says that usable links and
  open requests belong to accounts that exist. The assumptions on constants are that the Owners and
  Managers at the start are accounts, that one is an Owner, that `None` is none of the other values
  and that the lockout limit is positive.

Services:

* `NoReplayedCall` and `SealedTypesCorrect`, for every skew, retention and delay with
  `2 * Skew + ClaimDelay <= Retention`. `ClaimedOnce` says that an envelope that ran or is claimed is
  *shut*: it has an entry, or every successful check is too long ago. It survives the purge because a
  claim is made at most `Skew` before the timestamp (`ClaimsTimely`) and a copy still to be claimed was
  checked at most `Skew` after it and `ClaimDelay` ago (`CopiesTimely`). With `PurgeEarly`, which
  forgets after one side of the window, TLC finds a replay.
* `RevocationsReachEdge`, for any number of overlapping requests and failures. `DoneAtEdge` is the
  strengthening: what a request counts as revoked, Cloudflare refuses before the rows are written.

* `LiveCertsOnFile` and `BlockedCertsRevoked`, on top of it. The first needs that only a request that
  issues, and only once it has signed, holds a new certificate (`TaskShape`). The second needs that a
  block has still to revoke every live certificate of its device that no other request is about to
  record (`BlockCovers`), that a request of a device no longer approved counts as overtaken, and that the lock on the device's row keeps recording and blocking apart
  (`BlockExcludesRecording`).
* `OffersHaveFiles`, `BlobsReclaimed` and `DropTypes`. Table and storage VM share no transaction; what
  ties them together is what requests in flight and the sweep know (`CallsRight`, `SweepRight`): a
  request about to complete or deliver has seen the whole file arrive, and nothing erases a blob
  before its row is gone.
* `NoMessageLeftBehind` (`NoGap`) and `PurgedWasDelivered` (`ReliableDelivery`). `NoGap` is not
  inductive, since a write to a replaced socket may fail while the new one is up. `PushesToRegistered`
  excludes it: a message that waits for a connected device is being written to the socket that is
  registered, because registering another drains the mailbox, or has arrived and its acknowledgment
  failed. Until the first fault a handler that
  drains owns the registered socket and that socket is up (`FaultFree`).
* `NewcomersAreAlerted`, `DecisionsStand` and `ClaimsAreNoWayAround`, for any networks, addresses and
  calls. `RowsOfObserved` says that every network something was observed on is on file;
  `OwnerDecides`, that a network the Owner decided about is approved or denied; `GatedClaims`, that a
  call that waits for the gate's decision claims interception, comes from an address, and has a device
  or is a bootstrap call that needs none. That a
  most specific network exists is proved from the finiteness of a block.
* `EveryChangeToldOnce` (`MailsAddUp`) and `AlertTypes`, by counting the reports under way (`Counted`).
* `SettingsNeverFallBack`, setting by setting. The script holds only values that RDS had when they were
  read (`ReadOnce`), so each one it writes later is one RDS had for that setting.
* `ServicesKeepApart`: `ServicesSpec` implies the specification of each of the eight services. The
  theorems above are about the single services; this one carries them over to the composition whose
  run checks the same properties. `ServicesTypes` (`ServicesTypeOK`) is such a consequence; for
  `DeviceSync` it needs that the latest write of a bounded set of drops exists (`BoundedMax`).

Only model-checked: what rests on fairness, since liveness and ENABLED are beyond the prover. These
are `RevokedShutOut`, `ModeApplied`, `LeaseAdmitted`, `JobsAnswered`, `DropsDrain`, `RevokedCanGo`,
`SyncConverges`, `LogArrives` and `ListsCatchUp`. The five runs that expect a violation stay with TLC,
which finds the counterexample.

## Plan

1. Safety parts of the liveness properties as theorems: that a job in hand can always be answered,
   that what the sweep holds is due, that a client whose versions are current shows what is there.
2. The choice among enrollment secrets, the rate limits; presence and session telemetry, with the
   rename split from its check.
3. The pairing of hbbr and the peer map of hbbs; the publication step of backups.

## Not modelled

Rendering and translation of pages, which is most of `admin_ui.py`; single-row settings, SMTP and
update manifests (one write each, no protocol); push tokens and push delivery; host measurements;
encryption itself; the desktop service manager, a GUI that starts and stops two programs. hbbs and
hbbr are upstream code. `PROJECT.json` gives the reason for each part.
