# Verification of the Hysteria2 panel

This directory holds TLA+ models of the panel in this repository, the TLC
configurations that check them on small instances, and theorems about them with
proofs that TLAPS checks. Everything is written from the code; where a comment or
a document says something else, the code is what is modelled.

| file | what it is |
| --- | --- |
| `X.tla` | the specification of one component, with its properties |
| `MCX.tla`, `*.cfg` | instances of it for TLC |
| `XProof.tla`, `XRefinement.tla` | theorems about it and their proofs |
| `PROJECT.json` | components, runs, mutants, the map to the source, hazards, theorems |

To check a run: `tlc -config node_agent.cfg MCNodeAccounting.tla`; to check the
proofs: `tlapm NodeAccountingProof.tla`.

A definition whose name contains `Mut` is a faulty version of the definition that
follows it (a dropped guard, a missing step, a wrong order). No specification uses
it; with it in place of the real one TLC refutes the property that PROJECT.json
names, which shows that the property depends on that piece of code.

# 1. The system

One *central* host runs the panel (`src/hysteria2_panel.py`, package `src/hy2panel/`),
one or two Hysteria 2 servers, and a SQLite database. Any number of *data nodes* run
an agent (`src/node_agent.py`) beside their own Hysteria servers. Users connect to any
server; every server asks its panel or agent whether a user may connect, and counts the
user's traffic, which must reach the panel's totals exactly once. Root-only oneshot
services (restore, update, egress switch) change the installation under a maintenance
lock, and `src/install.sh` installs, upgrades and removes all of it.

## Components

### Node traffic pipeline (`src/node_agent.py`, `src/hy2panel/distributed.py`, ledger in `src/hysteria2_panel.py`)

* State: the cumulative collector's checkpoint (baselines and pending batches, one JSON
  file), the spool (one file per batch, staged files before their rename),
  `ProtocolState` (snapshot sequence, time of the last traffic ACK), the panel's
  `node_traffic_batches` (ids already applied), the user and node totals,
  `node_online_snapshots`, `node_usage_checkpoints`.
* Operations: read counters, record the delta, move it to the spool, send a control
  cycle, apply batches, accept an online snapshot, acknowledge, delete, refresh.
* Hard: two machines, three files and a database, none of which share a transaction;
  crash between any two writes; requests lost, late, or executed concurrently with their
  retry; ledger rows that are deleted while batches can still be retried.
* Correct when: no traffic is counted twice, nothing recorded is lost, the online picture
  never goes back, and an answer called complete really is.
* Modelled by `NodeAccounting`, `TrafficLedger`.

### Node control: enrolment, lifecycle, commands (`src/hysteria2_panel.py`, `src/hy2panel/nodes.py`, `src/node_agent.py`)

* State: `managed_nodes` (pairing state, lifecycle, counters of security generations), enrolments,
  nonces, `node_commands`, the agent's record of completed commands.
* Operations: enrol, claim and fetch a data-plane configuration, heartbeat, drain, stop,
  resume, disconnect, archive, queue / poll / acknowledge a command, uninstall.
* Hard: a command is executed on another machine and its acknowledgement may be lost;
  lifecycle steps wait for an online list that is itself delayed; a machine becomes a node in a
  dozen steps of two programs, any of which can be interrupted.
* Correct when: a command has its effect although it is delivered again, a node is stopped
  only after its traffic is settled, and a stopped node admits nobody; a node that subscriptions
  name serves, and a revoked one is not named.
* Modelled by `NodeControl` (lifecycle, commands) and `NodeOnboarding` (enrolment, bootstrap).

### Admission on nodes and on the panel host (`authorize_distributed_node`, `authorize_local_participant`)

* State: `node_auth_decisions` (reservations that no snapshot has absorbed yet), the online
  snapshots, user limits, the local live cache and leases.
* Operations: authorise a login, absorb reservations when a snapshot arrives, expire them,
  kick a user whose limits changed.
* Hard: the number of devices in use is known only through snapshots that are seconds old
  and from several machines; a retried decision must not reserve a second device.
* Correct when: the device limit is kept across machines and a security change is followed
  by the disconnection of the sessions admitted before it.
* Modelled by `DeviceAdmission` (the device limit; kicks on nodes are in `NodeControl`).

### Local accounting (`src/hy2panel/accounting.py`, `UsageManager`)

* State: `local-traffic.cumulative.json`, `pending-traffic.json`, cached batch, the live online
  cache, the `_quiescing` flag, batch ledger `applied_traffic_batches`.
* Operations: collect, journal, apply, remove the journal, reset a user, answer an
  authorisation.
* Hard: the journal has two writers (the panel and a root maintenance task that takes over
  the collection lock between two uses of the panel's cache).
* Correct when: a batch is applied once whoever finds it, and a limit or reset takes effect
  between two collections and not inside one.
* Modelled by `LocalAccounting`.

### Restore transaction (`BackupManager`, `restore_pending`, `recover_restore_files`, `resume_after_restore`)

* State: uploaded archive (pending, captured, consumed), marker `.restore-active` with its
  phase, database, certificate, key and environment, automatic backup, services.
* Operations: stage, queue, settle traffic, apply, roll back, reconcile at boot, verify,
  resume.
* Hard: a crash between any two file operations, with four files that form one identity.
* Correct when: services run only on an identity that is entirely old or entirely new.
* Modelled by `RestoreTransaction`.

### Egress policy switch (`EgressPolicyController`, `EgressPolicyManager` in `src/hy2panel/operations.py`)

* State: two Hysteria configurations, `panel.env`, the state file with their digests, the
  transaction record, the authentication gate, what each running server has loaded.
* Operations: settle traffic, replace files, restart, verify, record, roll back, recover.
* Hard: crash or kill at each step, a rollback that fails itself.
* Correct when: the shown policy is the one in force, and a switch ends with all files of
  one policy.
* Modelled by `EgressPolicy`.

### Maintenance lock and supervision (`exclusive_maintenance_lock`, `maintenance_upload_slot`, `run_supervised_services`)

* State: two lock files, deferred signals, worker threads, failure queue, watchdog time.
* Operations: shared and exclusive locking, start, fail, stop with a deadline, the final
  collection.
* Hard: a worker that dies or hangs, a signal in the middle of a transaction.
* Correct when: a failed worker ends the process, and no maintenance runs beside another.

### Panel web server (`BoundedThreadingHTTPServer`, `LoginRateLimiter`, `PanelHandler`, mobile API)

* State: worker slots, active requests, a heap of deadlines with generations, login
  attempts, sessions.
* Operations: accept, handshake, serve, extend a deadline, expire, shut down; log in.
* Hard: the scheduler thread expires a request while its worker finishes; shutdown while a
  request is being accepted; concurrent logins from one address.
* Correct when: no slot is lost, no expired deadline hits a request that renewed it, and
  at most the allowed number of failed logins per window is verified.

### Users, subscriptions, budgets (`Database`, `src/hy2panel/budgets.py`)

* State: `proxy_users`, subscription tokens, daily and period totals, machine budgets.
* Operations: create, change, delete, reset, monthly rollover, budget thresholds and DNS
  removal.
* Hard: traffic that arrives for a period that is over, or after a manual adjustment.
* Correct when: totals by user and by machine agree, and a reset is not undone.

### Adaptive egress (`src/native/adaptive_egress`)

* State: capability verdict, generation, revision, the probe in flight, a state file.
* Operations: check, invalidate, loop, close.
* Hard: a probe that answers after its configuration was replaced.
* Correct when: a verdict comes from a probe of the current configuration.

### Updates, installer and firewall (`src/hy2panel/release.py`, `UpdateController`, `src/install.sh`)

* State: update status, upgrade marker and backup, data-plane activation journal,
  firewall journal, fresh-install marker.
* Operations: queue, install, verify, roll back, recover at boot, uninstall.
* Hard: a shell program of 8600 lines that may be killed anywhere.
* Correct when: after recovery the host has the old version complete or the new one.

### Offsite backups (`src/offsite_backup.py`, `src/ops/oss-backup/backup.py`)

* State: remote objects (temporary and final names), status file.
* Operations: upload under a temporary name, verify, rename, verify, prune.
* Correct when: a final name always holds a complete archive and pruning never removes the
  last good one.

### Mobile application, dashboards, generated assets, QR encoder

`src/mobile` is a client of the mobile API; `src/hy2panel/dashboard.py`,
`mobile_api.py`, `web_assets.py` render data; `src/qrcodegen.py` and
`src/mobile/third_party` are vendored. They keep no state of the system.

## How the components interact

```
 Hysteria (node) --counters--> agent --signed HTTPS--> NodeProtocolService --+
 Hysteria (node) --auth------> agent --signed HTTPS--> authorize ------------+--> SQLite
 Hysteria (central) --counters--> LocalCumulativeCollector --> UsageManager -+
 Hysteria (central) --auth------> UsageManager.authorize --------------------+
 browser / mobile --> PanelHandler --> Database, queue of node commands -----+
 root oneshots (restore, egress, update) --maintenance lock--> files, services, SQLite
```

* All panel state lives in one SQLite database; every operation on it is one
  `BEGIN IMMEDIATE` transaction, so the models make each of them one action.
* Files are replaced by *write, fsync, rename, fsync of the directory*. In the models the
  rename is the step that takes effect; an error can be reported before it or after it.
* The agent runs one loop in one thread; the panel serves requests of one node
  concurrently.

# 2. Plan

The order is by how much damage a mistake does: traffic that is billed wrongly first,
then what the panel shows and enforces, then who is let in, then the transactions that
replace the installation under a running system.

| # | module | composes / refines | state |
| --- | --- | --- | --- |
| 1 | `NodeAccounting` | two machines, one spool, one ledger; implements `TrafficLedger` | modelled, checked, proved |
| 2 | `EgressPolicy` | two switch units, the recovery unit, two servers, users | modelled, checked, proved |
| 3 | `DeviceAdmission` | panel host and nodes, leases and snapshots | modelled, checked, proved |
| 4 | `RestoreTransaction` | upload, restore, recovery and resume units, panel and servers | modelled, checked, proved |
| 5 | `NodeControl` | node lifecycle on the panel, command queue, agent, uninstall worker | modelled, checked, proved |
| 6 | `NodeOnboarding` | panel, machine and installer, from a code to a published node | modelled, checked, proved |
| 7 | `LocalAccounting` | the panel's collector and the maintenance helper; implements `TrafficLedger` | modelled, checked, proved |
| 8 | `CredentialDrain` | token rotation on the panel host | not modelled yet |
| 9 | `HttpServer`, `Supervision` | worker slots, deadlines, login limiter; watchdog and collector | not modelled yet |
| 10 | `UserBudgets`, `AdaptiveEgress`, updates | small state machines | not modelled yet |
| 11 | the installer's upgrade transaction | shares the recovery pattern of 2 and 4 | not modelled yet |

Abstract specifications worth stating: `TrafficLedger` (implemented by `NodeAccounting` and by
`LocalAccounting`), an atomic switch of a policy that `EgressPolicy` implements when nothing is
killed, and an atomic replacement of an identity for `RestoreTransaction`.

Runs are kept few: one or two per module, each with one set of constants and a choice of
fault mixes (below), and a run that refutes a claim only where the code and a document
disagree. Every safety property of the runs is also a theorem (section 11).
Theorems worth proving next: that `EgressPolicy` and `RestoreTransaction` implement the two
abstract specifications above, once these are written.

Fault mixes. A fault is an action that costs one of a budget: `spent[k]` counts the faults
of kind `k`, and `Fault(k)` is possible as long as what has happened fits one member of the
constant `FaultMixes`. A run with the mixes `{crash, disk}` and `{endpoint}` explores every
behaviour with at most one crash and one disk failure, and every behaviour with one endpoint
failure. The proofs hold for any set of mixes.

# 3. `NodeAccounting`

## What it is

| variable | code |
| --- | --- |
| `counter`, `epoch` | Hysteria's `/traffic` totals and the systemd InvocationID read by `_stats_service_epoch` |
| `journal` | the checkpoint file of `CumulativeTrafficCollector`: baselines and pending batches |
| `staged`, `spool` | `.traffic-*` and `*.json` files of `DurableTrafficSpool` |
| `protocol` | `ProtocolState`: snapshot sequence, `trafficAckedAt` |
| `phase`, `mode`, `sample`, `work`, `deferred` | the agent's place in `NodeControlCycle.run_once` and its local variables |
| `call`, `late` | the request it waits for, and requests it gave up that the panel may still execute |
| `ledger`, `credited`, `snapshot`, `checkpoint` | `node_traffic_batches`, the totals, `node_online_snapshots`, `node_usage_checkpoints` |
| `served`, `sampled`, `archived`, `spent` | history variables and fault budget |

Traffic is a set of units: a counter is the set of units it has counted, a delta is a set
difference and a batch carries a set, so that losing or repeating a unit is visible however
the numbers add up. Every write to the disk, every exchange with Hysteria and every
database transaction is one action; the agent may crash between any two. A write can fail
before it has an effect or, because the directory is synced after the rename, after it
(`SaveOutcome`). A request can be lost, its answer can be lost, or it can stay behind
(`Timeout`) and be executed later, beside its retry. `Fresh` draws batch ids in increasing
order; the code draws uuids and orders files by time, so ids stand for both.

## Runs

| run | question | bounds |
| --- | --- | --- |
| `node_agent` | the agent's side: two endpoints, Hysteria restarts, one crash or disk failure or endpoint failure, at every step; also the refinement and liveness | 2 units, spool of 2, 3 ids in use, 2 invocations |
| `node_panel` | the panel's side: late and concurrent requests, a panel failure between transactions, two lost answers with the clock past batch age and ledger age, snapshots | 2 units, spool of 3, 2 batches per cycle, ledger of 2 rows, clock 0..2, 2 snapshots |

Two units are enough for a batch that is full while another waits, two rows for an eviction
beside a retry. A spool of two with two endpoints is full
after one collection. In `node_panel` all units take one route and
are interchangeable, so the run uses symmetry; the properties checked there are safety
properties. `MaxBatch` bounds the ids in use at the same time: when none is free, the
endpoint is left for a later cycle (`NoBatchId`), which the real code never has to do.

Properties: `ExactlyOnce`, `NothingLost`, `CompleteUsageCoversTraffic`,
 `SnapshotsNeverRegress`, `ImplementsTrafficLedger` and
`SampledIsSettled`, each explained where it is defined.

Fairness: `FairSpec` assumes that the agent goes on (`run_control_loop` repeats `run_once`
for ever and sleeps a bounded time after a failure) and that the panel executes the requests
it has. Faults are finite in number, so nothing more is needed; a batch that expires waits
for the operator, which is why `SampledIsSettled` allows for it.

A small ledger is safe only without late requests: a request that the agent gave up and that
is executed after its batch's row was evicted counts twice. The real limits (rows and age)
(700000 rows, eight days, against a spool of 4096) keep every row longer than a request survives on the panel, which
is what the assumption `LedgerRows >= MaxBatch` of the theorems stands for.

## Proofs (`NodeAccountingProof`, `NodeAccountingRefinement`)

For every set of units, every route and all bounds TLAPS checks that the specification
implies `TypeOK`, `ExactlyOnce`, `NothingLost`, `CompleteUsageCoversTraffic`,
`LostOnlyByRestart`, `SnapshotsNeverRegress` and the refinement of `TrafficLedger`.

None of these is inductive. The inductive invariant `Inv` is `TypeOK` with

* `Batches`: two different batches anywhere (journal, staged, spool, loop, request, late
  request) carry different units and different ids (`Apart`), every unit in one comes from
  `sampled` (`Origins`), a unit that was credited has a ledger row for its batch
  as long as the batch exists (`LedgerKnows`), rows are not older than their batches
  (`RowTimes`), and the ids of the collection under way are new (`NewIds`);
* `Sources`: baselines, pending batches and the reading under way account for each unit at
  most once (`Baselines`, `Carried`, `Reads`);
* `Agent`: `NothingLost`, what each phase may assume (`Phases`), and what a snapshot on its
  way covers (`Covered`).

`LedgerKnows` is the heart: it is why a retry is recognised. It survives the eviction of rows
only because a batch that can still arrive has a row younger than the age limit
(`RetentionAssumption`) and because there are enough rows (`RowsSuffice`). The step lemmas
follow the disjuncts of `Next`; the results follow from `Inv` and temporal logic.

Only model-checked: `SampledIsSettled` (liveness), and the ledger of two rows, fewer than the ids
in use, which `RowsSuffice` excludes.

## Not modelled

Per-domain records, which travel in the batches; the split of a delta into several batches
by number of users (a batch is one set whatever it names); the byte budget of a request
(any shorter prefix that `PerCycle` allows; a snapshot that does not fit is `deferred`);
nonces and signatures; the legacy collector that clears Hysteria's counters; loss of power
after a failed directory sync; someone else clearing the counters.

# 4. `EgressPolicy`

## What it is

| variable | code |
| --- | --- |
| `file` | the two Hysteria configurations and `panel.env`, each standing for the policy written in it |
| `attested` | `.egress-state.json`: policy and digests |
| `record` | `.egress-transaction.json` |
| `loaded` | what the running server enforces: the policy of its file when it was started; or `down`, `queued` (its start job waits), `crashed` (`Restart=on-failure` will start it) |
| `panel` | `up`; `queued`: its start job waits for the recovery unit; `down`: that job has failed |
| `gate` | `/run` marker that refuses logins |
| `unsettled`, `lost` | traffic not collected yet; traffic cut off uncollected (history) |
| `proc` | where each of the two switch units and the recovery unit is (`wait`: the recovery unit waits for the maintenance lock; `failed`: it ended with an error) |

A switch is settle, recover, read and record, replace three files, restart, check, attest,
remove the record; an exception anywhere after the record starts the rollback through the
same steps. `End` is `ExecStopPost` of the unit. `StartRecovery` is the oneshot that panel
and servers require; it is skipped while the gate exists, and runs only when a start of the panel
or of a server pulls it in. It has no `Restart=` (`src/install.sh:8252-8281`): when it fails or is
killed (`Broken`, `RecoveryFails`), the start jobs that require it (`src/install.sh:7878, 7924`) fail
with it, and panel and servers stay down. Nothing retries them. They come up again when root
starts them (`StartByHand`), when a server that had crashed is due for its restart and
pulls in panel and recovery once more (`RestartDue`), or at the next boot. Without the gate a restart of a
server waits for the recovery unit, which waits for the lock the switch holds: `Restart` has
that outcome. Main and secondary server are tied as in the units: the second is `PartOf` the
first and wanted by it.

## Runs

| run | question | bounds |
| --- | --- | --- |
| `egress_failures` | power loss, server or panel crash, failed start, failed drain, one failed write or directory sync with an administrator who stops and starts the servers, two kills, or both switch units at once: is the shown policy in force, is traffic lost, is a mixture always recorded, does everything come back unless the recovery unit failed | 3 switches; mixes `Failures` |
| `egress_killed` | refutes `ShownIsEnforced` with one kill and one crash of the panel (section 10) | 1 switch |

Two switches are needed for one that finds the remains of another; three add nothing but
are cheap. Fairness: systemd runs a started command to its end and performs the start jobs
it was left with, each once; it need not start a server that was stopped, nor what failed with the
recovery unit, and root never has to start anything. `ServicesReturn` is therefore claimed up to a
failure of the recovery unit: a panel that crashed or lost power comes up on attested
files, and a server that waits for its start runs again, or the recovery unit has failed or was killed.
The mixes with a kill next to a crash or a power loss reach that failure, with
panel and servers down for good after it.

`NoRecordMeansConsistent` is not claimed when a disk error and a power loss come together:
if the directory sync after the removal of the record fails, the rollback that follows
rewrites the files without a record, and a power loss in its middle leaves a mixture that
nothing repairs (inspect calls it inconsistent). `ShownPolicyIsInForce` is not claimed with
a disk error in a rollback, which takes a failure that started it (a disk error, a failed start,
a crash) in the same switch, because the rollback then ends before its own restart; nor when the
administrator presses *start* during a switch that found the servers stopped and one of
them crashes. The proof names both (below). `ShownPolicyIsInForce` and
`SwitchLosesNoTraffic` speak of runs without a kill and without an overlap (`Undisturbed`): with
both units at once traffic is lost: the unit that the lock refuses removes the gate in its `ExecStopPost`
(`src/install.sh:8199`) while the other one is between settlement and restart.

## Proofs (`EgressPolicyProof`)

For one or two servers, any number of switches and any set of fault mixes. Three layers:

* `Basic` needs no hypothesis: `TypeOK`, one holder of the maintenance lock (`Exclusive`), where
  each of the three units can be (`Placed`), and `Gated`: undisturbed, the gate is up from before the
  settlement until after the restart, nobody else is at work, and past the settlement nothing is
  unsettled. `SwitchLosesNoTraffic` follows; it needs all four, because it is the lock that keeps a
  second settlement or a restart out of the middle.
* `Files` says what the record tells of the files: outside a switch, without a record, they are
  whole and attested (`Backed`); inside, the files not yet written are those of the list that is left,
  and the others are already those of the goal, the new policy or in a rollback the old (`FilesAt`).
  `NoRecordMeansConsistent` follows.
* `Enforced` says what the servers run with, undisturbed. Outside a switch it is what is in their
  files, and a record that was left would change none of them, unless the panel and the servers
  are down and cannot start before it is dealt with. Inside (`ServersAt`) the record keeps what the
  switch found, a second server found stopped with the first stays down, a rollback writes what was
  found, and from the restart on the servers run with their files. `ShownPolicyIsInForce` follows.

`Files` has one way out, and the theorems name it: `_durable_unlink` removes the record of a
switch that succeeded and then fails in the directory sync, so that `apply` rolls back with
no record on disk. `NoRecordMeansConsistent` is proved from `UnrecordedRollbackFinishes`: such a
rollback is not cut off before it has written and attested the files. `ServersStartOnWholeFiles` is
proved from `RecordRemovalSyncs`: that sync never fails, because in that rollback a server which
crashes by itself is started on the files as they are. Both exclude two faults in one switch
and no more; without the first fault neither excludes anything, however many kills, power losses
and other disk errors there are. The runs have no such mix, which is why they need no hypothesis.

`Enforced` rests on two other hypotheses, and `ShownPolicyIsInForce` with it. `RollbackRestarts`: no
rollback ends while it still writes the files. Such a rollback takes one failure that starts it and a
disk error in its own writes; it leaves servers on the new policy beside a record of the old one.
`StoppedServersStay`: nobody starts, during a switch, the first server that the switch found
stopped. Both servers then come up on files half replaced, and the second keeps its policy if the
first crashes before `Check` stops them again. With either hypothesis dropped, TLC refutes the property in
a mix with two disk errors, or with a disk error, a crash and a stop. Again the runs have no such
mix and need no hypothesis; kills and overlaps are outside the property.

Only model-checked: `ServicesReturn` (liveness).

Not modelled: `record_current_state` after an update or restore, the two other recovery
units, root starting and stopping units by hand in the middle of a switch, a crash of the panel
during a switch other than as the kill of the switch unit it causes, the web form in front
of the units.

# 5. `DeviceAdmission`

## What it is

One user with a device limit, the panel host and the nodes of the user's tier.

| variable | code |
| --- | --- |
| `login` | what became of a login, with its row of `node_auth_decisions` or `local_auth_leases` (`leased`: present and not absorbed) |
| `snapshot`, `count` | `node_online_snapshots`, `node_online_counts` of the user |
| `flight`, `sequence` | snapshots that were sent, lost ones included; the node's last number |
| `cache` | `UsageManager._auth_online` and its time |
| `restarts`, `now` | restarts of the panel; the second the code compares |

A node's request reads clock and local list in `Ask` and decides in `Approve` or `Deny`,
another transaction; a local login is one step under `UsageManager`'s lock with a list that
may be cached. `Accept` stores a snapshot and absorbs as many of the node's oldest leases as
its count grew. `Restart` is `begin_runtime_epoch`. `Deny` is always possible: quota, dates,
kicks and the other reasons to refuse are not told apart.

`Window` and `LocalWindow` bound the time from the request's second to the session it opens
(Hysteria waits up to ten seconds for its answer, which is also what the agent's quiet window
relies on, `src/node_agent.py:3379`). `Gap` bounds the age of the snapshots the panel holds.

## Runs

| run | question | bounds |
| --- | --- | --- |
| `admission_restart` | panel host and one node, snapshots delayed, lost and overtaken, silence of the node, cached local list, one restart that takes longer than a local login | 3 logins, limit 2, 3 snapshots, freshness 2, time 0..3 |
| `admission_slow` | two nodes, logins that take a second, snapshots that keep arriving (`Gap` 2 < `Freshness` 3) | 2 logins, limit 1, 2 snapshots each, time 0..5 |

The limit needs one login more than it allows; freshness two makes *fresh, last second,
stale* different. Without `Gap` a slow login that meets a silent node breaks the
limit (section 10). Nodes and logins are interchangeable and the properties are safety
properties, so symmetry is sound.

`AdmissionWithinLimit` is the promise at the moment of an approval.
`EveryDeviceIsLeasedOrCounted` is why it holds: whatever the order of snapshots, the sessions
a node has, and the approvals that may still become sessions, are covered by its last count
and its unabsorbed leases together.

What the runs also show about the edge: with `Straddle` (a snapshot observed before a restart
of the panel is accepted by the new process, `src/hysteria2_panel.py:6019`)
`EveryDeviceIsLeasedOrCounted` fails,
because the leases that snapshot does not show were deleted by `begin_runtime_epoch`. The
passing runs exclude it, and exclude a restart that is shorter than a login.

Not modelled: canary grants, node lifecycle, kicks, quotas and dates (all in `Deny`), the
freshness of `trafficAckedAt`, different clocks, a change of the limit, the repetition of a
request with the same id (the agent draws a new id, and the branch changes no state).

## Proofs (`DeviceAdmissionProof`)

For any finite sets of nodes and logins and all numbers. The limit holds because of relations
between times which the code does not check, so they are hypotheses of the theorems that need
them, and both runs satisfy all three:

| hypothesis | says | in the code |
| --- | --- | --- |
| `RestartsOutlastLogins` | an approval is over, and no snapshot sent before the restart is under way, when the restarted panel begins its epoch | of the environment: a restart within ten seconds of an approval breaks it |
| `LeasesOutlastSnapshots` | `Gap + Window <= Freshness`, or sessions open at once | leases and freshness are 43 s (`MAX_STATE_AGE_SECONDS`), a login takes at most ten: the panel must not hold a snapshot older than 33 s |
| `LeasesOutlastList` | `CacheAge + LocalWindow <= LocalLease` | the list is kept 1 s, a local lease 5 s: a local login must open within 4 s |

The invariant has three layers.

* `Base` (no hypothesis): `TypeOK`; the order of sequence numbers is that of observation times, for
  snapshots on their way and the one the panel holds; no lease on a node without a snapshot.
* `Sessions` (first hypothesis). `EveryDeviceIsLeasedOrCounted` is not inductive: a snapshot on
  its way may show sessions that have ended, and miss others, and when it arrives it absorbs the
  oldest leases by the growth of the count, not those of the sessions it shows. `Accounted` keeps
  the accounts for one node and one time `t`: `L` and `E` count the sessions opened since the held
  snapshot, by logins that asked at `t` or later and by earlier ones; for each pending snapshot
  how many of them it may show; and the leases must cover approvals and both numbers together, and
  those since `t` must cover the late ones alone. The second half is what survives *oldest first*,
  for all `t` at once. The numbers are not variables: the invariant says that such numbers
  exist, and each step lemma gives the new ones.
* `Listed`: a session on the panel host that the cached list, or the count a request has read,
  does not show has a lease (`Missed`), which is why the two readings of `Ask` may be older than the
  transaction that decides.

`AdmissionWithinLimit` (all three hypotheses) sums over the nodes: `Combined` maps sessions and
approvals injectively into what `Capacity` counts, the unexpired leases and the pairs of
`Counted` (a node and a number up to its count, which is the sum of the counts as a set).

There is no liveness in this module, and nothing is only model-checked.

# 6. `RestoreTransaction`

## What it is

An archive uploaded by the administrator replaces database, certificate, key and
environment of the panel host, which form one identity: the HMAC key in the environment
verifies the tokens in the database, the pin in it the certificate.

| variable | code |
| --- | --- |
| `disk` | the four managed files, each with the number of the archive it came from, and the administrator's edits in the database |
| `pending`, `captured` | `pending-restore.zip`, `.restore-active.archive` |
| `marker` | `.restore-active`: phase, outcome, `oldFiles` (digests of the backup, here its contents), archive |
| `upload` | the request handler: `receive` under the shared lock, `queue`, `unlink` after a failed start |
| `proc` | the units `restore`, `recover`, `resume`: `pc` is the next call of their Python function |
| `job`, `cleared`, `up` | systemd: start jobs, those the recovery unit has let through, services that run |
| `seen` | history: the last state a panel served |

`restore` goes through `Capture`, `Validate`, `Mark`, `Consume`, `StopPanel`, `Settle`,
`StopServices`, `Prepare`, `Apply` (file by file), `Verify`, `Applied`, `Drop` and then through
`_reconcile_to_services_pending` (`Reconcile` to `Pass`), which its exception handler and the
recovery unit run too. `Raised` is where an exception leads: nowhere before the `try`, to
`Undo` inside `apply_archive`, to the handler, out of the handler. `Post` is `ExecStopPost`.
A start job pulls the recovery unit in (`StartRecover`), which needs the exclusive lock as
soon as anything is left of a restore; if it fails, the jobs that need it fail (`Fail`).
`Health` and the removal of the marker are `resume_after_restore`.

Faults: `power`; `kill` of a unit (out of memory, or the stop timeout: SIGTERM is deferred);
`disk`, a write that fails before (`DiskFails`) or after it took effect (`Done`); `crash` or
restart of a service; `refused`, an archive that root's own check or the final comparison
rejects; `drain`; `unit`, services not seen to stop; `queue`, a `systemctl start` that times out
although the unit was started.

## What is checked

| run | question | bounds |
| --- | --- | --- |
| `restore` | all properties | two uploads, two edits per identity; two power losses with refusals and a crash; two kills with a power loss and a crash; two failing writes with a kill and a refusal; services that do not stop with a lost start and two crashes |
| `restore_unstopped` | refutes that panel and servers return (section 10) | one upload, one edit, services that do not stop, a power loss |

One archive shows a mixture, the second that nothing of the first transaction gets into the
next. Two failing writes reach the failure of a rollback and of the handler, two kills or
power losses the interruption of a recovery.

`ServicesRunOnOneIdentity` and `MixtureIsRecorded` are the atomicity of the replacement: what is
half replaced is never served, and the record names a backup with everything that was served
before. `ServedDataNeverGoesBack` is about time: a rollback restores the latest edits and an
archive is not applied again. Fairness: units run on, systemd carries out start jobs, requests of
the panel end; nothing is assumed of uploads, edits and faults.
`RestoreEndsClean` and `ServicesReturn` say when that is enough.

What the liveness properties leave out the code leaves out: after a killed or failing recovery
unit its start jobs are gone, and after a failed health check the marker stays until the next
boot. A write that fails while root copies the upload (`Capture` is called outside the `try`)
leaves the upload at its fixed name, where it refuses every further one until panel or
server are started again; ADR-004 says a failed restore releases the name.

Assumptions: what systemd can start at once it starts within the seconds the restore unit needs to
get to its next step (`Prompt`: a start that has passed the recovery unit is carried out before
the archive is captured and before the services are stopped), and `ExecStopPost` runs before the
resume unit; without them a resume unit left from the boot could probe services whose start waits
for the lock it holds, give up, and leave the marker until the next boot. Further:
the sidecars of the database are empty
when it is replaced, as the checkpoint in `settle_restore_traffic` made them. Left out: port
hopping and the attestation of the outbound policy in `resume_after_restore`, the refusal while
a switch of policy is unfinished, retention of backups, temporary files, ownership checks.

## Proofs (`RestoreTransactionProof`)

For any number of uploads and edits and any set of fault mixes, without a hypothesis: `TypeOK`,
`ServicesRunOnOneIdentity`, `MixtureIsRecorded` and `ServedDataNeverGoesBack`. The invariant is

* `Exclusive`: the lock has one holder, and an upload is received only while it is free and nothing
  is recorded;
* `Recorded`: only a record in phase `prepared` may stand beside mixed files, and then nothing runs
  or can be started and its backup is what the last panel served; in every other phase the files are
  whole, and are what the last panel saw or, after `applied`, the younger archive;
* `Numbered`: what waits to be applied is younger than anything a panel has seen, which is why an
  archive left over by an interruption is not applied twice;
* `Steps`: for each step of the three units the phase it can be in, the files it has still to
  write, and that the record it holds in memory is the one on disk where it relies on that.

`ServedDataNeverGoesBack` needs `Recorded` and `Numbered` together. Liveness (`ServicesReturn`,
`RestoreEndsClean`) is only model-checked.

# 7. `NodeControl`

## What it is

What the panel does with a node that is paired, and what becomes of the sessions of one
user on it.

| variable | code |
| --- | --- |
| `user` | a row of `proxy_users`: the valid credential, `generation`, quota used up; `owed` and `told` are the part of a request between its transaction and the one that queues the kick |
| `node`, `snap` | `managed_nodes` with its lifecycle and its row of `node_budgets`; `node_online_snapshots` |
| `cmds` | `node_commands`, in order |
| `disk` | the agent's `protocol.json` (`stopped`, `done`), the spool, the uninstall marker |
| `agent`, `wire` | where `NodeControlCycle` is; acknowledgements it gave up and the panel may still receive |
| `worker` | `hysteria2-panel-node-uninstall.service` |
| `plane`, `login` | the node's Hysteria servers; each login with the credential it used |

`Drain`, `Stop`, `EmergencyStop`, `Resume`, `Archive`, `Disconnect` and `Delete` are the
administrator's transactions, `Reconcile` is the budget, which drains a node and stops it when it
is idle. `Exchange` is snapshot and poll, `Take` starts a command; a stop goes through `Look`,
`Wait`, `Online`, `CollectRound`, `Flush`, `Halt` and `SetStopped`, a removal through `Mark` to
the worker, a kick through `Kick` and the quiet window `KickSettled`. `Ack` reports success or
failure; `LateAck` is an acknowledgement that arrives after its command was delivered again.

## What is checked

| run | question | bounds |
| --- | --- | --- |
| `node_control` | all properties | two logins, five commands, one event of each kind of a mix: two revocations or a revocation and the quota with a failure each; stops, resumes and removals with crashes, reboots, lost or late acknowledgements, failing units and writes; the budget twice |
| `node_control_stranded` | refutes that a stop converges (section 10) | one login, one command, an emergency stop and a crash |

Two logins are enough for a session that is kicked while another opens; five commands for two
stops and a resume with the kicks between them.

`RevokedSessionsEnd` relates the panel's record of an acknowledged kick to the sessions on the
other machine: two kicks may have been queued as one, the same kick delivered twice, the agent
restarted in its quiet window. `LifecycleMatchesNode` is the same for the state of the servers,
`StopLosesNoTraffic` and `IdleStopDisconnectsNobody` say what a stop may not do whatever opens
between the panel's decision and the agent's step. `CommandsEnd` is liveness: the control loop
runs on (`run_control_loop`), the worker is restarted by systemd, a login in flight ends within
Hysteria's ten seconds, and a session with a kick marker has some traffic, which is what
consumes the marker.

Two details show in the model and are worth knowing. A node that is `stopping` because it is
idle keeps the sessions that opened meanwhile and is sent no kick (USER_GUIDE.md:94 says the
service is kept and the stop retried). And if the panel fails between the transaction that
rotates a token and the one that queues the kick, the old sessions are not kicked; `PanelFails`
clears `owed`, and the properties speak of kicks that were queued.

## Not modelled

Leases of commands (over by the next poll); the three quiet rounds of `quiesce_traffic` (one
round without sessions and traffic); commands other than kick, stop, start and uninstall; the
look-up of the name in the DNS (`ConfirmDns` may find either); the twenty-four hours and fifteen
minutes of the budget (any time); the device limit and other nodes (section 5); enrolment
(section 8).

## Proofs (`NodeControlProof`)

For any number of logins, any bound on the commands and any set of event mixes, without a
hypothesis: `TypeOK`, `LifecycleMatchesNode`, `RevokedSessionsEnd`, `StopLosesNoTraffic` and
`IdleStopDisconnectsNobody`. The invariant has four layers, each preserved given those before it:

* `Placed`: which step the agent can be at with a command of each kind, and that acknowledgements
  on the wire are of commands the agent has completed;
* `Lifecycles`: at most one command other than a kick is pending and the lifecycle the panel shows is
  the one that waits for it; the flag of a stopped node agrees with commands completed and not yet
  acknowledged, which is what a late acknowledgement or a second delivery relies on;
* `Draining`: what each step of a stop has achieved (logins in flight gone, no session open, nothing
  left to collect, spool empty), and that a stopped node has all of it;
* `Kicking`: while a wanted kick is pending nobody is let in; every session is among those it still
  has to watch for a quiet window; a completed one has left none; and when none is pending, no session
  uses a credential older than the panel has announced.

`CommandsEnd` is only model-checked (liveness).

# 8. `NodeOnboarding`

## What it is

One machine, from the one-time code the administrator creates to a node that subscriptions name.

| variable | code |
| --- | --- |
| `nodes` | rows of `managed_nodes` and `node_enrollments`: status, code used or void, public key, policy and data-plane state, age of heartbeat and snapshot |
| `grant` | the last row of `node_data_plane_bootstrap_grants` of each node, and who knows its token |
| `line` | the profile of the line and its certificate (`node_identities`) |
| `handler` | the thread of the panel that serves an acknowledgement: canary, wait for fresh reports, commit |
| `disk`, `up`, `traffic` | what is installed on the machine; its services; traffic the panel has not acknowledged |
| `installer` | `install.sh`: `install_join_node`, `complete_node_onboarding`, `activate_data_plane` and its rollback |

A pasted code is `Paste`, `Register`, `EnableTimer`. The timer then starts
`complete_node_onboarding` (`StartRun`) until it succeeds: `InstallAgent`, `FirstBeat`, `Claim`, and
the activation `Activate`, `Fetch`, `Identity`, `Arm`, `Settle`, `Files`, `Configure`,
`Start`, `Acknowledge`, `Finish`. A failure before the acknowledgement is rolled back:
`RestoreExisting` for a machine that served before, `RequireAck`, `Remove`, `Purge` for a new one. A
rollback that fails keeps the record; if it preceded a new attempt, the exit trap runs it once more
(`Failed`). `Command` is the same
activation by the administrator's command, on a grant of its own (`Issue`). The panel's side of
an acknowledgement is three transactions with a canary connection and a wait between them
(`Acknowledge`, `Canary`, `AwaitFresh`, `Commit`); the installer may have given up meanwhile
(`GiveUp`).

## What is checked

| run | question | bounds |
| --- | --- | --- |
| `node_onboarding` | all properties | two codes; mixes of a second paste, expiry, a code made void, revocation, deletion, standby, grants issued by hand, lost answers, slow canaries, failing units, an outage, one or two reboots at any step, a changed name |

Two codes give a machine a registration to be confused about. `RegistrationIsKnown` is about lost
answers: registering again with the same code and key is accepted
(`consume_node_enrollment`), any other key is not, and the machine keeps the key it sent.
`RevocationIsFinal` and `PublishedServes` are about the worker that commits after everybody has
gone on: it re-checks the grant in its last transaction, so a revoked node stays unpublished,
while a node whose installer has rolled back is published, and the timer's next run makes it
serve. `RollbackLosesNoTraffic` is the reason for `--require-ack`. `OnboardingEnds` is liveness
under the timers of systemd; nobody has to administer.

A reboot may come at every step of the installer, and may cut the step off: `Cut` is what it finds on
the disk. `disk.torn` is an agent or a heartbeat unit half written: `install` (`src/install.sh:1980`,
`src/install.sh:3115`, and `src/install.sh:2982` in the rollback) unlinks the file before it writes it
and sets its mode at last. `disk.staged` is what is left of a file put in place through a
temporary in the same directory: `durable_replace_file` does so for `bin/hysteria`
(`src/install.sh:234`, `src/install.sh:3125`), `write_masquerade_site` for the site
(`src/install.sh:2008`). There are states the code has no way back from, and the run reaches them:

* an agent or a heartbeat unit half written: every run asks for its owner and mode first
  (`src/install.sh:1664`, `src/install.sh:3027`) and stops;
* the heartbeat units are installed and their timer is not enabled yet (`src/install.sh:1982`): every
  later run finds units it did not install and stops;
* a temporary in `bin/` or `masquerade/`: the rollback of a new data plane deletes the paths it
  knows (`src/install.sh:2987`), `rmdir` fails on the directory (`src/install.sh:2999`,
  `src/install.sh:3002`), the record stays, and every later run fails in the recovery that comes first
  (`src/install.sh:2516`);
* a spool whose `stats.env` is gone, when a rollback was cut off between the two
  (`src/install.sh:2987`, `src/install.sh:2994`): the recovery needs `stats.env` to settle the spool;
* an upgrade by the administrator's command between two versions: nothing recovers it at boot, a new
  command does;
* a join that has no timer yet: nothing resumes, and the code cannot be pasted on a machine
  that has an agent's paths. Nothing is promised here: no timer is armed and no node published.

`Stranded` is the first five, and only after a reboot. `OnboardingEnds` and `PublishedServes` hold up
to it, so they say that there is nothing else: without any one of its five cases the run reports a
behaviour of the code in which a timer fires for ever, or a published node never serves. Such a node
was published by an acknowledgement its installer had given up (`GiveUp`), for instance, and its
second installation cut off by the reboot. The first four contradict ADR-017
(`src/docs/decisions/ADR-017-streamlined-node-onboarding.md:36`): a later run of the same node rolls
the interrupted transaction back and installs again, so that onboarding can be retried across
restarts.

## Not modelled

Rebinding a node to another line, nonces, the three attempts of a registration (one, whose answer
may be lost), a `restore_existing_data_plane` that fails otherwise than by a reboot, a half-written
configuration file of the data plane (the rollback deletes or restores it like a whole one), several
machines, the client's timeout being longer than the handler's work except where `slow` says so. A standby that the administrator
sets during an armed onboarding is undone by the next claim, as in the code.

## Proofs (`NodeOnboardingProof`)

For any number of codes and any set of event mixes, with any number of reboots and without a
hypothesis: `TypeOK`, `RegistrationIsKnown`,
`RevocationIsFinal`, `RollbackLosesNoTraffic`, and seven that no run states: no key is that of two nodes
(`OneNodePerKey`), a premium region has at most one node that is not revoked (`LiveNodeOwnsLine`), the
certificate users pin is never replaced (`CertificateStays`), unacknowledged traffic is in the
spool (`SpoolHoldsTraffic`), a half installed data plane has a transaction record
(`HalfInstalledIsRecorded`), an acknowledgement is waited for exactly while it is served
(`AnswerFindsItsInstaller`), and only the panel settles traffic, for a ready node or with the removal
of a revoked one (`OnlyPanelSettles`).

The invariant has two halves. `Known` is about the panel's rows: a key is made for one pasted code,
and only that code is ever used with it; without it `RegistrationIsKnown` says nothing about the
moment the answer is lost. `Recorded` is about the machine: what is installed at each step of the
installer, which is why a rollback finds a record and a purge finds no traffic, also on a machine that
is `Stranded`.

`PublishedServes` and `OnboardingEnds` are only model-checked (liveness).

# 9. `LocalAccounting`

## What it is

The traffic of the panel host's own servers, collected by the panel every ten seconds and by a
helper (`sync_traffic`) that the installer and the switch of policy run as root.

| variable | code |
| --- | --- |
| `counter`, `epoch`, `streams` | Hysteria's totals, the unit's InvocationID, per-domain traffic |
| `journal` | `local-traffic.cumulative.json`: baselines and one pending sample |
| `file` | `pending-traffic.json`: a batch of domain records |
| `applied`, `physical`, `account` | `applied_traffic_batches`; totals of origin and domain; `proxy_users.tx_bytes` |
| `adjusted`, `month` | `traffic_adjusted_at`, `user_traffic_reset_state` |
| `proc` | the two processes: their place in `_collect_traffic_locked`, the batch cached in memory, `_fresh_batch_id` and the flag of a batch the process made itself |

A collection is `Flush`/`Unlink` of the file, `Recover`/`Clear` of the journal, `Sample`, `Persist`
and a second flush, `Read` of each endpoint, `Save` of baselines and sample in one write, `Recover`
of it, `Finish` (the turn of the month). `Adjust` is an administrator's reset, under the same lock
and after a collection of its own. Every transaction and every replacement of a file is one action;
a write can fail before or after it took effect; a process can die between any two, and an
exception leaves the panel's manager with what it has in memory. The double reading of the epoch
makes a reading of an endpoint atomic; `NewIds` stands for a random id.

## What is checked

| run | question | bounds |
| --- | --- | --- |
| `local_accounting` | all properties | two units on two endpoints, two domain records, six batches, two seconds with a month between them; mixes: database and disk; database, helper and crash; database and reset; crash and reset; restart and a silent endpoint |

Two records are needed for the helper to replace the file while the panel still holds the older
batch in memory, which is what `OwnFile` (`src/hysteria2_panel.py:11414`) is about; one database
failure leaves the batch there, one crash leaves the newer one in the file.

`ImplementsTrafficLedger` is the abstract ledger of section 3 again: once counted, once recorded,
lost only with a restart. `DomainBatchesCountedOnce` is the two-writer file.
`ChargedToItsPeriod` relates a sample to the resets before and after it: a unit is charged exactly
when it was sampled after the last reset and in the month that is charged, except that a sample
found in a file in the second of an adjustment is not charged. `SampledIsSettled` is liveness: the
collector goes on, whatever failed.

Assumptions: a row of `applied_traffic_batches` outlives its batch (30 days, 100000 rows; the flush
of the domain file runs first and evicts, so a panel that was unable to clear its journal for 30
days would count it twice); a panel's threads take turns by `UsageManager.lock`, panel and helper by
the maintenance lock.

## What is proved

`LocalAccountingProof`, from `BoundsAssumption` alone, for any number of units, domain records and
endpoints, any second at which a month begins and any mix of events:

* `TypeCorrect`: types, and that the file, the journal and each memory hold at most one batch;
* `DomainRecordsOnce`: `DomainBatchesCountedOnce`;
* `ChargedOnce`: `ChargedToItsPeriod`;
* `Refinement`: `ImplementsTrafficLedger`, the same abstract ledger the node pipeline implements.

None of these is inductive. `Inv` has a part for each thing the processes share, and each is
needed because a crash may hand it to the other process:

* `Turns`: one process collects at a time;
* `Counters`, `Readings`: what a collection has read of an endpoint lies between the baseline on
  disk and the counter now, in the same epoch or in none of it; so what `Save` records is new;
* `Books`: a pending sample is in the totals exactly when its id is in the table, and a unit that is
  not journalled is not counted; so a sample applied before a crash is skipped after it;
* `Domains`, `Flushes`: the same for domain records, over the file and both memories together: two
  batches that share an id or a record are one batch, and the first flush leaves no batch behind
  when the journal of samples is written;
* `Periods`: a pending sample is not older than the last adjustment unless it belongs to the month
  before it, and no unit of it was journalled before the last reset; what was never counted was
  never charged.

`Inv` is preserved action by action; the properties follow from it for the only action that counts
units (`Recover`) or records (`Flush`, `Persist`). The refinement maps `Save` to *record* and
`Recover` to *count*; a restart, a crash and an exception map to *lose*, and only a restart loses
anything. `SampledIsSettled` is liveness and stays with TLC.

## Not modelled

The collector that clears Hysteria's counters (`clear=1`), premium users (not charged locally), what
a node's batch is charged with (the same rule without the flag), the filter of domain records by
month and by reset, budgets.

# 10. Disagreements between code and documents

* `egress_killed`: `EgressPolicyManager.recover` rolls files and state file back without
  restarting a server that runs. If a switch unit is killed between restart and attestation,
  the next start of the panel leaves the running servers with the new policy and the panel
  showing the old one as consistent. ADR-014 rejects a design because it would have that
  effect.
* `restore_unstopped`: when the panel is still up while a restore that replaced nothing is
  recorded as rolled back, a write to the database and then a power loss leave a record whose
  digests no longer fit; the recovery unit fails at every boot and keeps panel and servers down.
  ADR-004 promises that both stages continue from the marker after any interruption.
* `node_control_stranded`: an agent that dies after it has stopped the servers and before it has
  noted that they are stopped asks the stopped servers who is online whenever the command is
  delivered again, fails, and leaves the node *stopping* until somebody starts the servers or the
  machine. The specification of v0.32.0 says that a failed stop can be retried and converges.

Without a run of their own:

* A node's lease lasts as long as a snapshot stays fresh, counted from the request's second, while
  the session may open later: with `Gap = 9` in `admission_slow.cfg`, a node silent after such a
  login lets a second device in for a user with a limit of one.
* The gate shared by both switch units and the snapshot that survives a restart of the panel
  (sections 4 and 5).
* What a restart of the machine may leave of an onboarding that no later run gets out of, against
  ADR-017 (`src/docs/decisions/ADR-017-streamlined-node-onboarding.md:36`), which lets a later run
  recover the transaction and install again, and concludes that the installer can be retried across
  restarts. `Stranded` names them and the run `node_onboarding` reaches them (section 8).

# 11. What is checked how

| | model-checked | proved |
| --- | --- | --- |
| node traffic: `TypeOK`, `ExactlyOnce`, `NothingLost`, `CompleteUsageCoversTraffic`, `SnapshotsNeverRegress`, refinement of `TrafficLedger` | yes | yes |
| node traffic: `LostOnlyByRestart` | as part of the refinement | yes |
| node traffic: `SampledIsSettled` | yes | liveness is beyond the prover |
| local accounting: `TypeOK`, `DomainBatchesCountedOnce`, `ChargedToItsPeriod`, refinement of `TrafficLedger` | yes | yes |
| local accounting: `SampledIsSettled` | yes | liveness is beyond the prover |
| egress policy: `TypeOK`, `SwitchLosesNoTraffic` | yes | yes |
| egress policy: `NoRecordMeansConsistent`, `ServersStartOnWholeFiles` | yes | yes, each from one hypothesis about a failed directory sync (section 4) |
| egress policy: `ShownPolicyIsInForce` | yes | yes, from two hypotheses (section 4) |
| device admission: `TypeOK` | yes | yes |
| device admission: `EveryDeviceIsLeasedOrCounted`, `AdmissionWithinLimit` | yes | yes, from relations between times (section 5) |
| restore: `TypeOK`, `ServicesRunOnOneIdentity`, `MixtureIsRecorded`, `ServedDataNeverGoesBack` | yes | yes |
| node control: `TypeOK`, `LifecycleMatchesNode`, `RevokedSessionsEnd`, `StopLosesNoTraffic`, `IdleStopDisconnectsNobody` | yes | yes |
| onboarding: `TypeOK`, `RegistrationIsKnown`, `RevocationIsFinal`, `RollbackLosesNoTraffic` | yes | yes |
| onboarding: `OneNodePerKey`, `LiveNodeOwnsLine`, `CertificateStays`, `SpoolHoldsTraffic`, `HalfInstalledIsRecorded`, `AnswerFindsItsInstaller`, `OnlyPanelSettles` | no | yes |
| egress and restore: `ServicesReturn`; restore: `RestoreEndsClean`; node control: `CommandsEnd`; onboarding: `PublishedServes`, `OnboardingEnds` | yes | liveness is beyond the prover |

The theorems rest on the named assumptions of the modules (`ConstantsAssumption` and its like,
`RetentionAssumption`), which TLC evaluates in every run, and, where stated, on a named
hypothesis: `RowsSuffice`, `RecordRemovalSyncs`, `UnrecordedRollbackFinishes`,
`RollbackRestarts`, `StoppedServersStay`,
`RestartsOutlastLogins`, `LeasesOutlastSnapshots`, `LeasesOutlastList`. A hypothesis is part of
the statement of each theorem that needs it.
