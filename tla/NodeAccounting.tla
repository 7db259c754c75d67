--------------------------- MODULE NodeAccounting ---------------------------
(***************************************************************************)
(* The traffic accounting pipeline between one data node and the panel:    *)
(*                                                                         *)
(*   Hysteria counters -> cumulative collector -> journal -> spool         *)
(*       -> signed control cycle -> batch ledger and user totals           *)
(*                                                                         *)
(* A unit is an indivisible piece of traffic.  A counter is the set of     *)
(* units it has counted, so that "the difference of two readings" is a set *)
(* difference and "the total of a user" is the bag `credited' of units     *)
(* added to it: an accounting error is then visible unit by unit.          *)
(***************************************************************************)
EXTENDS Naturals, FiniteSets

CONSTANTS
    Unit,          \* pieces of traffic
    Endpoint,      \* the Hysteria stats endpoints (main, udp443)
    Route,         \* Route[u]: the endpoint that carries u
    MaxEntries,    \* DurableTrafficSpool.max_entries
    PerCycle,      \* MAX_TRAFFIC_BATCHES_PER_CYCLE
    LedgerRows,    \* NODE_TRAFFIC_LEDGER_MAX_ROWS
    BatchAge,      \* MAX_TRAFFIC_BATCH_AGE_SECONDS
    LedgerAge,     \* the eight days a ledger row is kept
    StateAge,      \* MAX_STATE_AGE_SECONDS
    ClockSkew,     \* MAX_CLOCK_SKEW_SECONDS
    MaxBatch,      \* bound: batch ids in use at the same time
    MaxEpoch,      \* bound: Hysteria service invocations
    MaxNow,        \* bound: the clock
    MaxSequence,   \* bound: snapshot sequence numbers
    FaultMixes     \* bound: how often each kind happens; a run stays in one mix

FaultKind == {"crash", "disk", "endpoint", "lost", "late", "server"}

ASSUME SetsAssumption == IsFiniteSet(Unit) /\ Route \in [Unit -> Endpoint]

ASSUME BoundsAssumption ==
    /\ \A n \in {MaxEntries, PerCycle, LedgerRows, BatchAge, LedgerAge, StateAge,
                 ClockSkew, MaxBatch, MaxEpoch, MaxNow, MaxSequence} : n \in Nat
    /\ PerCycle > 0 /\ MaxEpoch > 0
    /\ FaultMixes \subseteq [FaultKind -> Nat]

\* A ledger row outlives every batch that may still be retried.
ASSUME RetentionAssumption == LedgerAge >= BatchAge

VARIABLES
    now,        \* the clock (one tick is of the order of the retention periods)
    epoch,      \* InvocationID of the service behind each endpoint
    counter,    \* units each endpoint has counted in its current epoch
    served,     \* every unit carried so far
    journal,    \* disk: the collector's checkpoint file
    staged,     \* disk: complete .traffic-* files not yet renamed
    spool,      \* disk: *.json batches waiting for the central ACK
    protocol,   \* disk: ProtocolState.sequence and .trafficAckedAt
    phase,      \* where run_once is
    mode,       \* which request the agent waits for
    sample,     \* memory: the collection being read
    work,       \* memory: batches the loop being run has still to handle
    deferred,   \* memory: the snapshot did not fit beside the traffic
    call,       \* the request the agent waits for
    late,       \* abandoned requests the panel may still execute
    ledger,     \* panel: node_traffic_batches, batch id -> applied_at
    credited,   \* panel: how often each unit was added to the totals
    snapshot,   \* panel: node_online_snapshots
    checkpoint, \* panel: node_usage_checkpoints
    sampled,    \* history: units the journal has ever recorded
    archived,   \* disk: units of batches reconciled by the operator
    spent       \* faults that have happened

hysteriaVars == <<epoch, counter, served>>
diskVars     == <<journal, staged, spool, protocol, sampled, archived>>
memoryVars   == <<phase, mode, sample, work, deferred>>
netVars      == <<call, late>>
panelVars    == <<ledger, credited, snapshot, checkpoint>>
vars == <<now, hysteriaVars, diskVars, memoryVars, netVars, panelVars, spent>>

-----------------------------------------------------------------------------
(* Data.                                                                   *)

Batch == [id : 1..MaxBatch, at : 0..MaxNow, units : SUBSET Unit]

\* What the journal knows of an endpoint: nothing (epoch 0) or a reading.
Reading  == [epoch : 0..MaxEpoch, traffic : SUBSET Unit]
Baseline == [Endpoint -> Reading]

\* `covers' is history: everything sampled before the online list was read.
Snapshot == [seq : 0..MaxSequence, at : 0..MaxNow, acked : 0..MaxNow,
             covers : SUBSET Unit]
NoSnapshot == [seq |-> 0, at |-> 0, acked |-> 0, covers |-> {}]

\* A request as the panel sees it; `todo' are the batches not applied yet and
\* `n' tells apart the requests of different attempts.
Call == [n : Nat, status : {"none", "sent", "serving", "replied", "rejected"},
         batches : SUBSET Batch, todo : SUBSET Batch, snap : Snapshot,
         sent : 0..MaxNow, at : 0..MaxNow]
NoCall == [n |-> 0, status |-> "none", batches |-> {}, todo |-> {},
           snap |-> NoSnapshot, sent |-> 0, at |-> 0]

NoReading == [epoch |-> 0, traffic |-> {}]

\* The collection under way: endpoints not finished (`left'), the one being
\* read (`cur'), the epoch label and the counters read from it, and what the
\* journal is to hold if everything goes well.
Sample == [at : 0..MaxNow, left : SUBSET Endpoint, cur : SUBSET Endpoint,
           label : 0..MaxEpoch, read : SUBSET Unit,
           base : Baseline, batches : SUBSET Batch, failed : BOOLEAN]
NewSample(at, base) ==
    [at |-> at, left |-> Endpoint, cur |-> {}, label |-> 0, read |-> {},
     base |-> base, batches |-> {}, failed |-> FALSE]
NoSample == [NewSample(0, [e \in Endpoint |-> NoReading]) EXCEPT !.left = {}]

UnitsOf(batches) == UNION {b.units : b \in batches}
Max2(a, b) == IF a >= b THEN a ELSE b
IsExpired(b) == b.at + BatchAge < now
Older(b, c) == b.at < c.at \/ (b.at = c.at /\ b.id <= c.id)
Oldest(batches) == {b \in batches : \A c \in batches : Older(b, c)}

\* Batches that exist anywhere outside the collection being read.
Travelling == call.batches \cup UNION {r.batches : r \in late}
Held == journal.pending \cup staged \cup spool \cup work \cup Travelling

\* Ids are drawn by uuid4 and never meet a live one.  Taking the least number
\* above the live ones keeps the state space finite and makes the order of ids
\* the order in which the batches were made, as the times of their files do.
LiveIds == {b.id : b \in Held \cup sample.batches} \cup DOMAIN ledger
Fresh(id) == (\A x \in LiveIds : x < id) /\ (id = 1 \/ id - 1 \in LiveIds)

Init ==
    /\ now = 0
    /\ epoch = [e \in Endpoint |-> 1]
    /\ counter = [e \in Endpoint |-> {}]
    /\ served = {}
    /\ journal = [base |-> [e \in Endpoint |-> NoReading], pending |-> {}]
    /\ staged = {} /\ spool = {}
    /\ protocol = [sequence |-> 0, ackedAt |-> 0]
    /\ phase = "idle" /\ mode = "none"
    /\ sample = NoSample
    /\ work = {} /\ deferred = FALSE
    /\ call = NoCall /\ late = {}
    /\ ledger = [id \in {} |-> 0]
    /\ credited = [u \in Unit |-> 0]
    /\ snapshot = NoSnapshot
    /\ checkpoint = "absent"
    /\ sampled = {} /\ archived = {}
    /\ spent = [k \in FaultKind |-> 0]

\* One more fault of kind k.
Fault(k) ==
    /\ spent' = [spent EXCEPT ![k] = @ + 1]
    /\ \E mix \in FaultMixes : \A j \in FaultKind : spent'[j] <= mix[j]

-----------------------------------------------------------------------------
(* Hysteria and the clock.                                                 *)

Serve(u) ==
    /\ u \notin served
    /\ served' = served \cup {u}
    /\ counter' = [counter EXCEPT ![Route[u]] = @ \cup {u}]
    /\ UNCHANGED <<now, epoch, diskVars, memoryVars, netVars, panelVars, spent>>

\* The service restarts: a new InvocationID, counters from zero.
RestartHysteria(e) ==
    /\ epoch[e] < MaxEpoch
    /\ epoch' = [epoch EXCEPT ![e] = @ + 1]
    /\ counter' = [counter EXCEPT ![e] = {}]
    /\ UNCHANGED <<now, served, diskVars, memoryVars, netVars, panelVars, spent>>

\* A request is executed within the panel's deadlines, far below one tick.
Tick ==
    /\ now < MaxNow
    /\ \A r \in {call} \cup late : r.status # "serving"
    /\ now' = now + 1
    /\ UNCHANGED <<hysteriaVars, diskVars, memoryVars, netVars, panelVars, spent>>

-----------------------------------------------------------------------------
(* Collection: CumulativeTrafficCollector.collect and recover.             *)

\* Faulty: pending batches of the journal are overlooked.
BeginCycleMutForgets ==
    /\ phase = "idle"
    /\ phase' = "epoch" /\ sample' = NewSample(now, journal.base)
    /\ UNCHANGED <<now, hysteriaVars, diskVars, mode, work, deferred, netVars,
                   panelVars, spent>>

\* run_once enters _collect_to_spool: a journal with pending batches is
\* recovered first, otherwise every endpoint is read.
BeginCycle ==
    /\ phase = "idle"
    /\ IF journal.pending # {}
       THEN phase' = "persist" /\ UNCHANGED sample
       ELSE phase' = "epoch" /\ sample' = NewSample(now, journal.base)
    /\ UNCHANGED <<now, hysteriaVars, diskVars, mode, work, deferred, netVars,
                   panelVars, spent>>

ReadEpoch(e) ==
    /\ phase = "epoch" /\ e \in sample.left
    /\ sample' = [sample EXCEPT !.cur = {e}, !.label = epoch[e]]
    /\ phase' = "read"
    /\ UNCHANGED <<now, hysteriaVars, diskVars, mode, work, deferred, netVars,
                   panelVars, spent>>

ReadCounters(e) ==
    /\ phase = "read" /\ e \in sample.cur
    /\ sample' = [sample EXCEPT !.read = counter[e]]
    /\ phase' = "recheck"
    /\ UNCHANGED <<now, hysteriaVars, diskVars, mode, work, deferred, netVars,
                   panelVars, spent>>

\* The endpoint e is finished, with or without a result.
EndpointDone(e, base, batches, failed) ==
    /\ sample' = [sample EXCEPT !.left = @ \ {e}, !.cur = {}, !.label = 0, !.read = {},
                                !.base = base, !.batches = batches,
                                !.failed = IF failed THEN TRUE ELSE @]
    /\ phase' = IF sample.left # {e} THEN "epoch"
                ELSE IF batches # {} THEN "save" ELSE "drain"

\* Faulty: every reading is reported in full.
RecordedMutFullReading(e) == {}

\* The units an earlier reading of the same epoch has already recorded.
Recorded(e) == IF sample.base[e].epoch = sample.label THEN sample.base[e].traffic ELSE {}

\* The epoch is read again: a difference means that the counters may belong to
\* another invocation, a missing unit that somebody cleared them.  A delta,
\* empty ones included, becomes a batch.
RecheckEpoch(e) ==
    /\ phase = "recheck" /\ e \in sample.cur
    /\ IF epoch[e] = sample.label /\ Recorded(e) \subseteq sample.read
       THEN \E id \in 1..MaxBatch :
              /\ Fresh(id)
              /\ EndpointDone(e,
                     [sample.base EXCEPT ![e] = [epoch |-> sample.label, traffic |-> sample.read]],
                     sample.batches \cup {[id |-> id, at |-> sample.at,
                                           units |-> sample.read \ Recorded(e)]},
                     FALSE)
       ELSE EndpointDone(e, sample.base, sample.batches, TRUE)
    /\ UNCHANGED <<now, hysteriaVars, diskVars, mode, work, deferred, netVars,
                   panelVars, spent>>

EndpointFails(e) ==
    /\ phase \in {"read", "recheck"} /\ e \in sample.cur
    /\ Fault("endpoint")
    /\ EndpointDone(e, sample.base, sample.batches, TRUE)
    /\ UNCHANGED <<now, hysteriaVars, diskVars, mode, work, deferred, netVars, panelVars>>

\* Bound: no batch id is free, the endpoint is left for a later cycle.
NoBatchId(e) ==
    /\ phase = "recheck" /\ e \in sample.cur
    /\ \A id \in 1..MaxBatch : ~Fresh(id)
    /\ EndpointDone(e, sample.base, sample.batches, TRUE)
    /\ UNCHANGED <<now, hysteriaVars, diskVars, mode, work, deferred, netVars, panelVars,
                   spent>>

\* _save replaces the checkpoint file.  The disk may refuse before the rename,
\* or the directory fsync may fail after it, when the new file is in place.
SaveOutcome(next) ==
    \/ phase' = next /\ UNCHANGED spent
    \/ phase' = "drain" /\ Fault("disk")

SaveJournal ==
    /\ phase = "save"
    /\ journal' = [base |-> sample.base, pending |-> sample.batches]
    /\ sampled' = sampled \cup UnitsOf(sample.batches)
    /\ sample' = [NoSample EXCEPT !.failed = sample.failed]
    /\ SaveOutcome("persist")
    /\ UNCHANGED <<now, hysteriaVars, staged, spool, protocol, archived, mode, work,
                   deferred, netVars, panelVars>>

SaveFails ==
    /\ phase \in {"save", "clear"}
    /\ Fault("disk")
    /\ phase' = "drain"
    /\ sample' = NoSample
    /\ UNCHANGED <<now, hysteriaVars, diskVars, mode, work, deferred, netVars, panelVars>>

\* Faulty: a full spool is taken for success.
PersistPendingMutFull ==
    /\ phase = "persist"
    /\ staged' = {} /\ spool' = spool \cup staged
    /\ LET missing == journal.pending \ spool' IN
         IF Cardinality(spool') + Cardinality(missing) > MaxEntries
         THEN phase' = "clear" /\ UNCHANGED work
         ELSE phase' = "stage" /\ work' = missing
    /\ UNCHANGED <<now, hysteriaVars, journal, protocol, sampled, archived, mode, sample,
                   deferred, netVars, panelVars, spent>>

\* persist_collections: staged files of an earlier attempt are renamed, batches
\* already in the spool are skipped, the capacity is checked for the rest.
PersistPending ==
    /\ phase = "persist"
    /\ staged' = {} /\ spool' = spool \cup staged
    /\ LET missing == journal.pending \ spool' IN
         IF Cardinality(spool') + Cardinality(missing) > MaxEntries
         THEN phase' = "drain" /\ UNCHANGED work
         ELSE phase' = "stage" /\ work' = missing
    /\ UNCHANGED <<now, hysteriaVars, journal, protocol, sampled, archived, mode, sample,
                   deferred, netVars, panelVars, spent>>

\* One batch is written and synced under its staging name.
StageBatch(b) ==
    /\ phase = "stage" /\ b \in Oldest(work)
    /\ staged' = staged \cup {b}
    /\ work' = work \ {b}
    /\ UNCHANGED <<now, hysteriaVars, journal, spool, protocol, sampled, archived, phase,
                   mode, sample, deferred, netVars, panelVars, spent>>

\* The write fails: complete staged files stay, an incomplete one is nothing.
StageFails ==
    /\ phase = "stage"
    /\ Fault("disk")
    /\ phase' = "drain" /\ work' = {}
    /\ UNCHANGED <<now, hysteriaVars, diskVars, mode, sample, deferred, netVars, panelVars>>

\* The staged batches get their final names, one rename after the other.
PromoteBatch(b) ==
    /\ phase = "stage" /\ work = {} /\ b \in Oldest(staged)
    /\ staged' = staged \ {b}
    /\ spool' = spool \cup {b}
    /\ UNCHANGED <<now, hysteriaVars, journal, protocol, sampled, archived, memoryVars,
                   netVars, panelVars, spent>>

PromotionDone ==
    /\ phase = "stage" /\ work = {} /\ staged = {}
    /\ phase' = "clear"
    /\ UNCHANGED <<now, hysteriaVars, diskVars, mode, sample, work, deferred, netVars,
                   panelVars, spent>>

\* The pending part of the checkpoint is cleared; an endpoint's failure is
\* raised only now, after the other endpoint's traffic is safe.
ClearPending ==
    /\ phase = "clear"
    /\ journal' = [journal EXCEPT !.pending = {}]
    /\ sample' = NoSample
    /\ SaveOutcome(IF sample.failed THEN "drain" ELSE "select")
    /\ UNCHANGED <<now, hysteriaVars, staged, spool, protocol, sampled, archived, mode,
                   work, deferred, netVars, panelVars>>

-----------------------------------------------------------------------------
(* The combined control cycle, the single uploads and the snapshot refresh. *)

SpoolFiles == staged \cup spool
Uploadable == {b \in SpoolFiles : ~IsExpired(b)}

\* Requests of different attempts differ: an attempt that was abandoned has
\* cost a fault.
Attempt == spent["crash"] + spent["late"]

Request(batches, snap) ==
    [n |-> Attempt, status |-> "sent", batches |-> batches, todo |-> batches,
     snap |-> snap, sent |-> now, at |-> now]

\* Faulty: the number sent is not the one that was saved.
NextSnapshotMutSkips ==
    [seq |-> protocol.sequence + 2, at |-> now, acked |-> protocol.ackedAt, covers |-> sampled]

NextSnapshot == [seq |-> protocol.sequence + 1, at |-> now, acked |-> protocol.ackedAt,
                 covers |-> sampled]

\* The first batches of the spool that fit, at most PerCycle and at least one
\* if there is any.
Selection(batches) ==
    /\ batches \subseteq Uploadable
    /\ Cardinality(batches) <= PerCycle
    /\ \A b \in batches, c \in Uploadable \ batches : Older(b, c)
    /\ batches = {} => Uploadable = {}

\* Faulty: the snapshot goes out while traffic stays behind.
SendCycleMutAlways(batches) ==
    /\ phase = "select" /\ Selection(batches)
    /\ staged' = {} /\ spool' = SpoolFiles
    /\ protocol.sequence < MaxSequence
    /\ protocol' = [protocol EXCEPT !.sequence = @ + 1]
    /\ call' = Request(batches, NextSnapshot) /\ deferred' = FALSE
    /\ phase' = "await" /\ mode' = "cycle"
    /\ UNCHANGED <<now, hysteriaVars, journal, sampled, archived, sample, work, late,
                   panelVars, spent>>

\* _run_combined: the online snapshot goes with the traffic only if nothing
\* stays behind; its sequence number is on disk before it is sent.  A snapshot
\* too large for this request is deferred.  Bound: no number is left.
SendCycle(batches) ==
    /\ phase = "select" /\ Selection(batches)
    /\ staged' = {} /\ spool' = SpoolFiles
    /\ IF batches = SpoolFiles /\ protocol.sequence < MaxSequence
       THEN /\ protocol' = [protocol EXCEPT !.sequence = @ + 1]
            /\ \/ call' = Request(batches, NextSnapshot) /\ deferred' = FALSE
               \/ call' = Request(batches, NoSnapshot) /\ deferred' = TRUE
       ELSE /\ call' = Request(batches, NoSnapshot)
            /\ deferred' = FALSE
            /\ UNCHANGED protocol
    /\ phase' = "await" /\ mode' = "cycle"
    /\ UNCHANGED <<now, hysteriaVars, journal, sampled, archived, sample, work, late,
                   panelVars, spent>>

\* _upload_pending after a collection that failed: the batches found in the
\* spool are sent one by one, and the cycle ends with the first error.
BeginDrain ==
    /\ phase = "drain"
    /\ staged' = {} /\ spool' = SpoolFiles
    /\ work' = Uploadable
    /\ phase' = "next"
    /\ UNCHANGED <<now, hysteriaVars, journal, protocol, sampled, archived, mode, sample,
                   deferred, netVars, panelVars, spent>>

SendBatch(b) ==
    /\ phase = "next" /\ b \in Oldest(work)
    /\ call' = Request({b}, NoSnapshot)
    /\ work' = work \ {b}
    /\ phase' = "await" /\ mode' = "drain"
    /\ UNCHANGED <<now, hysteriaVars, diskVars, sample, deferred, late, panelVars, spent>>

\* refresh_snapshot: refused while traffic waits anywhere or its ACK is stale.
MayRefresh == /\ journal.pending = {} /\ SpoolFiles = {}
              /\ now <= protocol.ackedAt + StateAge
              /\ protocol.sequence < MaxSequence

SendSnapshot ==
    /\ phase = "refresh" /\ MayRefresh
    /\ protocol' = [protocol EXCEPT !.sequence = @ + 1]
    /\ call' = Request({}, NextSnapshot)
    /\ phase' = "await" /\ mode' = "refresh"
    /\ UNCHANGED <<now, hysteriaVars, journal, staged, spool, sampled, archived, sample,
                   work, deferred, late, panelVars, spent>>

\* The cycle is over: nothing of it stays in memory.
EndCycle ==
    /\ phase' = "idle" /\ mode' = "none" /\ sample' = NoSample
    /\ work' = {} /\ deferred' = FALSE /\ call' = NoCall

\* Nothing more to upload, or a refresh that is refused.
NothingToSend ==
    /\ \/ phase = "next" /\ work = {}
       \/ phase = "refresh" /\ ~MayRefresh
    /\ EndCycle
    /\ UNCHANGED <<now, hysteriaVars, diskVars, late, panelVars, spent>>

\* The central ACK of every batch is there.
ReceiveReply ==
    /\ phase = "await" /\ call.status = "replied"
    /\ IF mode = "refresh"
       THEN EndCycle
       ELSE phase' = "ack" /\ work' = (IF mode = "drain" THEN work ELSE {})
            /\ UNCHANGED <<mode, sample, deferred, call>>
    /\ UNCHANGED <<now, hysteriaVars, diskVars, late, panelVars, spent>>

Acknowledged == call.batches \cap spool

\* spool.ack: an acknowledged batch leaves the disk.
AckBatch(b) ==
    /\ phase = "ack" /\ b \in Oldest(Acknowledged)
    /\ spool' = spool \ {b}
    /\ UNCHANGED <<now, hysteriaVars, journal, staged, protocol, sampled, archived,
                   memoryVars, netVars, panelVars, spent>>

\* set_traffic_ack, then what the request was for.
AcksDone ==
    /\ phase = "ack" /\ Acknowledged = {}
    /\ protocol' = IF call.batches = {} THEN protocol
                   ELSE [protocol EXCEPT !.ackedAt = Max2(@, IF mode = "drain" THEN now ELSE call.at)]
    /\ CASE mode = "drain" -> /\ phase' = "next" /\ call' = NoCall
                              /\ UNCHANGED <<mode, sample, work, deferred>>
         [] mode = "cycle" /\ deferred -> /\ phase' = "refresh" /\ call' = NoCall
                                          /\ UNCHANGED <<mode, sample, work, deferred>>
         [] OTHER -> EndCycle
    /\ UNCHANGED <<now, hysteriaVars, journal, staged, spool, sampled, archived, late,
                   panelVars, spent>>

\* The panel refuses the request: the cycle ends with an error.
ReceiveRejection ==
    /\ phase = "await" /\ call.status = "rejected"
    /\ EndCycle
    /\ UNCHANGED <<now, hysteriaVars, diskVars, late, panelVars, spent>>

\* No answer in time: the request or its answer is gone, or the panel will
\* still execute it while the agent goes on.
Unfinished(r) == r.status \in {"sent", "serving"}

Timeout ==
    /\ phase = "await"
    /\ \/ Fault("lost") /\ call.status # "serving" /\ UNCHANGED late
       \/ Fault("late") /\ Unfinished(call) /\ late' = late \cup {call}
    /\ EndCycle
    /\ UNCHANGED <<now, hysteriaVars, diskVars, panelVars>>

\* The agent dies; what it has asked for may still be executed.
Crash ==
    /\ phase # "idle"
    /\ Fault("crash")
    /\ \/ call.status # "serving" /\ UNCHANGED late
       \/ Unfinished(call) /\ late' = late \cup {call}
    /\ EndCycle
    /\ UNCHANGED <<now, hysteriaVars, diskVars, panelVars>>

\* reconcile-traffic: the operator has accounted an expired batch by hand.
Reconcile(b) ==
    /\ b \in SpoolFiles /\ IsExpired(b)
    /\ staged' = {} /\ spool' = SpoolFiles \ {b}
    /\ archived' = archived \cup b.units
    /\ UNCHANGED <<now, hysteriaVars, journal, protocol, sampled, memoryVars, netVars,
                   panelVars, spent>>

-----------------------------------------------------------------------------
(* The panel: NodeProtocolService.control_cycle and the transactions under  *)
(* it.  Requests of one node can be executed concurrently.                  *)

Requests == {call} \cup late

\* Request r becomes s; an abandoned request that is finished disappears.
Becomes(r, s) ==
    \/ r = call /\ call' = s /\ UNCHANGED late
    \/ /\ r \in late
       /\ late' = (late \ {r}) \cup (IF Unfinished(s) THEN {s} ELSE {})
       /\ UNCHANGED call

Reject(r) == Becomes(r, [r EXCEPT !.status = "rejected", !.todo = {}])

Acceptable(r) ==
    /\ now <= r.sent + ClockSkew
    /\ \A b \in r.batches : ~IsExpired(b)
    /\ r.snap # NoSnapshot =>
         /\ now <= r.snap.at + StateAge
         /\ r.batches = {} => now <= r.snap.acked + StateAge

\* Everything is validated before anything is applied.
Admit(r) ==
    /\ r.status = "sent"
    /\ IF Acceptable(r) THEN Becomes(r, [r EXCEPT !.status = "serving", !.at = now])
                        ELSE Reject(r)
    /\ UNCHANGED <<now, hysteriaVars, diskVars, memoryVars, panelVars, spent>>

\* Faulty: rows are kept only for the second they were written in.
RetainedMutYoung(rows) == {{id \in DOMAIN rows : rows[id] >= now}}

\* Rows past their age go first, then the oldest ones above the limit.
Retained(rows) ==
    LET young == {id \in DOMAIN rows : rows[id] + LedgerAge >= now}
        Before(id, other) == \/ rows[id] < rows[other]
                             \/ rows[id] = rows[other] /\ id < other
    IN  IF Cardinality(young) < LedgerRows THEN {young}
        ELSE {kept \in SUBSET young :
                /\ Cardinality(kept) + 1 = LedgerRows
                /\ \A id \in kept, gone \in young \ kept : Before(gone, id)}

\* apply_node_traffic_batch, one transaction: a batch in the ledger is a
\* duplicate; an empty batch makes the usage checkpoint stale and nothing else.
ApplyBatch(r, b) ==
    /\ r.status = "serving" /\ b \in Oldest(r.todo)
    /\ Becomes(r, [r EXCEPT !.todo = @ \ {b}])
    /\ IF b.id \in DOMAIN ledger
       THEN UNCHANGED panelVars
       ELSE /\ checkpoint' = "stale"
            /\ IF b.units = {}
               THEN UNCHANGED <<ledger, credited>>
               ELSE /\ \E kept \in Retained(ledger) :
                         ledger' = [id \in kept \cup {b.id} |->
                                      IF id = b.id THEN now ELSE ledger[id]]
                    /\ credited' = [u \in Unit |-> IF u \in b.units THEN credited[u] + 1
                                                   ELSE credited[u]]
            /\ UNCHANGED snapshot
    /\ UNCHANGED <<now, hysteriaVars, diskVars, memoryVars, spent>>

\* Faulty: the sequence number is not compared.
AcceptSnapshotMutAny(r) ==
    /\ r.status = "serving" /\ r.todo = {} /\ r.snap # NoSnapshot
    /\ snapshot' = r.snap
    /\ checkpoint' = IF checkpoint = "absent" THEN "absent" ELSE "current"
    /\ Becomes(r, [r EXCEPT !.status = "replied"])
    /\ UNCHANGED <<now, hysteriaVars, diskVars, memoryVars, ledger, credited, spent>>

\* accept_node_online_snapshot: only a higher sequence number is accepted, and
\* the usage checkpoint, where there is one, is current again.
AcceptSnapshot(r) ==
    /\ r.status = "serving" /\ r.todo = {} /\ r.snap # NoSnapshot
    /\ IF r.snap.seq > snapshot.seq
       THEN /\ snapshot' = r.snap
            /\ checkpoint' = IF checkpoint = "absent" THEN "absent" ELSE "current"
            /\ Becomes(r, [r EXCEPT !.status = "replied"])
       ELSE Reject(r) /\ UNCHANGED <<snapshot, checkpoint>>
    /\ UNCHANGED <<now, hysteriaVars, diskVars, memoryVars, ledger, credited, spent>>

Reply(r) ==
    /\ r.status = "serving" /\ r.todo = {} /\ r.snap = NoSnapshot
    /\ Becomes(r, [r EXCEPT !.status = "replied"])
    /\ UNCHANGED <<now, hysteriaVars, diskVars, memoryVars, panelVars, spent>>

\* The panel fails between two transactions; what is committed stays.
ServerFails(r) ==
    /\ Unfinished(r)
    /\ Fault("server")
    /\ Reject(r)
    /\ UNCHANGED <<now, hysteriaVars, diskVars, memoryVars, panelVars>>

-----------------------------------------------------------------------------
Collect ==
    \/ BeginCycle \/ SaveJournal \/ PersistPending \/ PromotionDone \/ ClearPending
    \/ \E e \in Endpoint : ReadEpoch(e) \/ ReadCounters(e) \/ RecheckEpoch(e) \/ NoBatchId(e)
    \/ \E b \in work : StageBatch(b)
    \/ \E b \in staged : PromoteBatch(b)

Upload ==
    \/ \E batches \in SUBSET Uploadable : SendCycle(batches)
    \/ BeginDrain \/ SendSnapshot \/ NothingToSend
    \/ \E b \in work : SendBatch(b)
    \/ ReceiveReply \/ AcksDone \/ ReceiveRejection
    \/ \E b \in spool : AckBatch(b)

Panel ==
    \E r \in Requests :
        \/ Admit(r) \/ AcceptSnapshot(r) \/ Reply(r)
        \/ \E b \in r.todo : ApplyBatch(r, b)

Faults ==
    \/ \E e \in Endpoint : EndpointFails(e)
    \/ SaveFails \/ StageFails \/ Timeout \/ Crash
    \/ \E r \in Requests : ServerFails(r)

Environment ==
    \/ \E u \in Unit : Serve(u)
    \/ \E e \in Endpoint : RestartHysteria(e)
    \/ Tick
    \/ \E b \in SpoolFiles : Reconcile(b)

Next == Collect \/ Upload \/ Panel \/ Faults \/ Environment

Spec == Init /\ [][Next]_vars

-----------------------------------------------------------------------------
(* What the pipeline promises.                                             *)

TypeOK ==
    /\ now \in 0..MaxNow
    /\ epoch \in [Endpoint -> 0..MaxEpoch]
    /\ counter \in [Endpoint -> SUBSET Unit]
    /\ served \subseteq Unit
    /\ journal \in [base : Baseline, pending : SUBSET Batch]
    /\ staged \subseteq Batch /\ spool \subseteq Batch
    /\ protocol \in [sequence : 0..MaxSequence, ackedAt : 0..MaxNow]
    /\ phase \in {"idle", "epoch", "read", "recheck", "save", "persist", "stage", "clear",
                  "select", "drain", "next", "await", "ack", "refresh"}
    /\ mode \in {"none", "cycle", "drain", "refresh"}
    /\ sample \in Sample
    /\ work \subseteq Batch
    /\ deferred \in BOOLEAN
    /\ call \in Call
    /\ late \subseteq Call
    /\ DOMAIN ledger \subseteq 1..MaxBatch
    /\ ledger \in [DOMAIN ledger -> 0..MaxNow]
    /\ credited \in [Unit -> Nat]
    /\ snapshot \in Snapshot
    /\ checkpoint \in {"absent", "stale", "current"}
    /\ sampled \subseteq Unit /\ archived \subseteq Unit
    /\ spent \in [FaultKind -> Nat]

\* Units whose accounting is final: in the totals, or archived by the operator.
Settled == {u \in Unit : credited[u] > 0} \cup archived

\* No traffic is counted twice, whatever is retried, crashes, restarts or
\* arrives late: apply_node_traffic_batch and the collector's stable ids.
ExactlyOnce == \A u \in Unit : credited[u] <= 1

\* Traffic the journal has recorded is never lost: as long as it is not
\* settled it is on the agent's disk, in the journal or in the spool.
NothingLost ==
    sampled \subseteq Settled \cup UnitsOf(journal.pending \cup staged \cup spool)

\* Only a restart of Hysteria loses traffic: until the first one, what an
\* endpoint has carried is recorded or belongs to the next delta.  No failure
\* moves a baseline past traffic that was not recorded.
NextDelta(e) ==
    counter[e] \ (IF journal.base[e].epoch = epoch[e] THEN journal.base[e].traffic ELSE {})
LostOnlyByRestart ==
    \A e \in Endpoint :
        epoch[e] = 1 => {u \in served : Route[u] = e} \subseteq sampled \cup NextDelta(e)

\* A usage answer is complete only if every unit sampled before the online
\* list it shows is in the totals (user_usage trusts the checkpoint for that).
CompleteUsageCoversTraffic ==
    checkpoint = "current" => snapshot.covers \subseteq Settled

\* The online picture of the panel never goes back to an older observation,
\* though requests of several attempts arrive in any order.
SnapshotsNeverRegress ==
    [][snapshot.covers \subseteq snapshot'.covers]_vars

\* Traffic no reading can bring back: counted by an invocation that is over and
\* not part of the collection under way.
Gone == served \ (sampled \cup (UNION {counter[e] : e \in Endpoint})
                          \cup UnitsOf(sample.batches))

\* The pipeline implements the abstract ledger.
Abstract == INSTANCE TrafficLedger WITH
    carried <- served, recorded <- sampled, gone <- Gone,
    total <- credited, archive <- archived
ImplementsTrafficLedger == Abstract!LedgerSpec

-----------------------------------------------------------------------------
(* Liveness.  The control loop runs one cycle after the other and the panel *)
(* answers; faults are bounded, so that both work undisturbed in the end.   *)

FairSpec == Spec /\ WF_vars(Collect \/ Upload) /\ WF_vars(Panel)

ExpiredHeld == \E x \in journal.pending \cup staged \cup spool : IsExpired(x)

\* Recorded traffic reaches the totals, unless a batch expires meanwhile, which
\* waits for the operator and may fill the spool.
SampledIsSettled ==
    \A u \in Unit : u \in sampled ~> (u \in Settled \/ ExpiredHeld)
=============================================================================
