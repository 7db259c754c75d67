------------------------ MODULE NodeAccountingProof ------------------------
(***************************************************************************)
(* Proofs about NodeAccounting, for every value of its constants.          *)
(***************************************************************************)
EXTENDS NodeAccounting, FiniteSetTheorems, TLAPS

USE DEF Max2

-----------------------------------------------------------------------------
(* Types.                                                                  *)

\* The values requests are made of have the right types.
LEMMA RequestType ==
    ASSUME TypeOK, NEW batches \in SUBSET Batch, NEW snap \in Snapshot
    PROVE  Request(batches, snap) \in Call
  BY DEF TypeOK, Request, Call, Attempt, FaultKind

\* The empty request and the empty snapshot are of their types.
LEMMA NoCallType == NoCall \in Call /\ NoSnapshot \in Snapshot
  BY BoundsAssumption DEF NoCall, Call, NoSnapshot, Snapshot

\* A collector that knows nothing has a baseline.
LEMMA EmptyBaseline == 0 \in 0..MaxNow /\ [e \in Endpoint |-> NoReading] \in Baseline
  BY BoundsAssumption DEF Baseline, Reading, NoReading

\* A collection that begins, and one that is over, are of the right type.
LEMMA NoSampleType == ASSUME NEW at \in 0..MaxNow, NEW base \in Baseline
                      PROVE  NewSample(at, base) \in Sample /\ NoSample \in Sample
<1>1. 0 \in 0..MaxNow /\ 0 \in 0..MaxEpoch
  BY BoundsAssumption
<1>2. [e \in Endpoint |-> NoReading] \in Baseline
  BY <1>1 DEF Baseline, Reading, NoReading
<1>3. \A t \in 0..MaxNow, x \in Baseline : NewSample(t, x) \in Sample
  BY <1>1 DEF NewSample, Sample
<1> QED
  BY <1>1, <1>2, <1>3 DEF NoSample, Sample

\* A request of the right type becomes one of the right type.
LEMMA BecomesType ==
    ASSUME TypeOK, NEW r, NEW s \in Call, Becomes(r, s)
    PROVE  call' \in Call /\ late' \subseteq Call
  BY DEF TypeOK, Becomes

\* What the panel works on are requests.
LEMMA RequestsType == TypeOK => Requests \subseteq Call
  BY DEF TypeOK, Requests

\* The variables start with their types.
LEMMA TypeInit == Init => TypeOK
<1> SUFFICES ASSUME Init PROVE TypeOK
  OBVIOUS
<1>1. 0 \in 0..MaxNow /\ 0 \in 0..MaxEpoch /\ 0 \in 0..MaxSequence
  BY BoundsAssumption
<1>2. [e \in Endpoint |-> NoReading] \in Baseline /\ 1 \in 0..MaxEpoch
  BY <1>1, BoundsAssumption DEF Baseline, Reading, NoReading
<1>3. sample \in Sample
  BY <1>1, <1>2, NoSampleType DEF Init
<1> QED
  BY <1>1, <1>2, <1>3, NoCallType, BoundsAssumption DEF Init, TypeOK

\* An endpoint that is finished leaves a collection of the right type.
LEMMA DoneType ==
    ASSUME TypeOK, NEW e \in Endpoint, NEW base \in Baseline, NEW batches \in SUBSET Batch,
           NEW failed \in BOOLEAN, EndpointDone(e, base, batches, failed)
    PROVE  sample' \in Sample /\ phase' \in {"epoch", "save", "drain"}
<1>1. 0 \in 0..MaxEpoch /\ sample.left \ {e} \in SUBSET Endpoint
  BY BoundsAssumption DEF TypeOK, Sample
<1>2. (IF failed THEN TRUE ELSE sample.failed) \in BOOLEAN
  BY DEF TypeOK, Sample
<1> QED
  BY <1>1, <1>2 DEF EndpointDone, TypeOK, Sample

\* Every action keeps the types.  One lemma per part of Next.
LEMMA TypeCollect == TypeOK /\ Collect => TypeOK'
<1> SUFFICES ASSUME TypeOK, Collect PROVE TypeOK'
  OBVIOUS
<1> USE DEF TypeOK
<1>1. CASE BeginCycle
  <2>1. sample' \in Sample
    BY <1>1, NoSampleType DEF BeginCycle
  <2> QED
    BY <1>1, <2>1 DEF BeginCycle, hysteriaVars, diskVars, netVars, panelVars
<1>2. CASE SaveJournal
  <2>1. sample' \in Sample /\ journal' \in [base : Baseline, pending : SUBSET Batch]
    BY <1>2, NoSampleType, BoundsAssumption DEF SaveJournal, Sample
  <2>2. sampled' \subseteq Unit
    BY <1>2 DEF SaveJournal, UnitsOf, Sample, Batch
  <2>3. spent' \in [FaultKind -> Nat] /\ phase' \in {"persist", "drain"}
    BY <1>2 DEF SaveJournal, SaveOutcome, Fault, FaultKind
  <2> QED
    BY <1>2, <2>1, <2>2, <2>3 DEF SaveJournal, hysteriaVars, netVars, panelVars
<1>3. CASE PersistPending
  BY <1>3 DEF PersistPending, hysteriaVars, netVars, panelVars
<1>4. CASE PromotionDone
  BY <1>4 DEF PromotionDone, hysteriaVars, diskVars, netVars, panelVars
<1>5. CASE ClearPending
  <2>1. spent' \in [FaultKind -> Nat] /\ phase' \in {"select", "drain"}
    BY <1>5 DEF ClearPending, SaveOutcome, Fault, FaultKind
  <2>2. sample' \in Sample
    BY <1>5, NoSampleType, BoundsAssumption DEF ClearPending
  <2> QED
    BY <1>5, <2>1, <2>2 DEF ClearPending, hysteriaVars, netVars, panelVars
<1>6. ASSUME NEW e \in Endpoint, ReadEpoch(e) PROVE TypeOK'
  <2>1. sample' \in Sample
    <3>1. {e} \in SUBSET Endpoint /\ epoch[e] \in 0..MaxEpoch
      OBVIOUS
    <3> QED
      BY <1>6, <3>1 DEF ReadEpoch, Sample
  <2> QED
    BY <1>6, <2>1 DEF ReadEpoch, hysteriaVars, diskVars, netVars, panelVars
<1>7. CASE \E e \in Endpoint : ReadCounters(e)
  <2>1. sample' \in Sample
    BY <1>7 DEF ReadCounters, Sample
  <2> QED
    BY <1>7, <2>1 DEF ReadCounters, hysteriaVars, diskVars, netVars, panelVars
<1>8. ASSUME NEW e \in Endpoint, RecheckEpoch(e) PROVE TypeOK'
  <2>1. sample' \in Sample /\ phase' \in {"epoch", "save", "drain"}
    <3>1. CASE EndpointDone(e, sample.base, sample.batches, TRUE)
      BY <3>1, DoneType DEF Sample
    <3>2. CASE \E id \in 1..MaxBatch : EndpointDone(e,
                  [sample.base EXCEPT ![e] = [epoch |-> sample.label, traffic |-> sample.read]],
                  sample.batches \cup {[id |-> id, at |-> sample.at,
                                        units |-> sample.read \ Recorded(e)]}, FALSE)
      <4>1. PICK id \in 1..MaxBatch : EndpointDone(e,
                  [sample.base EXCEPT ![e] = [epoch |-> sample.label, traffic |-> sample.read]],
                  sample.batches \cup {[id |-> id, at |-> sample.at,
                                        units |-> sample.read \ Recorded(e)]}, FALSE)
        BY <3>2
      <4>2. [id |-> id, at |-> sample.at, units |-> sample.read \ Recorded(e)] \in Batch
        BY DEF Batch, Sample
      <4>3. [sample.base EXCEPT ![e] = [epoch |-> sample.label, traffic |-> sample.read]]
              \in Baseline
        BY DEF Baseline, Reading, Sample
      <4> QED
        BY <4>1, <4>2, <4>3, DoneType DEF Sample
    <3> QED
      BY <1>8, <3>1, <3>2 DEF RecheckEpoch
  <2> QED
    BY <1>8, <2>1 DEF RecheckEpoch, hysteriaVars, diskVars, netVars, panelVars
<1>9. ASSUME NEW e \in Endpoint, NoBatchId(e) PROVE TypeOK'
  <2>1. sample' \in Sample /\ phase' \in {"epoch", "save", "drain"}
    BY <1>9, DoneType DEF NoBatchId, Sample
  <2> QED
    BY <1>9, <2>1 DEF NoBatchId, hysteriaVars, diskVars, netVars, panelVars
<1>10. CASE \E b \in work : StageBatch(b)
  BY <1>10 DEF StageBatch, hysteriaVars, netVars, panelVars
<1>11. CASE \E b \in staged : PromoteBatch(b)
  BY <1>11 DEF PromoteBatch, hysteriaVars, memoryVars, netVars, panelVars
<1> QED
  BY <1>1, <1>2, <1>3, <1>4, <1>5, <1>6, <1>7, <1>8, <1>9, <1>10, <1>11 DEF Collect

\* The end of a cycle leaves memory with its types.
LEMMA EndCycleType == ASSUME EndCycle
                      PROVE  /\ phase' = "idle" /\ mode' = "none" /\ sample' \in Sample
                             /\ work' = {} /\ deferred' = FALSE /\ call' \in Call
  BY EmptyBaseline, NoSampleType, NoCallType DEF EndCycle

\* The upload keeps the types.
LEMMA TypeUpload == TypeOK /\ Upload => TypeOK'
<1> SUFFICES ASSUME TypeOK, Upload PROVE TypeOK'
  OBVIOUS
<1> USE DEF TypeOK
<1>0. ASSUME protocol.sequence < MaxSequence
      PROVE  NextSnapshot \in Snapshot /\ protocol.sequence + 1 \in 0..MaxSequence
  BY <1>0, BoundsAssumption DEF NextSnapshot, Snapshot
<1>1. ASSUME NEW batches \in SUBSET Uploadable, SendCycle(batches) PROVE TypeOK'
  <2>1. batches \in SUBSET Batch
    BY DEF Uploadable, SpoolFiles
  <2>2. call' \in Call /\ protocol' \in [sequence : 0..MaxSequence, ackedAt : 0..MaxNow]
    BY <1>0, <1>1, <2>1, RequestType, NoCallType DEF SendCycle
  <2>3. deferred' \in BOOLEAN
    BY <1>1 DEF SendCycle
  <2> QED
    BY <1>1, <2>2, <2>3 DEF SendCycle, SpoolFiles, hysteriaVars, panelVars
<1>2. CASE BeginDrain
  BY <1>2 DEF BeginDrain, Uploadable, SpoolFiles, hysteriaVars, netVars, panelVars
<1>3. CASE SendSnapshot
  <2>1. call' \in Call /\ protocol' \in [sequence : 0..MaxSequence, ackedAt : 0..MaxNow]
    BY <1>0, <1>3, RequestType DEF SendSnapshot, MayRefresh
  <2> QED
    BY <1>3, <2>1 DEF SendSnapshot, hysteriaVars, panelVars
<1>4. CASE NothingToSend
  BY <1>4, EndCycleType DEF NothingToSend, hysteriaVars, diskVars, panelVars
<1>5. ASSUME NEW b \in work, SendBatch(b) PROVE TypeOK'
  <2>1. call' \in Call
    BY <1>5, RequestType, NoCallType DEF SendBatch
  <2> QED
    BY <1>5, <2>1 DEF SendBatch, hysteriaVars, diskVars, panelVars
<1>6. CASE ReceiveReply
  BY <1>6, EndCycleType DEF ReceiveReply, hysteriaVars, diskVars, panelVars
<1>7. CASE AcksDone
  <2>1. protocol' \in [sequence : 0..MaxSequence, ackedAt : 0..MaxNow]
    BY <1>7, BoundsAssumption DEF AcksDone, Call
  <2>2. /\ phase' \in {"next", "refresh", "idle"} /\ mode' \in {mode, "none"}
        /\ sample' \in Sample /\ work' \subseteq Batch /\ deferred' \in BOOLEAN
        /\ call' \in Call
    BY <1>7, EndCycleType, NoCallType DEF AcksDone
  <2> QED
    BY <1>7, <2>1, <2>2 DEF AcksDone, hysteriaVars, panelVars
<1>8. CASE ReceiveRejection
  BY <1>8, EndCycleType DEF ReceiveRejection, hysteriaVars, diskVars, panelVars
<1>9. CASE \E b \in spool : AckBatch(b)
  BY <1>9 DEF AckBatch, hysteriaVars, memoryVars, netVars, panelVars
<1> QED
  BY <1>1, <1>2, <1>3, <1>4, <1>5, <1>6, <1>7, <1>8, <1>9 DEF Upload

\* What the panel turns a request into is a request.
LEMMA ServedType ==
    ASSUME TypeOK, NEW r \in Call
    PROVE  /\ [r EXCEPT !.status = "serving", !.at = now] \in Call
           /\ [r EXCEPT !.status = "rejected", !.todo = {}] \in Call
           /\ [r EXCEPT !.status = "replied"] \in Call
           /\ \A b : [r EXCEPT !.todo = @ \ {b}] \in Call
  BY DEF TypeOK, Call

\* The panel keeps the types.
LEMMA TypePanel == TypeOK /\ Panel => TypeOK'
<1> SUFFICES ASSUME TypeOK, NEW r \in Requests,
                    \/ Admit(r) \/ AcceptSnapshot(r) \/ Reply(r)
                    \/ \E b \in r.todo : ApplyBatch(r, b)
             PROVE  TypeOK'
  BY DEF Panel
<1>0. r \in Call
  BY RequestsType
<1> USE DEF TypeOK
<1>1. CASE Admit(r)
  <2>1. call' \in Call /\ late' \subseteq Call
    BY <1>0, <1>1, ServedType, BecomesType DEF Admit, Reject
  <2> QED
    BY <1>1, <2>1 DEF Admit, hysteriaVars, diskVars, memoryVars, panelVars
<1>2. CASE AcceptSnapshot(r)
  <2>1. call' \in Call /\ late' \subseteq Call
    BY <1>0, <1>2, ServedType, BecomesType DEF AcceptSnapshot, Reject
  <2>2. snapshot' \in Snapshot /\ checkpoint' \in {"absent", "stale", "current"}
    BY <1>0, <1>2 DEF AcceptSnapshot, Call
  <2> QED
    BY <1>2, <2>1, <2>2 DEF AcceptSnapshot, hysteriaVars, diskVars, memoryVars
<1>3. CASE Reply(r)
  <2>1. call' \in Call /\ late' \subseteq Call
    BY <1>0, <1>3, ServedType, BecomesType DEF Reply
  <2> QED
    BY <1>3, <2>1 DEF Reply, hysteriaVars, diskVars, memoryVars, panelVars
<1>4. ASSUME NEW b \in r.todo, ApplyBatch(r, b) PROVE TypeOK'
  <2>1. call' \in Call /\ late' \subseteq Call
    BY <1>0, <1>4, ServedType, BecomesType DEF ApplyBatch
  <2>2. b.id \in 1..MaxBatch
    BY <1>0 DEF Call, Batch
  <2>3. /\ DOMAIN ledger' \subseteq 1..MaxBatch /\ ledger' \in [DOMAIN ledger' -> 0..MaxNow]
        /\ credited' \in [Unit -> Nat] /\ checkpoint' \in {"absent", "stale", "current"}
        /\ snapshot' = snapshot
    <3>1. CASE UNCHANGED panelVars
      BY <3>1 DEF panelVars
    <3>2. CASE checkpoint' = "stale" /\ snapshot' = snapshot /\ UNCHANGED <<ledger, credited>>
      BY <3>2
    <3>3. ASSUME checkpoint' = "stale", snapshot' = snapshot,
                 NEW kept \in Retained(ledger),
                 ledger' = [id \in kept \cup {b.id} |-> IF id = b.id THEN now ELSE ledger[id]],
                 credited' = [u \in Unit |-> IF u \in b.units THEN credited[u] + 1
                                            ELSE credited[u]]
          PROVE  /\ DOMAIN ledger' \subseteq 1..MaxBatch
                 /\ ledger' \in [DOMAIN ledger' -> 0..MaxNow]
                 /\ credited' \in [Unit -> Nat]
                 /\ checkpoint' \in {"absent", "stale", "current"}
      <4>1. kept \subseteq DOMAIN ledger
        BY <3>3 DEF Retained
      <4> QED
        BY <2>2, <3>3, <4>1
    <3> QED
      BY <1>4, <3>1, <3>2, <3>3 DEF ApplyBatch
  <2> QED
    BY <1>4, <2>1, <2>3 DEF ApplyBatch, hysteriaVars, diskVars, memoryVars
<1> QED
  BY <1>1, <1>2, <1>3, <1>4

\* Counting a fault keeps the counters of faults.
LEMMA FaultType == ASSUME TypeOK, NEW k \in FaultKind, Fault(k)
                   PROVE  spent' \in [FaultKind -> Nat]
  BY DEF TypeOK, Fault

\* Faults keep the types.
LEMMA TypeFaults == TypeOK /\ Faults => TypeOK'
<1> SUFFICES ASSUME TypeOK, Faults PROVE TypeOK'
  OBVIOUS
<1> USE DEF TypeOK
<1>0. {"crash", "disk", "endpoint", "lost", "late", "server"} = FaultKind
  BY DEF FaultKind
<1>1. ASSUME NEW e \in Endpoint, EndpointFails(e) PROVE TypeOK'
  <2>1. sample' \in Sample /\ phase' \in {"epoch", "save", "drain"}
    BY <1>1, DoneType DEF EndpointFails, Sample
  <2> QED
    BY <1>0, <1>1, <2>1, FaultType DEF EndpointFails, hysteriaVars, diskVars, netVars, panelVars
<1>2. CASE SaveFails
  BY <1>0, <1>2, FaultType, NoSampleType, EmptyBaseline
     DEF SaveFails, hysteriaVars, diskVars, netVars, panelVars
<1>3. CASE StageFails
  BY <1>0, <1>3, FaultType DEF StageFails, hysteriaVars, diskVars, netVars, panelVars
<1>4. CASE Timeout
  BY <1>0, <1>4, FaultType, EndCycleType DEF Timeout, hysteriaVars, diskVars, panelVars
<1>5. CASE Crash
  BY <1>0, <1>5, FaultType, EndCycleType DEF Crash, hysteriaVars, diskVars, panelVars
<1>6. ASSUME NEW r \in Requests, ServerFails(r) PROVE TypeOK'
  <2>1. call' \in Call /\ late' \subseteq Call
    BY <1>6, RequestsType, ServedType, BecomesType DEF ServerFails, Reject
  <2> QED
    BY <1>0, <1>6, <2>1, FaultType DEF ServerFails, hysteriaVars, diskVars, memoryVars, panelVars
<1> QED
  BY <1>1, <1>2, <1>3, <1>4, <1>5, <1>6 DEF Faults

\* Hysteria, the clock and the operator keep the types.
LEMMA TypeEnvironment == TypeOK /\ Environment => TypeOK'
<1> SUFFICES ASSUME TypeOK, Environment PROVE TypeOK'
  OBVIOUS
<1> USE DEF TypeOK
<1>1. ASSUME NEW u \in Unit, Serve(u) PROVE TypeOK'
  BY <1>1, SetsAssumption DEF Serve, diskVars, memoryVars, netVars, panelVars
<1>2. ASSUME NEW e \in Endpoint, RestartHysteria(e) PROVE TypeOK'
  BY <1>2, BoundsAssumption DEF RestartHysteria, diskVars, memoryVars, netVars, panelVars
<1>3. CASE Tick
  BY <1>3, BoundsAssumption DEF Tick, hysteriaVars, diskVars, memoryVars, netVars, panelVars
<1>4. ASSUME NEW b \in SpoolFiles, Reconcile(b) PROVE TypeOK'
  <2>1. b \in Batch
    BY DEF SpoolFiles
  <2> QED
    BY <1>4, <2>1 DEF Reconcile, SpoolFiles, Batch, hysteriaVars, memoryVars, netVars, panelVars
<1> QED
  BY <1>1, <1>2, <1>3, <1>4 DEF Environment

\* So does a step that changes nothing.
LEMMA TypeStutter == TypeOK /\ UNCHANGED vars => TypeOK'
  BY DEF TypeOK, vars, hysteriaVars, diskVars, memoryVars, netVars, panelVars

\* The variables of the pipeline always have their types; in particular no
\* sequence number, time or batch id leaves its bound.
THEOREM TypeCorrect == Spec => []TypeOK
<1>1. TypeOK /\ [Next]_vars => TypeOK'
  BY TypeCollect, TypeUpload, TypePanel, TypeFaults, TypeEnvironment, TypeStutter DEF Next
<1> QED
  BY <1>1, TypeInit, PTL DEF Spec

-----------------------------------------------------------------------------
(* The inductive invariant.                                                *)

Sampling == phase \in {"epoch", "read", "recheck", "save"}
OnDisk == journal.pending \cup staged \cup spool
NewUnits == UnitsOf(sample.batches)

\* Batches that differ have different ids and no unit in common.
Apart == \A x, y \in Held \cup sample.batches :
            x # y => x.id # y.id /\ x.units \cap y.units = {}

\* What travels is recorded, what is being read is not, and only recorded
\* traffic has been credited, once.
Origins == /\ UnitsOf(Held) \subseteq sampled
           /\ NewUnits \cap sampled = {}
           /\ \A u \in Unit : credited[u] <= 1 /\ (credited[u] = 1 => u \in sampled)

\* Of a batch that may still be applied, the ledger knows whether it has been.
LedgerKnows ==
    \A x \in Held : \A u \in x.units :
        /\ credited[u] = 1 => x.id \in DOMAIN ledger \/ IsExpired(x)
        /\ credited[u] = 0 => x.id \notin DOMAIN ledger

\* A ledger row is not older than its batch.
RowTimes == /\ \A x \in Held : x.id \in DOMAIN ledger => x.at <= ledger[x.id]
            /\ \A x \in Held \cup sample.batches : x.at <= now
            /\ sample.at <= now

NewIds == \A x \in sample.batches : x.id \notin DOMAIN ledger

\* A baseline splits the counter of its epoch into recorded and new units.
Splits(base, recorded, of, counted) ==
    \A e \in Endpoint :
        /\ base[e].epoch <= of[e]
        /\ base[e].traffic \subseteq recorded
        /\ base[e].epoch = of[e] =>
             /\ base[e].traffic \subseteq counted[e]
             /\ (counted[e] \ base[e].traffic) \cap recorded = {}
        /\ base[e].epoch < of[e] => counted[e] \cap recorded = {}
BaseOK(base, recorded) == Splits(base, recorded, epoch, counter)

Baselines == /\ BaseOK(journal.base, sampled)
             /\ Sampling => BaseOK(sample.base, sampled \cup NewUnits)

Carried == /\ sampled \subseteq served /\ NewUnits \subseteq served
           /\ \A e \in Endpoint : \A u \in counter[e] : u \in served /\ Route[u] = e

\* The endpoint being read.
Reads ==
    /\ \A e, f \in sample.cur : e = f
    /\ phase \in {"read", "recheck"} => \A e \in sample.cur : sample.label <= epoch[e]
    /\ phase = "recheck" =>
         \A e \in sample.cur : sample.label = epoch[e] => sample.read \subseteq counter[e]

\* Where run_once is, and what is on disk then.
Phases ==
    /\ Sampling => journal.pending = {}
    /\ ~Sampling => sample.batches = {}
    /\ phase = "stage" =>
         UnitsOf(journal.pending \ work) \subseteq Settled \cup UnitsOf(staged \cup spool)
    /\ phase = "clear" => UnitsOf(journal.pending) \subseteq Settled \cup UnitsOf(staged \cup spool)
    /\ phase = "select" => journal.pending = {}
    /\ phase = "ack" => call.status = "replied"

\* The panel's progress with a request: what is no longer to be done is done.
Progress(r) ==
    /\ r.todo \subseteq r.batches
    /\ r.status = "sent" => r.todo = r.batches
    /\ r.status \in {"serving", "replied"} =>
         \A x \in r.batches \ r.todo : \A u \in x.units : credited[u] = 1
    /\ r.status = "replied" => r.todo = {}
    /\ r.status = "serving" => \A x \in r.batches : ~IsExpired(x)
    /\ r.status \in {"sent", "serving"} => r.snap.covers \subseteq Settled \cup UnitsOf(r.todo)

Covered == /\ \A r \in Requests : Progress(r)
           /\ snapshot.covers \subseteq Settled

Batches == Apart /\ Origins /\ LedgerKnows /\ RowTimes /\ NewIds
Sources == Baselines /\ Carried /\ Reads
Agent == NothingLost /\ Phases /\ Covered
Inv == TypeOK /\ Batches /\ Sources /\ Agent

-----------------------------------------------------------------------------
(* Steps that leave most of the state alone.                               *)

\* No batch appears: the facts about batches stay.
LEMMA BatchesFrame ==
    ASSUME Batches, Held' \subseteq Held, sample'.batches \subseteq sample.batches,
           sample'.at <= now, UNCHANGED <<now, ledger, credited, sampled>>
    PROVE  Batches'
<1> USE DEF Batches
<1>1. Apart'
  BY DEF Apart
<1>2. Origins'
  BY DEF Origins, UnitsOf, NewUnits
<1>3. LedgerKnows'
  BY DEF LedgerKnows, IsExpired
<1>4. RowTimes' /\ NewIds'
  BY DEF RowTimes, NewIds
<1> QED
  BY <1>1, <1>2, <1>3, <1>4

\* Nothing is being read and the sources did not change.
LEMMA SourcesQuiet ==
    ASSUME Sources, UNCHANGED <<epoch, counter, served, sampled>>,
           journal'.base = journal.base, ~Sampling', sample'.batches = {},
           sample'.cur = {} \/ sample'.cur = sample.cur
    PROVE  Sources'
<1> USE DEF Sources
<1>1. Baselines'
  BY DEF Baselines, BaseOK, Splits
<1>2. Carried'
  BY DEF Carried, NewUnits, UnitsOf
<1>3. Reads'
  BY DEF Reads, Sampling
<1> QED
  BY <1>1, <1>2, <1>3

\* The agent is where it was and so are the sources.
LEMMA SourcesSame ==
    ASSUME Sources, UNCHANGED <<epoch, counter, served, sampled, phase, sample>>,
           journal'.base = journal.base
    PROVE  Sources'
  BY DEF Sources, Baselines, BaseOK, Splits, Carried, NewUnits, UnitsOf, Reads, Sampling

\* The requests did not change, nor did the panel.
LEMMA CoveredSame ==
    ASSUME Covered, UNCHANGED <<call, late, credited, snapshot, archived, now>>
    PROVE  Covered'
  BY DEF Covered, Requests, Progress, Settled, UnitsOf, IsExpired

\* What is settled stays settled.
LEMMA SettledGrows ==
    ASSUME TypeOK, archived \subseteq archived',
           \A u \in Unit : credited[u] > 0 => credited'[u] > 0
    PROVE  Settled \subseteq Settled'
  BY DEF Settled

\* The disk holds what it held, the panel is as it was and no request appears.
LEMMA AgentFrame ==
    ASSUME Agent, UNCHANGED <<now, credited, snapshot, archived, sampled>>,
           Requests' \subseteq Requests \cup {NoCall}, OnDisk \subseteq OnDisk', Phases'
    PROVE  Agent'
<1>1. NothingLost'
  BY DEF Agent, NothingLost, UnitsOf, OnDisk, Settled
<1>2. \A r \in Requests : Progress(r)'
  BY DEF Agent, Covered, Progress, Settled, UnitsOf, IsExpired
<1>3. Progress(NoCall)'
  BY DEF Progress, NoCall
<1>4. Covered'
  BY <1>1, <1>2, <1>3 DEF Agent, Covered, Settled
<1> QED
  BY <1>1, <1>4 DEF Agent

-----------------------------------------------------------------------------
(* Collection.                                                             *)

\* An endpoint without a result changes no baseline and adds no batch.
LEMMA FailedEndpoint ==
    ASSUME Inv, NEW e \in Endpoint, phase \in {"read", "recheck"},
           EndpointDone(e, sample.base, sample.batches, TRUE),
           UNCHANGED <<now, hysteriaVars, diskVars, mode, work, deferred, netVars, panelVars>>
    PROVE  Batches' /\ Sources' /\ Agent'
<1> USE DEF Inv
<1>0. /\ sample'.batches = sample.batches /\ sample'.base = sample.base
      /\ sample'.at = sample.at /\ sample'.cur = {}
      /\ phase' \in {"epoch", "save", "drain"}
      /\ phase' = "drain" => sample.batches = {}
      /\ Sampling
  BY DEF EndpointDone, TypeOK, Sample, Sampling
<1>1. Batches'
  BY <1>0, BatchesFrame DEF Held, Travelling, diskVars, netVars, panelVars, Batches, RowTimes
<1>2. Sources'
  BY <1>0 DEF Sources, Baselines, BaseOK, Splits, Carried, Reads, Sampling, NewUnits, UnitsOf,
              hysteriaVars, diskVars
<1>3. Phases'
  BY <1>0 DEF Agent, Phases, Sampling, diskVars
<1>4. Agent'
  BY <1>3, AgentFrame DEF OnDisk, Requests, diskVars, netVars, panelVars
<1> QED
  BY <1>1, <1>2, <1>4

\* A cycle starts from the journal's baselines, with nothing read.
LEMMA InvBeginCycle == Inv /\ BeginCycle => Batches' /\ Sources' /\ Agent'
<1> SUFFICES ASSUME Inv, BeginCycle PROVE Batches' /\ Sources' /\ Agent'
  OBVIOUS
<1> USE DEF Inv
<1>0. ~Sampling /\ sample.batches = {} /\ now \in 0..MaxNow
  BY DEF BeginCycle, Agent, Phases, Sampling, TypeOK
<1>1. sample'.batches = {} /\ sample'.at <= now /\ (sample'.cur = {} \/ sample' = sample)
  BY <1>0 DEF BeginCycle, NewSample, Batches, RowTimes
<1>2. Batches'
  BY <1>0, <1>1, BatchesFrame DEF BeginCycle, Held, Travelling, diskVars, netVars, panelVars
<1>3. Sources'
  BY <1>0, <1>1 DEF BeginCycle, NewSample, Sources, Baselines, BaseOK, Splits, Carried, Reads, Sampling,
              NewUnits, UnitsOf, hysteriaVars, diskVars
<1>4. Phases'
  BY <1>1 DEF BeginCycle, Agent, Phases, Sampling, diskVars
<1>5. Agent'
  BY <1>4, AgentFrame DEF BeginCycle, OnDisk, Requests, diskVars, netVars, panelVars
<1> QED
  BY <1>2, <1>3, <1>5

\* The epoch label is not above the endpoint's epoch.
LEMMA InvReadEpoch ==
    ASSUME Inv, NEW e \in Endpoint, ReadEpoch(e) PROVE Batches' /\ Sources' /\ Agent'
<1> USE DEF Inv
<1>0. /\ sample'.batches = sample.batches /\ sample'.base = sample.base
      /\ sample'.at = sample.at /\ sample'.cur = {e} /\ sample'.label = epoch[e]
      /\ Sampling /\ Sampling' /\ epoch[e] \in Nat
  BY DEF ReadEpoch, TypeOK, Sample, Sampling
<1>1. Batches'
  BY <1>0, BatchesFrame DEF ReadEpoch, Held, Travelling, diskVars, netVars, panelVars, Batches,
                            RowTimes
<1>2. Sources'
  BY <1>0 DEF ReadEpoch, Sources, Baselines, BaseOK, Splits, Carried, Reads, NewUnits, UnitsOf,
              hysteriaVars, diskVars
<1>3. Phases'
  BY <1>0 DEF ReadEpoch, Agent, Phases, Sampling, diskVars
<1>4. Agent'
  BY <1>3, AgentFrame DEF ReadEpoch, OnDisk, Requests, diskVars, netVars, panelVars
<1> QED
  BY <1>1, <1>2, <1>4

\* What is read is what the endpoint has counted.
LEMMA InvReadCounters ==
    ASSUME Inv, NEW e \in Endpoint, ReadCounters(e) PROVE Batches' /\ Sources' /\ Agent'
<1> USE DEF Inv
<1>0. /\ sample'.batches = sample.batches /\ sample'.base = sample.base
      /\ sample'.at = sample.at /\ sample'.cur = sample.cur /\ sample'.label = sample.label
      /\ sample'.read = counter[e] /\ e \in sample.cur
      /\ Sampling /\ Sampling'
  BY DEF ReadCounters, TypeOK, Sample, Sampling
<1>1. Batches'
  BY <1>0, BatchesFrame DEF ReadCounters, Held, Travelling, diskVars, netVars, panelVars, Batches,
                            RowTimes
<1>2. Sources'
  <2>1. Reads'
    BY <1>0 DEF ReadCounters, Sources, Reads, hysteriaVars
  <2> QED
    BY <1>0, <2>1 DEF ReadCounters, Sources, Baselines, BaseOK, Splits, Carried, NewUnits, UnitsOf,
              hysteriaVars, diskVars
<1>3. Phases'
  BY <1>0 DEF ReadCounters, Agent, Phases, Sampling, diskVars
<1>4. Agent'
  BY <1>3, AgentFrame DEF ReadCounters, OnDisk, Requests, diskVars, netVars, panelVars
<1> QED
  BY <1>1, <1>2, <1>4

\* The reading of an endpoint splits into what was recorded and the delta: the
\* delta meets nothing recorded, and the new baseline splits again.
LEMMA DeltaIsNew ==
    ASSUME Inv, NEW e \in Endpoint, phase = "recheck", e \in sample.cur,
           epoch[e] = sample.label, Recorded(e) \subseteq sample.read,
           NEW delta, delta = sample.read \ Recorded(e),
           NEW base,
           base = [sample.base EXCEPT ![e] = [epoch |-> sample.label, traffic |-> sample.read]]
    PROVE  /\ delta \cap (sampled \cup NewUnits) = {}
           /\ delta \subseteq counter[e]
           /\ BaseOK(base, sampled \cup NewUnits \cup delta)
<1> USE DEF Inv
<1>0. Sampling /\ sample.base \in Baseline /\ epoch \in [Endpoint -> Nat]
  BY DEF Sampling, TypeOK, Sample
<1>1. BaseOK(sample.base, sampled \cup NewUnits)
  BY <1>0 DEF Sources, Baselines
<1>2. sample.read \subseteq counter[e]
  BY DEF Sources, Reads
<1>3. /\ sample.base[e].epoch <= epoch[e] /\ sample.base[e].epoch \in Nat
      /\ sample.base[e].epoch = epoch[e] \/ sample.base[e].epoch < epoch[e]
  BY <1>0, <1>1 DEF BaseOK, Splits, Baseline, Reading
<1>4. delta \cap (sampled \cup NewUnits) = {}
  BY <1>1, <1>2, <1>3 DEF BaseOK, Splits, Recorded
<1>5. delta \subseteq counter[e] /\ Recorded(e) \subseteq sampled \cup NewUnits
  BY <1>1, <1>2, <1>3 DEF BaseOK, Splits, Recorded
<1>6. (counter[e] \ sample.read) \cap (sampled \cup NewUnits \cup delta) = {}
  BY <1>1, <1>3 DEF BaseOK, Splits, Recorded
<1>7. \A f \in Endpoint : f # e => counter[f] \cap delta = {}
  BY <1>5 DEF Sources, Carried
<1>8. base[e] = [epoch |-> sample.label, traffic |-> sample.read]
  BY <1>0 DEF Baseline
<1>9. \A f \in Endpoint : f # e => base[f] = sample.base[f]
  BY <1>0 DEF Baseline
<1>10. BaseOK(base, sampled \cup NewUnits \cup delta)
  <2> SUFFICES ASSUME NEW f \in Endpoint
               PROVE  /\ base[f].epoch <= epoch[f]
                      /\ base[f].traffic \subseteq sampled \cup NewUnits \cup delta
                      /\ base[f].epoch = epoch[f] =>
                           /\ base[f].traffic \subseteq counter[f]
                           /\ (counter[f] \ base[f].traffic)
                                 \cap (sampled \cup NewUnits \cup delta) = {}
                      /\ base[f].epoch < epoch[f] =>
                           counter[f] \cap (sampled \cup NewUnits \cup delta) = {}
    BY DEF BaseOK, Splits
  <2>1. CASE f = e
    <3>1. sample.read \subseteq sampled \cup NewUnits \cup delta
      BY <1>5
    <3> QED
      BY <1>0, <1>2, <1>6, <1>8, <2>1, <3>1
  <2>2. CASE f # e
    BY <1>1, <1>7, <1>9, <2>2 DEF BaseOK, Splits
  <2> QED
    BY <2>1, <2>2
<1> QED
  BY <1>4, <1>5, <1>10

\* The delta of an endpoint becomes a batch with a new id and new units.
LEMMA InvRecheckEpoch ==
    ASSUME Inv, NEW e \in Endpoint, RecheckEpoch(e) PROVE Batches' /\ Sources' /\ Agent'
<1> USE DEF Inv
<1> DEFINE delta == sample.read \ Recorded(e)
           base == [sample.base EXCEPT ![e] = [epoch |-> sample.label, traffic |-> sample.read]]
           made(id) == [id |-> id, at |-> sample.at, units |-> delta]
<1>1. CASE EndpointDone(e, sample.base, sample.batches, TRUE)
  BY <1>1, FailedEndpoint DEF RecheckEpoch
<1>2. ASSUME epoch[e] = sample.label, Recorded(e) \subseteq sample.read,
             NEW id \in 1..MaxBatch, Fresh(id),
             EndpointDone(e, base, sample.batches \cup {made(id)}, FALSE)
      PROVE  Batches' /\ Sources' /\ Agent'
  <2>0. phase = "recheck" /\ e \in sample.cur /\ Sampling
    BY DEF RecheckEpoch, Sampling
  <2>1. /\ delta \cap (sampled \cup NewUnits) = {}
        /\ delta \subseteq counter[e]
        /\ BaseOK(base, sampled \cup NewUnits \cup delta)
    BY <1>2, <2>0, DeltaIsNew
  <2>2. /\ sample'.batches = sample.batches \cup {made(id)} /\ sample'.base = base
        /\ sample'.at = sample.at /\ sample'.cur = {}
        /\ phase' \in {"epoch", "save"} /\ Sampling'
    BY <1>2, <2>0 DEF EndpointDone, TypeOK, Sample, Sampling
  <2>3. /\ made(id).id = id /\ made(id).at = sample.at /\ made(id).units = delta
    OBVIOUS
  <2>4. UNCHANGED <<now, hysteriaVars, diskVars, mode, work, deferred, netVars, panelVars>>
    BY DEF RecheckEpoch
  <2>5. Held' = Held /\ NewUnits' = NewUnits \cup delta
    <3>1. Held' = Held
      BY <2>4 DEF Held, Travelling, diskVars, netVars
    <3> QED
      BY <2>2, <2>3, <3>1 DEF NewUnits, UnitsOf
  <2>6. \A x \in Held \cup sample.batches : x.id # id /\ x.units \cap delta = {}
    <3>1. \A x \in Held \cup sample.batches : x.id < id
      BY <1>2 DEF Fresh, LiveIds
    <3>2. \A x \in Held \cup sample.batches : x.units \subseteq sampled \cup NewUnits
      BY DEF Batches, Origins, NewUnits, UnitsOf
    <3> QED
      BY <2>1, <3>1, <3>2
  <2>7. id \notin DOMAIN ledger
    BY <1>2 DEF Fresh, LiveIds
  <2>8. Batches'
    <3>1. Apart'
      BY <2>2, <2>3, <2>5, <2>6 DEF Batches, Apart
    <3>2. Origins'
      BY <2>1, <2>4, <2>5 DEF Batches, Origins, UnitsOf, diskVars, panelVars
    <3>3. LedgerKnows'
      BY <2>4, <2>5 DEF Batches, LedgerKnows, IsExpired, panelVars
    <3>4. RowTimes'
      BY <2>2, <2>3, <2>4, <2>5 DEF Batches, RowTimes, panelVars
    <3>5. NewIds'
      BY <2>2, <2>3, <2>4, <2>7 DEF Batches, NewIds, panelVars
    <3> QED
      BY <3>1, <3>2, <3>3, <3>4, <3>5 DEF Batches
  <2>9. Sources'
    <3>1. BaseOK(journal.base, sampled)'
      BY <2>4 DEF Sources, Baselines, BaseOK, Splits, hysteriaVars, diskVars
    <3>2. BaseOK(sample.base, sampled \cup NewUnits)'
      BY <2>1, <2>2, <2>4, <2>5 DEF BaseOK, Splits, hysteriaVars, diskVars
    <3>3. Carried'
      BY <2>1, <2>4, <2>5 DEF Sources, Carried, hysteriaVars, diskVars
    <3>4. Reads'
      BY <2>2 DEF Reads
    <3> QED
      BY <3>1, <3>2, <3>3, <3>4 DEF Sources, Baselines
  <2>10. Agent'
    <3>1. Phases'
      BY <2>0, <2>2, <2>4 DEF Agent, Phases, diskVars
    <3> QED
      BY <2>4, <3>1, AgentFrame DEF OnDisk, Requests, diskVars, netVars, panelVars
  <2> QED
    BY <2>8, <2>9, <2>10
<1> QED
  BY <1>1, <1>2 DEF RecheckEpoch

\* What was read becomes recorded, and is in the journal.
LEMMA InvSaveJournal == Inv /\ SaveJournal => Batches' /\ Sources' /\ Agent'
<1> SUFFICES ASSUME Inv, SaveJournal PROVE Batches' /\ Sources' /\ Agent'
  OBVIOUS
<1> USE DEF Inv
<1>0. Sampling /\ ~Sampling' /\ journal.pending = {} /\ phase' \in {"persist", "drain"}
  BY DEF SaveJournal, SaveOutcome, Sampling, Agent, Phases
<1>1. /\ journal'.pending = sample.batches /\ journal'.base = sample.base
      /\ sampled' = sampled \cup NewUnits
      /\ sample'.batches = {} /\ sample'.cur = {} /\ sample'.at = 0
  BY DEF SaveJournal, NewUnits, NoSample, NewSample
<1>2. Held' = Held \cup sample.batches
  BY <1>0, <1>1 DEF SaveJournal, Held, Travelling, netVars
<1>3. UnitsOf(Held') = UnitsOf(Held) \cup NewUnits
  BY <1>2 DEF UnitsOf, NewUnits
<1>4. NewUnits' = {}
  BY <1>1 DEF NewUnits, UnitsOf
<1>5. UNCHANGED <<ledger, credited, now, epoch, counter, served, archived, staged, spool, call,
                  late, snapshot>>
  BY DEF SaveJournal, panelVars, hysteriaVars, netVars
<1>6. Batches'
  <2>1. Apart'
    BY <1>1, <1>2 DEF Batches, Apart
  <2>2. Origins'
    BY <1>1, <1>3, <1>4, <1>5 DEF Batches, Origins
  <2>3. \A x \in sample.batches : x.id \notin DOMAIN ledger
                                  /\ \A u \in x.units : u \in Unit /\ credited[u] # 1
    BY DEF Batches, Origins, NewIds, NewUnits, UnitsOf, TypeOK, Sample, Batch
  <2>4. LedgerKnows'
    BY <1>2, <1>5, <2>3 DEF Batches, LedgerKnows, IsExpired
  <2>5. RowTimes' /\ NewIds'
    <3>1. 0 <= now
      BY BoundsAssumption DEF TypeOK
    <3> QED
      BY <1>1, <1>2, <1>5, <2>3, <3>1 DEF Batches, RowTimes, NewIds
  <2> QED
    BY <2>1, <2>2, <2>4, <2>5 DEF Batches
<1>7. Sources'
  <2>1. BaseOK(journal.base, sampled)'
    BY <1>0, <1>1, <1>5 DEF Sources, Baselines, BaseOK, Splits
  <2>2. Carried'
    BY <1>1, <1>4, <1>5 DEF Sources, Carried
  <2>3. Reads'
    BY <1>0, <1>1 DEF Reads, Sampling
  <2> QED
    BY <1>0, <2>1, <2>2, <2>3 DEF Sources, Baselines
<1>8. Agent'
  <2>1. NothingLost'
    BY <1>0, <1>1, <1>5 DEF Agent, NothingLost, Settled, UnitsOf, NewUnits
  <2>2. Phases'
    BY <1>0, <1>1 DEF Phases
  <2>3. Covered'
    BY <1>5, CoveredSame DEF Agent
  <2> QED
    BY <2>1, <2>2, <2>3 DEF Agent
<1> QED
  BY <1>6, <1>7, <1>8

\* A step of the agent's bookkeeping outside a reading: batches move between
\* places, none appears, and no reading is under way afterwards.
LEMMA QuietStep ==
    ASSUME Inv, UNCHANGED <<now, hysteriaVars, sampled, netVars, panelVars>>,
           journal'.base = journal.base, ~Sampling', sample'.batches = {},
           sample'.at <= now, sample'.cur = {} \/ sample'.cur = sample.cur,
           Held' \subseteq Held, OnDisk \subseteq OnDisk', archived' = archived, Phases'
    PROVE  Batches' /\ Sources' /\ Agent'
<1> USE DEF Inv
<1>1. Batches'
  BY BatchesFrame DEF panelVars
<1>2. Sources'
  BY SourcesQuiet DEF hysteriaVars
<1>3. Agent'
  BY AgentFrame DEF Requests, netVars, panelVars
<1> QED
  BY <1>1, <1>2, <1>3

\* Nothing is left of a collection that is over.
LEMMA NoSampleIsEmpty == /\ NoSample.batches = {} /\ NoSample.cur = {} /\ NoSample.at = 0
                         /\ NoSample.left = {}
  BY DEF NoSample, NewSample

\* No collection starts in the future.
LEMMA NotBefore == Inv => 0 <= now /\ sample.at <= now
  BY BoundsAssumption DEF Inv, TypeOK, Batches, RowTimes

\* A save that fails leaves the disk as it was.
LEMMA InvSaveFails == Inv /\ SaveFails => Batches' /\ Sources' /\ Agent'
<1> SUFFICES ASSUME Inv, SaveFails PROVE Batches' /\ Sources' /\ Agent'
  OBVIOUS
<1>1. ~Sampling' /\ phase' = "drain"
  BY DEF SaveFails, Sampling
<1>2. Phases'
  BY <1>1, NoSampleIsEmpty DEF SaveFails, Phases
<1> QED
  BY <1>1, <1>2, NoSampleIsEmpty, NotBefore, QuietStep
     DEF SaveFails, Held, Travelling, OnDisk, diskVars, netVars

\* What is not in the spool is to be staged.
LEMMA InvPersistPending == Inv /\ PersistPending => Batches' /\ Sources' /\ Agent'
<1> SUFFICES ASSUME Inv, PersistPending PROVE Batches' /\ Sources' /\ Agent'
  OBVIOUS
<1> USE DEF Inv
<1>1. ~Sampling /\ ~Sampling' /\ phase' \in {"drain", "stage"} /\ sample' = sample
  BY DEF PersistPending, Sampling
<1>2. sample.batches = {}
  BY <1>1 DEF Agent, Phases
<1>3. Phases'
  BY <1>1, <1>2 DEF PersistPending, Phases, UnitsOf, Settled
<1>4. Held' \subseteq Held
  BY DEF PersistPending, Held, Travelling, netVars
<1> QED
  BY <1>1, <1>2, <1>3, <1>4, NotBefore, QuietStep DEF PersistPending, OnDisk

\* A staged batch is on disk.
LEMMA InvStageBatch ==
    ASSUME Inv, NEW b \in work, StageBatch(b) PROVE Batches' /\ Sources' /\ Agent'
<1> USE DEF Inv
<1>1. ~Sampling /\ ~Sampling' /\ phase = "stage" /\ phase' = "stage" /\ sample' = sample
  BY DEF StageBatch, Sampling
<1>2. sample.batches = {}
  BY <1>1 DEF Agent, Phases
<1>3. Phases'
  <2>1. journal'.pending \ work' \subseteq (journal.pending \ work) \cup {b}
    BY DEF StageBatch
  <2>2. UnitsOf(journal.pending \ work) \subseteq Settled \cup UnitsOf(staged \cup spool)
    BY <1>1 DEF Agent, Phases
  <2>3. Settled' = Settled
    BY DEF StageBatch, Settled, panelVars
  <2> QED
    BY <1>1, <1>2, <2>1, <2>2, <2>3 DEF StageBatch, Phases, UnitsOf
<1>4. Held' \subseteq Held
  BY DEF StageBatch, Held, Travelling, netVars
<1> QED
  BY <1>1, <1>2, <1>3, <1>4, NotBefore, QuietStep DEF StageBatch, OnDisk

\* A rename keeps a batch on disk.
LEMMA InvPromoteBatch ==
    ASSUME Inv, NEW b \in staged, PromoteBatch(b) PROVE Batches' /\ Sources' /\ Agent'
<1> USE DEF Inv
<1>1. /\ ~Sampling /\ ~Sampling' /\ phase = "stage" /\ phase' = "stage" /\ sample' = sample
      /\ work' = work
  BY DEF PromoteBatch, Sampling, memoryVars
<1>2. sample.batches = {}
  BY <1>1 DEF Agent, Phases
<1>3. (staged \cup spool)' = staged \cup spool /\ Settled' = Settled
  BY DEF PromoteBatch, Settled, panelVars
<1>4. Phases'
  BY <1>1, <1>2, <1>3 DEF PromoteBatch, Agent, Phases, UnitsOf
<1>5. Held' \subseteq Held
  BY <1>1 DEF PromoteBatch, Held, Travelling, netVars
<1> QED
  BY <1>1, <1>2, <1>4, <1>5, NotBefore, QuietStep DEF PromoteBatch, OnDisk

\* When nothing is left to stage or rename, the journal's batches are in the spool.
LEMMA InvPromotionDone == Inv /\ PromotionDone => Batches' /\ Sources' /\ Agent'
<1> SUFFICES ASSUME Inv, PromotionDone PROVE Batches' /\ Sources' /\ Agent'
  OBVIOUS
<1> USE DEF Inv
<1>1. ~Sampling /\ ~Sampling' /\ phase' = "clear" /\ sample' = sample
  BY DEF PromotionDone, Sampling
<1>2. sample.batches = {}
  BY <1>1 DEF Agent, Phases
<1>3. UnitsOf(journal.pending) \subseteq Settled \cup UnitsOf(staged \cup spool)
  <2>1. journal.pending \ work = journal.pending
    BY DEF PromotionDone
  <2> QED
    BY <2>1 DEF PromotionDone, Agent, Phases
<1>4. Phases'
  BY <1>1, <1>2, <1>3 DEF PromotionDone, Phases, Settled, UnitsOf, diskVars, panelVars
<1>5. Held' \subseteq Held
  BY DEF PromotionDone, Held, Travelling, netVars, diskVars
<1> QED
  BY <1>1, <1>2, <1>4, <1>5, NotBefore, QuietStep DEF PromotionDone, OnDisk, diskVars

\* What leaves the journal is in the spool: that is what the phase says.
LEMMA InvClearPending == Inv /\ ClearPending => Batches' /\ Sources' /\ Agent'
<1> SUFFICES ASSUME Inv, ClearPending PROVE Batches' /\ Sources' /\ Agent'
  OBVIOUS
<1> USE DEF Inv
<1>1. /\ phase' \in {"drain", "select"} /\ ~Sampling' /\ phase = "clear"
      /\ journal'.pending = {} /\ journal'.base = journal.base
  BY DEF ClearPending, SaveOutcome, Sampling, TypeOK
<1>2. Held' \subseteq Held
  BY <1>1 DEF ClearPending, Held, Travelling, netVars
<1>3. Batches'
  BY <1>2, NoSampleIsEmpty, NotBefore, BatchesFrame DEF ClearPending, panelVars
<1>4. Sources'
  BY <1>1, NoSampleIsEmpty, SourcesQuiet DEF ClearPending, hysteriaVars
<1>5. NothingLost'
  BY <1>1 DEF ClearPending, Agent, NothingLost, Phases, Settled, UnitsOf, panelVars
<1>6. Phases'
  BY <1>1, NoSampleIsEmpty DEF ClearPending, Phases
<1>7. Covered'
  BY CoveredSame DEF ClearPending, Agent, netVars, panelVars
<1> QED
  BY <1>3, <1>4, <1>5, <1>6, <1>7 DEF Agent

\* A write that fails leaves the journal in charge.
LEMMA InvStageFails == Inv /\ StageFails => Batches' /\ Sources' /\ Agent'
<1> SUFFICES ASSUME Inv, StageFails PROVE Batches' /\ Sources' /\ Agent'
  OBVIOUS
<1> USE DEF Inv
<1>1. ~Sampling /\ ~Sampling' /\ phase' = "drain" /\ sample' = sample
  BY DEF StageFails, Sampling
<1>2. sample.batches = {}
  BY <1>1 DEF Agent, Phases
<1>3. Phases'
  BY <1>1, <1>2 DEF Phases
<1>4. Held' \subseteq Held
  BY DEF StageFails, Held, Travelling, netVars, diskVars
<1> QED
  BY <1>1, <1>2, <1>3, <1>4, NotBefore, QuietStep DEF StageFails, OnDisk, diskVars

\* Every step of the collection keeps the invariant.
LEMMA InvCollect == Inv /\ Collect => Inv'
<1> SUFFICES ASSUME Inv, Collect PROVE Batches' /\ Sources' /\ Agent'
  BY TypeCollect DEF Inv
<1>1. ASSUME NEW e \in Endpoint, NoBatchId(e) PROVE Batches' /\ Sources' /\ Agent'
  BY <1>1, FailedEndpoint DEF NoBatchId
<1> QED
  BY <1>1, InvBeginCycle, InvSaveJournal, InvPersistPending, InvPromotionDone, InvClearPending,
     InvReadEpoch, InvReadCounters, InvRecheckEpoch, InvStageBatch, InvPromoteBatch DEF Collect

-----------------------------------------------------------------------------
(* Upload.                                                                 *)

\* The agent sends a request about batches it holds.
LEMMA SendStep ==
    ASSUME Inv, NEW batches \in SUBSET Held, NEW snap, call' = Request(batches, snap),
           snap.covers \subseteq Settled \cup UnitsOf(batches),
           UNCHANGED <<now, hysteriaVars, journal, sampled, archived, sample, late, panelVars>>,
           staged' \cup spool' = staged \cup spool, work' \subseteq work,
           ~Sampling, phase' = "await"
    PROVE  Batches' /\ Sources' /\ Agent'
<1> USE DEF Inv
<1>0. /\ call'.batches = batches /\ call'.todo = batches /\ call'.status = "sent"
      /\ call'.snap = snap
  BY DEF Request
<1>1. ~Sampling' /\ sample.batches = {}
  BY DEF Sampling, Agent, Phases
<1>2. Held' \subseteq Held
  BY <1>0 DEF Held, Travelling
<1>3. Batches'
  BY <1>1, <1>2, NotBefore, BatchesFrame DEF panelVars
<1>4. Sources'
  BY <1>1, SourcesQuiet DEF hysteriaVars
<1>5. NothingLost' /\ Settled' = Settled
  BY DEF Agent, NothingLost, Settled, UnitsOf, panelVars
<1>6. Phases'
  BY <1>1 DEF Phases
<1>7. Progress(call)'
  BY <1>0, <1>5 DEF Progress, UnitsOf
<1>8. \A r \in late : Progress(r)'
  BY <1>5 DEF Agent, Covered, Requests, Progress, UnitsOf, IsExpired, panelVars
<1>9. Covered'
  BY <1>5, <1>7, <1>8 DEF Covered, Requests, Agent, panelVars
<1> QED
  BY <1>3, <1>4, <1>5, <1>6, <1>9 DEF Agent

\* A request without a snapshot promises nothing about the online list.
LEMMA NoSnapshotCoversNothing == NoSnapshot.covers = {}
  BY DEF NoSnapshot

\* A snapshot goes out only with all the traffic it covers.
LEMMA InvSendCycle ==
    ASSUME Inv, NEW batches \in SUBSET Uploadable, SendCycle(batches)
    PROVE  Batches' /\ Sources' /\ Agent'
<1> USE DEF Inv
<1>1. batches \in SUBSET Held
  BY DEF Uploadable, SpoolFiles, Held
<1>2. /\ ~Sampling /\ phase' = "await" /\ journal.pending = {}
      /\ (staged \cup spool)' = staged \cup spool
  BY DEF SendCycle, Sampling, Agent, Phases, SpoolFiles
<1>3. CASE call' = Request(batches, NoSnapshot)
  BY <1>1, <1>2, <1>3, SendStep, NoSnapshotCoversNothing DEF SendCycle
<1>4. CASE batches = SpoolFiles /\ call' = Request(batches, NextSnapshot)
  <2>1. NextSnapshot.covers \subseteq Settled \cup UnitsOf(batches)
    BY <1>2, <1>4 DEF NextSnapshot, Agent, NothingLost, SpoolFiles, UnitsOf
  <2> QED
    BY <1>1, <1>2, <1>4, <2>1, SendStep DEF SendCycle
<1> QED
  BY <1>3, <1>4 DEF SendCycle

\* A snapshot goes out alone only when no traffic waits.
LEMMA InvSendSnapshot == Inv /\ SendSnapshot => Batches' /\ Sources' /\ Agent'
<1> SUFFICES ASSUME Inv, SendSnapshot PROVE Batches' /\ Sources' /\ Agent'
  OBVIOUS
<1> USE DEF Inv
<1>1. ~Sampling /\ phase' = "await" /\ {} \in SUBSET Held
  BY DEF SendSnapshot, Sampling
<1>2. NextSnapshot.covers \subseteq Settled \cup UnitsOf({})
  BY DEF NextSnapshot, SendSnapshot, MayRefresh, Agent, NothingLost, SpoolFiles, UnitsOf
<1> QED
  BY <1>1, <1>2, SendStep DEF SendSnapshot

\* One batch of the spool is sent.
LEMMA InvSendBatch == ASSUME Inv, NEW b \in work, SendBatch(b)
                      PROVE  Batches' /\ Sources' /\ Agent'
<1>1. ~Sampling /\ phase' = "await" /\ {b} \in SUBSET Held
  BY DEF SendBatch, Sampling, Held
<1> QED
  BY <1>1, SendStep, NoSnapshotCoversNothing DEF SendBatch, diskVars

\* The drain starts from the spool.
LEMMA InvBeginDrain == Inv /\ BeginDrain => Batches' /\ Sources' /\ Agent'
<1> SUFFICES ASSUME Inv, BeginDrain PROVE Batches' /\ Sources' /\ Agent'
  OBVIOUS
<1> USE DEF Inv
<1>1. ~Sampling /\ ~Sampling' /\ phase' = "next" /\ sample' = sample
  BY DEF BeginDrain, Sampling
<1>2. sample.batches = {}
  BY <1>1 DEF Agent, Phases
<1>3. Phases'
  BY <1>1, <1>2 DEF Phases
<1>4. Held' \subseteq Held
  BY DEF BeginDrain, Held, Travelling, netVars, Uploadable, SpoolFiles
<1> QED
  BY <1>1, <1>2, <1>3, <1>4, NotBefore, QuietStep DEF BeginDrain, OnDisk, SpoolFiles

\* The end of a cycle, whatever it was for, with the request dropped or left
\* behind.
LEMMA EndStep ==
    ASSUME Inv, EndCycle, UNCHANGED <<now, hysteriaVars, journal, staged, spool, sampled,
                                      archived, panelVars>>,
           late' = late \/ late' = late \cup {call}
    PROVE  Batches' /\ Sources' /\ Agent'
<1> USE DEF Inv
<1>1. /\ phase' = "idle" /\ sample' = NoSample /\ work' = {} /\ call' = NoCall
      /\ ~Sampling'
  BY DEF EndCycle, Sampling
<1>2. Requests' \subseteq Requests \cup {NoCall}
  BY <1>1 DEF Requests
<1>3. Held' \subseteq Held
  <2>1. Travelling' \subseteq Travelling
    BY <1>1 DEF Travelling, NoCall
  <2> QED
    BY <1>1, <2>1 DEF Held
<1>4. Batches'
  BY <1>1, <1>3, NoSampleIsEmpty, NotBefore, BatchesFrame DEF panelVars
<1>5. Sources'
  BY <1>1, NoSampleIsEmpty, SourcesQuiet DEF hysteriaVars
<1>6. Phases'
  BY <1>1, NoSampleIsEmpty DEF Phases
<1>7. Agent'
  BY <1>2, <1>6, AgentFrame DEF OnDisk, panelVars
<1> QED
  BY <1>4, <1>5, <1>7

\* The answer to a request means that all its batches are added.
LEMMA InvReceiveReply == Inv /\ ReceiveReply => Batches' /\ Sources' /\ Agent'
<1> SUFFICES ASSUME Inv, ReceiveReply PROVE Batches' /\ Sources' /\ Agent'
  OBVIOUS
<1>1. CASE EndCycle
  BY <1>1, EndStep DEF ReceiveReply, diskVars
<1>2. CASE phase' = "ack" /\ work' \subseteq work /\ UNCHANGED <<mode, sample, deferred, call>>
  <2> USE DEF Inv
  <2>1. ~Sampling /\ ~Sampling' /\ sample' = sample /\ call' = call /\ late' = late
    BY <1>2 DEF ReceiveReply, Sampling
  <2>2. sample.batches = {}
    BY <2>1 DEF Agent, Phases
  <2>3. Phases'
    BY <1>2, <2>1, <2>2 DEF ReceiveReply, Phases
  <2>4. Held' \subseteq Held
    BY <1>2, <2>1 DEF ReceiveReply, Held, Travelling, diskVars
  <2> QED
    BY <2>1, <2>2, <2>3, <2>4, NotBefore, QuietStep DEF ReceiveReply, OnDisk, diskVars, netVars
<1> QED
  BY <1>1, <1>2 DEF ReceiveReply

\* A batch leaves the spool only when the panel has added it.
LEMMA InvAckBatch == ASSUME Inv, NEW b \in spool, AckBatch(b)
                     PROVE  Batches' /\ Sources' /\ Agent'
<1> USE DEF Inv
<1>1. /\ ~Sampling /\ ~Sampling' /\ phase = "ack" /\ phase' = "ack" /\ sample' = sample
      /\ call' = call /\ late' = late /\ work' = work
  BY DEF AckBatch, Sampling, memoryVars, netVars
<1>2. sample.batches = {} /\ call.status = "replied"
  BY <1>1 DEF Agent, Phases
<1>3. b \in call.batches
  BY DEF AckBatch, Oldest, Acknowledged
<1>4. Progress(call)
  BY DEF Agent, Covered, Requests
<1>5. b.units \subseteq Settled
  <2>1. \A u \in b.units : credited[u] = 1
    BY <1>2, <1>3, <1>4 DEF Progress
  <2>2. b.units \subseteq Unit
    BY DEF TypeOK, Batch
  <2> QED
    BY <2>1, <2>2 DEF Settled
<1>6. Settled' = Settled
  BY DEF AckBatch, Settled, panelVars
<1>7. NothingLost'
  BY <1>5, <1>6 DEF AckBatch, Agent, NothingLost, UnitsOf
<1>8. Phases'
  BY <1>1, <1>2 DEF Phases
<1>9. Covered'
  BY <1>1, CoveredSame DEF AckBatch, Agent, panelVars
<1>10. Held' \subseteq Held
  BY <1>1 DEF AckBatch, Held, Travelling
<1>11. Batches'
  BY <1>1, <1>10, NotBefore, BatchesFrame DEF AckBatch, panelVars
<1>12. Sources'
  BY <1>1, <1>2, SourcesQuiet DEF AckBatch, hysteriaVars
<1> QED
  BY <1>7, <1>8, <1>9, <1>11, <1>12 DEF Agent

\* The cycle goes on or ends.
LEMMA InvAcksDone == Inv /\ AcksDone => Batches' /\ Sources' /\ Agent'
<1> SUFFICES ASSUME Inv, AcksDone PROVE Batches' /\ Sources' /\ Agent'
  OBVIOUS
<1>1. CASE EndCycle
  BY <1>1, EndStep DEF AcksDone
<1>2. CASE phase' \in {"next", "refresh"} /\ call' = NoCall
           /\ UNCHANGED <<mode, sample, work, deferred>>
  <2> USE DEF Inv
  <2>1. ~Sampling /\ ~Sampling' /\ sample' = sample /\ late' = late
    BY <1>2 DEF AcksDone, Sampling
  <2>2. sample.batches = {}
    BY <2>1 DEF Agent, Phases
  <2>3. Phases'
    BY <1>2, <2>1, <2>2 DEF Phases
  <2>4. Held' \subseteq Held
    BY <1>2, <2>1 DEF AcksDone, Held, Travelling, NoCall
  <2>5. Batches'
    BY <2>1, <2>4, NotBefore, BatchesFrame DEF AcksDone, panelVars
  <2>6. Sources'
    BY <2>1, <2>2, SourcesQuiet DEF AcksDone, hysteriaVars
  <2>7. Agent'
    BY <1>2, <2>1, <2>3, AgentFrame DEF AcksDone, OnDisk, Requests, panelVars
  <2> QED
    BY <2>5, <2>6, <2>7
<1> QED
  BY <1>1, <1>2 DEF AcksDone

\* Every step of the upload keeps the invariant.
LEMMA InvUpload == Inv /\ Upload => Inv'
<1> SUFFICES ASSUME Inv, Upload PROVE Batches' /\ Sources' /\ Agent'
  BY TypeUpload DEF Inv
<1>1. CASE NothingToSend \/ ReceiveRejection
  BY <1>1, EndStep DEF NothingToSend, ReceiveRejection, diskVars
<1> QED
  BY <1>1, InvSendCycle, InvBeginDrain, InvSendSnapshot, InvSendBatch, InvReceiveReply,
     InvAckBatch, InvAcksDone DEF Upload

-----------------------------------------------------------------------------
(* The panel.                                                              *)

\* A request the panel works on changes; the others and the disk do not.
LEMMA ServedStep ==
    ASSUME Inv, NEW r \in Requests, NEW s, Becomes(r, s), Unfinished(r),
           s.batches = r.batches, Settled \subseteq Settled',
           UNCHANGED <<hysteriaVars, diskVars, memoryVars>>
    PROVE  /\ Requests' \subseteq Requests \cup {s}
           /\ Held' \subseteq Held /\ r.batches \subseteq Held
           /\ Sources' /\ NothingLost' /\ Phases'
<1> USE DEF Inv
<1>1. Requests' \subseteq Requests \cup {s}
  BY DEF Becomes, Requests
<1>2. Travelling = UNION {q.batches : q \in Requests}
  BY DEF Travelling, Requests
<1>3. Travelling' = UNION {q.batches : q \in Requests'}
  BY DEF Travelling, Requests
<1>4. Travelling' \subseteq Travelling
  BY <1>1, <1>2, <1>3
<1>5. Held' \subseteq Held /\ r.batches \subseteq Held
  BY <1>2, <1>4 DEF Held, diskVars, memoryVars
<1>6. Sources'
  BY SourcesSame DEF hysteriaVars, diskVars, memoryVars
<1>7. NothingLost'
  BY DEF Agent, NothingLost, UnitsOf, diskVars
<1>8. Phases'
  <2>1. phase = "ack" => r # call
    BY DEF Agent, Phases, Unfinished
  <2>2. phase = "ack" => call' = call
    BY <2>1 DEF Becomes
  <2> QED
    BY <2>2 DEF Agent, Phases, Sampling, diskVars, memoryVars, UnitsOf
<1> QED
  BY <1>1, <1>5, <1>6, <1>7, <1>8

\* A step of the panel that adds nothing to the totals.
LEMMA ServedQuietly ==
    ASSUME Inv, NEW r \in Requests, NEW s, Becomes(r, s), Unfinished(r), s.batches = r.batches,
           UNCHANGED <<now, hysteriaVars, diskVars, memoryVars, ledger, credited>>,
           Progress(s), snapshot'.covers \subseteq Settled
    PROVE  Batches' /\ Sources' /\ Agent'
<1> USE DEF Inv
<1>1. Settled' = Settled
  BY DEF Settled, diskVars
<1>2. /\ Requests' \subseteq Requests \cup {s} /\ Held' \subseteq Held
      /\ Sources' /\ NothingLost' /\ Phases'
  BY <1>1, ServedStep
<1>3. Batches'
  BY <1>2, NotBefore, BatchesFrame DEF diskVars, memoryVars
<1>4. \A q \in Requests \cup {s} : Progress(q)'
  BY <1>1 DEF Agent, Covered, Progress, IsExpired
<1>5. Covered'
  BY <1>1, <1>2, <1>4 DEF Covered
<1> QED
  BY <1>2, <1>3, <1>5 DEF Agent

\* A request that is refused leaves what was committed.
LEMMA InvRejected ==
    ASSUME Inv, NEW r \in Requests, Unfinished(r), Reject(r),
           UNCHANGED <<now, hysteriaVars, diskVars, memoryVars, panelVars>>
    PROVE  Batches' /\ Sources' /\ Agent'
<1> DEFINE s == [r EXCEPT !.status = "rejected", !.todo = {}]
<1>1. s.batches = r.batches /\ s.status = "rejected" /\ s.todo = {}
  BY RequestsType DEF Inv, Call
<1>2. Progress(s)
  BY <1>1 DEF Progress
<1>3. snapshot'.covers \subseteq Settled
  BY DEF Inv, Agent, Covered, panelVars
<1> QED
  BY <1>1, <1>2, <1>3, ServedQuietly DEF Reject, panelVars

\* A request is worked on only if no batch of it has expired.
LEMMA InvAdmit == ASSUME Inv, NEW r \in Requests, Admit(r) PROVE Batches' /\ Sources' /\ Agent'
<1> DEFINE s == [r EXCEPT !.status = "serving", !.at = now]
<1>0. Unfinished(r) /\ r.status = "sent"
  BY DEF Admit, Unfinished
<1>1. CASE Reject(r)
  BY <1>0, <1>1, InvRejected DEF Admit
<1>2. CASE Acceptable(r) /\ Becomes(r, s)
  <2>1. /\ s.batches = r.batches /\ s.status = "serving" /\ s.todo = r.todo /\ s.snap = r.snap
    BY RequestsType DEF Inv, Call
  <2>2. Progress(r)
    BY DEF Inv, Agent, Covered
  <2>3. Progress(s)
    BY <1>0, <1>2, <2>1, <2>2 DEF Progress, Acceptable
  <2>4. snapshot'.covers \subseteq Settled
    BY DEF Admit, Inv, Agent, Covered, panelVars
  <2> QED
    BY <1>0, <1>2, <2>1, <2>3, <2>4, ServedQuietly DEF Admit, panelVars
<1> QED
  BY <1>1, <1>2 DEF Admit

\* A request that is answered is done.
LEMMA InvReplied ==
    ASSUME Inv, NEW r \in Requests, r.status = "serving", r.todo = {},
           Becomes(r, [r EXCEPT !.status = "replied"]),
           UNCHANGED <<now, hysteriaVars, diskVars, memoryVars, ledger, credited>>,
           snapshot' = snapshot \/ snapshot' = r.snap
    PROVE  Batches' /\ Sources' /\ Agent'
<1> DEFINE s == [r EXCEPT !.status = "replied"]
<1>1. /\ s.batches = r.batches /\ s.status = "replied" /\ s.todo = r.todo
  BY RequestsType DEF Inv, Call
<1>2. Progress(r)
  BY DEF Inv, Agent, Covered
<1>3. Progress(s)
  BY <1>1, <1>2 DEF Progress
<1>4. r.snap.covers \subseteq Settled
  BY <1>2 DEF Progress, UnitsOf
<1>5. snapshot'.covers \subseteq Settled
  BY <1>4 DEF Inv, Agent, Covered
<1> QED
  BY <1>1, <1>3, <1>5, ServedQuietly DEF Unfinished

\* While the row limit is out of reach, only rows past their age are purged.
LEMMA RowsKept ==
    ASSUME TypeOK, LedgerRows >= MaxBatch, NEW id \in 1..MaxBatch, id \notin DOMAIN ledger,
           NEW kept \in Retained(ledger)
    PROVE  kept = {x \in DOMAIN ledger : ledger[x] + LedgerAge >= now}
<1> DEFINE young == {x \in DOMAIN ledger : ledger[x] + LedgerAge >= now}
<1>1. MaxBatch \in Nat /\ LedgerRows \in Nat
  BY BoundsAssumption
<1>2. IsFiniteSet(1..MaxBatch) /\ Cardinality(1..MaxBatch) = MaxBatch
  BY <1>1, FS_Interval
<1>3. /\ IsFiniteSet((1..MaxBatch) \ {id})
      /\ Cardinality((1..MaxBatch) \ {id}) = MaxBatch - 1
  BY <1>2, FS_RemoveElement
<1>4. young \in SUBSET ((1..MaxBatch) \ {id})
  BY DEF TypeOK
<1>5. IsFiniteSet(young) /\ Cardinality(young) <= MaxBatch - 1
  BY <1>3, <1>4, FS_Subset
<1>6. Cardinality(young) \in Nat
  BY <1>5, FS_CardinalityType
<1>7. Cardinality(young) < LedgerRows
  BY <1>1, <1>5, <1>6
<1> QED
  BY <1>7 DEF Retained

\* The transaction of one batch: a duplicate has been added before, and a batch
\* that is added has not.
LEMMA BatchAdded ==
    ASSUME Inv, NEW r \in Requests, NEW b \in r.todo, r.status = "serving",
           b \in Held, b \in r.batches
    PROVE  /\ b.id \in DOMAIN ledger => \A u \in b.units : credited[u] = 1
           /\ b.id \notin DOMAIN ledger => \A u \in b.units : credited[u] = 0
<1> USE DEF Inv
<1>1. ~IsExpired(b)
  BY DEF Agent, Covered, Progress
<1>2. \A u \in b.units : u \in Unit /\ credited[u] \in Nat /\ credited[u] <= 1
  <2>1. b \in Batch
    BY RequestsType DEF Call
  <2> QED
    BY <2>1 DEF TypeOK, Batch, Batches, Origins
<1>3. \A u \in b.units : credited[u] = 0 \/ credited[u] = 1
  BY <1>2
<1> QED
  BY <1>1, <1>3 DEF Batches, LedgerKnows

\* The totals after the batch b, whose id was new to the ledger.
LEMMA BatchesAdded ==
    ASSUME Inv, LedgerRows >= MaxBatch, NEW b \in Held, b.units # {},
           b.id \notin DOMAIN ledger, \A u \in b.units : credited[u] = 0,
           NEW kept \in Retained(ledger),
           ledger' = [id \in kept \cup {b.id} |-> IF id = b.id THEN now ELSE ledger[id]],
           credited' = [u \in Unit |-> IF u \in b.units THEN credited[u] + 1 ELSE credited[u]],
           Held' \subseteq Held, UNCHANGED <<now, sampled, sample>>
    PROVE  Batches'
<1> USE DEF Inv
<1>0. b \in Batch /\ \A x \in Held : x \in Batch
  <2>1. UNION {q.batches : q \in late} \subseteq Batch /\ call.batches \subseteq Batch
    BY DEF TypeOK, Call
  <2> QED
    BY <2>1 DEF Held, Travelling, TypeOK
<1>1. kept = {x \in DOMAIN ledger : ledger[x] + LedgerAge >= now}
  BY <1>0, RowsKept DEF Batch
<1>2. DOMAIN ledger' = kept \cup {b.id} /\ ledger'[b.id] = now
      /\ \A id \in kept : id # b.id /\ ledger'[id] = ledger[id]
  BY <1>1
<1>3. \A u \in Unit : credited'[u] = IF u \in b.units THEN 1 ELSE credited[u]
  OBVIOUS
<1>4. \A x \in Held : x # b => x.id # b.id /\ x.units \cap b.units = {}
  BY DEF Batches, Apart
<1>5. \A x \in Held : x.id \in DOMAIN ledger /\ x.id \notin kept => IsExpired(x)
  <2> SUFFICES ASSUME NEW x \in Held, x.id \in DOMAIN ledger, x.id \notin kept
               PROVE  IsExpired(x)
    OBVIOUS
  <2>1. x.at <= ledger[x.id] /\ ledger[x.id] + LedgerAge < now
    BY <1>1, BoundsAssumption DEF Batches, RowTimes, TypeOK
  <2>2. ledger[x.id] \in Nat /\ x.at \in Nat /\ now \in Nat
    BY <1>0 DEF TypeOK, Batch
  <2> QED
    BY <2>1, <2>2, BoundsAssumption, RetentionAssumption DEF IsExpired
<1>6. Apart'
  BY DEF Batches, Apart
<1>7. Origins'
  <2>1. UnitsOf(Held') \subseteq sampled' /\ NewUnits' \cap sampled' = {}
    BY DEF Batches, Origins, UnitsOf, NewUnits
  <2>2. b.units \subseteq sampled
    BY DEF Batches, Origins, UnitsOf
  <2> QED
    BY <1>3, <2>1, <2>2 DEF Batches, Origins
<1>8. LedgerKnows'
  <2> SUFFICES ASSUME NEW x \in Held, NEW u \in x.units
               PROVE  /\ credited'[u] = 1 => x.id \in DOMAIN ledger' \/ IsExpired(x)
                      /\ credited'[u] = 0 => x.id \notin DOMAIN ledger'
    BY DEF LedgerKnows, IsExpired
  <2>1. u \in Unit
    BY <1>0 DEF Batch
  <2>2. CASE x = b
    BY <1>2, <1>3, <2>1, <2>2
  <2>3. CASE x # b
    <3>1. credited'[u] = credited[u] /\ x.id # b.id
      BY <1>3, <1>4, <2>1, <2>3
    <3> QED
      BY <1>1, <1>2, <1>5, <3>1 DEF Batches, LedgerKnows
  <2> QED
    BY <2>2, <2>3
<1>9. RowTimes'
  BY <1>1, <1>2, <1>4 DEF Batches, RowTimes
<1>10. NewIds'
  <2>1. \A x \in sample.batches : x # b
    BY DEF Batches, Origins, UnitsOf, NewUnits
  <2>2. \A x \in sample.batches : x.id # b.id
    BY <2>1 DEF Batches, Apart
  <2> QED
    BY <1>1, <1>2, <2>2 DEF Batches, NewIds
<1> QED
  BY <1>6, <1>7, <1>8, <1>9, <1>10 DEF Batches

\* The transaction of one batch keeps the invariant, a duplicate included.
LEMMA InvApplyBatch ==
    ASSUME Inv, LedgerRows >= MaxBatch, NEW r \in Requests, NEW b \in r.todo, ApplyBatch(r, b)
    PROVE  Batches' /\ Sources' /\ Agent'
<1> USE DEF Inv
<1> DEFINE s == [r EXCEPT !.todo = @ \ {b}]
<1>1. /\ s.batches = r.batches /\ s.status = r.status /\ s.todo = r.todo \ {b}
      /\ s.snap = r.snap /\ r \in Call
  BY RequestsType DEF Call
<1>2. /\ r.status = "serving" /\ Unfinished(r) /\ Becomes(r, s)
      /\ UNCHANGED <<now, hysteriaVars, diskVars, memoryVars, snapshot>>
  BY DEF ApplyBatch, Unfinished, panelVars
<1>3. Progress(r)
  BY DEF Agent, Covered
<1>4. b \in r.batches /\ b \in Batch /\ b.units \subseteq Unit
  BY <1>1, <1>3 DEF Progress, Call, Batch
<1>5. b \in Held
  BY <1>4 DEF Held, Travelling, Requests
<1>6. /\ b.id \in DOMAIN ledger => \A u \in b.units : credited[u] = 1
      /\ b.id \notin DOMAIN ledger => \A u \in b.units : credited[u] = 0
  BY <1>2, <1>4, <1>5, BatchAdded
<1>7. CASE UNCHANGED <<ledger, credited>> /\ \A u \in b.units : credited[u] = 1
  <2>1. Progress(s)
    <3>1. b.units \subseteq Settled
      BY <1>4, <1>7 DEF Settled
    <3>2. r.snap.covers \subseteq Settled \cup UnitsOf(r.todo \ {b})
      BY <1>2, <1>3, <3>1 DEF Progress, UnitsOf
    <3>3. \A x \in r.batches \ (r.todo \ {b}) : \A u \in x.units : credited[u] = 1
      BY <1>2, <1>3, <1>7 DEF Progress
    <3> QED
      BY <1>1, <1>2, <1>3, <3>2, <3>3 DEF Progress
  <2>2. snapshot'.covers \subseteq Settled
    BY <1>2 DEF Agent, Covered
  <2> QED
    BY <1>1, <1>2, <1>7, <2>1, <2>2, ServedQuietly
<1>8. ASSUME b.id \notin DOMAIN ledger, b.units # {}, NEW kept \in Retained(ledger),
             ledger' = [id \in kept \cup {b.id} |-> IF id = b.id THEN now ELSE ledger[id]],
             credited' = [u \in Unit |-> IF u \in b.units THEN credited[u] + 1 ELSE credited[u]]
      PROVE  Batches' /\ Sources' /\ Agent'
  <2>1. \A u \in Unit : credited'[u] = IF u \in b.units THEN 1 ELSE credited[u]
    BY <1>6, <1>8
  <2>2. Settled \subseteq Settled' /\ b.units \subseteq Settled'
    BY <1>2, <1>4, <2>1 DEF Settled, diskVars
  <2>3. /\ Requests' \subseteq Requests \cup {s} /\ Held' \subseteq Held
        /\ Sources' /\ NothingLost' /\ Phases'
    BY <1>1, <1>2, <2>2, ServedStep
  <2>4. Batches'
    BY <1>2, <1>5, <1>6, <1>8, <2>3, BatchesAdded DEF diskVars, memoryVars
  <2>5. \A q \in Requests : \A x \in q.batches : x.units \subseteq Unit
    BY RequestsType DEF Call, Batch
  <2>6. \A q \in Requests : Progress(q)'
    <3> SUFFICES ASSUME NEW q \in Requests PROVE Progress(q)'
      OBVIOUS
    <3>1. Progress(q)
      BY DEF Agent, Covered
    <3> QED
      BY <1>2, <2>1, <2>2, <2>5, <3>1 DEF Progress, IsExpired
  <2>7. Progress(s)'
    <3>1. Progress(r)'
      BY <2>6
    <3>2. r.snap.covers \subseteq Settled' \cup UnitsOf(r.todo \ {b})
      BY <1>2, <2>2, <3>1 DEF Progress, UnitsOf
    <3>3. \A x \in r.batches \ (r.todo \ {b}) : \A u \in x.units : credited'[u] = 1
      BY <1>2, <1>4, <2>1, <3>1 DEF Progress
    <3> QED
      BY <1>1, <1>2, <3>1, <3>2, <3>3 DEF Progress
  <2>8. Covered'
    BY <1>2, <2>2, <2>3, <2>6, <2>7 DEF Covered, Agent
  <2> QED
    BY <2>3, <2>4, <2>8 DEF Agent
<1>9. CASE b.id \in DOMAIN ledger
  BY <1>6, <1>7, <1>9 DEF ApplyBatch, panelVars
<1>10. CASE b.id \notin DOMAIN ledger /\ b.units = {}
  BY <1>7, <1>10 DEF ApplyBatch
<1>11. CASE b.id \notin DOMAIN ledger /\ b.units # {}
  BY <1>8, <1>11 DEF ApplyBatch
<1> QED
  BY <1>9, <1>10, <1>11

\* A snapshot becomes current only after the traffic it covers.
LEMMA InvAcceptSnapshot == ASSUME Inv, NEW r \in Requests, AcceptSnapshot(r)
                           PROVE  Batches' /\ Sources' /\ Agent'
<1>1. CASE Reject(r) /\ UNCHANGED <<snapshot, checkpoint>>
  BY <1>1, InvRejected DEF AcceptSnapshot, Unfinished, panelVars
<1>2. CASE snapshot' = r.snap /\ Becomes(r, [r EXCEPT !.status = "replied"])
  BY <1>2, InvReplied DEF AcceptSnapshot
<1> QED
  BY <1>1, <1>2 DEF AcceptSnapshot

\* Every transaction of the panel keeps the invariant.
LEMMA InvPanel == Inv /\ LedgerRows >= MaxBatch /\ Panel => Inv'
<1> SUFFICES ASSUME Inv, LedgerRows >= MaxBatch, NEW r \in Requests,
                    \/ Admit(r) \/ AcceptSnapshot(r) \/ Reply(r)
                    \/ \E b \in r.todo : ApplyBatch(r, b)
             PROVE  Batches' /\ Sources' /\ Agent'
  BY TypePanel DEF Inv, Panel
<1>1. CASE Reply(r)
  BY <1>1, InvReplied DEF Reply, panelVars
<1> QED
  BY <1>1, InvAdmit, InvAcceptSnapshot, InvApplyBatch

-----------------------------------------------------------------------------
(* Faults and the environment.                                             *)

\* No fault breaks the invariant.
LEMMA InvFaults == Inv /\ Faults => Inv'
<1> SUFFICES ASSUME Inv, Faults PROVE Batches' /\ Sources' /\ Agent'
  BY TypeFaults DEF Inv
<1>1. ASSUME NEW e \in Endpoint, EndpointFails(e) PROVE Batches' /\ Sources' /\ Agent'
  BY <1>1, FailedEndpoint DEF EndpointFails
<1>2. CASE Timeout \/ Crash
  BY <1>2, EndStep DEF Timeout, Crash, diskVars
<1>3. ASSUME NEW r \in Requests, ServerFails(r) PROVE Batches' /\ Sources' /\ Agent'
  BY <1>3, InvRejected DEF ServerFails
<1> QED
  BY <1>1, <1>2, <1>3, InvSaveFails, InvStageFails DEF Faults

\* New traffic is nowhere recorded.
LEMMA InvServe == ASSUME Inv, NEW u \in Unit, Serve(u) PROVE Batches' /\ Sources' /\ Agent'
<1> USE DEF Inv
<1>0. UNCHANGED <<now, epoch, diskVars, memoryVars, netVars, panelVars>> /\ u \notin served
  BY DEF Serve
<1>1. \A e \in Endpoint : counter'[e] = IF e = Route[u] THEN counter[e] \cup {u} ELSE counter[e]
  BY SetsAssumption DEF Serve, TypeOK
<1>2. u \notin sampled \cup NewUnits
  BY <1>0 DEF Sources, Carried
<1>3. \A e \in Endpoint : counter[e] \subseteq counter'[e] /\ counter'[e] \subseteq counter[e] \cup {u}
  BY <1>1
<1>4. ASSUME NEW base \in Baseline, NEW recorded \in SUBSET (sampled \cup NewUnits),
             BaseOK(base, recorded)
      PROVE  Splits(base, recorded, epoch', counter')
  <2> SUFFICES ASSUME NEW e \in Endpoint
               PROVE  /\ base[e].epoch <= epoch[e]
                      /\ base[e].traffic \subseteq recorded
                      /\ base[e].epoch = epoch[e] =>
                           /\ base[e].traffic \subseteq counter'[e]
                           /\ (counter'[e] \ base[e].traffic) \cap recorded = {}
                      /\ base[e].epoch < epoch[e] => counter'[e] \cap recorded = {}
    BY <1>0 DEF BaseOK, Splits
  <2>1. counter[e] \subseteq counter'[e] /\ counter'[e] \subseteq counter[e] \cup {u}
    BY <1>3
  <2>2. u \notin recorded
    BY <1>2
  <2> QED
    BY <1>4, <2>1, <2>2 DEF BaseOK, Splits
<1>5. Batches'
  BY <1>0, NotBefore, BatchesFrame DEF Held, Travelling, diskVars, memoryVars, netVars, panelVars
<1>6. Sources'
  <2>1. journal.base \in Baseline /\ sample.base \in Baseline
    BY DEF TypeOK, Sample
  <2>2. Baselines'
    <3>1. /\ sample' = sample /\ journal' = journal /\ sampled' = sampled /\ phase' = phase
          /\ NewUnits' = NewUnits /\ Sampling' = Sampling
      BY <1>0 DEF NewUnits, UnitsOf, Sampling, diskVars, memoryVars
    <3>2. BaseOK(journal.base, sampled)'
      <4>1. BaseOK(journal.base, sampled)
        BY DEF Sources, Baselines
      <4> QED
        BY <1>4, <2>1, <3>1, <4>1 DEF BaseOK
    <3>3. Sampling => BaseOK(sample.base, sampled \cup NewUnits)'
      <4>1. Sampling => BaseOK(sample.base, sampled \cup NewUnits)
        BY DEF Sources, Baselines
      <4> QED
        BY <1>4, <2>1, <3>1, <4>1 DEF BaseOK
    <3> QED
      BY <3>1, <3>2, <3>3 DEF Baselines
  <2>3. Carried'
    BY <1>0, <1>1, <1>3 DEF Serve, Sources, Carried, NewUnits, UnitsOf, diskVars, memoryVars
  <2>4. Reads'
    <3>1. \A e \in sample.cur : sample.read \subseteq counter[e] => sample.read \subseteq counter'[e]
      BY <1>3 DEF TypeOK, Sample
    <3> QED
      BY <1>0, <3>1 DEF Sources, Reads, memoryVars
  <2> QED
    BY <2>2, <2>3, <2>4 DEF Sources
<1>7. Agent'
  <2>1. Phases'
    BY <1>0 DEF Agent, Phases, Sampling, UnitsOf, Settled, diskVars, memoryVars, netVars, panelVars
  <2> QED
    BY <1>0, <2>1, AgentFrame DEF OnDisk, Requests, diskVars, netVars, panelVars
<1> QED
  BY <1>5, <1>6, <1>7

\* A new invocation has counted nothing.
LEMMA InvRestart ==
    ASSUME Inv, NEW e \in Endpoint, RestartHysteria(e) PROVE Batches' /\ Sources' /\ Agent'
<1> USE DEF Inv
<1>0. UNCHANGED <<now, served, diskVars, memoryVars, netVars, panelVars>>
  BY DEF RestartHysteria
<1>1. /\ \A f \in Endpoint : f # e => epoch'[f] = epoch[f] /\ counter'[f] = counter[f]
      /\ epoch'[e] = epoch[e] + 1 /\ counter'[e] = {}
      /\ epoch[e] \in Nat
  BY BoundsAssumption DEF RestartHysteria, TypeOK
<1>2. ASSUME NEW base \in Baseline, NEW recorded, BaseOK(base, recorded)
      PROVE  Splits(base, recorded, epoch', counter')
  <2> SUFFICES ASSUME NEW f \in Endpoint
               PROVE  /\ base[f].epoch <= epoch'[f]
                      /\ base[f].traffic \subseteq recorded
                      /\ base[f].epoch = epoch'[f] =>
                           /\ base[f].traffic \subseteq counter'[f]
                           /\ (counter'[f] \ base[f].traffic) \cap recorded = {}
                      /\ base[f].epoch < epoch'[f] => counter'[f] \cap recorded = {}
    BY <1>0 DEF BaseOK, Splits
  <2>1. CASE f = e
    <3>1. base[e].epoch \in Nat /\ base[e].epoch <= epoch[e]
      BY <1>2 DEF BaseOK, Splits, Baseline, Reading
    <3> QED
      BY <1>1, <1>2, <2>1, <3>1 DEF BaseOK, Splits
  <2>2. CASE f # e
    BY <1>1, <1>2, <2>2 DEF BaseOK, Splits
  <2> QED
    BY <2>1, <2>2
<1>3. Batches'
  BY <1>0, NotBefore, BatchesFrame DEF Held, Travelling, diskVars, memoryVars, netVars, panelVars
<1>4. Sources'
  <2>1. journal.base \in Baseline /\ sample.base \in Baseline
    BY DEF TypeOK, Sample
  <2>2. Baselines'
    <3>1. /\ sample' = sample /\ journal' = journal /\ sampled' = sampled /\ phase' = phase
          /\ NewUnits' = NewUnits /\ Sampling' = Sampling
      BY <1>0 DEF NewUnits, UnitsOf, Sampling, diskVars, memoryVars
    <3>2. BaseOK(journal.base, sampled)'
      <4>1. BaseOK(journal.base, sampled)
        BY DEF Sources, Baselines
      <4> QED
        BY <1>2, <2>1, <3>1, <4>1 DEF BaseOK
    <3>3. Sampling => BaseOK(sample.base, sampled \cup NewUnits)'
      <4>1. Sampling => BaseOK(sample.base, sampled \cup NewUnits)
        BY DEF Sources, Baselines
      <4> QED
        BY <1>2, <2>1, <3>1, <4>1 DEF BaseOK
    <3> QED
      BY <3>1, <3>2, <3>3 DEF Baselines
  <2>3. Carried'
    BY <1>0, <1>1 DEF Sources, Carried, NewUnits, UnitsOf, diskVars, memoryVars
  <2>4. Reads'
    <3>1. \A f, g \in sample.cur : f = g
      BY DEF Sources, Reads
    <3>2. \A f \in sample.cur : f \in Endpoint /\ epoch[f] \in Nat /\ sample.label \in Nat
      BY DEF TypeOK, Sample
    <3>3. phase \in {"read", "recheck"} => \A f \in sample.cur : sample.label <= epoch[f]
      BY DEF Sources, Reads
    <3>4. phase = "recheck" =>
            \A f \in sample.cur : sample.label = epoch[f] => sample.read \subseteq counter[f]
      BY DEF Sources, Reads
    <3> QED
      BY <1>0, <1>1, <3>1, <3>2, <3>3, <3>4 DEF Reads, memoryVars
  <2> QED
    BY <2>2, <2>3, <2>4 DEF Sources
<1>5. Agent'
  <2>1. Phases'
    BY <1>0 DEF Agent, Phases, Sampling, UnitsOf, Settled, diskVars, memoryVars, netVars, panelVars
  <2> QED
    BY <1>0, <2>1, AgentFrame DEF OnDisk, Requests, diskVars, netVars, panelVars
<1> QED
  BY <1>3, <1>4, <1>5

\* Time passes: batches expire, and none that is being applied.
LEMMA InvTick == Inv /\ Tick => Batches' /\ Sources' /\ Agent'
<1> SUFFICES ASSUME Inv, Tick PROVE Batches' /\ Sources' /\ Agent'
  OBVIOUS
<1> USE DEF Inv
<1>0. /\ UNCHANGED <<hysteriaVars, diskVars, memoryVars, netVars, panelVars>>
      /\ now' = now + 1 /\ now \in Nat
      /\ \A r \in Requests : r.status # "serving"
  BY DEF Tick, Requests, TypeOK
<1>1. Held' = Held /\ NewUnits' = NewUnits /\ Settled' = Settled /\ Requests' = Requests
  BY <1>0 DEF Held, Travelling, NewUnits, UnitsOf, Settled, Requests, diskVars, memoryVars,
              netVars, panelVars
<1>2. \A x \in Held \cup sample.batches : x.at \in Nat
  <2>1. call.batches \subseteq Batch /\ UNION {q.batches : q \in late} \subseteq Batch
    BY DEF TypeOK, Call
  <2> QED
    BY <2>1 DEF Held, Travelling, TypeOK, Sample, Batch
<1>3. \A x \in Held : IsExpired(x) => IsExpired(x)'
  BY <1>0, <1>2, BoundsAssumption DEF IsExpired
<1>4. Batches'
  <2>1. Apart' /\ Origins' /\ NewIds'
    BY <1>0, <1>1 DEF Batches, Apart, Origins, NewIds, UnitsOf, diskVars, memoryVars, panelVars
  <2>2. LedgerKnows'
    BY <1>0, <1>1, <1>3 DEF Batches, LedgerKnows, panelVars
  <2>3. RowTimes'
    <3>1. sample.at \in Nat
      BY DEF TypeOK, Sample
    <3> QED
      BY <1>0, <1>1, <1>2, <3>1 DEF Batches, RowTimes, memoryVars, panelVars
  <2> QED
    BY <2>1, <2>2, <2>3 DEF Batches
<1>5. Sources'
  BY <1>0, SourcesSame DEF hysteriaVars, diskVars, memoryVars
<1>6. Agent'
  <2>1. NothingLost' /\ Phases'
    BY <1>0, <1>1 DEF Agent, NothingLost, Phases, Sampling, UnitsOf, diskVars, memoryVars, netVars
  <2>2. \A r \in Requests : Progress(r)'
    BY <1>0, <1>1 DEF Agent, Covered, Progress, UnitsOf, panelVars
  <2>3. Covered'
    BY <1>0, <1>1, <2>2 DEF Agent, Covered, panelVars
  <2> QED
    BY <2>1, <2>3 DEF Agent
<1> QED
  BY <1>4, <1>5, <1>6

\* What the operator archives is settled.
LEMMA InvReconcile ==
    ASSUME Inv, NEW b \in SpoolFiles, Reconcile(b) PROVE Batches' /\ Sources' /\ Agent'
<1> USE DEF Inv
<1>0. /\ UNCHANGED <<now, hysteriaVars, journal, sampled, memoryVars, netVars, panelVars>>
      /\ staged' \cup spool' = (staged \cup spool) \ {b} /\ archived' = archived \cup b.units
  BY DEF Reconcile, SpoolFiles
<1>1. Settled' = Settled \cup b.units
  BY <1>0 DEF Settled, panelVars
<1>2. Held' \subseteq Held
  BY <1>0 DEF Held, Travelling, memoryVars, netVars
<1>3. Batches'
  BY <1>0, <1>2, NotBefore, BatchesFrame DEF memoryVars, panelVars
<1>4. Sources'
  BY <1>0, SourcesSame DEF hysteriaVars, memoryVars
<1>5. UnitsOf(staged \cup spool) \subseteq UnitsOf(staged' \cup spool') \cup b.units
  BY <1>0 DEF UnitsOf
<1>6. NothingLost'
  BY <1>0, <1>1, <1>5 DEF Agent, NothingLost, UnitsOf
<1>7. Phases'
  BY <1>0, <1>1, <1>5 DEF Agent, Phases, Sampling, memoryVars, netVars
<1>8. \A r \in Requests : Progress(r)'
  BY <1>0, <1>1 DEF Agent, Covered, Progress, UnitsOf, IsExpired, panelVars
<1>9. Covered'
  BY <1>0, <1>1, <1>8 DEF Agent, Covered, Requests, netVars, panelVars
<1> QED
  BY <1>3, <1>4, <1>6, <1>7, <1>9 DEF Agent

\* Neither the clock nor Hysteria nor the operator breaks the invariant.
LEMMA InvEnvironment == Inv /\ Environment => Inv'
<1> SUFFICES ASSUME Inv, Environment PROVE Batches' /\ Sources' /\ Agent'
  BY TypeEnvironment DEF Inv
<1> QED
  BY InvServe, InvRestart, InvTick, InvReconcile DEF Environment

\* A step that changes nothing keeps the invariant.
LEMMA InvStutter == Inv /\ UNCHANGED vars => Inv'
<1> SUFFICES ASSUME Inv, UNCHANGED vars PROVE Inv'
  OBVIOUS
<1> USE DEF Inv
<1>1. UNCHANGED <<now, hysteriaVars, diskVars, memoryVars, netVars, panelVars>>
  BY DEF vars
<1>2. Batches'
  BY <1>1, NotBefore, BatchesFrame DEF Held, Travelling, diskVars, memoryVars, netVars, panelVars
<1>3. Sources'
  BY <1>1, SourcesSame DEF hysteriaVars, diskVars, memoryVars
<1>4. Phases'
  BY <1>1 DEF Agent, Phases, Sampling, UnitsOf, Settled, diskVars, memoryVars, netVars, panelVars
<1>5. Agent'
  BY <1>1, <1>4, AgentFrame DEF OnDisk, Requests, diskVars, netVars, panelVars
<1> QED
  BY <1>2, <1>3, <1>5, TypeStutter

-----------------------------------------------------------------------------
(* What follows for every behaviour.                                       *)

\* Nothing is recorded, sent or added at the start.
LEMMA InvInit == Init => Inv
<1> SUFFICES ASSUME Init PROVE Inv
  OBVIOUS
<1>0. TypeOK
  BY TypeInit
<1>1. /\ Held = {} /\ sample.batches = {} /\ sample.cur = {} /\ sample.at = 0 /\ ~Sampling
      /\ NewUnits = {} /\ DOMAIN ledger = {}
  BY NoSampleIsEmpty DEF Init, Held, Travelling, NoCall, Sampling, NewUnits, UnitsOf
<1>2. Batches
  BY <1>1 DEF Init, Batches, Apart, Origins, LedgerKnows, RowTimes, NewIds, UnitsOf
<1>3. Sources
  BY <1>1 DEF Init, Sources, Baselines, BaseOK, Splits, Carried, Reads, Sampling, NoReading
<1>4. Phases /\ NothingLost
  BY <1>1 DEF Init, Phases, NothingLost
<1>5. Covered
  BY DEF Init, Covered, Requests, Progress, NoCall, NoSnapshot
<1> QED
  BY <1>0, <1>2, <1>3, <1>4, <1>5 DEF Inv, Agent

\* The ledger's row limit is not reached by the batches of one retention period.
RowsSuffice == LedgerRows >= MaxBatch

\* The inductive invariant holds of every reachable state.
THEOREM Invariant == ASSUME RowsSuffice PROVE Spec => []Inv
<1>1. Inv /\ [Next]_vars => Inv'
  BY InvCollect, InvUpload, InvPanel, InvFaults, InvEnvironment, InvStutter
     DEF Next, RowsSuffice
<1> QED
  BY <1>1, InvInit, PTL DEF Spec

\* Whatever is retried, delivered late, crashes or restarts, no piece of traffic
\* is added to the totals twice, while the ledger has room for the rows of a
\* retention period.
THEOREM AddedOnce == ASSUME RowsSuffice PROVE Spec => []ExactlyOnce
<1>1. Inv => ExactlyOnce
  BY DEF Inv, Batches, Origins, ExactlyOnce
<1> QED
  BY <1>1, Invariant, PTL

\* Traffic the journal recorded is in the totals, archived, or on the agent's
\* disk: no crash, failed write or full spool drops it.
THEOREM RecordedIsKept == ASSUME RowsSuffice PROVE Spec => []NothingLost
<1>1. Inv => NothingLost
  BY DEF Inv, Agent
<1> QED
  BY <1>1, Invariant, PTL

\* While the panel calls a user's usage complete, the traffic sampled before
\* the online list it shows is in the totals.
THEOREM CompleteMeansCounted == ASSUME RowsSuffice PROVE Spec => []CompleteUsageCoversTraffic
<1>1. Inv => CompleteUsageCoversTraffic
  BY DEF Inv, Agent, Covered, CompleteUsageCoversTraffic
<1> QED
  BY <1>1, Invariant, PTL
=============================================================================
