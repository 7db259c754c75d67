---------------------- MODULE NodeAccountingRefinement ----------------------
(***************************************************************************)
(* More about NodeAccounting, for every value of its constants: only a     *)
(* restart of Hysteria loses traffic, the panel's online picture never     *)
(* goes back, and the pipeline implements the abstract TrafficLedger.      *)
(***************************************************************************)
EXTENDS NodeAccountingProof

-----------------------------------------------------------------------------
(* Loss.                                                                   *)

\* Before its first restart an endpoint's counters hold all it has carried.
FirstInvocation ==
    \A e \in Endpoint : epoch[e] > 0 /\ (epoch[e] = 1 => {u \in served : Route[u] = e} \subseteq counter[e])

\* Only Hysteria itself changes what it has carried and counted.
LEMMA HysteriaSteps ==
    ASSUME [Next]_vars
    PROVE  \/ UNCHANGED hysteriaVars
           \/ \E u \in Unit : Serve(u)
           \/ \E e \in Endpoint : RestartHysteria(e)
<1>1. CASE Collect
  BY <1>1 DEF Collect, BeginCycle, SaveJournal, PersistPending, PromotionDone, ClearPending,
              ReadEpoch, ReadCounters, RecheckEpoch, NoBatchId, StageBatch, PromoteBatch
<1>2. CASE Upload
  BY <1>2 DEF Upload, SendCycle, BeginDrain, SendSnapshot, NothingToSend, SendBatch,
              ReceiveReply, AcksDone, ReceiveRejection, AckBatch
<1>3. CASE Panel
  BY <1>3 DEF Panel, Admit, AcceptSnapshot, Reply, ApplyBatch
<1>4. CASE Faults
  BY <1>4 DEF Faults, EndpointFails, SaveFails, StageFails, Timeout, Crash, ServerFails
<1>5. CASE Environment
  BY <1>5 DEF Environment, Tick, Reconcile
<1>6. CASE UNCHANGED vars
  BY <1>6 DEF vars
<1> QED
  BY <1>1, <1>2, <1>3, <1>4, <1>5, <1>6 DEF Next

\* A piece of traffic is counted where it is carried, a restart ends the first
\* invocation.
LEMMA FirstInvocationStep == TypeOK /\ FirstInvocation /\ [Next]_vars => FirstInvocation'
<1> SUFFICES ASSUME TypeOK, FirstInvocation, [Next]_vars PROVE FirstInvocation'
  OBVIOUS
<1>1. CASE UNCHANGED hysteriaVars
  BY <1>1 DEF FirstInvocation, hysteriaVars
<1>2. ASSUME NEW u \in Unit, Serve(u) PROVE FirstInvocation'
  <2>1. \A e \in Endpoint : counter'[e] = IF e = Route[u] THEN counter[e] \cup {u} ELSE counter[e]
    BY <1>2, SetsAssumption DEF Serve, TypeOK
  <2> QED
    BY <1>2, <2>1 DEF Serve, FirstInvocation
<1>3. ASSUME NEW e \in Endpoint, RestartHysteria(e) PROVE FirstInvocation'
  <2>1. /\ \A f \in Endpoint : f # e => epoch'[f] = epoch[f] /\ counter'[f] = counter[f]
        /\ epoch'[e] = epoch[e] + 1 /\ epoch[e] \in Nat /\ epoch[e] > 0
    BY <1>3 DEF RestartHysteria, TypeOK, FirstInvocation
  <2> QED
    BY <1>3, <2>1 DEF RestartHysteria, FirstInvocation
<1> QED
  BY <1>1, <1>2, <1>3, HysteriaSteps

\* Until its first restart, all traffic of an endpoint is recorded or belongs to
\* the next delta: no failure moves a baseline past traffic that the journal
\* does not hold.
THEOREM OnlyRestartLoses == ASSUME RowsSuffice PROVE Spec => []LostOnlyByRestart
<1>1. Init => FirstInvocation
  BY DEF Init, FirstInvocation
<1>2. Inv => TypeOK
  BY DEF Inv
<1>3. Inv /\ FirstInvocation => LostOnlyByRestart
  <2> SUFFICES ASSUME Inv, FirstInvocation, NEW e \in Endpoint, epoch[e] = 1
               PROVE  {u \in served : Route[u] = e} \subseteq sampled \cup NextDelta(e)
    BY DEF LostOnlyByRestart
  <2>1. {u \in served : Route[u] = e} \subseteq counter[e]
    BY DEF FirstInvocation
  <2>2. journal.base[e].traffic \subseteq sampled
    BY DEF Inv, Sources, Baselines, BaseOK, Splits
  <2> QED
    BY <2>1, <2>2 DEF NextDelta
<1> QED
  BY <1>1, <1>2, <1>3, FirstInvocationStep, Invariant, PTL DEF Spec

-----------------------------------------------------------------------------
(* The order of online snapshots.                                          *)

\* The observations under way and the one the panel shows.
Snapshots == {r.snap : r \in Requests} \cup {snapshot}

\* A higher sequence number covers at least as much.
InOrder ==
    /\ \A s, t \in Snapshots : s.seq <= t.seq => s.covers \subseteq t.covers
    /\ \A s \in Snapshots : s.seq <= protocol.sequence /\ s.covers \subseteq sampled
                            /\ (s.seq = 0 => s.covers = {})

\* No observation appears: the order stays.
LEMMA OrderFrame ==
    ASSUME TypeOK, InOrder, Snapshots' \subseteq Snapshots \cup {NoSnapshot},
           sampled \subseteq sampled',
           protocol'.sequence \in {protocol.sequence, protocol.sequence + 1}
    PROVE  InOrder'
<1>1. NoSnapshot.seq = 0 /\ NoSnapshot.covers = {}
  BY DEF NoSnapshot
<1>2. /\ protocol.sequence \in Nat
      /\ \A s \in Snapshots : s.seq \in Nat
  BY RequestsType DEF TypeOK, Snapshots, Call, Snapshot
<1>3. \A s \in Snapshots \cup {NoSnapshot} : s.seq = 0 => s.covers = {}
  BY <1>1 DEF InOrder
<1>4. \A s, t \in Snapshots \cup {NoSnapshot} : s.seq <= t.seq => s.covers \subseteq t.covers
  <2> SUFFICES ASSUME NEW s \in Snapshots \cup {NoSnapshot},
                      NEW t \in Snapshots \cup {NoSnapshot}, s.seq <= t.seq
               PROVE  s.covers \subseteq t.covers
    OBVIOUS
  <2>1. CASE s = NoSnapshot
    BY <1>1, <2>1
  <2>2. CASE s \in Snapshots /\ t = NoSnapshot
    BY <1>1, <1>2, <1>3, <2>2
  <2>3. CASE s \in Snapshots /\ t \in Snapshots
    BY <2>3 DEF InOrder
  <2> QED
    BY <2>1, <2>2, <2>3
<1> QED
  BY <1>1, <1>2, <1>3, <1>4 DEF InOrder

\* An observation with the next number covers everything recorded.
LEMMA NextSnapshotInOrder ==
    ASSUME TypeOK, InOrder, protocol.sequence < MaxSequence,
           Snapshots' \subseteq Snapshots \cup {NextSnapshot}, sampled' = sampled,
           protocol'.sequence = protocol.sequence + 1
    PROVE  InOrder'
<1>1. NextSnapshot.seq = protocol.sequence + 1 /\ NextSnapshot.covers = sampled
  BY DEF NextSnapshot
<1>2. /\ protocol.sequence \in Nat
      /\ \A s \in Snapshots : s.seq \in Nat
  BY RequestsType DEF TypeOK, Snapshots, Call, Snapshot
<1> QED
  BY <1>1, <1>2 DEF InOrder

\* Every step keeps the order, and the panel's observation only advances.
LEMMA OrderStep ==
    ASSUME TypeOK, InOrder, Next
    PROVE  InOrder' /\ snapshot.covers \subseteq snapshot'.covers
<1>1. CASE Collect
  <2>1. UNCHANGED <<call, late, snapshot, protocol>> /\ sampled \subseteq sampled'
    BY <1>1 DEF Collect, BeginCycle, SaveJournal, PersistPending, PromotionDone, ClearPending,
                ReadEpoch, ReadCounters, RecheckEpoch, NoBatchId, StageBatch, PromoteBatch,
                diskVars, netVars, panelVars
  <2> QED
    BY <2>1, OrderFrame DEF Snapshots, Requests
<1>2. ASSUME NEW batches \in SUBSET Uploadable, SendCycle(batches)
      PROVE  InOrder' /\ snapshot.covers \subseteq snapshot'.covers
  <2>1. snapshot' = snapshot /\ sampled' = sampled /\ late' = late
    BY <1>2 DEF SendCycle, panelVars
  <2>2. CASE call' = Request(batches, NoSnapshot) /\ protocol' = protocol
    BY <2>1, <2>2, OrderFrame DEF Snapshots, Requests, Request
  <2>3. CASE /\ protocol.sequence < MaxSequence
             /\ protocol' = [protocol EXCEPT !.sequence = @ + 1]
             /\ call' \in {Request(batches, NextSnapshot), Request(batches, NoSnapshot)}
    <3>1. protocol'.sequence = protocol.sequence + 1
      BY <2>3 DEF TypeOK
    <3>2. CASE call' = Request(batches, NextSnapshot)
      BY <2>1, <2>3, <3>1, <3>2, NextSnapshotInOrder DEF Snapshots, Requests, Request
    <3>3. CASE call' = Request(batches, NoSnapshot)
      BY <2>1, <3>1, <3>3, OrderFrame DEF Snapshots, Requests, Request
    <3> QED
      BY <2>1, <2>3, <3>2, <3>3
  <2> QED
    BY <1>2, <2>2, <2>3 DEF SendCycle
<1>3. CASE SendSnapshot
  <2>1. /\ protocol'.sequence = protocol.sequence + 1 /\ protocol.sequence < MaxSequence
        /\ snapshot' = snapshot /\ sampled' = sampled /\ late' = late
        /\ call' = Request({}, NextSnapshot)
    BY <1>3 DEF SendSnapshot, MayRefresh, panelVars, TypeOK
  <2> QED
    BY <2>1, NextSnapshotInOrder DEF Snapshots, Requests, Request
<1>4. ASSUME \/ BeginDrain \/ NothingToSend \/ ReceiveReply \/ AcksDone \/ ReceiveRejection
             \/ \E b \in work : SendBatch(b)
             \/ \E b \in spool : AckBatch(b)
      PROVE  InOrder' /\ snapshot.covers \subseteq snapshot'.covers
  <2>1. /\ UNCHANGED <<late, snapshot, sampled>> /\ protocol'.sequence = protocol.sequence
        /\ call' = call \/ call'.snap = NoSnapshot
    BY <1>4 DEF BeginDrain, NothingToSend, ReceiveReply, AcksDone, ReceiveRejection, SendBatch,
                AckBatch, EndCycle, NoCall, Request, diskVars, netVars, panelVars, TypeOK
  <2> QED
    BY <2>1, OrderFrame DEF Snapshots, Requests
<1>5. ASSUME NEW r \in Requests,
             \/ Admit(r) \/ AcceptSnapshot(r) \/ Reply(r) \/ ServerFails(r)
             \/ \E b \in r.todo : ApplyBatch(r, b)
      PROVE  InOrder' /\ snapshot.covers \subseteq snapshot'.covers
  <2>1. UNCHANGED <<sampled, protocol>>
    BY <1>5 DEF Admit, AcceptSnapshot, Reply, ServerFails, ApplyBatch, diskVars
  <2>2. PICK s : Becomes(r, s) /\ s.snap = r.snap
    <3>1. /\ [r EXCEPT !.status = "serving", !.at = now].snap = r.snap
          /\ [r EXCEPT !.status = "rejected", !.todo = {}].snap = r.snap
          /\ [r EXCEPT !.status = "replied"].snap = r.snap
          /\ \A b : [r EXCEPT !.todo = @ \ {b}].snap = r.snap
      BY RequestsType DEF Call
    <3>2. CASE Admit(r) \/ ServerFails(r)
      BY <3>1, <3>2 DEF Admit, ServerFails, Reject
    <3>3. CASE AcceptSnapshot(r) \/ Reply(r)
      BY <3>1, <3>3 DEF AcceptSnapshot, Reply, Reject
    <3>4. CASE \E b \in r.todo : ApplyBatch(r, b)
      BY <3>1, <3>4 DEF ApplyBatch
    <3> QED
      BY <1>5, <3>2, <3>3, <3>4
  <2>3. snapshot' = snapshot \/ (snapshot' = r.snap /\ r.snap.seq > snapshot.seq)
    BY <1>5 DEF Admit, AcceptSnapshot, Reply, ServerFails, ApplyBatch, panelVars
  <2>4. Snapshots' \subseteq Snapshots
    <3>1. Requests' \subseteq Requests \cup {s}
      BY <2>2 DEF Becomes, Requests
    <3> QED
      BY <2>2, <2>3, <3>1 DEF Snapshots
  <2>5. snapshot.seq \in Nat /\ r.snap.seq \in Nat
    BY RequestsType DEF TypeOK, Call, Snapshot
  <2>6. snapshot.covers \subseteq snapshot'.covers
    BY <2>3, <2>5 DEF InOrder, Snapshots
  <2> QED
    BY <2>1, <2>4, <2>6, OrderFrame
<1>6. ASSUME \/ \E e \in Endpoint : EndpointFails(e)
             \/ SaveFails \/ StageFails \/ Timeout \/ Crash
             \/ \E u \in Unit : Serve(u)
             \/ \E e \in Endpoint : RestartHysteria(e)
             \/ Tick
             \/ \E b \in SpoolFiles : Reconcile(b)
      PROVE  InOrder' /\ snapshot.covers \subseteq snapshot'.covers
  <2>1. /\ UNCHANGED <<snapshot, sampled, protocol>>
        /\ call' = call \/ call' = NoCall
        /\ late' = late \/ late' = late \cup {call}
    BY <1>6 DEF EndpointFails, SaveFails, StageFails, Timeout, Crash, Serve, RestartHysteria, Tick,
                Reconcile, EndCycle, diskVars, netVars, panelVars
  <2>2. Snapshots' \subseteq Snapshots \cup {NoSnapshot}
    BY <2>1 DEF Snapshots, Requests, NoCall
  <2> QED
    BY <2>1, <2>2, OrderFrame
<1> QED
  BY <1>1, <1>2, <1>3, <1>4, <1>5, <1>6 DEF Next, Upload, Panel, Faults, Environment

\* The online picture of the panel never goes back to an older observation,
\* though the requests of several attempts reach it in any order.
THEOREM PictureAdvances == Spec => SnapshotsNeverRegress
<1>1. Init => InOrder
  BY BoundsAssumption DEF Init, InOrder, Snapshots, Requests, NoCall, NoSnapshot
<1>2. TypeOK /\ InOrder /\ [Next]_vars => InOrder' /\ [snapshot.covers \subseteq snapshot'.covers]_vars
  <2>1. ASSUME InOrder, UNCHANGED vars PROVE InOrder'
    BY <2>1 DEF InOrder, Snapshots, Requests, vars, diskVars, netVars, panelVars
  <2> QED
    BY <2>1, OrderStep
<1> QED
  BY <1>1, <1>2, TypeCorrect, PTL DEF Spec, SnapshotsNeverRegress

-----------------------------------------------------------------------------
(* The refinement.                                                         *)

\* Traffic that an invocation still holds, or that is being read.
InReach == (UNION {counter[e] : e \in Endpoint}) \cup NewUnits

\* What is gone is neither recorded nor in reach.
LEMMA GoneIs == Gone = served \ (sampled \cup InReach)
  BY DEF Gone, InReach, NewUnits

\* A step that leaves the totals and the record alone can only lose traffic.
LEMMA LosingStep ==
    ASSUME UNCHANGED <<served, sampled, credited, archived>>, InReach' \subseteq InReach,
           served \subseteq Unit
    PROVE  Abstract!LedgerNext
<1>1. Gone' = Gone \cup (Gone' \ Gone) /\ Gone' \ Gone \subseteq served \ sampled
  BY GoneIs DEF Gone, InReach, NewUnits
<1>2. Abstract!Lose(Gone' \ Gone)
  BY <1>1 DEF Abstract!Lose
<1> QED
  BY <1>1, <1>2 DEF Abstract!LedgerNext

\* A delta is still counted by the invocation that carried it.
LEMMA DeltaInReach ==
    ASSUME Inv, NEW e \in Endpoint, RecheckEpoch(e)
    PROVE  NewUnits' \subseteq InReach
<1> DEFINE base == [sample.base EXCEPT ![e] = [epoch |-> sample.label, traffic |-> sample.read]]
           made(id) == [id |-> id, at |-> sample.at, units |-> sample.read \ Recorded(e)]
<1>1. CASE EndpointDone(e, sample.base, sample.batches, TRUE)
  BY <1>1 DEF EndpointDone, Inv, TypeOK, Sample, NewUnits, InReach
<1>2. ASSUME epoch[e] = sample.label, Recorded(e) \subseteq sample.read,
             NEW id \in 1..MaxBatch,
             EndpointDone(e, base, sample.batches \cup {made(id)}, FALSE)
      PROVE  NewUnits' \subseteq InReach
  <2>1. sample.read \ Recorded(e) \subseteq counter[e]
    BY <1>2, DeltaIsNew DEF RecheckEpoch
  <2>2. sample'.batches = sample.batches \cup {made(id)}
    BY <1>2 DEF EndpointDone, Inv, TypeOK, Sample
  <2>3. made(id).units = sample.read \ Recorded(e)
    OBVIOUS
  <2>4. NewUnits' \subseteq NewUnits \cup (sample.read \ Recorded(e))
    BY <2>2, <2>3 DEF NewUnits, UnitsOf
  <2> QED
    BY <2>1, <2>4 DEF InReach
<1> QED
  BY <1>1, <1>2 DEF RecheckEpoch

\* Collecting records traffic or, when a reading is given up, changes nothing.
LEMMA CollectImplements == ASSUME Inv, Collect PROVE Abstract!LedgerNext
<1>0. served \subseteq Unit
  BY DEF Inv, TypeOK
<1>1. CASE SaveJournal
  <2>1. /\ sampled' = sampled \cup NewUnits /\ NewUnits' = {}
        /\ UNCHANGED <<served, counter, credited, archived>>
    BY <1>1, NoSampleIsEmpty
       DEF SaveJournal, NewUnits, UnitsOf, hysteriaVars, panelVars, NoSample
  <2>2. NewUnits \subseteq served \ (sampled \cup Gone)
    BY GoneIs DEF Inv, Batches, Origins, Sources, Carried, InReach
  <2>3. Gone' = Gone
    BY <2>1 DEF Gone, NewUnits
  <2>4. Abstract!Record(NewUnits) /\ NewUnits \in SUBSET Unit
    BY <1>0, <2>1, <2>2, <2>3 DEF Abstract!Record
  <2> QED
    BY <2>4 DEF Abstract!LedgerNext
<1>2. ASSUME \/ BeginCycle \/ PersistPending \/ PromotionDone \/ ClearPending
             \/ \E e \in Endpoint : ReadEpoch(e) \/ ReadCounters(e) \/ NoBatchId(e)
             \/ \E b \in work : StageBatch(b)
             \/ \E b \in staged : PromoteBatch(b)
      PROVE  Abstract!LedgerNext
  <2>1. /\ UNCHANGED <<served, counter, sampled, credited, archived>>
        /\ sample'.batches = sample.batches \/ sample'.batches = {}
    <3>1. CASE BeginCycle \/ ClearPending
      BY <3>1 DEF BeginCycle, ClearPending, NewSample, NoSample, hysteriaVars, diskVars, panelVars
    <3>2. CASE \/ PersistPending \/ PromotionDone
               \/ \E b \in work : StageBatch(b)
               \/ \E b \in staged : PromoteBatch(b)
      BY <3>2 DEF PersistPending, PromotionDone, StageBatch, PromoteBatch, hysteriaVars, diskVars,
                  memoryVars, panelVars
    <3>3. CASE \E e \in Endpoint : ReadEpoch(e) \/ ReadCounters(e) \/ NoBatchId(e)
      BY <3>3 DEF ReadEpoch, ReadCounters, NoBatchId, EndpointDone, Inv, TypeOK, Sample,
                  hysteriaVars, diskVars, panelVars
    <3> QED
      BY <1>2, <3>1, <3>2, <3>3
  <2>2. InReach' \subseteq InReach
    BY <2>1 DEF InReach, NewUnits, UnitsOf
  <2> QED
    BY <1>0, <2>1, <2>2, LosingStep
<1>3. ASSUME NEW e \in Endpoint, RecheckEpoch(e) PROVE Abstract!LedgerNext
  <2>1. UNCHANGED <<served, counter, sampled, credited, archived>>
    BY <1>3 DEF RecheckEpoch, hysteriaVars, diskVars, panelVars
  <2>2. InReach' \subseteq InReach
    BY <1>3, <2>1, DeltaInReach DEF InReach
  <2> QED
    BY <1>0, <2>1, <2>2, LosingStep
<1> QED
  BY <1>1, <1>2, <1>3 DEF Collect

\* A batch is counted once.
LEMMA ApplyImplements ==
    ASSUME Inv, NEW r \in Requests, NEW b \in r.todo, ApplyBatch(r, b)
    PROVE  Abstract!LedgerNext
<1>0. served \subseteq Unit /\ r \in Call /\ Progress(r) /\ r.status = "serving"
  BY RequestsType DEF Inv, TypeOK, Agent, Covered, ApplyBatch
<1>1. b \in r.batches /\ b \in Batch /\ b \in Held
  BY <1>0 DEF Progress, Call, Held, Travelling, Requests
<1>2. UNCHANGED <<served, counter, sampled, archived, sample>>
  BY DEF ApplyBatch, hysteriaVars, diskVars, memoryVars
<1>3. Gone' = Gone
  BY <1>2 DEF Gone
<1>4. CASE credited' = credited
  BY <1>0, <1>2, <1>4, LosingStep DEF InReach, NewUnits
<1>5. CASE b.id \notin DOMAIN ledger
           /\ credited' = [u \in Unit |-> IF u \in b.units THEN credited[u] + 1 ELSE credited[u]]
  <2>1. \A u \in b.units : credited[u] = 0 /\ u \in sampled
    BY <1>0, <1>1, <1>5, BatchAdded DEF Inv, Batches, Origins, UnitsOf
  <2>2. b.units \in SUBSET Unit
    BY <1>1 DEF Batch
  <2>3. Abstract!Count(b.units)
    BY <1>2, <1>3, <1>5, <2>1 DEF Abstract!Count
  <2> QED
    BY <2>2, <2>3 DEF Abstract!LedgerNext
<1> QED
  BY <1>4, <1>5 DEF ApplyBatch, panelVars

\* The environment carries traffic, or loses what was not recorded.
LEMMA EnvironmentImplements ==
    ASSUME Inv, Environment PROVE Abstract!LedgerNext
<1>0. served \subseteq Unit
  BY DEF Inv, TypeOK
<1>1. ASSUME NEW u \in Unit, Serve(u) PROVE Abstract!LedgerNext
  <2>1. \A e \in Endpoint : counter'[e] = IF e = Route[u] THEN counter[e] \cup {u} ELSE counter[e]
    BY <1>1, SetsAssumption DEF Serve, Inv, TypeOK
  <2>2. /\ served' = served \cup {u} /\ u \notin served
        /\ UNCHANGED <<sampled, credited, archived, sample>>
    BY <1>1 DEF Serve, diskVars, memoryVars, panelVars
  <2>3. (UNION {counter'[e] : e \in Endpoint}) = (UNION {counter[e] : e \in Endpoint}) \cup {u}
    <3>1. Route[u] \in Endpoint /\ u \in counter'[Route[u]]
      BY <2>1, SetsAssumption
    <3>2. \A e \in Endpoint : counter[e] \subseteq counter'[e] /\ counter'[e] \subseteq counter[e] \cup {u}
      BY <2>1
    <3> QED
      BY <3>1, <3>2
  <2>4. Gone' = Gone
    <3>1. NewUnits' = NewUnits
      BY <2>2 DEF NewUnits, UnitsOf
    <3>2. InReach' = InReach \cup {u}
      BY <2>3, <3>1 DEF InReach
    <3>3. (Gone = served \ (sampled \cup InReach))'
      BY GoneIs DEF Gone, InReach, NewUnits
    <3> QED
      BY <2>2, <3>2, <3>3, GoneIs
  <2>5. Abstract!Carry(u)
    BY <2>2, <2>4 DEF Abstract!Carry
  <2> QED
    BY <2>5 DEF Abstract!LedgerNext
<1>2. ASSUME NEW e \in Endpoint, RestartHysteria(e) PROVE Abstract!LedgerNext
  <2>1. /\ UNCHANGED <<served, sampled, credited, archived, sample>>
        /\ \A f \in Endpoint : counter'[f] \subseteq counter[f]
    BY <1>2 DEF RestartHysteria, Inv, TypeOK, diskVars, memoryVars, panelVars
  <2>2. InReach' \subseteq InReach
    BY <2>1 DEF InReach, NewUnits
  <2> QED
    BY <1>0, <2>1, <2>2, LosingStep
<1>3. CASE Tick
  <2>1. UNCHANGED <<served, counter, sampled, credited, archived, sample>>
    BY <1>3 DEF Tick, hysteriaVars, diskVars, memoryVars, panelVars
  <2> QED
    BY <1>0, <2>1, LosingStep DEF InReach, NewUnits
<1>4. ASSUME NEW b \in SpoolFiles, Reconcile(b) PROVE Abstract!LedgerNext
  <2>1. /\ archived' = archived \cup b.units
        /\ UNCHANGED <<served, counter, sampled, credited, sample>>
    BY <1>4 DEF Reconcile, hysteriaVars, memoryVars, panelVars
  <2>2. Gone' = Gone
    BY <2>1 DEF Gone
  <2>3. b.units \subseteq sampled /\ b.units \in SUBSET Unit
    BY DEF SpoolFiles, Held, Inv, Batches, Origins, UnitsOf, TypeOK, Batch
  <2>4. Abstract!Archive(b.units)
    BY <2>1, <2>2, <2>3 DEF Abstract!Archive
  <2> QED
    BY <2>3, <2>4 DEF Abstract!LedgerNext
<1> QED
  BY <1>1, <1>2, <1>3, <1>4 DEF Environment

\* Every step of the pipeline is a step of the abstract ledger or a stutter.
LEMMA StepImplements ==
    ASSUME Inv, [Next]_vars PROVE [Abstract!LedgerNext]_(Abstract!ledgerVars)
<1>0. served \subseteq Unit
  BY DEF Inv, TypeOK
<1>1. CASE Upload \/ Faults
  <2>1. /\ UNCHANGED <<served, counter, sampled, credited, archived>>
        /\ sample'.batches = sample.batches \/ sample'.batches = {}
    BY <1>1 DEF Upload, SendCycle, BeginDrain, SendSnapshot, NothingToSend, SendBatch,
                ReceiveReply, AcksDone, ReceiveRejection, AckBatch, EndCycle, NoSample, NewSample,
                Faults, EndpointFails, EndpointDone, SaveFails, StageFails, Timeout, Crash,
                ServerFails, Inv, TypeOK, Sample, hysteriaVars, diskVars, memoryVars, panelVars
  <2>2. InReach' \subseteq InReach
    BY <2>1 DEF InReach, NewUnits, UnitsOf
  <2> QED
    BY <1>0, <2>1, <2>2, LosingStep
<1>2. ASSUME NEW r \in Requests, Admit(r) \/ AcceptSnapshot(r) \/ Reply(r)
      PROVE  Abstract!LedgerNext
  <2>1. UNCHANGED <<served, counter, sampled, credited, archived, sample>>
    BY <1>2 DEF Admit, AcceptSnapshot, Reply, hysteriaVars, diskVars, memoryVars, panelVars
  <2> QED
    BY <1>0, <2>1, LosingStep DEF InReach, NewUnits
<1>3. CASE UNCHANGED vars
  BY <1>3 DEF vars, hysteriaVars, diskVars, memoryVars, panelVars, Abstract!ledgerVars, Gone
<1> QED
  BY <1>1, <1>2, <1>3, CollectImplements, ApplyImplements, EnvironmentImplements DEF Next, Panel

\* The pipeline implements the abstract ledger: traffic is carried, recorded or
\* lost, and what is recorded is counted at most once or archived, whatever the
\* interleaving of the collector, the uploads, the panel and the faults.
THEOREM Refinement == ASSUME RowsSuffice PROVE Spec => ImplementsTrafficLedger
<1>1. Init => Abstract!LedgerInit
  BY NoSampleIsEmpty DEF Init, Abstract!LedgerInit, Gone
<1> QED
  BY <1>1, StepImplements, Invariant, PTL DEF Spec, ImplementsTrafficLedger, Abstract!LedgerSpec
=============================================================================
