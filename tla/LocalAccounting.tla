---------------------------- MODULE LocalAccounting ----------------------------
(***************************************************************************)
(* Traffic of the panel host, from the counters of its own Hysteria servers *)
(* to the accounts of the users.  Two processes collect: the panel          *)
(* (UsageManager, with LocalCumulativeCollector) and a helper that the       *)
(* installer or a switch of policy runs as root while the panel lives on     *)
(* (sync_traffic).  They share two files, one with the counters' baselines   *)
(* and a sample that is not applied yet, one with records per domain, and    *)
(* keep what they were doing in memory.  A lock admits one at a time.        *)
(*                                                                         *)
(* An administrator's reset and the start of a month set an account to zero *)
(* between two samples; the physical totals go on.                          *)
(***************************************************************************)
EXTENDS Integers

CONSTANTS
    Unit,          \* traffic
    DomainRecord,        \* traffic per domain: derived data with a journal of its own
    Endpoint,      \* stats endpoints of the host's servers
    Route,         \* the endpoint that counts a unit
    Boundary,      \* the second a month begins
    MaxNow,        \* bound: last second
    MaxBatch,      \* bound: batches
    EventMixes     \* bound: how often each kind of event happens; a run stays in one mix

EventKind == {"crash", "db", "disk", "endpoint", "restart", "helper", "reset"}

ASSUME BoundsAssumption ==
    /\ Unit \cap DomainRecord = {} /\ Route \in [Unit -> Endpoint]
    /\ MaxNow \in Nat /\ Boundary \in Nat \ {0} /\ MaxBatch \in Nat
    /\ EventMixes \subseteq [EventKind -> Nat]

VARIABLES
    now,
    counter, epoch,   \* Hysteria: what each endpoint has counted since it was started
    streams,          \* Hysteria: per-domain traffic nobody has read
    journal,          \* local-traffic.cumulative.json
    file,             \* pending-traffic.json
    applied,          \* applied_traffic_batches
    physical,         \* totals of the machine and of its domains
    account,          \* what users are charged with
    adjusted, month,  \* traffic_adjusted_at, user_traffic_reset_state
    proc,             \* the two processes: where they are and what they remember
    served,           \* history: units counted by a server
    sampledAt,        \* history: when a unit was journalled, NotYet before
    prior,            \* history: units journalled before the last reset
    spent             \* events that have happened

hysteriaVars == <<counter, epoch, streams, served>>
diskVars == <<journal, file>>
dbVars == <<applied, physical, account, adjusted, month>>
vars == <<now, hysteriaVars, diskVars, dbVars, proc, sampledAt, prior, spent>>

-----------------------------------------------------------------------------
(* Data.                                                                   *)

Time == 0..MaxNow
NotYet == -1
Proc == {"panel", "helper"}

Batch == [id : 1..MaxBatch, items : SUBSET (Unit \cup DomainRecord), at : Time]
Baseline == [epoch : Nat, units : SUBSET Unit]
NoBaseline == [epoch |-> 0, units |-> {}]

\* `cache' is the batch of domain records a manager holds, `cacheFresh' tells that it
\* made it itself, `fresh' the sample it made itself; `todo' endpoints are still to be
\* read, `got' was read, `failed' could not be.
Process == [pc : {"idle", "flush", "unlink", "recover", "clear", "sample", "persist", "flushNew",
                  "unlinkNew", "read", "save", "recoverNew", "clearNew", "finish", "adjust"},
            reset : BOOLEAN, cache : SUBSET Batch, cacheFresh : BOOLEAN, fresh : 0..MaxBatch,
            at : Time, todo : SUBSET Endpoint, got : [Endpoint -> Baseline], failed : SUBSET Endpoint]
Idle == [pc |-> "idle", reset |-> FALSE, cache |-> {}, cacheFresh |-> FALSE, fresh |-> 0,
         at |-> 0, todo |-> {}, got |-> [e \in Endpoint |-> NoBaseline], failed |-> {}]

Init ==
    /\ now = 0
    /\ counter = [e \in Endpoint |-> {}] /\ epoch = [e \in Endpoint |-> 1] /\ streams = {}
    /\ journal = [base |-> [e \in Endpoint |-> NoBaseline], pending |-> {}] /\ file = {}
    /\ applied = {} /\ physical = [i \in Unit \cup DomainRecord |-> 0]
    /\ account = [u \in Unit |-> 0] /\ adjusted = NotYet /\ month = 0
    /\ proc = [p \in Proc |-> Idle]
    /\ served = {} /\ sampledAt = [u \in Unit |-> NotYet] /\ prior = {}
    /\ spent = [k \in EventKind |-> 0]

Event(k) ==
    /\ spent' = [spent EXCEPT ![k] = @ + 1]
    /\ \E mix \in EventMixes : \A j \in EventKind : spent'[j] <= mix[j]

Becomes(p, state) == proc' = [proc EXCEPT ![p] = state]
At(p, pc) == proc[p].pc = pc
Goto(p, pc) == Becomes(p, [proc[p] EXCEPT !.pc = pc])

\* An exception ends the collection and what it was for.  The panel's manager lives
\* on with its memory, the helper ends.
Left(p, state) ==
    IF p = "helper" THEN Idle
    ELSE [Idle EXCEPT !.cache = state.cache, !.cacheFresh = state.cacheFresh,
                      !.fresh = state.fresh]
Raise(p, state) == Becomes(p, Left(p, state))

\* The batches of domain records: in the file and in the processes.
Held == file \cup UNION {proc[p].cache : p \in Proc}

-----------------------------------------------------------------------------
(* The environment.                                                        *)

Tick == now < MaxNow /\ now' = now + 1
        /\ UNCHANGED <<hysteriaVars, diskVars, dbVars, proc, sampledAt, prior, spent>>

Serve(u) ==
    /\ u \notin served
    /\ served' = served \cup {u} /\ counter' = [counter EXCEPT ![Route[u]] = @ \cup {u}]
    /\ UNCHANGED <<now, epoch, streams, diskVars, dbVars, proc, sampledAt, prior, spent>>

Observe(r) ==
    /\ physical[r] = 0 /\ r \notin streams /\ \A b \in Held : r \notin b.items
    /\ streams' = streams \cup {r}
    /\ UNCHANGED <<now, counter, epoch, served, diskVars, dbVars, proc, sampledAt, prior, spent>>

\* What the server counted since the last sample is lost.
RestartServer(e) ==
    /\ Event("restart")
    /\ counter' = [counter EXCEPT ![e] = {}] /\ epoch' = [epoch EXCEPT ![e] = @ + 1]
    /\ UNCHANGED <<now, streams, served, diskVars, dbVars, proc, sampledAt, prior>>

\* The process dies; a panel that starts again has read the file or not yet.
Crash(p) ==
    /\ proc[p].pc # "idle" /\ Event("crash")
    /\ \/ Becomes(p, Idle)
       \/ p = "panel" /\ Becomes(p, [Idle EXCEPT !.cache = file])
    /\ UNCHANGED <<now, hysteriaVars, diskVars, dbVars, sampledAt, prior>>

-----------------------------------------------------------------------------
(* The database.                                                           *)

Month(t) == IF t >= Boundary THEN 1 ELSE 0
ResetDue == month < Month(now)
Later(s, t) == IF s > t THEN s ELSE t

\* _reset_monthly_traffic_if_due, at the head of every transaction that counts.
MonthAccount == IF ResetDue THEN [u \in Unit |-> 0] ELSE account
MonthAdjusted == IF ResetDue THEN Later(adjusted, Boundary - 1) ELSE adjusted

\* Faulty: a sample of the last month is charged to the new one.
ChargedMutAnyMonth(b, fresh) == fresh \/ b.at > MonthAdjusted

\* A sample this process has made follows every adjustment of its second; of one that
\* was found in a file nobody knows.
Charged(b, fresh) == (fresh /\ Month(b.at) = Month(now)) \/ b.at > MonthAdjusted

Added(totals, items) == [i \in DOMAIN totals |-> IF i \in items THEN totals[i] + 1 ELSE totals[i]]

\* apply_traffic_batch.
Apply(b, fresh) ==
    /\ month' = Month(now) /\ adjusted' = MonthAdjusted
    /\ applied' = applied \cup {b.id}
    /\ IF b.id \in applied THEN physical' = physical /\ account' = MonthAccount
       ELSE /\ physical' = Added(physical, b.items)
            /\ account' = IF Charged(b, fresh) THEN Added(MonthAccount, b.items) ELSE MonthAccount

-----------------------------------------------------------------------------
(* _flush_pending_traffic_locked: the journal of domain records.            *)

\* Faulty: what another process left in the file joins what is in memory.
FoundMutBoth(p) == proc[p].cache \cup file

\* What the manager has in memory goes first; then what another left in the file.
Found(p) == IF proc[p].cache # {} THEN proc[p].cache ELSE file
FoundFresh(p) == proc[p].cache # {} /\ proc[p].cacheFresh

AfterFlush(pc) == IF pc = "flush" THEN "recover" ELSE "read"
Flush(p) ==
    /\ proc[p].pc \in {"flush", "flushNew"}
    /\ LET loaded == [proc[p] EXCEPT !.cache = Found(p), !.cacheFresh = FoundFresh(p)] IN
         \/ /\ Found(p) = {} /\ Goto(p, AfterFlush(proc[p].pc))
            /\ UNCHANGED <<dbVars, spent>>
         \/ \E b \in Found(p) :
              /\ Apply(b, FoundFresh(p))
              /\ Becomes(p, [loaded EXCEPT !.pc = IF @ = "flush" THEN "unlink" ELSE "unlinkNew"])
              /\ UNCHANGED spent
         \/ Found(p) # {} /\ Event("db") /\ Raise(p, loaded) /\ UNCHANGED dbVars
    /\ UNCHANGED <<now, hysteriaVars, diskVars, sampledAt, prior>>

\* Faulty: the file is removed, whatever is in it.
OwnFileMutAny(p) == TRUE

\* Another process may have replaced the file by a newer one.
OwnFile(p) == {b.id : b \in file} = {b.id : b \in proc[p].cache}

\* _remove_pending_traffic_locked; then the loop looks for another batch.
Unlink(p) ==
    /\ proc[p].pc \in {"unlink", "unlinkNew"}
    /\ LET removed == IF OwnFile(p) THEN {} ELSE file IN
         \/ /\ file' = removed
            /\ Becomes(p, [proc[p] EXCEPT !.pc = IF @ = "unlink" THEN "flush" ELSE "flushNew",
                                          !.cache = {}, !.cacheFresh = FALSE])
            /\ UNCHANGED spent
         \/ Event("disk") /\ file' \in {file, removed} /\ Raise(p, proc[p])
    /\ UNCHANGED <<now, hysteriaVars, journal, dbVars, sampledAt, prior>>

-----------------------------------------------------------------------------
(* LocalCumulativeCollector.                                               *)

\* recover, of what an earlier collection left and of the new sample alike.
Recover(p) ==
    /\ proc[p].pc \in {"recover", "recoverNew"}
    /\ \/ /\ journal.pending = {} /\ UNCHANGED <<dbVars, spent>>
          /\ Goto(p, IF proc[p].pc = "recover" THEN "sample" ELSE "finish")
       \/ \E b \in journal.pending :
            /\ Apply(b, b.id = proc[p].fresh) /\ UNCHANGED spent
            /\ Goto(p, IF proc[p].pc = "recover" THEN "clear" ELSE "clearNew")
       \/ journal.pending # {} /\ Event("db") /\ Raise(p, proc[p]) /\ UNCHANGED dbVars
    /\ UNCHANGED <<now, hysteriaVars, diskVars, sampledAt, prior>>

Clear(p) ==
    /\ proc[p].pc \in {"clear", "clearNew"}
    /\ LET cleared == [journal EXCEPT !.pending = {}] IN
         \/ /\ journal' = cleared /\ UNCHANGED spent
            /\ Becomes(p, [proc[p] EXCEPT !.pc = IF @ = "clear" THEN "sample" ELSE "finish",
                                          !.fresh = 0])
         \/ Event("disk") /\ journal' \in {journal, cleared} /\ Raise(p, proc[p])
    /\ UNCHANGED <<now, hysteriaVars, file, dbVars, sampledAt, prior>>

\* Faulty: the id of a batch is the second of its sample.
NewIdsMutSecond == {now + 1}

\* Batch ids are drawn at random; here the next number that nothing refers to.
Used == applied \cup {b.id : b \in journal.pending \cup Held} \cup {proc[p].fresh : p \in Proc}
NewIds == {i \in 1..MaxBatch : i \notin Used /\ \A j \in 1..(i - 1) : j \in Used}

\* The time of the sample is taken, then the domains are read.
Sample(p) ==
    /\ At(p, "sample")
    /\ LET reading == [proc[p] EXCEPT !.at = now, !.todo = Endpoint] IN
         IF streams = {} THEN Becomes(p, [reading EXCEPT !.pc = "read"])
         ELSE \E id \in NewIds :
                Becomes(p, [reading EXCEPT !.pc = "persist", !.cacheFresh = TRUE,
                              !.cache = {[id |-> id, items |-> streams, at |-> now]}])
    /\ streams' = {}
    /\ UNCHANGED <<now, counter, epoch, served, diskVars, dbVars, sampledAt, prior, spent>>

\* _persist_pending_traffic_locked: when the file cannot be written, the batch goes
\* to the database at once; when that fails too, it stays in memory.
Persist(p) ==
    /\ At(p, "persist")
    /\ \/ file' = proc[p].cache /\ Goto(p, "flushNew") /\ UNCHANGED <<dbVars, spent>>
       \/ /\ Event("disk") /\ \E b \in proc[p].cache : Apply(b, TRUE)
          /\ Becomes(p, [proc[p] EXCEPT !.pc = "flushNew", !.cache = {}, !.cacheFresh = FALSE])
          /\ file' \in {{}, proc[p].cache}
       \/ /\ spent' = [spent EXCEPT !["disk"] = @ + 1, !["db"] = @ + 1]
          /\ \E mix \in EventMixes : \A j \in EventKind : spent'[j] <= mix[j]
          /\ file' \in {{}, proc[p].cache} /\ Raise(p, proc[p]) /\ UNCHANGED dbVars
    /\ UNCHANGED <<now, hysteriaVars, journal, sampledAt, prior>>

\* The epoch is the same before and after the counters are read.
Read(p, e) ==
    /\ At(p, "read") /\ e \in proc[p].todo
    /\ LET read == [proc[p] EXCEPT !.todo = @ \ {e},
                                   !.pc = IF proc[p].todo = {e} THEN "save" ELSE "read"] IN
         \/ Becomes(p, [read EXCEPT !.got[e] = [epoch |-> epoch[e], units |-> counter[e]]])
            /\ UNCHANGED spent
         \/ Event("endpoint") /\ Becomes(p, [read EXCEPT !.failed = @ \cup {e}])
    /\ UNCHANGED <<now, hysteriaVars, diskVars, dbVars, sampledAt, prior>>

\* Faulty: what a counter shows is taken for what it has grown by.
DeltaMutAsIncrement(p, e) == proc[p].got[e].units

\* Counters start again with the server.
Delta(p, e) ==
    proc[p].got[e].units
      \ (IF journal.base[e].epoch = proc[p].got[e].epoch THEN journal.base[e].units ELSE {})

\* What the servers that answered have counted since their baselines, as one sample.
Merged(p) == UNION {Delta(p, e) : e \in Endpoint \ proc[p].failed}
Saved(p, id) ==
    [base |-> [e \in Endpoint |-> IF e \in proc[p].failed THEN journal.base[e] ELSE proc[p].got[e]],
     pending |-> IF Merged(p) = {} THEN {}
                 ELSE {[id |-> id, items |-> Merged(p), at |-> proc[p].at]}]

\* One write advances the baselines and holds the sample that belongs to them.
Save(p) ==
    /\ At(p, "save")
    /\ \E id \in IF Merged(p) = {} THEN {proc[p].fresh} ELSE NewIds :
         LET next == [proc[p] EXCEPT !.fresh = id, !.pc = "recoverNew"]
             written == /\ journal' = Saved(p, id)
                        /\ sampledAt' = [u \in Unit |-> IF u \in Merged(p) THEN proc[p].at
                                                         ELSE sampledAt[u]]
         IN  \/ written /\ Becomes(p, next) /\ UNCHANGED spent
             \/ /\ Event("disk") /\ Raise(p, next)
                /\ written \/ UNCHANGED <<journal, sampledAt>>
    /\ UNCHANGED <<now, hysteriaVars, file, dbVars, prior>>

-----------------------------------------------------------------------------
(* UsageManager.                                                           *)

\* The panel's threads take turns (UsageManager.lock); a helper and the panel exclude
\* each other by the maintenance lock.
Begin(p) ==
    /\ \A q \in Proc : At(q, "idle")
    /\ \/ p = "panel" /\ UNCHANGED spent /\ Goto(p, "flush")
       \/ p = "panel" /\ Event("reset") /\ Becomes(p, [proc[p] EXCEPT !.pc = "flush", !.reset = TRUE])
       \/ p = "helper" /\ Event("helper") /\ Becomes(p, [Idle EXCEPT !.pc = "flush", !.cache = file])
    /\ UNCHANGED <<now, hysteriaVars, diskVars, dbVars, sampledAt, prior>>

\* A month begins without traffic, too.
Finish(p) ==
    /\ At(p, "finish")
    /\ \/ /\ proc[p].failed = {} /\ UNCHANGED spent
          /\ month' = Month(now) /\ adjusted' = MonthAdjusted /\ account' = MonthAccount
          /\ IF proc[p].reset THEN Goto(p, "adjust") ELSE Raise(p, proc[p])
       \/ proc[p].failed # {} /\ Raise(p, proc[p]) /\ UNCHANGED <<month, adjusted, account, spent>>
       \/ proc[p].failed = {} /\ Event("db") /\ Raise(p, proc[p])
          /\ UNCHANGED <<month, adjusted, account>>
    /\ UNCHANGED <<now, hysteriaVars, diskVars, applied, physical, sampledAt, prior>>

\* reset_proxy_user_traffic, under the same lock as the collection before it.
Adjust(p) ==
    /\ At(p, "adjust")
    /\ account' = [u \in Unit |-> 0] /\ adjusted' = now
    /\ prior' = {u \in Unit : sampledAt[u] # NotYet}
    /\ Raise(p, proc[p])
    /\ UNCHANGED <<now, hysteriaVars, diskVars, applied, physical, month, sampledAt, spent>>

-----------------------------------------------------------------------------
Collect(p) ==
    \/ Flush(p) \/ Unlink(p) \/ Recover(p) \/ Clear(p) \/ Sample(p) \/ Persist(p)
    \/ \E e \in Endpoint : Read(p, e)
    \/ Save(p) \/ Finish(p) \/ Adjust(p)

Environment ==
    \/ Tick
    \/ \E u \in Unit : Serve(u)
    \/ \E r \in DomainRecord : Observe(r)
    \/ \E e \in Endpoint : RestartServer(e)
    \/ \E p \in Proc : Crash(p)

Next == Environment \/ \E p \in Proc : Begin(p) \/ Collect(p)

Spec == Init /\ [][Next]_vars

\* The collector runs every ten seconds, a helper runs to its end.
FairSpec == Spec /\ WF_vars(\E p \in Proc : Collect(p)) /\ WF_vars(Begin("panel"))

-----------------------------------------------------------------------------
(* What the accounting promises.                                           *)

AtMostOne(S) == \A x, y \in S : x = y

TypeOK ==
    /\ now \in Time
    /\ counter \in [Endpoint -> SUBSET Unit] /\ epoch \in [Endpoint -> Nat]
    /\ streams \subseteq DomainRecord /\ served \subseteq Unit
    /\ journal \in [base : [Endpoint -> Baseline], pending : SUBSET Batch] /\ file \subseteq Batch
    /\ AtMostOne(file) /\ AtMostOne(journal.pending)
    /\ applied \subseteq 1..MaxBatch /\ physical \in [Unit \cup DomainRecord -> Nat]
    /\ account \in [Unit -> Nat] /\ adjusted \in Time \cup {NotYet} /\ month \in {0, 1}
    /\ proc \in [Proc -> Process] /\ \A p \in Proc : AtMostOne(proc[p].cache)
    /\ sampledAt \in [Unit -> Time \cup {NotYet}] /\ prior \subseteq Unit

Journalled == {u \in Unit : sampledAt[u] # NotYet}

\* Units that no server shows any more and nobody has journalled or is reading.
Gone == served \ (Journalled \cup (UNION {counter[e] : e \in Endpoint})
                              \cup (UNION {proc[p].got[e].units : p \in Proc, e \in Endpoint}))

\* Two processes, two files and a database together behave like the ledger in which
\* traffic is recorded once and counted once.
Abstract == INSTANCE TrafficLedger WITH
    carried <- served, recorded <- Journalled, gone <- Gone,
    total <- [u \in Unit |-> physical[u]], archive <- {}
ImplementsTrafficLedger == Abstract!LedgerSpec

InFile == UNION {b.items : b \in file}

\* A batch of domain records in the file stays there until it has been counted, and is
\* counted once, also when one process has it in memory and the other has replaced it.
DomainBatchesCountedOnce ==
    [][\A r \in DomainRecord : /\ physical'[r] <= 1
                         /\ r \in InFile /\ r \notin InFile' => physical'[r] = 1]_vars

\* Accounts begin anew at a reset and at the start of a month: a unit is charged when
\* it is counted if and only if it was sampled after the last reset, and in the month
\* that is being charged; of a sample found in a file in the second of an adjustment
\* it is not known, and it is not charged.
ChargedToItsPeriod ==
    [][\A u \in Unit : physical'[u] > physical[u] =>
          LET mine == u \notin prior /\ Month(sampledAt[u]) = month' IN
            /\ account'[u] > 0 => mine
            /\ mine /\ sampledAt[u] # adjusted => account'[u] > 0]_vars

\* Whatever crashes or fails, a unit that was journalled reaches the totals.
SampledIsSettled ==
    \A u \in Unit : sampledAt[u] # NotYet ~> physical[u] > 0
=============================================================================
