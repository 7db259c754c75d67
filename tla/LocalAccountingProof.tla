------------------------- MODULE LocalAccountingProof -------------------------
(***************************************************************************)
(* Proofs about LocalAccounting, for every value of its constants: types,  *)
(* the batches of domain records, the period a unit is charged to, and     *)
(* that the two processes with their files implement the TrafficLedger.    *)
(*                                                                         *)
(* The inductive invariant has a part for each thing the processes share:  *)
(* who may be at work (Turns), what has been read of the counters          *)
(* (Counters, Readings), the journal of samples and the totals (Books),    *)
(* the batches of domain records (Domains, Flushes), the accounts (Periods). *)
(***************************************************************************)
EXTENDS LocalAccounting, TLAPS

-----------------------------------------------------------------------------
(* The inductive invariant.                                                *)

\* One process collects at a time.
Turns == \A p, q \in Proc : p # q => At(p, "idle") \/ At(q, "idle")

\* A later reading of a counter continues an earlier one, unless the server was
\* restarted: then they have nothing in common.
Precedes(r, s) ==
    /\ r.epoch <= s.epoch
    /\ r.epoch = s.epoch => r.units \subseteq s.units
    /\ r.epoch # s.epoch => r.units \cap s.units = {}

\* What a reading shows of the journalled units belongs to its baseline.
Continues(b, r) ==
    /\ b.epoch <= r.epoch
    /\ b.epoch = r.epoch => b.units \subseteq r.units
    /\ \A u \in r.units \cap Journalled : b.epoch = r.epoch /\ u \in b.units

Shown(e) == [epoch |-> epoch[e], units |-> counter[e]]
CarriedBy(e) == {u \in served : Route[u] = e}

Counters ==
    /\ Journalled \subseteq served
    /\ \A e \in Endpoint :
         /\ counter[e] \subseteq CarriedBy(e) /\ journal.base[e].units \subseteq Journalled
         /\ Continues(journal.base[e], Shown(e))

\* A collection has read nothing, is about to read, or has read some endpoints.
Before == {"idle", "flush", "unlink", "recover", "clear", "sample"}
Sampling == {"persist", "flushNew", "unlinkNew"}
Reading == {"read", "save"}
After == {"recoverNew", "clearNew", "finish", "adjust"}

Unread(p) == proc[p].failed = {} /\ \A e \in Endpoint : proc[p].got[e].units = {}

ReadingOf(p) ==
    /\ proc[p].pc \in Before => Unread(p)
    /\ proc[p].pc \in Sampling => Unread(p) /\ proc[p].todo = Endpoint
    /\ proc[p].pc \in Reading => proc[p].todo \cap proc[p].failed = {}
    /\ proc[p].pc = "save" => proc[p].todo = {}
    /\ \A e \in Endpoint :
         /\ proc[p].got[e].units \subseteq CarriedBy(e)
         /\ proc[p].pc \in Reading =>
              IF e \in proc[p].todo \cup proc[p].failed THEN proc[p].got[e].units = {}
              ELSE Continues(journal.base[e], proc[p].got[e]) /\ Precedes(proc[p].got[e], Shown(e))
Readings == \A p \in Proc : ReadingOf(p)

\* A pending sample is in the totals if its id is in the table, and its id is its own.
Books ==
    /\ \A b \in journal.pending :
         /\ b.items \subseteq Journalled
         /\ \A u \in b.items : physical[u] = IF b.id \in applied THEN 1 ELSE 0
         /\ \A c \in Held : b.id # c.id
    /\ \A u \in Unit \ Journalled : physical[u] = 0

\* Batches of domain records differ in id and content, and are in the totals if the id
\* is in the table; a record that nobody has read is nowhere else.
Domains ==
    /\ \A b \in Held : /\ b.items \subseteq DomainRecord
                       /\ \A r \in b.items : physical[r] = IF b.id \in applied THEN 1 ELSE 0
    /\ \A b, c \in Held : b.id = c.id \/ b.items \cap c.items # {} => b = c
    /\ \A r \in streams : physical[r] = 0 /\ \A b \in Held : r \notin b.items
    /\ \A r \in DomainRecord : physical[r] \in {0, 1}

\* What is to be removed has been counted, and the flush before a sample leaves nothing.
FlushOf(p) ==
    /\ proc[p].pc \in {"unlink", "unlinkNew"} => \A b \in proc[p].cache : b.id \in applied
    /\ proc[p].pc \in {"recover", "clear", "sample"} => proc[p].cache = {}
    /\ proc[p].pc \in {"recover", "clear", "sample", "persist"} => file = {}
Flushes == \A p \in Proc : FlushOf(p)

\* A month that has begun has adjusted the accounts.
Calendar == adjusted <= now /\ (month = 1 => now >= Boundary /\ adjusted >= Boundary - 1)

\* A sample is younger than the last adjustment, or of the month before it.
Timely(at) == at >= adjusted \/ (month = 1 /\ at < Boundary)
Samples ==
    /\ \A b \in journal.pending : /\ b.at <= now /\ Timely(b.at)
                                  /\ \A u \in b.items : sampledAt[u] = b.at /\ u \notin prior
    /\ prior \subseteq Journalled
TimeOf(p) ==
    /\ proc[p].at <= now
    /\ proc[p].pc \in Sampling \cup Reading => Timely(proc[p].at)
    /\ proc[p].pc \in {"finish", "adjust"} => journal.pending = {}
Times == \A p \in Proc : TimeOf(p)

\* What was not counted was not charged.
Uncharged == \A u \in Unit : physical[u] = 0 => account[u] = 0

Periods == Calendar /\ Samples /\ Times /\ Uncharged

Inv == TypeOK /\ Turns /\ Counters /\ Readings /\ Books /\ Domains /\ Flushes /\ Periods

-----------------------------------------------------------------------------
(* Types.                                                                  *)

\* What an exception leaves of a process is a process, and has read nothing.
LEMMA LeftType ==
    ASSUME NEW p \in Proc, NEW s \in Process
    PROVE  /\ Idle \in Process /\ Left(p, s) \in Process
           /\ Left(p, s).pc = "idle" /\ Left(p, s).failed = {} /\ Left(p, s).at = 0
           /\ \A e \in Endpoint : Left(p, s).got[e].units = {}
           /\ Left(p, s).cache \subseteq s.cache
<1>1. /\ Idle \in Process /\ Idle.pc = "idle" /\ Idle.failed = {} /\ Idle.cache = {} /\ Idle.at = 0
      /\ \A e \in Endpoint : Idle.got[e].units = {}
  BY BoundsAssumption DEF Idle, Process, NoBaseline, Baseline, Time
<1> QED
  BY <1>1 DEF Left, Process

\* A step of a process is a step of its memory only.
LEMMA BecomesType ==
    ASSUME proc \in [Proc -> Process], NEW p \in Proc, NEW s \in Process, Becomes(p, s)
    PROVE  /\ proc' \in [Proc -> Process] /\ proc'[p] = s
           /\ \A q \in Proc : q # p => proc'[q] = proc[q]
BY DEF Becomes

LEMMA RaiseType ==
    ASSUME proc \in [Proc -> Process], NEW p \in Proc, NEW s \in Process, Raise(p, s)
    PROVE  /\ proc' \in [Proc -> Process] /\ proc'[p] = Left(p, s)
           /\ \A q \in Proc : q # p => proc'[q] = proc[q]
BY LeftType, BecomesType DEF Raise

\* A transaction keeps the types of the database.
LEMMA ApplyType ==
    ASSUME TypeOK, NEW b \in Batch, NEW fresh \in BOOLEAN, Apply(b, fresh)
    PROVE  /\ applied' \subseteq 1..MaxBatch /\ physical' \in [Unit \cup DomainRecord -> Nat]
           /\ account' \in [Unit -> Nat] /\ adjusted' \in Time \cup {NotYet} /\ month' \in {0, 1}
<1>1. month' \in {0, 1}
  BY DEF Apply, Month
<1>2. MonthAdjusted \in Time \cup {NotYet} /\ MonthAccount \in [Unit -> Nat]
  BY BoundsAssumption DEF MonthAdjusted, MonthAccount, ResetDue, Month, Later, Time, NotYet, TypeOK
<1>3. applied' \subseteq 1..MaxBatch
  BY DEF Apply, TypeOK, Batch
<1>4. /\ Added(physical, b.items) \in [Unit \cup DomainRecord -> Nat]
      /\ Added(MonthAccount, b.items) \in [Unit -> Nat]
  BY <1>2 DEF Added, TypeOK
<1> QED
  BY <1>1, <1>2, <1>3, <1>4 DEF Apply, TypeOK

-----------------------------------------------------------------------------
(* What each action does to the memory of its process.                     *)

\* The other process is left alone.
Alone(p) == proc' \in [Proc -> Process] /\ \A q \in Proc : q # p => proc'[q] = proc[q]

\* The process goes on at pc with these domain records and what it has read.
GoesOn(p, pc, cache) ==
    /\ Alone(p) /\ proc'[p].pc = pc /\ proc'[p].cache = cache
    /\ proc'[p].at = proc[p].at /\ proc'[p].todo = proc[p].todo
    /\ proc'[p].got = proc[p].got /\ proc'[p].failed = proc[p].failed

\* It starts anew at pc with at most these domain records.
Anew(p, pc, cache) ==
    /\ Alone(p) /\ proc'[p].pc = pc /\ proc'[p].cache \subseteq cache
    /\ proc'[p].at = 0 /\ Unread(p)'

LEMMA BecomesGoesOn ==
    ASSUME TypeOK, NEW p \in Proc, NEW s \in Process, Becomes(p, s),
           s.at = proc[p].at, s.todo = proc[p].todo, s.got = proc[p].got, s.failed = proc[p].failed
    PROVE  GoesOn(p, s.pc, s.cache)
BY BecomesType DEF GoesOn, Alone, TypeOK

LEMMA RaiseAnew ==
    ASSUME TypeOK, NEW p \in Proc, NEW s \in Process, Raise(p, s)
    PROVE  Anew(p, "idle", s.cache)
BY LeftType, RaiseType DEF Anew, Alone, Unread, TypeOK

LEMMA FoundType ==
    ASSUME TypeOK, NEW p \in Proc
    PROVE  /\ proc[p] \in Process /\ Found(p) \subseteq Batch /\ AtMostOne(Found(p))
           /\ Found(p) \subseteq Held /\ FoundFresh(p) \in BOOLEAN
BY DEF TypeOK, Found, FoundFresh, Process, Held

LEMMA GotoStep ==
    ASSUME TypeOK, NEW p \in Proc, NEW pc \in Before \cup Sampling \cup Reading \cup After, Goto(p, pc)
    PROVE  GoesOn(p, pc, proc[p].cache)
<1>1. proc \in [Proc -> Process] /\ proc[p] \in Process
  BY DEF TypeOK
<1> DEFINE next == [proc[p] EXCEPT !.pc = pc]
<1>2. /\ next \in Process /\ next.pc = pc /\ next.cache = proc[p].cache
      /\ next.at = proc[p].at /\ next.todo = proc[p].todo
      /\ next.got = proc[p].got /\ next.failed = proc[p].failed
  BY <1>1 DEF Process, Before, Sampling, Reading, After
<1>3. Becomes(p, next)
  BY DEF Goto
<1> HIDE DEF next
<1>4. GoesOn(p, next.pc, next.cache)
  BY <1>2, <1>3, BecomesGoesOn
<1> QED
  BY <1>2, <1>4

LEMMA FlushStep ==
    ASSUME TypeOK, NEW p \in Proc, Flush(p)
    PROVE  \/ /\ Found(p) = {} /\ UNCHANGED dbVars
              /\ GoesOn(p, AfterFlush(proc[p].pc), proc[p].cache)
           \/ /\ \E b \in Found(p) : Apply(b, FoundFresh(p))
              /\ GoesOn(p, IF proc[p].pc = "flush" THEN "unlink" ELSE "unlinkNew", Found(p))
           \/ UNCHANGED dbVars /\ Anew(p, "idle", Found(p))
<1> DEFINE loaded == [proc[p] EXCEPT !.cache = Found(p), !.cacheFresh = FoundFresh(p)]
           to == IF proc[p].pc = "flush" THEN "unlink" ELSE "unlinkNew"
<1>1. proc \in [Proc -> Process] /\ proc[p] \in Process /\ Found(p) \subseteq Batch
      /\ FoundFresh(p) \in BOOLEAN
  BY FoundType DEF TypeOK
<1>2. /\ loaded \in Process /\ [loaded EXCEPT !.pc = to] \in Process
      /\ loaded.pc = proc[p].pc /\ loaded.cache = Found(p)
  BY <1>1 DEF Process
<1>3. AfterFlush(proc[p].pc) \in Before \cup Reading
  BY DEF AfterFlush, Before, Reading
<1>4. CASE Found(p) = {} /\ Goto(p, AfterFlush(proc[p].pc)) /\ UNCHANGED dbVars
  BY <1>3, <1>4, GotoStep
<1>5. ASSUME NEW b \in Found(p), Apply(b, FoundFresh(p)), Becomes(p, [loaded EXCEPT !.pc = to])
      PROVE  \E c \in Found(p) : Apply(c, FoundFresh(p)) /\ GoesOn(p, to, Found(p))
  <2> DEFINE next == [loaded EXCEPT !.pc = to]
  <2>1. /\ next.pc = to /\ next.cache = Found(p) /\ next.at = proc[p].at /\ next.todo = proc[p].todo
        /\ next.got = proc[p].got /\ next.failed = proc[p].failed
    BY <1>1 DEF Process
  <2>2. next \in Process /\ Becomes(p, next)
    BY <1>2, <1>5
  <2>3. GoesOn(p, next.pc, next.cache)
    <3> HIDE DEF next
    <3> QED
      BY <2>1, <2>2, BecomesGoesOn
  <2>4. GoesOn(p, to, Found(p))
    BY <2>1, <2>3
  <2> QED
    BY <1>5, <2>4
<1>6. CASE Raise(p, loaded) /\ UNCHANGED dbVars
  BY <1>2, <1>6, RaiseAnew
<1> QED
  BY <1>2, <1>4, <1>5, <1>6 DEF Flush

LEMMA UnlinkStep ==
    ASSUME TypeOK, NEW p \in Proc, Unlink(p)
    PROVE  \/ /\ file' = IF OwnFile(p) THEN {} ELSE file
              /\ GoesOn(p, IF proc[p].pc = "unlink" THEN "flush" ELSE "flushNew", {})
           \/ /\ file' \in {file, IF OwnFile(p) THEN {} ELSE file}
              /\ Anew(p, "idle", proc[p].cache)
<1> DEFINE next == [proc[p] EXCEPT !.pc = IF @ = "unlink" THEN "flush" ELSE "flushNew",
                                   !.cache = {}, !.cacheFresh = FALSE]
<1>1. proc \in [Proc -> Process] /\ proc[p] \in Process
  BY DEF TypeOK
<1>2. /\ next \in Process /\ next.cache = {}
      /\ next.pc = IF proc[p].pc = "unlink" THEN "flush" ELSE "flushNew"
      /\ next.at = proc[p].at /\ next.todo = proc[p].todo
      /\ next.got = proc[p].got /\ next.failed = proc[p].failed
  BY <1>1 DEF Process
<1>3. ASSUME Becomes(p, next)
      PROVE  GoesOn(p, IF proc[p].pc = "unlink" THEN "flush" ELSE "flushNew", {})
  <2> HIDE DEF next
  <2>1. GoesOn(p, next.pc, next.cache)
    BY <1>2, <1>3, BecomesGoesOn
  <2> QED
    BY <1>2, <2>1
<1> QED
  BY <1>1, <1>3, RaiseAnew DEF Unlink

LEMMA RecoverStep ==
    ASSUME TypeOK, NEW p \in Proc, Recover(p)
    PROVE  \/ /\ journal.pending = {} /\ UNCHANGED dbVars
              /\ GoesOn(p, IF proc[p].pc = "recover" THEN "sample" ELSE "finish", proc[p].cache)
           \/ /\ \E b \in journal.pending : Apply(b, b.id = proc[p].fresh)
              /\ GoesOn(p, IF proc[p].pc = "recover" THEN "clear" ELSE "clearNew", proc[p].cache)
           \/ UNCHANGED dbVars /\ Anew(p, "idle", proc[p].cache)
<1>1. proc[p] \in Process
  BY DEF TypeOK
<1>2. /\ (IF proc[p].pc = "recover" THEN "sample" ELSE "finish") \in Before \cup After
      /\ (IF proc[p].pc = "recover" THEN "clear" ELSE "clearNew") \in Before \cup After
  BY DEF Before, After
<1> QED
  BY <1>1, <1>2, GotoStep, RaiseAnew DEF Recover

LEMMA ClearStep ==
    ASSUME TypeOK, NEW p \in Proc, Clear(p)
    PROVE  \/ /\ journal' = [journal EXCEPT !.pending = {}]
              /\ GoesOn(p, IF proc[p].pc = "clear" THEN "sample" ELSE "finish", proc[p].cache)
           \/ /\ journal' \in {journal, [journal EXCEPT !.pending = {}]}
              /\ Anew(p, "idle", proc[p].cache)
<1> DEFINE next == [proc[p] EXCEPT !.pc = IF @ = "clear" THEN "sample" ELSE "finish", !.fresh = 0]
<1>1. proc \in [Proc -> Process] /\ proc[p] \in Process
  BY DEF TypeOK
<1>2. 0 \in 0..MaxBatch
  BY BoundsAssumption
<1>3. /\ next \in Process /\ next.cache = proc[p].cache
      /\ next.pc = IF proc[p].pc = "clear" THEN "sample" ELSE "finish"
      /\ next.at = proc[p].at /\ next.todo = proc[p].todo
      /\ next.got = proc[p].got /\ next.failed = proc[p].failed
  BY <1>1, <1>2 DEF Process
<1>4. ASSUME Becomes(p, next)
      PROVE  GoesOn(p, IF proc[p].pc = "clear" THEN "sample" ELSE "finish", proc[p].cache)
  <2> HIDE DEF next
  <2>1. GoesOn(p, next.pc, next.cache)
    BY <1>3, <1>4, BecomesGoesOn
  <2> QED
    BY <1>3, <2>1
<1> QED
  BY <1>1, <1>4, RaiseAnew DEF Clear

LEMMA PersistStep ==
    ASSUME TypeOK, NEW p \in Proc, Persist(p)
    PROVE  \/ UNCHANGED dbVars /\ file' = proc[p].cache /\ GoesOn(p, "flushNew", proc[p].cache)
           \/ /\ \E b \in proc[p].cache : Apply(b, TRUE)
              /\ file' \in {{}, proc[p].cache} /\ GoesOn(p, "flushNew", {})
           \/ UNCHANGED dbVars /\ file' \in {{}, proc[p].cache} /\ Anew(p, "idle", proc[p].cache)
<1> DEFINE next == [proc[p] EXCEPT !.pc = "flushNew", !.cache = {}, !.cacheFresh = FALSE]
<1>1. proc[p] \in Process /\ "flushNew" \in Sampling
  BY DEF TypeOK, Sampling
<1>2. /\ next \in Process /\ next.cache = {} /\ next.pc = "flushNew"
      /\ next.at = proc[p].at /\ next.todo = proc[p].todo
      /\ next.got = proc[p].got /\ next.failed = proc[p].failed
  BY <1>1 DEF Process
<1>3. ASSUME Becomes(p, next) PROVE GoesOn(p, "flushNew", {})
  <2> HIDE DEF next
  <2>1. GoesOn(p, next.pc, next.cache)
    BY <1>2, <1>3, BecomesGoesOn
  <2> QED
    BY <1>2, <2>1
<1> QED
  BY <1>1, <1>3, GotoStep, RaiseAnew DEF Persist

\* The sample has a time; domain records, if there are any, become a batch.
LEMMA SampleStep ==
    ASSUME TypeOK, NEW p \in Proc, Sample(p)
    PROVE  /\ Alone(p) /\ proc'[p].at = now /\ proc'[p].todo = Endpoint
           /\ proc'[p].got = proc[p].got /\ proc'[p].failed = proc[p].failed
           /\ \/ streams = {} /\ proc'[p].pc = "read" /\ proc'[p].cache = proc[p].cache
              \/ /\ streams # {} /\ proc'[p].pc = "persist"
                 /\ \E id \in NewIds :
                      proc'[p].cache = {[id |-> id, items |-> streams, at |-> now]}
<1>1. proc \in [Proc -> Process] /\ proc[p] \in Process /\ now \in Time
  BY DEF TypeOK
<1>2. CASE streams = {}
  <2> DEFINE next == [proc[p] EXCEPT !.at = now, !.todo = Endpoint, !.pc = "read"]
  <2>1. /\ next \in Process /\ next.cache = proc[p].cache /\ next.pc = "read"
        /\ next.at = now /\ next.todo = Endpoint
        /\ next.got = proc[p].got /\ next.failed = proc[p].failed
    BY <1>1 DEF Process
  <2>2. Becomes(p, next)
    BY <1>2 DEF Sample
  <2> HIDE DEF next
  <2> QED
    BY <1>1, <1>2, <2>1, <2>2, BecomesType DEF Alone
<1>3. CASE streams # {}
  <2> DEFINE batch(id) == [id |-> id, items |-> streams, at |-> now]
             next(id) == [proc[p] EXCEPT !.at = now, !.todo = Endpoint, !.pc = "persist",
                                         !.cacheFresh = TRUE, !.cache = {batch(id)}]
  <2>1. PICK id \in NewIds : Becomes(p, next(id))
    BY <1>3 DEF Sample
  <2>2. batch(id) \in Batch
    BY <1>1 DEF Batch, NewIds, TypeOK
  <2>3. /\ next(id) \in Process /\ next(id).cache = {batch(id)} /\ next(id).pc = "persist"
        /\ next(id).at = now /\ next(id).todo = Endpoint
        /\ next(id).got = proc[p].got /\ next(id).failed = proc[p].failed
    <3> HIDE DEF batch
    <3> QED
      BY <1>1, <2>2 DEF Process
  <2> HIDE DEF next
  <2>4. Alone(p) /\ proc'[p] = next(id)
    BY <1>1, <2>1, <2>3, BecomesType DEF Alone
  <2> QED
    BY <1>3, <2>3, <2>4
<1> QED
  BY <1>2, <1>3

LEMMA ReadStep ==
    ASSUME TypeOK, NEW p \in Proc, NEW e \in Endpoint, Read(p, e)
    PROVE  /\ Alone(p) /\ proc'[p].cache = proc[p].cache /\ proc'[p].at = proc[p].at
           /\ proc'[p].todo = proc[p].todo \ {e}
           /\ proc'[p].pc = IF proc[p].todo = {e} THEN "save" ELSE "read"
           /\ \/ /\ proc'[p].got = [proc[p].got EXCEPT ![e] = Shown(e)]
                 /\ proc'[p].failed = proc[p].failed
              \/ proc'[p].got = proc[p].got /\ proc'[p].failed = proc[p].failed \cup {e}
<1> DEFINE read == [proc[p] EXCEPT !.todo = @ \ {e},
                                   !.pc = IF proc[p].todo = {e} THEN "save" ELSE "read"]
<1>1. proc \in [Proc -> Process] /\ proc[p] \in Process /\ Shown(e) \in Baseline
  BY DEF TypeOK, Shown, Baseline
<1>2. /\ read \in Process /\ read.cache = proc[p].cache /\ read.at = proc[p].at
      /\ read.todo = proc[p].todo \ {e}
      /\ read.pc = IF proc[p].todo = {e} THEN "save" ELSE "read"
      /\ read.got = proc[p].got /\ read.failed = proc[p].failed
  BY <1>1 DEF Process
<1>3. CASE Becomes(p, [read EXCEPT !.got[e] = Shown(e)])
  <2> HIDE DEF read
  <2> DEFINE next == [read EXCEPT !.got[e] = Shown(e)]
  <2>1. /\ next \in Process /\ next.cache = read.cache /\ next.at = read.at
        /\ next.todo = read.todo /\ next.pc = read.pc /\ next.failed = read.failed
        /\ next.got = [read.got EXCEPT ![e] = Shown(e)]
    BY <1>1, <1>2 DEF Process
  <2>2. Becomes(p, next)
    BY <1>3
  <2> HIDE DEF next
  <2>3. Alone(p) /\ proc'[p] = next
    BY <1>1, <2>1, <2>2, BecomesType DEF Alone
  <2> QED
    BY <1>2, <2>1, <2>3
<1>4. CASE Becomes(p, [read EXCEPT !.failed = @ \cup {e}])
  <2> HIDE DEF read
  <2> DEFINE next == [read EXCEPT !.failed = @ \cup {e}]
  <2>1. /\ next \in Process /\ next.cache = read.cache /\ next.at = read.at
        /\ next.todo = read.todo /\ next.pc = read.pc /\ next.failed = read.failed \cup {e}
        /\ next.got = read.got
    BY <1>1, <1>2 DEF Process
  <2>2. Becomes(p, next)
    BY <1>4
  <2> HIDE DEF next
  <2>3. Alone(p) /\ proc'[p] = next
    BY <1>1, <2>1, <2>2, BecomesType DEF Alone
  <2> QED
    BY <1>2, <2>1, <2>3
<1> QED
  BY <1>3, <1>4 DEF Read, Shown

\* The units of a new sample, and what one write makes of them.
Stamped(p) == [u \in Unit |-> IF u \in Merged(p) THEN proc[p].at ELSE sampledAt[u]]

LEMMA SaveStep ==
    ASSUME TypeOK, NEW p \in Proc, Save(p)
    PROVE  \/ /\ \E id \in 0..MaxBatch : /\ journal' = Saved(p, id)
                                         /\ Merged(p) # {} => id \in NewIds
              /\ sampledAt' = Stamped(p)
              /\ GoesOn(p, "recoverNew", proc[p].cache) \/ Anew(p, "idle", proc[p].cache)
           \/ UNCHANGED <<journal, sampledAt>> /\ Anew(p, "idle", proc[p].cache)
<1> DEFINE next(id) == [proc[p] EXCEPT !.fresh = id, !.pc = "recoverNew"]
           written(id) == journal' = Saved(p, id) /\ sampledAt' = Stamped(p)
<1>1. proc[p] \in Process /\ NewIds \subseteq 0..MaxBatch
  BY DEF TypeOK, NewIds
<1>2. PICK id \in IF Merged(p) = {} THEN {proc[p].fresh} ELSE NewIds :
        \/ written(id) /\ Becomes(p, next(id))
        \/ Raise(p, next(id)) /\ (written(id) \/ UNCHANGED <<journal, sampledAt>>)
  BY DEF Save, Stamped
<1>3. id \in 0..MaxBatch /\ (Merged(p) # {} => id \in NewIds)
  BY <1>1, <1>2 DEF Process
<1>4. /\ next(id) \in Process /\ next(id).cache = proc[p].cache /\ next(id).pc = "recoverNew"
      /\ next(id).at = proc[p].at /\ next(id).todo = proc[p].todo
      /\ next(id).got = proc[p].got /\ next(id).failed = proc[p].failed
  BY <1>1, <1>3 DEF Process
<1> HIDE DEF next
<1>5. Becomes(p, next(id)) => GoesOn(p, "recoverNew", proc[p].cache)
  <2> SUFFICES ASSUME Becomes(p, next(id)) PROVE GoesOn(p, "recoverNew", proc[p].cache)
    OBVIOUS
  <2>1. GoesOn(p, next(id).pc, next(id).cache)
    BY <1>4, BecomesGoesOn
  <2> QED
    BY <1>4, <2>1
<1>6. Raise(p, next(id)) => Anew(p, "idle", proc[p].cache)
  <2> SUFFICES ASSUME Raise(p, next(id)) PROVE Anew(p, "idle", proc[p].cache)
    OBVIOUS
  <2>1. Anew(p, "idle", next(id).cache)
    BY <1>4, RaiseAnew
  <2> QED
    BY <1>4, <2>1
<1> QED
  BY <1>2, <1>3, <1>5, <1>6

LEMMA BeginStep ==
    ASSUME TypeOK, NEW p \in Proc, Begin(p)
    PROVE  GoesOn(p, "flush", proc[p].cache) \/ Anew(p, "flush", file)
<1>1. proc \in [Proc -> Process] /\ proc[p] \in Process /\ "flush" \in Before /\ file \subseteq Batch
  BY DEF TypeOK, Before
<1>2. CASE Becomes(p, [proc[p] EXCEPT !.pc = "flush", !.reset = TRUE])
  <2> DEFINE next == [proc[p] EXCEPT !.pc = "flush", !.reset = TRUE]
  <2>1. /\ next \in Process /\ next.pc = "flush" /\ next.cache = proc[p].cache
        /\ next.at = proc[p].at /\ next.todo = proc[p].todo
        /\ next.got = proc[p].got /\ next.failed = proc[p].failed
    BY <1>1 DEF Process
  <2>2. Becomes(p, next)
    BY <1>2
  <2> HIDE DEF next
  <2>3. GoesOn(p, next.pc, next.cache)
    BY <2>1, <2>2, BecomesGoesOn
  <2> QED
    BY <2>1, <2>3
<1>3. CASE Becomes(p, [Idle EXCEPT !.pc = "flush", !.cache = file])
  <2> DEFINE next == [Idle EXCEPT !.pc = "flush", !.cache = file]
  <2>1. Idle \in Process /\ Idle.failed = {} /\ Idle.at = 0 /\ \A e \in Endpoint : Idle.got[e].units = {}
    BY <1>1, LeftType DEF Idle, NoBaseline
  <2>2. /\ next \in Process /\ next.pc = "flush" /\ next.cache = file
        /\ next.at = 0 /\ next.failed = {} /\ next.got = Idle.got
    BY <1>1, <2>1 DEF Process
  <2>3. Becomes(p, next)
    BY <1>3
  <2> HIDE DEF next
  <2>4. Alone(p) /\ proc'[p] = next
    BY <1>1, <2>2, <2>3, BecomesType DEF Alone
  <2> QED
    BY <2>1, <2>2, <2>4 DEF Anew, Unread
<1> QED
  BY <1>1, <1>2, <1>3, GotoStep DEF Begin

LEMMA CrashStep ==
    ASSUME TypeOK, NEW p \in Proc, Crash(p)
    PROVE  Anew(p, "idle", file)
<1>1. proc \in [Proc -> Process] /\ proc[p] \in Process /\ file \subseteq Batch
  BY DEF TypeOK
<1>2. /\ Idle \in Process /\ Idle.failed = {} /\ Idle.at = 0 /\ Idle.pc = "idle" /\ Idle.cache = {}
      /\ \A e \in Endpoint : Idle.got[e].units = {}
  BY <1>1, LeftType DEF Idle, NoBaseline
<1>3. CASE Becomes(p, Idle)
  <2>1. Alone(p) /\ proc'[p] = Idle
    BY <1>1, <1>2, <1>3, BecomesType DEF Alone
  <2> QED
    BY <1>2, <2>1 DEF Anew, Unread
<1>4. CASE Becomes(p, [Idle EXCEPT !.cache = file])
  <2> DEFINE next == [Idle EXCEPT !.cache = file]
  <2>1. /\ next \in Process /\ next.pc = "idle" /\ next.cache = file
        /\ next.at = 0 /\ next.failed = {} /\ next.got = Idle.got
    BY <1>1, <1>2 DEF Process
  <2>2. Becomes(p, next)
    BY <1>4
  <2> HIDE DEF next
  <2>3. Alone(p) /\ proc'[p] = next
    BY <1>1, <2>1, <2>2, BecomesType DEF Alone
  <2> QED
    BY <1>2, <2>1, <2>3 DEF Anew, Unread
<1> QED
  BY <1>3, <1>4 DEF Crash

LEMMA FinishStep ==
    ASSUME TypeOK, NEW p \in Proc, Finish(p)
    PROVE  /\ \/ month' = Month(now) /\ adjusted' = MonthAdjusted /\ account' = MonthAccount
              \/ UNCHANGED <<month, adjusted, account>>
           /\ GoesOn(p, "adjust", proc[p].cache) \/ Anew(p, "idle", proc[p].cache)
<1>1. proc[p] \in Process /\ "adjust" \in After
  BY DEF TypeOK, After
<1> QED
  BY <1>1, GotoStep, RaiseAnew DEF Finish

LEMMA AdjustStep ==
    ASSUME TypeOK, NEW p \in Proc, Adjust(p)
    PROVE  Anew(p, "idle", proc[p].cache)
<1>1. proc[p] \in Process
  BY DEF TypeOK
<1> QED
  BY <1>1, RaiseAnew DEF Adjust

-----------------------------------------------------------------------------
(* Type correctness.                                                       *)

\* The type of what only the processes remember.
ProcType == proc \in [Proc -> Process] /\ \A p \in Proc : AtMostOne(proc[p].cache)

LEMMA ProcTypeStep ==
    ASSUME TypeOK, NEW p \in Proc, NEW pc, NEW cache, AtMostOne(cache),
           GoesOn(p, pc, cache) \/ Anew(p, pc, cache)
    PROVE  ProcType'
BY DEF TypeOK, ProcType, GoesOn, Anew, Alone, AtMostOne

LEMMA CacheType == ASSUME TypeOK, NEW p \in Proc
                   PROVE  /\ AtMostOne(proc[p].cache) /\ proc[p].cache \subseteq Batch
                          /\ AtMostOne(file) /\ file \subseteq Batch /\ AtMostOne({})
BY DEF TypeOK, Process, AtMostOne

LEMMA TypeInit == Init => TypeOK
<1> SUFFICES ASSUME Init PROVE TypeOK
  OBVIOUS
<1>1. /\ [e \in Endpoint |-> {}] \in [Endpoint -> SUBSET Unit]
      /\ [e \in Endpoint |-> 1] \in [Endpoint -> Nat]
      /\ NoBaseline \in Baseline
  BY DEF NoBaseline, Baseline
<1>2. journal \in [base : [Endpoint -> Baseline], pending : SUBSET Batch]
      /\ journal.pending = {}
  BY <1>1 DEF Init
<1>3. Idle \in Process /\ Idle.cache = {}
  BY <1>1, BoundsAssumption DEF Idle, Process, Time
<1>4. proc \in [Proc -> Process] /\ \A p \in Proc : proc[p].cache = {}
  BY <1>3 DEF Init
<1>5. 0 \in Time
  BY BoundsAssumption DEF Time
<1> QED
  BY <1>1, <1>2, <1>4, <1>5 DEF Init, TypeOK, AtMostOne, NotYet

LEMMA TypeFlush == ASSUME TypeOK, NEW p \in Proc, Flush(p) PROVE TypeOK'
<1>1. ProcType'
  BY FlushStep, FoundType, ProcTypeStep, CacheType
<1>2. ASSUME NEW b \in Found(p), Apply(b, FoundFresh(p)) PROVE TypeOK'
  BY <1>1, <1>2, FoundType, ApplyType DEF Flush, TypeOK, ProcType, hysteriaVars, diskVars
<1>3. CASE UNCHANGED dbVars
  BY <1>1, <1>3 DEF Flush, TypeOK, ProcType, hysteriaVars, diskVars, dbVars
<1> QED
  BY <1>2, <1>3, FlushStep

LEMMA TypeUnlink == ASSUME TypeOK, NEW p \in Proc, Unlink(p) PROVE TypeOK'
<1>1. ProcType' /\ file' \in {file, {}}
  BY UnlinkStep, ProcTypeStep, CacheType
<1> QED
  BY <1>1 DEF Unlink, TypeOK, ProcType, hysteriaVars, dbVars, AtMostOne

LEMMA TypeRecover == ASSUME TypeOK, NEW p \in Proc, Recover(p) PROVE TypeOK'
<1>1. ProcType'
  BY RecoverStep, ProcTypeStep, CacheType
<1>2. ASSUME NEW b \in journal.pending, Apply(b, b.id = proc[p].fresh) PROVE TypeOK'
  <2>1. b \in Batch /\ (b.id = proc[p].fresh) \in BOOLEAN
    BY DEF TypeOK
  <2> QED
    BY <1>1, <1>2, <2>1, ApplyType DEF Recover, TypeOK, ProcType, hysteriaVars, diskVars
<1>3. CASE UNCHANGED dbVars
  BY <1>1, <1>3 DEF Recover, TypeOK, ProcType, hysteriaVars, diskVars, dbVars
<1> QED
  BY <1>2, <1>3, RecoverStep

LEMMA TypeClear == ASSUME TypeOK, NEW p \in Proc, Clear(p) PROVE TypeOK'
<1>1. ProcType'
  BY ClearStep, ProcTypeStep, CacheType
<1>2. journal' \in {journal, [journal EXCEPT !.pending = {}]}
  BY ClearStep
<1>3. journal' \in [base : [Endpoint -> Baseline], pending : SUBSET Batch] /\ AtMostOne(journal'.pending)
  BY <1>2 DEF TypeOK, AtMostOne
<1> QED
  BY <1>1, <1>3 DEF Clear, TypeOK, ProcType, hysteriaVars, dbVars

LEMMA TypeSample == ASSUME TypeOK, NEW p \in Proc, Sample(p) PROVE TypeOK'
<1>1. ProcType'
  BY SampleStep, CacheType DEF TypeOK, ProcType, Alone, AtMostOne
<1> QED
  BY <1>1 DEF Sample, TypeOK, ProcType, diskVars, dbVars

LEMMA TypePersist == ASSUME TypeOK, NEW p \in Proc, Persist(p) PROVE TypeOK'
<1>1. ProcType' /\ file' \in {{}, proc[p].cache}
  BY PersistStep, ProcTypeStep, CacheType
<1>2. file' \subseteq Batch /\ AtMostOne(file')
  BY <1>1, CacheType
<1>3. ASSUME NEW b \in proc[p].cache, Apply(b, TRUE) PROVE TypeOK'
  <2>1. b \in Batch
    BY CacheType
  <2> QED
    BY <1>1, <1>2, <1>3, <2>1, ApplyType DEF Persist, TypeOK, ProcType, hysteriaVars
<1>4. CASE UNCHANGED dbVars
  BY <1>1, <1>2, <1>4 DEF Persist, TypeOK, ProcType, hysteriaVars, dbVars
<1> QED
  BY <1>3, <1>4, PersistStep

LEMMA TypeRead == ASSUME TypeOK, NEW p \in Proc, NEW e \in Endpoint, Read(p, e) PROVE TypeOK'
<1>1. ProcType'
  BY ReadStep DEF TypeOK, ProcType, Alone
<1> QED
  BY <1>1 DEF Read, TypeOK, ProcType, hysteriaVars, diskVars, dbVars

\* A sample is made of units.
LEMMA MergedType == ASSUME TypeOK, NEW p \in Proc PROVE Merged(p) \subseteq Unit
<1>1. \A e \in Endpoint : proc[p].got[e].units \subseteq Unit
  BY DEF TypeOK, Process, Baseline
<1> QED
  BY <1>1 DEF Merged, Delta

LEMMA SavedType ==
    ASSUME TypeOK, NEW p \in Proc, NEW id \in 0..MaxBatch, Merged(p) # {} => id \in NewIds
    PROVE  /\ Saved(p, id) \in [base : [Endpoint -> Baseline], pending : SUBSET Batch]
           /\ AtMostOne(Saved(p, id).pending)
<1>1. proc[p].got \in [Endpoint -> Baseline] /\ journal.base \in [Endpoint -> Baseline]
      /\ proc[p].at \in Time
  BY DEF TypeOK, Process
<1>2. Merged(p) # {} => [id |-> id, items |-> Merged(p), at |-> proc[p].at] \in Batch
  BY <1>1, MergedType DEF Batch, NewIds
<1> QED
  BY <1>1, <1>2 DEF Saved, AtMostOne

LEMMA TypeSave == ASSUME TypeOK, NEW p \in Proc, Save(p) PROVE TypeOK'
<1>1. ProcType'
  BY SaveStep, ProcTypeStep, CacheType
<1>2. /\ journal' \in [base : [Endpoint -> Baseline], pending : SUBSET Batch]
      /\ AtMostOne(journal'.pending)
  BY SaveStep, SavedType DEF TypeOK
<1>3. sampledAt' \in [Unit -> Time \cup {NotYet}]
  BY SaveStep DEF Stamped, TypeOK, Process
<1> QED
  BY <1>1, <1>2, <1>3 DEF Save, TypeOK, ProcType, hysteriaVars, dbVars

LEMMA TypeFinish == ASSUME TypeOK, NEW p \in Proc, Finish(p) PROVE TypeOK'
<1>1. ProcType'
  BY FinishStep, ProcTypeStep, CacheType
<1>2. /\ MonthAdjusted \in Time \cup {NotYet} /\ MonthAccount \in [Unit -> Nat]
      /\ Month(now) \in {0, 1}
  BY BoundsAssumption DEF MonthAdjusted, MonthAccount, ResetDue, Month, Later, Time, NotYet, TypeOK
<1>3. account' \in [Unit -> Nat] /\ adjusted' \in Time \cup {NotYet} /\ month' \in {0, 1}
  BY <1>2, FinishStep DEF TypeOK
<1> QED
  BY <1>1, <1>3 DEF Finish, TypeOK, ProcType, hysteriaVars, diskVars

LEMMA TypeAdjust == ASSUME TypeOK, NEW p \in Proc, Adjust(p) PROVE TypeOK'
<1>1. ProcType'
  BY AdjustStep, ProcTypeStep, CacheType
<1> QED
  BY <1>1 DEF Adjust, TypeOK, ProcType, hysteriaVars, diskVars

LEMMA TypeBegin == ASSUME TypeOK, NEW p \in Proc, Begin(p) PROVE TypeOK'
<1>1. ProcType'
  BY BeginStep, ProcTypeStep, CacheType
<1> QED
  BY <1>1 DEF Begin, TypeOK, ProcType, hysteriaVars, diskVars, dbVars

LEMMA TypeEnvironment == TypeOK /\ Environment => TypeOK'
<1> SUFFICES ASSUME TypeOK, Environment PROVE TypeOK'
  OBVIOUS
<1>1. CASE Tick
  BY <1>1, BoundsAssumption DEF Tick, TypeOK, Time, hysteriaVars, diskVars, dbVars
<1>2. ASSUME NEW u \in Unit, Serve(u) PROVE TypeOK'
  BY <1>2, BoundsAssumption DEF Serve, TypeOK, diskVars, dbVars
<1>3. ASSUME NEW r \in DomainRecord, Observe(r) PROVE TypeOK'
  BY <1>3 DEF Observe, TypeOK, diskVars, dbVars
<1>4. ASSUME NEW e \in Endpoint, RestartServer(e) PROVE TypeOK'
  BY <1>4 DEF RestartServer, TypeOK, diskVars, dbVars
<1>5. ASSUME NEW p \in Proc, Crash(p) PROVE TypeOK'
  <2>1. ProcType'
    BY <1>5, CrashStep, ProcTypeStep, CacheType
  <2> QED
    BY <1>5, <2>1 DEF Crash, TypeOK, ProcType, hysteriaVars, diskVars, dbVars
<1> QED
  BY <1>1, <1>2, <1>3, <1>4, <1>5 DEF Environment

LEMMA TypeStep == TypeOK /\ [Next]_vars => TypeOK'
<1> SUFFICES ASSUME TypeOK, [Next]_vars PROVE TypeOK'
  OBVIOUS
<1>1. CASE UNCHANGED vars
  BY <1>1 DEF vars, TypeOK, hysteriaVars, diskVars, dbVars
<1>2. ASSUME NEW p \in Proc, Begin(p) \/ Collect(p) PROVE TypeOK'
  BY <1>2, TypeBegin, TypeFlush, TypeUnlink, TypeRecover, TypeClear, TypeSample, TypePersist,
     TypeRead, TypeSave, TypeFinish, TypeAdjust DEF Collect
<1> QED
  BY <1>1, <1>2, TypeEnvironment DEF Next

\* The files and the memories of both processes hold at most one batch each, and
\* everything has its type.
THEOREM TypeCorrect == Spec => []TypeOK
BY TypeInit, TypeStep, PTL DEF Spec

-----------------------------------------------------------------------------
(* Turns and readings.                                                     *)

\* Where a process can be after it has worked.
LEMMA CollectMoves ==
    ASSUME TypeOK, NEW p \in Proc, Collect(p)
    PROVE  Alone(p) /\ ~At(p, "idle")
<1>1. ASSUME NEW e \in Endpoint, Read(p, e) PROVE Alone(p) /\ ~At(p, "idle")
  BY <1>1, ReadStep DEF Read, At
<1> QED
  BY <1>1, FlushStep, UnlinkStep, RecoverStep, ClearStep, SampleStep, PersistStep, SaveStep,
     FinishStep, AdjustStep
     DEF Collect, GoesOn, Anew, At, Flush, Unlink, Recover, Clear, Sample, Persist, Save,
         Finish, Adjust

LEMMA TurnsStep == TypeOK /\ Turns /\ [Next]_vars => Turns'
<1> SUFFICES ASSUME TypeOK, Turns, [Next]_vars PROVE Turns'
  OBVIOUS
<1>1. ASSUME NEW p \in Proc, Alone(p), \A q \in Proc : q # p => At(q, "idle") PROVE Turns'
  BY <1>1 DEF Alone, At, Turns
<1>2. ASSUME NEW p \in Proc, Collect(p) PROVE Turns'
  BY <1>1, <1>2, CollectMoves DEF Turns
<1>3. ASSUME NEW p \in Proc, Begin(p) PROVE Turns'
  BY <1>1, <1>3, BeginStep DEF Begin, GoesOn, Anew
<1>4. ASSUME NEW p \in Proc, Crash(p) PROVE Turns'
  <2>1. Alone(p) /\ ~At(p, "idle")
    BY <1>4, CrashStep DEF Anew, Crash, At
  <2> QED
    BY <1>1, <2>1 DEF Turns
<1>5. CASE UNCHANGED proc
  BY <1>5 DEF Turns, At
<1> QED
  BY <1>2, <1>3, <1>4, <1>5
     DEF Next, Environment, Tick, Serve, Observe, RestartServer, vars

\* The other process is idle and has read nothing.
LEMMA OtherIdle ==
    ASSUME Turns, Readings, NEW p \in Proc, ~At(p, "idle"), NEW q \in Proc, q # p
    PROVE  proc[q].pc = "idle" /\ Unread(q)
BY DEF Turns, Readings, ReadingOf, At, Before

\* Nothing is read and nothing journalled: what was read stays good.
LEMMA ReadingFrame ==
    ASSUME TypeOK, Readings, UNCHANGED <<hysteriaVars, sampledAt>>, journal'.base = journal.base,
           NEW p \in Proc, proc'[p] = proc[p]
    PROVE  ReadingOf(p)'
BY DEF Readings, ReadingOf, Unread, CarriedBy, Continues, Precedes, Shown, Journalled, hysteriaVars

LEMMA CountersFrame ==
    ASSUME TypeOK, Counters, UNCHANGED <<hysteriaVars, sampledAt>>, journal'.base = journal.base
    PROVE  Counters'
BY DEF Counters, CarriedBy, Continues, Shown, Journalled, hysteriaVars

\* The stages of a collection, as far as reading goes.
SameStage(pc, to) ==
    \/ {pc, to} \subseteq Before \/ {pc, to} \subseteq Sampling \/ {pc, to} \subseteq After
    \/ pc \in Sampling /\ to = "read"

LEMMA ReadingsFrame ==
    ASSUME TypeOK, Readings, UNCHANGED <<hysteriaVars, sampledAt>>, journal'.base = journal.base,
           NEW p \in Proc, NEW pc, NEW cache,
           \/ GoesOn(p, pc, cache) /\ SameStage(proc[p].pc, pc)
           \/ Anew(p, pc, cache) /\ pc \in {"idle", "flush"}
    PROVE  Readings'
<1> SUFFICES ASSUME NEW q \in Proc PROVE ReadingOf(q)'
  BY DEF Readings
<1>1. CASE q # p
  BY <1>1, ReadingFrame DEF GoesOn, Anew, Alone
<1>2. CASE q = p /\ Anew(p, pc, cache) /\ pc \in {"idle", "flush"}
  BY <1>2 DEF Anew, ReadingOf, Unread, Before, Sampling, Reading
<1>3. CASE q = p /\ GoesOn(p, pc, cache) /\ SameStage(proc[p].pc, pc)
  <2>1. ReadingOf(p)
    BY DEF Readings
  <2>2. Unread(p) => Unread(p)'
    BY <1>3 DEF Unread, GoesOn
  <2>3. \A e \in Endpoint : proc'[p].got[e].units \subseteq CarriedBy(e)'
    BY <1>3, <2>1 DEF ReadingOf, GoesOn, CarriedBy, hysteriaVars
  <2>4. CASE {proc[p].pc, pc} \subseteq Before
    BY <1>3, <2>1, <2>2, <2>3, <2>4 DEF ReadingOf, GoesOn, Before, Sampling, Reading
  <2>5. CASE {proc[p].pc, pc} \subseteq Sampling
    BY <1>3, <2>1, <2>2, <2>3, <2>5 DEF ReadingOf, GoesOn, Before, Sampling, Reading
  <2>6. CASE {proc[p].pc, pc} \subseteq After
    BY <1>3, <2>1, <2>3, <2>6 DEF ReadingOf, GoesOn, Before, Sampling, Reading, After
  <2>7. CASE proc[p].pc \in Sampling /\ pc = "read"
    BY <1>3, <2>1, <2>3, <2>7 DEF ReadingOf, GoesOn, Before, Sampling, Reading, Unread
  <2> QED
    BY <1>3, <2>4, <2>5, <2>6, <2>7 DEF SameStage
<1> QED
  BY <1>1, <1>2, <1>3

\* The steps that touch neither the counters nor the baselines.
LEMMA QuietReadings ==
    ASSUME TypeOK, Counters, Readings, NEW p \in Proc,
           \/ Flush(p) \/ Unlink(p) \/ Recover(p) \/ Clear(p) \/ Persist(p) \/ Finish(p)
           \/ Adjust(p) \/ Begin(p) \/ Crash(p)
    PROVE  Counters' /\ Readings'
<1>1. UNCHANGED <<hysteriaVars, sampledAt>> /\ journal'.base = journal.base
  <2>1. CASE Clear(p)
    BY <2>1, ClearStep DEF Clear, TypeOK
  <2> QED
    BY <2>1 DEF Flush, Unlink, Recover, Persist, Finish, Adjust, Begin, Crash, diskVars
<1>2. CASE Flush(p)
  <2>1. SameStage(proc[p].pc, AfterFlush(proc[p].pc))
    BY <1>2 DEF Flush, AfterFlush, SameStage, Before, Sampling
  <2>2. SameStage(proc[p].pc, IF proc[p].pc = "flush" THEN "unlink" ELSE "unlinkNew")
    BY <1>2 DEF Flush, SameStage, Before, Sampling
  <2> QED
    BY <1>1, <1>2, <2>1, <2>2, FlushStep, ReadingsFrame, CountersFrame
<1>3. CASE Unlink(p)
  <2>1. SameStage(proc[p].pc, IF proc[p].pc = "unlink" THEN "flush" ELSE "flushNew")
    BY <1>3 DEF Unlink, SameStage, Before, Sampling
  <2> QED
    BY <1>1, <1>3, <2>1, UnlinkStep, ReadingsFrame, CountersFrame
<1>4. CASE Recover(p)
  <2>1. /\ SameStage(proc[p].pc, IF proc[p].pc = "recover" THEN "sample" ELSE "finish")
        /\ SameStage(proc[p].pc, IF proc[p].pc = "recover" THEN "clear" ELSE "clearNew")
    BY <1>4 DEF Recover, SameStage, Before, After
  <2> QED
    BY <1>1, <1>4, <2>1, RecoverStep, ReadingsFrame, CountersFrame
<1>5. CASE Clear(p)
  <2>1. SameStage(proc[p].pc, IF proc[p].pc = "clear" THEN "sample" ELSE "finish")
    BY <1>5 DEF Clear, SameStage, Before, After
  <2> QED
    BY <1>1, <1>5, <2>1, ClearStep, ReadingsFrame, CountersFrame
<1>6. CASE Persist(p)
  <2>1. SameStage(proc[p].pc, "flushNew")
    BY <1>6 DEF Persist, At, SameStage, Sampling
  <2> QED
    BY <1>1, <1>6, <2>1, PersistStep, ReadingsFrame, CountersFrame
<1>7. CASE Finish(p)
  <2>1. SameStage(proc[p].pc, "adjust")
    BY <1>7 DEF Finish, At, SameStage, After
  <2> QED
    BY <1>1, <1>7, <2>1, FinishStep, ReadingsFrame, CountersFrame
<1>8. CASE Begin(p)
  <2>1. SameStage(proc[p].pc, "flush")
    BY <1>8 DEF Begin, At, SameStage, Before
  <2> QED
    BY <1>1, <1>8, <2>1, BeginStep, ReadingsFrame, CountersFrame
<1>9. CASE Adjust(p) \/ Crash(p)
  BY <1>1, <1>9, AdjustStep, CrashStep, ReadingsFrame, CountersFrame
<1> QED
  BY <1>2, <1>3, <1>4, <1>5, <1>6, <1>7, <1>8, <1>9

LEMMA SampleReadings ==
    ASSUME TypeOK, Counters, Readings, NEW p \in Proc, Sample(p)
    PROVE  Counters' /\ Readings'
<1>1. UNCHANGED <<hysteriaVars, sampledAt>> \/ UNCHANGED <<counter, epoch, served, sampledAt>>
  BY DEF Sample
<1>2. UNCHANGED <<counter, epoch, served, sampledAt, journal>>
  BY DEF Sample, diskVars
<1>3. Counters'
  BY <1>2 DEF Counters, CarriedBy, Continues, Shown, Journalled
<1> SUFFICES ASSUME NEW q \in Proc PROVE ReadingOf(q)'
  BY <1>3 DEF Readings
<1>4. CASE q # p
  <2>1. proc'[q] = proc[q]
    BY <1>4, SampleStep DEF Alone
  <2> QED
    BY <1>2, <2>1 DEF Readings, ReadingOf, Unread, CarriedBy, Continues, Precedes, Shown, Journalled
<1>5. CASE q = p
  <2>1. Unread(p)
    BY DEF Readings, ReadingOf, Sample, At, Before
  <2>2. /\ proc'[p].todo = Endpoint /\ proc'[p].pc \in {"read", "persist"}
        /\ proc'[p].got = proc[p].got /\ proc'[p].failed = proc[p].failed
    BY SampleStep
  <2> QED
    BY <1>5, <2>1, <2>2 DEF ReadingOf, Unread, Before, Sampling, Reading
<1> QED
  BY <1>4, <1>5

\* What an endpoint shows now is a good reading.
LEMMA ReadReadings ==
    ASSUME TypeOK, Counters, Readings, NEW p \in Proc, NEW f \in Endpoint, Read(p, f)
    PROVE  Counters' /\ Readings'
<1>1. UNCHANGED <<hysteriaVars, sampledAt, journal>>
  BY DEF Read, diskVars
<1>2. Counters'
  BY <1>1, CountersFrame
<1> SUFFICES ASSUME NEW q \in Proc PROVE ReadingOf(q)'
  BY <1>2 DEF Readings
<1>3. CASE q # p
  BY <1>1, <1>3, ReadStep, ReadingFrame DEF Alone
<1>4. CASE q = p
  <2>1. proc[p].pc = "read" /\ ReadingOf(p) /\ f \in proc[p].todo
    BY DEF Readings, Read, At
  <2>2. /\ proc'[p].todo = proc[p].todo \ {f}
        /\ proc'[p].pc = IF proc[p].todo = {f} THEN "save" ELSE "read"
        /\ proc[p].got \in [Endpoint -> Baseline]
        /\ \/ /\ proc'[p].got = [proc[p].got EXCEPT ![f] = Shown(f)]
              /\ proc'[p].failed = proc[p].failed
           \/ proc'[p].got = proc[p].got /\ proc'[p].failed = proc[p].failed \cup {f}
    BY ReadStep DEF TypeOK, Process
  <2>3. /\ proc'[p].pc = "save" => proc'[p].todo = {}
        /\ proc'[p].todo \cap proc'[p].failed = {} /\ f \notin proc[p].failed
    BY <2>1, <2>2, ReadStep DEF ReadingOf, Reading
  <2>4. \A e \in Endpoint :
          /\ proc'[p].got[e].units \subseteq CarriedBy(e)
          /\ IF e \in proc'[p].todo \cup proc'[p].failed THEN proc'[p].got[e].units = {}
             ELSE Continues(journal.base[e], proc'[p].got[e]) /\ Precedes(proc'[p].got[e], Shown(e))
    <3> SUFFICES ASSUME NEW e \in Endpoint
                 PROVE  /\ proc'[p].got[e].units \subseteq CarriedBy(e)
                        /\ IF e \in proc'[p].todo \cup proc'[p].failed THEN proc'[p].got[e].units = {}
                           ELSE /\ Continues(journal.base[e], proc'[p].got[e])
                                /\ Precedes(proc'[p].got[e], Shown(e))
      OBVIOUS
    <3>1. /\ proc[p].got[e].units \subseteq CarriedBy(e)
          /\ IF e \in proc[p].todo \cup proc[p].failed THEN proc[p].got[e].units = {}
             ELSE Continues(journal.base[e], proc[p].got[e]) /\ Precedes(proc[p].got[e], Shown(e))
      BY <2>1 DEF ReadingOf, Reading
    <3>2. CASE e # f
      <4>1. proc'[p].got[e] = proc[p].got[e]
        BY <2>2, <3>2
      <4>2. e \in proc'[p].todo \cup proc'[p].failed <=> e \in proc[p].todo \cup proc[p].failed
        BY <2>2, <3>2
      <4> QED
        BY <3>1, <4>1, <4>2
    <3>3. CASE e = f /\ proc'[p].got = proc[p].got /\ proc'[p].failed = proc[p].failed \cup {f}
      BY <2>1, <3>1, <3>3
    <3>4. CASE e = f /\ proc'[p].got = [proc[p].got EXCEPT ![f] = Shown(f)]
               /\ proc'[p].failed = proc[p].failed
      <4>1. proc'[p].got[e] = Shown(e) /\ e \notin proc'[p].todo \cup proc'[p].failed
        BY <2>2, <2>3, <3>4
      <4>2. Continues(journal.base[e], Shown(e)) /\ counter[e] \subseteq CarriedBy(e)
        BY DEF Counters
      <4>3. Precedes(Shown(e), Shown(e)) /\ Shown(e).units = counter[e]
        BY DEF Precedes, Shown, TypeOK
      <4> QED
        BY <4>1, <4>2, <4>3
    <3> QED
      BY <2>2, <3>2, <3>3, <3>4
  <2>5. proc'[p].pc \in Reading /\ proc'[p].pc \notin Before /\ proc'[p].pc \notin Sampling
    BY <2>2 DEF Before, Sampling, Reading
  <2> QED
    BY <1>1, <1>4, <2>3, <2>4, <2>5
       DEF ReadingOf, CarriedBy, Continues, Precedes, Shown, Journalled, hysteriaVars
<1> QED
  BY <1>3, <1>4

\* The sample that is saved is new, and completes what was read.
LEMMA MergedIsNew ==
    ASSUME TypeOK, Counters, Readings, NEW p \in Proc, At(p, "save")
    PROVE  /\ Merged(p) \subseteq served /\ Merged(p) \cap Journalled = {}
           /\ \A e \in Endpoint : /\ proc[p].got[e].units \subseteq Journalled \cup Merged(p)
                                  /\ Merged(p) \cap CarriedBy(e) \subseteq proc[p].got[e].units
                                  /\ e \in proc[p].failed => proc[p].got[e].units = {}
<1>1. ReadingOf(p) /\ proc[p].pc = "save" /\ proc[p].todo = {}
  BY DEF Readings, ReadingOf, At
<1>2. \A e \in Endpoint :
        /\ proc[p].got[e].units \subseteq CarriedBy(e)
        /\ e \in proc[p].failed => proc[p].got[e].units = {}
        /\ e \notin proc[p].failed => Continues(journal.base[e], proc[p].got[e])
  BY <1>1 DEF ReadingOf, Reading
<1>3. \A e \in Endpoint \ proc[p].failed :
        /\ Delta(p, e) \subseteq proc[p].got[e].units
        /\ Delta(p, e) \cap Journalled = {}
        /\ proc[p].got[e].units \subseteq Journalled \cup Delta(p, e)
  <2> SUFFICES ASSUME NEW e \in Endpoint \ proc[p].failed
               PROVE  /\ Delta(p, e) \subseteq proc[p].got[e].units
                      /\ Delta(p, e) \cap Journalled = {}
                      /\ proc[p].got[e].units \subseteq Journalled \cup Delta(p, e)
    OBVIOUS
  <2>1. Continues(journal.base[e], proc[p].got[e]) /\ journal.base[e].units \subseteq Journalled
    BY <1>2 DEF Counters
  <2> QED
    BY <2>1 DEF Delta, Continues
<1>4. Merged(p) \subseteq served /\ Merged(p) \cap Journalled = {}
  BY <1>2, <1>3 DEF Merged, CarriedBy
<1> SUFFICES ASSUME NEW e \in Endpoint
             PROVE  /\ proc[p].got[e].units \subseteq Journalled \cup Merged(p)
                    /\ Merged(p) \cap CarriedBy(e) \subseteq proc[p].got[e].units
                    /\ e \in proc[p].failed => proc[p].got[e].units = {}
  BY <1>4
<1>5. proc[p].got[e].units \subseteq Journalled \cup Merged(p)
  BY <1>2, <1>3 DEF Merged
<1>6. Merged(p) \cap CarriedBy(e) \subseteq proc[p].got[e].units
  <2> SUFFICES ASSUME NEW u \in Merged(p), u \in CarriedBy(e) PROVE u \in proc[p].got[e].units
    OBVIOUS
  <2>1. PICK f \in Endpoint \ proc[p].failed : u \in Delta(p, f)
    BY DEF Merged
  <2>2. u \in proc[p].got[f].units /\ u \in CarriedBy(f)
    BY <1>2, <1>3, <2>1
  <2> QED
    BY <2>2 DEF CarriedBy
<1> QED
  BY <1>2, <1>5, <1>6

\* One write: the journalled units are the old ones and the sample.
LEMMA JournalledGrows ==
    ASSUME TypeOK, NEW p \in Proc, sampledAt' = Stamped(p)
    PROVE  Journalled' = Journalled \cup Merged(p)
<1>1. proc[p].at \in Time /\ NotYet \notin Time /\ Merged(p) \subseteq Unit
  BY MergedType DEF TypeOK, Process, Time, NotYet
<1> QED
  BY <1>1 DEF Journalled, Stamped, TypeOK

LEMMA SaveReadings ==
    ASSUME TypeOK, Counters, Readings, Turns, NEW p \in Proc, Save(p)
    PROVE  Counters' /\ Readings'
<1>1. At(p, "save") /\ UNCHANGED hysteriaVars
  BY DEF Save
<1>2. CASE UNCHANGED <<journal, sampledAt>> /\ Anew(p, "idle", proc[p].cache)
  BY <1>1, <1>2, CountersFrame, ReadingsFrame
<1>3. ASSUME NEW id \in 0..MaxBatch, journal' = Saved(p, id), sampledAt' = Stamped(p),
             GoesOn(p, "recoverNew", proc[p].cache) \/ Anew(p, "idle", proc[p].cache)
      PROVE  Counters' /\ Readings'
  <2>1. /\ Journalled' = Journalled \cup Merged(p)
        /\ \A e \in Endpoint : journal'.base[e] = IF e \in proc[p].failed THEN journal.base[e]
                                                  ELSE proc[p].got[e]
    BY <1>3, JournalledGrows DEF Saved
  <2>2. Journalled' \subseteq served'
    BY <1>1, <2>1, MergedIsNew DEF Counters, hysteriaVars
  <2>3. \A e \in Endpoint : journal'.base[e].units \subseteq Journalled'
    BY <1>1, <2>1, MergedIsNew DEF Counters
  <2>4. ASSUME NEW e \in Endpoint PROVE Continues(journal.base[e], Shown(e))'
    <3>1. /\ counter[e] \subseteq CarriedBy(e) /\ Continues(journal.base[e], Shown(e))
          /\ Merged(p) \cap CarriedBy(e) \subseteq proc[p].got[e].units
      BY <1>1, MergedIsNew DEF Counters
    <3>2. Shown(e)' = Shown(e) /\ Shown(e).units = counter[e] /\ Shown(e).epoch = epoch[e]
      BY <1>1 DEF Shown, hysteriaVars
    <3>3. CASE e \in proc[p].failed
      <4>1. counter[e] \cap Merged(p) = {}
        BY <1>1, <3>1, <3>3, MergedIsNew
      <4> QED
        BY <2>1, <3>1, <3>2, <3>3, <4>1 DEF Continues
    <3>4. CASE e \notin proc[p].failed
      <4>1. Continues(journal.base[e], proc[p].got[e]) /\ Precedes(proc[p].got[e], Shown(e))
        BY <1>1, <3>4 DEF Readings, ReadingOf, Reading, At
      <4>2. /\ journal.base[e].epoch \in Nat /\ proc[p].got[e].epoch \in Nat /\ epoch[e] \in Nat
        BY DEF TypeOK, Process, Baseline
      <4>3. \A u \in counter[e] \cap Journalled' :
              proc[p].got[e].epoch = epoch[e] /\ u \in proc[p].got[e].units
        BY <2>1, <3>1, <3>2, <4>1, <4>2 DEF Continues, Precedes
      <4> QED
        BY <2>1, <3>2, <3>4, <4>1, <4>3 DEF Continues, Precedes
    <3> QED
      BY <3>3, <3>4
  <2>5. Counters'
    BY <1>1, <2>2, <2>3, <2>4 DEF Counters, CarriedBy, hysteriaVars
  <2>6. ASSUME NEW q \in Proc PROVE ReadingOf(q)'
    <3>1. CASE q # p
      <4>1. proc'[q] = proc[q] /\ proc[q].pc = "idle" /\ Unread(q)
        BY <1>1, <1>3, <3>1, OtherIdle DEF GoesOn, Anew, Alone, At
      <4> QED
        BY <4>1 DEF ReadingOf, Unread, Before, Sampling, Reading
    <3>2. CASE q = p /\ GoesOn(p, "recoverNew", proc[p].cache)
      <4>1. \A e \in Endpoint : proc'[p].got[e].units \subseteq CarriedBy(e)'
        BY <1>1, <3>2 DEF Readings, ReadingOf, GoesOn, CarriedBy, hysteriaVars
      <4>2. proc'[p].pc = "recoverNew"
        BY <3>2 DEF GoesOn
      <4> QED
        BY <3>2, <4>1, <4>2 DEF ReadingOf, Before, Sampling, Reading
    <3>3. CASE q = p /\ Anew(p, "idle", proc[p].cache)
      BY <3>3 DEF Anew, ReadingOf, Unread, Before, Sampling, Reading
    <3> QED
      BY <1>3, <3>1, <3>2, <3>3
  <2> QED
    BY <2>5, <2>6 DEF Readings
<1> QED
  BY <1>2, <1>3, SaveStep

LEMMA ServeReadings ==
    ASSUME TypeOK, Counters, Readings, NEW u \in Unit, Serve(u)
    PROVE  Counters' /\ Readings'
<1>1. /\ u \notin served /\ served' = served \cup {u}
      /\ UNCHANGED <<epoch, proc, sampledAt, journal>>
      /\ counter' = [counter EXCEPT ![Route[u]] = @ \cup {u}]
  BY DEF Serve, diskVars
<1>2. \A e \in Endpoint : counter'[e] = IF e = Route[u] THEN counter[e] \cup {u} ELSE counter[e]
  BY <1>1, BoundsAssumption DEF TypeOK
<1>3. \A e \in Endpoint : \A v \in CarriedBy(e) : v # u /\ v \in served' /\ Route[v] = e
  BY <1>1 DEF CarriedBy
<1>4. u \notin Journalled /\ Journalled' = Journalled
  BY <1>1 DEF Journalled, Counters
<1>5. Counters'
  <2> SUFFICES ASSUME NEW e \in Endpoint
               PROVE  /\ counter'[e] \subseteq CarriedBy(e)'
                      /\ journal.base[e].units \subseteq Journalled
                      /\ Continues(journal.base[e], Shown(e))'
    BY <1>1, <1>4, <1>3 DEF Counters
  <2>1. /\ counter[e] \subseteq CarriedBy(e) /\ journal.base[e].units \subseteq Journalled
        /\ Continues(journal.base[e], Shown(e))
    BY DEF Counters
  <2>2. counter'[e] \subseteq CarriedBy(e)'
    <3>1. \A v \in counter'[e] : v \in served' /\ Route[v] = e
      BY <1>1, <1>2, <1>3, <2>1
    <3> QED
      BY <3>1 DEF CarriedBy
  <2>3. /\ counter[e] \subseteq counter'[e]
        /\ \A v \in counter'[e] \cap Journalled : v \in counter[e]
    BY <1>2, <1>4
  <2> QED
    BY <1>1, <1>4, <2>1, <2>2, <2>3 DEF Continues, Shown
<1>6. ASSUME NEW q \in Proc PROVE ReadingOf(q)'
  <2>1. ReadingOf(q)
    BY DEF Readings
  <2>2. ASSUME NEW e \in Endpoint, Precedes(proc[q].got[e], Shown(e))
        PROVE  Precedes(proc[q].got[e], Shown(e))'
    <3>1. u \notin proc[q].got[e].units
      BY <1>3, <2>1 DEF ReadingOf
    <3>2. counter[e] \subseteq counter'[e] /\ counter'[e] \subseteq counter[e] \cup {u}
      BY <1>2
    <3> QED
      BY <1>1, <2>2, <3>1, <3>2 DEF Precedes, Shown
  <2>3. \A e \in Endpoint : Continues(journal.base[e], proc[q].got[e])
                              => Continues(journal.base[e], proc[q].got[e])'
    BY <1>1, <1>4 DEF Continues
  <2>4. \A e \in Endpoint : proc'[q].got[e].units \subseteq CarriedBy(e)'
    <3>1. \A e \in Endpoint : \A v \in proc'[q].got[e].units : v \in served' /\ Route[v] = e
      BY <1>1, <1>3, <2>1 DEF ReadingOf
    <3> QED
      BY <3>1 DEF CarriedBy
  <2> QED
    BY <1>1, <2>1, <2>2, <2>3, <2>4 DEF ReadingOf, Unread
<1> QED
  BY <1>5, <1>6 DEF Readings

LEMMA RestartReadings ==
    ASSUME TypeOK, Counters, Readings, NEW f \in Endpoint, RestartServer(f)
    PROVE  Counters' /\ Readings'
<1>1. /\ UNCHANGED <<served, proc, sampledAt, journal>> /\ Journalled' = Journalled
      /\ \A e \in Endpoint : CarriedBy(e)' = CarriedBy(e)
      /\ \A e \in Endpoint : e # f => counter'[e] = counter[e] /\ epoch'[e] = epoch[e]
      /\ counter'[f] = {} /\ epoch'[f] = epoch[f] + 1
  BY DEF RestartServer, TypeOK, CarriedBy, Journalled, diskVars
<1>2. \A e \in Endpoint : journal.base[e] \in Baseline /\ \A q \in Proc : proc[q].got[e] \in Baseline
  BY DEF TypeOK, Process
<1>3. Counters'
  <2> SUFFICES ASSUME NEW e \in Endpoint
               PROVE  /\ counter'[e] \subseteq CarriedBy(e)'
                      /\ journal.base[e].units \subseteq Journalled
                      /\ Continues(journal.base[e], Shown(e))'
    BY <1>1 DEF Counters
  <2>1. /\ counter[e] \subseteq CarriedBy(e) /\ journal.base[e].units \subseteq Journalled
        /\ Continues(journal.base[e], Shown(e))
    BY DEF Counters
  <2>2. CASE e # f
    BY <1>1, <2>1, <2>2 DEF Continues, Shown
  <2>3. CASE e = f
    <3>1. journal.base[e].epoch < epoch'[e] /\ journal.base[e].epoch \in Nat /\ epoch'[e] \in Nat
      <4>1. journal.base[e].epoch \in Nat /\ epoch[e] \in Nat /\ journal.base[e].epoch <= epoch[e]
        BY <1>2, <2>1 DEF Continues, Shown, Baseline, TypeOK
      <4> QED
        BY <1>1, <2>3, <4>1
    <3> QED
      BY <1>1, <2>1, <2>3, <3>1 DEF Continues, Shown
  <2> QED
    BY <2>2, <2>3
<1>4. ASSUME NEW q \in Proc PROVE ReadingOf(q)'
  <2>1. ReadingOf(q)
    BY DEF Readings
  <2>2. ASSUME NEW e \in Endpoint, Precedes(proc[q].got[e], Shown(e))
        PROVE  Precedes(proc[q].got[e], Shown(e))'
    <3>1. CASE e # f
      BY <1>1, <2>2, <3>1 DEF Precedes, Shown
    <3>2. CASE e = f
      <4>1. proc[q].got[e].epoch < epoch'[e] /\ proc[q].got[e].epoch \in Nat /\ epoch'[e] \in Nat
        <5>1. /\ proc[q].got[e].epoch \in Nat /\ epoch[e] \in Nat
              /\ proc[q].got[e].epoch <= epoch[e]
          BY <1>2, <2>2 DEF Precedes, Shown, Baseline, TypeOK
        <5> QED
          BY <1>1, <3>2, <5>1
      <4> QED
        BY <1>1, <3>2, <4>1 DEF Precedes, Shown
    <3> QED
      BY <3>1, <3>2
  <2>3. \A e \in Endpoint : Continues(journal.base[e], proc[q].got[e])
                              => Continues(journal.base[e], proc[q].got[e])'
    BY <1>1 DEF Continues
  <2> QED
    BY <1>1, <2>1, <2>2, <2>3 DEF ReadingOf, Unread
<1> QED
  BY <1>3, <1>4 DEF Readings

LEMMA ReadingsStep == TypeOK /\ Turns /\ Counters /\ Readings /\ [Next]_vars => Counters' /\ Readings'
<1> SUFFICES ASSUME TypeOK, Turns, Counters, Readings, [Next]_vars PROVE Counters' /\ Readings'
  OBVIOUS
<1>1. ASSUME NEW p \in Proc, Begin(p) \/ Collect(p) \/ Crash(p) PROVE Counters' /\ Readings'
  BY <1>1, QuietReadings, SampleReadings, ReadReadings, SaveReadings DEF Collect
<1>2. CASE UNCHANGED <<counter, epoch, served, journal, proc, sampledAt>>
  BY <1>2 DEF Counters, Readings, ReadingOf, Unread, CarriedBy, Continues, Precedes, Shown,
              Journalled
<1> QED
  BY <1>1, <1>2, ServeReadings, RestartReadings
     DEF Next, Environment, Tick, Observe, vars, hysteriaVars, diskVars

-----------------------------------------------------------------------------
(* Books: samples and totals.                                              *)

\* What a transaction adds.
LEMMA Additions ==
    ASSUME TypeOK, NEW b \in Batch, NEW fresh \in BOOLEAN, Apply(b, fresh)
    PROVE  /\ applied' = applied \cup {b.id}
           /\ \A i \in Unit \cup DomainRecord :
                physical'[i] = IF b.id \notin applied /\ i \in b.items THEN physical[i] + 1
                               ELSE physical[i]
<1>1. applied' = applied \cup {b.id}
  BY DEF Apply
<1>2. physical' = IF b.id \in applied THEN physical ELSE Added(physical, b.items)
  BY DEF Apply
<1>3. \A i \in Unit \cup DomainRecord :
        Added(physical, b.items)[i] = IF i \in b.items THEN physical[i] + 1 ELSE physical[i]
  BY DEF Added, TypeOK
<1> QED
  BY <1>1, <1>2, <1>3

\* Only a sample brings a new batch of domain records.
LEMMA HeldStep ==
    ASSUME TypeOK, NEW p \in Proc,
           \/ Flush(p) \/ Unlink(p) \/ Recover(p) \/ Clear(p) \/ Persist(p) \/ Save(p) \/ Finish(p)
           \/ Adjust(p) \/ Begin(p) \/ Crash(p) \/ \E e \in Endpoint : Read(p, e)
    PROVE  Held' \subseteq Held
<1>1. ASSUME NEW pc, NEW cache, GoesOn(p, pc, cache) \/ Anew(p, pc, cache),
             cache \subseteq Held, file' \subseteq Held
      PROVE  Held' \subseteq Held
  BY <1>1 DEF GoesOn, Anew, Alone, Held
<1>2. proc[p].cache \subseteq Held /\ file \subseteq Held /\ Found(p) \subseteq Held
  BY FoundType DEF Held
<1>3. CASE Flush(p)
  BY <1>1, <1>2, <1>3, FlushStep DEF Flush, diskVars
<1>4. CASE Unlink(p)
  BY <1>1, <1>2, <1>4, UnlinkStep
<1>5. CASE Recover(p)
  BY <1>1, <1>2, <1>5, RecoverStep DEF Recover, diskVars
<1>6. CASE Clear(p)
  BY <1>1, <1>2, <1>6, ClearStep DEF Clear
<1>7. CASE Persist(p)
  BY <1>1, <1>2, <1>7, PersistStep
<1>8. ASSUME NEW e \in Endpoint, Read(p, e) PROVE Held' \subseteq Held
  <2>1. \A q \in Proc : proc'[q].cache = proc[q].cache
    BY <1>8, ReadStep DEF Alone
  <2> QED
    BY <1>8, <2>1 DEF Read, diskVars, Held
<1>9. CASE Save(p)
  BY <1>1, <1>2, <1>9, SaveStep DEF Save
<1>10. CASE Finish(p)
  BY <1>1, <1>2, <1>10, FinishStep DEF Finish, diskVars
<1>11. CASE Adjust(p)
  BY <1>1, <1>2, <1>11, AdjustStep DEF Adjust, diskVars
<1>12. CASE Begin(p)
  BY <1>1, <1>2, <1>12, BeginStep DEF Begin, diskVars
<1>13. CASE Crash(p)
  BY <1>1, <1>2, <1>13, CrashStep DEF Crash, diskVars
<1> QED
  BY <1>3, <1>4, <1>5, <1>6, <1>7, <1>8, <1>9, <1>10, <1>11, <1>12, <1>13

LEMMA HeldType == TypeOK => Held \subseteq Batch
BY DEF TypeOK, Held, Process

\* No unit is counted and no sample written.
LEMMA BooksFrame ==
    ASSUME TypeOK, Books, sampledAt' = sampledAt, journal'.pending \subseteq journal.pending,
           \A u \in Unit : physical'[u] = physical[u],
           \A b \in journal'.pending : b.id \in applied' <=> b.id \in applied,
           \A b \in journal'.pending, c \in Held' : b.id # c.id
    PROVE  Books'
BY DEF Books, Journalled, TypeOK, Batch

\* Domain records are no units, and their batches are not the pending sample.
LEMMA BooksApplyHeld ==
    ASSUME TypeOK, Books, Domains, NEW b \in Held, NEW fresh \in BOOLEAN, Apply(b, fresh),
           UNCHANGED <<journal, sampledAt>>, Held' \subseteq Held
    PROVE  Books'
<1>1. b \in Batch /\ b.items \subseteq DomainRecord
  BY HeldType DEF Domains
<1>2. \A u \in Unit : physical'[u] = physical[u]
  BY <1>1, Additions, BoundsAssumption
<1>3. \A c \in journal.pending : c.id \in applied' <=> c.id \in applied
  BY <1>1, Additions DEF Books
<1> QED
  BY <1>2, <1>3, BooksFrame DEF Books

LEMMA BooksRecover ==
    ASSUME TypeOK, Books, NEW p \in Proc, Recover(p), Held' \subseteq Held
    PROVE  Books'
<1>1. UNCHANGED <<journal, sampledAt>>
  BY DEF Recover, diskVars
<1>2. CASE UNCHANGED dbVars
  BY <1>1, <1>2, BooksFrame DEF dbVars, Books
<1>3. ASSUME NEW b \in journal.pending, Apply(b, b.id = proc[p].fresh) PROVE Books'
  <2>1. b \in Batch /\ (b.id = proc[p].fresh) \in BOOLEAN /\ \A c \in journal.pending : c = b
    BY DEF TypeOK, AtMostOne
  <2>2. b.items \subseteq Journalled /\ Journalled \subseteq Unit /\ Journalled' = Journalled
    BY <1>1 DEF Books, Journalled
  <2>3. \A u \in b.items : physical'[u] = 1
    <3>1. \A u \in b.items : physical[u] = IF b.id \in applied THEN 1 ELSE 0
      BY <1>3 DEF Books
    <3>2. \A u \in b.items : physical'[u] = IF b.id \notin applied THEN physical[u] + 1 ELSE physical[u]
      BY <1>3, <2>1, <2>2, Additions
    <3> QED
      BY <3>1, <3>2
  <2>4. \A u \in Unit \ Journalled : physical'[u] = 0
    BY <1>3, <2>1, <2>2, Additions DEF Books
  <2>5. b.id \in applied'
    BY <1>3, <2>1, Additions
  <2> QED
    BY <1>1, <2>1, <2>2, <2>3, <2>4, <2>5 DEF Books
<1> QED
  BY <1>2, <1>3, RecoverStep

LEMMA BooksSave ==
    ASSUME TypeOK, Counters, Readings, Books, NEW p \in Proc, Save(p), Held' \subseteq Held
    PROVE  Books'
<1>1. UNCHANGED dbVars /\ At(p, "save")
  BY DEF Save
<1>2. CASE UNCHANGED <<journal, sampledAt>>
  BY <1>1, <1>2, BooksFrame DEF dbVars, Books
<1>3. ASSUME NEW id \in 0..MaxBatch, journal' = Saved(p, id), Merged(p) # {} => id \in NewIds,
             sampledAt' = Stamped(p)
      PROVE  Books'
  <2>1. Journalled' = Journalled \cup Merged(p) /\ Merged(p) \cap Journalled = {}
        /\ Merged(p) \subseteq Unit
    BY <1>1, <1>3, JournalledGrows, MergedIsNew, MergedType
  <2>2. \A b \in journal'.pending : b.id = id /\ b.items = Merged(p) /\ Merged(p) # {}
    BY <1>3 DEF Saved
  <2>3. Merged(p) # {} => id \notin applied /\ \A c \in Held : id # c.id
    BY <1>3 DEF NewIds, Used
  <2>4. \A u \in Merged(p) : physical[u] = 0
    BY <2>1 DEF Books
  <2> QED
    BY <1>1, <2>1, <2>2, <2>3, <2>4 DEF Books, dbVars
<1> QED
  BY <1>2, <1>3, SaveStep

LEMMA HeldSample ==
    ASSUME TypeOK, NEW p \in Proc, Sample(p)
    PROVE  \/ streams = {} /\ Held' = Held
           \/ /\ streams # {}
              /\ \E id \in NewIds : Held' \subseteq Held \cup {[id |-> id, items |-> streams, at |-> now]}
<1>1. file' = file
  BY DEF Sample, diskVars
<1>2. CASE streams = {}
  BY <1>1, <1>2, SampleStep DEF Alone, Held
<1>3. CASE streams # {}
  <2>1. PICK id \in NewIds : proc'[p].cache = {[id |-> id, items |-> streams, at |-> now]}
    BY <1>3, SampleStep
  <2>2. Held' \subseteq Held \cup {[id |-> id, items |-> streams, at |-> now]}
    BY <1>1, <2>1, SampleStep DEF Alone, Held
  <2> QED
    BY <1>3, <2>2
<1> QED
  BY <1>2, <1>3

LEMMA BooksStep == TypeOK /\ Turns /\ Counters /\ Readings /\ Books /\ Domains /\ [Next]_vars => Books'
<1> SUFFICES ASSUME TypeOK, Turns, Counters, Readings, Books, Domains, [Next]_vars PROVE Books'
  OBVIOUS
<1>1. ASSUME NEW p \in Proc, Flush(p) PROVE Books'
  <2>1. UNCHANGED <<journal, sampledAt>> /\ Held' \subseteq Held
    BY <1>1, HeldStep DEF Flush, diskVars
  <2>2. CASE UNCHANGED dbVars
    BY <2>1, <2>2, BooksFrame DEF dbVars, Books
  <2> QED
    BY <1>1, <2>1, <2>2, FlushStep, FoundType, BooksApplyHeld
<1>2. ASSUME NEW p \in Proc, Persist(p) PROVE Books'
  <2>1. UNCHANGED <<journal, sampledAt>> /\ Held' \subseteq Held /\ proc[p].cache \subseteq Held
    BY <1>2, HeldStep DEF Persist, Held
  <2>2. CASE UNCHANGED dbVars
    BY <2>1, <2>2, BooksFrame DEF dbVars, Books
  <2> QED
    BY <1>2, <2>1, <2>2, PersistStep, BooksApplyHeld
<1>3. ASSUME NEW p \in Proc, Recover(p) \/ Save(p) PROVE Books'
  <2>1. Held' \subseteq Held
    BY <1>3, HeldStep
  <2> QED
    BY <1>3, <2>1, BooksRecover, BooksSave
<1>4. ASSUME NEW p \in Proc, Sample(p) PROVE Books'
  <2>1. UNCHANGED <<journal, sampledAt, physical, applied>>
    BY <1>4 DEF Sample, diskVars, dbVars
  <2>2. \A id \in NewIds, b \in journal.pending : id # b.id
    BY DEF NewIds, Used
  <2>3. \A b \in journal.pending, c \in Held' : b.id # c.id
    BY <1>4, <2>2, HeldSample DEF Books
  <2> QED
    BY <2>1, <2>3, BooksFrame
<1>5. ASSUME NEW p \in Proc, UNCHANGED <<sampledAt, physical, applied>>, Held' \subseteq Held,
             journal'.pending \subseteq journal.pending
      PROVE  Books'
  BY <1>5, BooksFrame DEF Books
<1>6. ASSUME NEW p \in Proc, Unlink(p) \/ Clear(p) \/ Finish(p) \/ Adjust(p) \/ Begin(p) \/ Crash(p)
      PROVE  Books'
  <2>1. Held' \subseteq Held
    BY <1>6, HeldStep
  <2>2. journal'.pending \subseteq journal.pending
    BY <1>6, ClearStep DEF Unlink, Finish, Adjust, Begin, Crash, diskVars, TypeOK
  <2> QED
    BY <1>5, <1>6, <2>1, <2>2 DEF Unlink, Clear, Finish, Adjust, Begin, Crash, dbVars
<1>7. ASSUME NEW p \in Proc, NEW e \in Endpoint, Read(p, e) PROVE Books'
  <2>1. Held' \subseteq Held
    BY <1>7, HeldStep
  <2> QED
    BY <1>5, <1>7, <2>1 DEF Read, diskVars, dbVars
<1>8. CASE UNCHANGED <<journal, sampledAt, physical, applied, file, proc>>
  BY <1>8, BooksFrame DEF Books, Held
<1> QED
  BY <1>1, <1>2, <1>3, <1>4, <1>6, <1>7, <1>8
     DEF Next, Collect, Environment, Tick, Serve, Observe, RestartServer, vars, diskVars, dbVars

-----------------------------------------------------------------------------
(* Domain records: the file, the memories and the totals.                  *)

\* No batch of records is counted and no record read.
LEMMA DomainsFrame ==
    ASSUME TypeOK, Domains, Held' \subseteq Held, streams' = streams,
           \A r \in DomainRecord : physical'[r] = physical[r],
           \A b \in Held : b.id \in applied' <=> b.id \in applied
    PROVE  Domains'
BY DEF Domains, TypeOK

\* A batch is counted when its id is not in the table, and then it is.
LEMMA DomainsApplyHeld ==
    ASSUME TypeOK, Domains, NEW b \in Held, NEW fresh \in BOOLEAN, Apply(b, fresh),
           streams' = streams, Held' \subseteq Held
    PROVE  Domains'
<1>1. b \in Batch /\ b.items \subseteq DomainRecord
  BY HeldType DEF Domains
<1>2. applied' = applied \cup {b.id}
  BY <1>1, Additions
<1>3. \A r \in DomainRecord :
        physical'[r] = IF b.id \notin applied /\ r \in b.items THEN physical[r] + 1 ELSE physical[r]
  BY <1>1, Additions
<1>4. \A r \in b.items : physical[r] = IF b.id \in applied THEN 1 ELSE 0
  BY DEF Domains
<1>5. \A r \in b.items : physical'[r] = 1
  BY <1>1, <1>3, <1>4
<1>6. \A r \in DomainRecord \ b.items : physical'[r] = physical[r]
  BY <1>3
<1>7. \A c \in Held' : c.items \subseteq DomainRecord
                       /\ \A r \in c.items : physical'[r] = IF c.id \in applied' THEN 1 ELSE 0
  <2> SUFFICES ASSUME NEW c \in Held
               PROVE  /\ c.items \subseteq DomainRecord
                      /\ \A r \in c.items : physical'[r] = IF c.id \in applied' THEN 1 ELSE 0
    OBVIOUS
  <2>1. CASE c = b
    BY <1>1, <1>2, <1>5, <2>1
  <2>2. CASE c # b
    <3>1. c.id # b.id /\ c.items \cap b.items = {}
      BY <2>2 DEF Domains
    <3> QED
      BY <1>2, <1>6, <3>1 DEF Domains
  <2> QED
    BY <2>1, <2>2
<1>8. \A r \in streams' : physical'[r] = 0 /\ \A c \in Held' : r \notin c.items
  BY <1>6 DEF Domains, TypeOK
<1>9. \A r \in DomainRecord : physical'[r] \in {0, 1}
  BY <1>5, <1>6 DEF Domains
<1> QED
  BY <1>7, <1>8, <1>9 DEF Domains

LEMMA DomainsRecover ==
    ASSUME TypeOK, Books, Domains, NEW p \in Proc, Recover(p)
    PROVE  Domains'
<1>1. Held' \subseteq Held /\ streams' = streams
  BY HeldStep DEF Recover, hysteriaVars
<1>2. CASE UNCHANGED dbVars
  BY <1>1, <1>2, DomainsFrame DEF dbVars
<1>3. ASSUME NEW b \in journal.pending, Apply(b, b.id = proc[p].fresh) PROVE Domains'
  <2>1. b \in Batch /\ (b.id = proc[p].fresh) \in BOOLEAN
    BY DEF TypeOK
  <2>2. b.items \subseteq Unit /\ \A c \in Held : b.id # c.id
    BY DEF Books, Journalled
  <2>3. \A r \in DomainRecord : physical'[r] = physical[r]
    BY <1>3, <2>1, <2>2, Additions, BoundsAssumption
  <2>4. \A c \in Held : c.id \in applied' <=> c.id \in applied
    BY <1>3, <2>1, <2>2, Additions
  <2> QED
    BY <1>1, <2>3, <2>4, DomainsFrame
<1> QED
  BY <1>2, <1>3, RecoverStep

\* The records that were read are in one batch with an id of its own.
LEMMA DomainsSample ==
    ASSUME TypeOK, Domains, NEW p \in Proc, Sample(p)
    PROVE  Domains'
<1>1. UNCHANGED <<physical, applied>> /\ streams' = {}
  BY DEF Sample, dbVars
<1>2. CASE Held' = Held
  BY <1>1, <1>2 DEF Domains
<1>3. ASSUME NEW id \in NewIds, Held' \subseteq Held \cup {[id |-> id, items |-> streams, at |-> now]}
      PROVE  Domains'
  <2> DEFINE new == [id |-> id, items |-> streams, at |-> now]
  <2>1. new.id = id /\ new.items = streams
    OBVIOUS
  <2>2. id \notin applied /\ \A c \in Held : c.id # id
    BY DEF NewIds, Used
  <2>3. streams \subseteq DomainRecord /\ \A r \in streams : physical[r] = 0 /\ \A c \in Held : r \notin c.items
    BY DEF Domains, TypeOK
  <2>4. Held' \subseteq Held \cup {new}
    BY <1>3
  <2> HIDE DEF new
  <2>5. \A b \in Held' : /\ b.items \subseteq DomainRecord
                         /\ \A r \in b.items : physical[r] = IF b.id \in applied THEN 1 ELSE 0
    BY <2>1, <2>2, <2>3, <2>4 DEF Domains
  <2>6. \A b, c \in Held' : b.id = c.id \/ b.items \cap c.items # {} => b = c
    BY <2>1, <2>2, <2>3, <2>4 DEF Domains
  <2> QED
    BY <1>1, <2>5, <2>6 DEF Domains
<1> QED
  BY <1>2, <1>3, HeldSample

LEMMA DomainsStep == TypeOK /\ Books /\ Domains /\ [Next]_vars => Domains'
<1> SUFFICES ASSUME TypeOK, Books, Domains, [Next]_vars PROVE Domains'
  OBVIOUS
<1>1. ASSUME NEW p \in Proc, Flush(p) PROVE Domains'
  <2>1. streams' = streams /\ Held' \subseteq Held
    BY <1>1, HeldStep DEF Flush, hysteriaVars
  <2>2. CASE UNCHANGED dbVars
    BY <2>1, <2>2, DomainsFrame DEF dbVars
  <2> QED
    BY <1>1, <2>1, <2>2, FlushStep, FoundType, DomainsApplyHeld
<1>2. ASSUME NEW p \in Proc, Persist(p) PROVE Domains'
  <2>1. streams' = streams /\ Held' \subseteq Held /\ proc[p].cache \subseteq Held
    BY <1>2, HeldStep DEF Persist, hysteriaVars, Held
  <2>2. CASE UNCHANGED dbVars
    BY <2>1, <2>2, DomainsFrame DEF dbVars
  <2> QED
    BY <1>2, <2>1, <2>2, PersistStep, DomainsApplyHeld
<1>3. CASE Held' \subseteq Held /\ UNCHANGED <<streams, physical, applied>>
  BY <1>3, DomainsFrame
<1>4. ASSUME NEW p \in Proc,
             \/ Unlink(p) \/ Clear(p) \/ Save(p) \/ Finish(p) \/ Adjust(p) \/ Begin(p) \/ Crash(p)
             \/ \E e \in Endpoint : Read(p, e)
      PROVE  Domains'
  <2>1. Held' \subseteq Held
    BY <1>4, HeldStep
  <2> QED
    BY <1>3, <1>4, <2>1
       DEF Unlink, Clear, Save, Finish, Adjust, Begin, Crash, Read, hysteriaVars, dbVars
<1>5. ASSUME NEW r \in DomainRecord, Observe(r) PROVE Domains'
  <2>1. /\ Held' = Held /\ UNCHANGED <<physical, applied>>
        /\ streams' = streams \cup {r} /\ physical[r] = 0 /\ \A b \in Held : r \notin b.items
    BY <1>5 DEF Observe, diskVars, dbVars, Held
  <2> QED
    BY <2>1 DEF Domains
<1>6. CASE UNCHANGED <<streams, physical, applied, file, proc>>
  BY <1>3, <1>6 DEF Held
<1> QED
  BY <1>1, <1>2, <1>4, <1>5, <1>6, DomainsRecover, DomainsSample
     DEF Next, Collect, Environment, Tick, Serve, RestartServer, vars, diskVars, dbVars, hysteriaVars

\* A process that starts anew has nothing to remove, one that goes on elsewhere neither.
LEMMA FlushesFrame ==
    ASSUME TypeOK, Turns, NEW p \in Proc, Alone(p), ~At(p, "idle") \/ \A q \in Proc : At(q, "idle"),
           FlushOf(p)'
    PROVE  Flushes'
<1>1. ASSUME NEW q \in Proc, q # p PROVE FlushOf(q)'
  <2>1. proc'[q].pc = "idle"
    BY <1>1 DEF Turns, Alone, At
  <2> QED
    BY <2>1 DEF FlushOf
<1> QED
  BY <1>1 DEF Flushes

LEMMA FlushesStep == TypeOK /\ Turns /\ Flushes /\ [Next]_vars => Flushes'
<1> SUFFICES ASSUME TypeOK, Turns, Flushes, [Next]_vars PROVE Flushes'
  OBVIOUS
<1>1. ASSUME NEW p \in Proc, NEW cache, Anew(p, "idle", cache) \/ Anew(p, "flush", cache)
      PROVE  FlushOf(p)'
  BY <1>1 DEF Anew, FlushOf
<1>2. ASSUME NEW p \in Proc, Collect(p), FlushOf(p)' PROVE Flushes'
  BY <1>2, CollectMoves, FlushesFrame
<1>3. ASSUME NEW p \in Proc, Flush(p) PROVE FlushOf(p)'
  <2>1. file' = file /\ proc[p].pc \in {"flush", "flushNew"}
    BY <1>3 DEF Flush, diskVars
  <2>2. CASE Found(p) = {} /\ GoesOn(p, AfterFlush(proc[p].pc), proc[p].cache)
    <3>1. file = {} /\ proc[p].cache = {} /\ proc'[p].pc \in {"recover", "read"}
      BY <2>2 DEF Found, AfterFlush, GoesOn
    <3> QED
      BY <2>1, <2>2, <3>1 DEF FlushOf, GoesOn
  <2>3. ASSUME NEW b \in Found(p), Apply(b, FoundFresh(p)),
               GoesOn(p, IF proc[p].pc = "flush" THEN "unlink" ELSE "unlinkNew", Found(p))
        PROVE  FlushOf(p)'
    <3>1. \A c \in Found(p) : c.id \in applied'
      BY <2>3, FoundType DEF AtMostOne, Apply
    <3> QED
      BY <2>3, <3>1 DEF FlushOf, GoesOn
  <2> QED
    BY <1>1, <1>3, <2>2, <2>3, FlushStep
<1>4. ASSUME NEW p \in Proc, Unlink(p) PROVE FlushOf(p)'
  BY <1>1, <1>4, UnlinkStep DEF FlushOf, GoesOn
<1>5. ASSUME NEW p \in Proc, Recover(p) PROVE FlushOf(p)'
  <2>1. file' = file /\ (proc[p].pc = "recover" => proc[p].cache = {} /\ file = {})
    BY <1>5 DEF Recover, diskVars, Flushes, FlushOf
  <2> QED
    BY <1>1, <1>5, <2>1, RecoverStep DEF FlushOf, GoesOn
<1>6. ASSUME NEW p \in Proc, Clear(p) PROVE FlushOf(p)'
  <2>1. file' = file /\ (proc[p].pc = "clear" => proc[p].cache = {} /\ file = {})
    BY <1>6 DEF Clear, Flushes, FlushOf
  <2> QED
    BY <1>1, <1>6, <2>1, ClearStep DEF FlushOf, GoesOn
<1>7. ASSUME NEW p \in Proc, Sample(p) PROVE FlushOf(p)'
  <2>1. file' = {}
    BY <1>7 DEF Sample, At, diskVars, Flushes, FlushOf
  <2> QED
    BY <1>7, <2>1, SampleStep DEF FlushOf
<1>8. ASSUME NEW p \in Proc, Persist(p) PROVE FlushOf(p)'
  BY <1>1, <1>8, PersistStep DEF FlushOf, GoesOn
<1>9. ASSUME NEW p \in Proc, NEW e \in Endpoint, Read(p, e) PROVE FlushOf(p)'
  BY <1>9, ReadStep DEF FlushOf
<1>10. ASSUME NEW p \in Proc, Save(p) \/ Finish(p) \/ Adjust(p) PROVE FlushOf(p)'
  BY <1>1, <1>10, SaveStep, FinishStep, AdjustStep DEF FlushOf, GoesOn
<1>11. ASSUME NEW p \in Proc, Collect(p) PROVE Flushes'
  BY <1>2, <1>3, <1>4, <1>5, <1>6, <1>7, <1>8, <1>9, <1>10, <1>11 DEF Collect
<1>12. ASSUME NEW p \in Proc, Begin(p) PROVE Flushes'
  <2>1. FlushOf(p)' /\ Alone(p)
    BY <1>1, <1>12, BeginStep DEF FlushOf, GoesOn, Anew
  <2> QED
    BY <1>12, <2>1, FlushesFrame DEF Begin
<1>13. ASSUME NEW p \in Proc, Crash(p) PROVE Flushes'
  <2>1. FlushOf(p)' /\ Alone(p) /\ ~At(p, "idle")
    BY <1>1, <1>13, CrashStep DEF Anew, Crash, At
  <2> QED
    BY <2>1, FlushesFrame
<1>14. CASE UNCHANGED <<proc, file, applied>>
  BY <1>14 DEF Flushes, FlushOf
<1> QED
  BY <1>11, <1>12, <1>13, <1>14
     DEF Next, Environment, Tick, Serve, Observe, RestartServer, vars, diskVars, dbVars

-----------------------------------------------------------------------------
(* Periods: samples, adjustments and months.                               *)

LEMMA TimesType ==
    ASSUME TypeOK
    PROVE  /\ now \in Int /\ now >= 0 /\ adjusted \in Int /\ month \in {0, 1} /\ Boundary \in Int
           /\ \A b \in journal.pending : b.at \in Int
           /\ \A p \in Proc : proc[p].at \in Int
BY BoundsAssumption DEF TypeOK, Time, NotYet, Batch, Process

\* A month that begins makes no sample too old but those of the month before.
LEMMA MonthStep ==
    ASSUME TypeOK, Calendar, month' = Month(now), adjusted' = MonthAdjusted, now' = now
    PROVE  Calendar' /\ \A at \in Int : at <= now /\ Timely(at) => Timely(at)'
<1>1. CASE ResetDue
  <2>1. month = 0 /\ now >= Boundary /\ month' = 1
    BY <1>1, TimesType DEF ResetDue, Month
  <2>2. adjusted' \in Int /\ adjusted' >= adjusted /\ adjusted' >= Boundary - 1
        /\ (adjusted' = adjusted \/ adjusted' = Boundary - 1)
    BY <1>1, TimesType DEF MonthAdjusted, Later
  <2> QED
    BY <2>1, <2>2, TimesType DEF Calendar, Timely
<1>2. CASE ~ResetDue
  <2>1. month' = month /\ adjusted' = adjusted
    BY <1>2, TimesType DEF ResetDue, Month, MonthAdjusted, Calendar
  <2> QED
    BY <2>1 DEF Calendar, Timely
<1> QED
  BY <1>1, <1>2

\* The steps that count, or begin a month, or neither.
LEMMA AdjustedStep ==
    ASSUME TypeOK, Calendar, now' = now,
           \/ UNCHANGED <<month, adjusted>>
           \/ month' = Month(now) /\ adjusted' = MonthAdjusted
    PROVE  Calendar' /\ \A at \in Int : at <= now /\ Timely(at) => Timely(at)'
BY MonthStep DEF Calendar, Timely

LEMMA SamplesFrame ==
    ASSUME TypeOK, Samples, now' = now, UNCHANGED <<sampledAt, prior>>,
           journal'.pending \subseteq journal.pending,
           \A at \in Int : at <= now /\ Timely(at) => Timely(at)'
    PROVE  Samples'
BY TimesType DEF Samples, Journalled

\* The other process is idle.
LEMMA TimesFrame ==
    ASSUME TypeOK, Turns, Times, now' = now, NEW p \in Proc, Alone(p),
           ~At(p, "idle") \/ \A q \in Proc : At(q, "idle"), TimeOf(p)'
    PROVE  Times'
<1>1. ASSUME NEW q \in Proc, q # p PROVE TimeOf(q)'
  <2>1. proc'[q] = proc[q] /\ proc[q].pc = "idle"
    BY <1>1 DEF Turns, Alone, At
  <2> QED
    BY <2>1 DEF Times, TimeOf, Sampling, Reading
<1> QED
  BY <1>1 DEF Times

\* What a process sampled stays in time; it has no sample pending when it finishes.
LEMMA TimeGoesOn ==
    ASSUME TypeOK, Times, NEW p \in Proc, NEW pc, NEW cache, now' = now,
           \A at \in Int : at <= now /\ Timely(at) => Timely(at)',
           \/ /\ GoesOn(p, pc, cache) /\ (pc \in {"finish", "adjust"} => journal'.pending = {})
              /\ pc \in Sampling \cup Reading => proc[p].pc \in Sampling \cup Reading
           \/ Anew(p, pc, cache) /\ pc \in {"idle", "flush"}
    PROVE  TimeOf(p)'
<1>1. CASE Anew(p, pc, cache) /\ pc \in {"idle", "flush"}
  BY <1>1, TimesType DEF Anew, TimeOf, Sampling, Reading
<1>2. CASE /\ GoesOn(p, pc, cache) /\ (pc \in {"finish", "adjust"} => journal'.pending = {})
           /\ pc \in Sampling \cup Reading => proc[p].pc \in Sampling \cup Reading
  <2>1. proc'[p].pc = pc /\ proc'[p].at = proc[p].at /\ proc[p].at <= now /\ proc[p].at \in Int
    BY <1>2, TimesType DEF GoesOn, Times, TimeOf
  <2>2. pc \in Sampling \cup Reading => Timely(proc[p].at)'
    BY <1>2, <2>1 DEF Times, TimeOf, Timely
  <2> QED
    BY <1>2, <2>1, <2>2 DEF TimeOf, GoesOn
<1> QED
  BY <1>1, <1>2

\* The steps that take no sample, write none and reset no account.
LEMMA QuietPeriods ==
    ASSUME TypeOK, Calendar, Samples, NEW p \in Proc,
           \/ Flush(p) \/ Unlink(p) \/ Recover(p) \/ Clear(p) \/ Persist(p) \/ Finish(p)
           \/ Begin(p) \/ Crash(p) \/ \E e \in Endpoint : Read(p, e)
    PROVE  /\ Calendar' /\ Samples' /\ now' = now
           /\ \A at \in Int : at <= now /\ Timely(at) => Timely(at)'
<1>1. now' = now /\ UNCHANGED <<sampledAt, prior>>
  BY DEF Flush, Unlink, Recover, Clear, Persist, Finish, Begin, Crash, Read
<1>2. journal'.pending \subseteq journal.pending
  <2>1. CASE Clear(p)
    BY <2>1, ClearStep DEF TypeOK
  <2> QED
    BY <2>1 DEF Flush, Unlink, Recover, Persist, Finish, Begin, Crash, Read, diskVars
<1>3. \/ UNCHANGED <<month, adjusted>>
      \/ month' = Month(now) /\ adjusted' = MonthAdjusted
  <2>1. CASE Flush(p) \/ Recover(p) \/ Persist(p)
    BY <2>1, FlushStep, RecoverStep, PersistStep DEF Apply, dbVars
  <2>2. CASE Finish(p)
    BY <2>2, FinishStep
  <2> QED
    BY <2>1, <2>2 DEF Unlink, Clear, Begin, Crash, Read, dbVars
<1>4. Calendar' /\ \A at \in Int : at <= now /\ Timely(at) => Timely(at)'
  BY <1>1, <1>3, AdjustedStep
<1> QED
  BY <1>1, <1>2, <1>4, SamplesFrame

\* Of a collection's quiet steps: time stays good.
LEMMA QuietTimes ==
    ASSUME TypeOK, Turns, Calendar, Samples, Times, NEW p \in Proc,
           \/ Flush(p) \/ Unlink(p) \/ Recover(p) \/ Clear(p) \/ Persist(p) \/ Finish(p)
           \/ Begin(p) \/ Crash(p) \/ \E e \in Endpoint : Read(p, e)
    PROVE  Times'
<1>1. now' = now /\ \A at \in Int : at <= now /\ Timely(at) => Timely(at)'
  BY QuietPeriods
<1>2. CASE Flush(p)
  <2>1. /\ proc[p].pc \in {"flush", "flushNew"}
        /\ AfterFlush(proc[p].pc) \notin {"finish", "adjust"}
        /\ AfterFlush(proc[p].pc) \in Sampling \cup Reading => proc[p].pc \in Sampling
        /\ proc[p].pc # "flush" => proc[p].pc \in Sampling
        /\ "unlink" \notin Sampling \cup Reading
    BY <1>2 DEF Flush, AfterFlush, Sampling, Reading
  <2>2. TimeOf(p)'
    BY <1>1, <1>2, <2>1, FlushStep, TimeGoesOn
  <2> QED
    BY <1>1, <1>2, <2>1, <2>2, FlushStep, TimesFrame DEF GoesOn, Anew, At
<1>3. CASE Unlink(p)
  <2>1. /\ proc[p].pc \in {"unlink", "unlinkNew"}
        /\ proc[p].pc # "unlink" => proc[p].pc \in Sampling
        /\ "flush" \notin Sampling \cup Reading
    BY <1>3 DEF Unlink, Sampling, Reading
  <2>2. TimeOf(p)'
    BY <1>1, <1>3, <2>1, UnlinkStep, TimeGoesOn
  <2> QED
    BY <1>1, <1>3, <2>1, <2>2, UnlinkStep, TimesFrame DEF GoesOn, Anew, At
<1>4. CASE Recover(p)
  <2>1. /\ proc[p].pc \in {"recover", "recoverNew"} /\ journal' = journal
        /\ {"sample", "clear", "finish", "clearNew"} \cap (Sampling \cup Reading) = {}
    BY <1>4 DEF Recover, Sampling, Reading, diskVars
  <2>2. TimeOf(p)'
    BY <1>1, <1>4, <2>1, RecoverStep, TimeGoesOn
  <2> QED
    BY <1>1, <1>4, <2>1, <2>2, RecoverStep, TimesFrame DEF GoesOn, Anew, At
<1>5. CASE Clear(p)
  <2>1. /\ proc[p].pc \in {"clear", "clearNew"}
        /\ {"sample", "finish"} \cap (Sampling \cup Reading) = {}
        /\ [journal EXCEPT !.pending = {}].pending = {}
    BY <1>5 DEF Clear, Sampling, Reading, TypeOK
  <2>2. TimeOf(p)'
    BY <1>1, <1>5, <2>1, ClearStep, TimeGoesOn
  <2> QED
    BY <1>1, <1>5, <2>1, <2>2, ClearStep, TimesFrame DEF GoesOn, Anew, At
<1>6. CASE Persist(p)
  <2>1. proc[p].pc = "persist" /\ "persist" \in Sampling
    BY <1>6 DEF Persist, At, Sampling
  <2>2. TimeOf(p)'
    BY <1>1, <1>6, <2>1, PersistStep, TimeGoesOn
  <2> QED
    BY <1>1, <1>6, <2>1, <2>2, PersistStep, TimesFrame DEF GoesOn, Anew, At
<1>7. CASE Finish(p)
  <2>1. /\ proc[p].pc = "finish" /\ journal' = journal /\ journal.pending = {}
        /\ "adjust" \notin Sampling \cup Reading
    BY <1>7 DEF Finish, At, Sampling, Reading, diskVars, Times, TimeOf
  <2>2. TimeOf(p)'
    BY <1>1, <1>7, <2>1, FinishStep, TimeGoesOn
  <2> QED
    BY <1>1, <1>7, <2>1, <2>2, FinishStep, TimesFrame DEF GoesOn, Anew, At
<1>8. CASE Begin(p)
  <2>1. \A q \in Proc : At(q, "idle")
    BY <1>8 DEF Begin
  <2>2. TimeOf(p)'
    <3>1. "flush" \notin Sampling \cup Reading
      BY DEF Sampling, Reading
    <3> QED
      BY <1>1, <1>8, <3>1, BeginStep, TimeGoesOn
  <2> QED
    BY <1>1, <1>8, <2>1, <2>2, BeginStep, TimesFrame DEF GoesOn, Anew
<1>9. CASE Crash(p)
  <2>1. TimeOf(p)'
    BY <1>1, <1>9, CrashStep, TimeGoesOn
  <2> QED
    BY <1>1, <1>9, <2>1, CrashStep, TimesFrame DEF Anew, Crash, At
<1>10. ASSUME NEW e \in Endpoint, Read(p, e) PROVE Times'
  <2>1. /\ proc[p].pc = "read" /\ Alone(p) /\ proc'[p].at = proc[p].at
        /\ proc'[p].pc \in {"read", "save"} /\ UNCHANGED <<now, adjusted, month>>
    BY <1>10, ReadStep DEF Read, At, dbVars
  <2>2. proc[p].at <= now /\ Timely(proc[p].at)
    BY <2>1 DEF Times, TimeOf, Reading
  <2>3. TimeOf(p)'
    BY <2>1, <2>2 DEF TimeOf, Timely
  <2> QED
    BY <2>1, <2>3, TimesFrame DEF At
<1> QED
  BY <1>2, <1>3, <1>4, <1>5, <1>6, <1>7, <1>8, <1>9, <1>10

LEMMA SamplePeriods ==
    ASSUME TypeOK, Turns, Calendar, Samples, Times, NEW p \in Proc, Sample(p)
    PROVE  Calendar' /\ Samples' /\ Times'
<1>1. /\ UNCHANGED <<now, month, adjusted, sampledAt, prior, journal>> /\ proc[p].pc = "sample"
      /\ Alone(p) /\ proc'[p].at = now /\ proc'[p].pc \in {"read", "persist"}
  BY SampleStep DEF Sample, At, diskVars, dbVars
<1>2. Calendar' /\ Samples'
  BY <1>1 DEF Calendar, Samples, Timely, Journalled
<1>3. TimeOf(p)'
  BY <1>1, TimesType DEF TimeOf, Timely, Calendar
<1> QED
  BY <1>1, <1>2, <1>3, TimesFrame DEF At

\* A new sample has the time of its reading, and the last reset has not seen it.
LEMMA SavePeriods ==
    ASSUME TypeOK, Turns, Counters, Readings, Calendar, Samples, Times, NEW p \in Proc, Save(p)
    PROVE  Calendar' /\ Samples' /\ Times'
<1>1. UNCHANGED <<now, month, adjusted, prior>> /\ At(p, "save")
  BY DEF Save, dbVars
<1>2. Calendar' /\ \A at \in Int : Timely(at) => Timely(at)'
  BY <1>1 DEF Calendar, Timely
<1>3. proc[p].at <= now /\ Timely(proc[p].at)
  BY <1>1 DEF Times, TimeOf, Reading, At
<1>4. Times'
  <2>1. "recoverNew" \notin {"finish", "adjust"} \cup Sampling \cup Reading
    BY DEF Sampling, Reading
  <2>2. TimeOf(p)'
    BY <1>1, <1>2, <2>1, SaveStep, TimeGoesOn
  <2> QED
    BY <1>1, <2>2, SaveStep, TimesFrame DEF GoesOn, Anew, At
<1>5. CASE UNCHANGED <<journal, sampledAt>>
  BY <1>1, <1>2, <1>4, <1>5, SamplesFrame
<1>6. ASSUME NEW id \in 0..MaxBatch, journal' = Saved(p, id), sampledAt' = Stamped(p) PROVE Samples'
  <2>1. Journalled' = Journalled \cup Merged(p) /\ Merged(p) \cap Journalled = {}
        /\ Merged(p) \subseteq Unit
    BY <1>1, <1>6, JournalledGrows, MergedIsNew, MergedType
  <2>2. \A b \in journal'.pending : b.items = Merged(p) /\ b.at = proc[p].at
    BY <1>6 DEF Saved
  <2>3. \A u \in Merged(p) : sampledAt'[u] = proc[p].at /\ u \notin prior
    BY <1>6, <2>1 DEF Stamped, Samples
  <2>4. \A b \in journal'.pending : b.at <= now' /\ (b.at >= adjusted' \/ (month' = 1 /\ b.at < Boundary))
    BY <1>1, <1>3, <2>2 DEF Timely
  <2> QED
    BY <1>1, <2>1, <2>2, <2>3, <2>4 DEF Samples, Timely
<1> QED
  BY <1>2, <1>4, <1>5, <1>6, SaveStep

\* A reset finds no sample pending.
LEMMA AdjustPeriods ==
    ASSUME TypeOK, Turns, Calendar, Samples, Times, NEW p \in Proc, Adjust(p)
    PROVE  Calendar' /\ Samples' /\ Times'
<1>1. /\ UNCHANGED <<now, month, journal, sampledAt>> /\ proc[p].pc = "adjust"
      /\ adjusted' = now /\ prior' = Journalled
  BY DEF Adjust, At, diskVars, Journalled
<1>2. Calendar'
  BY <1>1, TimesType DEF Calendar
<1>3. Samples'
  BY <1>1 DEF Samples, Times, TimeOf, Journalled
<1>4. Anew(p, "idle", proc[p].cache)
  BY AdjustStep
<1>5. TimeOf(p)'
  BY <1>1, <1>4, TimesType DEF Anew, TimeOf, Sampling, Reading
<1> QED
  BY <1>1, <1>2, <1>3, <1>4, <1>5, TimesFrame DEF Anew, At

LEMMA UnchargedApply ==
    ASSUME TypeOK, Uncharged, NEW b \in Batch, NEW fresh \in BOOLEAN, Apply(b, fresh)
    PROVE  Uncharged'
<1> SUFFICES ASSUME NEW u \in Unit, physical'[u] = 0 PROVE account'[u] = 0
  BY DEF Uncharged
<1>1. physical[u] \in Nat /\ (b.id \notin applied => u \notin b.items) /\ physical[u] = 0
  BY Additions DEF TypeOK
<1>2. MonthAccount[u] = 0
  BY <1>1 DEF Uncharged, MonthAccount
<1>3. CASE b.id \in applied
  BY <1>2, <1>3 DEF Apply
<1>4. CASE b.id \notin applied
  <2>1. Added(MonthAccount, b.items)[u] = 0
    BY <1>1, <1>2, <1>4 DEF Added, MonthAccount, TypeOK
  <2> QED
    BY <1>2, <1>4, <2>1 DEF Apply
<1> QED
  BY <1>3, <1>4

LEMMA UnchargedStep == TypeOK /\ Uncharged /\ [Next]_vars => Uncharged'
<1> SUFFICES ASSUME TypeOK, Uncharged, [Next]_vars PROVE Uncharged'
  OBVIOUS
<1>1. CASE UNCHANGED <<physical, account>>
  BY <1>1 DEF Uncharged
<1>2. ASSUME NEW p \in Proc, Flush(p) \/ Persist(p) PROVE Uncharged'
  <2>1. Found(p) \subseteq Batch /\ FoundFresh(p) \in BOOLEAN /\ proc[p].cache \subseteq Batch
    BY FoundType, CacheType
  <2> QED
    BY <1>1, <1>2, <2>1, FlushStep, PersistStep, UnchargedApply DEF dbVars
<1>3. ASSUME NEW p \in Proc, Recover(p) PROVE Uncharged'
  <2>1. journal.pending \subseteq Batch
    BY DEF TypeOK
  <2>2. ASSUME NEW b \in journal.pending, Apply(b, b.id = proc[p].fresh) PROVE Uncharged'
    <3>1. (b.id = proc[p].fresh) \in BOOLEAN
      OBVIOUS
    <3> QED
      BY <2>1, <2>2, <3>1, UnchargedApply
  <2> QED
    BY <1>1, <1>3, <2>2, RecoverStep DEF dbVars
<1>4. ASSUME NEW p \in Proc, Finish(p) PROVE Uncharged'
  BY <1>4, FinishStep DEF Finish, MonthAccount, Uncharged
<1>5. ASSUME NEW p \in Proc, Adjust(p) PROVE Uncharged'
  BY <1>5 DEF Adjust, Uncharged
<1> QED
  BY <1>1, <1>2, <1>3, <1>4, <1>5
     DEF Next, Collect, Environment, Tick, Serve, Observe, RestartServer, Crash, Unlink, Clear,
         Sample, Read, Save, Begin, vars, dbVars

LEMMA PeriodsStep ==
    TypeOK /\ Turns /\ Counters /\ Readings /\ Periods /\ [Next]_vars => Periods'
<1> SUFFICES ASSUME TypeOK, Turns, Counters, Readings, Calendar, Samples, Times, Uncharged, [Next]_vars
             PROVE  Calendar' /\ Samples' /\ Times'
  BY UnchargedStep DEF Periods
<1>1. ASSUME NEW p \in Proc, Begin(p) \/ Collect(p) \/ Crash(p)
      PROVE  Calendar' /\ Samples' /\ Times'
  BY <1>1, QuietPeriods, QuietTimes, SamplePeriods, SavePeriods, AdjustPeriods DEF Collect
<1>2. CASE Tick
  <2>1. /\ now' = now + 1
        /\ UNCHANGED <<journal, month, adjusted, proc, sampledAt, prior>>
    BY <1>2 DEF Tick, diskVars, dbVars
  <2>2. Calendar'
    BY <2>1, TimesType DEF Calendar
  <2>3. Samples'
    <3>1. \A b \in journal.pending : b.at <= now' /\ Timely(b.at)
      BY <2>1, TimesType DEF Samples
    <3> QED
      BY <2>1, <3>1 DEF Samples, Timely, Journalled
  <2>4. Times'
    BY <2>1, TimesType DEF Times, TimeOf, Timely
  <2> QED
    BY <2>2, <2>3, <2>4
<1>3. CASE UNCHANGED <<now, journal, month, adjusted, proc, sampledAt, prior>>
  BY <1>3 DEF Calendar, Samples, Times, TimeOf, Timely, Journalled
<1> QED
  BY <1>1, <1>2, <1>3
     DEF Next, Environment, Serve, Observe, RestartServer, vars, diskVars, dbVars

-----------------------------------------------------------------------------
(* The invariant.                                                          *)

LEMMA InvInit == Init => Inv
<1> SUFFICES ASSUME Init PROVE Inv
  OBVIOUS
<1>1. /\ \A p \in Proc : /\ proc[p].pc = "idle" /\ proc[p].cache = {} /\ proc[p].at = 0
                         /\ Unread(p)
      /\ Held = {} /\ Journalled = {} /\ journal.pending = {}
      /\ \A e \in Endpoint : journal.base[e] = NoBaseline
      /\ NoBaseline.epoch = 0 /\ NoBaseline.units = {}
  BY DEF Init, Idle, NoBaseline, Unread, Held, Journalled
<1>2. Turns /\ Books /\ Domains /\ Flushes
  BY <1>1 DEF Init, Turns, At, Books, Domains, Flushes, FlushOf
<1>3. Counters
  BY <1>1 DEF Init, Counters, CarriedBy, Continues, Shown
<1>4. Readings
  BY <1>1 DEF Readings, ReadingOf, Unread, Before, Sampling, Reading
<1>5. Periods
  <2>1. Calendar /\ Samples /\ Uncharged
    BY <1>1, BoundsAssumption DEF Init, Calendar, Samples, Uncharged, NotYet
  <2>2. Times
    BY <1>1 DEF Init, Times, TimeOf, Sampling, Reading
  <2> QED
    BY <2>1, <2>2 DEF Periods
<1> QED
  BY <1>2, <1>3, <1>4, <1>5, TypeInit DEF Inv

LEMMA InvStep == Inv /\ [Next]_vars => Inv'
BY TypeStep, TurnsStep, ReadingsStep, BooksStep, DomainsStep, FlushesStep, PeriodsStep DEF Inv

\* Every reachable state of the two processes, the two files and the database has all
\* parts of the inductive invariant.
THEOREM Invariant == Spec => []Inv
BY InvInit, InvStep, PTL DEF Spec

-----------------------------------------------------------------------------
(* What follows.                                                           *)

\* A file is replaced or removed only when what was in it has been counted.
LEMMA FileKept ==
    ASSUME Inv, [Next]_vars, NEW b \in file, b \notin file'
    PROVE  \A r \in b.items : physical'[r] = 1
<1>1. TypeOK /\ Domains /\ Flushes /\ b \in Held
  BY DEF Inv, Held
<1>2. ASSUME NEW p \in Proc, Unlink(p) PROVE \A r \in b.items : physical'[r] = 1
  <2>1. OwnFile(p) /\ proc[p].pc \in {"unlink", "unlinkNew"} /\ UNCHANGED physical
    BY <1>1, <1>2, UnlinkStep DEF Unlink, dbVars
  <2>2. b.id \in applied
    BY <1>1, <2>1 DEF OwnFile, Flushes, FlushOf
  <2> QED
    BY <1>1, <2>1, <2>2 DEF Domains
<1>3. ASSUME NEW p \in Proc, Persist(p) PROVE FALSE
  BY <1>1, <1>3 DEF Persist, At, Flushes, FlushOf
<1> QED
  BY <1>2, <1>3
     DEF Next, Collect, Environment, Tick, Serve, Observe, RestartServer, Crash, Flush, Recover,
         Clear, Sample, Read, Save, Begin, Finish, Adjust, vars, diskVars

\* A batch of domain records in the file stays there until it has been counted, and
\* no record is counted twice, whoever holds the batch in memory and whoever replaced
\* the file.
THEOREM DomainRecordsOnce == Spec => DomainBatchesCountedOnce
<1>1. ASSUME Inv, [Next]_vars, NEW r \in DomainRecord
      PROVE  physical'[r] <= 1 /\ (r \in InFile /\ r \notin InFile' => physical'[r] = 1)
  <2>1. physical'[r] \in {0, 1}
    BY <1>1, InvStep DEF Inv, Domains
  <2>2. ASSUME r \in InFile, r \notin InFile' PROVE physical'[r] = 1
    <3>1. PICK b \in file : r \in b.items
      BY <2>2 DEF InFile
    <3>2. b \notin file'
      BY <2>2, <3>1 DEF InFile
    <3> QED
      BY <1>1, <3>1, <3>2, FileKept
  <2> QED
    BY <2>1, <2>2
<1>2. Inv /\ [Next]_vars =>
        [\A r \in DomainRecord : /\ physical'[r] <= 1
                               /\ r \in InFile /\ r \notin InFile' => physical'[r] = 1]_vars
  BY <1>1
<1> QED
  BY <1>2, Invariant, PTL DEF Spec, DomainBatchesCountedOnce

\* Only the transaction that counts a sample charges for it, and it knows from the
\* time of the sample and from the adjustments whether it should.
LEMMA ChargedRight ==
    ASSUME Inv, NEW p \in Proc, Recover(p), NEW u \in Unit, physical'[u] > physical[u]
    PROVE  LET mine == u \notin prior /\ Month(sampledAt[u]) = month' IN
             /\ account'[u] > 0 => mine
             /\ mine /\ sampledAt[u] # adjusted => account'[u] > 0
<1>1. TypeOK /\ Books /\ Calendar /\ Samples /\ Uncharged
  BY DEF Inv, Periods
<1>2. physical[u] \in Nat
  BY <1>1 DEF TypeOK
<1>3. PICK b \in journal.pending : Apply(b, b.id = proc[p].fresh)
  BY <1>1, <1>2, RecoverStep DEF dbVars
<1> DEFINE fresh == b.id = proc[p].fresh
<1>4. b \in Batch /\ fresh \in BOOLEAN
  BY <1>1 DEF TypeOK
<1>5. b.id \notin applied /\ u \in b.items
  <2>1. physical'[u] = IF b.id \notin applied /\ u \in b.items THEN physical[u] + 1 ELSE physical[u]
    BY <1>1, <1>3, <1>4, Additions
  <2> QED
    BY <1>2, <2>1
<1>6. /\ sampledAt[u] = b.at /\ u \notin prior /\ b.at <= now /\ Timely(b.at)
      /\ month' = Month(now) /\ MonthAccount \in [Unit -> Nat] /\ MonthAccount[u] = 0
  <2>1. physical[u] = 0 /\ account[u] = 0
    BY <1>1, <1>5 DEF Books, Uncharged
  <2> QED
    BY <1>1, <1>3, <1>5, <2>1 DEF Samples, Apply, MonthAccount, TypeOK
<1>7. account'[u] > 0 <=> Charged(b, fresh)
  <2>1. Added(MonthAccount, b.items)[u] = 1
    BY <1>5, <1>6 DEF Added
  <2>2. account' = IF Charged(b, fresh) THEN Added(MonthAccount, b.items) ELSE MonthAccount
    BY <1>3, <1>5 DEF Apply
  <2> QED
    BY <1>6, <2>1, <2>2
<1>8. Charged(b, fresh) => Month(b.at) = Month(now)
  <2>1. b.at > MonthAdjusted /\ Month(now) = 1 => b.at >= Boundary
    BY <1>1, TimesType DEF MonthAdjusted, ResetDue, Month, Later, Calendar
  <2> QED
    BY <1>1, <1>6, <2>1, TimesType DEF Charged, Month
<1>9. Month(b.at) = Month(now) /\ b.at # adjusted => Charged(b, fresh)
  <2> SUFFICES ASSUME Month(b.at) = Month(now), b.at # adjusted PROVE b.at > MonthAdjusted
    BY DEF Charged
  <2>1. b.at > adjusted
    BY <1>1, <1>6, TimesType DEF Timely, Calendar, Month
  <2>2. ResetDue => b.at >= Boundary
    BY <1>1, TimesType DEF ResetDue, Month
  <2> QED
    BY <1>1, <2>1, <2>2, TimesType DEF MonthAdjusted, Later
<1> QED
  BY <1>6, <1>7, <1>8, <1>9

\* Outside Recover no unit is counted.
LEMMA OnlyRecoverCounts ==
    ASSUME Inv, [Next]_vars, ~\E p \in Proc : Recover(p), NEW u \in Unit
    PROVE  physical'[u] = physical[u]
<1>1. TypeOK /\ Domains
  BY DEF Inv
<1>2. ASSUME NEW b \in Held, NEW fresh \in BOOLEAN, Apply(b, fresh) PROVE physical'[u] = physical[u]
  <2>1. b \in Batch /\ u \notin b.items
    BY <1>1, HeldType, BoundsAssumption DEF Domains
  <2> QED
    BY <1>1, <1>2, <2>1, Additions
<1>3. ASSUME NEW p \in Proc, Flush(p) \/ Persist(p) PROVE physical'[u] = physical[u]
  <2>1. Found(p) \subseteq Held /\ FoundFresh(p) \in BOOLEAN /\ proc[p].cache \subseteq Held
    BY <1>1, FoundType DEF Held
  <2> QED
    BY <1>1, <1>2, <1>3, <2>1, FlushStep, PersistStep DEF dbVars
<1> QED
  BY <1>3
     DEF Next, Collect, Environment, Tick, Serve, Observe, RestartServer, Crash, Unlink, Clear,
         Sample, Read, Save, Begin, Finish, Adjust, vars, dbVars

\* A unit is charged exactly to the period it was sampled in, across resets, months
\* and crashes between its sample and its transaction.
THEOREM ChargedOnce == Spec => ChargedToItsPeriod
<1>1. Inv /\ [Next]_vars =>
        [\A u \in Unit : physical'[u] > physical[u] =>
           LET mine == u \notin prior /\ Month(sampledAt[u]) = month' IN
             /\ account'[u] > 0 => mine
             /\ mine /\ sampledAt[u] # adjusted => account'[u] > 0]_vars
  <2> SUFFICES ASSUME Inv, [Next]_vars, NEW u \in Unit, physical'[u] > physical[u]
               PROVE  LET mine == u \notin prior /\ Month(sampledAt[u]) = month' IN
                        /\ account'[u] > 0 => mine
                        /\ mine /\ sampledAt[u] # adjusted => account'[u] > 0
    OBVIOUS
  <2>1. physical[u] \in Nat
    BY DEF Inv, TypeOK
  <2>2. PICK p \in Proc : Recover(p)
    BY <2>1, OnlyRecoverCounts
  <2> QED
    BY <2>2, ChargedRight
<1> QED
  BY <1>1, Invariant, PTL DEF Spec, ChargedToItsPeriod

-----------------------------------------------------------------------------
(* The refinement.                                                         *)

\* Units that a server still shows, or that are being read.
InReach == (UNION {counter[e] : e \in Endpoint})
             \cup (UNION {proc[p].got[e].units : p \in Proc, e \in Endpoint})

LEMMA GoneIs == Gone = served \ (Journalled \cup InReach)
BY DEF Gone, InReach

\* A step that records and counts nothing can only lose traffic.
LEMMA LosingStep ==
    ASSUME TypeOK, UNCHANGED <<served, sampledAt>>, \A u \in Unit : physical'[u] = physical[u],
           InReach' \subseteq InReach
    PROVE  Abstract!LedgerNext
<1>1. Journalled' = Journalled
  BY DEF Journalled
<1>2. (Gone = served \ (Journalled \cup InReach))'
  BY DEF Gone, InReach
<1>3. Gone' = Gone \cup (Gone' \ Gone) /\ Gone' \ Gone \subseteq served \ Journalled
  BY <1>1, <1>2, GoneIs
<1>4. Abstract!Lose(Gone' \ Gone) /\ Gone' \ Gone \in SUBSET Unit
  BY <1>1, <1>3 DEF Abstract!Lose, TypeOK
<1> QED
  BY <1>4 DEF Abstract!LedgerNext

LEMMA InReachStep ==
    ASSUME TypeOK, UNCHANGED counter, NEW p \in Proc, NEW pc, NEW cache,
           GoesOn(p, pc, cache) \/ Anew(p, pc, cache)
    PROVE  InReach' \subseteq InReach
<1>1. \A q \in Proc, e \in Endpoint :
        proc'[q].got[e].units \subseteq proc[q].got[e].units
  BY DEF GoesOn, Anew, Alone, Unread
<1> QED
  BY <1>1 DEF InReach

\* The write of a sample records what was read since the baselines.
LEMMA SaveImplements == ASSUME Inv, NEW p \in Proc, Save(p) PROVE Abstract!LedgerNext
<1>1. TypeOK /\ Counters /\ Readings /\ At(p, "save") /\ UNCHANGED <<served, counter, physical>>
  BY DEF Inv, Save, hysteriaVars, dbVars
<1>2. CASE UNCHANGED <<journal, sampledAt>> /\ Anew(p, "idle", proc[p].cache)
  BY <1>1, <1>2, LosingStep, InReachStep
<1>3. ASSUME sampledAt' = Stamped(p), GoesOn(p, "recoverNew", proc[p].cache) \/ Anew(p, "idle", proc[p].cache)
      PROVE  Abstract!LedgerNext
  <2>1. /\ Journalled' = Journalled \cup Merged(p) /\ Merged(p) \cap Journalled = {}
        /\ Merged(p) \subseteq served /\ Merged(p) \in SUBSET Unit
        /\ \A e \in Endpoint : proc[p].got[e].units \subseteq Journalled'
    BY <1>1, <1>3, JournalledGrows, MergedIsNew, MergedType
  <2>2. Merged(p) \subseteq InReach
    BY <1>1 DEF Merged, Delta, InReach
  <2>3. InReach' \subseteq InReach /\ InReach \subseteq InReach' \cup Journalled'
    <3>1. InReach' \subseteq InReach
      BY <1>1, <1>3, InReachStep
    <3>2. \A q \in Proc, e \in Endpoint :
            proc[q].got[e].units \subseteq proc'[q].got[e].units \cup Journalled'
      BY <1>3, <2>1 DEF GoesOn, Anew, Alone
    <3> QED
      BY <1>1, <3>1, <3>2 DEF InReach
  <2>4. Gone' = Gone
    <3>1. (Gone = served \ (Journalled \cup InReach))'
      BY DEF Gone, InReach
    <3> QED
      BY <1>1, <2>1, <2>2, <2>3, <3>1, GoneIs
  <2>5. Abstract!Record(Merged(p))
    BY <1>1, <2>1, <2>2, <2>4, GoneIs DEF Abstract!Record
  <2> QED
    BY <2>1, <2>5 DEF Abstract!LedgerNext
<1> QED
  BY <1>1, <1>2, <1>3, SaveStep

\* The transaction of a sample counts it, if its id is new.
LEMMA RecoverImplements == ASSUME Inv, NEW p \in Proc, Recover(p) PROVE Abstract!LedgerNext
<1>1. TypeOK /\ Books /\ UNCHANGED <<served, counter, sampledAt>>
  BY DEF Inv, Recover, hysteriaVars
<1>2. InReach' \subseteq InReach
  BY <1>1, RecoverStep, InReachStep
<1>3. CASE \A u \in Unit : physical'[u] = physical[u]
  BY <1>1, <1>2, <1>3, LosingStep
<1>4. ASSUME NEW b \in journal.pending, Apply(b, b.id = proc[p].fresh), b.id \notin applied,
             GoesOn(p, IF proc[p].pc = "recover" THEN "clear" ELSE "clearNew", proc[p].cache)
      PROVE  Abstract!LedgerNext
  <2>1. b \in Batch /\ (b.id = proc[p].fresh) \in BOOLEAN /\ Journalled' = Journalled
    BY <1>1 DEF TypeOK, Journalled
  <2>2. \A u \in Unit : physical'[u] = IF u \in b.items THEN physical[u] + 1 ELSE physical[u]
    BY <1>1, <1>4, <2>1, Additions
  <2>3. b.items \subseteq Journalled /\ b.items \in SUBSET Unit /\ \A u \in b.items : physical[u] = 0
    BY <1>1, <1>4 DEF Books, Journalled
  <2>4. InReach' = InReach
    BY <1>1, <1>4 DEF InReach, GoesOn, Alone
  <2>5. Gone' = Gone
    BY <1>1, <2>1, <2>4, GoneIs DEF Gone, InReach
  <2>6. Abstract!Count(b.items)
    BY <1>1, <2>1, <2>2, <2>3, <2>5 DEF Abstract!Count
  <2> QED
    BY <2>3, <2>6 DEF Abstract!LedgerNext
<1>5. ASSUME NEW b \in journal.pending, Apply(b, b.id = proc[p].fresh), b.id \in applied
      PROVE  \A u \in Unit : physical'[u] = physical[u]
  BY <1>5 DEF Apply
<1>6. CASE UNCHANGED dbVars
  BY <1>3, <1>6 DEF dbVars
<1>7. ASSUME NEW b \in journal.pending, Apply(b, b.id = proc[p].fresh),
             GoesOn(p, IF proc[p].pc = "recover" THEN "clear" ELSE "clearNew", proc[p].cache)
      PROVE  Abstract!LedgerNext
  <2>1. CASE b.id \in applied
    BY <1>3, <1>5, <1>7, <2>1
  <2>2. CASE b.id \notin applied
    BY <1>4, <1>7, <2>2
  <2> QED
    BY <2>1, <2>2
<1> QED
  BY <1>1, <1>6, <1>7, RecoverStep

LEMMA EnvironmentImplements == ASSUME Inv, Environment PROVE Abstract!LedgerNext
<1>0. TypeOK /\ Counters
  BY DEF Inv
<1>1. ASSUME NEW u \in Unit, Serve(u) PROVE Abstract!LedgerNext
  <2>1. /\ u \notin served /\ served' = served \cup {u}
        /\ UNCHANGED <<proc, sampledAt, physical>> /\ Journalled' = Journalled
        /\ counter' = [counter EXCEPT ![Route[u]] = @ \cup {u}]
    BY <1>1 DEF Serve, dbVars, Journalled
  <2>2. \A e \in Endpoint : counter'[e] = IF e = Route[u] THEN counter[e] \cup {u} ELSE counter[e]
    BY <1>0, <2>1, BoundsAssumption DEF TypeOK
  <2>3. InReach' = InReach \cup {u}
    <3>1. Route[u] \in Endpoint /\ u \in counter'[Route[u]]
      BY <2>2, BoundsAssumption
    <3>2. \A e \in Endpoint : counter[e] \subseteq counter'[e] /\ counter'[e] \subseteq counter[e] \cup {u}
      BY <2>2
    <3>3. (UNION {counter'[e] : e \in Endpoint}) = (UNION {counter[e] : e \in Endpoint}) \cup {u}
      BY <3>1, <3>2
    <3> QED
      BY <2>1, <3>3 DEF InReach
  <2>4. Gone' = Gone
    <3>1. (Gone = served \ (Journalled \cup InReach))'
      BY DEF Gone, InReach
    <3> QED
      BY <2>1, <2>3, <3>1, GoneIs
  <2>5. Abstract!Carry(u)
    BY <2>1, <2>4 DEF Abstract!Carry
  <2> QED
    BY <2>5 DEF Abstract!LedgerNext
<1>2. ASSUME NEW e \in Endpoint, RestartServer(e) PROVE Abstract!LedgerNext
  <2>1. /\ UNCHANGED <<served, sampledAt, physical, proc>>
        /\ \A f \in Endpoint : counter'[f] \subseteq counter[f]
    BY <1>0, <1>2 DEF RestartServer, TypeOK, dbVars
  <2>2. InReach' \subseteq InReach
    BY <2>1 DEF InReach
  <2> QED
    BY <1>0, <2>1, <2>2, LosingStep
<1>3. ASSUME NEW p \in Proc, Crash(p) PROVE Abstract!LedgerNext
  BY <1>0, <1>3, CrashStep, InReachStep, LosingStep DEF Crash, hysteriaVars, dbVars
<1>4. CASE UNCHANGED <<served, counter, sampledAt, physical, proc>>
  BY <1>0, <1>4, LosingStep DEF InReach
<1> QED
  BY <1>1, <1>2, <1>3, <1>4
     DEF Environment, Tick, Observe, hysteriaVars, diskVars, dbVars

\* Every step of the two processes is a step of the ledger or a stutter.
LEMMA StepImplements ==
    ASSUME Inv, [Next]_vars PROVE [Abstract!LedgerNext]_(Abstract!ledgerVars)
<1>0. TypeOK
  BY DEF Inv
<1>1. ASSUME NEW p \in Proc,
             \/ Flush(p) \/ Unlink(p) \/ Clear(p) \/ Persist(p) \/ Finish(p) \/ Adjust(p) \/ Begin(p)
      PROVE  Abstract!LedgerNext
  <2>1. UNCHANGED <<served, counter, sampledAt>>
    BY <1>1 DEF Flush, Unlink, Clear, Persist, Finish, Adjust, Begin, hysteriaVars
  <2>2. \A u \in Unit : physical'[u] = physical[u]
    <3>1. CASE Flush(p) \/ Persist(p)
      <4>1. Found(p) \subseteq Held /\ FoundFresh(p) \in BOOLEAN /\ proc[p].cache \subseteq Held
        BY <1>0, FoundType DEF Held
      <4>2. ASSUME NEW b \in Held, NEW fresh \in BOOLEAN, Apply(b, fresh)
            PROVE  \A u \in Unit : physical'[u] = physical[u]
        <5>1. b \in Batch /\ b.items \subseteq DomainRecord
          BY <1>0, HeldType DEF Inv, Domains
        <5> QED
          BY <1>0, <4>2, <5>1, Additions, BoundsAssumption
      <4> QED
        BY <1>0, <3>1, <4>1, <4>2, FlushStep, PersistStep DEF dbVars
    <3> QED
      BY <1>1, <3>1 DEF Unlink, Clear, Finish, Adjust, Begin, dbVars
  <2>3. InReach' \subseteq InReach
    BY <1>0, <1>1, <2>1, InReachStep, FlushStep, UnlinkStep, ClearStep, PersistStep, FinishStep,
       AdjustStep, BeginStep
  <2> QED
    BY <1>0, <2>1, <2>2, <2>3, LosingStep
<1>2. ASSUME NEW p \in Proc, Sample(p) PROVE Abstract!LedgerNext
  <2>1. UNCHANGED <<served, counter, sampledAt, physical>>
    BY <1>2 DEF Sample, dbVars
  <2>2. \A q \in Proc : proc'[q].got = proc[q].got
    BY <1>0, <1>2, SampleStep DEF Alone
  <2> QED
    BY <1>0, <2>1, <2>2, LosingStep DEF InReach
<1>3. ASSUME NEW p \in Proc, NEW e \in Endpoint, Read(p, e) PROVE Abstract!LedgerNext
  <2>1. UNCHANGED <<served, counter, sampledAt, physical>>
    BY <1>3 DEF Read, hysteriaVars, dbVars
  <2>2. \A q \in Proc, f \in Endpoint :
          proc'[q].got[f].units \subseteq proc[q].got[f].units \cup counter[f]
    <3>1. Alone(p) /\ proc[p].got \in [Endpoint -> Baseline]
          /\ \/ proc'[p].got = [proc[p].got EXCEPT ![e] = Shown(e)]
             \/ proc'[p].got = proc[p].got
      BY <1>0, <1>3, ReadStep DEF TypeOK, Process
    <3> QED
      BY <3>1 DEF Alone, Shown
  <2>3. InReach' \subseteq InReach
    BY <2>1, <2>2 DEF InReach
  <2> QED
    BY <1>0, <2>1, <2>3, LosingStep
<1>4. CASE UNCHANGED vars
  BY <1>4 DEF vars, hysteriaVars, dbVars, Abstract!ledgerVars, Gone, Journalled
<1> QED
  BY <1>1, <1>2, <1>3, <1>4, SaveImplements, RecoverImplements, EnvironmentImplements
     DEF Next, Collect

\* Two processes, two files and a database implement the abstract ledger: what is
\* journalled is counted at most once, and only a server's restart loses traffic.
THEOREM Refinement == Spec => ImplementsTrafficLedger
<1>1. Init => Abstract!LedgerInit
  BY DEF Init, Abstract!LedgerInit, Gone, Journalled
<1> QED
  BY <1>1, StepImplements, Invariant, PTL DEF Spec, ImplementsTrafficLedger, Abstract!LedgerSpec
=============================================================================
