------------------------- MODULE RestoreTransaction -------------------------
(***************************************************************************)
(* Restoring the panel host from an uploaded archive: the upload by the     *)
(* panel, the restore unit that replaces database, certificate, key and     *)
(* environment, the recovery unit every start of panel and servers needs,   *)
(* and the resume unit that closes the transaction once they are healthy.   *)
(*                                                                         *)
(* An identity is the number of the archive it came from, 0 being the one   *)
(* of the installation; the database also holds the administrator's edits.  *)
(***************************************************************************)
EXTENDS Naturals, Sequences

CONSTANTS
    MaxUploads,    \* bound: archives uploaded
    MaxEdits,      \* bound: edits made under one identity
    FaultMixes     \* bound: how often each kind happens; a run stays in one mix

Service == {"panel", "server"}
File == {"db", "cert", "key", "env"}
Id == 0..MaxUploads
Proc == {"restore", "recover", "resume"}
FaultKind == {"power", "kill", "disk", "crash", "refused", "drain", "unit", "queue"}

ASSUME ConstantsAssumption ==
    /\ MaxUploads \in Nat /\ MaxEdits \in Nat
    /\ FaultMixes \subseteq [FaultKind -> Nat]

VARIABLES
    disk,       \* the managed files and, apart, the edits in the database
    pending,    \* backup-restore/pending-restore.zip: the archive, 0 for none
    captured,   \* .restore-active.archive, root's copy of it
    marker,     \* .restore-active, the transaction record
    upload,     \* the panel's request handler
    proc,       \* the three units
    job,        \* services whose start job waits ...
    cleared,    \* ... and those among them the recovery unit has let through
    up,         \* services that run
    seen,       \* history: identity and edits of the last state a panel served
    spent       \* faults that have happened

vars == <<disk, pending, captured, marker, upload, proc, job, cleared, up, seen, spent>>
units == <<job, cleared, up, seen>>
archives == <<pending, captured>>

-----------------------------------------------------------------------------
(* Data.                                                                   *)

Image == [File \cup {"edits"} -> Nat]
ImageOf(id) == [x \in File \cup {"edits"} |-> IF x = "edits" THEN 0 ELSE id]
Whole(image) == \A f \in File : image[f] = image["db"]

Record == [phase : {"none", "queued", "prepared", "disk-consistent", "services-pending"},
           outcome : {"none", "applied", "rolled-back"}, old : Image, archive : Id]
NoRecord == [phase |-> "none", outcome |-> "none", old |-> ImageOf(0), archive |-> 0]

\* `left': the files a loop has still to write; `rec': the record in memory;
\* `handling': the restore is in its exception handler.
Order == <<"db", "cert", "key", "env">>
Process == [pc : {"off", "wait", "capture", "validate", "reject", "discard", "mark", "consume",
                  "panel", "settle", "servers", "prepare", "apply", "verify", "undo", "undone",
                  "applied", "drop", "reconcile", "rollback", "outcome",
                  "quarantine", "unpend", "pass", "orphans", "wanted", "health", "post"},
            left : {SubSeq(Order, i, 4) : i \in 1..5}, rec : Record, handling : BOOLEAN]
Idle == [pc |-> "off", left |-> <<>>, rec |-> NoRecord, handling |-> FALSE]

Init ==
    /\ disk = ImageOf(0) /\ pending = 0 /\ captured = 0 /\ marker = NoRecord
    /\ upload = [pc |-> "off", id |-> 0]
    /\ proc = [p \in Proc |-> Idle]
    /\ job = {} /\ cleared = {} /\ up = Service
    /\ seen = [id |-> 0, edits |-> 0]
    /\ spent = [k \in FaultKind |-> 0]

Fault(k) ==
    /\ spent' = [spent EXCEPT ![k] = @ + 1]
    /\ \E mix \in FaultMixes : \A j \in FaultKind : spent'[j] <= mix[j]

At(p, pc) == proc[p].pc = pc
Goto(p, pc) == proc' = [proc EXCEPT ![p].pc = pc]

\* The maintenance lock; an upload holds it shared while it is received.
Holds(p) == proc[p].pc \notin {"off", "wait", "wanted", "post"}
LockFree == upload.pc # "receive" /\ \A p \in Proc : ~Holds(p)

\* Start jobs are queued; each pulls the recovery unit in anew.
Enqueue(S) == job' = job \cup S /\ cleared' = {}

\* What systemd can start at once it has started: the restore unit takes seconds
\* to get to the steps that ask for this.
Prompt == cleared = {} /\ ~(At("resume", "wanted") /\ job = {})

\* Where an exception leads.  apply_archive rolls back what it began to replace;
\* the handler of restore_pending reconciles by the record on disk.
Raised(p) ==
    LET s == proc[p]
        handled == \/ s.pc \in {"panel", "settle", "servers", "prepare", "undo", "undone", "applied", "drop"}
                   \/ /\ p = "restore" /\ ~s.handling
                      /\ s.pc \notin {"capture", "validate", "reject", "discard", "mark", "consume"}
    IN  IF s.pc \in {"apply", "verify"} THEN [s EXCEPT !.pc = "undo", !.left = Order]
        ELSE IF handled THEN [s EXCEPT !.pc = "reconcile", !.handling = TRUE]
        ELSE IF p = "restore" THEN [Idle EXCEPT !.pc = "post"] ELSE Idle

\* A recovery unit that fails takes the start jobs it was needed for with it.
Fail(p) ==
    /\ proc' = [proc EXCEPT ![p] = Raised(p)]
    /\ job' = IF p = "recover" THEN job \cap cleared ELSE job
    /\ UNCHANGED <<cleared, up, seen>>

\* A file was replaced, moved or removed; the directory sync may still fail.
Done(p, next) ==
    \/ proc' = [proc EXCEPT ![p] = next] /\ UNCHANGED <<units, spent>>
    \/ Fail(p) /\ Fault("disk")

DoneAt(p, pc) == Done(p, [proc[p] EXCEPT !.pc = pc])
Replaced(p, pc) ==
    Done(p, [proc[p] EXCEPT !.left = Tail(@), !.pc = IF Len(proc[p].left) = 1 THEN pc ELSE @])

\* The database is replaced with the edits it holds.
Take(f, from) ==
    disk' = [x \in DOMAIN disk |-> IF x = f \/ (f = "db" /\ x = "edits") THEN from[x] ELSE disk[x]]

-----------------------------------------------------------------------------
(* The panel: edits, and the upload of an archive.                         *)

Edit ==
    /\ "panel" \in up /\ disk["edits"] < MaxEdits
    /\ disk' = [disk EXCEPT !["edits"] = @ + 1]
    /\ seen' = [id |-> disk["db"], edits |-> disk["edits"] + 1]
    /\ UNCHANGED <<archives, marker, upload, proc, job, cleared, up, spent>>

\* The shared lock is refused while maintenance holds it, the upload while a
\* restore is unfinished.
BeginUpload ==
    /\ "panel" \in up /\ upload.pc = "off" /\ upload.id < MaxUploads
    /\ \A p \in Proc : ~Holds(p)
    /\ marker.phase = "none"
    /\ upload' = [pc |-> "receive", id |-> upload.id + 1]
    /\ UNCHANGED <<disk, archives, marker, proc, units, spent>>

\* The archive is linked to its fixed name unless one is already there.
Link ==
    /\ upload.pc = "receive"
    /\ pending' = IF pending = 0 THEN upload.id ELSE pending
    /\ upload' = [upload EXCEPT !.pc = IF pending = 0 THEN "queue" ELSE "off"]
    /\ UNCHANGED <<disk, captured, marker, proc, units, spent>>

\* The restore unit is started; a call that times out may have started it.
Queue ==
    /\ upload.pc = "queue" /\ ~At("restore", "post")
    /\ \/ upload' = [upload EXCEPT !.pc = "off"] /\ UNCHANGED spent
       \/ upload' = [upload EXCEPT !.pc = "unlink"] /\ Fault("queue")
    /\ \/ proc' = [proc EXCEPT !["restore"].pc = IF @ = "off" THEN "wait" ELSE @]
       \/ upload'.pc = "unlink" /\ UNCHANGED proc
    /\ UNCHANGED <<disk, archives, marker, units>>

UnlinkUpload ==
    /\ upload.pc = "unlink"
    /\ pending' = 0 /\ upload' = [upload EXCEPT !.pc = "off"]
    /\ UNCHANGED <<disk, captured, marker, proc, units, spent>>

-----------------------------------------------------------------------------
(* restore_pending: everything under the exclusive lock, signals deferred.  *)

\* A unit gets the lock and looks at the record.  A second restore is refused;
\* the resume unit wants the files to have passed the recovery.
Acquire(p) ==
    /\ At(p, "wait") /\ LockFree
    /\ proc' = [proc EXCEPT ![p] =
         CASE p = "restore" -> [Idle EXCEPT !.pc = IF marker.phase = "none" THEN "capture" ELSE "post"]
           [] p = "recover" -> [Idle EXCEPT !.pc = IF marker.phase = "none" THEN "orphans" ELSE "reconcile"]
           [] p = "resume" -> IF marker.phase = "services-pending" THEN [Idle EXCEPT !.pc = "health"] ELSE Idle]
    /\ UNCHANGED <<disk, archives, marker, upload, units, spent>>

\* The archive is copied to a place only root writes.  The upload may be gone.
Capture(p) ==
    /\ At(p, "capture") /\ Prompt
    /\ IF pending = 0 THEN Fail(p) /\ UNCHANGED <<captured, spent>>
       ELSE captured' = pending /\ DoneAt(p, "validate")
    /\ UNCHANGED <<disk, pending, marker, upload>>

Validate(p) ==
    /\ At(p, "validate")
    /\ \/ Goto(p, "mark") /\ UNCHANGED spent
       \/ Goto(p, "reject") /\ Fault("refused")
    /\ UNCHANGED <<disk, archives, marker, upload, units>>

\* A refused archive is put aside and the upload removed, if it is the same.
Reject(p) ==
    /\ At(p, "reject")
    /\ captured' = 0
    /\ DoneAt(p, "discard")
    /\ UNCHANGED <<disk, pending, marker, upload>>

Discard(p) ==
    /\ At(p, "discard")
    /\ pending' = 0
    /\ Done(p, [Idle EXCEPT !.pc = "post"])
    /\ UNCHANGED <<disk, captured, marker, upload>>

Mark(p) ==
    /\ At(p, "mark")
    /\ marker' = [NoRecord EXCEPT !.phase = "queued", !.archive = captured]
    /\ DoneAt(p, "consume")
    /\ UNCHANGED <<disk, archives, upload>>

\* The upload is renamed and removed; a panel that gave up may have been first.
Consume(p) ==
    /\ At(p, "consume")
    /\ IF pending = 0 THEN Fail(p) /\ UNCHANGED spent ELSE DoneAt(p, "panel")
    /\ pending' = 0
    /\ UNCHANGED <<disk, captured, marker, upload>>

\* The panel gets SIGTERM and twelve seconds; it is not restarted.
StopPanel(p) ==
    /\ At(p, "panel")
    /\ IF "panel" \in up
       THEN /\ up' = up \ {"panel"} /\ upload' = [upload EXCEPT !.pc = "off"]
            /\ Goto(p, "settle")
            /\ UNCHANGED <<job, cleared, seen>>
       ELSE Fail(p) /\ UNCHANGED upload
    /\ UNCHANGED <<disk, archives, marker, spent>>

\* The sessions are kicked and the last traffic collected from a running server.
Settle(p) ==
    /\ At(p, "settle")
    /\ \/ "server" \in up /\ Goto(p, "servers") /\ UNCHANGED <<units, spent>>
       \/ "server" \notin up /\ Fail(p) /\ UNCHANGED spent
       \/ Fail(p) /\ Fault("drain")
    /\ UNCHANGED <<disk, archives, marker, upload>>

\* Everything is stopped, a restart that waits for the recovery may be called off.
StopServices(p) ==
    /\ At(p, "servers") /\ Prompt
    /\ up' = {} /\ job' \in {job, {}}
    /\ Goto(p, "prepare")
    /\ UNCHANGED <<disk, archives, marker, upload, cleared, seen, spent>>

\* Panel or servers are not seen to stop; some of them may have, or do so later.
StopFails(p) ==
    /\ At(p, "panel") \/ At(p, "servers")
    /\ Fault("unit")
    /\ proc' = [proc EXCEPT ![p] = Raised(p)]
    /\ up' \in SUBSET up
    /\ upload' = IF "panel" \in up' THEN upload ELSE [upload EXCEPT !.pc = "off"]
    /\ UNCHANGED <<disk, archives, marker, job, cleared, seen>>

\* Faulty: the files are replaced before the record says so.
PrepareMutNoRecord(p) ==
    /\ At(p, "prepare")
    /\ \/ /\ UNCHANGED marker
          /\ Done(p, [proc[p] EXCEPT !.pc = "apply", !.left = Order])
       \/ Fail(p) /\ Fault("refused") /\ UNCHANGED marker
    /\ UNCHANGED <<disk, archives, upload>>

\* apply_archive: the current files are backed up, the record says so.
Prepare(p) ==
    /\ At(p, "prepare")
    /\ \/ /\ marker' = [marker EXCEPT !.phase = "prepared", !.old = disk]
          /\ Done(p, [proc[p] EXCEPT !.pc = "apply", !.left = Order])
       \/ Fail(p) /\ Fault("refused") /\ UNCHANGED marker
    /\ UNCHANGED <<disk, archives, upload>>

Apply(p) ==
    /\ At(p, "apply")
    /\ Take(Head(proc[p].left), ImageOf(marker.archive))
    /\ Replaced(p, "verify")
    /\ UNCHANGED <<archives, marker, upload>>

\* The files are compared with the archive where they now are.
Verify(p) ==
    /\ At(p, "verify")
    /\ \/ Goto(p, "applied") /\ UNCHANGED <<units, spent>>
       \/ Fail(p) /\ Fault("refused")
    /\ UNCHANGED <<disk, archives, marker, upload>>

Undo(p) ==
    /\ At(p, "undo")
    /\ Take(Head(proc[p].left), marker.old)
    /\ Replaced(p, "undone")
    /\ UNCHANGED <<archives, marker, upload>>

\* The rollback is recorded, then the exception goes on to the handler.
Undone(p) ==
    /\ At(p, "undone")
    /\ marker' = [marker EXCEPT !.phase = "disk-consistent", !.outcome = "rolled-back"]
    /\ Fail(p)
    /\ UNCHANGED <<disk, archives, upload, spent>>

Applied(p) ==
    /\ At(p, "applied")
    /\ marker' = [marker EXCEPT !.phase = "disk-consistent", !.outcome = "applied"]
    /\ DoneAt(p, "drop")
    /\ UNCHANGED <<disk, archives, upload>>

Drop(p) ==
    /\ At(p, "drop")
    /\ captured' = 0
    /\ DoneAt(p, "reconcile")
    /\ UNCHANGED <<disk, pending, marker, upload>>

-----------------------------------------------------------------------------
(* _reconcile_to_services_pending, by the restore unit, its handler, or the  *)
(* recovery unit.                                                          *)

RolledBack(image) == [marker EXCEPT !.phase = "disk-consistent", !.outcome = "rolled-back", !.old = image]
IsApplied == disk = ImageOf(marker.archive)

\* Faulty: a restore that replaced nothing is rolled back as well.
ReconcileMutRollsBack(p) ==
    /\ At(p, "reconcile")
    /\ LET go(pc, rec) == /\ proc' = [proc EXCEPT ![p].pc = pc, ![p].rec = rec, ![p].left = Order]
                          /\ UNCHANGED units
       IN CASE marker.phase = "services-pending" -> go("quarantine", marker)
            [] marker.phase = "queued" ->
                 go("rollback", RolledBack(marker.old))
            [] marker.phase = "prepared" ->
                 IF IsApplied
                 THEN go("outcome", [marker EXCEPT !.phase = "disk-consistent", !.outcome = "applied"])
                 ELSE go("rollback", RolledBack(marker.old))
            [] marker.phase = "disk-consistent" ->
                 IF IF marker.outcome = "applied" THEN IsApplied ELSE disk = marker.old
                 THEN go("quarantine", marker) ELSE Fail(p)
    /\ UNCHANGED <<disk, archives, marker, upload, spent>>

\* Faulty: half-replaced files pass for the old ones.
ReconcileMutTrusts(p) ==
    /\ At(p, "reconcile")
    /\ LET go(pc, rec) == /\ proc' = [proc EXCEPT ![p].pc = pc, ![p].rec = rec, ![p].left = Order]
                          /\ UNCHANGED units
       IN CASE marker.phase = "services-pending" -> go("quarantine", marker)
            [] marker.phase = "queued" ->
                 IF Whole(disk) THEN go("outcome", RolledBack(disk)) ELSE Fail(p)
            [] marker.phase = "prepared" ->
                 IF IsApplied
                 THEN go("outcome", [marker EXCEPT !.phase = "disk-consistent", !.outcome = "applied"])
                 ELSE go("outcome", RolledBack(marker.old))
            [] marker.phase = "disk-consistent" ->
                 IF IF marker.outcome = "applied" THEN IsApplied ELSE disk = marker.old
                 THEN go("quarantine", marker) ELSE Fail(p)
    /\ UNCHANGED <<disk, archives, marker, upload, spent>>

\* Files that nothing was done to must be of one identity; those of a prepared
\* restore are complete or replaced from the backup; a recorded outcome is
\* checked against the files.
Reconcile(p) ==
    /\ At(p, "reconcile")
    /\ LET go(pc, rec) == /\ proc' = [proc EXCEPT ![p].pc = pc, ![p].rec = rec, ![p].left = Order]
                          /\ UNCHANGED units
       IN CASE marker.phase = "services-pending" -> go("quarantine", marker)
            [] marker.phase = "queued" ->
                 IF Whole(disk) THEN go("outcome", RolledBack(disk)) ELSE Fail(p)
            [] marker.phase = "prepared" ->
                 IF IsApplied
                 THEN go("outcome", [marker EXCEPT !.phase = "disk-consistent", !.outcome = "applied"])
                 ELSE go("rollback", RolledBack(marker.old))
            [] marker.phase = "disk-consistent" ->
                 IF IF marker.outcome = "applied" THEN IsApplied ELSE disk = marker.old
                 THEN go("quarantine", marker) ELSE Fail(p)
    /\ UNCHANGED <<disk, archives, marker, upload, spent>>

Rollback(p) ==
    /\ At(p, "rollback")
    /\ Take(Head(proc[p].left), marker.old)
    /\ Replaced(p, "outcome")
    /\ UNCHANGED <<archives, marker, upload>>

Outcome(p) ==
    /\ At(p, "outcome")
    /\ marker' = proc[p].rec
    /\ DoneAt(p, "quarantine")
    /\ UNCHANGED <<disk, archives, upload>>

\* Faulty: root's copy of the archive stays.
QuarantineMutKeeps(p) ==
    /\ At(p, "quarantine")
    /\ UNCHANGED captured
    /\ DoneAt(p, "unpend")
    /\ UNCHANGED <<disk, pending, marker, upload>>

Quarantine(p) ==
    /\ At(p, "quarantine")
    /\ captured' = 0
    /\ DoneAt(p, "unpend")
    /\ UNCHANGED <<disk, pending, marker, upload>>

\* An upload left behind is removed, but only the one the record names.
Unpend(p) ==
    /\ At(p, "unpend")
    /\ IF pending \in {0, marker.archive}
       THEN pending' = 0 /\ DoneAt(p, "pass")
       ELSE Fail(p) /\ UNCHANGED <<pending, spent>>
    /\ UNCHANGED <<disk, captured, marker, upload>>

\* The files may be served: panel and servers that waited can start.
Pass(p) ==
    /\ At(p, "pass")
    /\ marker' = IF marker.phase = "none" THEN marker ELSE [proc[p].rec EXCEPT !.phase = "services-pending"]
    /\ \/ /\ proc' = [proc EXCEPT ![p] = IF p = "restore" THEN [Idle EXCEPT !.pc = "post"] ELSE Idle]
          /\ cleared' = IF p = "recover" THEN job ELSE cleared
          /\ UNCHANGED <<job, up, seen, spent>>
       \/ Fail(p) /\ Fault("disk")
    /\ UNCHANGED <<disk, archives, upload>>

-----------------------------------------------------------------------------
(* recover_restore_files and resume_after_restore.                         *)

\* A start job pulls the recovery in, which needs no lock if nothing is left.
StartRecover ==
    /\ At("recover", "off") /\ job # cleared
    /\ IF marker.phase = "none" /\ pending = 0 /\ captured = 0
       THEN cleared' = job /\ UNCHANGED proc
       ELSE Goto("recover", "wait") /\ UNCHANGED cleared
    /\ UNCHANGED <<disk, archives, marker, upload, job, up, seen, spent>>

\* Archives without a record are put aside.
Orphans(p) ==
    /\ At(p, "orphans")
    /\ IF pending # 0
       THEN pending' = 0 /\ DoneAt(p, "orphans") /\ UNCHANGED captured
       ELSE captured' = 0 /\ DoneAt(p, "pass") /\ UNCHANGED pending
    /\ UNCHANGED <<disk, marker, upload>>

\* Faulty: the resume unit does not want the services.
PostMutOnlyResume ==
    /\ At("restore", "post")
    /\ proc' = [proc EXCEPT !["restore"] = Idle,
                            !["resume"].pc = IF @ = "off" THEN "wanted" ELSE @]
    /\ UNCHANGED <<job, cleared>>
    /\ UNCHANGED <<disk, archives, marker, upload, up, seen, spent>>

\* ExecStopPost of the restore unit: the resume unit wants panel and servers.
Post ==
    /\ At("restore", "post")
    /\ proc' = [proc EXCEPT !["restore"] = Idle,
                            !["resume"].pc = IF @ = "off" THEN "wanted" ELSE @]
    /\ Enqueue(Service \ up)
    /\ UNCHANGED <<disk, archives, marker, upload, up, seen, spent>>

\* The resume unit comes after the start jobs, and only for an open transaction.
Resume(p) ==
    /\ At(p, "wanted") /\ job = {} /\ ~At("restore", "post")
    /\ Goto(p, IF marker.phase = "none" THEN "off" ELSE "wait")
    /\ UNCHANGED <<disk, archives, marker, upload, units, spent>>

\* Two good rounds of probes close the transaction; sixty seconds without, and
\* the unit fails.
Health(p) ==
    /\ At(p, "health")
    /\ IF up = Service THEN marker' = NoRecord /\ Done(p, Idle)
       ELSE Fail(p) /\ UNCHANGED <<marker, spent>>
    /\ UNCHANGED <<disk, archives, upload>>

-----------------------------------------------------------------------------
(* systemd and the faults.                                                 *)

\* Faulty: the job is not taken off the queue.
StartMutKeepsJob(s) ==
    /\ s \in cleared
    /\ s = "server" => "panel" \notin job
    /\ up' = up \cup {s} /\ job' = job /\ cleared' = cleared \ {s}
    /\ seen' = IF s = "panel" THEN [id |-> disk["db"], edits |-> disk["edits"]] ELSE seen
    /\ UNCHANGED <<disk, archives, marker, upload, proc, spent>>

Start(s) ==
    /\ s \in cleared
    /\ s = "server" => "panel" \notin job
    /\ up' = up \cup {s} /\ job' = job \ {s} /\ cleared' = cleared \ {s}
    /\ seen' = IF s = "panel" THEN [id |-> disk["db"], edits |-> disk["edits"]] ELSE seen
    /\ UNCHANGED <<disk, archives, marker, upload, proc, spent>>

\* A service fails and is restarted, or the server is restarted by hand.
Crash(s) ==
    /\ s \in up /\ Fault("crash")
    /\ up' = up \ {s} /\ Enqueue({s})
    /\ upload' = IF s = "panel" THEN [upload EXCEPT !.pc = "off"] ELSE upload
    /\ UNCHANGED <<disk, archives, marker, proc, seen>>

\* Before its effect, a write fails.
DiskFails(p) ==
    /\ Holds(p) /\ ~At(p, "health") /\ Fault("disk") /\ Fail(p)
    /\ UNCHANGED <<disk, archives, marker, upload>>

\* A unit is killed: out of memory, or at the end of its stop timeout.
Kill(p) ==
    /\ ~At(p, "off") /\ ~At(p, "wanted") /\ ~At(p, "post") /\ Fault("kill")
    /\ proc' = [proc EXCEPT ![p] = IF p = "restore" THEN [Idle EXCEPT !.pc = "post"] ELSE Idle]
    /\ job' = IF p = "recover" THEN job \cap cleared ELSE job
    /\ UNCHANGED <<disk, archives, marker, upload, cleared, up, seen>>

\* At boot the three units are wanted again.
PowerLoss ==
    /\ Fault("power")
    /\ proc' = [p \in Proc |-> IF p = "resume" THEN [Idle EXCEPT !.pc = "wanted"] ELSE Idle]
    /\ up' = {} /\ job' = Service /\ cleared' = {} /\ upload' = [upload EXCEPT !.pc = "off"]
    /\ UNCHANGED <<disk, archives, marker, seen>>

-----------------------------------------------------------------------------
Restoring(p) ==
    \/ Capture(p) \/ Validate(p) \/ Reject(p) \/ Discard(p) \/ Mark(p) \/ Consume(p) \/ StopPanel(p)
    \/ Settle(p) \/ StopServices(p) \/ StopFails(p) \/ Prepare(p) \/ Apply(p) \/ Verify(p)
    \/ Undo(p) \/ Undone(p) \/ Applied(p) \/ Drop(p)

Reconciling(p) ==
    Reconcile(p) \/ Rollback(p) \/ Outcome(p) \/ Quarantine(p) \/ Unpend(p) \/ Pass(p)

Working(p) ==
    Acquire(p) \/ Restoring(p) \/ Reconciling(p) \/ Orphans(p) \/ Resume(p) \/ Health(p)

Uploading == Link \/ Queue \/ UnlinkUpload

Next ==
    \/ Edit \/ BeginUpload \/ Uploading
    \/ \E p \in Proc : Working(p) \/ DiskFails(p) \/ Kill(p)
    \/ StartRecover \/ Post \/ PowerLoss
    \/ \E s \in Service : Start(s) \/ Crash(s)

Spec == Init /\ [][Next]_vars

\* The units run on, systemd starts what is wanted, a request is answered.
FairSpec ==
    /\ Spec
    /\ WF_vars(Uploading) /\ WF_vars(StartRecover) /\ WF_vars(Post)
    /\ \A p \in Proc : WF_vars(Working(p))
    /\ \A s \in Service : WF_vars(Start(s))

-----------------------------------------------------------------------------
(* What a restore promises.                                                *)

TypeOK ==
    /\ disk \in Image /\ pending \in Id /\ captured \in Id /\ marker \in Record
    /\ upload \in [pc : {"off", "receive", "queue", "unlink"}, id : Id]
    /\ proc \in [Proc -> Process]
    /\ cleared \subseteq job /\ job \subseteq Service \ up /\ up \subseteq Service
    /\ seen \in [id : Id, edits : Nat]
    /\ spent \in [FaultKind -> Nat]

\* While the panel or a server runs, and so whenever one is started, database,
\* certificate, key and environment are of one identity, wherever a restore, its
\* rollback or its recovery was interrupted.
ServicesRunOnOneIdentity == up # {} => Whole(disk)

\* Files of two identities have a record that says how to repair them: the files
\* that were complete are kept, with every edit, in the backup it names.
MixtureIsRecorded ==
    ~Whole(disk) => /\ marker.phase = "prepared"
                    /\ Whole(marker.old) /\ marker.old["db"] = seen.id /\ marker.old["edits"] = seen.edits

\* What a panel once served is never replaced by something older: no edit is lost
\* to a rollback, and no archive is applied a second time over later edits.
ServedDataNeverGoesBack ==
    [][seen'.id > seen.id \/ (seen'.id = seen.id /\ seen'.edits >= seen.edits)]_seen

Only(kinds) == \A k \in FaultKind \ kinds : spent[k] = 0
Clean == marker.phase = "none" /\ pending = 0 /\ captured = 0 /\ up = Service

\* With power losses, refused archives and sessions that do not drain, every
\* restore ends with panel and servers running and nothing left over.
RestoreEndsClean ==
    LET harmless == Only({"power", "refused", "drain"})
    IN [](harmless => <>(Clean \/ ~harmless))

\* Panel and servers come back after power losses, crashes, refused archives and sessions
\* that do not drain, and after services that do not stop, as long as no unit is killed
\* and no write fails.  That a power loss follows such a stop is another run.
ServicesReturn == []<>(up = Service \/ ~Only(FaultKind \ {"kill", "disk"}))
=============================================================================
