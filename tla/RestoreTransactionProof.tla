------------------------ MODULE RestoreTransactionProof ------------------------
(***************************************************************************)
(* Proofs about RestoreTransaction, for any number of uploads and edits and *)
(* any mix of faults: services only ever run on files of one identity, a     *)
(* mixture of two identities always has a record that repairs it, and what   *)
(* a panel once served is never replaced by something older.                *)
(*                                                                         *)
(* The inductive invariant says who may hold the maintenance lock           *)
(* (Exclusive), what the record on disk tells of the files (Recorded), which *)
(* archives can still be applied (Numbered), and for each step of the three  *)
(* units what it relies on (Steps).                                         *)
(***************************************************************************)
EXTENDS RestoreTransaction, SequenceTheorems, TLAPS

-----------------------------------------------------------------------------
(* The inductive invariant.                                                *)

\* The lock has one holder; while an upload is received it has none, and nothing
\* is recorded.
Exclusive ==
    /\ \A p, q \in Proc : Holds(p) /\ Holds(q) => p = q
    /\ upload.pc = "receive" => marker.phase = "none" /\ \A p \in Proc : ~Holds(p)

\* The last panel saw what is on disk now.
Current == seen.id = disk["db"] /\ seen.edits = disk["edits"]

Closing == {"disk-consistent", "services-pending"}

\* Only a prepared restore may have mixed the files, and then nothing runs or may be
\* started, and the backup is what the last panel saw.  In every other phase the
\* files are of one identity: that of the last panel or, after a restore that was
\* applied, that of the archive.
Recorded ==
    /\ IF marker.phase = "prepared"
       THEN /\ up = {} /\ cleared = {} /\ pending = 0
            /\ Whole(marker.old) /\ marker.old["db"] = seen.id /\ marker.old["edits"] = seen.edits
       ELSE Whole(disk)
    /\ marker.phase \in {"none", "queued"} => Current
    /\ marker.phase \in Closing =>
         \/ marker.outcome = "rolled-back" /\ Current
         \/ /\ marker.outcome = "applied" /\ pending = 0
            /\ disk["db"] = marker.archive /\ (Current \/ marker.archive > seen.id)
    /\ "panel" \in up => Current

\* Archives are numbered as they come.  What waits to be applied is younger than
\* anything a panel has seen.
Numbered ==
    /\ {pending, captured, marker.archive, seen.id} \subseteq 0..upload.id
    /\ upload.pc = "receive" => upload.id > seen.id
    /\ pending # 0 => pending > seen.id
    /\ marker.phase \in {"queued", "prepared"} => marker.archive > seen.id

Deciding == {"capture", "validate", "reject", "discard", "mark"}
Stopping == {"panel", "settle", "servers", "prepare"}
Applying == {"apply", "verify", "undo", "undone", "applied"}
Concluding == {"reconcile", "rollback", "outcome", "quarantine", "unpend", "pass"}

StepsOf(p) ==
    CASE p = "restore" -> {"off", "wait", "post", "consume", "drop"}
                            \cup Deciding \cup Stopping \cup Applying \cup Concluding
      [] p = "recover" -> {"off", "wait", "orphans"} \cup Concluding
      [] p = "resume" -> {"off", "wait", "wanted", "health"}

\* The phases in which a step can be.
PhasesAt(pc) ==
    CASE pc \in Deciding \cup {"orphans"} -> {"none"}
      [] pc \in Stopping \cup {"consume"} -> {"queued"}
      [] pc \in Applying \cup {"rollback"} -> {"prepared"}
      [] pc = "outcome" -> {"queued", "prepared"}
      [] pc \in {"drop", "quarantine", "unpend"} -> Closing
      [] pc = "pass" -> Closing \cup {"none"}
      [] pc = "reconcile" -> Closing \cup {"queued", "prepared"}
      [] pc = "health" -> {"services-pending"}
      [] OTHER -> {"none", "queued", "prepared"} \cup Closing

Listed(s) == {s[i] : i \in 1..Len(s)}

\* All files but those still to be written are what `image' has.
WrittenFrom(image, left) ==
    /\ \A f \in File \ Listed(left) : disk[f] = image[f]
    /\ "db" \notin Listed(left) => disk["edits"] = image["edits"]

\* The record in memory, before it is written.
Concluded(rec) ==
    /\ rec.phase = "disk-consistent" /\ rec.archive = marker.archive
    /\ Whole(disk)
    /\ \/ rec.outcome = "rolled-back" /\ Current
       \/ rec.outcome = "applied" /\ pending = 0 /\ disk["db"] = marker.archive

StepOf(p) ==
    LET s == proc[p] IN
    /\ s.pc \in StepsOf(p) /\ marker.phase \in PhasesAt(s.pc)
    /\ p = "restore" /\ s.pc = "pass" => marker.phase # "none"
    /\ s.pc \in {"validate", "mark"} => captured > seen.id
    /\ s.pc \in Stopping => pending = 0
    /\ s.pc = "prepare" => up = {} /\ cleared = {}
    /\ s.pc \in {"apply", "undo", "rollback"} => s.left # <<>>
    /\ s.pc = "apply" => WrittenFrom(ImageOf(marker.archive), s.left)
    /\ s.pc \in {"verify", "applied"} => WrittenFrom(ImageOf(marker.archive), <<>>)
    /\ s.pc \in {"undo", "rollback"} => WrittenFrom(marker.old, s.left)
    /\ s.pc = "undone" => WrittenFrom(marker.old, <<>>)
    /\ s.pc = "rollback" => s.rec = RolledBack(marker.old)
    /\ s.pc = "outcome" => Concluded(s.rec)
    /\ s.pc \in {"quarantine", "unpend"} => s.rec = marker
    /\ s.pc = "pass" => s.rec = marker \/ marker.phase = "none"
Steps == \A p \in Proc : StepOf(p)

Inv == TypeOK /\ Exclusive /\ Recorded /\ Numbered /\ Steps

-----------------------------------------------------------------------------
(* Files still to be written.                                              *)

Suffixes == {SubSeq(Order, i, 4) : i \in 1..5}

\* The lists of files a loop goes through, written out.
LEMMA SuffixesAre ==
    Suffixes = {<<>>, <<"env">>, <<"key", "env">>, <<"cert", "key", "env">>,
                <<"db", "cert", "key", "env">>}
<1>1. Order \in Seq(File) /\ Len(Order) = 4 /\ \A i \in 1..4 : Order[i] \in File
  BY DEF Order, File
<1>2. \A i \in 1..5 : LET t == SubSeq(Order, i, 4) IN
        /\ t \in Seq(File) /\ Len(t) = 5 - i
        /\ \A j \in 1..(5 - i) : t[j] = Order[i + j - 1]
  <2> TAKE i \in 1..5
  <2>1. \A j \in i..4 : Order[j] \in File
    BY <1>1
  <2>2. /\ SubSeq(Order, i, 4) \in Seq(File)
        /\ Len(SubSeq(Order, i, 4)) = IF i <= 4 THEN 4 - i + 1 ELSE 0
        /\ \A j \in 1..(4 - i + 1) : SubSeq(Order, i, 4)[j] = Order[i + j - 1]
    BY <2>1, SubSeqProperties
  <2> QED
    BY <2>2
<1>3. /\ SubSeq(Order, 1, 4) = <<"db", "cert", "key", "env">>
      /\ SubSeq(Order, 2, 4) = <<"cert", "key", "env">>
      /\ SubSeq(Order, 3, 4) = <<"key", "env">>
      /\ SubSeq(Order, 4, 4) = <<"env">>
      /\ SubSeq(Order, 5, 4) = <<>>
  <2>1. SubSeq(Order, 1, 4) = <<"db", "cert", "key", "env">>
    <3> DEFINE t == SubSeq(Order, 1, 4)
    <3>1. /\ <<"db", "cert", "key", "env">> \in Seq(File) /\ Len(<<"db", "cert", "key", "env">>) = 4
          /\ \A j \in 1..4 : <<"db", "cert", "key", "env">>[j] = Order[1 + j - 1]
      BY DEF Order, File
    <3>2. t \in Seq(File) /\ Len(t) = 4 /\ \A j \in 1..4 : t[j] = Order[1 + j - 1]
      BY <1>2
    <3> QED
      BY <3>1, <3>2, SeqEqual
  <2>2. SubSeq(Order, 2, 4) = <<"cert", "key", "env">>
    <3> DEFINE t == SubSeq(Order, 2, 4)
    <3>1. /\ <<"cert", "key", "env">> \in Seq(File) /\ Len(<<"cert", "key", "env">>) = 3
          /\ \A j \in 1..3 : <<"cert", "key", "env">>[j] = Order[2 + j - 1]
      BY DEF Order, File
    <3>2. t \in Seq(File) /\ Len(t) = 3 /\ \A j \in 1..3 : t[j] = Order[2 + j - 1]
      BY <1>2
    <3> QED
      BY <3>1, <3>2, SeqEqual
  <2>3. SubSeq(Order, 3, 4) = <<"key", "env">>
    <3> DEFINE t == SubSeq(Order, 3, 4)
    <3>1. /\ <<"key", "env">> \in Seq(File) /\ Len(<<"key", "env">>) = 2
          /\ \A j \in 1..2 : <<"key", "env">>[j] = Order[3 + j - 1]
      BY DEF Order, File
    <3>2. t \in Seq(File) /\ Len(t) = 2 /\ \A j \in 1..2 : t[j] = Order[3 + j - 1]
      BY <1>2
    <3> QED
      BY <3>1, <3>2, SeqEqual
  <2>4. SubSeq(Order, 4, 4) = <<"env">>
    <3> DEFINE t == SubSeq(Order, 4, 4)
    <3>1. /\ <<"env">> \in Seq(File) /\ Len(<<"env">>) = 1
          /\ \A j \in 1..1 : <<"env">>[j] = Order[4 + j - 1]
      BY DEF Order, File
    <3>2. t \in Seq(File) /\ Len(t) = 1 /\ \A j \in 1..1 : t[j] = Order[4 + j - 1]
      BY <1>2
    <3> QED
      BY <3>1, <3>2, SeqEqual
  <2>5. SubSeq(Order, 5, 4) = <<>>
    BY <1>2
  <2> QED
    BY <2>1, <2>2, <2>3, <2>4, <2>5
<1>4. 1..5 = {1, 2, 3, 4, 5}
  OBVIOUS
<1> QED
  BY <1>3, <1>4 DEF Suffixes

\* The next file is taken off the front of the list.
LEMMA SuffixFacts ==
    ASSUME NEW s \in Suffixes
    PROVE  /\ Listed(<<>>) = {} /\ Listed(Order) = File /\ Order \in Suffixes /\ Order # <<>>
           /\ s # <<>> => /\ Tail(s) \in Suffixes /\ Head(s) \in File
                          /\ Listed(s) = {Head(s)} \cup Listed(Tail(s))
                          /\ Len(s) = 1 <=> Tail(s) = <<>>
<1>1. /\ Listed(<<>>) = {} /\ Listed(<<"env">>) = {"env"}
      /\ Listed(<<"key", "env">>) = {"key", "env"}
      /\ Listed(<<"cert", "key", "env">>) = {"cert", "key", "env"}
      /\ Listed(<<"db", "cert", "key", "env">>) = File
  BY DEF Listed, File
<1>2. s \in {<<>>, <<"env">>, <<"key", "env">>, <<"cert", "key", "env">>,
             <<"db", "cert", "key", "env">>}
  BY SuffixesAre
<1>3. Order \in Suffixes /\ Order # <<>> /\ Listed(Order) = File
  BY <1>1, SuffixesAre DEF Order
<1>4. CASE s = <<"env">>
  BY <1>1, <1>3, <1>4, SuffixesAre DEF File
<1>5. CASE s = <<"key", "env">>
  BY <1>1, <1>3, <1>5, SuffixesAre DEF File
<1>6. CASE s = <<"cert", "key", "env">>
  BY <1>1, <1>3, <1>6, SuffixesAre DEF File
<1>7. CASE s = <<"db", "cert", "key", "env">>
  BY <1>1, <1>3, <1>7, SuffixesAre DEF File
<1> QED
  BY <1>1, <1>2, <1>3, <1>4, <1>5, <1>6, <1>7

-----------------------------------------------------------------------------
(* What a step does to the unit that takes it.                             *)

\* Only this unit's memory changes.
Alone(p) == proc' \in [Proc -> Process] /\ \A q \in Proc : q # p => proc'[q] = proc[q]

LEMMA BecomesAlone ==
    ASSUME TypeOK, NEW p \in Proc, NEW s \in Process, proc' = [proc EXCEPT ![p] = s]
    PROVE  Alone(p) /\ proc'[p] = s
BY DEF Alone, TypeOK

Pcs == {"off", "wait", "post", "consume", "drop", "orphans", "wanted", "health"}
         \cup Deciding \cup Stopping \cup Applying \cup Concluding

LEMMA ProcessType ==
    ASSUME TypeOK, NEW p \in Proc
    PROVE  /\ proc[p] \in Process /\ proc[p].left \in Suffixes /\ proc[p].rec \in Record
           /\ Idle \in Process /\ NoRecord \in Record /\ Idle.pc = "off"
           /\ \A pc \in Pcs : /\ [proc[p] EXCEPT !.pc = pc] \in Process
                              /\ [Idle EXCEPT !.pc = pc] \in Process
                              /\ [Idle EXCEPT !.pc = pc].pc = pc
<1>1. ImageOf(0) \in Image
  BY DEF ImageOf, Image
<1>2. NoRecord \in Record
  BY <1>1, ConstantsAssumption DEF NoRecord, Record, Id
<1>3. <<>> \in Suffixes
  BY SuffixesAre
<1>4. Idle \in Process /\ Idle.pc = "off"
  BY <1>2, <1>3 DEF Idle, Process, Suffixes
<1>5. proc[p] \in Process
  BY DEF TypeOK
<1>6. proc[p].left \in Suffixes /\ proc[p].rec \in Record
  BY <1>5 DEF Process, Suffixes
<1>7. ASSUME NEW s \in Process, NEW pc \in Pcs
      PROVE  [s EXCEPT !.pc = pc] \in Process /\ [s EXCEPT !.pc = pc].pc = pc
  <2>1. pc \in {"off", "wait", "capture", "validate", "reject", "discard", "mark", "consume",
                "panel", "settle", "servers", "prepare", "apply", "verify", "undo", "undone",
                "applied", "drop", "reconcile", "rollback", "outcome",
                "quarantine", "unpend", "pass", "orphans", "wanted", "health", "post"}
    BY <1>7 DEF Pcs, Deciding, Stopping, Applying, Concluding
  <2> QED
    BY <1>7, <2>1 DEF Process
<1> QED
  BY <1>2, <1>4, <1>5, <1>6, <1>7

LEMMA GotoAlone ==
    ASSUME TypeOK, NEW p \in Proc, NEW pc \in Pcs, proc' = [proc EXCEPT ![p].pc = pc]
    PROVE  /\ Alone(p) /\ proc'[p] = [proc[p] EXCEPT !.pc = pc]
           /\ proc'[p].pc = pc /\ proc'[p].left = proc[p].left /\ proc'[p].rec = proc[p].rec
<1>1. proc[p] \in Process /\ [proc[p] EXCEPT !.pc = pc] \in Process
  BY ProcessType
<1>2. proc' = [proc EXCEPT ![p] = [proc[p] EXCEPT !.pc = pc]]
  OBVIOUS
<1>3. Alone(p) /\ proc'[p] = [proc[p] EXCEPT !.pc = pc]
  BY <1>1, <1>2, BecomesAlone
<1> QED
  BY <1>1, <1>3 DEF Process

\* An exception leads to the rollback, to the handler, or out of the command.
LEMMA RaisedIs ==
    ASSUME TypeOK, NEW p \in Proc, proc[p].pc \in StepsOf(p), Holds(p)
    PROVE  /\ Raised(p) \in Process
           /\ \/ /\ proc[p].pc \in {"apply", "verify"}
                 /\ Raised(p).pc = "undo" /\ Raised(p).left = Order
              \/ /\ proc[p].pc \in Stopping \cup Applying \cup Concluding \cup {"drop"}
                 /\ p = "restore" /\ Raised(p).pc = "reconcile"
              \/ proc[p].pc \notin Applying /\ Raised(p).pc \in {"off", "post"} \cap StepsOf(p)
<1>1. /\ proc[p] \in Process /\ Idle \in Process /\ Idle.pc = "off" /\ Order \in Suffixes
      /\ [Idle EXCEPT !.pc = "post"] \in Process /\ [Idle EXCEPT !.pc = "post"].pc = "post"
  BY ProcessType, SuffixFacts DEF Pcs
<1>2. /\ [proc[p] EXCEPT !.pc = "undo", !.left = Order] \in Process
      /\ [proc[p] EXCEPT !.pc = "undo", !.left = Order].pc = "undo"
      /\ [proc[p] EXCEPT !.pc = "undo", !.left = Order].left = Order
      /\ [proc[p] EXCEPT !.pc = "reconcile", !.handling = TRUE] \in Process
      /\ [proc[p] EXCEPT !.pc = "reconcile", !.handling = TRUE].pc = "reconcile"
  BY <1>1 DEF Process, Suffixes
<1>3. CASE proc[p].pc \in {"apply", "verify"}
  <2> DEFINE next == [proc[p] EXCEPT !.pc = "undo", !.left = Order]
  <2>1. Raised(p) = next
    BY <1>3 DEF Raised
  <2>2. next \in Process /\ next.pc = "undo" /\ next.left = Order
    BY <1>2
  <2> HIDE DEF next
  <2> QED
    BY <1>3, <2>1, <2>2
<1>4. CASE proc[p].pc \in {"panel", "settle", "servers", "prepare", "undo", "undone", "applied", "drop"}
  <2>1. Raised(p) = [proc[p] EXCEPT !.pc = "reconcile", !.handling = TRUE]
    BY <1>4 DEF Raised
  <2>2. p = "restore"
    BY <1>4 DEF StepsOf, Proc, Deciding, Stopping, Applying, Concluding
  <2> QED
    BY <1>2, <1>4, <2>1, <2>2 DEF Stopping, Applying
<1>5. CASE /\ proc[p].pc \notin {"apply", "verify"}
           /\ proc[p].pc \notin {"panel", "settle", "servers", "prepare", "undo", "undone", "applied", "drop"}
  <2>0. proc[p].pc \notin Applying
    BY <1>5 DEF Applying
  <2>1. CASE /\ p = "restore" /\ ~proc[p].handling
             /\ proc[p].pc \notin {"capture", "validate", "reject", "discard", "mark", "consume"}
    <3>1. Raised(p) = [proc[p] EXCEPT !.pc = "reconcile", !.handling = TRUE]
      BY <1>5, <2>1 DEF Raised
    <3>2. proc[p].pc \in Concluding
      BY <1>5, <2>1 DEF StepsOf, Deciding, Stopping, Applying, Holds
    <3> QED
      BY <1>2, <2>1, <3>1, <3>2
  <2>2. CASE ~(/\ p = "restore" /\ ~proc[p].handling
               /\ proc[p].pc \notin {"capture", "validate", "reject", "discard", "mark", "consume"})
    <3>1. Raised(p) = IF p = "restore" THEN [Idle EXCEPT !.pc = "post"] ELSE Idle
      BY <1>5, <2>2 DEF Raised
    <3> QED
      BY <1>1, <2>0, <3>1 DEF StepsOf, Proc
  <2> QED
    BY <2>1, <2>2
<1> QED
  BY <1>3, <1>4, <1>5

-----------------------------------------------------------------------------
(* Steps of the holder of the lock.                                        *)

LEMMA FaultType ==
    ASSUME TypeOK, NEW k \in FaultKind, Fault(k)
    PROVE  spent' \in [FaultKind -> Nat]
BY DEF TypeOK, Fault

\* A unit that does not hold the lock relies on nothing.
LEMMA OutsideStep ==
    ASSUME NEW p \in Proc, proc'[p].pc \in {"off", "wait", "wanted", "post"},
           proc'[p].pc \in StepsOf(p), marker' \in Record
    PROVE  StepOf(p)'
<1>1. marker'.phase \in {"none", "queued", "prepared"} \cup Closing
  BY DEF Record, Closing
<1>2. PhasesAt(proc'[p].pc) = {"none", "queued", "prepared"} \cup Closing
  BY DEF PhasesAt, Deciding, Stopping, Applying
<1> QED
  BY <1>1, <1>2 DEF StepOf, StepsOf, Stopping

\* The types of everything but the memory of the units.
FilesOK == disk \in Image /\ pending \in Id /\ captured \in Id /\ marker \in Record
ServicesOK == cleared \subseteq job /\ job \subseteq Service \ up /\ up \subseteq Service

\* A step of the holder keeps the invariant if what it writes is in order and it can
\* rely on what its next step relies on.
LEMMA HolderStep ==
    ASSUME Inv, NEW p \in Proc, Holds(p), Alone(p), StepOf(p)',
           upload' \in {upload, [upload EXCEPT !.pc = "off"]},
           FilesOK', ServicesOK', seen' \in [id : Id, edits : Nat], spent' \in [FaultKind -> Nat],
           Recorded', Numbered'
    PROVE  Inv'
<1>1. TypeOK'
  <2>1. upload' \in [pc : {"off", "receive", "queue", "unlink"}, id : Id]
    BY DEF Inv, TypeOK
  <2> QED
    BY <2>1 DEF FilesOK, ServicesOK, TypeOK, Alone
<1>2. \A q \in Proc : q # p => ~Holds(q) /\ ~Holds(q)'
  BY DEF Inv, Exclusive, Holds, Alone
<1>3. upload.pc # "receive" /\ upload'.pc # "receive"
  BY DEF Inv, TypeOK, Exclusive
<1>4. Exclusive'
  BY <1>2, <1>3 DEF Exclusive
<1>5. ASSUME NEW q \in Proc, q # p PROVE StepOf(q)'
  <2>1. proc'[q] = proc[q]
    BY <1>5 DEF Alone
  <2>2. proc[q].pc \in {"off", "wait", "wanted", "post"} /\ proc[q].pc \in StepsOf(q)
    BY <1>2, <1>5 DEF Holds, Inv, Steps, StepOf
  <2> QED
    BY <2>1, <2>2, OutsideStep DEF FilesOK
<1> QED
  BY <1>1, <1>4, <1>5 DEF Inv, Steps

\* Archives that go away, or a copy of the upload, change nothing that is recorded.
LEMMA ArchivesStep ==
    ASSUME Inv, UNCHANGED <<disk, marker, seen, up, cleared>>,
           upload'.id = upload.id, upload'.pc = "receive" => upload.pc = "receive",
           pending' \in {pending, 0}, captured' \in {captured, 0, pending}
    PROVE  FilesOK' /\ Recorded' /\ Numbered'
<1>1. FilesOK'
  BY ConstantsAssumption DEF Inv, TypeOK, FilesOK, Id
<1>2. Recorded'
  BY DEF Inv, TypeOK, Recorded, Whole, Current
<1>3. upload.id \in Nat /\ Numbered /\ {pending, captured, marker.archive, seen.id} \subseteq Nat
  BY ConstantsAssumption DEF Inv, TypeOK, Record, Id
<1>4. Numbered'
  BY <1>3 DEF Numbered
<1> QED
  BY <1>1, <1>2, <1>4

Inside == Stopping \cup Applying \cup Concluding \cup {"drop"}

\* An exception: the handler finds a record, the rollback finds the backup.
LEMMA RaisedStep ==
    ASSUME Inv, NEW p \in Proc, Holds(p), proc'[p] = Raised(p), marker' \in Record,
           proc[p].pc \in {"apply", "verify"} => marker'.phase = "prepared",
           proc[p].pc \in Inside /\ p = "restore" => marker'.phase # "none"
    PROVE  StepOf(p)' /\ Raised(p) \in Process
<1>1. TypeOK /\ proc[p].pc \in StepsOf(p) /\ proc[p] \in Process
  BY DEF Inv, Steps, StepOf, TypeOK
<1>2. Raised(p) \in Process
  BY <1>1, RaisedIs
<1>3. CASE /\ proc[p].pc \in {"apply", "verify"}
           /\ Raised(p).pc = "undo" /\ Raised(p).left = Order
  <2>1. p = "restore" /\ "undo" \in StepsOf(p)
    BY <1>1, <1>3 DEF StepsOf, Proc, Deciding, Stopping, Applying, Concluding
  <2>2. PhasesAt("undo") = {"prepared"}
    BY DEF PhasesAt, Deciding, Stopping, Applying
  <2>3. \A f \in File \ Listed(Order) : FALSE
    BY SuffixFacts, SuffixesAre
  <2>4. "db" \in Listed(Order) /\ Order # <<>>
    BY SuffixFacts, SuffixesAre DEF File
  <2>5. proc'[p].pc = "undo" /\ proc'[p].left = Order /\ marker'.phase = "prepared"
    BY <1>3
  <2> QED
    BY <1>2, <2>1, <2>2, <2>3, <2>4, <2>5 DEF StepOf, StepsOf, Stopping, WrittenFrom
<1>4. CASE proc[p].pc \in Inside /\ p = "restore" /\ Raised(p).pc = "reconcile"
  <2>1. "reconcile" \in StepsOf(p)
    BY <1>4 DEF StepsOf, Concluding
  <2>2. PhasesAt("reconcile") = Closing \cup {"queued", "prepared"}
    BY DEF PhasesAt, Deciding, Stopping, Applying
  <2>3. marker'.phase \in Closing \cup {"queued", "prepared"}
    BY <1>4 DEF Record, Closing
  <2> QED
    BY <1>2, <1>4, <2>1, <2>2, <2>3 DEF StepOf, StepsOf, Stopping
<1>5. CASE Raised(p).pc \in {"off", "post"} \cap StepsOf(p)
  BY <1>2, <1>5, OutsideStep
<1> QED
  BY <1>1, <1>2, <1>3, <1>4, <1>5, RaisedIs DEF Inside

\* The services are left alone, but for the jobs a failed recovery takes with it.
LEMMA FailStep ==
    ASSUME Inv, NEW p \in Proc, Holds(p), Fail(p),
           upload' \in {upload, [upload EXCEPT !.pc = "off"]}, spent' \in [FaultKind -> Nat],
           proc[p].pc \in {"apply", "verify"} => marker'.phase = "prepared",
           proc[p].pc \in Inside /\ p = "restore" => marker'.phase # "none",
           FilesOK', Recorded', Numbered'
    PROVE  Inv'
<1>1. proc' = [proc EXCEPT ![p] = Raised(p)] /\ UNCHANGED <<cleared, up, seen>>
      /\ job' \in {job, job \cap cleared}
  BY DEF Fail
<1>2. TypeOK /\ marker' \in Record
  BY DEF Inv, FilesOK
<1>3. Raised(p) \in Process
  BY <1>2, RaisedIs DEF Inv, Steps, StepOf
<1>4. Alone(p) /\ proc'[p] = Raised(p)
  BY <1>1, <1>2, <1>3, BecomesAlone
<1>5. StepOf(p)'
  BY <1>2, <1>4, RaisedStep
<1>6. ServicesOK' /\ seen' \in [id : Id, edits : Nat]
  BY <1>1, <1>2 DEF ServicesOK, TypeOK
<1> QED
  BY <1>4, <1>5, <1>6, HolderStep

\* A step that goes on to `next', or fails after its effect.
LEMMA DoneStep ==
    ASSUME Inv, NEW p \in Proc, Holds(p), NEW next \in Process, Done(p, next), UNCHANGED upload,
           proc[p].pc \in {"apply", "verify"} => marker'.phase = "prepared",
           proc[p].pc \in Inside /\ p = "restore" => marker'.phase # "none",
           FilesOK', UNCHANGED <<cleared, up, seen>> => Recorded' /\ Numbered',
           Alone(p) /\ proc'[p] = next /\ UNCHANGED <<cleared, up, seen>> => StepOf(p)'
    PROVE  Inv'
<1>1. TypeOK
  BY DEF Inv
<1>2. CASE proc' = [proc EXCEPT ![p] = next] /\ UNCHANGED <<units, spent>>
  <2>1. Alone(p) /\ proc'[p] = next /\ UNCHANGED <<cleared, up, seen>>
    BY <1>1, <1>2, BecomesAlone DEF units
  <2>2. ServicesOK' /\ seen' \in [id : Id, edits : Nat] /\ spent' \in [FaultKind -> Nat]
    BY <1>1, <1>2 DEF ServicesOK, TypeOK, units
  <2> QED
    BY <2>1, <2>2, HolderStep
<1>3. CASE Fail(p) /\ Fault("disk")
  <2>1. spent' \in [FaultKind -> Nat] /\ UNCHANGED <<cleared, up, seen>>
    BY <1>1, <1>3, FaultType DEF FaultKind, Fail
  <2> QED
    BY <1>3, <2>1, FailStep
<1> QED
  BY <1>2, <1>3 DEF Done

-----------------------------------------------------------------------------
(* The phases of the steps.                                                *)

LEMMA PhaseTable ==
    /\ PhasesAt("capture") = {"none"} /\ PhasesAt("validate") = {"none"}
    /\ PhasesAt("reject") = {"none"} /\ PhasesAt("discard") = {"none"}
    /\ PhasesAt("mark") = {"none"} /\ PhasesAt("orphans") = {"none"}
    /\ PhasesAt("consume") = {"queued"} /\ PhasesAt("panel") = {"queued"}
    /\ PhasesAt("settle") = {"queued"} /\ PhasesAt("servers") = {"queued"}
    /\ PhasesAt("prepare") = {"queued"} /\ PhasesAt("apply") = {"prepared"}
    /\ PhasesAt("verify") = {"prepared"} /\ PhasesAt("undo") = {"prepared"}
    /\ PhasesAt("undone") = {"prepared"} /\ PhasesAt("applied") = {"prepared"}
    /\ PhasesAt("rollback") = {"prepared"} /\ PhasesAt("outcome") = {"queued", "prepared"}
    /\ PhasesAt("drop") = Closing /\ PhasesAt("quarantine") = Closing
    /\ PhasesAt("unpend") = Closing /\ PhasesAt("pass") = Closing \cup {"none"}
    /\ PhasesAt("reconcile") = Closing \cup {"queued", "prepared"}
    /\ PhasesAt("health") = {"services-pending"}
BY DEF PhasesAt, Deciding, Stopping, Applying

LEMMA StepTable ==
    /\ StepsOf("restore") = {"off", "wait", "post", "consume", "drop", "capture", "validate",
         "reject", "discard", "mark", "panel", "settle", "servers", "prepare", "apply", "verify",
         "undo", "undone", "applied", "reconcile", "rollback", "outcome", "quarantine", "unpend",
         "pass"}
    /\ StepsOf("recover") = {"off", "wait", "orphans", "reconcile", "rollback", "outcome",
         "quarantine", "unpend", "pass"}
    /\ StepsOf("resume") = {"off", "wait", "wanted", "health"}
BY DEF StepsOf, Deciding, Stopping, Applying, Concluding

\* Inside the command there is a record, and a prepared one while files are replaced.
LEMMA InsidePhase ==
    ASSUME Inv, NEW p \in Proc
    PROVE  /\ proc[p].pc \in StepsOf(p) /\ marker.phase \in PhasesAt(proc[p].pc) /\ StepOf(p)
           /\ proc[p].pc \in {"apply", "verify"} => marker.phase = "prepared"
           /\ proc[p].pc \in Inside /\ p = "restore" => marker.phase # "none"
<1>1. /\ proc[p].pc \in StepsOf(p) /\ marker.phase \in PhasesAt(proc[p].pc) /\ StepOf(p)
      /\ p = "restore" /\ proc[p].pc = "pass" => marker.phase # "none"
  BY DEF Inv, Steps, StepOf
<1>2. proc[p].pc \in {"apply", "verify"} => marker.phase = "prepared"
  BY <1>1, PhaseTable
<1>3. proc[p].pc \in Inside /\ p = "restore" => marker.phase # "none"
  BY <1>1, PhaseTable DEF Inside, Stopping, Applying, Concluding, Closing
<1> QED
  BY <1>1, <1>2, <1>3

\* Steps that write nothing but the two archives.
LEMMA QuietFail ==
    ASSUME Inv, NEW p \in Proc, Holds(p), Fail(p), UNCHANGED <<disk, marker, upload>>,
           pending' \in {pending, 0}, captured' \in {captured, 0, pending},
           spent' \in [FaultKind -> Nat]
    PROVE  Inv'
<1>1. UNCHANGED <<cleared, up, seen>>
  BY DEF Fail
<1>2. FilesOK' /\ Recorded' /\ Numbered'
  BY <1>1, ArchivesStep
<1> QED
  BY <1>2, InsidePhase, FailStep

LEMMA QuietDone ==
    ASSUME Inv, NEW p \in Proc, Holds(p), NEW next \in Process, Done(p, next),
           UNCHANGED <<disk, marker, upload>>,
           pending' \in {pending, 0}, captured' \in {captured, 0, pending},
           Alone(p) /\ proc'[p] = next /\ UNCHANGED <<cleared, up, seen>> => StepOf(p)'
    PROVE  Inv'
<1>1. UNCHANGED <<cleared, up, seen>>
  BY DEF Done, Fail, units
<1>2. FilesOK' /\ Recorded' /\ Numbered'
  BY <1>1, ArchivesStep
<1> QED
  BY <1>2, InsidePhase, DoneStep

LEMMA QuietGoto ==
    ASSUME Inv, NEW p \in Proc, Holds(p), NEW next \in Process, proc' = [proc EXCEPT ![p] = next],
           UNCHANGED <<disk, archives, marker, upload, units>>, spent' \in [FaultKind -> Nat],
           Alone(p) /\ proc'[p] = next => StepOf(p)'
    PROVE  Inv'
<1>1. TypeOK /\ UNCHANGED <<disk, pending, captured, marker, upload, job, cleared, up, seen>>
  BY DEF Inv, archives, units
<1>2. Alone(p) /\ proc'[p] = next
  BY <1>1, BecomesAlone
<1>3. FilesOK' /\ Recorded' /\ Numbered'
  BY <1>1, ArchivesStep
<1>4. ServicesOK' /\ seen' \in [id : Id, edits : Nat]
  BY <1>1 DEF TypeOK, ServicesOK
<1> QED
  BY <1>1, <1>2, <1>3, <1>4, HolderStep

\* The unit goes on at pc with what it remembers.
OnAt(p, pc) == /\ proc'[p].pc = pc /\ proc'[p].left = proc[p].left /\ proc'[p].rec = proc[p].rec
               /\ UNCHANGED <<cleared, up, seen>>

LEMMA QuietDoneAt ==
    ASSUME Inv, NEW p \in Proc, Holds(p), NEW pc \in Pcs, DoneAt(p, pc),
           UNCHANGED <<disk, marker, upload>>,
           pending' \in {pending, 0}, captured' \in {captured, 0, pending},
           OnAt(p, pc) => StepOf(p)'
    PROVE  Inv'
<1> DEFINE next == [proc[p] EXCEPT !.pc = pc]
<1>1. next \in Process /\ next.pc = pc /\ next.left = proc[p].left /\ next.rec = proc[p].rec
  <2>1. proc[p] \in Process /\ next \in Process
    BY ProcessType DEF Inv
  <2> QED
    BY <2>1 DEF Process
<1>2. Done(p, next)
  BY DEF DoneAt
<1> HIDE DEF next
<1> QED
  BY <1>1, <1>2, QuietDone DEF OnAt

LEMMA QuietGotoAt ==
    ASSUME Inv, NEW p \in Proc, Holds(p), NEW pc \in Pcs, Goto(p, pc),
           UNCHANGED <<disk, archives, marker, upload, units>>, spent' \in [FaultKind -> Nat],
           OnAt(p, pc) => StepOf(p)'
    PROVE  Inv'
<1> DEFINE next == [proc[p] EXCEPT !.pc = pc]
<1>1. next \in Process /\ next.pc = pc /\ next.left = proc[p].left /\ next.rec = proc[p].rec
  <2>1. proc[p] \in Process /\ next \in Process
    BY ProcessType DEF Inv
  <2> QED
    BY <2>1 DEF Process
<1>2. proc' = [proc EXCEPT ![p] = next]
  BY DEF Goto
<1> HIDE DEF next
<1> QED
  BY <1>1, <1>2, QuietGoto DEF OnAt, units

LEMMA CaptureStep == ASSUME Inv, NEW p \in Proc, Capture(p) PROVE Inv'
<1>1. At(p, "capture") /\ Holds(p) /\ p = "restore" /\ UNCHANGED <<disk, pending, marker, upload>>
      /\ marker.phase = "none"
  BY InsidePhase, PhaseTable, StepTable DEF Capture, At, Holds, Proc
<1>2. CASE Fail(p) /\ UNCHANGED <<captured, spent>>
  BY <1>1, <1>2, QuietFail DEF Inv, TypeOK
<1>3. CASE pending # 0 /\ captured' = pending /\ DoneAt(p, "validate")
  <2>1. ASSUME OnAt(p, "validate") PROVE StepOf(p)'
    <3>1. captured' > seen'.id
      BY <1>3, <2>1 DEF Inv, Numbered, OnAt
    <3> QED
      BY <1>1, <2>1, <3>1, PhaseTable, StepTable DEF OnAt, StepOf, Stopping
  <2>2. "validate" \in Pcs
    BY DEF Pcs, Deciding
  <2> QED
    BY <1>1, <1>3, <2>1, <2>2, QuietDoneAt
<1> QED
  BY <1>2, <1>3 DEF Capture

LEMMA ValidateStep == ASSUME Inv, NEW p \in Proc, Validate(p) PROVE Inv'
<1>1. /\ At(p, "validate") /\ Holds(p) /\ p = "restore" /\ marker.phase = "none"
      /\ captured > seen.id /\ UNCHANGED <<disk, archives, marker, upload, units>>
  BY InsidePhase, PhaseTable, StepTable DEF Validate, At, Holds, Proc, StepOf
<1>2. \A pc \in {"mark", "reject"} : OnAt(p, pc) => StepOf(p)'
  BY <1>1, PhaseTable, StepTable DEF OnAt, StepOf, Stopping, archives
<1>3. {"mark", "reject"} \subseteq Pcs
  BY DEF Pcs, Deciding
<1>4. CASE Goto(p, "mark") /\ UNCHANGED spent
  BY <1>1, <1>2, <1>3, <1>4, QuietGotoAt DEF Inv, TypeOK
<1>5. CASE Goto(p, "reject") /\ Fault("refused")
  <2>1. spent' \in [FaultKind -> Nat]
    BY <1>5, FaultType DEF Inv, FaultKind
  <2> QED
    BY <1>1, <1>2, <1>3, <1>5, <2>1, QuietGotoAt
<1> QED
  BY <1>4, <1>5 DEF Validate

LEMMA RejectStep == ASSUME Inv, NEW p \in Proc, Reject(p) PROVE Inv'
<1>1. /\ At(p, "reject") /\ Holds(p) /\ p = "restore" /\ marker.phase = "none"
      /\ UNCHANGED <<disk, pending, marker, upload>> /\ captured' = 0 /\ DoneAt(p, "discard")
  BY InsidePhase, PhaseTable, StepTable DEF Reject, At, Holds, Proc
<1>2. OnAt(p, "discard") => StepOf(p)'
  BY <1>1, PhaseTable, StepTable DEF OnAt, StepOf, Stopping
<1>3. "discard" \in Pcs
  BY DEF Pcs, Deciding
<1> QED
  BY <1>1, <1>2, <1>3, QuietDoneAt

LEMMA DiscardStep == ASSUME Inv, NEW p \in Proc, Discard(p) PROVE Inv'
<1> DEFINE next == [Idle EXCEPT !.pc = "post"]
<1>1. /\ At(p, "discard") /\ Holds(p) /\ p = "restore" /\ marker.phase = "none"
      /\ UNCHANGED <<disk, captured, marker, upload>> /\ pending' = 0 /\ Done(p, next)
  BY InsidePhase, PhaseTable, StepTable DEF Discard, At, Holds, Proc
<1>2. next \in Process /\ next.pc = "post"
  BY ProcessType DEF Inv, Pcs
<1>3. marker \in Record
  BY DEF Inv, TypeOK
<1> HIDE DEF next
<1>4. proc'[p] = next => StepOf(p)'
  BY <1>1, <1>2, <1>3, OutsideStep, StepTable
<1> QED
  BY <1>1, <1>2, <1>4, QuietDone

LEMMA ConsumeStep == ASSUME Inv, NEW p \in Proc, Consume(p) PROVE Inv'
<1>1. /\ At(p, "consume") /\ Holds(p) /\ p = "restore" /\ marker.phase = "queued"
      /\ UNCHANGED <<disk, captured, marker, upload>> /\ pending' = 0
  BY InsidePhase, PhaseTable, StepTable DEF Consume, At, Holds, Proc
<1>2. CASE Fail(p) /\ UNCHANGED spent
  BY <1>1, <1>2, QuietFail DEF Inv, TypeOK
<1>3. CASE DoneAt(p, "panel")
  <2>1. OnAt(p, "panel") => StepOf(p)'
    BY <1>1, PhaseTable, StepTable DEF OnAt, StepOf, Stopping
  <2>2. "panel" \in Pcs
    BY DEF Pcs, Stopping
  <2> QED
    BY <1>1, <1>3, <2>1, <2>2, QuietDoneAt
<1> QED
  BY <1>2, <1>3 DEF Consume

LEMMA SettleStep == ASSUME Inv, NEW p \in Proc, Settle(p) PROVE Inv'
<1>1. /\ At(p, "settle") /\ Holds(p) /\ p = "restore" /\ marker.phase = "queued" /\ pending = 0
      /\ UNCHANGED <<disk, pending, captured, marker, upload>> /\ UNCHANGED archives
  BY InsidePhase, PhaseTable, StepTable DEF Settle, At, Holds, Proc, StepOf, Stopping, archives
<1>2. CASE Goto(p, "servers") /\ UNCHANGED <<units, spent>>
  <2>1. OnAt(p, "servers") => StepOf(p)'
    BY <1>1, PhaseTable, StepTable DEF OnAt, StepOf, Stopping
  <2>2. "servers" \in Pcs /\ spent' \in [FaultKind -> Nat]
    BY <1>2 DEF Pcs, Stopping, Inv, TypeOK
  <2> QED
    BY <1>1, <1>2, <2>1, <2>2, QuietGotoAt
<1>3. CASE Fail(p) /\ UNCHANGED spent
  BY <1>1, <1>3, QuietFail DEF Inv, TypeOK
<1>4. CASE Fail(p) /\ Fault("drain")
  <2>1. spent' \in [FaultKind -> Nat]
    BY <1>4, FaultType DEF Inv, FaultKind
  <2> QED
    BY <1>1, <1>4, <2>1, QuietFail
<1> QED
  BY <1>2, <1>3, <1>4 DEF Settle

LEMMA VerifyStep == ASSUME Inv, NEW p \in Proc, Verify(p) PROVE Inv'
<1>1. /\ At(p, "verify") /\ Holds(p) /\ p = "restore" /\ marker.phase = "prepared"
      /\ WrittenFrom(ImageOf(marker.archive), <<>>)
      /\ UNCHANGED <<disk, pending, captured, marker, upload>> /\ UNCHANGED archives
  BY InsidePhase, PhaseTable, StepTable DEF Verify, At, Holds, Proc, StepOf, archives
<1>2. CASE Goto(p, "applied") /\ UNCHANGED <<units, spent>>
  <2>1. WrittenFrom(ImageOf(marker.archive), <<>>)'
    BY <1>1 DEF WrittenFrom, ImageOf
  <2>2. OnAt(p, "applied") => StepOf(p)'
    BY <1>1, <2>1, PhaseTable, StepTable DEF OnAt, StepOf, Stopping
  <2>3. "applied" \in Pcs /\ spent' \in [FaultKind -> Nat]
    BY <1>2 DEF Pcs, Applying, Inv, TypeOK
  <2> QED
    BY <1>1, <1>2, <2>2, <2>3, QuietGotoAt
<1>3. CASE Fail(p) /\ Fault("refused")
  <2>1. spent' \in [FaultKind -> Nat]
    BY <1>3, FaultType DEF Inv, FaultKind
  <2> QED
    BY <1>1, <1>3, <2>1, QuietFail
<1> QED
  BY <1>2, <1>3 DEF Verify

LEMMA DropStep == ASSUME Inv, NEW p \in Proc, Drop(p) PROVE Inv'
<1>1. /\ At(p, "drop") /\ Holds(p) /\ p = "restore" /\ marker.phase \in Closing
      /\ UNCHANGED <<disk, pending, marker, upload>> /\ captured' = 0 /\ DoneAt(p, "reconcile")
  BY InsidePhase, PhaseTable, StepTable DEF Drop, At, Holds, Proc
<1>2. OnAt(p, "reconcile") => StepOf(p)'
  BY <1>1, PhaseTable, StepTable DEF OnAt, StepOf, Stopping
<1>3. "reconcile" \in Pcs
  BY DEF Pcs, Concluding
<1> QED
  BY <1>1, <1>2, <1>3, QuietDoneAt

LEMMA QuarantineStep == ASSUME Inv, NEW p \in Proc, Quarantine(p) PROVE Inv'
<1>1. /\ At(p, "quarantine") /\ Holds(p) /\ p \in {"restore", "recover"}
      /\ marker.phase \in Closing /\ proc[p].rec = marker
      /\ UNCHANGED <<disk, pending, marker, upload>> /\ captured' = 0 /\ DoneAt(p, "unpend")
  BY InsidePhase, PhaseTable, StepTable DEF Quarantine, At, Holds, Proc, StepOf
<1>2. OnAt(p, "unpend") => StepOf(p)'
  BY <1>1, PhaseTable, StepTable DEF OnAt, StepOf, Stopping
<1>3. "unpend" \in Pcs
  BY DEF Pcs, Concluding
<1> QED
  BY <1>1, <1>2, <1>3, QuietDoneAt

LEMMA UnpendStep == ASSUME Inv, NEW p \in Proc, Unpend(p) PROVE Inv'
<1>1. /\ At(p, "unpend") /\ Holds(p) /\ p \in {"restore", "recover"}
      /\ marker.phase \in Closing /\ marker.phase # "none" /\ proc[p].rec = marker
      /\ UNCHANGED <<disk, captured, marker, upload>>
  BY InsidePhase, PhaseTable, StepTable DEF Unpend, At, Holds, Proc, StepOf, Closing
<1>2. CASE pending' = 0 /\ DoneAt(p, "pass")
  <2>1. OnAt(p, "pass") => StepOf(p)'
    BY <1>1, PhaseTable, StepTable DEF OnAt, StepOf, Stopping
  <2>2. "pass" \in Pcs
    BY DEF Pcs, Concluding
  <2> QED
    BY <1>1, <1>2, <2>1, <2>2, QuietDoneAt
<1>3. CASE Fail(p) /\ UNCHANGED <<pending, spent>>
  BY <1>1, <1>3, QuietFail DEF Inv, TypeOK
<1> QED
  BY <1>2, <1>3 DEF Unpend

LEMMA OrphansStep == ASSUME Inv, NEW p \in Proc, Orphans(p) PROVE Inv'
<1>1. /\ At(p, "orphans") /\ Holds(p) /\ p = "recover" /\ marker.phase = "none"
      /\ UNCHANGED <<disk, marker, upload>>
  BY InsidePhase, PhaseTable, StepTable DEF Orphans, At, Holds, Proc
<1>2. \A pc \in {"orphans", "pass"} : OnAt(p, pc) => StepOf(p)'
  BY <1>1, PhaseTable, StepTable DEF OnAt, StepOf, Stopping
<1>3. {"orphans", "pass"} \subseteq Pcs
  BY DEF Pcs, Concluding
<1>4. CASE pending' = 0 /\ DoneAt(p, "orphans") /\ UNCHANGED captured
  BY <1>1, <1>2, <1>3, <1>4, QuietDoneAt
<1>5. CASE captured' = 0 /\ DoneAt(p, "pass") /\ UNCHANGED pending
  BY <1>1, <1>2, <1>3, <1>5, QuietDoneAt
<1> QED
  BY <1>4, <1>5 DEF Orphans

\* The reconciliation goes on with the record it decided on.
LEMMA DecidedStep ==
    ASSUME Inv, NEW p \in Proc, Holds(p), NEW pc \in {"quarantine", "outcome", "rollback"},
           NEW rec \in Record,
           proc' = [proc EXCEPT ![p].pc = pc, ![p].rec = rec, ![p].left = Order],
           UNCHANGED units, UNCHANGED <<disk, archives, marker, upload, spent>>,
           proc'[p].pc = pc /\ proc'[p].rec = rec /\ proc'[p].left = Order => StepOf(p)'
    PROVE  Inv'
<1> DEFINE next == [proc[p] EXCEPT !.pc = pc, !.rec = rec, !.left = Order]
<1>1. next \in Process /\ next.pc = pc /\ next.rec = rec /\ next.left = Order
  <2>1. proc[p] \in Process /\ Order \in Suffixes
    BY ProcessType, SuffixFacts DEF Inv
  <2> QED
    BY <2>1 DEF Process, Suffixes
<1>2. proc' = [proc EXCEPT ![p] = next] /\ proc \in [Proc -> Process]
  BY DEF Inv, TypeOK
<1>3. spent' \in [FaultKind -> Nat]
  BY DEF Inv, TypeOK
<1> HIDE DEF next
<1>4. UNCHANGED <<disk, archives, marker, upload, units>>
  OBVIOUS
<1> QED
  BY <1>1, <1>2, <1>3, <1>4, QuietGoto

LEMMA RecordUpdates ==
    ASSUME TypeOK, NEW image \in Image
    PROVE  /\ RolledBack(image) \in Record /\ RolledBack(image).phase = "disk-consistent"
           /\ RolledBack(image).outcome = "rolled-back" /\ RolledBack(image).old = image
           /\ RolledBack(image).archive = marker.archive
           /\ LET rec == [marker EXCEPT !.phase = "disk-consistent", !.outcome = "applied"]
              IN  /\ rec \in Record /\ rec.phase = "disk-consistent" /\ rec.outcome = "applied"
                  /\ rec.old = marker.old /\ rec.archive = marker.archive
BY DEF TypeOK, Record, RolledBack

LEMMA ReconcileStep == ASSUME Inv, NEW p \in Proc, Reconcile(p) PROVE Inv'
<1> DEFINE applied == [marker EXCEPT !.phase = "disk-consistent", !.outcome = "applied"]
           go(pc, rec) == /\ proc' = [proc EXCEPT ![p].pc = pc, ![p].rec = rec, ![p].left = Order]
                          /\ UNCHANGED units
<1>1. /\ At(p, "reconcile") /\ Holds(p) /\ p \in {"restore", "recover"}
      /\ marker.phase \in {"queued", "prepared", "disk-consistent", "services-pending"}
      /\ UNCHANGED <<disk, archives, marker, upload, spent>>
  BY InsidePhase, PhaseTable, StepTable DEF Reconcile, At, Holds, Proc, Closing
<1>2. TypeOK /\ Recorded /\ disk \in Image /\ marker \in Record /\ marker.old \in Image
  BY DEF Inv, TypeOK, Record
<1>3. RolledBack(disk) \in Record /\ RolledBack(marker.old) \in Record /\ applied \in Record
  BY <1>2, RecordUpdates
<1>5. CASE marker.phase \in Closing /\ go("quarantine", marker)
  <2>1. proc'[p].pc = "quarantine" /\ proc'[p].rec = marker => StepOf(p)'
    BY <1>1, <1>5, PhaseTable, StepTable DEF StepOf, Stopping
  <2> QED
    BY <1>1, <1>2, <1>5, <2>1, DecidedStep
<1>6. CASE marker.phase = "queued" /\ go("outcome", RolledBack(disk))
  <2>1. RolledBack(disk).phase = "disk-consistent" /\ RolledBack(disk).outcome = "rolled-back"
        /\ RolledBack(disk).archive = marker.archive
    BY <1>2, RecordUpdates
  <2>2. Whole(disk) /\ Current /\ UNCHANGED <<disk, seen, marker>>
    BY <1>1, <1>2, <1>6 DEF Recorded, units
  <2> DEFINE rec == RolledBack(disk)
  <2> HIDE DEF rec
  <2>3. rec.phase = "disk-consistent" /\ rec.outcome = "rolled-back" /\ rec.archive = marker.archive
        /\ rec \in Record
    BY <1>3, <2>1 DEF rec
  <2>4. proc'[p].rec = rec => Concluded(proc[p].rec)'
    BY <2>2, <2>3 DEF Concluded, Whole, Current
  <2>5. proc'[p].pc = "outcome" /\ proc'[p].rec = rec => StepOf(p)'
    BY <1>1, <1>6, <2>4, PhaseTable, StepTable DEF StepOf, Stopping
  <2>6. /\ proc' = [proc EXCEPT ![p].pc = "outcome", ![p].rec = rec, ![p].left = Order]
        /\ UNCHANGED units
    BY <1>6 DEF rec
  <2> QED
    BY <1>1, <2>3, <2>5, <2>6, DecidedStep
<1>7. CASE marker.phase = "prepared" /\ IsApplied /\ go("outcome", applied)
  <2>1. applied.phase = "disk-consistent" /\ applied.outcome = "applied"
        /\ applied.archive = marker.archive
    BY <1>2, RecordUpdates
  <2>2. Whole(disk) /\ disk["db"] = marker.archive /\ pending = 0
        /\ UNCHANGED <<disk, pending, marker>>
    BY <1>1, <1>2, <1>7 DEF Recorded, IsApplied, ImageOf, Whole, File, archives
  <2> HIDE DEF applied
  <2>3. proc'[p].rec = applied => Concluded(proc[p].rec)'
    BY <2>1, <2>2 DEF Concluded, Whole
  <2>4. proc'[p].pc = "outcome" /\ proc'[p].rec = applied => StepOf(p)'
    BY <1>1, <1>7, <2>3, PhaseTable, StepTable DEF StepOf, Stopping
  <2> QED
    BY <1>1, <1>3, <1>7, <2>4, DecidedStep
<1>8. CASE marker.phase = "prepared" /\ go("rollback", RolledBack(marker.old))
  <2>1. Listed(Order) = File /\ Order # <<>>
    BY SuffixFacts, SuffixesAre
  <2>2. proc'[p].left = Order => WrittenFrom(marker.old, proc[p].left)'
    BY <2>1 DEF WrittenFrom, File
  <2>3. RolledBack(marker.old)' = RolledBack(marker.old)
    BY <1>1 DEF RolledBack
  <2>4. ASSUME proc'[p].pc = "rollback", proc'[p].rec = RolledBack(marker.old), proc'[p].left = Order
        PROVE  StepOf(p)'
    BY <1>1, <1>8, <2>1, <2>2, <2>3, <2>4, PhaseTable, StepTable DEF StepOf, Stopping
  <2> QED
    BY <1>1, <1>3, <1>8, <2>4, DecidedStep
<1>9. CASE Fail(p)
  BY <1>1, <1>9, QuietFail DEF Inv, TypeOK, archives
<1> QED
  BY <1>1, <1>5, <1>6, <1>7, <1>8, <1>9 DEF Reconcile, Closing

LEMMA DiskFailsStep == ASSUME Inv, NEW p \in Proc, DiskFails(p) PROVE Inv'
<1>1. Holds(p) /\ Fail(p) /\ UNCHANGED <<disk, marker, upload>> /\ UNCHANGED <<pending, captured>>
  BY DEF DiskFails, archives
<1>2. spent' \in [FaultKind -> Nat]
  BY FaultType DEF DiskFails, Inv, FaultKind
<1> QED
  BY <1>1, <1>2, QuietFail

-----------------------------------------------------------------------------
(* Steps of others than the holder of the lock.                            *)

\* What a unit relies on survives when files are only edited, archives only removed,
\* and nothing is started that it has stopped.
LEMMA HolderKeeps ==
    ASSUME Inv, NEW p \in Proc, Holds(p), proc'[p] = proc[p], UNCHANGED <<captured, marker>>,
           pending' \in {pending, 0}, disk'["db"] = disk["db"],
           At(p, "prepare") => up' = {} /\ cleared' = {},
           marker.phase = "none" => seen'.id = seen.id,
           marker.phase = "prepared" => UNCHANGED disk,
           Whole(disk) => Whole(disk)', Current => Current'
    PROVE  StepOf(p)'
<1> DEFINE s == proc[p]
<1>1. StepOf(p) /\ s.pc \in StepsOf(p) /\ marker.phase \in PhasesAt(s.pc)
  BY InsidePhase
<1>2. s.pc \in {"validate", "mark"} => captured' > seen'.id
  BY <1>1, PhaseTable DEF StepOf
<1>3. s.pc = "outcome" => Concluded(proc[p].rec)'
  <2> HAVE s.pc = "outcome"
  <2>1. Concluded(s.rec)
    BY <1>1 DEF StepOf
  <2> QED
    BY <2>1 DEF Concluded
<1>4. marker.phase = "prepared" =>
        \A left : /\ WrittenFrom(ImageOf(marker.archive), left) => WrittenFrom(ImageOf(marker.archive), left)'
                  /\ WrittenFrom(marker.old, left) => WrittenFrom(marker.old, left)'
  BY DEF WrittenFrom, ImageOf
<1>5. RolledBack(marker.old)' = RolledBack(marker.old)
  BY DEF RolledBack
<1>6. s.pc \in {"apply", "verify", "applied", "undo", "undone", "rollback"} => marker.phase = "prepared"
  BY <1>1, PhaseTable
<1>7. /\ s.pc = "apply" => WrittenFrom(ImageOf(marker.archive), proc[p].left)'
      /\ s.pc \in {"verify", "applied"} => WrittenFrom(ImageOf(marker.archive), <<>>)'
      /\ s.pc \in {"undo", "rollback"} => WrittenFrom(marker.old, proc[p].left)'
      /\ s.pc = "undone" => WrittenFrom(marker.old, <<>>)'
  BY <1>1, <1>4, <1>6 DEF StepOf
<1> QED
  BY <1>1, <1>2, <1>3, <1>5, <1>7 DEF StepOf, At

Outside == {"off", "wait", "wanted", "post"}

\* Units may come to wait, to be wanted or to end; the holder goes on as before.
LEMMA AsideStep ==
    ASSUME Inv, UNCHANGED <<captured, marker>>, proc' \in [Proc -> Process],
           \A p \in Proc : proc'[p] = proc[p] \/ proc'[p].pc \in Outside \cap StepsOf(p),
           upload' \in [pc : {"off", "receive", "queue", "unlink"}, id : Id],
           upload'.pc = "receive" => marker.phase = "none" /\ \A p \in Proc : ~Holds(p),
           FilesOK', ServicesOK', seen' \in [id : Id, edits : Nat], spent' \in [FaultKind -> Nat],
           Recorded', Numbered',
           (\E p \in Proc : Holds(p) /\ proc'[p] = proc[p]) =>
              /\ pending' \in {pending, 0} /\ disk'["db"] = disk["db"]
              /\ (\E p \in Proc : At(p, "prepare")) => up' = {} /\ cleared' = {}
              /\ marker.phase = "none" => seen'.id = seen.id
              /\ marker.phase = "prepared" => UNCHANGED disk
              /\ Whole(disk) => Whole(disk)'
              /\ Current => Current'
    PROVE  Inv'
<1>1. TypeOK'
  BY DEF FilesOK, ServicesOK, TypeOK
<1>2. \A p \in Proc : Holds(p)' => Holds(p) /\ proc'[p] = proc[p]
  BY DEF Holds, Outside
<1>3. Exclusive'
  BY <1>2 DEF Inv, Exclusive
<1>4. ASSUME NEW p \in Proc PROVE StepOf(p)'
  <2>1. proc[p].pc \in StepsOf(p) /\ marker' \in Record
    BY InsidePhase DEF FilesOK
  <2>2. CASE Holds(p) /\ proc'[p] = proc[p]
    BY <2>2, HolderKeeps
  <2>3. CASE ~(Holds(p) /\ proc'[p] = proc[p])
    <3>1. proc'[p].pc \in Outside \cap StepsOf(p)
      BY <2>1, <2>3 DEF Holds, Outside
    <3> QED
      BY <2>1, <3>1, OutsideStep DEF Outside
  <2> QED
    BY <2>2, <2>3
<1> QED
  BY <1>1, <1>3, <1>4 DEF Inv, Steps

\* Nothing runs, and nothing may be started, while files are prepared to be replaced.
LEMMA RunningPhase ==
    ASSUME Inv, up # {} \/ cleared # {}
    PROVE  /\ marker.phase # "prepared" /\ Whole(disk) /\ \A p \in Proc : ~At(p, "prepare")
<1>1. \A p \in Proc : ~At(p, "prepare")
  BY InsidePhase DEF At, StepOf
<1> QED
  BY <1>1 DEF Inv, Recorded

\* Facts about numbers.
LEMMA Numbers ==
    ASSUME Inv
    PROVE  /\ Id \subseteq Nat /\ {disk["db"], disk["edits"], seen.edits} \subseteq Nat
           /\ {upload.id, pending, captured, marker.archive, seen.id} \subseteq Id
           /\ upload \in [pc : {"off", "receive", "queue", "unlink"}, id : Id]
<1>1. TypeOK /\ Id \subseteq Nat
  BY ConstantsAssumption DEF Inv, Id
<1>2. disk["db"] \in Nat /\ disk["edits"] \in Nat
  BY <1>1 DEF TypeOK, Image, File
<1>3. marker.archive \in Id
  BY <1>1 DEF TypeOK, Record
<1>4. seen.id \in Id /\ seen.edits \in Nat
  BY <1>1 DEF TypeOK
<1>5. upload \in [pc : {"off", "receive", "queue", "unlink"}, id : Id] /\ upload.id \in Id
  BY <1>1 DEF TypeOK
<1> QED
  BY <1>1, <1>2, <1>3, <1>4, <1>5 DEF TypeOK

LEMMA EditStep == ASSUME Inv, Edit PROVE Inv'
<1>1. /\ "panel" \in up /\ UNCHANGED <<pending, captured, marker, upload, proc, job, cleared, up, spent>>
      /\ disk' = [disk EXCEPT !["edits"] = @ + 1]
      /\ seen' = [id |-> disk["db"], edits |-> disk["edits"] + 1]
  BY DEF Edit, archives
<1>2. /\ marker.phase # "prepared" /\ Whole(disk) /\ Current
      /\ \A p \in Proc : ~At(p, "prepare")
  BY <1>1, RunningPhase DEF Inv, Recorded
<1>3. disk \in Image /\ disk["edits"] + 1 \in Nat /\ seen.id = disk["db"] /\ seen.id \in Id
  BY <1>2, Numbers DEF Inv, TypeOK, Current
<1>4. /\ disk' \in Image /\ \A f \in File : disk'[f] = disk[f]
      /\ disk'["edits"] = disk["edits"] + 1 /\ seen'.id = seen.id /\ seen'.edits = disk'["edits"]
  BY <1>1, <1>3 DEF Image, File
<1>5. Whole(disk)' /\ Current' /\ disk'["db"] = disk["db"]
  BY <1>2, <1>3, <1>4 DEF Whole, Current, File
<1>6. Recorded'
  BY <1>1, <1>2, <1>5 DEF Inv, Recorded
<1>7. Numbered'
  BY <1>1, <1>4 DEF Inv, Numbered
<1>8. FilesOK' /\ ServicesOK' /\ seen' \in [id : Id, edits : Nat]
  BY <1>1, <1>3, <1>4 DEF Inv, TypeOK, FilesOK, ServicesOK
<1> QED
  BY <1>1, <1>2, <1>4, <1>5, <1>6, <1>7, <1>8, AsideStep DEF Inv, TypeOK, Exclusive

LEMMA BeginUploadStep == ASSUME Inv, BeginUpload PROVE Inv'
<1>1. /\ UNCHANGED <<disk, pending, captured, marker, proc, job, cleared, up, seen, spent>>
      /\ upload' = [pc |-> "receive", id |-> upload.id + 1] /\ upload.id < MaxUploads
      /\ marker.phase = "none" /\ \A p \in Proc : ~Holds(p)
  BY DEF BeginUpload, archives, units
<1>2. upload.id \in Nat /\ upload.id + 1 \in Id /\ Id \subseteq Nat
  BY <1>1, Numbers, ConstantsAssumption DEF Id
<1>3. Recorded' /\ FilesOK' /\ ServicesOK'
  BY <1>1 DEF Inv, TypeOK, Recorded, FilesOK, ServicesOK, Whole, Current
<1>4. Numbered'
  BY <1>1, <1>2, Numbers DEF Inv, Numbered
<1>5. upload' \in [pc : {"off", "receive", "queue", "unlink"}, id : Id]
  BY <1>1, <1>2
<1> QED
  BY <1>1, <1>3, <1>4, <1>5, AsideStep DEF Inv, TypeOK

LEMMA LinkStep == ASSUME Inv, Link PROVE Inv'
<1>1. /\ UNCHANGED <<disk, captured, marker, proc, job, cleared, up, seen, spent>>
      /\ upload.pc = "receive" /\ pending' \in {pending, upload.id}
      /\ upload' = [upload EXCEPT !.pc = IF pending = 0 THEN "queue" ELSE "off"]
      /\ marker.phase = "none" /\ \A p \in Proc : ~Holds(p)
  BY DEF Link, units, Inv, Exclusive
<1>2. /\ upload'.pc # "receive" /\ upload'.id = upload.id
      /\ upload' \in [pc : {"off", "receive", "queue", "unlink"}, id : Id]
  BY <1>1, Numbers
<1>3. Recorded' /\ FilesOK' /\ ServicesOK'
  BY <1>1, Numbers DEF Inv, TypeOK, Recorded, FilesOK, ServicesOK, Whole, Current, Closing
<1>4. Numbered'
  BY <1>1, <1>2, Numbers DEF Inv, Numbered
<1> QED
  BY <1>1, <1>2, <1>3, <1>4, AsideStep DEF Inv, TypeOK

\* Services stop, jobs are queued, units come and go: the files stay as they are.
LEMMA CalmStep ==
    ASSUME Inv, UNCHANGED <<disk, captured, marker, seen>>, pending' \in {pending, 0},
           up' \subseteq up, cleared' \subseteq cleared \/ marker.phase = "none", ServicesOK',
           upload'.id = upload.id, upload'.pc = "receive" => upload.pc = "receive",
           upload' \in [pc : {"off", "receive", "queue", "unlink"}, id : Id],
           spent' \in [FaultKind -> Nat], proc' \in [Proc -> Process],
           \A p \in Proc : proc'[p] = proc[p] \/ proc'[p].pc \in Outside \cap StepsOf(p)
    PROVE  Inv'
<1>1. Recorded' /\ FilesOK'
  BY Numbers, ConstantsAssumption DEF Inv, TypeOK, Recorded, FilesOK, Whole, Current, Id
<1>2. Numbered'
  BY Numbers, ConstantsAssumption DEF Inv, Numbered, Id
<1>3. ASSUME NEW p \in Proc, At(p, "prepare") PROVE up' = {} /\ cleared' = {}
  <2>1. up = {} /\ cleared = {} /\ marker.phase = "queued"
    BY <1>3, InsidePhase, PhaseTable DEF At, StepOf
  <2> QED
    BY <2>1
<1> QED
  BY <1>1, <1>2, <1>3, AsideStep DEF Inv, TypeOK, Exclusive, Whole, Current

LEMMA QueueStep == ASSUME Inv, Queue PROVE Inv'
<1>1. /\ UNCHANGED <<disk, pending, captured, marker, seen, up, cleared, job>>
      /\ upload.pc = "queue" /\ ~At("restore", "post")
      /\ upload' \in {[upload EXCEPT !.pc = "off"], [upload EXCEPT !.pc = "unlink"]}
      /\ UNCHANGED spent \/ Fault("queue")
      /\ \/ UNCHANGED proc
         \/ proc' = [proc EXCEPT !["restore"].pc = IF @ = "off" THEN "wait" ELSE @]
  BY DEF Queue, archives, units
<1>2. spent' \in [FaultKind -> Nat]
  BY <1>1, FaultType DEF Inv, TypeOK, FaultKind
<1>3. /\ upload' \in [pc : {"off", "receive", "queue", "unlink"}, id : Id]
      /\ upload'.id = upload.id /\ upload'.pc # "receive"
  BY <1>1, Numbers
<1>4. ServicesOK'
  BY <1>1 DEF Inv, TypeOK, ServicesOK
<1>5. /\ proc' \in [Proc -> Process]
      /\ \A p \in Proc : proc'[p] = proc[p] \/ proc'[p].pc \in Outside \cap StepsOf(p)
  <2>1. CASE UNCHANGED proc
    BY <2>1 DEF Inv, TypeOK
  <2>2. CASE proc' = [proc EXCEPT !["restore"].pc = IF @ = "off" THEN "wait" ELSE @]
    <3>1. TypeOK /\ "restore" \in Proc /\ proc \in [Proc -> Process]
      BY DEF Inv, TypeOK, Proc
    <3>2. CASE At("restore", "off")
      <4>1. "wait" \in Pcs /\ "wait" \in Outside \cap StepsOf("restore")
        BY StepTable DEF Pcs, Outside
      <4>2. proc' = [proc EXCEPT !["restore"].pc = "wait"]
        BY <2>2, <3>2 DEF At
      <4>3. Alone("restore") /\ proc'["restore"].pc = "wait"
        BY <3>1, <4>1, <4>2, GotoAlone
      <4> QED
        BY <4>1, <4>3 DEF Alone
    <3>3. CASE ~At("restore", "off")
      <4>1. proc' = [proc EXCEPT !["restore"].pc = proc["restore"].pc]
        BY <2>2, <3>3 DEF At
      <4>2. [proc["restore"] EXCEPT !.pc = proc["restore"].pc] = proc["restore"]
        BY <3>1 DEF Process
      <4>3. proc' = proc
        BY <3>1, <4>1, <4>2
      <4> QED
        BY <3>1, <4>3
    <3> QED
      BY <3>2, <3>3
  <2> QED
    BY <1>1, <2>1, <2>2
<1> QED
  BY <1>1, <1>2, <1>3, <1>4, <1>5, CalmStep

LEMMA UnlinkUploadStep == ASSUME Inv, UnlinkUpload PROVE Inv'
<1>1. /\ UNCHANGED <<disk, captured, marker, seen, up, cleared, job, spent, proc>>
      /\ pending' = 0 /\ upload' = [upload EXCEPT !.pc = "off"]
  BY DEF UnlinkUpload, units
<1>2. /\ upload' \in [pc : {"off", "receive", "queue", "unlink"}, id : Id]
      /\ upload'.id = upload.id /\ upload'.pc # "receive"
  BY <1>1, Numbers
<1> QED
  BY <1>1, <1>2, CalmStep DEF Inv, TypeOK, ServicesOK

LEMMA StartRecoverStep == ASSUME Inv, StartRecover PROVE Inv'
<1>1. /\ UNCHANGED <<disk, pending, captured, marker, upload, job, up, seen, spent>>
      /\ At("recover", "off") /\ job # cleared
      /\ \/ marker.phase = "none" /\ cleared' = job /\ UNCHANGED proc
         \/ Goto("recover", "wait") /\ UNCHANGED cleared
  BY DEF StartRecover, archives
<1>2. ServicesOK' /\ spent' \in [FaultKind -> Nat]
  BY <1>1 DEF Inv, TypeOK, ServicesOK
<1>3. "wait" \in Pcs /\ "wait" \in Outside \cap StepsOf("recover") /\ "recover" \in Proc
  BY StepTable DEF Pcs, Outside, Proc
<1>4. /\ proc' \in [Proc -> Process]
      /\ \A p \in Proc : proc'[p] = proc[p] \/ proc'[p].pc \in Outside \cap StepsOf(p)
  <2>1. CASE UNCHANGED proc
    BY <2>1 DEF Inv, TypeOK
  <2>2. CASE Goto("recover", "wait")
    BY <1>3, <2>2, GotoAlone DEF Goto, Inv, Alone
  <2> QED
    BY <1>1, <2>1, <2>2
<1> QED
  BY <1>1, <1>2, <1>4, Numbers, CalmStep

LEMMA ResumeStep == ASSUME Inv, NEW p \in Proc, Resume(p) PROVE Inv'
<1>1. /\ UNCHANGED <<disk, pending, captured, marker, upload, job, cleared, up, seen, spent>>
      /\ At(p, "wanted") /\ Goto(p, IF marker.phase = "none" THEN "off" ELSE "wait")
  BY DEF Resume, archives, units
<1>2. p = "resume"
  BY <1>1, InsidePhase, StepTable DEF At, Proc
<1>3. \A pc \in {"off", "wait"} : pc \in Pcs /\ pc \in Outside \cap StepsOf(p)
  BY <1>2, StepTable DEF Pcs, Outside
<1>4. /\ proc' \in [Proc -> Process]
      /\ \A q \in Proc : proc'[q] = proc[q] \/ proc'[q].pc \in Outside \cap StepsOf(q)
  <2>1. PICK pc \in {"off", "wait"} : proc' = [proc EXCEPT ![p].pc = pc]
    BY <1>1 DEF Goto
  <2> QED
    BY <1>3, <2>1, GotoAlone DEF Inv, Alone
<1>5. ServicesOK' /\ spent' \in [FaultKind -> Nat]
  BY <1>1 DEF Inv, TypeOK, ServicesOK
<1> QED
  BY <1>1, <1>4, <1>5, Numbers, CalmStep

LEMMA CrashStep == ASSUME Inv, NEW s \in Service, Crash(s) PROVE Inv'
<1>1. /\ UNCHANGED <<disk, pending, captured, marker, proc, seen>> /\ s \in up /\ Fault("crash")
      /\ up' = up \ {s} /\ job' = job \cup {s} /\ cleared' = {}
      /\ upload' \in {upload, [upload EXCEPT !.pc = "off"]}
  BY DEF Crash, archives, Enqueue
<1>2. spent' \in [FaultKind -> Nat]
  BY <1>1, FaultType DEF Inv, FaultKind
<1>3. ServicesOK'
  BY <1>1 DEF Inv, TypeOK, ServicesOK
<1>4. /\ upload' \in [pc : {"off", "receive", "queue", "unlink"}, id : Id]
      /\ upload'.id = upload.id /\ (upload'.pc = "receive" => upload.pc = "receive")
  BY <1>1, Numbers
<1> QED
  BY <1>1, <1>2, <1>3, <1>4, CalmStep DEF Inv, TypeOK

LEMMA PowerLossStep == ASSUME Inv, PowerLoss PROVE Inv'
<1>1. /\ UNCHANGED <<disk, pending, captured, marker, seen>> /\ Fault("power")
      /\ up' = {} /\ job' = Service /\ cleared' = {} /\ upload' = [upload EXCEPT !.pc = "off"]
      /\ proc' = [p \in Proc |-> IF p = "resume" THEN [Idle EXCEPT !.pc = "wanted"] ELSE Idle]
  BY DEF PowerLoss, archives
<1>2. spent' \in [FaultKind -> Nat]
  BY <1>1, FaultType DEF Inv, FaultKind
<1>3. ServicesOK'
  BY <1>1 DEF Inv, TypeOK, ServicesOK
<1>4. /\ upload' \in [pc : {"off", "receive", "queue", "unlink"}, id : Id]
      /\ upload'.id = upload.id /\ upload'.pc # "receive"
  BY <1>1, Numbers
<1>5. /\ Idle \in Process /\ Idle.pc = "off" /\ [Idle EXCEPT !.pc = "wanted"] \in Process
      /\ [Idle EXCEPT !.pc = "wanted"].pc = "wanted"
  BY ProcessType DEF Inv, Pcs, Proc
<1>6. /\ proc' \in [Proc -> Process]
      /\ \A p \in Proc : proc'[p].pc \in Outside \cap StepsOf(p)
  BY <1>1, <1>5, StepTable DEF Proc, Outside
<1> QED
  BY <1>1, <1>2, <1>3, <1>4, <1>6, CalmStep

LEMMA KillStep == ASSUME Inv, NEW p \in Proc, Kill(p) PROVE Inv'
<1>1. /\ UNCHANGED <<disk, pending, captured, marker, upload, seen, up, cleared>> /\ Fault("kill")
      /\ proc' = [proc EXCEPT ![p] = IF p = "restore" THEN [Idle EXCEPT !.pc = "post"] ELSE Idle]
      /\ job' \in {job, job \cap cleared}
  BY DEF Kill, archives
<1>2. spent' \in [FaultKind -> Nat]
  BY <1>1, FaultType DEF Inv, FaultKind
<1>3. ServicesOK'
  BY <1>1 DEF Inv, TypeOK, ServicesOK
<1>4. /\ Idle \in Process /\ Idle.pc = "off" /\ [Idle EXCEPT !.pc = "post"] \in Process
      /\ [Idle EXCEPT !.pc = "post"].pc = "post"
  BY ProcessType DEF Inv, Pcs
<1> DEFINE next == IF p = "restore" THEN [Idle EXCEPT !.pc = "post"] ELSE Idle
<1>5. next \in Process /\ next.pc \in Outside \cap StepsOf(p)
  BY <1>4, StepTable DEF Outside, Proc
<1> HIDE DEF next
<1>6. proc' = [proc EXCEPT ![p] = next]
  BY <1>1 DEF next
<1>7. Alone(p) /\ proc'[p] = next
  BY <1>5, <1>6, BecomesAlone DEF Inv
<1> QED
  BY <1>1, <1>2, <1>3, <1>5, <1>7, Numbers, CalmStep DEF Alone

LEMMA PostStep == ASSUME Inv, Post PROVE Inv'
<1>1. /\ UNCHANGED <<disk, pending, captured, marker, upload, up, seen, spent>>
      /\ proc' = [proc EXCEPT !["restore"] = Idle,
                              !["resume"].pc = IF @ = "off" THEN "wanted" ELSE @]
      /\ job' = job \cup (Service \ up) /\ cleared' = {}
  BY DEF Post, archives, Enqueue
<1>2. ServicesOK' /\ spent' \in [FaultKind -> Nat]
  BY <1>1 DEF Inv, TypeOK, ServicesOK
<1>3. /\ TypeOK /\ proc \in [Proc -> Process] /\ proc["resume"] \in Process
      /\ Idle \in Process /\ Idle.pc = "off" /\ {"restore", "resume"} \subseteq Proc
  BY ProcessType DEF Inv, TypeOK, Proc
<1> DEFINE next == [proc["resume"] EXCEPT !.pc = IF @ = "off" THEN "wanted" ELSE @]
<1>4. next \in Process /\ (next = proc["resume"] \/ next.pc = "wanted")
  <2>1. [proc["resume"] EXCEPT !.pc = "wanted"] \in Process
        /\ [proc["resume"] EXCEPT !.pc = "wanted"].pc = "wanted"
    BY <1>3 DEF Process
  <2>2. CASE proc["resume"].pc = "off"
    BY <2>1, <2>2
  <2>3. CASE proc["resume"].pc # "off"
    <3>1. next = [proc["resume"] EXCEPT !.pc = proc["resume"].pc]
      BY <2>3
    <3>2. next = proc["resume"]
      BY <1>3, <3>1 DEF Process
    <3> QED
      BY <1>3, <3>2
  <2> QED
    BY <2>2, <2>3
<1>5. proc' = [proc EXCEPT !["restore"] = Idle, !["resume"] = next]
  BY <1>1, <1>3
<1> HIDE DEF next
<1>6. /\ proc' \in [Proc -> Process] /\ proc'["restore"] = Idle /\ proc'["resume"] = next
      /\ \A p \in Proc : p = "restore" \/ p = "resume" \/ proc'[p] = proc[p]
  BY <1>3, <1>4, <1>5
<1>7. \A p \in Proc : proc'[p] = proc[p] \/ proc'[p].pc \in Outside \cap StepsOf(p)
  BY <1>3, <1>4, <1>6, StepTable DEF Outside
<1> QED
  BY <1>1, <1>2, <1>6, <1>7, Numbers, CalmStep

\* A panel that starts serves what the recovery left on disk: never something older.
LEMMA StartStep == ASSUME Inv, NEW s \in Service, Start(s) PROVE Inv'
<1>1. /\ UNCHANGED <<disk, pending, captured, marker, upload, proc, spent>> /\ s \in cleared
      /\ up' = up \cup {s} /\ job' = job \ {s} /\ cleared' = cleared \ {s}
      /\ seen' = IF s = "panel" THEN [id |-> disk["db"], edits |-> disk["edits"]] ELSE seen
  BY DEF Start, archives
<1>2. /\ marker.phase # "prepared" /\ Whole(disk) /\ \A p \in Proc : ~At(p, "prepare")
  BY <1>1, RunningPhase
<1>3. disk["db"] \in Nat /\ disk["edits"] \in Nat /\ seen.id \in Nat /\ marker.archive \in Nat
  BY Numbers
<1>4. marker.phase \in {"none", "queued"} \cup Closing
  BY <1>2 DEF Inv, TypeOK, Record, Closing
<1>5. /\ Current \/ (marker.phase \in Closing /\ pending = 0 /\ disk["db"] = marker.archive)
      /\ disk["db"] \in 0..upload.id
  BY <1>4 DEF Inv, Recorded, Numbered, Current
<1>6. disk["db"] \in Id
  BY <1>5, Numbers DEF Current
<1>7. /\ seen' \in [id : Id, edits : Nat] /\ seen'.id \in {seen.id, disk["db"]}
      /\ Current => Current' /\ seen'.id = seen.id
      /\ Current' \/ UNCHANGED seen
      /\ s = "panel" => Current'
  <2>1. CASE s = "panel"
    BY <1>1, <1>3, <1>6, <2>1 DEF Current
  <2>2. CASE s # "panel"
    BY <1>1, <2>2 DEF Inv, TypeOK, Current
  <2> QED
    BY <2>1, <2>2
<1>8. Whole(disk)'
  BY <1>1, <1>2 DEF Whole
<1>9. Recorded'
  <2>1. marker.phase \in Closing => 
          \/ marker.outcome = "rolled-back" /\ Current'
          \/ /\ marker.outcome = "applied" /\ pending = 0 /\ disk["db"] = marker.archive
             /\ (Current' \/ marker.archive > seen'.id)
    BY <1>1, <1>7 DEF Inv, Recorded
  <2>2. "panel" \in up' => Current'
    BY <1>1, <1>7 DEF Inv, Recorded
  <2>3. marker.phase \in {"none", "queued"} => Current'
    BY <1>7 DEF Inv, Recorded
  <2> QED
    BY <1>1, <1>2, <1>8, <2>1, <2>2, <2>3 DEF Recorded
<1>10. Numbered'
  <2>1. upload.pc = "receive" => Current
    BY DEF Inv, Exclusive, Recorded
  <2> QED
    BY <1>1, <1>2, <1>4, <1>5, <1>7, <2>1, Numbers DEF Inv, Numbered, Recorded, Closing
<1>11. FilesOK' /\ ServicesOK' /\ spent' \in [FaultKind -> Nat]
  BY <1>1 DEF Inv, TypeOK, FilesOK, ServicesOK
<1>12. marker.phase = "none" => Current
  BY DEF Inv, Recorded
<1>13. /\ proc' \in [Proc -> Process] /\ \A p \in Proc : proc'[p] = proc[p]
       /\ upload' \in [pc : {"off", "receive", "queue", "unlink"}, id : Id]
       /\ upload'.pc = "receive" => marker.phase = "none" /\ \A p \in Proc : ~Holds(p)
  BY <1>1, Numbers DEF Inv, TypeOK, Exclusive
<1> QED
  BY <1>1, <1>2, <1>7, <1>8, <1>9, <1>10, <1>11, <1>12, <1>13, AsideStep

LEMMA AcquireStep == ASSUME Inv, NEW p \in Proc, Acquire(p) PROVE Inv'
<1> DEFINE next ==
      CASE p = "restore" -> [Idle EXCEPT !.pc = IF marker.phase = "none" THEN "capture" ELSE "post"]
        [] p = "recover" -> [Idle EXCEPT !.pc = IF marker.phase = "none" THEN "orphans" ELSE "reconcile"]
        [] p = "resume" -> IF marker.phase = "services-pending" THEN [Idle EXCEPT !.pc = "health"] ELSE Idle
<1>1. /\ LockFree /\ proc' = [proc EXCEPT ![p] = next]
      /\ UNCHANGED <<disk, pending, captured, marker, upload, job, cleared, up, seen, spent>>
  BY DEF Acquire, archives, units
<1>2. TypeOK /\ Idle \in Process /\ Idle.pc = "off"
      /\ \A pc \in {"capture", "post", "orphans", "reconcile", "health"} :
            [Idle EXCEPT !.pc = pc] \in Process /\ [Idle EXCEPT !.pc = pc].pc = pc
  BY ProcessType DEF Inv, Pcs, Deciding, Concluding
<1>3. /\ next \in Process
      /\ \/ p = "restore" /\ next.pc = "capture" /\ marker.phase = "none"
         \/ p = "recover" /\ next.pc = "orphans" /\ marker.phase = "none"
         \/ p = "recover" /\ next.pc = "reconcile" /\ marker.phase # "none"
         \/ p = "resume" /\ next.pc = "health" /\ marker.phase = "services-pending"
         \/ next.pc \in {"off", "wait", "wanted", "post"} \cap StepsOf(p)
  <2>1. CASE p = "restore"
    BY <1>2, <2>1, StepTable
  <2>2. CASE p = "recover"
    BY <1>2, <2>2, StepTable
  <2>3. CASE p = "resume"
    BY <1>2, <2>3, StepTable
  <2> QED
    BY <2>1, <2>2, <2>3 DEF Proc
<1> HIDE DEF next
<1>4. Alone(p) /\ proc'[p] = next /\ marker' \in Record
  BY <1>1, <1>2, <1>3, BecomesAlone DEF TypeOK
<1>5. marker.phase # "none" => marker.phase \in Closing \cup {"queued", "prepared"}
  BY <1>2 DEF TypeOK, Record, Closing
<1>6. StepOf(p)'
  <2>1. CASE next.pc \in {"off", "wait", "wanted", "post"} \cap StepsOf(p)
    BY <1>4, <2>1, OutsideStep
  <2>2. CASE next.pc \in {"capture", "orphans", "reconcile", "health"}
    BY <1>1, <1>3, <1>4, <1>5, <2>2, PhaseTable, StepTable DEF StepOf, Stopping
  <2> QED
    BY <1>3, <2>1, <2>2
<1>7. ASSUME NEW q \in Proc, q # p PROVE StepOf(q)' /\ ~Holds(q)'
  <2>1. proc'[q] = proc[q] /\ ~Holds(q) /\ proc[q].pc \in StepsOf(q)
    BY <1>1, <1>4, <1>7, InsidePhase DEF Alone, LockFree
  <2> QED
    BY <1>4, <2>1, OutsideStep DEF Holds
<1>8. Exclusive'
  BY <1>1, <1>7 DEF Exclusive, LockFree
<1>9. TypeOK' /\ Recorded' /\ Numbered'
  BY <1>1, <1>4 DEF Inv, TypeOK, Recorded, Numbered, Whole, Current, Alone
<1> QED
  BY <1>6, <1>7, <1>8, <1>9 DEF Inv, Steps

-----------------------------------------------------------------------------
(* The services are stopped.                                               *)

\* Fewer services run; files, archives and record stay.
LEMMA StoppedFacts ==
    ASSUME Inv, UNCHANGED <<disk, pending, captured, marker, seen>>, up' \subseteq up,
           cleared' = cleared, job' \subseteq job, cleared \subseteq job',
           upload' \in {upload, [upload EXCEPT !.pc = "off"]}
    PROVE  FilesOK' /\ ServicesOK' /\ seen' \in [id : Id, edits : Nat] /\ Recorded' /\ Numbered'
<1>1. FilesOK' /\ ServicesOK' /\ seen' \in [id : Id, edits : Nat]
  BY DEF Inv, TypeOK, FilesOK, ServicesOK
<1>2. Recorded'
  BY DEF Inv, Recorded, Whole, Current
<1>3. upload'.id = upload.id /\ (upload'.pc = "receive" => upload.pc = "receive")
  BY Numbers
<1>4. Numbered'
  BY <1>3 DEF Inv, Numbered
<1> QED
  BY <1>1, <1>2, <1>4

LEMMA StopPanelStep == ASSUME Inv, NEW p \in Proc, StopPanel(p) PROVE Inv'
<1>1. /\ At(p, "panel") /\ Holds(p) /\ p = "restore" /\ marker.phase = "queued" /\ pending = 0
      /\ UNCHANGED <<disk, pending, captured, marker, spent>>
  BY InsidePhase, PhaseTable, StepTable DEF StopPanel, At, Holds, Proc, StepOf, Stopping, archives
<1>2. CASE /\ up' = up \ {"panel"} /\ upload' = [upload EXCEPT !.pc = "off"]
           /\ Goto(p, "settle") /\ UNCHANGED <<job, cleared, seen>>
  <2>1. FilesOK' /\ ServicesOK' /\ seen' \in [id : Id, edits : Nat] /\ Recorded' /\ Numbered'
    BY <1>1, <1>2, StoppedFacts DEF Inv, TypeOK
  <2>2. Alone(p) /\ proc'[p].pc = "settle"
    BY <1>2, GotoAlone DEF Goto, Inv, Pcs, Stopping
  <2>3. StepOf(p)'
    BY <1>1, <2>2, PhaseTable, StepTable DEF StepOf, Stopping
  <2> QED
    BY <1>1, <1>2, <2>1, <2>2, <2>3, HolderStep DEF Inv, TypeOK
<1>3. CASE Fail(p) /\ UNCHANGED upload
  BY <1>1, <1>3, QuietFail DEF Inv, TypeOK
<1> QED
  BY <1>2, <1>3 DEF StopPanel

LEMMA StopServicesStep == ASSUME Inv, NEW p \in Proc, StopServices(p) PROVE Inv'
<1>1. /\ At(p, "servers") /\ Holds(p) /\ p = "restore" /\ marker.phase = "queued" /\ pending = 0
      /\ UNCHANGED <<disk, pending, captured, marker, upload, cleared, seen, spent>>
      /\ cleared = {} /\ up' = {} /\ job' \in {job, {}} /\ Goto(p, "prepare")
  BY InsidePhase, PhaseTable, StepTable
  DEF StopServices, Prompt, At, Holds, Proc, StepOf, Stopping, archives
<1>2. FilesOK' /\ ServicesOK' /\ seen' \in [id : Id, edits : Nat] /\ Recorded' /\ Numbered'
  BY <1>1, StoppedFacts
<1>3. Alone(p) /\ proc'[p].pc = "prepare"
  BY <1>1, GotoAlone DEF Goto, Inv, Pcs, Stopping
<1>4. StepOf(p)'
  BY <1>1, <1>3, PhaseTable, StepTable DEF StepOf, Stopping
<1> QED
  BY <1>1, <1>2, <1>3, <1>4, HolderStep DEF Inv, TypeOK

LEMMA StopFailsStep == ASSUME Inv, NEW p \in Proc, StopFails(p) PROVE Inv'
<1>1. /\ At(p, "panel") \/ At(p, "servers")
      /\ UNCHANGED <<disk, pending, captured, marker, job, cleared, seen>> /\ up' \subseteq up
      /\ Fault("unit") /\ proc' = [proc EXCEPT ![p] = Raised(p)]
      /\ upload' \in {upload, [upload EXCEPT !.pc = "off"]}
  BY DEF StopFails, archives
<1>2. Holds(p) /\ p = "restore" /\ marker.phase = "queued"
  BY <1>1, InsidePhase, PhaseTable, StepTable DEF At, Holds, Proc
<1>3. FilesOK' /\ ServicesOK' /\ seen' \in [id : Id, edits : Nat] /\ Recorded' /\ Numbered'
  BY <1>1, StoppedFacts DEF Inv, TypeOK
<1>4. Raised(p) \in Process
  BY <1>2, RaisedIs, InsidePhase DEF Inv
<1>5. Alone(p) /\ proc'[p] = Raised(p) /\ marker' \in Record
  BY <1>1, <1>4, BecomesAlone DEF Inv, TypeOK
<1>6. StepOf(p)'
  BY <1>1, <1>2, <1>5, RaisedStep DEF At
<1>7. spent' \in [FaultKind -> Nat]
  BY <1>1, FaultType DEF Inv, FaultKind
<1> QED
  BY <1>1, <1>2, <1>3, <1>5, <1>6, <1>7, HolderStep

-----------------------------------------------------------------------------
(* The record is written.                                                  *)

LEMMA DoneAtStep ==
    ASSUME Inv, NEW p \in Proc, Holds(p), NEW pc \in Pcs, DoneAt(p, pc), UNCHANGED upload,
           proc[p].pc \in {"apply", "verify"} => marker'.phase = "prepared",
           proc[p].pc \in Inside /\ p = "restore" => marker'.phase # "none",
           FilesOK', UNCHANGED <<cleared, up, seen>> => Recorded' /\ Numbered',
           OnAt(p, pc) => StepOf(p)'
    PROVE  Inv'
<1> DEFINE next == [proc[p] EXCEPT !.pc = pc]
<1>1. next \in Process /\ next.pc = pc /\ next.left = proc[p].left /\ next.rec = proc[p].rec
  <2>1. proc[p] \in Process /\ next \in Process
    BY ProcessType DEF Inv
  <2> QED
    BY <2>1 DEF Process
<1>2. Done(p, next)
  BY DEF DoneAt
<1> HIDE DEF next
<1> QED
  BY <1>1, <1>2, DoneStep DEF OnAt

LEMMA MarkStep == ASSUME Inv, NEW p \in Proc, Mark(p) PROVE Inv'
<1>1. /\ At(p, "mark") /\ Holds(p) /\ p = "restore" /\ marker.phase = "none" /\ captured > seen.id
      /\ UNCHANGED <<disk, pending, captured, upload>> /\ DoneAt(p, "consume")
      /\ marker' = [NoRecord EXCEPT !.phase = "queued", !.archive = captured]
  BY InsidePhase, PhaseTable, StepTable DEF Mark, At, Holds, Proc, StepOf, archives
<1>2. NoRecord \in Record /\ captured \in Id
  BY ProcessType, Numbers DEF Inv
<1>3. marker' \in Record /\ marker'.phase = "queued" /\ marker'.archive = captured
  BY <1>1, <1>2 DEF Record
<1>4. ASSUME UNCHANGED <<cleared, up, seen>> PROVE Recorded' /\ Numbered'
  <2>1. Recorded'
    BY <1>1, <1>3, <1>4 DEF Inv, Recorded, Whole, Current, Closing
  <2> QED
    BY <1>1, <1>3, <1>4, <2>1, Numbers DEF Inv, Numbered, Exclusive
<1>5. FilesOK'
  BY <1>1, <1>3 DEF Inv, TypeOK, FilesOK
<1>6. OnAt(p, "consume") => StepOf(p)'
  BY <1>1, <1>3, PhaseTable, StepTable DEF OnAt, StepOf, Stopping
<1>7. "consume" \in Pcs
  BY DEF Pcs
<1> QED
  BY <1>1, <1>3, <1>4, <1>5, <1>6, <1>7, DoneAtStep DEF At

LEMMA PrepareStep == ASSUME Inv, NEW p \in Proc, Prepare(p) PROVE Inv'
<1>1. /\ At(p, "prepare") /\ Holds(p) /\ p = "restore" /\ marker.phase = "queued"
      /\ pending = 0 /\ up = {} /\ cleared = {}
      /\ UNCHANGED <<disk, pending, captured, upload>>
  BY InsidePhase, PhaseTable, StepTable DEF Prepare, At, Holds, Proc, StepOf, Stopping, archives
<1> DEFINE next == [proc[p] EXCEPT !.pc = "apply", !.left = Order]
<1>2. CASE marker' = [marker EXCEPT !.phase = "prepared", !.old = disk] /\ Done(p, next)
  <2>1. /\ marker' \in Record /\ marker'.phase = "prepared" /\ marker'.old = disk
        /\ marker'.archive = marker.archive
    BY <1>2 DEF Inv, TypeOK, Record
  <2>2. next \in Process /\ next.pc = "apply" /\ next.left = Order
    <3>1. proc[p] \in Process /\ Order \in Suffixes
      BY ProcessType, SuffixFacts DEF Inv
    <3> QED
      BY <3>1 DEF Process, Suffixes
  <2>3. ASSUME UNCHANGED <<cleared, up, seen>> PROVE Recorded' /\ Numbered'
    <3>1. Recorded'
      BY <1>1, <2>1, <2>3 DEF Inv, Recorded, Whole, Current, Closing
    <3> QED
      BY <1>1, <2>1, <2>3, <3>1, Numbers DEF Inv, Numbered
  <2>4. FilesOK'
    BY <1>1, <2>1 DEF Inv, TypeOK, FilesOK
  <2> HIDE DEF next
  <2>5. ASSUME proc'[p] = next PROVE StepOf(p)'
    <3>1. Listed(Order) = File /\ Order # <<>> /\ "db" \in File
      BY SuffixFacts, SuffixesAre DEF File
    <3>2. WrittenFrom(ImageOf(marker.archive), proc[p].left)'
      BY <2>2, <2>5, <3>1 DEF WrittenFrom
    <3> QED
      BY <1>1, <2>1, <2>2, <2>5, <3>1, <3>2, PhaseTable, StepTable DEF StepOf, Stopping
  <2> QED
    BY <1>1, <1>2, <2>1, <2>2, <2>3, <2>4, <2>5, DoneStep DEF At
<1>3. CASE Fail(p) /\ Fault("refused") /\ UNCHANGED marker
  <2>1. spent' \in [FaultKind -> Nat]
    BY <1>3, FaultType DEF Inv, FaultKind
  <2> QED
    BY <1>1, <1>3, <2>1, QuietFail
<1> QED
  BY <1>2, <1>3 DEF Prepare

LEMMA UndoneStep == ASSUME Inv, NEW p \in Proc, Undone(p) PROVE Inv'
<1>1. /\ At(p, "undone") /\ Holds(p) /\ p = "restore" /\ marker.phase = "prepared"
      /\ WrittenFrom(marker.old, <<>>) /\ Fail(p)
      /\ UNCHANGED <<disk, pending, captured, upload, spent>>
      /\ marker' = [marker EXCEPT !.phase = "disk-consistent", !.outcome = "rolled-back"]
  BY InsidePhase, PhaseTable, StepTable DEF Undone, At, Holds, Proc, StepOf, archives
<1>2. /\ marker' \in Record /\ marker'.phase = "disk-consistent" /\ marker'.outcome = "rolled-back"
      /\ marker'.archive = marker.archive
  BY <1>1 DEF Inv, TypeOK, Record
<1>3. UNCHANGED <<cleared, up, seen>>
  BY <1>1 DEF Fail
<1>4. Whole(disk) /\ Current
  <2>1. Whole(marker.old) /\ marker.old["db"] = seen.id /\ marker.old["edits"] = seen.edits
    BY <1>1 DEF Inv, Recorded
  <2>2. Listed(<<>>) = {} /\ "db" \in File
    BY DEF Listed, File
  <2>3. (\A f \in File : disk[f] = marker.old[f]) /\ disk["edits"] = marker.old["edits"]
    BY <1>1, <2>2 DEF WrittenFrom
  <2> QED
    BY <2>1, <2>2, <2>3 DEF Whole, Current
<1>5. Recorded'
  BY <1>1, <1>2, <1>3, <1>4 DEF Inv, Recorded, Whole, Current, Closing
<1>6. Numbered'
  BY <1>1, <1>2, <1>3 DEF Inv, Numbered
<1>7. FilesOK' /\ spent' \in [FaultKind -> Nat]
  BY <1>1, <1>2 DEF Inv, TypeOK, FilesOK
<1> QED
  BY <1>1, <1>2, <1>5, <1>6, <1>7, FailStep DEF At

LEMMA AppliedStep == ASSUME Inv, NEW p \in Proc, Applied(p) PROVE Inv'
<1>1. /\ At(p, "applied") /\ Holds(p) /\ p = "restore" /\ marker.phase = "prepared"
      /\ WrittenFrom(ImageOf(marker.archive), <<>>) /\ DoneAt(p, "drop")
      /\ UNCHANGED <<disk, pending, captured, upload>>
      /\ marker' = [marker EXCEPT !.phase = "disk-consistent", !.outcome = "applied"]
  BY InsidePhase, PhaseTable, StepTable DEF Applied, At, Holds, Proc, StepOf, archives
<1>2. /\ marker' \in Record /\ marker'.phase = "disk-consistent" /\ marker'.outcome = "applied"
      /\ marker'.archive = marker.archive
  BY <1>1 DEF Inv, TypeOK, Record
<1>3. Whole(disk) /\ disk["db"] = marker.archive
  <2>1. Listed(<<>>) = {} /\ \A f \in File : ImageOf(marker.archive)[f] = marker.archive
    BY DEF Listed, File, ImageOf
  <2>2. \A f \in File : disk[f] = marker.archive
    BY <1>1, <2>1 DEF WrittenFrom
  <2> QED
    BY <2>2 DEF Whole, File
<1>4. ASSUME UNCHANGED <<cleared, up, seen>> PROVE Recorded' /\ Numbered'
  <2>1. up = {} /\ pending = 0 /\ marker.archive > seen.id
    BY <1>1 DEF Inv, Recorded, Numbered
  <2>2. Recorded'
    BY <1>1, <1>2, <1>3, <1>4, <2>1 DEF Recorded, Whole, Current, Closing
  <2> QED
    BY <1>1, <1>2, <1>4, <2>2 DEF Inv, Numbered
<1>5. FilesOK'
  BY <1>1, <1>2 DEF Inv, TypeOK, FilesOK
<1>6. OnAt(p, "drop") => StepOf(p)'
  BY <1>1, <1>2, PhaseTable, StepTable DEF OnAt, StepOf, Stopping, Closing
<1>7. "drop" \in Pcs
  BY DEF Pcs
<1> QED
  BY <1>1, <1>2, <1>4, <1>5, <1>6, <1>7, DoneAtStep DEF At

LEMMA OutcomeStep == ASSUME Inv, NEW p \in Proc, Outcome(p) PROVE Inv'
<1>1. /\ At(p, "outcome") /\ Holds(p) /\ p \in {"restore", "recover"}
      /\ marker.phase \in {"queued", "prepared"} /\ Concluded(proc[p].rec)
      /\ DoneAt(p, "quarantine") /\ UNCHANGED <<disk, pending, captured, upload>>
      /\ marker' = proc[p].rec
  BY InsidePhase, PhaseTable, StepTable DEF Outcome, At, Holds, Proc, StepOf, archives
<1>2. marker' \in Record
  BY <1>1, ProcessType DEF Inv
<1>3. /\ marker'.phase = "disk-consistent" /\ marker'.archive = marker.archive /\ Whole(disk)
      /\ \/ marker'.outcome = "rolled-back" /\ Current
         \/ marker'.outcome = "applied" /\ pending = 0 /\ disk["db"] = marker.archive
      /\ marker.archive > seen.id
  BY <1>1 DEF Concluded, Inv, Numbered
<1>4. ASSUME UNCHANGED <<cleared, up, seen>> PROVE Recorded' /\ Numbered'
  <2>1. "panel" \in up => Current
    BY DEF Inv, Recorded
  <2>2. Recorded'
    BY <1>1, <1>3, <1>4, <2>1 DEF Recorded, Whole, Current, Closing
  <2>3. Numbered'
    BY <1>1, <1>3, <1>4 DEF Inv, Numbered
  <2> QED
    BY <2>2, <2>3
<1>5. FilesOK'
  BY <1>1, <1>2 DEF Inv, TypeOK, FilesOK
<1>6. OnAt(p, "quarantine") => StepOf(p)'
  BY <1>1, <1>3, PhaseTable, StepTable DEF OnAt, StepOf, Stopping, Closing
<1>7. "quarantine" \in Pcs
  BY DEF Pcs, Concluding
<1> QED
  BY <1>1, <1>3, <1>4, <1>5, <1>6, <1>7, DoneAtStep DEF At

LEMMA PassStep == ASSUME Inv, NEW p \in Proc, Pass(p) PROVE Inv'
<1>1. /\ At(p, "pass") /\ Holds(p) /\ p \in {"restore", "recover"}
      /\ marker.phase \in Closing \cup {"none"} /\ (p = "restore" => marker.phase # "none")
      /\ (proc[p].rec = marker \/ marker.phase = "none")
      /\ UNCHANGED <<disk, pending, captured, upload>>
      /\ marker' = IF marker.phase = "none" THEN marker ELSE [proc[p].rec EXCEPT !.phase = "services-pending"]
  BY InsidePhase, PhaseTable, StepTable DEF Pass, At, Holds, Proc, StepOf, archives
<1>2. /\ marker' \in Record /\ marker'.archive = marker.archive /\ marker'.outcome = marker.outcome
      /\ \/ marker.phase = "none" /\ UNCHANGED marker
         \/ marker.phase \in Closing /\ marker'.phase = "services-pending"
  BY <1>1 DEF Inv, TypeOK, Record
<1>3. ASSUME UNCHANGED <<up, seen>> PROVE Recorded' /\ Numbered' /\ FilesOK'
  <2>1. Recorded'
    BY <1>1, <1>2, <1>3 DEF Inv, Recorded, Whole, Current, Closing
  <2>2. Numbered'
    BY <1>1, <1>2, <1>3 DEF Inv, Numbered, Exclusive, Closing
  <2> QED
    BY <1>1, <1>2, <2>1, <2>2 DEF Inv, TypeOK, FilesOK
<1> DEFINE next == IF p = "restore" THEN [Idle EXCEPT !.pc = "post"] ELSE Idle
<1>4. CASE /\ proc' = [proc EXCEPT ![p] = next] /\ UNCHANGED <<job, up, seen, spent>>
           /\ cleared' = IF p = "recover" THEN job ELSE cleared
  <2>1. next \in Process /\ next.pc \in Outside \cap StepsOf(p)
    BY <1>1, ProcessType, StepTable DEF Inv, Pcs, Outside
  <2> HIDE DEF next
  <2>2. Alone(p) /\ proc'[p] = next
    BY <1>4, <2>1, BecomesAlone DEF Inv
  <2>3. StepOf(p)'
    BY <1>2, <2>1, <2>2, OutsideStep DEF Outside
  <2>4. ServicesOK' /\ seen' \in [id : Id, edits : Nat] /\ spent' \in [FaultKind -> Nat]
    BY <1>4 DEF Inv, TypeOK, ServicesOK
  <2> QED
    BY <1>1, <1>3, <1>4, <2>2, <2>3, <2>4, HolderStep
<1>5. CASE Fail(p) /\ Fault("disk")
  <2>1. spent' \in [FaultKind -> Nat] /\ UNCHANGED <<up, seen>>
    BY <1>5, FaultType DEF Inv, FaultKind, Fail
  <2>2. p = "restore" => marker'.phase # "none"
    BY <1>1, <1>2
  <2> QED
    BY <1>1, <1>3, <1>5, <2>1, <2>2, FailStep DEF At
<1> QED
  BY <1>4, <1>5 DEF Pass

LEMMA HealthStep == ASSUME Inv, NEW p \in Proc, Health(p) PROVE Inv'
<1>1. /\ At(p, "health") /\ Holds(p) /\ p = "resume" /\ marker.phase = "services-pending"
      /\ UNCHANGED <<disk, pending, captured, upload>>
  BY InsidePhase, PhaseTable, StepTable DEF Health, At, Holds, Proc, archives
<1>2. CASE up = Service /\ marker' = NoRecord /\ Done(p, Idle)
  <2>1. marker' \in Record /\ marker'.phase = "none" /\ marker'.archive = 0
    BY <1>2, ProcessType DEF Inv, NoRecord
  <2>2. Whole(disk) /\ Current
    BY <1>1, <1>2 DEF Inv, Recorded, Service
  <2>3. ASSUME UNCHANGED <<cleared, up, seen>> PROVE Recorded' /\ Numbered'
    <3>1. Recorded'
      BY <1>1, <2>1, <2>2, <2>3 DEF Recorded, Whole, Current, Closing
    <3>2. upload.pc # "receive"
      BY <1>1 DEF Inv, Exclusive
    <3> QED
      BY <1>1, <2>1, <2>3, <3>1, <3>2, Numbers DEF Inv, Numbered, Id
  <2>4. FilesOK'
    BY <1>1, <2>1 DEF Inv, TypeOK, FilesOK
  <2>5. Idle \in Process /\ Idle.pc \in Outside \cap StepsOf(p)
    BY <1>1, ProcessType, StepTable DEF Inv, Outside
  <2>6. proc'[p] = Idle => StepOf(p)'
    BY <2>1, <2>5, OutsideStep DEF Outside
  <2> QED
    BY <1>1, <1>2, <2>3, <2>4, <2>5, <2>6, DoneStep DEF At
<1>3. CASE Fail(p) /\ UNCHANGED <<marker, spent>>
  BY <1>1, <1>3, QuietFail DEF Inv, TypeOK
<1> QED
  BY <1>2, <1>3 DEF Health

-----------------------------------------------------------------------------
(* The files are replaced, one at a time.                                  *)

\* One more file is what `image' has.
LEMMA TakeFacts ==
    ASSUME TypeOK, NEW image \in Image, NEW left \in Suffixes, left # <<>>,
           WrittenFrom(image, left), Take(Head(left), image)
    PROVE  /\ disk' \in Image
           /\ \A f \in File \ Listed(Tail(left)) : disk'[f] = image[f]
           /\ "db" \notin Listed(Tail(left)) => disk'["edits"] = image["edits"]
<1>1. /\ Head(left) \in File /\ Listed(left) = {Head(left)} \cup Listed(Tail(left))
      /\ "edits" \notin File /\ "db" \in File
  BY SuffixFacts DEF File
<1>2. disk \in Image /\ DOMAIN disk = File \cup {"edits"}
  BY DEF TypeOK, Image
<1>3. /\ disk' \in Image
      /\ \A f \in File : disk'[f] = IF f = Head(left) THEN image[f] ELSE disk[f]
      /\ disk'["edits"] = IF Head(left) = "db" THEN image["edits"] ELSE disk["edits"]
  BY <1>1, <1>2 DEF Take, Image
<1> QED
  BY <1>1, <1>3 DEF WrittenFrom

LEMMA ReplacedStep ==
    ASSUME Inv, NEW p \in Proc, Holds(p), marker.phase = "prepared", p = "restore" \/ p = "recover",
           NEW image \in Image, proc[p].left # <<>>, WrittenFrom(image, proc[p].left),
           Take(Head(proc[p].left), image), NEW pc \in Pcs, Replaced(p, pc),
           UNCHANGED <<archives, marker, upload>>,
           \A l \in Suffixes :
              /\ proc'[p].left = l /\ proc'[p].rec = proc[p].rec
              /\ \A f \in File \ Listed(l) : disk'[f] = image[f]
              /\ "db" \notin Listed(l) => disk'["edits"] = image["edits"]
              /\ \/ l # <<>> /\ proc'[p].pc = proc[p].pc
                 \/ l = <<>> /\ proc'[p].pc = pc
              => StepOf(p)'
    PROVE  Inv'
<1>1. TypeOK /\ UNCHANGED <<pending, captured, marker, upload>>
  BY DEF Inv, archives
<1>2. proc[p] \in Process /\ proc[p].left \in Suffixes
  BY <1>1, ProcessType
<1> DEFINE l == Tail(proc[p].left)
           next == [proc[p] EXCEPT !.left = Tail(@), !.pc = IF Len(proc[p].left) = 1 THEN pc ELSE @]
<1>3. l \in Suffixes /\ (Len(proc[p].left) = 1 <=> l = <<>>)
  BY <1>2, SuffixFacts
<1>4. /\ next.left = l /\ next.rec = proc[p].rec
      /\ next.pc = IF l = <<>> THEN pc ELSE proc[p].pc
  BY <1>2, <1>3 DEF Process
<1>5. next \in Process
  <2>1. [proc[p] EXCEPT !.pc = pc] \in Process
    BY <1>1, ProcessType
  <2> QED
    BY <1>2, <1>3, <2>1 DEF Process, Suffixes
<1>6. /\ disk' \in Image
      /\ \A f \in File \ Listed(l) : disk'[f] = image[f]
      /\ "db" \notin Listed(l) => disk'["edits"] = image["edits"]
  BY <1>1, <1>2, TakeFacts
<1>7. Done(p, next)
  BY DEF Replaced
<1> HIDE DEF next, l
<1>8. proc'[p] = next => StepOf(p)'
  BY <1>3, <1>4, <1>6
<1>9. FilesOK'
  BY <1>1, <1>6 DEF TypeOK, FilesOK
<1>10. UNCHANGED <<cleared, up, seen>> => Recorded' /\ Numbered'
  BY <1>1 DEF Inv, Recorded, Numbered, Whole, Closing
<1> QED
  BY <1>1, <1>5, <1>7, <1>8, <1>9, <1>10, DoneStep

LEMMA ApplyStep == ASSUME Inv, NEW p \in Proc, Apply(p) PROVE Inv'
<1>1. /\ At(p, "apply") /\ Holds(p) /\ p = "restore" /\ marker.phase = "prepared"
      /\ proc[p].left # <<>> /\ WrittenFrom(ImageOf(marker.archive), proc[p].left)
      /\ Take(Head(proc[p].left), ImageOf(marker.archive)) /\ Replaced(p, "verify")
      /\ UNCHANGED <<archives, marker, upload>>
  BY InsidePhase, PhaseTable, StepTable DEF Apply, At, Holds, Proc, StepOf
<1>2. ImageOf(marker.archive) \in Image /\ marker.archive \in Nat
  BY Numbers DEF ImageOf, Image
<1> DEFINE image == ImageOf(marker.archive)
<1>3. ASSUME NEW l \in Suffixes, proc'[p].left = l,
             \A f \in File \ Listed(l) : disk'[f] = image[f],
             "db" \notin Listed(l) => disk'["edits"] = image["edits"],
             \/ l # <<>> /\ proc'[p].pc = proc[p].pc
             \/ l = <<>> /\ proc'[p].pc = "verify"
      PROVE  StepOf(p)'
  <2>1. WrittenFrom(ImageOf(marker.archive), l)'
    BY <1>1, <1>3 DEF WrittenFrom, ImageOf
  <2> QED
    BY <1>1, <1>3, <2>1, PhaseTable, StepTable DEF At, StepOf, Stopping
<1>4. "verify" \in Pcs
  BY DEF Pcs, Applying
<1> QED
  BY <1>1, <1>2, <1>3, <1>4, ReplacedStep

LEMMA UndoStep == ASSUME Inv, NEW p \in Proc, Undo(p) PROVE Inv'
<1>1. /\ At(p, "undo") /\ Holds(p) /\ p = "restore" /\ marker.phase = "prepared"
      /\ proc[p].left # <<>> /\ WrittenFrom(marker.old, proc[p].left)
      /\ Take(Head(proc[p].left), marker.old) /\ Replaced(p, "undone")
      /\ UNCHANGED <<archives, marker, upload>>
  BY InsidePhase, PhaseTable, StepTable DEF Undo, At, Holds, Proc, StepOf
<1>2. marker.old \in Image
  BY DEF Inv, TypeOK, Record
<1>3. ASSUME NEW l \in Suffixes, proc'[p].left = l,
             \A f \in File \ Listed(l) : disk'[f] = marker.old[f],
             "db" \notin Listed(l) => disk'["edits"] = marker.old["edits"],
             \/ l # <<>> /\ proc'[p].pc = proc[p].pc
             \/ l = <<>> /\ proc'[p].pc = "undone"
      PROVE  StepOf(p)'
  <2>1. WrittenFrom(marker.old, l)'
    BY <1>1, <1>3 DEF WrittenFrom
  <2> QED
    BY <1>1, <1>3, <2>1, PhaseTable, StepTable DEF At, StepOf, Stopping
<1>4. "undone" \in Pcs
  BY DEF Pcs, Applying
<1> QED
  BY <1>1, <1>2, <1>3, <1>4, ReplacedStep

\* When the last file is back, the files are of one identity again and hold every edit.
LEMMA RollbackStep == ASSUME Inv, NEW p \in Proc, Rollback(p) PROVE Inv'
<1>1. /\ At(p, "rollback") /\ Holds(p) /\ p \in {"restore", "recover"} /\ marker.phase = "prepared"
      /\ proc[p].left # <<>> /\ WrittenFrom(marker.old, proc[p].left)
      /\ proc[p].rec = RolledBack(marker.old)
      /\ Take(Head(proc[p].left), marker.old) /\ Replaced(p, "outcome")
      /\ UNCHANGED <<archives, marker, upload>>
  BY InsidePhase, PhaseTable, StepTable DEF Rollback, At, Holds, Proc, StepOf
<1>2. marker.old \in Image
  BY DEF Inv, TypeOK, Record
<1>3. /\ RolledBack(marker.old).phase = "disk-consistent"
      /\ RolledBack(marker.old).outcome = "rolled-back"
      /\ RolledBack(marker.old).archive = marker.archive
  BY <1>2, RecordUpdates DEF Inv
<1>4. /\ Whole(marker.old) /\ marker.old["db"] = seen.id /\ marker.old["edits"] = seen.edits
      /\ Listed(<<>>) = {} /\ "db" \in File
  BY <1>1 DEF Inv, Recorded, Listed, File
<1>5. UNCHANGED seen
  BY <1>1 DEF Replaced, Done, Fail, units
<1>6. ASSUME NEW l \in Suffixes, proc'[p].left = l, proc'[p].rec = proc[p].rec,
             \A f \in File \ Listed(l) : disk'[f] = marker.old[f],
             "db" \notin Listed(l) => disk'["edits"] = marker.old["edits"],
             \/ l # <<>> /\ proc'[p].pc = proc[p].pc
             \/ l = <<>> /\ proc'[p].pc = "outcome"
      PROVE  StepOf(p)'
  <2>1. WrittenFrom(marker.old, l)'
    BY <1>1, <1>6 DEF WrittenFrom
  <2>2. RolledBack(marker.old)' = RolledBack(marker.old)
    BY <1>1 DEF RolledBack
  <2>3. CASE l = <<>> /\ proc'[p].pc = "outcome"
    <3>1. Whole(disk)' /\ Current'
      BY <1>4, <1>5, <1>6, <2>3 DEF Whole, Current
    <3>2. Concluded(proc[p].rec)'
      BY <1>1, <1>3, <1>6, <3>1 DEF Concluded
    <3> QED
      BY <1>1, <2>3, <3>2, PhaseTable, StepTable DEF StepOf, Stopping
  <2>4. CASE l # <<>> /\ proc'[p].pc = proc[p].pc
    BY <1>1, <1>6, <2>1, <2>2, <2>4, PhaseTable, StepTable DEF At, StepOf, Stopping
  <2> QED
    BY <1>6, <2>3, <2>4
<1>7. "outcome" \in Pcs
  BY DEF Pcs, Concluding
<1> QED
  BY <1>1, <1>2, <1>6, <1>7, ReplacedStep

-----------------------------------------------------------------------------
(* What is proved.                                                         *)

LEMMA InitInv == Init => Inv
<1> SUFFICES ASSUME Init PROVE Inv
  OBVIOUS
<1>1. /\ disk = ImageOf(0) /\ pending = 0 /\ captured = 0 /\ marker = NoRecord
      /\ upload = [pc |-> "off", id |-> 0] /\ proc = [p \in Proc |-> Idle]
      /\ job = {} /\ cleared = {} /\ up = Service /\ seen = [id |-> 0, edits |-> 0]
      /\ spent = [k \in FaultKind |-> 0]
  BY DEF Init
<1>2. 0 \in Id
  BY ConstantsAssumption DEF Id
<1>3. ImageOf(0) \in Image /\ Whole(ImageOf(0)) /\ ImageOf(0)["db"] = 0 /\ ImageOf(0)["edits"] = 0
  BY DEF ImageOf, Image, Whole, File
<1>4. NoRecord \in Record /\ NoRecord.phase = "none" /\ NoRecord.archive = 0
  BY <1>2, <1>3 DEF NoRecord, Record
<1>5. Idle \in Process /\ Idle.pc = "off"
  <2>1. <<>> \in Suffixes
    BY SuffixesAre
  <2> QED
    BY <1>4, <2>1 DEF Idle, Process, Suffixes
<1>6. \A p \in Proc : proc[p] = Idle /\ ~Holds(p)
  BY <1>1, <1>5 DEF Holds
<1>7. TypeOK
  BY <1>1, <1>2, <1>3, <1>4, <1>5 DEF TypeOK
<1>8. Exclusive /\ Recorded /\ Numbered
  BY <1>1, <1>3, <1>4, <1>6 DEF Exclusive, Recorded, Numbered, Current, Closing
<1>9. ASSUME NEW p \in Proc PROVE StepOf(p)
  <2>1. "off" \in StepsOf(p) /\ "none" \in PhasesAt("off")
    BY StepTable DEF PhasesAt, Deciding, Stopping, Applying, Proc
  <2> QED
    BY <1>1, <1>4, <1>5, <1>6, <2>1 DEF StepOf, Stopping
<1> QED
  BY <1>7, <1>8, <1>9 DEF Inv, Steps

LEMMA StepInv == Inv /\ [Next]_vars => Inv'
<1> SUFFICES ASSUME Inv, [Next]_vars PROVE Inv'
  OBVIOUS
<1>1. CASE UNCHANGED vars
  BY <1>1
  DEF vars, Inv, TypeOK, Exclusive, Recorded, Numbered, Steps, StepOf, Holds, Whole, Current,
      WrittenFrom, Concluded, RolledBack
<1>2. ASSUME NEW p \in Proc, Working(p) PROVE Inv'
  <2>1. CASE Acquire(p) \/ Orphans(p) \/ Resume(p) \/ Health(p)
    BY <2>1, AcquireStep, OrphansStep, ResumeStep, HealthStep
  <2>2. CASE Restoring(p)
    <3>1. CASE Capture(p) \/ Validate(p) \/ Reject(p) \/ Discard(p) \/ Mark(p) \/ Consume(p)
      BY <3>1, CaptureStep, ValidateStep, RejectStep, DiscardStep, MarkStep, ConsumeStep
    <3>2. CASE StopPanel(p) \/ Settle(p) \/ StopServices(p) \/ StopFails(p) \/ Prepare(p)
      BY <3>2, StopPanelStep, SettleStep, StopServicesStep, StopFailsStep, PrepareStep
    <3>3. CASE Apply(p) \/ Verify(p) \/ Undo(p) \/ Undone(p) \/ Applied(p) \/ Drop(p)
      BY <3>3, ApplyStep, VerifyStep, UndoStep, UndoneStep, AppliedStep, DropStep
    <3> QED
      BY <2>2, <3>1, <3>2, <3>3 DEF Restoring
  <2>3. CASE Reconciling(p)
    BY <2>3, ReconcileStep, RollbackStep, OutcomeStep, QuarantineStep, UnpendStep, PassStep
    DEF Reconciling
  <2> QED
    BY <1>2, <2>1, <2>2, <2>3 DEF Working
<1>3. CASE Edit \/ BeginUpload \/ Uploading
  BY <1>3, EditStep, BeginUploadStep, LinkStep, QueueStep, UnlinkUploadStep DEF Uploading
<1>4. CASE \E p \in Proc : DiskFails(p) \/ Kill(p)
  BY <1>4, DiskFailsStep, KillStep
<1>5. CASE StartRecover \/ Post \/ PowerLoss
  BY <1>5, StartRecoverStep, PostStep, PowerLossStep
<1>6. CASE \E s \in Service : Start(s) \/ Crash(s)
  BY <1>6, StartStep, CrashStep
<1> QED
  BY <1>1, <1>2, <1>3, <1>4, <1>5, <1>6 DEF Next

\* The invariant holds for any number of uploads and edits and any mix of faults:
\* one lock holder, a record that tells what the files are, archives that are only
\* ever applied while they are younger than what was served.
THEOREM Invariant == Spec => []Inv
<1>1. Init => Inv
  BY InitInv
<1>2. Inv /\ [Next]_vars => Inv'
  BY StepInv
<1> QED
  BY <1>1, <1>2, PTL DEF Spec

\* Files, archives, record, units and services keep their types; start jobs are only
\* queued for services that do not run, and cleared only among those queued.
THEOREM TypeCorrect == Spec => []TypeOK
<1>1. Inv => TypeOK
  BY DEF Inv
<1> QED
  BY <1>1, Invariant, PTL

\* While the panel or a server runs, database, certificate, key and environment are
\* of one identity, wherever restore, rollback or recovery were interrupted.
THEOREM OneIdentity == Spec => []ServicesRunOnOneIdentity
<1>1. Inv => ServicesRunOnOneIdentity
  BY DEF Inv, Recorded, ServicesRunOnOneIdentity
<1> QED
  BY <1>1, Invariant, PTL

\* Files of two identities always have a record whose backup is complete and holds
\* every edit the last panel served.
THEOREM MixtureRecorded == Spec => []MixtureIsRecorded
<1>1. Inv => MixtureIsRecorded
  BY DEF Inv, Recorded, MixtureIsRecorded
<1> QED
  BY <1>1, Invariant, PTL

\* No panel serves anything older than what a panel served before: neither a rollback
\* nor a second application of an archive loses edits.
THEOREM ServedNeverOlder == Spec => ServedDataNeverGoesBack
<1>1. Inv /\ [Next]_vars =>
        [seen'.id > seen.id \/ (seen'.id = seen.id /\ seen'.edits >= seen.edits)]_seen
  <2> SUFFICES ASSUME Inv, [Next]_vars, seen' # seen
               PROVE  seen'.id > seen.id \/ (seen'.id = seen.id /\ seen'.edits >= seen.edits)
    OBVIOUS
  <2>1. seen.edits \in Nat /\ disk["db"] \in Nat /\ seen.id \in Nat /\ marker.archive \in Nat
    BY Numbers
  <2>2. CASE Edit
    <3>1. "panel" \in up /\ seen' = [id |-> disk["db"], edits |-> disk["edits"] + 1]
      BY <2>2 DEF Edit
    <3>2. Current
      BY <3>1 DEF Inv, Recorded
    <3> QED
      BY <2>1, <3>1, <3>2 DEF Current
  <2>3. ASSUME NEW s \in Service, Start(s)
        PROVE  seen'.id > seen.id \/ (seen'.id = seen.id /\ seen'.edits >= seen.edits)
    <3>1. s \in cleared /\ seen' = [id |-> disk["db"], edits |-> disk["edits"]]
      BY <2>3 DEF Start
    <3>2. marker.phase # "prepared"
      BY <3>1, RunningPhase
    <3>3. Current \/ (disk["db"] = marker.archive /\ marker.archive > seen.id)
      BY <3>2 DEF Inv, TypeOK, Record, Recorded, Closing
    <3> QED
      BY <2>1, <3>1, <3>3 DEF Current
  <2>4. ASSUME NEW p \in Proc, Working(p) PROVE UNCHANGED seen
    <3>1. CASE Acquire(p) \/ Orphans(p) \/ Resume(p) \/ Health(p)
      BY <3>1 DEF Acquire, Orphans, Resume, Health, DoneAt, Done, Fail, units
    <3>2. CASE Restoring(p)
      BY <3>2
      DEF Restoring, Capture, Validate, Reject, Discard, Mark, Consume, StopPanel, Settle,
          StopServices, StopFails, Prepare, Apply, Verify, Undo, Undone, Applied, Drop,
          DoneAt, Replaced, Done, Fail, units
    <3>3. CASE Reconcile(p)
      <4>1. marker.phase \in {"queued", "prepared", "disk-consistent", "services-pending"}
        BY <3>3, InsidePhase, PhaseTable DEF Reconcile, At, Closing
      <4> QED
        BY <3>3, <4>1 DEF Reconcile, Fail, units
    <3>4. CASE Rollback(p) \/ Outcome(p) \/ Quarantine(p) \/ Unpend(p) \/ Pass(p)
      BY <3>4 DEF Rollback, Outcome, Quarantine, Unpend, Pass, DoneAt, Replaced, Done, Fail, units
    <3> QED
      BY <2>4, <3>1, <3>2, <3>3, <3>4 DEF Working, Reconciling
  <2> QED
    BY <2>2, <2>3, <2>4
    DEF Next, BeginUpload, Uploading, Link, Queue, UnlinkUpload, DiskFails, Kill, Fail,
        StartRecover, Post, PowerLoss, Crash, units, vars
<1> QED
  BY <1>1, Invariant, PTL DEF Spec, ServedDataNeverGoesBack
=============================================================================
