--------------------------- MODULE EgressPolicyProof ---------------------------
(***************************************************************************)
(* Proofs about EgressPolicy, for one or two servers, any number of         *)
(* switches and any mix of faults.                                          *)
(*                                                                         *)
(* Basic says who holds the maintenance lock, where each unit can be, and,  *)
(* while no unit is killed and no switch overlaps another, that the gate is *)
(* up from before the settlement until after the restart.  Files says what  *)
(* the record tells of the files; it holds as long as no directory sync     *)
(* fails in one place, the removal of the record of a switch that succeeded *)
(* (RecordRemovalSyncs): apply() then rolls back with no record on disk.    *)
(* Enforced says what the servers run with.  It holds as long as a rollback *)
(* gets to its restart (RollbackRestarts) and nobody starts, during a       *)
(* switch, the first server that the switch found stopped                   *)
(* (StoppedServersStay).                                                    *)
(***************************************************************************)
EXTENDS EgressPolicy, SequenceTheorems, TLAPS

-----------------------------------------------------------------------------
(* The inductive invariants.                                               *)

Exclusive == \A p, q \in Proc : Holds(p) /\ Holds(q) => p = q

Inside == {"write", "restart", "check", "attest", "unlink"}
Repairing == {"recover", "restore", "reattest", "clear"}

Over == {"ended", "failed"}
StepsOf(p) ==
    {"off", "ended"} \cup Repairing \cup
    (IF p = "boot" THEN {"wait", "failed"} ELSE {"refused", "settle", "read"} \cup Inside)

Placed == \A p \in Proc : /\ proc[p].pc \in StepsOf(p)
                          /\ proc[p].pc \in {"write", "restore"} => proc[p].left # <<>>

\* Past the settlement nothing is unsettled, and nobody can log in until the end.
Gated ==
    Undisturbed =>
        /\ lost = {}
        /\ \A p \in Policy : ~At(p, "off") => gate /\ \A q \in Policy : q # p => At(q, "off")
        /\ \A p \in Policy : proc[p].pc \notin {"off", "refused", "settle", "ended"} => unsettled = {}

Basic == TypeOK /\ Exclusive /\ Placed /\ Gated

\* A rollback runs that no record on disk stands for: _durable_unlink of the record
\* of a switch that succeeded removed it and then failed in the directory sync.
Unrecorded == record = {} /\ \E p \in Policy : proc[p].pc \in Inside

\* The backup is of one policy; without a record, and such a rollback, the files are.
Backed == /\ \A r \in record : r.old = AllOf(r.old["env"])
          /\ record = {} /\ ~Unrecorded => Attested

Listed(s) == {s[i] : i \in 1..Len(s)}
WrittenFrom(image, left) == \A f \in File \ Listed(left) : file[f] = image[f]

\* What apply() is writing: the new policy or, in its rollback, what it found.
Goal(p) == IF proc[p].undo THEN proc[p].old ELSE AllOf(p)

FilesAt(p) ==
    LET s == proc[p] IN
    /\ s.pc \in {"restore", "reattest", "clear"} => record # {}
    /\ s.pc = "restore" => \A r \in record : WrittenFrom(r.old, s.left)
    /\ s.pc = "reattest" => \A r \in record : file = r.old
    /\ s.pc = "read" => record = {}
    /\ s.pc \in Inside => /\ s.old = AllOf(s.old["env"])
                          /\ \/ record = {[target |-> p, old |-> s.old]}
                             \/ record = {} /\ s.undo
    /\ s.pc = "write" => WrittenFrom(Goal(p), s.left)
    /\ s.pc \in {"restart", "check", "attest", "unlink"} => file = Goal(p)
    /\ s.pc \in {"clear", "unlink"} => Attested
Files == Backed /\ \A p \in Proc : FilesAt(p)

\* Two things that can go wrong then.  The removal fails so, and the rollback starts;
\* and that rollback is cut off before it has written and attested the files: by a
\* kill, a power loss, or a second failure inside it.
RemovalUnsynced == \E p \in Policy : At(p, "unlink") /\ ~proc[p].undo /\ record' = {} /\ At(p, "write")'
RollbackCut == /\ record = {}
               /\ \E p \in Policy : proc[p].pc \in Inside \ {"unlink"} /\ proc'[p].pc \notin Inside

RecordRemovalSyncs == [][~RemovalUnsynced]_vars
UnrecordedRollbackFinishes == [][~RollbackCut]_vars

\* What the servers run with.
Within == \E p \in Policy : proc[p].pc \in Inside
AsFiles == \A c \in Up : loaded[c] = file[c]
NoneQueued == \A c \in Config : loaded[c] # "queued"
AtWork(p) == proc[p].pc \notin {"off", "refused"}

\* From before the first file is written: the record keeps what the switch found, and a
\* server stays down if the first one was found stopped and it was too.  From the
\* restart on, servers run with what is in their files.
ServersAt(p) ==
    LET s == proc[p] IN
    /\ \A r \in record : r.old = s.old
    /\ "main" \notin s.want => \A c \in Config \ s.want : loaded[c] = "down"
    /\ s.undo => WrittenFrom(s.old, IF s.pc = "write" THEN s.left ELSE <<>>)
    /\ s.pc \in {"check", "attest", "unlink"} => AsFiles

\* Outside a switch servers run with what is in their files, and a record that was
\* left would change none, unless nothing runs and nothing can be started before it.
Enforced ==
    Undisturbed =>
        /\ gate => \E p \in Policy : ~At(p, "off")
        /\ panel = "up" \/ \A p \in Policy : At(p, "off")
        /\ \A p \in Policy : AtWork(p) => At("boot", "off") /\ NoneQueued
        /\ ~Within => AsFiles /\ \A r \in record : file = r.old \/ (panel # "up" /\ Up = {})
        /\ \A p \in Policy : proc[p].pc \in Inside => ServersAt(p)

\* Two things that can go wrong then: a rollback gives up while it writes the files, so
\* that it restarts nothing; and somebody starts, during a switch, the first server that
\* the switch found stopped.
RollbackGivenUp == \E p \in Policy : At(p, "write") /\ proc[p].undo /\ At(p, "ended")'
StoppedServerStarted ==
    \E p \in Policy : proc[p].pc \in Inside /\ "main" \notin proc[p].want /\ loaded'["main"] \in Policy

RollbackRestarts == [][~RollbackGivenUp]_vars
StoppedServersStay == [][~StoppedServerStarted]_vars

-----------------------------------------------------------------------------
(* Files still to be written.                                              *)

Lists == {SubSeq(SwitchOrder, i, Len(SwitchOrder)) : i \in 1..4}
           \cup {SubSeq(RecoverOrder, i, Len(RecoverOrder)) : i \in 1..4}

LEMMA Orders ==
    /\ {SwitchOrder, RecoverOrder} \subseteq Seq(File)
    /\ Len(SwitchOrder) \in {2, 3} /\ Len(RecoverOrder) \in {2, 3}
    /\ Listed(SwitchOrder) = File /\ Listed(RecoverOrder) = File
    /\ "main" \in Config /\ "env" \in File /\ Config \subseteq File
<1>1. CASE Secondary
  BY <1>1 DEF SwitchOrder, RecoverOrder, File, Config, Listed
<1>2. CASE ~Secondary
  BY <1>2 DEF SwitchOrder, RecoverOrder, File, Config, Listed
<1> QED
  BY <1>1, <1>2

LEMMA InLists ==
    ASSUME NEW o \in {SwitchOrder, RecoverOrder}, NEW i \in 1..4
    PROVE  SubSeq(o, i, Len(o)) \in Lists
BY DEF Lists

\* The next file is taken off the front of the list.
LEMMA ListFacts ==
    ASSUME NEW s \in Lists
    PROVE  /\ Listed(<<>>) = {} /\ <<>> \in Lists /\ SwitchOrder \in Lists /\ RecoverOrder \in Lists
           /\ SwitchOrder # <<>> /\ RecoverOrder # <<>>
           /\ s # <<>> => /\ Tail(s) \in Lists /\ Head(s) \in File
                          /\ Listed(s) = {Head(s)} \cup Listed(Tail(s))
                          /\ Len(s) = 1 <=> Tail(s) = <<>>
<1>1. ASSUME NEW o \in {SwitchOrder, RecoverOrder}, NEW i \in 1..4
      PROVE  LET t == SubSeq(o, i, Len(o)) IN
             /\ t \in Seq(File) /\ Len(t) = IF i <= Len(o) THEN Len(o) - i + 1 ELSE 0
             /\ \A j \in 1..(Len(o) - i + 1) : t[j] = o[i + j - 1]
  <2>1. o \in Seq(File) /\ Len(o) \in {2, 3} /\ \A j \in i..Len(o) : o[j] \in File
    BY Orders
  <2> QED
    BY <2>1, SubSeqProperties
<1>2. SwitchOrder \in Lists /\ RecoverOrder \in Lists
  <2>1. ASSUME NEW o \in {SwitchOrder, RecoverOrder} PROVE SubSeq(o, 1, Len(o)) = o
    <3> DEFINE t == SubSeq(o, 1, Len(o))
    <3>1. o \in Seq(File) /\ Len(o) \in {2, 3}
      BY Orders
    <3>2. t \in Seq(File) /\ Len(t) = Len(o) /\ \A j \in 1..Len(o) : t[j] = o[j]
      BY <1>1, <3>1
    <3> QED
      BY <3>1, <3>2, SeqEqual
  <2>2. SubSeq(SwitchOrder, 1, Len(SwitchOrder)) = SwitchOrder
        /\ SubSeq(RecoverOrder, 1, Len(RecoverOrder)) = RecoverOrder
    BY <2>1
  <2>3. SubSeq(SwitchOrder, 1, Len(SwitchOrder)) \in Lists
        /\ SubSeq(RecoverOrder, 1, Len(RecoverOrder)) \in Lists
    BY InLists
  <2> QED
    BY <2>2, <2>3
<1>3. <<>> \in Lists
  <2>1. Len(SwitchOrder) \in {2, 3}
    BY Orders
  <2>2. SubSeq(SwitchOrder, 4, Len(SwitchOrder)) = <<>>
    BY <1>1, <2>1
  <2>3. SubSeq(SwitchOrder, 4, Len(SwitchOrder)) \in Lists
    BY InLists
  <2> QED
    BY <2>2, <2>3
<1>4. SwitchOrder # <<>> /\ RecoverOrder # <<>> /\ Listed(<<>>) = {}
  BY Orders DEF Listed
<1>5. ASSUME s # <<>>
      PROVE  /\ Tail(s) \in Lists /\ Head(s) \in File
             /\ Listed(s) = {Head(s)} \cup Listed(Tail(s))
             /\ Len(s) = 1 <=> Tail(s) = <<>>
  <2>1. PICK o \in {SwitchOrder, RecoverOrder}, i \in 1..4 : s = SubSeq(o, i, Len(o))
    BY DEF Lists
  <2>2. o \in Seq(File) /\ Len(o) \in {2, 3}
    BY Orders
  <2>3. /\ s \in Seq(File) /\ Len(s) = IF i <= Len(o) THEN Len(o) - i + 1 ELSE 0
        /\ \A j \in 1..(Len(o) - i + 1) : s[j] = o[i + j - 1]
    BY <1>1, <2>1
  <2>4. i <= Len(o) /\ i + 1 \in 1..4 /\ Len(s) = Len(o) - i + 1
    BY <1>5, <2>2, <2>3
  <2> DEFINE t == SubSeq(o, i + 1, Len(o))
  <2>5. /\ t \in Seq(File) /\ Len(t) = Len(o) - i
        /\ \A j \in 1..(Len(o) - i) : t[j] = o[i + j]
    BY <1>1, <2>2, <2>4
  <2>6. /\ Tail(s) \in Seq(File) /\ Len(Tail(s)) = Len(s) - 1 /\ Head(s) = s[1]
        /\ \A j \in 1..(Len(s) - 1) : Tail(s)[j] = s[j + 1]
    BY <1>5, <2>3
  <2>7. Tail(s) = t
    <3> HIDE DEF t
    <3>1. Len(Tail(s)) = Len(t)
      <4>1. Len(t) = Len(o) - i /\ Len(Tail(s)) = Len(s) - 1 /\ Len(s) = Len(o) - i + 1
        BY <2>4, <2>5, <2>6
      <4>2. Len(o) \in Nat /\ i \in Nat
        BY <2>2
      <4> QED
        BY <4>1, <4>2
    <3>2. \A j \in 1..Len(Tail(s)) : Tail(s)[j] = t[j]
      BY <2>2, <2>3, <2>4, <2>5, <2>6
    <3>3. Tail(s) \in Seq(File) /\ t \in Seq(File)
      BY <2>5, <2>6
    <3> QED
      BY <3>1, <3>2, <3>3, SeqEqual
  <2>8. Tail(s) \in Lists
    BY <2>4, <2>7, InLists
  <2>9. Head(s) \in File
    BY <2>3, <2>4, <2>6
  <2>10. Listed(s) = {Head(s)} \cup Listed(Tail(s))
    <3>1. ASSUME NEW x \in Listed(s) PROVE x \in {Head(s)} \cup Listed(Tail(s))
      <4>1. PICK j \in 1..Len(s) : x = s[j]
        BY <3>1 DEF Listed
      <4>2. CASE j = 1
        BY <2>6, <4>1, <4>2
      <4>3. CASE j # 1
        <5>1. j - 1 \in 1..Len(Tail(s)) /\ Tail(s)[j - 1] = s[j]
          BY <2>2, <2>3, <2>6, <4>3
        <5> QED
          BY <4>1, <5>1 DEF Listed
      <4> QED
        BY <4>2, <4>3
    <3>2. Head(s) \in Listed(s)
      BY <2>2, <2>4, <2>6 DEF Listed
    <3>3. ASSUME NEW x \in Listed(Tail(s)) PROVE x \in Listed(s)
      <4>1. PICK j \in 1..Len(Tail(s)) : x = Tail(s)[j]
        BY <3>3 DEF Listed
      <4>2. j + 1 \in 1..Len(s) /\ x = s[j + 1]
        BY <2>2, <2>4, <2>6, <4>1
      <4> QED
        BY <4>2 DEF Listed
    <3> QED
      BY <3>1, <3>2, <3>3
  <2>11. Len(s) = 1 <=> Tail(s) = <<>>
    <3>1. Len(Tail(s)) = 0 <=> Tail(s) = <<>>
      BY <2>6, EmptySeq
    <3>2. Len(s) \in Nat /\ Len(Tail(s)) = Len(s) - 1
      BY <2>2, <2>4, <2>6
    <3> QED
      BY <3>1, <3>2
  <2> QED
    BY <2>8, <2>9, <2>10, <2>11
<1> QED
  BY <1>2, <1>3, <1>4, <1>5

LEMMA ListsHave ==
    /\ Listed(<<>>) = {} /\ Listed(SwitchOrder) = File /\ Listed(RecoverOrder) = File
    /\ {<<>>, SwitchOrder, RecoverOrder} \subseteq Lists
    /\ SwitchOrder # <<>> /\ RecoverOrder # <<>>
<1>1. SubSeq(SwitchOrder, 1, Len(SwitchOrder)) \in Lists
  BY InLists
<1> QED
  BY <1>1, ListFacts, Orders

-----------------------------------------------------------------------------
(* What a step does to the unit that takes it.                             *)

Alone(p) == proc' \in [Proc -> Process] /\ \A q \in Proc : q # p => proc'[q] = proc[q]

LEMMA BecomesAlone ==
    ASSUME TypeOK, NEW p \in Proc, NEW s \in Process, proc' = [proc EXCEPT ![p] = s]
    PROVE  Alone(p) /\ proc'[p] = s
BY DEF Alone, TypeOK

LEMMA PolicyProc == /\ Policy \subseteq Proc /\ "boot" \in Proc /\ "boot" \notin Policy
                    /\ \A p \in Proc : p = "boot" \/ p \in Policy
BY DEF Policy, Proc

LEMMA StepTable ==
    /\ StepsOf("boot") = {"off", "ended", "recover", "restore", "reattest", "clear", "wait", "failed"}
    /\ \A p \in Policy : StepsOf(p) = {"off", "ended", "recover", "restore", "reattest", "clear",
         "refused", "settle", "read", "write", "restart", "check", "attest", "unlink"}
BY DEF StepsOf, Repairing, Inside, Policy

LEMMA BrokenIs ==
    /\ \A p \in Proc : Broken(p) \in Over /\ Broken(p) \in StepsOf(p)
    /\ \A p \in Policy : Broken(p) = "ended"
BY DEF Broken, StepsOf, Over, Policy

LEMMA DataType ==
    /\ \A p \in Policy : AllOf(p) \in [File -> Policy] /\ AllOf(p)["env"] = p
    /\ Idle \in Process /\ Idle.pc = "off"
<1>1. \A p \in Policy : AllOf(p) \in [File -> Policy] /\ AllOf(p)["env"] = p
  BY Orders DEF AllOf
<1>2. <<>> \in Lists /\ "web" \in Policy
  BY ListsHave DEF Policy
<1>3. Idle \in Process /\ Idle.pc = "off"
  BY <1>1, <1>2 DEF Idle, Process, Lists
<1> QED
  BY <1>1, <1>3

\* Only the place of the unit changes.
Moves(p, pc) == /\ Alone(p) /\ proc'[p].pc = pc /\ proc'[p].left = proc[p].left
                /\ proc'[p].old = proc[p].old /\ proc'[p].undo = proc[p].undo
                /\ proc'[p].want = proc[p].want

LEMMA GotoAlone ==
    ASSUME TypeOK, NEW p \in Proc, NEW pc \in StepsOf(p), Goto(p, pc)
    PROVE  Moves(p, pc)
<1> DEFINE next == [proc[p] EXCEPT !.pc = pc]
<1>1. proc[p] \in Process
  BY DEF TypeOK
<1>2. pc \in {"off", "ended", "recover", "restore", "reattest", "clear",
              "wait", "failed", "refused", "settle", "read", "write", "restart", "check", "attest", "unlink"}
  BY StepTable, PolicyProc
<1>3. /\ next \in Process /\ next.pc = pc /\ next.left = proc[p].left
      /\ next.old = proc[p].old /\ next.undo = proc[p].undo /\ next.want = proc[p].want
  BY <1>1, <1>2 DEF Process
<1>4. proc' = [proc EXCEPT ![p] = next]
  BY DEF Goto
<1> HIDE DEF next
<1> QED
  BY <1>3, <1>4, BecomesAlone DEF Moves

\* An exception leads into the rollback or to the end of the command.
RollsBack(p) == /\ Alone(p) /\ proc[p].pc \in Inside /\ ~proc[p].undo /\ p \in Policy
                /\ proc'[p].pc = "write" /\ proc'[p].undo /\ proc'[p].left = SwitchOrder
                /\ proc'[p].old = proc[p].old /\ proc'[p].want = proc[p].want
Ends(p) == /\ Alone(p) /\ proc'[p].pc = Broken(p)
           /\ proc[p].pc \in Inside => proc[p].undo

LEMMA RaiseIs ==
    ASSUME TypeOK, NEW p \in Proc, proc[p].pc \in StepsOf(p), Raise(p)
    PROVE  RollsBack(p) \/ Ends(p)
<1>1. proc[p] \in Process
  BY DEF TypeOK
<1>2. CASE proc[p].pc \in Inside /\ ~proc[p].undo
  <2> DEFINE next == [proc[p] EXCEPT !.pc = "write", !.undo = TRUE, !.left = SwitchOrder]
  <2>1. SwitchOrder \in Lists
    BY ListsHave
  <2>2. /\ next \in Process /\ next.pc = "write" /\ next.undo /\ next.left = SwitchOrder
        /\ next.old = proc[p].old /\ next.want = proc[p].want
    BY <1>1, <2>1 DEF Process, Lists
  <2>3. proc' = [proc EXCEPT ![p] = next]
    BY <1>2 DEF Raise, Inside
  <2>4. p \in Policy
    BY <1>2, StepTable, PolicyProc DEF Inside
  <2> HIDE DEF next
  <2> QED
    BY <1>2, <2>2, <2>3, <2>4, BecomesAlone DEF RollsBack
<1>3. CASE ~(proc[p].pc \in Inside /\ ~proc[p].undo)
  <2> DEFINE next == [proc[p] EXCEPT !.pc = Broken(p)]
  <2>1. next \in Process /\ next.pc = Broken(p)
    BY <1>1 DEF Process, Broken
  <2>2. proc' = [proc EXCEPT ![p] = next]
    BY <1>3 DEF Raise, Inside
  <2> HIDE DEF next
  <2> QED
    BY <1>3, <2>1, <2>2, BecomesAlone DEF Ends
<1> QED
  BY <1>2, <1>3

\* Faults only add up.
LEMMA FaultMore ==
    ASSUME TypeOK, NEW k \in FaultKind, Fault(k)
    PROVE  /\ spent' \in [FaultKind -> Nat]
           /\ Undisturbed' => Undisturbed
           /\ k \in {"kill", "overlap"} => ~Undisturbed'
<1>1. /\ spent \in [FaultKind -> Nat] /\ spent' = [spent EXCEPT ![k] = @ + 1]
      /\ {"kill", "overlap"} \subseteq FaultKind
  BY DEF TypeOK, Fault, FaultKind
<1>2. \A j \in FaultKind : spent'[j] = IF j = k THEN spent[j] + 1 ELSE spent[j]
  BY <1>1
<1> QED
  BY <1>1, <1>2 DEF Undisturbed

\* The types of everything but the units.
StateOK ==
    /\ file \in [File -> Policy] /\ attested \in Attestation
    /\ record \in {{}} \cup {{r} : r \in Record}
    /\ loaded \in [Config -> Policy \cup {"down", "queued", "crashed"}]
    /\ unsettled \subseteq Config /\ lost \subseteq Config
    /\ spent \in [FaultKind -> Nat]

\* A step of the holder of the lock.
LEMMA WorkStep ==
    ASSUME Basic, NEW p \in Proc, Holds(p), Alone(p), StateOK',
           proc'[p].pc \in StepsOf(p) \ {"off", "refused", "wait"},
           proc'[p].pc \in {"write", "restore"} => proc'[p].left # <<>>,
           UNCHANGED <<panel, gate, asked>>, unsettled' \subseteq unsettled,
           lost' = lost \/ (proc[p].pc \in Inside /\ lost' \subseteq lost \cup unsettled),
           Undisturbed' => Undisturbed,
           proc[p].pc = "settle" => unsettled' = {} \/ proc'[p].pc \in Over,
           proc'[p].pc # "settle"
    PROVE  Basic'
<1>1. TypeOK'
  BY DEF Basic, TypeOK, StateOK, Alone
<1>2. ASSUME NEW q \in Proc, q # p
      PROVE  ~Holds(q) /\ proc'[q] = proc[q]
  BY <1>2 DEF Basic, Exclusive, Alone
<1>3. Exclusive' /\ Placed'
  BY <1>2 DEF Basic, Exclusive, Placed, Holds
<1>4. Gated'
  <2> SUFFICES ASSUME Undisturbed'
               PROVE  /\ lost' = {}
                      /\ \A q \in Policy : ~At(q, "off")' => gate' /\ \A r \in Policy : r # q => At(r, "off")'
                      /\ \A q \in Policy : proc'[q].pc \notin {"off", "refused", "settle", "ended"} => unsettled' = {}
    BY DEF Gated, At
  <2>1. /\ lost = {}
        /\ \A q \in Policy : ~At(q, "off") => gate /\ \A r \in Policy : r # q => At(r, "off")
        /\ \A q \in Policy : proc[q].pc \notin {"off", "refused", "settle", "ended"} => unsettled = {}
    BY DEF Basic, Gated
  <2>2. proc[p].pc \notin {"off", "refused", "ended"}
    BY DEF Holds
  <2>3. lost' = {}
    <3>1. proc[p].pc \in Inside => p \in Policy /\ proc[p].pc \notin {"off", "refused", "settle", "ended"}
      BY StepTable, PolicyProc DEF Inside, Basic, Placed
    <3> QED
      BY <2>1, <3>1
  <2>4. ASSUME NEW q \in Policy
        PROVE  /\ At(q, "off")' <=> At(q, "off")
               /\ proc'[q].pc \notin {"off", "refused", "settle", "ended"} => unsettled' = {}
    <3>1. CASE q = p
      BY <2>1, <2>2, <3>1, StepTable DEF At, Over
    <3>2. CASE q # p
      BY <1>2, <2>1, <3>2, PolicyProc DEF At
    <3> QED
      BY <3>1, <3>2
  <2> QED
    BY <2>1, <2>3, <2>4
<1> QED
  BY <1>1, <1>3, <1>4 DEF Basic

\* Faults of a step that touches neither the servers' counters nor the gate.
FaultsOK == spent' \in [FaultKind -> Nat] /\ (Undisturbed' => Undisturbed)

LEMMA NoFault ==
    ASSUME TypeOK, UNCHANGED spent
    PROVE  FaultsOK
BY DEF TypeOK, FaultsOK, Undisturbed

LEMMA DoneIs ==
    ASSUME TypeOK, NEW p \in Proc, proc[p].pc \in StepsOf(p), NEW pc \in StepsOf(p), Done(p, pc)
    PROVE  FaultsOK /\ (Moves(p, pc) \/ RollsBack(p) \/ Ends(p))
<1>1. CASE Goto(p, pc) /\ UNCHANGED spent
  BY <1>1, GotoAlone, NoFault
<1>2. CASE Raise(p) /\ Fault("disk")
  <2>1. FaultsOK
    BY <1>2, FaultMore DEF FaultsOK, FaultKind
  <2> QED
    BY <1>2, <2>1, RaiseIs
<1> QED
  BY <1>1, <1>2 DEF Done

\* The next file is off the list; after the last one the loop is over.
Advances(p, pc) ==
    /\ Alone(p) /\ proc[p].left \in Lists /\ proc'[p].left = Tail(proc[p].left)
    /\ proc'[p].old = proc[p].old /\ proc'[p].undo = proc[p].undo
    /\ proc'[p].want = proc[p].want
    /\ proc'[p].pc = IF proc'[p].left = <<>> THEN pc ELSE proc[p].pc

LEMMA ReplacedIs ==
    ASSUME TypeOK, NEW p \in Proc, proc[p].pc \in StepsOf(p), NEW pc \in StepsOf(p),
           proc[p].left # <<>>, Replaced(p, pc)
    PROVE  FaultsOK /\ (Advances(p, pc) \/ RollsBack(p) \/ Ends(p))
<1>1. CASE /\ proc' = [proc EXCEPT ![p].left = Tail(@), ![p].pc = IF Len(proc[p].left) = 1 THEN pc ELSE @]
           /\ UNCHANGED spent
  <2> DEFINE s == proc[p]
             next == [s EXCEPT !.left = Tail(s.left), !.pc = IF Len(s.left) = 1 THEN pc ELSE s.pc]
  <2>1. s \in Process
    BY DEF TypeOK
  <2>2. s.left \in Lists
    BY <2>1 DEF Process, Lists
  <2>3. Tail(s.left) \in Lists /\ (Len(s.left) = 1 <=> Tail(s.left) = <<>>)
    BY <2>2, ListFacts
  <2>4. pc \in {"off", "ended", "recover", "restore", "reattest", "clear",
                "wait", "failed", "refused", "settle", "read", "write", "restart", "check", "attest", "unlink"}
    BY StepTable, PolicyProc
  <2>5. /\ next \in Process /\ next.left = Tail(s.left) /\ next.old = s.old /\ next.undo = s.undo
        /\ next.want = s.want
        /\ next.pc = IF Tail(s.left) = <<>> THEN pc ELSE s.pc
    BY <2>1, <2>3, <2>4 DEF Process, Lists
  <2>6. proc' = [proc EXCEPT ![p] = next]
    BY <1>1, <2>1 DEF TypeOK
  <2> HIDE DEF next
  <2>7. Alone(p) /\ proc'[p] = next
    BY <2>5, <2>6, BecomesAlone
  <2>8. Advances(p, pc)
    BY <2>2, <2>5, <2>7 DEF Advances
  <2> QED
    BY <1>1, <2>8, NoFault
<1>2. CASE Raise(p) /\ Fault("disk")
  <2>1. FaultsOK
    BY <1>2, FaultMore DEF FaultsOK, FaultKind
  <2> QED
    BY <1>2, <2>1, RaiseIs
<1> QED
  BY <1>1, <1>2 DEF Replaced

-----------------------------------------------------------------------------
(* The steps preserve Basic.                                               *)

\* The unit went on, into its rollback, or to its end.
Onward(p) == /\ Alone(p) /\ proc'[p].pc \in StepsOf(p) \ {"off", "refused", "wait", "settle"}
             /\ proc'[p].pc \in {"write", "restore"} => proc'[p].left # <<>>

LEMMA OutcomeOnward ==
    ASSUME Placed, NEW p \in Proc,
           NEW pc \in StepsOf(p) \ {"off", "refused", "wait", "settle", "write", "restore"},
           Moves(p, pc) \/ RollsBack(p) \/ Ends(p)
             \/ (proc[p].pc \in {"write", "restore"} /\ Advances(p, pc))
    PROVE  Onward(p)
<1>1. SwitchOrder # <<>> /\ "ended" \in StepsOf(p) /\ (p \in Policy => "write" \in StepsOf(p))
  BY ListsHave, StepTable, PolicyProc
<1>2. proc[p].pc \in StepsOf(p)
  BY DEF Placed
<1>3. CASE Moves(p, pc)
  BY <1>3 DEF Moves, Onward
<1>4. CASE RollsBack(p)
  BY <1>1, <1>4 DEF RollsBack, Onward
<1>5. CASE Ends(p)
  BY <1>1, <1>5, BrokenIs DEF Ends, Onward, Over
<1>6. CASE proc[p].pc \in {"write", "restore"} /\ Advances(p, pc)
  BY <1>2, <1>6 DEF Advances, Onward
<1> QED
  BY <1>3, <1>4, <1>5, <1>6

LEMMA PlainWork ==
    ASSUME Basic, NEW p \in Proc, Holds(p), Onward(p), StateOK', FaultsOK,
           UNCHANGED <<panel, gate, asked, unsettled, lost>>,
           proc[p].pc # "settle" \/ proc'[p].pc \in Over
    PROVE  Basic'
BY WorkStep DEF Onward, FaultsOK

LEMMA StepFacts ==
    ASSUME Basic
    PROVE  /\ TypeOK /\ Placed
           /\ \A p \in Proc : proc[p].pc \in StepsOf(p) /\ proc[p] \in Process
                              /\ (Holds(p) <=> proc[p].pc \notin {"off", "refused", "wait", "ended", "failed"})
BY DEF Basic, Placed, TypeOK, Holds

LEMMA BasicSettle ==
    ASSUME Basic, NEW p \in Policy, Settle(p)
    PROVE  Basic'
<1>1. p \in Proc /\ TypeOK /\ "recover" \in StepsOf(p)
  BY StepFacts, PolicyProc, StepTable
<1>2. Moves(p, "recover") /\ FaultsOK
  BY <1>1, GotoAlone, NoFault DEF Settle
<1>3. Holds(p) /\ Alone(p) /\ proc'[p].pc = "recover"
  BY <1>2 DEF Settle, At, Holds, Moves
<1>4. StateOK'
  BY <1>1, <1>2 DEF Settle, TypeOK, StateOK, FaultsOK
<1> QED
  BY <1>1, <1>2, <1>3, <1>4, WorkStep DEF Settle, FaultsOK, TypeOK

LEMMA BasicSettleFails ==
    ASSUME Basic, NEW p \in Policy, SettleFails(p)
    PROVE  Basic'
<1>1. p \in Proc /\ TypeOK /\ Placed /\ At(p, "settle") /\ Holds(p) /\ proc[p].pc \in StepsOf(p)
  BY StepFacts, PolicyProc DEF SettleFails, At, Holds
<1>2. RollsBack(p) \/ Ends(p)
  BY <1>1, RaiseIs DEF SettleFails
<1>3. Ends(p)
  BY <1>1, <1>2 DEF RollsBack, At, Inside
<1>4. FaultsOK
  BY <1>1, FaultMore, NoFault DEF SettleFails, FaultsOK, FaultKind
<1>5. StateOK'
  BY <1>1, <1>4 DEF SettleFails, TypeOK, StateOK, FaultsOK
<1>6. Onward(p)
  BY <1>3, BrokenIs, StepTable, PolicyProc DEF Onward, Ends, Over
<1> QED
  BY <1>1, <1>3, <1>4, <1>5, <1>6, BrokenIs, PlainWork DEF SettleFails, Ends

LEMMA BasicRead ==
    ASSUME Basic, NEW p \in Policy, Read(p)
    PROVE  Basic'
<1>1. p \in Proc /\ TypeOK /\ Placed /\ At(p, "read") /\ Holds(p) /\ proc[p].pc \in StepsOf(p)
  BY StepFacts, PolicyProc DEF Read, At, Holds
<1>2. [target |-> p, old |-> file] \in Record
  BY <1>1 DEF Record, TypeOK
<1>3. CASE UNCHANGED spent /\ proc' = [proc EXCEPT ![p] = [pc |-> "write", left |-> SwitchOrder,
                                 old |-> file, want |-> Up, undo |-> FALSE]]
  <2> DEFINE next == [pc |-> "write", left |-> SwitchOrder, old |-> file, want |-> Up, undo |-> FALSE]
  <2>1. SwitchOrder \in Lists /\ SwitchOrder # <<>> /\ file \in [File -> Policy] /\ Up \subseteq Config
    BY <1>1, ListsHave DEF TypeOK, Up
  <2>2. next \in Process /\ next.pc = "write" /\ next.left # <<>>
    BY <2>1 DEF Process, Lists
  <2> HIDE DEF next
  <2>3. Alone(p) /\ proc'[p] = next
    BY <1>1, <1>3, <2>2, BecomesAlone DEF next
  <2>4. Onward(p)
    BY <2>2, <2>3, StepTable DEF Onward
  <2>5. FaultsOK
    BY <1>1, <1>3, NoFault
  <2>6. StateOK'
    BY <1>1, <1>2, <2>5 DEF Read, TypeOK, StateOK, FaultsOK
  <2> QED
    BY <1>1, <2>4, <2>5, <2>6, PlainWork DEF Read, At
<1>4. CASE Raise(p) /\ Fault("disk")
  <2>1. RollsBack(p) \/ Ends(p)
    BY <1>1, <1>4, RaiseIs
  <2>2. "ended" \in StepsOf(p)
    BY StepTable
  <2>3. Onward(p)
    BY <1>1, <2>1, <2>2, OutcomeOnward
  <2>4. FaultsOK
    BY <1>1, <1>4, FaultMore DEF FaultsOK, FaultKind
  <2>5. StateOK'
    BY <1>1, <1>2, <2>4 DEF Read, TypeOK, StateOK, FaultsOK
  <2> QED
    BY <1>1, <2>3, <2>4, <2>5, PlainWork DEF Read, At
<1> QED
  BY <1>3, <1>4 DEF Read

LEMMA BasicReadRefused ==
    ASSUME Basic, NEW p \in Policy, ReadRefused(p)
    PROVE  Basic'
<1>1. p \in Proc /\ TypeOK /\ Placed /\ At(p, "read") /\ Holds(p) /\ proc[p].pc \in StepsOf(p)
  BY StepFacts, PolicyProc DEF ReadRefused, At, Holds
<1>2. RollsBack(p) \/ Ends(p)
  BY <1>1, RaiseIs DEF ReadRefused
<1>3. Onward(p)
  BY <1>1, <1>2, OutcomeOnward, StepTable
<1>4. FaultsOK /\ StateOK'
  BY <1>1, NoFault DEF ReadRefused, TypeOK, StateOK, FaultsOK
<1> QED
  BY <1>1, <1>3, <1>4, PlainWork DEF ReadRefused, At

LEMMA BasicReplace ==
    ASSUME Basic, NEW p \in Policy, Replace(p)
    PROVE  Basic'
<1>1. p \in Proc /\ TypeOK /\ Placed /\ At(p, "write") /\ Holds(p) /\ proc[p].pc \in StepsOf(p)
      /\ proc[p].left # <<>>
  BY StepFacts, PolicyProc DEF Replace, At, Holds, Placed
<1>2. FaultsOK /\ (Advances(p, "restart") \/ RollsBack(p) \/ Ends(p))
  BY <1>1, ReplacedIs, StepTable DEF Replace
<1>3. Onward(p)
  BY <1>1, <1>2, OutcomeOnward, StepTable DEF At
<1>4. StateOK'
  <2>1. file \in [File -> Policy] /\ proc[p].old \in [File -> Policy]
    BY <1>1 DEF TypeOK, Process
  <2>2. file' \in [File -> Policy]
    BY <2>1 DEF Replace
  <2> QED
    BY <1>1, <1>2, <2>2 DEF Replace, TypeOK, StateOK, FaultsOK
<1> QED
  BY <1>1, <1>2, <1>3, <1>4, PlainWork DEF Replace, At

LEMMA BasicRestart ==
    ASSUME Basic, NEW p \in Policy, Restart(p)
    PROVE  Basic'
<1>1. p \in Proc /\ TypeOK /\ Placed /\ At(p, "restart") /\ Holds(p) /\ proc[p].pc \in StepsOf(p)
  BY StepFacts, PolicyProc DEF Restart, At, Holds
<1> DEFINE r == Restarted(p)
<1>2. /\ lost' = lost \cup (unsettled \cap r) /\ unsettled' = unsettled \ r
      /\ UNCHANGED <<file, attested, record, panel, gate, asked>>
  BY DEF Restart
<1>3. file \in [File -> Policy] /\ loaded \in [Config -> Policy \cup {"down", "queued", "crashed"}]
      /\ Config \subseteq File
  BY <1>1, Orders DEF TypeOK
<1>4. /\ FaultsOK /\ (Moves(p, "check") \/ RollsBack(p) \/ Ends(p))
      /\ loaded' \in [Config -> Policy \cup {"down", "queued", "crashed"}]
  <2>1. CASE /\ loaded' = [c \in Config |-> IF c \in r THEN file[c] ELSE loaded[c]]
             /\ Goto(p, "check") /\ UNCHANGED spent
    <3>1. FaultsOK /\ Moves(p, "check")
      BY <1>1, <2>1, NoFault, GotoAlone, StepTable
    <3>2. loaded' \in [Config -> Policy \cup {"down", "queued", "crashed"}]
      BY <1>3, <2>1
    <3> QED
      BY <3>1, <3>2
  <2>2. CASE /\ Fault("unit") /\ Raise(p)
             /\ \E up \in SUBSET (r \ {"main"}) :
                  loaded' = [c \in Config |-> IF c \in up THEN file[c]
                                              ELSE IF c \in r THEN "down" ELSE loaded[c]]
    <3>1. FaultsOK /\ (RollsBack(p) \/ Ends(p))
      BY <1>1, <2>2, FaultMore, RaiseIs DEF FaultsOK, FaultKind
    <3>2. loaded' \in [Config -> Policy \cup {"down", "queued", "crashed"}]
      BY <1>3, <2>2
    <3> QED
      BY <3>1, <3>2
  <2>3. CASE /\ loaded' = [c \in Config |-> IF c \in r THEN "queued" ELSE loaded[c]]
             /\ Raise(p) /\ UNCHANGED spent
    <3>1. FaultsOK /\ (RollsBack(p) \/ Ends(p))
      BY <1>1, <2>3, NoFault, RaiseIs
    <3>2. loaded' \in [Config -> Policy \cup {"down", "queued", "crashed"}]
      BY <1>3, <2>3
    <3> QED
      BY <3>1, <3>2
  <2> QED
    BY <2>1, <2>2, <2>3 DEF Restart
<1>5. StateOK'
  BY <1>1, <1>2, <1>4 DEF TypeOK, StateOK, FaultsOK
<1>6. Onward(p)
  BY <1>1, <1>4, OutcomeOnward, StepTable
<1>7. proc[p].pc \in Inside /\ proc[p].pc # "settle"
  BY <1>1 DEF At, Inside
<1>8. lost' \subseteq lost \cup unsettled /\ unsettled' \subseteq unsettled
  BY <1>2
<1> HIDE DEF r
<1> QED
  BY <1>1, <1>2, <1>4, <1>5, <1>6, <1>7, <1>8, WorkStep DEF Onward, FaultsOK

LEMMA BasicCheck ==
    ASSUME Basic, NEW p \in Policy, Check(p)
    PROVE  Basic'
<1>1. p \in Proc /\ TypeOK /\ Placed /\ At(p, "check") /\ Holds(p) /\ proc[p].pc \in StepsOf(p)
  BY StepFacts, PolicyProc DEF Check, At, Holds
<1> DEFINE mainStopped == IF "main" \in Up \ proc[p].want THEN [c \in Config |-> "down"] ELSE loaded
           wrong == {c \in Config : \/ mainStopped[c] = "crashed"
                                    \/ c \in proc[p].want /\ mainStopped[c] \notin Policy}
           now == IF "main" \in wrong THEN mainStopped
                  ELSE [c \in Config |-> IF c \in wrong \cup proc[p].want THEN mainStopped[c] ELSE "down"]
<1>2. /\ loaded' = now
      /\ lost' = lost \cup {c \in unsettled : now[c] # loaded[c]}
      /\ unsettled' = {c \in unsettled : now[c] = loaded[c]}
      /\ Goto(p, "attest") \/ Raise(p)
      /\ UNCHANGED <<file, attested, record, panel, gate, asked, spent>>
  BY DEF Check
<1>3. now \in [Config -> Policy \cup {"down", "queued", "crashed"}]
  <2>1. mainStopped \in [Config -> Policy \cup {"down", "queued", "crashed"}]
    BY <1>1 DEF TypeOK
  <2> HIDE DEF mainStopped, wrong
  <2> QED
    BY <2>1
<1> HIDE DEF now
<1>4. FaultsOK /\ (Moves(p, "attest") \/ RollsBack(p) \/ Ends(p))
  BY <1>1, <1>2, GotoAlone, RaiseIs, NoFault, StepTable
<1>5. StateOK'
  BY <1>1, <1>2, <1>3, <1>4 DEF TypeOK, StateOK, FaultsOK
<1>6. Onward(p)
  BY <1>1, <1>4, OutcomeOnward, StepTable
<1>7. proc[p].pc \in Inside /\ proc[p].pc # "settle"
  BY <1>1 DEF At, Inside
<1>8. lost' \subseteq lost \cup unsettled /\ unsettled' \subseteq unsettled
  BY <1>2
<1> QED
  BY <1>1, <1>2, <1>4, <1>5, <1>6, <1>7, <1>8, WorkStep DEF Onward, FaultsOK

LEMMA BasicAttest ==
    ASSUME Basic, NEW p \in Policy, Attest(p)
    PROVE  Basic'
<1>1. p \in Proc /\ TypeOK /\ Placed /\ At(p, "attest") /\ Holds(p) /\ proc[p].pc \in StepsOf(p)
  BY StepFacts, PolicyProc DEF Attest, At, Holds
<1>2. FaultsOK /\ (Moves(p, "unlink") \/ RollsBack(p) \/ Ends(p))
  BY <1>1, DoneIs, StepTable DEF Attest
<1>3. Onward(p)
  BY <1>1, <1>2, OutcomeOnward, StepTable
<1>4. attested' \in Attestation
  <2>1. proc[p].old \in [File -> Policy] /\ "env" \in File
    BY <1>1, Orders DEF TypeOK, Process
  <2>2. [policy |-> proc[p].old["env"], files |-> proc[p].old] \in Attestation
        /\ [policy |-> p, files |-> AllOf(p)] \in Attestation
    BY <2>1, DataType DEF Attestation
  <2> QED
    BY <2>2 DEF Attest
<1>5. StateOK'
  BY <1>1, <1>2, <1>4 DEF Attest, TypeOK, StateOK, FaultsOK
<1> QED
  BY <1>1, <1>2, <1>3, <1>5, PlainWork DEF Attest, At

LEMMA BasicUnlink ==
    ASSUME Basic, NEW p \in Policy, Unlink(p)
    PROVE  Basic'
<1>1. p \in Proc /\ TypeOK /\ Placed /\ At(p, "unlink") /\ Holds(p) /\ proc[p].pc \in StepsOf(p)
  BY StepFacts, PolicyProc DEF Unlink, At, Holds
<1>2. FaultsOK /\ (Moves(p, "ended") \/ RollsBack(p) \/ Ends(p))
  BY <1>1, DoneIs, StepTable DEF Unlink
<1>3. Onward(p)
  BY <1>1, <1>2, OutcomeOnward, StepTable
<1>4. StateOK'
  BY <1>1, <1>2 DEF Unlink, TypeOK, StateOK, FaultsOK
<1> QED
  BY <1>1, <1>2, <1>3, <1>4, PlainWork DEF Unlink, At

LEMMA BasicWriteFails ==
    ASSUME Basic, NEW p \in Proc, WriteFails(p)
    PROVE  Basic'
<1>1. TypeOK /\ Placed /\ Holds(p) /\ proc[p].pc \in StepsOf(p) /\ proc[p].pc # "settle"
  BY StepFacts DEF WriteFails, Holds
<1>2. FaultsOK /\ (RollsBack(p) \/ Ends(p))
  BY <1>1, RaiseIs, FaultMore DEF WriteFails, FaultsOK, FaultKind
<1>3. Onward(p)
  BY <1>1, <1>2, OutcomeOnward, StepTable, PolicyProc
<1>4. StateOK'
  BY <1>1, <1>2 DEF WriteFails, TypeOK, StateOK, FaultsOK
<1> QED
  BY <1>1, <1>2, <1>3, <1>4, PlainWork DEF WriteFails

LEMMA BasicRecover ==
    ASSUME Basic, NEW p \in Proc, Recover(p)
    PROVE  Basic'
<1>1. TypeOK /\ Placed /\ At(p, "recover") /\ Holds(p) /\ proc[p].pc \in StepsOf(p)
  BY StepFacts DEF Recover, At, Holds
<1>2. AfterRecovery(p) \in StepsOf(p) \ {"off", "refused", "wait", "settle", "write", "restore"}
      /\ {"clear", "restore"} \subseteq StepsOf(p)
  BY StepTable, PolicyProc DEF AfterRecovery
<1>3. FaultsOK
  BY <1>1, NoFault DEF Recover
<1>4. StateOK'
  BY <1>1, <1>3 DEF Recover, TypeOK, StateOK, FaultsOK
<1>5. Onward(p)
  <2>1. CASE Goto(p, AfterRecovery(p))
    BY <1>1, <1>2, <2>1, GotoAlone, OutcomeOnward
  <2>2. CASE Goto(p, "clear")
    BY <1>1, <1>2, <2>2, GotoAlone, OutcomeOnward
  <2>3. CASE proc' = [proc EXCEPT ![p].pc = "restore", ![p].left = RecoverOrder]
    <3> DEFINE next == [proc[p] EXCEPT !.pc = "restore", !.left = RecoverOrder]
    <3>1. RecoverOrder \in Lists /\ RecoverOrder # <<>> /\ proc[p] \in Process
      BY StepFacts, ListsHave
    <3>2. next \in Process /\ next.pc = "restore" /\ next.left = RecoverOrder
      BY <3>1 DEF Process, Lists
    <3>3. proc' = [proc EXCEPT ![p] = next]
      BY <1>1, <2>3 DEF TypeOK
    <3> HIDE DEF next
    <3>4. Alone(p) /\ proc'[p] = next
      BY <1>1, <3>2, <3>3, BecomesAlone
    <3> QED
      BY <1>2, <3>1, <3>2, <3>4 DEF Onward
  <2> QED
    BY <2>1, <2>2, <2>3 DEF Recover
<1> QED
  BY <1>1, <1>3, <1>4, <1>5, PlainWork DEF Recover, At

LEMMA RecordIs ==
    ASSUME TypeOK
    PROVE  \A r \in record : r \in Record /\ r.target \in Policy /\ r.old \in [File -> Policy]
                             /\ record = {r}
<1>1. ASSUME NEW r \in record PROVE r \in Record /\ record = {r}
  BY <1>1 DEF TypeOK
<1> QED
  BY <1>1 DEF Record

LEMMA BasicRestore ==
    ASSUME Basic, NEW p \in Proc, Restore(p)
    PROVE  Basic'
<1>1. TypeOK /\ Placed /\ At(p, "restore") /\ Holds(p) /\ proc[p].pc \in StepsOf(p)
      /\ proc[p].left # <<>>
  BY StepFacts DEF Restore, At, Holds, Placed
<1>2. FaultsOK /\ (Advances(p, "reattest") \/ RollsBack(p) \/ Ends(p))
  BY <1>1, ReplacedIs, StepTable, PolicyProc DEF Restore
<1>3. Onward(p)
  BY <1>1, <1>2, OutcomeOnward, StepTable, PolicyProc DEF At
<1>4. StateOK'
  <2>1. PICK r \in record : LET f == Head(proc[p].left) IN file' = [file EXCEPT ![f] = r.old[f]]
    BY DEF Restore
  <2>2. file \in [File -> Policy] /\ r.old \in [File -> Policy]
    BY <1>1, RecordIs DEF TypeOK
  <2>3. file' \in [File -> Policy]
    BY <2>1, <2>2
  <2> QED
    BY <1>1, <1>2, <2>3 DEF Restore, TypeOK, StateOK, FaultsOK
<1> QED
  BY <1>1, <1>2, <1>3, <1>4, PlainWork DEF Restore, At

LEMMA BasicReattest ==
    ASSUME Basic, NEW p \in Proc, Reattest(p)
    PROVE  Basic'
<1>1. TypeOK /\ Placed /\ At(p, "reattest") /\ Holds(p) /\ proc[p].pc \in StepsOf(p)
  BY StepFacts DEF Reattest, At, Holds
<1>2. FaultsOK /\ (Moves(p, "clear") \/ RollsBack(p) \/ Ends(p))
  BY <1>1, DoneIs, StepTable, PolicyProc DEF Reattest
<1>3. Onward(p)
  BY <1>1, <1>2, OutcomeOnward, StepTable, PolicyProc
<1>4. attested' \in Attestation
  <2>1. PICK r \in record : attested' = [policy |-> r.old["env"], files |-> r.old]
    BY DEF Reattest
  <2>2. r.old \in [File -> Policy] /\ "env" \in File
    BY <1>1, RecordIs, Orders
  <2> QED
    BY <2>1, <2>2 DEF Attestation
<1>5. StateOK'
  BY <1>1, <1>2, <1>4 DEF Reattest, TypeOK, StateOK, FaultsOK
<1> QED
  BY <1>1, <1>2, <1>3, <1>5, PlainWork DEF Reattest, At

LEMMA BasicClear ==
    ASSUME Basic, NEW p \in Proc, Clear(p)
    PROVE  Basic'
<1>1. TypeOK /\ Placed /\ At(p, "clear") /\ Holds(p) /\ proc[p].pc \in StepsOf(p)
  BY StepFacts DEF Clear, At, Holds
<1>2. AfterRecovery(p) \in StepsOf(p) \ {"off", "refused", "wait", "settle", "write", "restore"}
  BY StepTable, PolicyProc DEF AfterRecovery
<1>3. FaultsOK /\ (Moves(p, AfterRecovery(p)) \/ RollsBack(p) \/ Ends(p))
  BY <1>1, <1>2, DoneIs DEF Clear
<1>4. Onward(p)
  BY <1>1, <1>2, <1>3, OutcomeOnward
<1>5. StateOK'
  BY <1>1, <1>3 DEF Clear, TypeOK, StateOK, FaultsOK
<1> QED
  BY <1>1, <1>3, <1>4, <1>5, PlainWork DEF Clear, At

\* The recovery unit may also be killed while it waits for the lock.
LEMMA BasicKill ==
    ASSUME Basic, NEW p \in Proc, Kill(p)
    PROVE  Basic'
<1>1. TypeOK /\ Placed /\ Broken(p) \in StepsOf(p) /\ Broken(p) \in Over
  BY StepFacts, BrokenIs
<1>2. FaultsOK /\ Moves(p, Broken(p)) /\ ~Undisturbed'
  BY <1>1, GotoAlone, FaultMore DEF Kill, FaultsOK, FaultKind
<1>3. TypeOK'
  BY <1>1, <1>2 DEF Kill, TypeOK, FaultsOK, Moves, Alone
<1>4. Exclusive' /\ Placed'
  BY <1>1, <1>2 DEF Basic, Exclusive, Placed, Holds, Moves, Alone, Over
<1> QED
  BY <1>2, <1>3, <1>4 DEF Basic, Gated

\* A step of no unit.
LEMMA OtherStep ==
    ASSUME Basic, UNCHANGED <<proc, gate, asked, lost>>, StateOK', FaultsOK, panel' \in {"up", "queued", "down"},
           unsettled' \subseteq unsettled \/ ~gate
    PROVE  Basic'
<1>1. TypeOK' /\ Exclusive' /\ Placed'
  BY DEF Basic, TypeOK, StateOK, Exclusive, Placed, Holds
<1>2. Gated'
  <2> SUFFICES ASSUME Undisturbed'
               PROVE  /\ lost' = {}
                      /\ \A q \in Policy : ~At(q, "off")' => gate' /\ \A r \in Policy : r # q => At(r, "off")'
                      /\ \A q \in Policy : proc'[q].pc \notin {"off", "refused", "settle", "ended"} => unsettled' = {}
    BY DEF Gated, At
  <2>1. /\ lost = {}
        /\ \A q \in Policy : ~At(q, "off") => gate /\ \A r \in Policy : r # q => At(r, "off")
        /\ \A q \in Policy : proc[q].pc \notin {"off", "refused", "settle", "ended"} => unsettled = {}
    BY DEF Basic, Gated, FaultsOK
  <2> QED
    BY <2>1 DEF At
<1> QED
  BY <1>1, <1>2 DEF Basic

LEMMA BasicStarts ==
    ASSUME Basic, StartPanel \/ StartByHand \/ StartServers \/ \E c \in Config : StartServer(c) \/ RestartDue(c)
    PROVE  Basic'
<1>1. TypeOK /\ Config \subseteq File
  BY StepFacts, Orders
<1>2. file \in [File -> Policy] /\ loaded \in [Config -> Policy \cup {"down", "queued", "crashed"}]
  BY <1>1 DEF TypeOK
<1>3. UNCHANGED <<file, attested, record, gate, unsettled, lost, proc, asked, spent>>
      /\ panel' \in {"up", "queued", "down"}
  BY <1>1 DEF StartPanel, StartByHand, StartServers, StartServer, RestartDue, TypeOK
<1>4. loaded' \in [Config -> Policy \cup {"down", "queued", "crashed"}]
  <2>1. CASE StartPanel \/ StartByHand
    BY <1>2, <2>1 DEF StartPanel, StartByHand
  <2>2. CASE StartServers
    BY <1>1, <1>2, <2>2 DEF StartServers, Started
  <2>3. ASSUME NEW c \in Config, StartServer(c) \/ RestartDue(c)
        PROVE  loaded' \in [Config -> Policy \cup {"down", "queued", "crashed"}]
    BY <1>1, <1>2, <2>3 DEF StartServer, RestartDue
  <2> QED
    BY <2>1, <2>2, <2>3
<1>5. FaultsOK /\ StateOK'
  BY <1>1, <1>3, <1>4, NoFault DEF TypeOK, StateOK, FaultsOK
<1> QED
  BY <1>3, <1>5, OtherStep

LEMMA BasicStops ==
    ASSUME Basic, CrashPanel \/ StopServers \/ \E c \in Config : CrashServer(c)
    PROVE  Basic'
<1>1. TypeOK
  BY StepFacts
<1>2. UNCHANGED <<file, attested, record, gate, lost, proc, asked>> /\ FaultsOK
  BY <1>1, FaultMore DEF CrashPanel, StopServers, CrashServer, FaultsOK, FaultKind
<1>3. loaded' \in [Config -> Policy \cup {"down", "queued", "crashed"}] /\ unsettled' \subseteq unsettled
  BY <1>1 DEF CrashPanel, StopServers, CrashServer, TypeOK
<1>4. StateOK' /\ panel' \in {"up", "queued", "down"}
  BY <1>1, <1>2, <1>3 DEF CrashPanel, StopServers, CrashServer, TypeOK, StateOK, FaultsOK
<1> QED
  BY <1>2, <1>3, <1>4, OtherStep

LEMMA BasicAdmit ==
    ASSUME Basic, NEW c \in Config, Admit(c)
    PROVE  Basic'
<1>1. TypeOK
  BY StepFacts
<1>2. FaultsOK /\ UNCHANGED <<file, attested, record, loaded, panel, gate, lost, proc, asked, spent>>
      /\ unsettled' \subseteq Config /\ ~gate
  BY <1>1, NoFault DEF Admit, TypeOK
<1>3. StateOK' /\ panel' \in {"up", "queued", "down"}
  BY <1>1, <1>2 DEF TypeOK, StateOK, FaultsOK
<1> QED
  BY <1>2, <1>3, OtherStep

LEMMA BasicPowerLoss ==
    ASSUME Basic, PowerLoss
    PROVE  Basic'
<1>1. TypeOK /\ spent' \in [FaultKind -> Nat] /\ (Undisturbed' => Undisturbed)
  BY StepFacts, FaultMore DEF PowerLoss, FaultKind
<1>2. /\ loaded' = [c \in Config |-> "queued"] /\ unsettled' = {}
      /\ panel' = "queued" /\ gate' = FALSE /\ proc' = [p \in Proc |-> Idle]
      /\ UNCHANGED <<file, attested, record, lost, asked>>
  BY DEF PowerLoss
<1>3. \A p \in Proc : proc'[p] = Idle /\ proc'[p].pc = "off"
  BY <1>2, DataType
<1>4. proc' \in [Proc -> Process]
  BY <1>2, DataType
<1>5. TypeOK'
  BY <1>1, <1>2, <1>4 DEF TypeOK
<1>6. Exclusive' /\ Placed'
  BY <1>3, StepTable, PolicyProc DEF Exclusive, Placed, Holds
<1>7. Gated'
  BY <1>1, <1>2, <1>3, PolicyProc DEF Gated, At, Basic
<1> QED
  BY <1>5, <1>6, <1>7 DEF Basic

LEMMA BasicStartRecovery ==
    ASSUME Basic, StartRecovery \/ TakeLock
    PROVE  Basic'
<1>1. TypeOK /\ "boot" \in Proc /\ {"wait", "recover"} \subseteq StepsOf("boot")
  BY StepFacts, PolicyProc, StepTable
<1>2. PICK pc \in {"wait", "recover"} : Goto("boot", pc) /\ (pc = "recover" => LockFree)
  BY DEF StartRecovery, TakeLock
<1>3. Moves("boot", pc) /\ FaultsOK
  BY <1>1, <1>2, GotoAlone, NoFault DEF StartRecovery, TakeLock
<1>4. /\ UNCHANGED <<file, attested, record, loaded, panel, gate, unsettled, lost, asked, spent>>
      /\ proc' \in [Proc -> Process] /\ proc'["boot"].pc = pc
      /\ \A q \in Proc : q # "boot" => proc'[q] = proc[q]
  BY <1>3 DEF StartRecovery, TakeLock, Moves, Alone
<1>5. TypeOK' /\ Exclusive' /\ Placed'
  BY <1>1, <1>2, <1>4 DEF Basic, TypeOK, Exclusive, Placed, Holds, LockFree
<1>6. Gated'
  BY <1>3, <1>4, PolicyProc DEF Basic, Gated, At, FaultsOK
<1> QED
  BY <1>5, <1>6 DEF Basic

LEMMA BasicRecoveryFails ==
    ASSUME Basic, RecoveryFails
    PROVE  Basic'
<1>1. TypeOK /\ "boot" \in Proc /\ Idle \in Process /\ Idle.pc = "off" /\ FaultsOK
  BY StepFacts, DataType, NoFault, PolicyProc DEF RecoveryFails
<1>2. Alone("boot") /\ proc'["boot"] = Idle
  BY <1>1, BecomesAlone DEF RecoveryFails
<1>3. /\ UNCHANGED <<file, attested, record, gate, unsettled, lost, asked, spent>>
      /\ panel' \in {"up", "queued", "down"}
      /\ loaded' \in [Config -> Policy \cup {"down", "queued", "crashed"}]
  BY <1>1 DEF RecoveryFails, TypeOK
<1>4. TypeOK' /\ Exclusive' /\ Placed'
  BY <1>1, <1>2, <1>3, StepTable DEF Basic, TypeOK, Exclusive, Placed, Holds, Alone
<1>5. Gated'
  BY <1>1, <1>2, <1>3, PolicyProc DEF Basic, Gated, At, FaultsOK, Alone
<1> QED
  BY <1>4, <1>5 DEF Basic

LEMMA BasicEnd ==
    ASSUME Basic, NEW p \in Proc, End(p)
    PROVE  Basic'
<1>1. TypeOK /\ proc[p].pc \in {"refused", "ended"} /\ Idle \in Process /\ Idle.pc = "off"
  BY StepFacts, DataType DEF End
<1>2. Alone(p) /\ proc'[p] = Idle
  BY <1>1, BecomesAlone DEF End
<1>3. /\ UNCHANGED <<file, attested, record, loaded, panel, unsettled, lost, asked, spent>>
      /\ gate' = (IF p \in Policy THEN FALSE ELSE gate)
      /\ proc' \in [Proc -> Process] /\ proc'[p].pc = "off"
      /\ \A q \in Proc : q # p => proc'[q] = proc[q]
  BY <1>1, <1>2 DEF End, Alone
<1>4. TypeOK'
  BY <1>1, <1>3 DEF TypeOK
<1>5. Exclusive'
  BY <1>3 DEF Basic, Exclusive, Holds
<1>6. Placed'
  BY <1>3, StepTable, PolicyProc DEF Basic, Placed
<1>7. Gated'
  <2> SUFFICES ASSUME Undisturbed'
               PROVE  /\ lost' = {}
                      /\ \A q \in Policy : ~At(q, "off")' => gate' /\ \A r \in Policy : r # q => At(r, "off")'
                      /\ \A q \in Policy : proc'[q].pc \notin {"off", "refused", "settle", "ended"} => unsettled' = {}
    BY DEF Gated, At
  <2>1. /\ lost = {}
        /\ \A q \in Policy : ~At(q, "off") => gate /\ \A r \in Policy : r # q => At(r, "off")
        /\ \A q \in Policy : proc[q].pc \notin {"off", "refused", "settle", "ended"} => unsettled = {}
    BY <1>3 DEF Basic, Gated, Undisturbed
  <2>2. CASE p \in Policy
    <3>1. \A q \in Policy : proc'[q].pc = "off"
      <4>1. ~At(p, "off")
        BY <1>1 DEF At
      <4>2. \A q \in Policy : q # p => At(q, "off")
        BY <2>1, <2>2, <4>1
      <4> QED
        BY <1>3, <4>2, PolicyProc DEF At
    <3> QED
      BY <1>3, <2>1, <3>1 DEF At
  <2>3. CASE p \notin Policy
    BY <1>3, <2>1, <2>3, PolicyProc DEF At
  <2> QED
    BY <2>2, <2>3
<1> QED
  BY <1>4, <1>5, <1>6, <1>7 DEF Basic

LEMMA BasicBegin ==
    ASSUME Basic, NEW p \in Policy, Begin(p)
    PROVE  Basic'
<1>1. p \in Proc /\ TypeOK /\ At(p, "off") /\ {"settle", "refused"} \subseteq StepsOf(p)
  BY StepFacts, PolicyProc, StepTable DEF Begin
<1> DEFINE pc == IF LockFree THEN "settle" ELSE "refused"
<1>2. pc \in StepsOf(p) /\ Goto(p, pc)
  BY <1>1 DEF Begin
<1> HIDE DEF pc
<1>3. Moves(p, pc)
  BY <1>1, <1>2, GotoAlone
<1>4. /\ UNCHANGED <<file, attested, record, loaded, panel, unsettled, lost>>
      /\ gate' = TRUE /\ asked' = asked + 1 /\ asked < MaxSwitches
      /\ proc' \in [Proc -> Process] /\ proc'[p].pc = pc
      /\ \A q \in Proc : q # p => proc'[q] = proc[q]
  BY <1>3 DEF Begin, Moves, Alone
<1>5. /\ spent' \in [FaultKind -> Nat] /\ (Undisturbed' => Undisturbed)
      /\ Undisturbed' => \A q \in Policy : At(q, "off")
  BY <1>1, NoFault, FaultMore DEF Begin, FaultsOK, FaultKind
<1>6. TypeOK'
  BY <1>1, <1>4, <1>5, ConstantsAssumption DEF TypeOK
<1>7. Exclusive'
  <2>1. CASE LockFree
    BY <1>4, <2>1 DEF Exclusive, LockFree, Holds
  <2>2. CASE ~LockFree
    BY <1>4, <2>2 DEF Basic, Exclusive, Holds, pc
  <2> QED
    BY <2>1, <2>2
<1>8. Placed'
  BY <1>2, <1>4 DEF Basic, Placed, pc
<1>9. Gated'
  BY <1>1, <1>4, <1>5, PolicyProc DEF Basic, Gated, At, pc
<1> QED
  BY <1>6, <1>7, <1>8, <1>9 DEF Basic

LEMMA InitBasic ==
    ASSUME Init
    PROVE  Basic
<1>1. /\ "web" \in Policy /\ AllOf("web") \in [File -> Policy] /\ Idle \in Process /\ Idle.pc = "off"
  BY DataType DEF Policy
<1>2. TypeOK
  <2>1. file \in [File -> Policy] /\ attested \in Attestation
    BY <1>1 DEF Init, Attestation
  <2>2. loaded \in [Config -> Policy \cup {"down", "queued", "crashed"}] /\ proc \in [Proc -> Process]
    BY <1>1 DEF Init
  <2>3. spent \in [FaultKind -> Nat] /\ asked \in 0..MaxSwitches
    BY ConstantsAssumption DEF Init
  <2> QED
    BY <2>1, <2>2, <2>3 DEF Init, TypeOK
<1>3. \A p \in Proc : proc[p] = Idle /\ proc[p].pc = "off"
  BY <1>1 DEF Init
<1>4. Exclusive /\ Placed
  BY <1>3, StepTable, PolicyProc DEF Exclusive, Placed, Holds
<1>5. Gated
  BY <1>3, PolicyProc DEF Init, Gated, At
<1> QED
  BY <1>2, <1>4, <1>5 DEF Basic

LEMMA StepBasic ==
    ASSUME Basic, [Next]_vars
    PROVE  Basic'
<1>1. ASSUME NEW p \in Policy, Begin(p) PROVE Basic'
  BY <1>1, BasicBegin
<1>2. ASSUME NEW p \in Policy, Switching(p) PROVE Basic'
  BY <1>2, BasicSettle, BasicRead, BasicReadRefused, BasicReplace, BasicRestart, BasicCheck,
     BasicAttest, BasicUnlink DEF Switching
<1>3. ASSUME NEW p \in Policy, SettleFails(p) PROVE Basic'
  BY <1>3, BasicSettleFails
<1>4. ASSUME NEW p \in Proc, Recovering(p) PROVE Basic'
  BY <1>4, BasicRecover, BasicRestore, BasicReattest, BasicClear, BasicEnd DEF Recovering
<1>5. ASSUME NEW p \in Proc, WriteFails(p) \/ Kill(p) PROVE Basic'
  BY <1>5, BasicWriteFails, BasicKill
<1>6. CASE StartRecovery \/ TakeLock \/ RecoveryFails
  BY <1>6, BasicStartRecovery, BasicRecoveryFails
<1>7. CASE StartPanel \/ StartByHand \/ StartServers \/ \E c \in Config : StartServer(c) \/ RestartDue(c)
  BY <1>7, BasicStarts
<1>8. CASE CrashPanel \/ StopServers \/ \E c \in Config : CrashServer(c)
  BY <1>8, BasicStops
<1>9. CASE PowerLoss
  BY <1>9, BasicPowerLoss
<1>10. ASSUME NEW c \in Config, Admit(c) PROVE Basic'
  BY <1>10, BasicAdmit
<1>11. CASE UNCHANGED vars
  BY <1>11 DEF vars, Basic, TypeOK, Exclusive, Placed, Gated, Holds, At, Undisturbed
<1> QED
  BY <1>1, <1>2, <1>3, <1>4, <1>5, <1>6, <1>7, <1>8, <1>9, <1>10, <1>11 DEF Next

-----------------------------------------------------------------------------
(* The steps preserve Files.                                               *)

\* Without the lock, and before it is in the middle of its work, a unit has no say
\* about the files.
Elsewhere == {"off", "refused", "wait", "settle", "recover"} \cup Over

LEMMA Outside ==
    ASSUME NEW p \in Proc, proc[p].pc \in Elsewhere
    PROVE  FilesAt(p) /\ proc[p].pc \notin Inside
BY DEF FilesAt, Inside, Elsewhere, Over

LEMMA OutsideNext ==
    ASSUME NEW p \in Proc, proc'[p].pc \in Elsewhere
    PROVE  FilesAt(p)' /\ proc'[p].pc \notin Inside
BY DEF FilesAt, Inside, Elsewhere, Over

\* Only the holder of the lock is inside, so its own step decides.
LEMMA HolderFiles ==
    ASSUME Basic, NEW p \in Proc, Holds(p), Alone(p), FilesAt(p)', Backed'
    PROVE  Files'
<1>1. ASSUME NEW q \in Proc, q # p PROVE FilesAt(q)'
  <2>1. ~Holds(q) /\ proc'[q] = proc[q]
    BY <1>1 DEF Basic, Exclusive, Alone
  <2> QED
    BY <2>1, OutsideNext DEF Holds, Elsewhere, Over
<1> QED
  BY <1>1 DEF Files

LEMMA UnrecordedIs ==
    ASSUME Basic, NEW p \in Proc, Holds(p), Alone(p)
    PROVE  /\ Unrecorded <=> record = {} /\ p \in Policy /\ proc[p].pc \in Inside
           /\ Unrecorded' <=> record' = {} /\ p \in Policy /\ proc'[p].pc \in Inside
<1>1. \A q \in Policy : q # p => proc[q].pc \notin Inside /\ proc'[q] = proc[q]
  BY PolicyProc DEF Basic, Exclusive, Holds, Alone, Inside
<1> QED
  BY <1>1 DEF Unrecorded

LEMMA AttestedIs ==
    ASSUME TypeOK, Attested
    PROVE  file = AllOf(file["env"]) /\ attested = [policy |-> file["env"], files |-> file]
<1>1. file \in [File -> Policy] /\ \A f \in File : file[f] = file["env"]
  BY DEF TypeOK, Attested
<1>2. file = AllOf(file["env"])
  BY <1>1 DEF AllOf
<1> QED
  BY <1>2 DEF Attested

\* The rollback starts: every file is still to be written.
LEMMA FilesRollsBack ==
    ASSUME Basic, Files, NEW p \in Proc, Holds(p), RollsBack(p),
           record' = record \/ record' = {}
    PROVE  Files'
<1>1. /\ Alone(p) /\ proc[p].pc \in Inside /\ ~proc[p].undo /\ p \in Policy
      /\ proc'[p].pc = "write" /\ proc'[p].undo /\ proc'[p].left = SwitchOrder
      /\ proc'[p].old = proc[p].old
  BY DEF RollsBack
<1>2. proc[p].old = AllOf(proc[p].old["env"]) /\ record = {[target |-> p, old |-> proc[p].old]}
  BY <1>1 DEF Files, FilesAt
<1>3. FilesAt(p)'
  <2>1. Listed(SwitchOrder) = File
    BY Orders
  <2>2. WrittenFrom(Goal(p), proc[p].left)'
    BY <1>1, <2>1 DEF WrittenFrom
  <2> QED
    BY <1>1, <1>2, <2>2 DEF FilesAt, Inside
<1>4. Backed'
  <2>1. record' = {} => Unrecorded'
    BY <1>1 DEF Unrecorded, Inside
  <2> QED
    BY <1>2, <2>1 DEF Files, Backed
<1> QED
  BY <1>1, <1>3, <1>4, HolderFiles

\* The command ends, killed or failed; a rollback without a record does not.
LEMMA FilesEnds ==
    ASSUME Basic, Files, NEW p \in Proc, Holds(p), Alone(p), proc'[p].pc \in Over,
           record' = record, record # {} \/ (UNCHANGED <<file, attested>> /\ ~RollbackCut)
    PROVE  Files'
<1>1. FilesAt(p)' /\ proc'[p].pc \notin Inside
  BY OutsideNext DEF Elsewhere
<1>2. Backed'
  <2>1. CASE record # {}
    BY <2>1 DEF Files, Backed
  <2>2. CASE record = {} /\ UNCHANGED <<file, attested>> /\ ~RollbackCut
    <3>1. Attested
      <4>1. CASE ~Unrecorded
        BY <2>2, <4>1 DEF Files, Backed
      <4>2. CASE Unrecorded
        <5>1. p \in Policy /\ proc[p].pc \in Inside
          BY <4>2, UnrecordedIs
        <5>2. proc[p].pc = "unlink"
          BY <1>1, <2>2, <5>1 DEF RollbackCut, Inside
        <5> QED
          BY <5>2 DEF Files, FilesAt
      <4> QED
        BY <4>1, <4>2
    <3> QED
      BY <2>2, <3>1 DEF Files, Backed, Attested
  <2> QED
    BY <2>1, <2>2
<1> QED
  BY <1>1, <1>2, HolderFiles

\* Nothing on disk changes and units only leave, or have not come to the files.
LEMMA FilesSame ==
    ASSUME Basic, Files, ~RollbackCut, UNCHANGED <<file, attested, record>>,
           \A q \in Proc : \/ proc'[q] = proc[q]
                           \/ proc'[q].pc \in Elsewhere
    PROVE  Files'
<1>1. ASSUME NEW q \in Proc PROVE FilesAt(q)'
  <2>1. CASE proc'[q] = proc[q]
    BY <2>1 DEF Files, FilesAt, Attested, WrittenFrom, Goal
  <2>2. CASE proc'[q].pc \in Elsewhere
    BY <2>2, OutsideNext
  <2> QED
    BY <2>1, <2>2
<1>2. Backed'
  <2> SUFFICES ASSUME record' = {}, ~Unrecorded' PROVE Attested
    BY DEF Files, Backed, Attested
  <2>1. CASE ~Unrecorded
    BY <2>1 DEF Files, Backed
  <2>2. CASE Unrecorded
    <3>1. PICK p \in Policy : proc[p].pc \in Inside
      BY <2>2 DEF Unrecorded
    <3>2. proc'[p].pc \notin Inside
      BY DEF Unrecorded
    <3>3. proc[p].pc = "unlink"
      BY <3>1, <3>2 DEF RollbackCut
    <3> QED
      BY <3>3, PolicyProc DEF Files, FilesAt
  <2> QED
    BY <2>1, <2>2
<1> QED
  BY <1>1, <1>2 DEF Files

LEMMA FilesOther ==
    ASSUME Basic, Files, ~RollbackCut,
           \/ \E p \in Policy : Begin(p) \/ Settle(p) \/ SettleFails(p)
           \/ \E p \in Proc : End(p) \/ Kill(p)
           \/ StartRecovery \/ TakeLock \/ RecoveryFails \/ PowerLoss
           \/ StartPanel \/ StartByHand \/ CrashPanel \/ StartServers \/ StopServers
           \/ \E c \in Config : StartServer(c) \/ RestartDue(c) \/ CrashServer(c) \/ Admit(c)
           \/ UNCHANGED vars
    PROVE  Files'
<1> DEFINE Places == \A q \in Proc : \/ proc'[q] = proc[q]
                                     \/ proc'[q].pc \in Elsewhere
<1>1. TypeOK /\ Placed /\ Idle \in Process /\ Idle.pc = "off" /\ \A p \in Proc : proc[p].pc \in StepsOf(p)
  BY StepFacts, DataType
<1>2. ASSUME NEW p \in Proc, NEW pc \in Elsewhere \ {"off"}, pc \in StepsOf(p), Goto(p, pc)
      PROVE  Places
  <2>1. Moves(p, pc)
    BY <1>1, <1>2, GotoAlone
  <2> QED
    BY <2>1 DEF Moves, Alone
<1>3. ASSUME NEW p \in Policy, Begin(p) \/ Settle(p)
      PROVE  UNCHANGED <<file, attested, record>> /\ Places
  <2>1. p \in Proc /\ {"refused", "settle", "recover"} \subseteq StepsOf(p)
    BY PolicyProc, StepTable
  <2>2. Goto(p, "settle") \/ Goto(p, "refused") \/ Goto(p, "recover")
    BY <1>3 DEF Begin, Settle
  <2>3. Places
    BY <1>2, <2>1, <2>2 DEF Elsewhere
  <2>4. UNCHANGED <<file, attested, record>>
    BY <1>3 DEF Begin, Settle
  <2> QED
    BY <2>3, <2>4
<1>4. ASSUME NEW p \in Policy, SettleFails(p)
      PROVE  UNCHANGED <<file, attested, record>> /\ Places
  <2>1. p \in Proc /\ At(p, "settle") /\ Raise(p)
    BY <1>4, PolicyProc DEF SettleFails
  <2>2. Ends(p)
    BY <1>1, <2>1, RaiseIs DEF RollsBack, At, Inside
  <2>3. Places
    BY <2>2, BrokenIs DEF Ends, Alone, Elsewhere
  <2> QED
    BY <1>4, <2>3 DEF SettleFails
<1>5. ASSUME NEW p \in Proc, End(p)
      PROVE  UNCHANGED <<file, attested, record>> /\ Places
  <2>1. Alone(p) /\ proc'[p] = Idle
    BY <1>1, <1>5, BecomesAlone DEF End
  <2>2. Places
    BY <1>1, <2>1 DEF Alone, Elsewhere
  <2> QED
    BY <1>5, <2>2 DEF End
<1>6. ASSUME NEW p \in Proc, Kill(p)
      PROVE  UNCHANGED <<file, attested, record>> /\ Places
  <2>1. Broken(p) \in StepsOf(p) /\ Broken(p) \in Over /\ Goto(p, Broken(p))
    BY <1>6, BrokenIs DEF Kill
  <2>2. Places
    BY <1>2, <2>1 DEF Elsewhere, Over
  <2> QED
    BY <1>6, <2>2 DEF Kill
<1>7. CASE StartRecovery \/ TakeLock \/ RecoveryFails
  <2>1. CASE StartRecovery \/ TakeLock
    <3>1. Places
      BY <1>2, <2>1, StepTable, PolicyProc DEF StartRecovery, TakeLock, Elsewhere
    <3> QED
      BY <2>1, <3>1, FilesSame DEF StartRecovery, TakeLock
  <2>2. CASE RecoveryFails
    <3>1. Alone("boot") /\ proc'["boot"] = Idle
      BY <1>1, <2>2, BecomesAlone, PolicyProc DEF RecoveryFails
    <3>2. Places
      BY <1>1, <3>1 DEF Alone, Elsewhere
    <3> QED
      BY <2>2, <3>2, FilesSame DEF RecoveryFails
  <2> QED
    BY <1>7, <2>1, <2>2
<1>8. CASE PowerLoss
  <2>1. Places
    BY <1>1, <1>8 DEF PowerLoss, Elsewhere
  <2> QED
    BY <1>8, <2>1, FilesSame DEF PowerLoss
<1>9. CASE \/ StartPanel \/ StartByHand \/ CrashPanel \/ StartServers \/ StopServers \/ UNCHANGED vars
           \/ \E c \in Config : StartServer(c) \/ RestartDue(c) \/ CrashServer(c) \/ Admit(c)
  <2>1. UNCHANGED <<file, attested, record, proc>>
    BY <1>9 DEF StartPanel, StartByHand, CrashPanel, StartServers, StopServers, StartServer, RestartDue,
       CrashServer, Admit, vars
  <2> QED
    BY <2>1, FilesSame
<1> HIDE DEF Places
<1>10. ASSUME NEW p \in Policy, Begin(p) \/ Settle(p) \/ SettleFails(p) PROVE Files'
  BY <1>3, <1>4, <1>10, FilesSame DEF Places
<1>11. ASSUME NEW p \in Proc, End(p) \/ Kill(p) PROVE Files'
  BY <1>5, <1>6, <1>11, FilesSame DEF Places
<1> QED
  BY <1>7, <1>8, <1>9, <1>10, <1>11

\* A failure that leaves the disk alone.
LEMMA FilesRaise ==
    ASSUME Basic, Files, ~RollbackCut, NEW p \in Proc, Holds(p), Raise(p),
           UNCHANGED <<file, attested, record>>
    PROVE  Files'
<1>1. TypeOK /\ proc[p].pc \in StepsOf(p)
  BY StepFacts
<1>2. RollsBack(p) \/ Ends(p)
  BY <1>1, RaiseIs
<1> QED
  BY <1>2, FilesRollsBack, FilesEnds, BrokenIs DEF Ends

LEMMA FilesRead ==
    ASSUME Basic, Files, NEW p \in Policy, Read(p)
    PROVE  Files'
<1>1. p \in Proc /\ TypeOK /\ At(p, "read") /\ Holds(p) /\ proc[p].pc \in StepsOf(p)
  BY StepFacts, PolicyProc DEF Read, At, Holds
<1>2. record = {} /\ ~Unrecorded
  <2>1. record = {}
    BY <1>1 DEF Files, FilesAt, At
  <2>2. \A q \in Policy : proc[q].pc \in Inside => Holds(q) /\ q \in Proc
    BY PolicyProc DEF Holds, Inside
  <2>3. \A q \in Policy : proc[q].pc \notin Inside
    <3>1. proc[p].pc \notin Inside
      BY <1>1 DEF At, Inside
    <3>2. \A q \in Proc : Holds(q) => q = p
      BY <1>1 DEF Basic, Exclusive
    <3> QED
      BY <2>2, <3>1, <3>2
  <2> QED
    BY <2>1, <2>3 DEF Unrecorded
<1>3. file = AllOf(file["env"]) /\ UNCHANGED <<file, attested>>
  BY <1>1, <1>2, AttestedIs DEF Files, Backed, Read
<1>4. record' = {[target |-> p, old |-> file]}
  BY DEF Read
<1>5. Backed'
  <2>1. \A r \in record' : r.old = file
    BY <1>4
  <2>2. \A r \in record' : r.old = AllOf(r.old["env"])
    BY <1>3, <2>1
  <2>3. record' # {}
    BY <1>4
  <2> QED
    BY <2>2, <2>3 DEF Backed
<1>6. CASE proc' = [proc EXCEPT ![p] = [pc |-> "write", left |-> SwitchOrder,
                                 old |-> file, want |-> Up, undo |-> FALSE]]
  <2> DEFINE next == [pc |-> "write", left |-> SwitchOrder, old |-> file, want |-> Up, undo |-> FALSE]
  <2>1. SwitchOrder \in Lists /\ file \in [File -> Policy] /\ Up \subseteq Config
    BY <1>1, ListsHave DEF TypeOK, Up
  <2>2. next \in Process /\ next.pc = "write" /\ next.left = SwitchOrder /\ next.old = file
    BY <2>1 DEF Process, Lists
  <2> HIDE DEF next
  <2>3. Alone(p) /\ proc'[p] = next
    BY <1>1, <1>6, <2>2, BecomesAlone DEF next
  <2>4. WrittenFrom(Goal(p), proc[p].left)'
    BY <2>2, <2>3, Orders DEF WrittenFrom
  <2>5. FilesAt(p)'
    BY <1>3, <1>4, <2>2, <2>3, <2>4 DEF FilesAt, Inside
  <2> QED
    BY <1>1, <1>5, <2>3, <2>5, HolderFiles
<1>7. CASE Raise(p)
  <2>1. RollsBack(p) \/ Ends(p)
    BY <1>1, <1>7, RaiseIs
  <2>2. Alone(p) /\ proc'[p].pc = "ended"
    BY <1>1, <2>1, BrokenIs DEF RollsBack, Ends, At, Inside
  <2>3. FilesAt(p)'
    BY <1>1, <2>2, OutsideNext DEF Elsewhere, Over
  <2> QED
    BY <1>1, <1>5, <2>2, <2>3, HolderFiles
<1> QED
  BY <1>6, <1>7 DEF Read

\* What a unit inside apply() found on disk, and its record of it.
LEMMA InsideFacts ==
    ASSUME Basic, Files, NEW p \in Policy, proc[p].pc \in Inside
    PROVE  /\ p \in Proc /\ TypeOK /\ Holds(p) /\ proc[p].pc \in StepsOf(p)
           /\ proc[p].old \in [File -> Policy] /\ proc[p].old = AllOf(proc[p].old["env"])
           /\ proc[p].left \in Lists
           /\ Goal(p) \in [File -> Policy] /\ Goal(p) = AllOf(Goal(p)["env"])
           /\ \/ record = {[target |-> p, old |-> proc[p].old]}
              \/ record = {} /\ proc[p].undo
           /\ Backed
<1>1. p \in Proc /\ TypeOK /\ Holds(p) /\ proc[p].pc \in StepsOf(p) /\ proc[p] \in Process
  BY StepFacts, PolicyProc DEF Holds, Inside
<1>2. /\ proc[p].old = AllOf(proc[p].old["env"])
      /\ \/ record = {[target |-> p, old |-> proc[p].old]}
         \/ record = {} /\ proc[p].undo
  BY <1>1 DEF Files, FilesAt
<1>3. proc[p].old \in [File -> Policy] /\ proc[p].left \in Lists
  BY <1>1 DEF Process, Lists
<1>4. Goal(p) \in [File -> Policy] /\ Goal(p) = AllOf(Goal(p)["env"])
  BY <1>2, <1>3, DataType DEF Goal
<1> QED
  BY <1>1, <1>2, <1>3, <1>4 DEF Files

\* The unit inside apply() goes on; its record stays.
LEMMA InsideMoves ==
    ASSUME Basic, Files, NEW p \in Policy, proc[p].pc \in Inside, Alone(p), record' = record,
           proc'[p].pc \in Inside, proc'[p].old = proc[p].old, proc'[p].undo = proc[p].undo,
           proc'[p].pc = "write" => WrittenFrom(Goal(p), proc[p].left)',
           proc'[p].pc \in {"restart", "check", "attest", "unlink"} => file' = Goal(p),
           proc'[p].pc = "unlink" => Attested'
    PROVE  Files'
<1>1. /\ p \in Proc /\ Holds(p) /\ Backed /\ proc[p].old = AllOf(proc[p].old["env"])
      /\ \/ record = {[target |-> p, old |-> proc[p].old]}
         \/ record = {} /\ proc[p].undo
  BY InsideFacts
<1>2. proc'[p].pc \in {"write", "restart", "check", "attest", "unlink"}
  BY DEF Inside
<1>3. Goal(p)' = Goal(p)
  BY DEF Goal
<1>4. FilesAt(p)'
  BY <1>1, <1>2, <1>3 DEF FilesAt
<1>5. Backed'
  <2>1. record' = {} => Unrecorded'
    BY DEF Unrecorded
  <2> QED
    BY <1>1, <2>1 DEF Backed
<1> QED
  BY <1>1, <1>4, <1>5, HolderFiles

LEMMA FilesReplace ==
    ASSUME Basic, Files, ~RollbackCut, NEW p \in Policy, Replace(p)
    PROVE  Files'
<1>1. proc[p].pc = "write" /\ proc[p].pc \in Inside /\ proc[p].left # <<>>
  BY PolicyProc DEF Replace, At, Inside, Basic, Placed
<1>2. /\ p \in Proc /\ TypeOK /\ Holds(p) /\ proc[p].pc \in StepsOf(p) /\ proc[p].left \in Lists
      /\ Goal(p) \in [File -> Policy] /\ proc[p].old \in [File -> Policy]
      /\ file \in [File -> Policy]
  BY <1>1, InsideFacts DEF TypeOK
<1> DEFINE h == Head(proc[p].left)
<1>3. h \in File /\ Listed(proc[p].left) = {h} \cup Listed(Tail(proc[p].left))
  BY <1>1, <1>2, ListFacts
<1>4. file' = [file EXCEPT ![h] = Goal(p)[h]] /\ record' = record /\ attested' = attested
  BY <1>3 DEF Replace, Goal, AllOf
<1>5. WrittenFrom(Goal(p), proc[p].left)
  BY <1>1, <1>2 DEF Files, FilesAt
<1>6. Advances(p, "restart") \/ RollsBack(p) \/ Ends(p)
  BY <1>1, <1>2, ReplacedIs, StepTable DEF Replace
<1>7. CASE Advances(p, "restart")
  <2>1. /\ Alone(p) /\ proc'[p].left = Tail(proc[p].left)
        /\ proc'[p].old = proc[p].old /\ proc'[p].undo = proc[p].undo
        /\ proc'[p].pc = IF Tail(proc[p].left) = <<>> THEN "restart" ELSE "write"
    BY <1>1, <1>7 DEF Advances
  <2>2. \A f \in File \ Listed(Tail(proc[p].left)) : file'[f] = Goal(p)[f]
    BY <1>2, <1>3, <1>4, <1>5 DEF WrittenFrom
  <2>3. WrittenFrom(Goal(p), proc[p].left)'
    BY <2>1, <2>2 DEF WrittenFrom, Goal
  <2>4. Tail(proc[p].left) = <<>> => file' = Goal(p)
    <3>1. file' \in [File -> Policy]
      BY <1>2, <1>3, <1>4
    <3>2. Tail(proc[p].left) = <<>> => \A f \in File : file'[f] = Goal(p)[f]
      BY <2>2, ListsHave
    <3> QED
      BY <1>2, <3>1, <3>2
  <2>5. proc'[p].pc \in {"restart", "write"}
    BY <2>1
  <2> QED
    BY <1>1, <1>4, <2>1, <2>3, <2>4, <2>5, InsideMoves DEF Inside
<1>8. CASE RollsBack(p)
  BY <1>2, <1>4, <1>8, FilesRollsBack
<1>9. CASE Ends(p)
  <2>1. Alone(p) /\ proc'[p].pc = "ended"
    BY <1>9, BrokenIs DEF Ends
  <2>2. record # {}
    BY <1>1, <2>1 DEF RollbackCut, Inside
  <2> QED
    BY <1>2, <1>4, <2>1, <2>2, FilesEnds DEF Over
<1> QED
  BY <1>6, <1>7, <1>8, <1>9

\* A unit that takes up the next duty, rolls back or ends, the disk as it was.
LEMMA FilesOn ==
    ASSUME Basic, Files, ~RollbackCut, NEW p \in Policy,
           proc[p].pc \in {"restart", "check"}, NEW pc \in {"check", "attest"},
           UNCHANGED <<file, attested, record>>,
           Moves(p, pc) \/ RollsBack(p) \/ Ends(p)
    PROVE  Files'
<1>1. p \in Proc /\ Holds(p) /\ proc[p].pc \in Inside /\ file = Goal(p)
  BY PolicyProc DEF Files, FilesAt, Holds, Inside
<1>2. CASE Moves(p, pc)
  BY <1>1, <1>2, InsideMoves DEF Moves, Inside
<1>3. CASE RollsBack(p) \/ Ends(p)
  BY <1>1, <1>3, FilesRollsBack, FilesEnds, BrokenIs DEF Ends
<1> QED
  BY <1>2, <1>3

LEMMA FilesRestart ==
    ASSUME Basic, Files, ~RollbackCut, NEW p \in Policy, Restart(p)
    PROVE  Files'
<1>1. p \in Proc /\ TypeOK /\ proc[p].pc = "restart" /\ proc[p].pc \in StepsOf(p) /\ "check" \in StepsOf(p)
  BY StepFacts, PolicyProc, StepTable DEF Restart, At
<1>2. UNCHANGED <<file, attested, record>> /\ (Goto(p, "check") \/ Raise(p))
  BY DEF Restart
<1>3. Moves(p, "check") \/ RollsBack(p) \/ Ends(p)
  BY <1>1, <1>2, GotoAlone, RaiseIs
<1> QED
  BY <1>1, <1>2, <1>3, FilesOn

LEMMA FilesCheck ==
    ASSUME Basic, Files, ~RollbackCut, NEW p \in Policy, Check(p)
    PROVE  Files'
<1>1. p \in Proc /\ TypeOK /\ proc[p].pc = "check" /\ proc[p].pc \in StepsOf(p) /\ "attest" \in StepsOf(p)
  BY StepFacts, PolicyProc, StepTable DEF Check, At
<1>2. UNCHANGED <<file, attested, record>> /\ (Goto(p, "attest") \/ Raise(p))
  BY DEF Check
<1>3. Moves(p, "attest") \/ RollsBack(p) \/ Ends(p)
  BY <1>1, <1>2, GotoAlone, RaiseIs
<1> QED
  BY <1>1, <1>2, <1>3, FilesOn

LEMMA FilesAttest ==
    ASSUME Basic, Files, ~RollbackCut, NEW p \in Policy, Attest(p)
    PROVE  Files'
<1>1. proc[p].pc = "attest" /\ proc[p].pc \in Inside
  BY DEF Attest, At, Inside
<1>2. /\ p \in Proc /\ TypeOK /\ Holds(p) /\ proc[p].pc \in StepsOf(p) /\ file = Goal(p)
      /\ Goal(p) = AllOf(Goal(p)["env"])
  BY <1>1, InsideFacts DEF Files, FilesAt
<1>3. UNCHANGED <<file, record>> /\ attested' = [policy |-> Goal(p)["env"], files |-> Goal(p)]
  BY <1>2, DataType DEF Attest, Goal
<1>4. Attested'
  BY <1>2, <1>3 DEF Attested, AllOf
<1>5. Moves(p, "unlink") \/ RollsBack(p) \/ Ends(p)
  BY <1>2, DoneIs, StepTable DEF Attest
<1>6. CASE Moves(p, "unlink")
  BY <1>1, <1>2, <1>3, <1>4, <1>6, InsideMoves DEF Moves, Inside
<1>7. CASE RollsBack(p)
  BY <1>2, <1>3, <1>7, FilesRollsBack
<1>8. CASE Ends(p)
  <2>1. Alone(p) /\ proc'[p].pc = "ended"
    BY <1>8, BrokenIs DEF Ends
  <2>2. record # {}
    BY <1>1, <2>1 DEF RollbackCut, Inside
  <2> QED
    BY <1>2, <1>3, <2>1, <2>2, FilesEnds DEF Over
<1> QED
  BY <1>5, <1>6, <1>7, <1>8

LEMMA FilesUnlink ==
    ASSUME Basic, Files, NEW p \in Policy, Unlink(p)
    PROVE  Files'
<1>1. proc[p].pc = "unlink" /\ proc[p].pc \in Inside
  BY DEF Unlink, At, Inside
<1>2. p \in Proc /\ TypeOK /\ Holds(p) /\ proc[p].pc \in StepsOf(p) /\ Attested
  BY <1>1, InsideFacts DEF Files, FilesAt
<1>3. UNCHANGED <<file, attested>> /\ record' = {}
  BY DEF Unlink
<1>4. Moves(p, "ended") \/ RollsBack(p) \/ Ends(p)
  BY <1>2, DoneIs, StepTable DEF Unlink
<1>5. CASE RollsBack(p)
  BY <1>2, <1>3, <1>5, FilesRollsBack
<1>6. CASE Moves(p, "ended") \/ Ends(p)
  <2>1. Alone(p) /\ proc'[p].pc = "ended"
    BY <1>6, BrokenIs DEF Ends, Moves
  <2>2. Backed'
    BY <1>2, <1>3 DEF Backed, Attested
  <2>3. FilesAt(p)'
    BY <1>2, <2>1, OutsideNext DEF Elsewhere, Over
  <2> QED
    BY <1>2, <2>1, <2>2, <2>3, HolderFiles
<1> QED
  BY <1>4, <1>5, <1>6

\* A recovery goes on, with its record or past it.
LEMMA RepairMoves ==
    ASSUME Basic, Files, NEW p \in Proc, Holds(p), proc[p].pc \in Repairing, Alone(p),
           proc'[p].pc \in Repairing \cup {"read"} \cup Over, record' \subseteq record,
           proc'[p].pc \in {"restore", "reattest", "clear"} => record' # {},
           proc'[p].pc = "restore" => \A r \in record : WrittenFrom(r.old, proc[p].left)',
           proc'[p].pc = "reattest" => \A r \in record : file' = r.old,
           proc'[p].pc = "clear" => Attested',
           proc'[p].pc = "read" => record' = {},
           record' = {} => Attested'
    PROVE  Files'
<1>1. FilesAt(p)'
  <2>1. proc'[p].pc \in {"recover", "restore", "reattest", "clear", "read", "ended", "failed"}
    BY DEF Repairing, Over
  <2>2. \A r \in record' : r \in record
    OBVIOUS
  <2>3. proc'[p].pc = "restore" => \A r \in record' : WrittenFrom(r.old, proc[p].left)'
    BY <2>2
  <2>4. proc'[p].pc = "reattest" => \A r \in record' : file' = r.old
    BY <2>2
  <2>5. proc'[p].pc \notin Inside
    BY <2>1 DEF Inside
  <2> QED
    BY <2>1, <2>3, <2>4, <2>5 DEF FilesAt, WrittenFrom
<1>2. Backed'
  BY DEF Files, Backed
<1> QED
  BY <1>1, <1>2, HolderFiles

LEMMA RepairFacts ==
    ASSUME Basic, Files, NEW p \in Proc, proc[p].pc \in Repairing
    PROVE  /\ TypeOK /\ Holds(p) /\ proc[p].pc \in StepsOf(p)
           /\ proc[p].left \in Lists
           /\ {"restore", "reattest", "clear", "ended", AfterRecovery(p)} \subseteq StepsOf(p)
           /\ AfterRecovery(p) \in {"read", "ended"}
           /\ ~RollsBack(p)
           /\ record = {} => Attested
           /\ \A r \in record : r.target \in Policy /\ r.old \in [File -> Policy]
                                /\ r.old = AllOf(r.old["env"]) /\ record = {r}
<1>1. TypeOK /\ Holds(p) /\ proc[p].pc \in StepsOf(p) /\ proc[p] \in Process
  BY StepFacts DEF Holds, Repairing
<1>2. proc[p].left \in Lists /\ ~RollsBack(p)
  BY <1>1 DEF Process, Lists, RollsBack, Inside, Repairing
<1>3. /\ {"restore", "reattest", "clear", "ended", AfterRecovery(p)} \subseteq StepsOf(p)
      /\ AfterRecovery(p) \in {"read", "ended"}
  BY StepTable, PolicyProc DEF AfterRecovery
<1>4. ~Unrecorded
  <2>1. \A q \in Policy : proc[q].pc \in Inside => Holds(q) /\ q \in Proc
    BY PolicyProc DEF Holds, Inside
  <2>2. \A q \in Policy : proc[q].pc \notin Inside
    BY <1>1, <2>1 DEF Basic, Exclusive, Repairing, Inside
  <2> QED
    BY <2>2 DEF Unrecorded
<1> QED
  BY <1>1, <1>2, <1>3, <1>4, RecordIs DEF Files, Backed

LEMMA FilesRecover ==
    ASSUME Basic, Files, NEW p \in Proc, Recover(p)
    PROVE  Files'
<1>1. proc[p].pc = "recover" /\ proc[p].pc \in Repairing /\ UNCHANGED <<file, attested, record>>
  BY DEF Recover, At, Repairing
<1>2. /\ TypeOK /\ Holds(p) /\ {"clear", AfterRecovery(p)} \subseteq StepsOf(p)
      /\ AfterRecovery(p) \in {"read", "ended"} /\ (record = {} => Attested)
  BY <1>1, RepairFacts
<1>3. CASE record = {}
  <2>1. Moves(p, AfterRecovery(p))
    BY <1>2, <1>3, GotoAlone DEF Recover
  <2>2. Attested'
    BY <1>1, <1>2, <1>3 DEF Attested
  <2> QED
    BY <1>1, <1>2, <1>3, <2>1, <2>2, RepairMoves DEF Moves, Over
<1>4. CASE record # {}
  <2>1. PICK r \in record :
          IF file = AllOf(r.target) /\ attested = [policy |-> r.target, files |-> file]
          THEN Goto(p, "clear")
          ELSE proc' = [proc EXCEPT ![p].pc = "restore", ![p].left = RecoverOrder]
    BY <1>4 DEF Recover
  <2>2. r.target \in Policy
    BY <1>1, RepairFacts
  <2>3. CASE Goto(p, "clear") /\ file = AllOf(r.target) /\ attested = [policy |-> r.target, files |-> file]
    <3>1. Moves(p, "clear")
      BY <1>2, <2>3, GotoAlone
    <3>2. Attested'
      BY <1>1, <2>2, <2>3, Orders DEF Attested, AllOf
    <3> QED
      BY <1>1, <1>2, <1>4, <3>1, <3>2, RepairMoves DEF Moves, Repairing
  <2>4. CASE proc' = [proc EXCEPT ![p].pc = "restore", ![p].left = RecoverOrder]
    <3> DEFINE next == [proc[p] EXCEPT !.pc = "restore", !.left = RecoverOrder]
    <3>1. RecoverOrder \in Lists /\ proc[p] \in Process
      BY StepFacts, ListsHave
    <3>2. next \in Process /\ next.pc = "restore" /\ next.left = RecoverOrder
      BY <3>1 DEF Process, Lists
    <3>3. proc' = [proc EXCEPT ![p] = next]
      BY <1>2, <2>4 DEF TypeOK
    <3> HIDE DEF next
    <3>4. Alone(p) /\ proc'[p].pc = "restore" /\ proc'[p].left = RecoverOrder
      BY <1>2, <3>2, <3>3, BecomesAlone
    <3>5. \A s \in record : WrittenFrom(s.old, proc[p].left)'
      BY <3>4, Orders DEF WrittenFrom
    <3> QED
      BY <1>1, <1>2, <1>4, <3>4, <3>5, RepairMoves DEF Repairing
  <2> QED
    BY <2>1, <2>3, <2>4
<1> QED
  BY <1>3, <1>4

LEMMA FilesRestore ==
    ASSUME Basic, Files, NEW p \in Proc, Restore(p)
    PROVE  Files'
<1>1. proc[p].pc = "restore" /\ proc[p].pc \in Repairing /\ proc[p].left # <<>>
  BY DEF Restore, At, Repairing, Basic, Placed
<1>2. /\ TypeOK /\ Holds(p) /\ proc[p].pc \in StepsOf(p) /\ "reattest" \in StepsOf(p)
      /\ proc[p].left \in Lists /\ ~RollsBack(p) /\ file \in [File -> Policy]
  BY <1>1, RepairFacts DEF TypeOK
<1> DEFINE h == Head(proc[p].left)
<1>3. PICK r \in record : file' = [file EXCEPT ![h] = r.old[h]]
  BY DEF Restore
<1>4. record = {r} /\ r.old \in [File -> Policy] /\ WrittenFrom(r.old, proc[p].left)
  BY <1>1, RepairFacts DEF Files, FilesAt
<1>5. h \in File /\ Listed(proc[p].left) = {h} \cup Listed(Tail(proc[p].left))
  BY <1>1, <1>2, ListFacts
<1>6. UNCHANGED <<attested, record>> /\ (Advances(p, "reattest") \/ Ends(p))
  BY <1>1, <1>2, ReplacedIs DEF Restore
<1>7. CASE Advances(p, "reattest")
  <2>1. /\ Alone(p) /\ proc'[p].left = Tail(proc[p].left)
        /\ proc'[p].pc = IF Tail(proc[p].left) = <<>> THEN "reattest" ELSE "restore"
    BY <1>1, <1>7 DEF Advances
  <2>2. \A f \in File \ Listed(Tail(proc[p].left)) : file'[f] = r.old[f]
    BY <1>2, <1>3, <1>4, <1>5 DEF WrittenFrom
  <2>3. \A s \in record : WrittenFrom(s.old, proc[p].left)'
    BY <1>4, <2>1, <2>2 DEF WrittenFrom
  <2>4. Tail(proc[p].left) = <<>> => \A s \in record : file' = s.old
    <3>1. file' \in [File -> Policy]
      BY <1>2, <1>3, <1>4, <1>5
    <3>2. Tail(proc[p].left) = <<>> => \A f \in File : file'[f] = r.old[f]
      BY <2>2, ListsHave
    <3> QED
      BY <1>4, <3>1, <3>2
  <2>5. proc'[p].pc \in {"reattest", "restore"} /\ record' # {}
    BY <1>6, <2>1
  <2> QED
    BY <1>1, <1>2, <1>6, <2>1, <2>3, <2>4, <2>5, RepairMoves DEF Repairing
<1>8. CASE Ends(p)
  BY <1>2, <1>4, <1>6, <1>8, FilesEnds, BrokenIs DEF Ends
<1> QED
  BY <1>6, <1>7, <1>8

LEMMA FilesReattest ==
    ASSUME Basic, Files, NEW p \in Proc, Reattest(p)
    PROVE  Files'
<1>1. proc[p].pc = "reattest" /\ proc[p].pc \in Repairing
  BY DEF Reattest, At, Repairing
<1>2. /\ TypeOK /\ Holds(p) /\ proc[p].pc \in StepsOf(p) /\ "clear" \in StepsOf(p) /\ ~RollsBack(p)
  BY <1>1, RepairFacts
<1>3. PICK r \in record : attested' = [policy |-> r.old["env"], files |-> r.old]
  BY DEF Reattest
<1>4. file = r.old /\ r.old = AllOf(r.old["env"]) /\ UNCHANGED <<file, record>>
  BY <1>1, RepairFacts DEF Files, FilesAt, Reattest
<1>5. Attested'
  BY <1>3, <1>4 DEF Attested, AllOf
<1>6. Moves(p, "clear") \/ Ends(p)
  BY <1>2, DoneIs DEF Reattest
<1>7. CASE Moves(p, "clear")
  BY <1>1, <1>2, <1>3, <1>4, <1>5, <1>7, RepairMoves DEF Moves, Repairing
<1>8. CASE Ends(p)
  BY <1>2, <1>3, <1>4, <1>8, FilesEnds, BrokenIs DEF Ends
<1> QED
  BY <1>6, <1>7, <1>8

LEMMA FilesClear ==
    ASSUME Basic, Files, NEW p \in Proc, Clear(p)
    PROVE  Files'
<1>1. proc[p].pc = "clear" /\ proc[p].pc \in Repairing
  BY DEF Clear, At, Repairing
<1>2. /\ TypeOK /\ Holds(p) /\ proc[p].pc \in StepsOf(p) /\ ~RollsBack(p)
      /\ AfterRecovery(p) \in StepsOf(p) /\ AfterRecovery(p) \in {"read", "ended"}
  BY <1>1, RepairFacts
<1>3. record' = {} /\ UNCHANGED <<file, attested>> /\ Attested
  BY <1>1 DEF Clear, Files, FilesAt
<1>4. Moves(p, AfterRecovery(p)) \/ Ends(p)
  BY <1>2, DoneIs DEF Clear
<1>5. Alone(p) /\ proc'[p].pc \in {"read"} \cup Over
  BY <1>2, <1>4, BrokenIs DEF Moves, Ends, Over
<1> QED
  BY <1>1, <1>2, <1>3, <1>5, RepairMoves DEF Attested, Repairing, Over

LEMMA InitFiles ==
    ASSUME Init
    PROVE  Files
<1>1. \A p \in Proc : FilesAt(p)
  BY DataType, Outside DEF Init, Elsewhere
<1>2. Backed
  BY Orders DEF Init, Backed, Attested, AllOf
<1> QED
  BY <1>1, <1>2 DEF Files

LEMMA StepFiles ==
    ASSUME Basic, Files, [Next]_vars, ~RollbackCut
    PROVE  Files'
<1>1. ASSUME NEW p \in Policy, Switching(p) PROVE Files'
  <2>1. ASSUME ReadRefused(p) PROVE Files'
    BY <2>1, FilesRaise, StepFacts, PolicyProc DEF ReadRefused, At
  <2>2. ASSUME Settle(p) PROVE Files'
    BY <2>2, FilesOther
  <2> QED
    BY <1>1, <2>1, <2>2, FilesRead, FilesReplace, FilesRestart, FilesCheck, FilesAttest, FilesUnlink
    DEF Switching
<1>2. ASSUME NEW p \in Proc, Recovering(p) PROVE Files'
  <2>1. ASSUME End(p) PROVE Files'
    BY <2>1, FilesOther
  <2> QED
    BY <1>2, <2>1, FilesRecover, FilesRestore, FilesReattest, FilesClear DEF Recovering
<1>3. ASSUME NEW p \in Proc, WriteFails(p) PROVE Files'
  <2>1. Holds(p) /\ Raise(p) /\ UNCHANGED <<file, attested, record>>
    BY <1>3, StepFacts DEF WriteFails
  <2> QED
    BY <2>1, FilesRaise
<1>4. CASE \/ \E p \in Policy : Begin(p) \/ Settle(p) \/ SettleFails(p)
           \/ \E p \in Proc : End(p) \/ Kill(p)
           \/ StartRecovery \/ TakeLock \/ RecoveryFails \/ PowerLoss
           \/ StartPanel \/ StartByHand \/ CrashPanel \/ StartServers \/ StopServers
           \/ \E c \in Config : StartServer(c) \/ RestartDue(c) \/ CrashServer(c) \/ Admit(c)
           \/ UNCHANGED vars
  BY <1>4, FilesOther
<1> QED
  BY <1>1, <1>2, <1>3, <1>4 DEF Next

-----------------------------------------------------------------------------
(* Only Read takes a unit inside apply(), and it writes the record first.    *)

LEMMA Entering ==
    ASSUME Basic, Next, NEW p \in Policy, proc[p].pc \notin Inside, proc'[p].pc \in Inside
    PROVE  Read(p)
<1>1. TypeOK /\ Placed /\ p \in Proc /\ \A q \in Proc : proc[q].pc \in StepsOf(q)
  BY StepFacts, PolicyProc
<1>2. ASSUME NEW q \in Proc, Alone(q), proc'[q].pc \in Inside => proc[q].pc \in Inside
      PROVE  FALSE
  BY <1>1, <1>2 DEF Alone
<1>3. ASSUME NEW q \in Proc, NEW pc \in StepsOf(q) \ Inside, Goto(q, pc) PROVE FALSE
  BY <1>1, <1>2, <1>3, GotoAlone DEF Moves
<1>4. ASSUME NEW q \in Proc, Raise(q) PROVE FALSE
  <2>1. RollsBack(q) \/ Ends(q)
    BY <1>1, <1>4, RaiseIs
  <2>2. Alone(q) /\ (proc'[q].pc \in Inside => proc[q].pc \in Inside)
    BY <2>1, BrokenIs DEF RollsBack, Ends, Inside, Over
  <2> QED
    BY <1>2, <2>2
<1>5. ASSUME NEW q \in Proc, proc[q].pc \in Inside, Moves(q, "check") \/ Moves(q, "attest")
             \/ Moves(q, "unlink") \/ Advances(q, "restart") PROVE FALSE
  BY <1>2, <1>5 DEF Moves, Advances
<1>6. ASSUME NEW q \in Policy, Begin(q) \/ Settle(q) \/ SettleFails(q) \/ ReadRefused(q) PROVE FALSE
  <2>1. {"settle", "refused", "recover"} \subseteq StepsOf(q) \ Inside /\ q \in Proc
    BY StepTable, PolicyProc DEF Inside
  <2>2. Goto(q, "settle") \/ Goto(q, "refused") \/ Goto(q, "recover") \/ Raise(q)
    BY <1>6 DEF Begin, Settle, SettleFails, ReadRefused
  <2> QED
    BY <1>3, <1>4, <2>1, <2>2
<1>7. ASSUME NEW q \in Policy, Restart(q) \/ Check(q) PROVE FALSE
  <2>1. q \in Proc /\ proc[q].pc \in Inside /\ {"check", "attest"} \subseteq StepsOf(q)
    BY <1>7, StepTable, PolicyProc DEF Restart, Check, At, Inside
  <2>2. Goto(q, "check") \/ Goto(q, "attest") \/ Raise(q)
    BY <1>7 DEF Restart, Check
  <2> QED
    BY <1>1, <1>4, <1>5, <2>1, <2>2, GotoAlone
<1>8. ASSUME NEW q \in Policy, Replace(q) PROVE FALSE
  <2>1. q \in Proc /\ proc[q].pc \in Inside /\ proc[q].left # <<>> /\ "restart" \in StepsOf(q)
    BY <1>1, <1>8, StepTable, PolicyProc DEF Replace, At, Inside, Placed
  <2>2. Advances(q, "restart") \/ RollsBack(q) \/ Ends(q)
    BY <1>1, <1>8, <2>1, ReplacedIs DEF Replace
  <2>3. Alone(q)
    BY <2>2 DEF Advances, RollsBack, Ends
  <2> QED
    BY <1>2, <2>1, <2>3
<1>9. ASSUME NEW q \in Policy, Attest(q) \/ Unlink(q) PROVE FALSE
  <2>1. q \in Proc /\ proc[q].pc \in Inside /\ {"unlink", "ended"} \subseteq StepsOf(q)
    BY <1>9, StepTable, PolicyProc DEF Attest, Unlink, At, Inside
  <2>2. Done(q, "unlink") \/ Done(q, "ended")
    BY <1>9 DEF Attest, Unlink
  <2>3. Moves(q, "unlink") \/ Moves(q, "ended") \/ RollsBack(q) \/ Ends(q)
    BY <1>1, <2>1, <2>2, DoneIs
  <2>4. Alone(q)
    BY <2>3 DEF Moves, RollsBack, Ends
  <2> QED
    BY <1>2, <2>1, <2>4
<1>10. ASSUME NEW q \in Policy, Read(q) PROVE Read(p)
  <2>1. q \in Proc /\ (Alone(q) \/ Raise(q))
    <3> DEFINE next == [pc |-> "write", left |-> SwitchOrder, old |-> file, want |-> Up, undo |-> FALSE]
    <3>1. SwitchOrder \in Lists /\ file \in [File -> Policy] /\ Up \subseteq Config
      BY <1>1, ListsHave DEF TypeOK, Up
    <3>2. next \in Process
      BY <3>1 DEF Process, Lists
    <3>3. proc' = [proc EXCEPT ![q] = next] \/ Raise(q)
      BY <1>10 DEF Read
    <3> HIDE DEF next
    <3> QED
      BY <1>1, <3>2, <3>3, BecomesAlone, PolicyProc
  <2>2. q \in Proc /\ Alone(q)
    BY <1>4, <2>1, PolicyProc
  <2>3. p = q
    BY <1>1, <2>2 DEF Alone
  <2> QED
    BY <1>10, <2>3
<1>11. ASSUME NEW q \in Proc, Recover(q) PROVE FALSE
  <2>1. {"clear", AfterRecovery(q)} \subseteq StepsOf(q) \ Inside
    BY StepTable, PolicyProc DEF AfterRecovery, Inside
  <2>2. \/ Goto(q, AfterRecovery(q)) \/ Goto(q, "clear")
        \/ proc' = [proc EXCEPT ![q].pc = "restore", ![q].left = RecoverOrder]
    BY <1>11 DEF Recover
  <2>3. CASE proc' = [proc EXCEPT ![q].pc = "restore", ![q].left = RecoverOrder]
    <3> DEFINE next == [proc[q] EXCEPT !.pc = "restore", !.left = RecoverOrder]
    <3>1. RecoverOrder \in Lists /\ proc[q] \in Process
      BY StepFacts, ListsHave
    <3>2. next \in Process /\ next.pc = "restore"
      BY <3>1 DEF Process, Lists
    <3>3. proc' = [proc EXCEPT ![q] = next]
      BY <1>1, <2>3 DEF TypeOK
    <3> HIDE DEF next
    <3>4. Alone(q) /\ proc'[q].pc = "restore"
      BY <1>1, <3>2, <3>3, BecomesAlone
    <3> QED
      BY <1>2, <3>4 DEF Inside
  <2> QED
    BY <1>3, <2>1, <2>2, <2>3
<1>12. ASSUME NEW q \in Proc, Restore(q) PROVE FALSE
  <2>1. At(q, "restore") /\ proc[q].left # <<>> /\ "reattest" \in StepsOf(q)
    BY <1>1, <1>12, StepTable, PolicyProc DEF Restore, At, Placed
  <2>2. Advances(q, "reattest") \/ RollsBack(q) \/ Ends(q)
    BY <1>1, <1>12, <2>1, ReplacedIs DEF Restore
  <2>3. Alone(q) /\ proc'[q].pc \notin Inside
    BY <2>1, <2>2, BrokenIs DEF Advances, RollsBack, Ends, At, Inside, Over
  <2> QED
    BY <1>2, <2>3
<1>13. ASSUME NEW q \in Proc, Reattest(q) \/ Clear(q) PROVE FALSE
  <2>1. {"clear", AfterRecovery(q)} \subseteq StepsOf(q) \ Inside /\ proc[q].pc \notin Inside
    BY <1>13, StepTable, PolicyProc DEF Reattest, Clear, At, AfterRecovery, Inside
  <2>2. Done(q, "clear") \/ Done(q, AfterRecovery(q))
    BY <1>13 DEF Reattest, Clear
  <2> QED
    BY <1>3, <1>4, <2>1, <2>2 DEF Done
<1>14. ASSUME NEW q \in Proc, End(q) PROVE FALSE
  <2>1. Idle \in Process /\ Idle.pc = "off"
    BY DataType
  <2>2. Alone(q) /\ proc'[q] = Idle
    BY <1>1, <1>14, <2>1, BecomesAlone DEF End
  <2> QED
    BY <1>2, <2>1, <2>2 DEF Inside
<1>15. ASSUME NEW q \in Proc, WriteFails(q) \/ Kill(q) PROVE FALSE
  <2>1. Broken(q) \in StepsOf(q) \ Inside
    BY BrokenIs DEF Over, Inside
  <2> QED
    BY <1>3, <1>4, <1>15, <2>1 DEF WriteFails, Kill
<1>16. ASSUME StartRecovery \/ TakeLock PROVE FALSE
  <2>1. {"wait", "recover"} \subseteq StepsOf("boot") \ Inside
    BY StepTable DEF Inside
  <2> QED
    BY <1>3, <1>16, <2>1, PolicyProc DEF StartRecovery, TakeLock
<1>17. ASSUME RecoveryFails PROVE FALSE
  <2>1. Alone("boot") /\ proc'["boot"] = Idle /\ Idle.pc = "off"
    BY <1>1, <1>17, DataType, BecomesAlone, PolicyProc DEF RecoveryFails
  <2> QED
    BY <1>2, <2>1, PolicyProc DEF Inside
<1>18. ASSUME PowerLoss PROVE FALSE
  BY <1>1, <1>18, DataType DEF PowerLoss, Inside
<1>19. ASSUME \/ StartPanel \/ StartByHand \/ CrashPanel \/ StartServers \/ StopServers
              \/ \E c \in Config : StartServer(c) \/ RestartDue(c) \/ CrashServer(c) \/ Admit(c)
       PROVE  FALSE
  BY <1>19 DEF StartPanel, StartByHand, CrashPanel, StartServers, StopServers, StartServer, RestartDue,
     CrashServer, Admit
<1> QED
  BY <1>6, <1>7, <1>8, <1>9, <1>10, <1>11, <1>12, <1>13, <1>14, <1>15, <1>16, <1>17, <1>18, <1>19
  DEF Next, Switching, Recovering

LEMMA StepRecorded ==
    ASSUME Basic, Next, ~Unrecorded, ~RemovalUnsynced
    PROVE  ~Unrecorded'
<1> SUFFICES ASSUME record' = {}, NEW p \in Policy, proc'[p].pc \in Inside
             PROVE  FALSE
  BY DEF Unrecorded
<1>1. TypeOK /\ p \in Proc /\ \A q \in Proc : proc[q].pc \in StepsOf(q)
  BY StepFacts, PolicyProc
<1>2. ~Read(p)
  BY DEF Read
<1>3. proc[p].pc \in Inside /\ Holds(p)
  BY <1>2, Entering DEF Holds, Inside
<1>4. record # {}
  BY <1>3 DEF Unrecorded
<1>5. ASSUME NEW q \in Policy, Unlink(q) PROVE FALSE
  <2>1. q = p
    BY <1>1, <1>3, <1>5, PolicyProc DEF Unlink, At, Basic, Exclusive, Holds
  <2>2. At(p, "unlink") /\ Done(p, "ended") /\ "ended" \in StepsOf(p)
    BY <1>5, <2>1, StepTable DEF Unlink
  <2>3. RollsBack(p)
    BY <1>1, <2>2, DoneIs, BrokenIs DEF Moves, Ends, Inside
  <2> QED
    BY <2>2, <2>3 DEF RollsBack, RemovalUnsynced, At
<1>6. ASSUME NEW q \in Proc, Clear(q) PROVE FALSE
  BY <1>1, <1>3, <1>6 DEF Clear, At, Basic, Exclusive, Holds, Inside
<1>7. UNCHANGED record \/ record' # {} \/ (\E q \in Policy : Unlink(q)) \/ \E q \in Proc : Clear(q)
  <2>1. ASSUME NEW q \in Policy, Begin(q) \/ Switching(q) \/ SettleFails(q)
        PROVE  UNCHANGED record \/ record' # {} \/ Unlink(q)
    BY <2>1 DEF Begin, Switching, SettleFails, Settle, Read, ReadRefused, Replace, Restart, Check, Attest
  <2>2. ASSUME NEW q \in Proc, Recovering(q) \/ WriteFails(q) \/ Kill(q)
        PROVE  UNCHANGED record \/ Clear(q)
    BY <2>2 DEF Recovering, Recover, Restore, Reattest, End, WriteFails, Kill
  <2>3. ASSUME \/ StartRecovery \/ TakeLock \/ RecoveryFails \/ PowerLoss
               \/ StartPanel \/ StartByHand \/ CrashPanel \/ StartServers \/ StopServers
               \/ \E c \in Config : StartServer(c) \/ RestartDue(c) \/ CrashServer(c) \/ Admit(c)
        PROVE  UNCHANGED record
    BY <2>3 DEF StartRecovery, TakeLock, RecoveryFails, StartPanel, StartByHand, CrashPanel, StartServers,
       StopServers, PowerLoss, StartServer, RestartDue, CrashServer, Admit
  <2> QED
    BY <2>1, <2>2, <2>3 DEF Next
<1> QED
  BY <1>4, <1>5, <1>6, <1>7

-----------------------------------------------------------------------------
(* Servers come up on files that agree.                                    *)

Agree == \A f \in File : file[f] = file["env"]

LEMMA MayStartAgrees ==
    ASSUME Files, ~Unrecorded, MayStart, ~gate
    PROVE  Agree
BY DEF MayStart, Files, Backed, Attested, Agree

LEMMA StepStarts ==
    ASSUME Basic, Files, ~Unrecorded, [Next]_vars,
           NEW c \in Config, c \notin Up, c \in Up', ~gate
    PROVE  Agree
<1>1. TypeOK /\ loaded[c] \notin Policy /\ loaded'[c] \in Policy /\ loaded' # loaded
  BY StepFacts DEF Up
<1>2. ASSUME NEW p \in Policy, Restart(p) PROVE Agree
  <2>1. proc[p].pc = "restart" /\ proc[p].pc \in Inside
    BY <1>2 DEF Restart, At, Inside
  <2>2. file = Goal(p) /\ Goal(p) = AllOf(Goal(p)["env"])
    BY <2>1, InsideFacts DEF Files, FilesAt
  <2> QED
    BY <2>2, Orders DEF Agree, AllOf
<1>3. ASSUME NEW p \in Policy, Check(p) PROVE FALSE
  <2> DEFINE mainStopped == IF "main" \in Up \ proc[p].want THEN [d \in Config |-> "down"] ELSE loaded
             wrong == {d \in Config : \/ mainStopped[d] = "crashed"
                                      \/ d \in proc[p].want /\ mainStopped[d] \notin Policy}
             now == IF "main" \in wrong THEN mainStopped
                    ELSE [d \in Config |-> IF d \in wrong \cup proc[p].want THEN mainStopped[d] ELSE "down"]
  <2>1. loaded' = now
    BY <1>3 DEF Check
  <2>2. mainStopped[c] \in {loaded[c], "down"}
    OBVIOUS
  <2> HIDE DEF mainStopped, wrong
  <2>3. now[c] \in {mainStopped[c], "down"}
    OBVIOUS
  <2> QED
    BY <1>1, <2>1, <2>2, <2>3 DEF Policy
<1>4. ASSUME StartServers \/ \E d \in Config : StartServer(d) PROVE Agree
  <2>1. MayStart
    BY <1>1, <1>4 DEF StartServers, Started, StartServer, Up, Policy
  <2> QED
    BY <2>1, MayStartAgrees
<1>5. ASSUME StopServers \/ PowerLoss \/ RecoveryFails \/ StartByHand \/ \E d \in Config : RestartDue(d)
      PROVE  FALSE
  <2>1. loaded'[c] \in {loaded[c], "down", "queued"}
    BY <1>1, <1>5 DEF StopServers, PowerLoss, RecoveryFails, StartByHand, RestartDue, TypeOK, Up
  <2> QED
    BY <1>1, <2>1 DEF Policy
<1>6. ASSUME NEW d \in Config, CrashServer(d) PROVE FALSE
  BY <1>1, <1>6 DEF CrashServer, TypeOK, Policy
<1>7. ASSUME \/ \E p \in Policy : \/ Begin(p) \/ Settle(p) \/ SettleFails(p) \/ Read(p) \/ ReadRefused(p)
                                  \/ Replace(p) \/ Attest(p) \/ Unlink(p)
             \/ \E p \in Proc : Recovering(p) \/ WriteFails(p) \/ Kill(p)
             \/ StartRecovery \/ TakeLock \/ StartPanel \/ CrashPanel \/ (\E d \in Config : Admit(d))
             \/ UNCHANGED vars
      PROVE  FALSE
  <2>1. loaded' = loaded
    BY <1>7 DEF Begin, Settle, SettleFails, Read, ReadRefused, Replace, Attest, Unlink, Recovering, Recover,
       Restore, Reattest, Clear, End, WriteFails, Kill, StartRecovery, TakeLock, StartPanel, CrashPanel,
       Admit, vars
  <2> QED
    BY <1>1, <2>1
<1> QED
  BY <1>2, <1>3, <1>4, <1>5, <1>6, <1>7 DEF Next, Switching

-----------------------------------------------------------------------------
(* The steps preserve Enforced.                                            *)

\* What the invariants say of a state that nothing has disturbed.
LEMMA EnforcedFacts ==
    ASSUME Basic, Enforced, Undisturbed
    PROVE  /\ \A p \in Policy : ~At(p, "off") => /\ gate /\ panel = "up"
                                                 /\ \A q \in Policy : q # p => At(q, "off")
           /\ \A p \in Policy : AtWork(p) => At("boot", "off") /\ NoneQueued /\ MayStart
           /\ panel # "up" => ~gate /\ \A p \in Policy : At(p, "off")
           /\ gate => \E p \in Policy : ~At(p, "off")
           /\ ~Within => AsFiles /\ \A r \in record : file = r.old \/ (panel # "up" /\ Up = {})
           /\ \A p \in Policy : proc[p].pc \in Inside => ServersAt(p)
<1>1. \A p \in Policy : ~At(p, "off") => gate /\ \A q \in Policy : q # p => At(q, "off")
  BY DEF Basic, Gated
<1>2. \A p \in Policy : AtWork(p) => ~At(p, "off")
  BY DEF AtWork, At
<1> QED
  BY <1>1, <1>2 DEF Enforced, MayStart

\* Nobody else is inside while a unit holds the lock.
LEMMA HolderWithin ==
    ASSUME Basic, NEW p \in Proc, Holds(p), Alone(p)
    PROVE  /\ \A q \in Policy : q # p => proc[q].pc \notin Inside /\ proc'[q].pc \notin Inside
           /\ Within <=> p \in Policy /\ proc[p].pc \in Inside
           /\ Within' <=> p \in Policy /\ proc'[p].pc \in Inside
<1>1. \A q \in Policy : q # p => proc[q].pc \notin Inside /\ proc'[q] = proc[q]
  BY PolicyProc DEF Basic, Exclusive, Holds, Alone, Inside
<1> QED
  BY <1>1 DEF Within

\* What Enforced says of the gate, the panel and the units at work.
Around == /\ gate => \E q \in Policy : ~At(q, "off")
          /\ panel = "up" \/ \A q \in Policy : At(q, "off")
          /\ \A q \in Policy : AtWork(q) => At("boot", "off") /\ NoneQueued

\* A step of the holder of the lock starts and ends no command.
LEMMA HolderOn ==
    ASSUME Basic, Enforced, Undisturbed, NEW p \in Proc, Holds(p), Alone(p), proc'[p].pc # "off",
           UNCHANGED <<panel, gate>>, NoneQueued => NoneQueued'
    PROVE  Around'
<1>1. \A q \in Policy : At(q, "off")' <=> At(q, "off")
  BY PolicyProc DEF At, Alone, Holds
<1>2. CASE p = "boot"
  <2>1. \A q \in Policy : ~AtWork(q)
    BY <1>2, EnforcedFacts DEF At, Holds
  <2>2. \A q \in Policy : ~AtWork(q)'
    BY <1>2, <2>1, PolicyProc DEF Alone, AtWork
  <2> QED
    BY <1>1, <2>2, EnforcedFacts DEF Around
<1>3. CASE p \in Policy
  <2>1. At("boot", "off") /\ NoneQueued
    BY <1>3, EnforcedFacts DEF AtWork, Holds
  <2>2. At("boot", "off")' /\ NoneQueued'
    BY <1>3, <2>1, PolicyProc DEF Alone, At
  <2> QED
    BY <1>1, <2>2, EnforcedFacts DEF Around
<1> QED
  BY <1>2, <1>3, PolicyProc

\* A unit that is not inside takes up another duty there.
LEMMA EnforcedOutside ==
    ASSUME Basic, Enforced, Undisturbed, NEW p \in Proc, Holds(p), Alone(p),
           proc[p].pc \notin Inside, proc'[p].pc \notin Inside \cup {"off"},
           UNCHANGED <<loaded, panel, gate>>, record' \subseteq record,
           file' = file \/ (\E r \in record : \E f \in File : file' = [file EXCEPT ![f] = r.old[f]])
    PROVE  Enforced'
<1>1. ~Within /\ ~Within' /\ \A q \in Policy : proc'[q].pc \notin Inside
  BY HolderWithin
<1>2. Around'
  BY HolderOn DEF NoneQueued
<1>3. TypeOK /\ AsFiles /\ \A r \in record : file = r.old \/ (panel # "up" /\ Up = {})
  BY <1>1, StepFacts, EnforcedFacts
<1>4. Up' = Up
  BY DEF Up
<1>5. AsFiles' /\ \A r \in record' : file' = r.old \/ (panel' # "up" /\ Up' = {})
  <2>1. CASE file' = file
    BY <1>3, <1>4, <2>1 DEF AsFiles
  <2>2. CASE Up = {} /\ panel # "up"
    BY <1>4, <2>2 DEF AsFiles
  <2>3. CASE file' # file /\ \A r \in record : file = r.old
    <3>1. PICK r \in record, f \in File : file' = [file EXCEPT ![f] = r.old[f]]
      BY <2>3
    <3>2. file = r.old /\ file \in [File -> Policy]
      BY <1>3, <2>3 DEF TypeOK
    <3>3. file' = file
      BY <3>1, <3>2
    <3> QED
      BY <2>3, <3>3
  <2> QED
    BY <1>3, <2>1, <2>2, <2>3
<1> QED
  BY <1>1, <1>2, <1>5 DEF Enforced, Around

\* A unit that is inside stays there or leaves.
LEMMA EnforcedInside ==
    ASSUME Basic, Enforced, Undisturbed, NEW p \in Policy, proc[p].pc \in Inside, Alone(p),
           proc'[p].pc \in Inside \cup {"ended"},
           UNCHANGED <<panel, gate>>, record' \subseteq record, NoneQueued => NoneQueued',
           proc'[p].pc \in Inside =>
             /\ proc'[p].old = proc[p].old /\ proc'[p].want = proc[p].want
             /\ \A c \in Config : loaded[c] = "down" /\ c \notin proc[p].want
                                    /\ "main" \notin proc[p].want => loaded'[c] = "down"
             /\ proc'[p].undo =>
                  WrittenFrom(proc[p].old, IF proc[p].pc = "write" THEN proc[p].left ELSE <<>>)'
             /\ proc'[p].pc \in {"check", "attest", "unlink"} => AsFiles',
           proc'[p].pc = "ended" => AsFiles' /\ \A r \in record' : file' = proc[p].old
    PROVE  Enforced'
<1>1. p \in Proc /\ Holds(p) /\ "off" \notin Inside /\ "ended" \notin Inside
  BY PolicyProc DEF Holds, Inside
<1>2. Around'
  BY <1>1, HolderOn
<1>3. ServersAt(p)
  BY EnforcedFacts
<1>4. ~Within' => AsFiles' /\ \A r \in record' : file' = r.old \/ (panel' # "up" /\ Up' = {})
  <2>1. ~Within' => proc'[p].pc = "ended"
    BY DEF Within
  <2>2. \A r \in record' : r.old = proc[p].old
    BY <1>3 DEF ServersAt
  <2> QED
    BY <2>1, <2>2
<1>5. proc'[p].pc \in Inside => ServersAt(p)'
  <2> SUFFICES ASSUME proc'[p].pc \in Inside PROVE ServersAt(p)'
    OBVIOUS
  <2>1. \A r \in record' : r.old = proc'[p].old
    BY <1>3 DEF ServersAt
  <2>2. "main" \notin proc'[p].want => \A c \in Config \ proc'[p].want : loaded'[c] = "down"
    BY <1>3 DEF ServersAt
  <2>3. proc'[p].undo => WrittenFrom(proc[p].old, IF proc[p].pc = "write" THEN proc[p].left ELSE <<>>)'
    OBVIOUS
  <2> QED
    BY <2>1, <2>2, <2>3 DEF ServersAt
<1>6. \A q \in Policy : proc'[q].pc \in Inside => ServersAt(q)'
  BY <1>1, <1>5, HolderWithin
<1> QED
  BY <1>2, <1>4, <1>6 DEF Enforced, Around

\* An exception inside apply(), after the files of a rollback were written.
LEMMA EnforcedRaise ==
    ASSUME Basic, Enforced, Undisturbed, ~RollbackGivenUp, NEW p \in Policy,
           proc[p].pc \in Inside, RollsBack(p) \/ Ends(p),
           UNCHANGED <<panel, gate>>, record' \subseteq record, NoneQueued => NoneQueued',
           proc[p].pc = "write" \/ file' = file,
           proc[p].pc \in {"restart", "check", "attest", "unlink"} =>
              \A c \in Config : loaded'[c] \in Policy => loaded'[c] = file[c],
           \A c \in Config : loaded[c] = "down" /\ c \notin proc[p].want
                               /\ "main" \notin proc[p].want => loaded'[c] = "down"
    PROVE  Enforced'
<1>1. CASE RollsBack(p)
  <2>1. /\ Alone(p) /\ proc'[p].pc = "write" /\ proc'[p].left = SwitchOrder
        /\ proc'[p].old = proc[p].old /\ proc'[p].want = proc[p].want
    BY <1>1 DEF RollsBack
  <2>2. WrittenFrom(proc[p].old, IF proc[p].pc = "write" THEN proc[p].left ELSE <<>>)'
    BY <2>1, Orders DEF WrittenFrom
  <2> QED
    BY <2>1, <2>2, EnforcedInside DEF Inside
<1>2. CASE Ends(p)
  <2>1. Alone(p) /\ proc'[p].pc = "ended" /\ proc[p].undo
    BY <1>2, BrokenIs DEF Ends
  <2>2. proc[p].pc \in {"restart", "check", "attest", "unlink"}
    BY <2>1 DEF RollbackGivenUp, At, Inside
  <2>3. file' = file /\ \A c \in Config : loaded'[c] \in Policy => loaded'[c] = file[c]
    BY <2>2
  <2>4. AsFiles'
    BY <2>3 DEF AsFiles, Up
  <2>5. WrittenFrom(proc[p].old, <<>>)
    BY <2>1, <2>2, EnforcedFacts DEF ServersAt
  <2>6. p \in Proc /\ proc[p].old \in [File -> Policy] /\ file \in [File -> Policy]
    BY StepFacts, PolicyProc DEF Process, TypeOK
  <2>7. file = proc[p].old
    BY <2>5, <2>6, ListsHave DEF WrittenFrom
  <2> QED
    BY <2>1, <2>3, <2>4, <2>7, EnforcedInside DEF Inside
<1> QED
  BY <1>1, <1>2

\* Where an exception leads that changes nothing but the unit.
LEMMA EnforcedFails ==
    ASSUME Basic, Enforced, Undisturbed, ~RollbackGivenUp, NEW p \in Proc, Holds(p), Raise(p),
           proc[p].pc # "restart",
           UNCHANGED <<file, record, loaded, panel, gate>>
    PROVE  Enforced'
<1>1. TypeOK /\ proc[p].pc \in StepsOf(p) /\ (RollsBack(p) \/ Ends(p))
  BY StepFacts, RaiseIs
<1>2. CASE proc[p].pc \in Inside
  <2>1. p \in Policy
    BY <1>1, <1>2, StepTable, PolicyProc DEF Inside
  <2>2. proc[p].pc \in {"check", "attest", "unlink"} => AsFiles
    BY <1>2, <2>1, EnforcedFacts DEF ServersAt
  <2>3. proc[p].pc \in {"restart", "check", "attest", "unlink"} =>
            \A c \in Config : loaded'[c] \in Policy => loaded'[c] = file[c]
    BY <2>2 DEF AsFiles, Up
  <2> QED
    BY <1>1, <1>2, <2>1, <2>3, EnforcedRaise DEF NoneQueued
<1>3. CASE proc[p].pc \notin Inside
  <2>1. Alone(p) /\ proc'[p].pc \in Over
    BY <1>1, <1>3, BrokenIs DEF RollsBack, Ends
  <2> QED
    BY <1>3, <2>1, EnforcedOutside DEF Inside, Over
<1> QED
  BY <1>2, <1>3

\* Read keeps what it found, a second server that was down included.
LEMMA EnforcedRead ==
    ASSUME Basic, Enforced, Undisturbed, NEW p \in Policy, Read(p)
    PROVE  Enforced'
<1>1. /\ p \in Proc /\ TypeOK /\ Holds(p) /\ proc[p].pc = "read" /\ proc[p].pc \notin Inside
      /\ proc[p].pc \in StepsOf(p) /\ ~At(p, "off")
  BY StepFacts, PolicyProc DEF Read, At, Holds, Inside
<1>2. panel = "up" /\ NoneQueued
  BY <1>1, EnforcedFacts DEF AtWork
<1>3. /\ UNCHANGED <<file, loaded, panel, gate>> /\ record' = {[target |-> p, old |-> file]}
      /\ Crashed = {}
  BY DEF Read
<1>4. CASE proc' = [proc EXCEPT ![p] = [pc |-> "write", left |-> SwitchOrder, old |-> file,
                                        want |-> Up, undo |-> FALSE]]
  <2> DEFINE next == [pc |-> "write", left |-> SwitchOrder, old |-> file, want |-> Up, undo |-> FALSE]
  <2>1. next \in Process
    BY <1>1, ListsHave DEF TypeOK, Up, Process, Lists
  <2> HIDE DEF next
  <2>2. Alone(p) /\ proc'[p] = next
    BY <1>1, <1>4, <2>1, BecomesAlone DEF next
  <2>3. proc'[p].pc = "write" /\ proc'[p].old = file /\ proc'[p].want = Up /\ ~proc'[p].undo
    BY <2>2 DEF next
  <2>4. \A c \in Config \ Up : loaded[c] = "down"
    BY <1>1, <1>2, <1>3 DEF TypeOK, Up, Crashed, NoneQueued
  <2>5. ServersAt(p)'
    BY <1>3, <2>3, <2>4 DEF ServersAt
  <2>6. Around'
    BY <1>1, <1>3, <2>2, <2>3, HolderOn DEF NoneQueued
  <2>7. Within' /\ \A q \in Policy : proc'[q].pc \in Inside => q = p
    BY <1>1, <2>2, <2>3, HolderWithin DEF Inside
  <2> QED
    BY <2>5, <2>6, <2>7 DEF Enforced, Around
<1>5. CASE Raise(p)
  <2>1. Alone(p) /\ proc'[p].pc = "ended"
    BY <1>1, <1>5, RaiseIs, BrokenIs DEF RollsBack, Ends
  <2>2. ~Within /\ ~Within' /\ \A q \in Policy : proc'[q].pc \notin Inside
    BY <1>1, <2>1, HolderWithin DEF Inside
  <2>3. AsFiles' /\ \A r \in record' : file' = r.old
    BY <1>3, <2>2, EnforcedFacts DEF AsFiles, Up
  <2>4. Around'
    BY <1>1, <1>3, <2>1, HolderOn DEF NoneQueued
  <2> QED
    BY <2>2, <2>3, <2>4 DEF Enforced, Around
<1> QED
  BY <1>4, <1>5 DEF Read

LEMMA EnforcedReplace ==
    ASSUME Basic, Enforced, Undisturbed, ~RollbackGivenUp, NEW p \in Policy, Replace(p)
    PROVE  Enforced'
<1>1. /\ p \in Proc /\ TypeOK /\ proc[p].pc = "write" /\ proc[p].pc \in Inside
      /\ proc[p].pc \in StepsOf(p) /\ proc[p].left # <<>> /\ proc[p].left \in Lists
      /\ file \in [File -> Policy] /\ proc[p].old \in [File -> Policy]
  BY StepFacts, PolicyProc DEF Replace, At, Inside, Placed, Process, Lists, TypeOK
<1> DEFINE h == Head(proc[p].left)
<1>2. h \in File /\ Listed(proc[p].left) = {h} \cup Listed(Tail(proc[p].left))
  BY <1>1, ListFacts
<1>3. /\ file' = [file EXCEPT ![h] = IF proc[p].undo THEN proc[p].old[h] ELSE p]
      /\ UNCHANGED <<record, loaded, panel, gate>> /\ Replaced(p, "restart")
  BY DEF Replace
<1>4. Advances(p, "restart") \/ RollsBack(p) \/ Ends(p)
  BY <1>1, <1>3, ReplacedIs, StepTable
<1>5. CASE Advances(p, "restart")
  <2>1. /\ Alone(p) /\ proc'[p].left = Tail(proc[p].left) /\ proc'[p].want = proc[p].want
        /\ proc'[p].old = proc[p].old /\ proc'[p].undo = proc[p].undo
        /\ proc'[p].pc = IF Tail(proc[p].left) = <<>> THEN "restart" ELSE "write"
    BY <1>1, <1>5 DEF Advances
  <2>2. ASSUME proc[p].undo
        PROVE  \A f \in File \ Listed(Tail(proc[p].left)) : file'[f] = proc[p].old[f]
    <3>1. WrittenFrom(proc[p].old, proc[p].left)
      BY <1>1, <2>2, EnforcedFacts DEF ServersAt
    <3> QED
      BY <1>1, <1>2, <1>3, <2>2, <3>1 DEF WrittenFrom
  <2>3. proc'[p].undo =>
          WrittenFrom(proc[p].old, IF proc[p].pc = "write" THEN proc[p].left ELSE <<>>)'
    BY <2>1, <2>2 DEF WrittenFrom
  <2>4. proc'[p].pc \in {"restart", "write"}
    BY <2>1
  <2> QED
    BY <1>1, <1>3, <2>1, <2>3, <2>4, EnforcedInside DEF Inside, NoneQueued
<1>6. CASE RollsBack(p) \/ Ends(p)
  BY <1>1, <1>3, <1>6, EnforcedRaise DEF NoneQueued
<1> QED
  BY <1>4, <1>5, <1>6

\* A restarted server has what is in its file, or failed to start; what was not
\* restarted had been found stopped, and still is.
LEMMA EnforcedRestart ==
    ASSUME Basic, Enforced, Undisturbed, ~RollbackGivenUp, NEW p \in Policy, Restart(p)
    PROVE  Enforced'
<1>1. /\ p \in Proc /\ TypeOK /\ proc[p].pc = "restart" /\ proc[p].pc \in Inside
      /\ proc[p].pc \in StepsOf(p) /\ "check" \in StepsOf(p) /\ MayStart
  BY StepFacts, PolicyProc, StepTable, EnforcedFacts DEF Restart, At, AtWork, Inside
<1>2. ServersAt(p)
  BY <1>1, EnforcedFacts
<1> DEFINE r == Restarted(p)
<1>3. UNCHANGED <<file, record, panel, gate>> /\ (Goto(p, "check") \/ Raise(p))
  BY DEF Restart
<1>4. \A c \in Config : loaded'[c] \in (IF c \in r THEN {file[c], "down"} ELSE {loaded[c]})
  <2>1. CASE loaded' = [c \in Config |-> IF c \in r THEN file[c] ELSE loaded[c]]
    BY <2>1
  <2>2. CASE \E up \in SUBSET (r \ {"main"}) :
                loaded' = [c \in Config |-> IF c \in up THEN file[c]
                                            ELSE IF c \in r THEN "down" ELSE loaded[c]]
    BY <2>2
  <2> QED
    BY <1>1, <2>1, <2>2 DEF Restart
<1>5. \A c \in Config \ r : c \notin proc[p].want /\ loaded[c] = "down"
  BY <1>2 DEF Restarted, ServersAt
<1>6. "main" \notin proc[p].want => r \subseteq proc[p].want
  BY DEF Restarted
<1> HIDE DEF r
<1>7. file \in [File -> Policy] /\ Config \subseteq File
  BY <1>1, Orders DEF TypeOK
<1>8. \A c \in Config : loaded'[c] \in {file[c], "down"} /\ loaded'[c] # "queued"
  BY <1>4, <1>5, <1>7 DEF Policy
<1>9. NoneQueued' /\ \A c \in Config : loaded'[c] \in Policy => loaded'[c] = file[c]
  BY <1>8 DEF NoneQueued, Policy
<1>10. \A c \in Config : loaded[c] = "down" /\ c \notin proc[p].want /\ "main" \notin proc[p].want
                          => loaded'[c] = "down"
  BY <1>4, <1>6
<1>11. CASE Goto(p, "check")
  <2>1. Moves(p, "check")
    BY <1>1, <1>11, GotoAlone
  <2>2. /\ Alone(p) /\ proc'[p].pc = "check" /\ proc'[p].left = proc[p].left
        /\ proc'[p].old = proc[p].old /\ proc'[p].undo = proc[p].undo /\ proc'[p].want = proc[p].want
    BY <2>1 DEF Moves
  <2>3. AsFiles'
    BY <1>3, <1>9 DEF AsFiles, Up
  <2>4. proc'[p].undo =>
          WrittenFrom(proc[p].old, IF proc[p].pc = "write" THEN proc[p].left ELSE <<>>)'
    BY <1>1, <1>2, <1>3, <2>2 DEF ServersAt, WrittenFrom
  <2> QED
    BY <1>1, <1>3, <1>9, <1>10, <2>2, <2>3, <2>4, EnforcedInside DEF Inside
<1>12. CASE Raise(p)
  <2>1. RollsBack(p) \/ Ends(p)
    BY <1>1, <1>12, RaiseIs
  <2> QED
    BY <1>1, <1>3, <1>9, <1>10, <2>1, EnforcedRaise
<1> QED
  BY <1>3, <1>11, <1>12

\* The unit inside goes on past the restart; servers may only have been stopped.
LEMMA EnforcedOn ==
    ASSUME Basic, Enforced, Undisturbed, ~RollbackGivenUp, NEW p \in Policy,
           proc[p].pc \in {"check", "attest", "unlink"}, NEW pc \in {"attest", "unlink", "ended"},
           Moves(p, pc) \/ RollsBack(p) \/ Ends(p), pc = "ended" => record' = {},
           UNCHANGED <<file, panel, gate>>, record' \subseteq record,
           \A c \in Config : loaded'[c] \in {loaded[c], "down"}
    PROVE  Enforced'
<1>1. p \in Proc /\ TypeOK /\ proc[p].pc \in Inside
  BY StepFacts, PolicyProc DEF Inside
<1>2. ServersAt(p)
  BY <1>1, EnforcedFacts
<1>3. AsFiles
  BY <1>2 DEF ServersAt
<1>4. \A c \in Config : loaded'[c] \in Policy => loaded'[c] = file[c]
  BY <1>3 DEF AsFiles, Up, Policy
<1>5. AsFiles' /\ (NoneQueued => NoneQueued')
  BY <1>4 DEF AsFiles, Up, NoneQueued
<1>6. CASE Moves(p, pc)
  <2>1. /\ Alone(p) /\ proc'[p].pc = pc
        /\ proc'[p].old = proc[p].old /\ proc'[p].undo = proc[p].undo /\ proc'[p].want = proc[p].want
    BY <1>6 DEF Moves
  <2>2. proc'[p].undo =>
          WrittenFrom(proc[p].old, IF proc[p].pc = "write" THEN proc[p].left ELSE <<>>)'
    BY <1>2, <2>1 DEF ServersAt, WrittenFrom
  <2> QED
    BY <1>1, <1>5, <2>1, <2>2, EnforcedInside DEF Inside
<1>7. CASE RollsBack(p) \/ Ends(p)
  BY <1>1, <1>4, <1>5, <1>7, EnforcedRaise
<1> QED
  BY <1>6, <1>7

LEMMA EnforcedCheck ==
    ASSUME Basic, Enforced, Undisturbed, ~RollbackGivenUp, NEW p \in Policy, Check(p)
    PROVE  Enforced'
<1>1. /\ p \in Proc /\ TypeOK /\ proc[p].pc = "check" /\ proc[p].pc \in StepsOf(p)
      /\ "attest" \in StepsOf(p)
  BY StepFacts, PolicyProc, StepTable DEF Check, At
<1>2. UNCHANGED <<file, record, panel, gate>> /\ (Goto(p, "attest") \/ Raise(p))
  BY DEF Check
<1>3. \A c \in Config : loaded'[c] \in {loaded[c], "down"}
  <2> DEFINE mainStopped == IF "main" \in Up \ proc[p].want THEN [c \in Config |-> "down"] ELSE loaded
             wrong == {c \in Config : \/ mainStopped[c] = "crashed"
                                      \/ c \in proc[p].want /\ mainStopped[c] \notin Policy}
             now == IF "main" \in wrong THEN mainStopped
                    ELSE [c \in Config |-> IF c \in wrong \cup proc[p].want THEN mainStopped[c] ELSE "down"]
  <2>1. loaded' = now
    BY DEF Check
  <2>2. \A c \in Config : mainStopped[c] \in {loaded[c], "down"}
    OBVIOUS
  <2> HIDE DEF mainStopped, wrong
  <2>3. \A c \in Config : now[c] \in {mainStopped[c], "down"}
    OBVIOUS
  <2> QED
    BY <2>1, <2>2, <2>3
<1>4. Moves(p, "attest") \/ RollsBack(p) \/ Ends(p)
  BY <1>1, <1>2, GotoAlone, RaiseIs
<1> QED
  BY <1>1, <1>2, <1>3, <1>4, EnforcedOn

LEMMA EnforcedAttest ==
    ASSUME Basic, Enforced, Undisturbed, ~RollbackGivenUp, NEW p \in Policy, Attest(p) \/ Unlink(p)
    PROVE  Enforced'
<1>1. /\ p \in Proc /\ TypeOK /\ proc[p].pc \in {"attest", "unlink"} /\ proc[p].pc \in StepsOf(p)
      /\ {"unlink", "ended"} \subseteq StepsOf(p)
  BY StepFacts, PolicyProc, StepTable DEF Attest, Unlink, At
<1>2. UNCHANGED <<file, loaded, panel, gate>>
  BY DEF Attest, Unlink
<1>3. CASE Attest(p)
  <2>1. record' = record /\ (Moves(p, "unlink") \/ RollsBack(p) \/ Ends(p))
    BY <1>1, <1>3, DoneIs DEF Attest
  <2> QED
    BY <1>1, <1>2, <2>1, EnforcedOn
<1>4. CASE Unlink(p)
  <2>1. record' = {} /\ (Moves(p, "ended") \/ RollsBack(p) \/ Ends(p))
    BY <1>1, <1>4, DoneIs DEF Unlink
  <2> QED
    BY <1>1, <1>2, <2>1, EnforcedOn
<1> QED
  BY <1>3, <1>4

\* A recovery, and what else a unit does before it is inside.
LEMMA EnforcedRepairs ==
    ASSUME Basic, Enforced, Undisturbed, NEW p \in Proc,
           Recover(p) \/ Restore(p) \/ Reattest(p) \/ Clear(p)
    PROVE  Enforced'
<1>1. /\ TypeOK /\ Holds(p) /\ proc[p].pc \in Repairing /\ proc[p].pc \in StepsOf(p)
      /\ proc[p].pc \notin Inside /\ proc[p] \in Process
  BY StepFacts DEF Recover, Restore, Reattest, Clear, At, Holds, Repairing, Inside
<1>2. {"restore", "reattest", "clear", "ended", AfterRecovery(p)} \subseteq StepsOf(p)
      /\ AfterRecovery(p) \in {"read", "ended"}
  BY StepTable, PolicyProc DEF AfterRecovery
<1>3. Alone(p) /\ proc'[p].pc \in {"restore", "reattest", "clear", "read", "ended", "failed"}
  <2>1. ASSUME NEW pc \in {"reattest", "clear", "read", "ended"},
               Moves(p, pc) \/ RollsBack(p) \/ Ends(p) \/ (proc[p].pc = "restore" /\ Advances(p, pc))
        PROVE  Alone(p) /\ proc'[p].pc \in {"restore", "reattest", "clear", "read", "ended", "failed"}
    BY <1>1, <2>1, BrokenIs DEF Moves, RollsBack, Ends, Advances, Over
  <2>2. CASE Recover(p)
    <3>1. CASE \E pc \in {AfterRecovery(p), "clear"} : Goto(p, pc)
      BY <1>1, <1>2, <2>1, <3>1, GotoAlone
    <3>2. CASE proc' = [proc EXCEPT ![p].pc = "restore", ![p].left = RecoverOrder]
      <4> DEFINE next == [proc[p] EXCEPT !.pc = "restore", !.left = RecoverOrder]
      <4>1. next \in Process /\ next.pc = "restore"
        BY <1>1, ListsHave DEF Process, Lists
      <4>2. proc' = [proc EXCEPT ![p] = next]
        BY <1>1, <3>2 DEF TypeOK
      <4> HIDE DEF next
      <4> QED
        BY <1>1, <4>1, <4>2, BecomesAlone
    <3> QED
      BY <2>2, <3>1, <3>2 DEF Recover
  <2>3. CASE Restore(p)
    <3>1. proc[p].pc = "restore" /\ proc[p].left # <<>>
      BY <2>3 DEF Restore, At, Basic, Placed
    <3> QED
      BY <1>1, <1>2, <2>1, <2>3, <3>1, ReplacedIs DEF Restore
  <2>4. CASE Reattest(p)
    BY <1>1, <1>2, <2>1, <2>4, DoneIs DEF Reattest
  <2>5. CASE Clear(p)
    BY <1>1, <1>2, <2>1, <2>5, DoneIs DEF Clear
  <2> QED
    BY <2>2, <2>3, <2>4, <2>5
<1>4. UNCHANGED <<loaded, panel, gate>> /\ record' \subseteq record
  BY DEF Recover, Restore, Reattest, Clear
<1>5. file' = file \/ (\E r \in record : \E f \in File : file' = [file EXCEPT ![f] = r.old[f]])
  <2>1. CASE Restore(p)
    <3>1. PICK r \in record : file' = [file EXCEPT ![Head(proc[p].left)] = r.old[Head(proc[p].left)]]
      BY <2>1 DEF Restore
    <3>2. proc[p].left \in Lists /\ proc[p].left # <<>>
      BY <1>1, <2>1 DEF Restore, At, Basic, Placed, Process, Lists
    <3>3. Head(proc[p].left) \in File
      BY <3>2, ListFacts
    <3> QED
      BY <3>1, <3>3
  <2> QED
    BY <2>1 DEF Recover, Reattest, Clear
<1> QED
  BY <1>1, <1>3, <1>4, <1>5, EnforcedOutside DEF Inside

\* The settlement, and what is refused before anything has changed.
LEMMA EnforcedSettles ==
    ASSUME Basic, Enforced, Undisturbed, ~RollbackGivenUp, NEW p \in Policy,
           Settle(p) \/ SettleFails(p) \/ ReadRefused(p)
    PROVE  Enforced'
<1>1. /\ p \in Proc /\ TypeOK /\ Holds(p) /\ proc[p].pc \in {"settle", "read"}
      /\ "recover" \in StepsOf(p) /\ UNCHANGED <<file, record, loaded, panel, gate>>
  BY StepFacts, PolicyProc, StepTable DEF Settle, SettleFails, ReadRefused, At, Holds
<1>2. CASE Settle(p)
  <2>1. Alone(p) /\ proc'[p].pc = "recover"
    BY <1>1, <1>2, GotoAlone DEF Settle, Moves
  <2> QED
    BY <1>1, <2>1, EnforcedOutside DEF Inside
<1>3. CASE Raise(p)
  BY <1>1, <1>3, EnforcedFails
<1> QED
  BY <1>2, <1>3 DEF SettleFails, ReadRefused

\* A command begins or ends; nothing else changes but the gate.
LEMMA EnforcedBorders ==
    ASSUME Basic, Enforced, Undisturbed, NEW p \in Proc, (p \in Policy /\ Begin(p)) \/ End(p)
    PROVE  Enforced'
<1>1. TypeOK /\ UNCHANGED <<file, record, loaded, panel>>
  BY StepFacts DEF Begin, End
<1>2. Alone(p) /\ proc[p].pc \notin Inside /\ proc'[p].pc \notin Inside
  <2>1. CASE \E pc \in {"settle", "refused"} : pc \in StepsOf(p) /\ Goto(p, pc) /\ At(p, "off")
    BY <1>1, <2>1, GotoAlone DEF Moves, At, Inside
  <2>2. CASE End(p)
    BY <1>1, <2>2, DataType, BecomesAlone DEF End, Inside
  <2> QED
    BY <2>1, <2>2, StepTable DEF Begin
<1>3. \A q \in Policy : q # p => /\ At(q, "off")' <=> At(q, "off")
                                 /\ AtWork(q)' <=> AtWork(q)
  BY <1>2, PolicyProc DEF Alone, At, AtWork
<1>4. Within' <=> Within
  BY <1>2, PolicyProc DEF Within, Alone
<1>5. \A q \in Policy : proc'[q].pc \in Inside => ServersAt(q)'
  <2> SUFFICES ASSUME NEW q \in Policy, proc'[q].pc \in Inside PROVE ServersAt(q)'
    OBVIOUS
  <2>1. proc'[q] = proc[q] /\ ServersAt(q)
    BY <1>2, EnforcedFacts, PolicyProc DEF Alone
  <2> QED
    BY <1>1, <2>1 DEF ServersAt, WrittenFrom, AsFiles, Up
<1>6. NoneQueued' <=> NoneQueued
  BY <1>1 DEF NoneQueued
<1>7. Around'
  <2>1. CASE p \in Policy /\ Begin(p)
    <3>1. panel' = "up" /\ Alone(p) /\ proc'["boot"] = proc["boot"]
      BY <1>1, <1>2, <2>1, PolicyProc DEF Begin, Alone
    <3>2. proc'[p].pc = IF LockFree THEN "settle" ELSE "refused"
      BY <1>1, <2>1, GotoAlone, StepTable DEF Begin, Moves
    <3>3. AtWork(p)' => At("boot", "off") /\ NoneQueued
      BY <2>1, <3>2 DEF Begin, AtWork, Queued, NoneQueued
    <3>4. \A q \in Policy : AtWork(q)' => At("boot", "off") /\ NoneQueued
      BY <1>3, <3>3, EnforcedFacts
    <3> QED
      BY <1>6, <2>1, <3>1, <3>2, <3>4 DEF Around, At
  <2>2. CASE End(p)
    <3>1. proc[p].pc \in {"refused", "ended"} /\ proc'[p].pc = "off"
      BY <1>1, <2>2, DataType, BecomesAlone DEF End
    <3>2. panel' = "up" \/ \A q \in Policy : At(q, "off")'
      BY <1>1, <1>3, <3>1, EnforcedFacts DEF At
    <3>3. gate' => \E q \in Policy : ~At(q, "off")'
      <4>1. p \in Policy => ~gate'
        BY <2>2 DEF End
      <4>2. p \notin Policy => gate' = gate /\ \A q \in Policy : q # p
        BY <2>2 DEF End
      <4> QED
        BY <1>3, <4>1, <4>2, EnforcedFacts
    <3>4. ASSUME NEW q \in Policy, AtWork(q)' PROVE At("boot", "off")' /\ NoneQueued'
      <4>1. q # p
        BY <3>1, <3>4 DEF AtWork
      <4>2. AtWork(q) /\ At("boot", "off") /\ NoneQueued
        BY <1>3, <3>4, <4>1, EnforcedFacts
      <4>3. p # "boot"
        BY <3>1, <4>2 DEF At
      <4> QED
        BY <1>2, <1>6, <4>2, <4>3, PolicyProc DEF Alone, At
    <3> QED
      BY <3>2, <3>3, <3>4 DEF Around
  <2> QED
    BY <2>1, <2>2
<1>8. ~Within' => AsFiles' /\ \A r \in record' : file' = r.old \/ (panel' # "up" /\ Up' = {})
  BY <1>1, <1>4, EnforcedFacts DEF AsFiles, Up
<1> QED
  BY <1>5, <1>7, <1>8 DEF Enforced, Around

\* Nothing happens to a switch: a server is started, on its file, goes down or waits, or
\* the recovery unit waits for the lock or has failed.
LEMMA EnforcedServers ==
    ASSUME Basic, Enforced, Undisturbed, UNCHANGED <<file, record, gate>>,
           \A p \in Policy : proc'[p] = proc[p],
           panel' = "up" <=> panel = "up",
           \A p \in Policy : AtWork(p) => At("boot", "off")' /\ NoneQueued',
           \A c \in Config : loaded'[c] \in {loaded[c], file[c], "down", "crashed", "queued"},
           panel # "up" /\ record # {} /\ Up = {} => Up' = {},
           \A p \in Policy : proc[p].pc \in Inside /\ "main" \notin proc[p].want =>
              \A c \in Config \ proc[p].want : loaded'[c] = loaded[c] \/ loaded'[c] = "down"
    PROVE  Enforced'
<1>1. TypeOK /\ file \in [File -> Policy] /\ Config \subseteq File
  BY StepFacts, Orders DEF TypeOK
<1>2. /\ Within' <=> Within
      /\ \A p \in Policy : (At(p, "off")' <=> At(p, "off")) /\ (AtWork(p)' <=> AtWork(p))
  BY DEF Within, At, AtWork
<1>3. Around'
  BY <1>2, EnforcedFacts DEF Around
<1>4. AsFiles => AsFiles'
  BY <1>1 DEF AsFiles, Up, Policy
<1>5. \A p \in Policy : proc'[p].pc \in Inside => ServersAt(p)'
  <2> SUFFICES ASSUME NEW p \in Policy, proc[p].pc \in Inside PROVE ServersAt(p)'
    OBVIOUS
  <2>1. ServersAt(p)
    BY EnforcedFacts
  <2>2. "main" \notin proc[p].want => \A c \in Config \ proc[p].want : loaded'[c] = "down"
    BY <2>1 DEF ServersAt
  <2> QED
    BY <1>4, <2>1, <2>2 DEF ServersAt, WrittenFrom
<1>6. ~Within' => AsFiles' /\ \A r \in record' : file' = r.old \/ (panel' # "up" /\ Up' = {})
  BY <1>2, <1>4, EnforcedFacts
<1> QED
  BY <1>3, <1>5, <1>6 DEF Enforced, Around

\* During a switch the gate lets every start through at once.
LEMMA EnforcedStarts ==
    ASSUME Basic, Enforced, Undisturbed, ~StoppedServerStarted,
           StartServers \/ StartByHand \/ \E c \in Config : StartServer(c) \/ RestartDue(c)
    PROVE  Enforced'
<1>1. /\ TypeOK /\ file \in [File -> Policy] /\ Config \subseteq File /\ "main" \in Config
      /\ UNCHANGED <<file, record, gate, proc>> /\ (panel' = "up" <=> panel = "up")
  BY StepFacts, Orders DEF TypeOK, StartServers, StartByHand, StartServer, RestartDue
<1>2. \A c \in Config : loaded'[c] \in {loaded[c], file[c], "queued"}
  BY <1>1 DEF StartServers, Started, StartByHand, StartServer, RestartDue, TypeOK
<1>3. panel = "up" \/ Up' = Up
  BY <1>1 DEF StartServers, StartByHand, StartServer, RestartDue, TypeOK, Up, Policy
<1>4. ASSUME NEW p \in Policy, AtWork(p) PROVE \A c \in Config : loaded'[c] \in {loaded[c], file[c]}
  <2>1. MayStart /\ panel = "up"
    BY <1>4, EnforcedFacts DEF AtWork, At
  <2> QED
    BY <1>1, <2>1 DEF StartServers, Started, StartByHand, StartServer, RestartDue, TypeOK
<1>5. ASSUME NEW p \in Policy, AtWork(p) PROVE At("boot", "off")' /\ NoneQueued'
  BY <1>1, <1>4, <1>5, EnforcedFacts DEF At, NoneQueued, Policy
<1>6. ASSUME NEW p \in Policy, proc[p].pc \in Inside, "main" \notin proc[p].want,
             NEW c \in Config \ proc[p].want
      PROVE  loaded'[c] = loaded[c]
  <2>1. loaded'["main"] \notin Policy /\ \A d \in Config \ proc[p].want : loaded[d] = "down"
    BY <1>6, EnforcedFacts DEF StoppedServerStarted, ServersAt
  <2>2. MayStart /\ panel = "up"
    BY <1>6, EnforcedFacts DEF AtWork, At, Inside
  <2>3. CASE StartServers
    BY <1>1, <2>1, <2>2, <2>3 DEF StartServers, Started, Up
  <2>4. CASE \E d \in Config : StartServer(d)
    BY <1>1, <2>1, <2>4 DEF StartServer, TypeOK
  <2> QED
    BY <2>2, <2>3, <2>4 DEF StartByHand, RestartDue
<1> QED
  BY <1>1, <1>2, <1>3, <1>5, <1>6, EnforcedServers

LEMMA EnforcedStops ==
    ASSUME Basic, Enforced, Undisturbed, StopServers \/ \E c \in Config : CrashServer(c)
    PROVE  Enforced'
<1>1. TypeOK /\ UNCHANGED <<file, record, panel, gate, proc>>
  BY StepFacts DEF StopServers, CrashServer
<1>2. \A c \in Config : loaded'[c] \in {loaded[c], "down", "crashed"}
  BY <1>1 DEF StopServers, CrashServer, TypeOK
<1>3. \A p \in Policy : AtWork(p) => At("boot", "off")' /\ NoneQueued'
  BY <1>1, <1>2, EnforcedFacts DEF At, NoneQueued
<1>4. Up' \subseteq Up
  BY <1>2 DEF Up, Policy
<1>5. ASSUME NEW p \in Policy, proc[p].pc \in Inside, "main" \notin proc[p].want,
             NEW c \in Config \ proc[p].want
      PROVE  loaded'[c] = "down"
  <2>1. loaded[c] = "down"
    BY <1>5, EnforcedFacts DEF ServersAt
  <2> QED
    BY <1>1, <2>1 DEF StopServers, CrashServer, TypeOK, Up, Policy
<1> QED
  BY <1>1, <1>2, <1>3, <1>4, <1>5, EnforcedServers

\* While the recovery unit has something to do, no switch is at work.
LEMMA EnforcedRecovery ==
    ASSUME Basic, Enforced, Undisturbed, StartRecovery \/ TakeLock \/ RecoveryFails
    PROVE  Enforced'
<1>1. TypeOK /\ UNCHANGED <<file, record, gate>> /\ (panel' = "up" <=> panel = "up")
  BY StepFacts DEF StartRecovery, TakeLock, RecoveryFails
<1>2. Alone("boot")
  <2>1. CASE StartRecovery \/ TakeLock
    BY <1>1, <2>1, GotoAlone, StepTable, PolicyProc DEF StartRecovery, TakeLock, Moves
  <2>2. CASE RecoveryFails
    BY <1>1, <2>2, BecomesAlone, DataType, PolicyProc DEF RecoveryFails
  <2> QED
    BY <2>1, <2>2
<1>3. \A p \in Policy : proc'[p] = proc[p]
  BY <1>2, PolicyProc DEF Alone
<1>4. \A p \in Policy : ~AtWork(p)
  <2>1. ~At("boot", "off") \/ ~gate
    BY DEF StartRecovery, TakeLock, RecoveryFails, At
  <2> QED
    BY <2>1, EnforcedFacts DEF AtWork, At
<1>5. \A c \in Config : loaded'[c] \in {loaded[c], "down"}
  BY DEF StartRecovery, TakeLock, RecoveryFails
<1>6. Up' \subseteq Up
  BY <1>5 DEF Up, Policy
<1> QED
  BY <1>1, <1>3, <1>4, <1>5, <1>6, EnforcedServers

\* The panel comes up when nothing is left to repair and no switch runs, and crashes
\* without one; a power loss leaves nothing running; a login changes nothing here.
LEMMA EnforcedOthers ==
    ASSUME Basic, Enforced, Undisturbed,
           StartPanel \/ CrashPanel \/ PowerLoss \/ (\E c \in Config : Admit(c)) \/ UNCHANGED vars
    PROVE  Enforced'
<1>1. TypeOK
  BY StepFacts
<1>2. CASE StartPanel
  <2>1. /\ UNCHANGED <<file, record, loaded, gate, proc>> /\ ~gate /\ record = {} /\ panel' = "up"
        /\ \A p \in Policy : At(p, "off")
    BY <1>2, EnforcedFacts DEF StartPanel, MayStart
  <2>2. ~Within' /\ ~Within /\ \A p \in Policy : proc[p].pc \notin Inside /\ ~AtWork(p)'
    BY <2>1 DEF At, Within, Inside, AtWork
  <2>3. AsFiles'
    BY <2>1, <2>2, EnforcedFacts DEF AsFiles, Up
  <2> QED
    BY <2>1, <2>2, <2>3 DEF Enforced
<1>3. CASE CrashPanel
  <2>1. /\ UNCHANGED <<file, record, loaded, gate, proc>> /\ panel = "up"
        /\ \A p \in Policy : At(p, "off") /\ At(p, "off")'
    BY <1>3 DEF CrashPanel, At
  <2>2. ~Within' /\ ~Within /\ \A p \in Policy : proc'[p].pc \notin Inside /\ ~AtWork(p)'
    BY <2>1 DEF At, Within, Inside, AtWork
  <2>3. AsFiles' /\ (\A r \in record : file = r.old) /\ ~gate
    BY <2>1, <2>2, EnforcedFacts DEF AsFiles, Up
  <2> QED
    BY <2>1, <2>2, <2>3 DEF Enforced
<1>4. CASE PowerLoss
  <2>1. /\ UNCHANGED <<file, record>> /\ panel' = "queued" /\ ~gate'
        /\ (\A c \in Config : loaded'[c] = "queued") /\ \A p \in Proc : proc'[p] = Idle
    BY <1>4 DEF PowerLoss
  <2>2. \A p \in Policy : proc'[p].pc = "off"
    BY <2>1, DataType, PolicyProc
  <2>3. Up' = {} /\ ~Within' /\ \A p \in Policy : proc'[p].pc \notin Inside /\ ~AtWork(p)'
    BY <2>1, <2>2 DEF Up, Policy, Within, Inside, AtWork
  <2>4. AsFiles'
    BY <2>3 DEF AsFiles
  <2> QED
    BY <2>1, <2>2, <2>3, <2>4 DEF Enforced, At
<1>5. CASE (\E c \in Config : Admit(c)) \/ UNCHANGED vars
  <2>1. UNCHANGED <<file, record, panel, gate, proc, loaded>>
    BY <1>5 DEF Admit, vars
  <2>2. \A p \in Policy : AtWork(p) => At("boot", "off")' /\ NoneQueued'
    BY <2>1, EnforcedFacts DEF At, NoneQueued
  <2> QED
    BY <2>1, <2>2, EnforcedServers DEF Up
<1> QED
  BY <1>2, <1>3, <1>4, <1>5

LEMMA InitEnforced ==
    ASSUME Init
    PROVE  Enforced
<1>1. \A p \in Proc : proc[p].pc = "off"
  BY DataType DEF Init
<1>2. Quiet /\ ~Within /\ \A p \in Policy : At(p, "off") /\ proc[p].pc \notin Inside
  BY <1>1, PolicyProc DEF Quiet, At, Within, Inside
<1>3. AsFiles
  BY Orders DEF Init, AsFiles, AllOf, Up
<1> QED
  BY <1>2, <1>3 DEF Enforced, Init, AtWork, At

LEMMA StepEnforced ==
    ASSUME Basic, Enforced, [Next]_vars, ~RollbackGivenUp, ~StoppedServerStarted
    PROVE  Enforced'
<1> SUFFICES ASSUME Undisturbed' PROVE Enforced'
  BY DEF Enforced
<1>1. TypeOK /\ \A p \in Proc : proc[p].pc \in StepsOf(p)
  BY StepFacts
<1>2. Undisturbed /\ \A p \in Proc : ~Kill(p)
  <2>1. spent \in [FaultKind -> Nat] /\ {"kill", "overlap"} \subseteq FaultKind
    BY <1>1 DEF TypeOK, FaultKind
  <2>2. spent' = spent \/ \E k \in FaultKind : Fault(k)
    BY DEF Next, vars, FaultKind, Begin, Switching, Settle, SettleFails, Read, ReadRefused, Replace,
       Replaced, Restart, Check, Attest, Unlink, Done, Recovering, Recover, Restore, Reattest, Clear,
       End, WriteFails, Kill, StartRecovery, TakeLock, RecoveryFails, StartPanel, StartByHand, CrashPanel,
       StartServers, StopServers, PowerLoss, StartServer, RestartDue, CrashServer, Admit
  <2>3. Undisturbed
    BY <1>1, <2>2, FaultMore DEF Undisturbed
  <2>4. ASSUME NEW p \in Proc, Kill(p) PROVE FALSE
    BY <1>1, <2>1, <2>4, FaultMore DEF Kill
  <2> QED
    BY <2>3, <2>4
<1>3. ASSUME NEW p \in Policy, Begin(p) \/ Switching(p) \/ SettleFails(p) PROVE Enforced'
  BY <1>2, <1>3, PolicyProc, EnforcedBorders, EnforcedSettles, EnforcedRead, EnforcedReplace,
     EnforcedRestart, EnforcedCheck, EnforcedAttest DEF Switching
<1>4. ASSUME NEW p \in Proc, Recovering(p) PROVE Enforced'
  BY <1>2, <1>4, EnforcedRepairs, EnforcedBorders DEF Recovering
<1>5. ASSUME NEW p \in Proc, WriteFails(p) PROVE Enforced'
  <2>1. /\ Holds(p) /\ Raise(p) /\ proc[p].pc # "restart"
        /\ UNCHANGED <<file, record, loaded, panel, gate>>
    BY <1>1, <1>5, StepFacts DEF WriteFails
  <2> QED
    BY <1>2, <2>1, EnforcedFails
<1>6. CASE StartRecovery \/ TakeLock \/ RecoveryFails
  BY <1>2, <1>6, EnforcedRecovery
<1>7. CASE StartServers \/ StartByHand \/ \E c \in Config : StartServer(c) \/ RestartDue(c)
  BY <1>2, <1>7, EnforcedStarts
<1>8. CASE StopServers \/ \E c \in Config : CrashServer(c)
  BY <1>2, <1>8, EnforcedStops
<1>9. CASE StartPanel \/ CrashPanel \/ PowerLoss \/ (\E c \in Config : Admit(c)) \/ UNCHANGED vars
  BY <1>2, <1>9, EnforcedOthers
<1> QED
  BY <1>2, <1>3, <1>4, <1>5, <1>6, <1>7, <1>8, <1>9 DEF Next

-----------------------------------------------------------------------------
(* What holds of the switch and its recovery.                              *)

\* The types of the state; one holder of the maintenance lock; where each unit can
\* be; and, undisturbed, users kept out from the settlement to the end of a switch.
THEOREM BasicInvariant == Spec => []Basic
<1>1. Init => Basic
  BY InitBasic
<1>2. Basic /\ [Next]_vars => Basic'
  BY StepBasic
<1> QED
  BY <1>1, <1>2, PTL DEF Spec

\* Every variable keeps to its type: in particular there is at most one record, and
\* the list of files to write is always an end of one of the two orders.
THEOREM TypeCorrect == Spec => []TypeOK
<1>1. Basic => TypeOK
  BY DEF Basic
<1> QED
  BY <1>1, BasicInvariant, PTL

\* As long as no unit is killed and no switch is asked for while another runs, no
\* server is taken down by a switch with traffic that was not collected: whatever
\* fails, crashes or loses power, on one server or two.
THEOREM NoTrafficLost == Spec => []SwitchLosesNoTraffic
<1>1. Basic => SwitchLosesNoTraffic
  BY DEF Basic, Gated, SwitchLosesNoTraffic
<1> QED
  BY <1>1, BasicInvariant, PTL

\* What the record and the attestation say of the files, at every step of apply(), its
\* rollback and the recovery, unless a rollback without a record is cut off.
THEOREM FilesInvariant == Spec /\ UnrecordedRollbackFinishes => []Files
<1>1. Init => Files
  BY InitFiles
<1>2. Basic /\ Files /\ [Next]_vars /\ [~RollbackCut]_vars => Files'
  <2> SUFFICES ASSUME Basic, Files, [Next]_vars, [~RollbackCut]_vars PROVE Files'
    OBVIOUS
  <2>1. CASE ~RollbackCut
    BY <2>1, StepFiles
  <2>2. CASE UNCHANGED vars
    <3>1. ~RollbackCut
      BY <2>2 DEF vars, RollbackCut
    <3> QED
      BY <3>1, StepFiles
  <2> QED
    BY <2>1, <2>2
<1> QED
  BY <1>1, <1>2, BasicInvariant, PTL DEF Spec, UnrecordedRollbackFinishes

\* Between switches, no record means whole, attested files: whatever was killed, lost
\* power or failed in apply(), its rollback or the recovery, and however often, with
\* the one exception the hypothesis names (two faults in one switch, the first of
\* them the directory sync after the removal of the record).
THEOREM NoRecordConsistent == Spec /\ UnrecordedRollbackFinishes => []NoRecordMeansConsistent
<1>1. Files => NoRecordMeansConsistent
  <2>1. Quiet => ~Unrecorded
    BY PolicyProc DEF Quiet, At, Unrecorded, Inside
  <2> QED
    BY <2>1 DEF Files, Backed, NoRecordMeansConsistent
<1> QED
  BY <1>1, FilesInvariant, PTL

\* Where the removal of a record never fails in the directory sync, a unit inside
\* apply() or its rollback always has its record on disk.
THEOREM AlwaysRecorded == Spec /\ RecordRemovalSyncs => [](Files /\ ~Unrecorded)
<1>1. Init => ~Unrecorded
  BY PolicyProc, DataType DEF Init, Unrecorded, Inside
<1>2. Basic /\ ~Unrecorded /\ [Next]_vars /\ [~RemovalUnsynced]_vars => ~Unrecorded'
  <2> SUFFICES ASSUME Basic, ~Unrecorded, [Next]_vars, [~RemovalUnsynced]_vars PROVE ~Unrecorded'
    OBVIOUS
  <2>1. CASE UNCHANGED vars
    BY <2>1 DEF vars, Unrecorded
  <2>2. CASE Next /\ ~RemovalUnsynced
    BY <2>2, StepRecorded
  <2> QED
    BY <2>1, <2>2
<1>3. Spec /\ RecordRemovalSyncs => []~Unrecorded
  BY <1>1, <1>2, BasicInvariant, PTL DEF Spec, RecordRemovalSyncs
<1>4. ~Unrecorded => [~RollbackCut]_vars
  BY DEF Unrecorded, RollbackCut
<1>5. Spec /\ RecordRemovalSyncs => UnrecordedRollbackFinishes
  BY <1>3, <1>4, PTL DEF UnrecordedRollbackFinishes
<1> QED
  BY <1>3, <1>5, FilesInvariant, PTL

\* Under the same hypothesis no server ever comes up on files of two policies, unless
\* beside a switch that will restart or stop it: not after a power loss, a crash of
\* the server, or a killed switch.
THEOREM WholeFilesServed == Spec /\ RecordRemovalSyncs => ServersStartOnWholeFiles
<1>1. Basic /\ Files /\ ~Unrecorded /\ [Next]_vars
      => [\A c \in Config : c \notin Up /\ c \in Up' /\ ~gate
                              => \A f \in File : file[f] = file["env"]]_vars
  BY StepStarts DEF Agree
<1> QED
  BY <1>1, BasicInvariant, AlwaysRecorded, PTL DEF Spec, ServersStartOnWholeFiles

\* What the servers run with, undisturbed, at every step of a switch, its rollback and
\* the recovery.
THEOREM EnforcedInvariant == Spec /\ RollbackRestarts /\ StoppedServersStay => []Enforced
<1>1. Init => Enforced
  BY InitEnforced
<1>2. Basic /\ Enforced /\ [Next]_vars /\ [~RollbackGivenUp]_vars /\ [~StoppedServerStarted]_vars
      => Enforced'
  <2> SUFFICES ASSUME Basic, Enforced, [Next]_vars, [~RollbackGivenUp]_vars, [~StoppedServerStarted]_vars
               PROVE  Enforced'
    OBVIOUS
  <2>1. CASE UNCHANGED vars
    <3>1. ~RollbackGivenUp
      BY <2>1 DEF vars, RollbackGivenUp, At
    <3>2. CASE Undisturbed
      BY <2>1, <3>2, EnforcedOthers
    <3>3. CASE ~Undisturbed
      BY <2>1, <3>3 DEF Enforced, Undisturbed, vars
    <3> QED
      BY <3>2, <3>3
  <2>2. CASE ~RollbackGivenUp /\ ~StoppedServerStarted
    BY <2>2, StepEnforced
  <2> QED
    BY <2>1, <2>2
<1> QED
  BY <1>1, <1>2, BasicInvariant, PTL DEF Spec, RollbackRestarts, StoppedServersStay

\* The policy the panel shows between switches is the one every running server enforces,
\* whatever fails, crashes or loses power, as long as no unit is killed and no switch
\* overlaps another, with the two exceptions the hypotheses name: a rollback that fails
\* before its restart, and a server started by hand during a switch that found it stopped.
THEOREM ShownInForce == Spec /\ RollbackRestarts /\ StoppedServersStay => []ShownPolicyIsInForce
<1>1. Enforced => ShownPolicyIsInForce
  <2> SUFFICES ASSUME Enforced, Undisturbed, Quiet, Shown \in Policy, NEW c \in Up
               PROVE  loaded[c] = Shown
    BY DEF ShownPolicyIsInForce, ShownIsEnforced
  <2>1. ~Within
    BY PolicyProc DEF Quiet, At, Within, Inside
  <2>2. AsFiles
    BY <2>1 DEF Enforced
  <2>3. Attested /\ Shown = file["env"]
    BY DEF Shown, Policy
  <2>4. c \in File
    BY Orders DEF Up
  <2> QED
    BY <2>2, <2>3, <2>4 DEF AsFiles, Attested
<1> QED
  BY <1>1, EnforcedInvariant, PTL
=============================================================================
