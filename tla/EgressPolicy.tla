---------------------------- MODULE EgressPolicy ----------------------------
(***************************************************************************)
(* Switching the outbound policy of the panel host between "web" and       *)
(* "full": EgressPolicyManager, run by one systemd oneshot per policy and,  *)
(* for an interrupted switch, by the recovery oneshot that precedes every   *)
(* start of the panel and of the Hysteria servers.                          *)
(*                                                                         *)
(* A file stands for the policy written in it.  A server enforces the       *)
(* policy its file had when it was started, whatever the file holds now.    *)
(***************************************************************************)
EXTENDS Naturals, Sequences

CONSTANTS
    Secondary,     \* is there a second server, on UDP port 443
    MaxSwitches,   \* bound: switches asked for
    FaultMixes     \* bound: how often each kind happens; a run stays in one mix

Policy == {"web", "full"}
Config == IF Secondary THEN {"main", "udp443"} ELSE {"main"}
File == Config \cup {"env"}
Proc == Policy \cup {"boot"}
FaultKind == {"kill", "power", "disk", "unit", "crash", "drain", "stop", "overlap"}

ASSUME ConstantsAssumption ==
    /\ Secondary \in BOOLEAN
    /\ MaxSwitches \in Nat /\ FaultMixes \subseteq [FaultKind -> Nat]

VARIABLES
    file,       \* disk: the policy each managed file holds
    attested,   \* disk: .egress-state.json, a policy and the digests of the files
    record,     \* disk: .egress-transaction.json, at most one
    loaded,     \* the policy each server enforces, or why it does not run:
                \* "down" stopped, "queued" its start waits, "crashed" to be restarted
    panel,      \* "up", "queued" its start waits, "down" its start failed with the recovery
    gate,       \* /run: the marker that makes the panel refuse logins
    unsettled,  \* servers that have counted traffic since the last collection
    lost,       \* history: servers restarted by a switch with traffic uncounted
    proc,       \* the two switch units and the recovery unit
    asked,      \* switches asked for so far
    spent       \* faults that have happened

vars == <<file, attested, record, loaded, panel, gate, unsettled, lost, proc, asked, spent>>

-----------------------------------------------------------------------------
(* Data.                                                                   *)

AllOf(p) == [f \in File |-> p]

SwitchOrder == IF Secondary THEN <<"main", "udp443", "env">> ELSE <<"main", "env">>
RecoverOrder == IF Secondary THEN <<"env", "main", "udp443">> ELSE <<"env", "main">>

Attestation == [policy : Policy, files : [File -> Policy]]
Record == [target : Policy, old : [File -> Policy]]

\* At "wait" the recovery unit waits for the maintenance lock; "failed" is its end
\* after an error.  `left' are the files still to be replaced, `old' and `want' what apply()
\* found: the contents and the servers that were running; `undo' its rollback.
Process == [pc : {"off", "refused", "wait", "settle", "recover", "restore", "reattest", "clear",
                  "read", "write", "restart", "check", "attest", "unlink", "ended", "failed"},
            left : {SubSeq(SwitchOrder, i, Len(SwitchOrder)) : i \in 1..4}
                     \cup {SubSeq(RecoverOrder, i, Len(RecoverOrder)) : i \in 1..4},
            old : [File -> Policy], want : SUBSET Config, undo : BOOLEAN]
Idle == [pc |-> "off", left |-> <<>>, old |-> AllOf("web"), want |-> {}, undo |-> FALSE]

Up == {c \in Config : loaded[c] \in Policy}
Crashed == {c \in Config : loaded[c] = "crashed"}
Queued == {c \in Config : loaded[c] = "queued"}

Init ==
    /\ file = AllOf("web") /\ attested = [policy |-> "web", files |-> file]
    /\ record = {}
    /\ loaded = [c \in Config |-> "web"] /\ panel = "up"
    /\ gate = FALSE /\ unsettled = {} /\ lost = {}
    /\ proc = [p \in Proc |-> Idle]
    /\ asked = 0 /\ spent = [k \in FaultKind |-> 0]

Fault(k) ==
    /\ spent' = [spent EXCEPT ![k] = @ + 1]
    /\ \E mix \in FaultMixes : \A j \in FaultKind : spent'[j] <= mix[j]

\* The maintenance lock is held from the start of the command to its end.
Holds(p) == proc[p].pc \notin {"off", "refused", "wait", "ended", "failed"}
LockFree == \A p \in Proc : ~Holds(p)

At(p, pc) == proc[p].pc = pc
Goto(p, pc) == proc' = [proc EXCEPT ![p].pc = pc]

\* The end of a command that did not succeed: the recovery unit has then failed.
Broken(p) == IF p = "boot" THEN "failed" ELSE "ended"

\* Faulty: the rollback takes over the list of files still to be written.
RaiseMutAppends(p) ==
    proc' = [proc EXCEPT ![p] =
        IF @.pc \in {"write", "restart", "check", "attest", "unlink"} /\ ~@.undo
        THEN [@ EXCEPT !.pc = "write", !.undo = TRUE, !.left = @ \o SwitchOrder]
        ELSE [@ EXCEPT !.pc = Broken(p)]]

\* An exception: the first one inside apply() starts the rollback, any other
\* ends the command.
Raise(p) ==
    proc' = [proc EXCEPT ![p] =
        IF @.pc \in {"write", "restart", "check", "attest", "unlink"} /\ ~@.undo
        THEN [@ EXCEPT !.pc = "write", !.undo = TRUE, !.left = SwitchOrder]
        ELSE [@ EXCEPT !.pc = Broken(p)]]

\* A file was replaced or removed; the directory sync may still fail.
Done(p, pc) ==
    \/ Goto(p, pc) /\ UNCHANGED spent
    \/ Raise(p) /\ Fault("disk")

\* The next file of a loop was replaced.
Replaced(p, pc) ==
    \/ /\ proc' = [proc EXCEPT ![p].left = Tail(@), ![p].pc = IF Len(proc[p].left) = 1 THEN pc ELSE @]
       /\ UNCHANGED spent
    \/ Raise(p) /\ Fault("disk")

\* Faulty: the servers do not wait for the recovery.
MayStartMutAlways == TRUE

\* Panel and servers require the recovery unit, which is skipped while a switch runs.
MayStart == (record = {} \/ gate) /\ At("boot", "off")

-----------------------------------------------------------------------------
(* A switch: the unit, the settlement of traffic, EgressPolicyManager.apply. *)

\* ExecStartPre raises the gate; the command needs the maintenance lock.  A request
\* that gets the lock comes when no start waits and the recovery unit is over.
Begin(p) ==
    /\ At(p, "off") /\ panel = "up" /\ asked < MaxSwitches
    /\ LockFree => At("boot", "off") /\ Queued = {}
    /\ \/ (\A q \in Policy : At(q, "off")) /\ UNCHANGED spent
       \/ (\E q \in Policy : ~At(q, "off")) /\ Fault("overlap")
    /\ asked' = asked + 1
    /\ gate' = TRUE
    /\ Goto(p, IF LockFree THEN "settle" ELSE "refused")
    /\ UNCHANGED <<file, attested, record, loaded, panel, unsettled, lost>>

\* Sessions are kicked, the counters collected; without a server, nothing.
Settle(p) ==
    /\ At(p, "settle") /\ Crashed = {}
    /\ unsettled' = {}
    /\ Goto(p, "recover")
    /\ UNCHANGED <<file, attested, record, loaded, panel, gate, lost, asked, spent>>

\* A server is between two states, or the sessions did not drain in time.
SettleFails(p) ==
    /\ At(p, "settle")
    /\ \/ Crashed # {} /\ UNCHANGED spent
       \/ Up # {} /\ Crashed = {} /\ Fault("drain")
    /\ Raise(p)
    /\ UNCHANGED <<file, attested, record, loaded, panel, gate, unsettled, lost, asked>>

\* Contents and running servers are read, the transaction record is written.
Read(p) ==
    /\ At(p, "read") /\ Crashed = {}
    /\ record' = {[target |-> p, old |-> file]}
    /\ \/ /\ proc' = [proc EXCEPT ![p] = [pc |-> "write", left |-> SwitchOrder, old |-> file,
                                          want |-> Up, undo |-> FALSE]]
          /\ UNCHANGED spent
       \/ Raise(p) /\ Fault("disk")
    /\ UNCHANGED <<file, attested, loaded, panel, gate, unsettled, lost, asked>>

\* A server between two states is refused before anything has changed.
ReadRefused(p) ==
    /\ At(p, "read") /\ Crashed # {}
    /\ Raise(p)
    /\ UNCHANGED <<file, attested, record, loaded, panel, gate, unsettled, lost, asked, spent>>

Replace(p) ==
    /\ At(p, "write")
    /\ LET f == Head(proc[p].left) IN
         file' = [file EXCEPT ![f] = IF proc[p].undo THEN proc[p].old[f] ELSE p]
    /\ Replaced(p, "restart")
    /\ UNCHANGED <<attested, record, loaded, panel, gate, unsettled, lost, asked>>

\* Faulty: the second server is left running.
RestartedMutFirst(p) == IF "main" \in proc[p].want THEN {"main"} ELSE proc[p].want

\* systemctl restart of the first server that was running.  The second server
\* is part of the first and wanted by it: it goes down and comes up with it.
Restarted(p) == IF "main" \in proc[p].want THEN Config ELSE proc[p].want

Restart(p) ==
    /\ At(p, "restart")
    /\ LET r == Restarted(p) IN
         /\ lost' = lost \cup (unsettled \cap r)
         /\ unsettled' = unsettled \ r
         /\ \/ /\ r = {} \/ MayStart
               /\ loaded' = [c \in Config |-> IF c \in r THEN file[c] ELSE loaded[c]]
               /\ Goto(p, "check") /\ UNCHANGED spent
            \/ /\ r # {} /\ Fault("unit")
               /\ \E up \in SUBSET (r \ {"main"}) :
                    loaded' = [c \in Config |-> IF c \in up THEN file[c]
                                                ELSE IF c \in r THEN "down" ELSE loaded[c]]
               /\ Raise(p)
            \* Without the gate the start waits for the recovery unit, which waits
            \* for this command's lock, until systemctl is given up.
            \/ /\ r # {} /\ ~MayStart
               /\ loaded' = [c \in Config |-> IF c \in r THEN "queued" ELSE loaded[c]]
               /\ Raise(p) /\ UNCHANGED spent
    /\ UNCHANGED <<file, attested, record, panel, gate, asked>>

\* Every server is as it was found, main first: one that was down is stopped
\* again, with its part, and one that was running must be up.
Check(p) ==
    /\ At(p, "check")
    /\ LET mainStopped == IF "main" \in Up \ proc[p].want THEN [c \in Config |-> "down"] ELSE loaded
           wrong == {c \in Config : \/ mainStopped[c] = "crashed"
                                    \/ c \in proc[p].want /\ mainStopped[c] \notin Policy}
           now == IF "main" \in wrong THEN mainStopped
                  ELSE [c \in Config |-> IF c \in wrong \cup proc[p].want THEN mainStopped[c] ELSE "down"]
       IN  /\ loaded' = now
           /\ lost' = lost \cup {c \in unsettled : now[c] # loaded[c]}
           /\ unsettled' = {c \in unsettled : now[c] = loaded[c]}
           /\ IF wrong = {} THEN Goto(p, "attest") ELSE Raise(p)
    /\ UNCHANGED <<file, attested, record, panel, gate, asked, spent>>

Attest(p) ==
    /\ At(p, "attest")
    /\ attested' = IF proc[p].undo THEN [policy |-> proc[p].old["env"], files |-> proc[p].old]
                                   ELSE [policy |-> p, files |-> AllOf(p)]
    /\ Done(p, "unlink")
    /\ UNCHANGED <<file, record, loaded, panel, gate, unsettled, lost, asked>>

Unlink(p) ==
    /\ At(p, "unlink")
    /\ record' = {}
    /\ Done(p, "ended")
    /\ UNCHANGED <<file, attested, loaded, panel, gate, unsettled, lost, asked>>

\* ExecStopPost of a switch unit takes the gate away.
End(p) ==
    /\ proc[p].pc \in {"refused", "ended"}
    /\ proc' = [proc EXCEPT ![p] = Idle]
    /\ gate' = (IF p \in Policy THEN FALSE ELSE gate)
    /\ UNCHANGED <<file, attested, record, loaded, panel, unsettled, lost, asked, spent>>

\* A write or a removal fails before it has an effect.
WriteFails(p) ==
    /\ proc[p].pc \in {"restore", "reattest", "clear", "read", "write", "attest", "unlink"}
    /\ Fault("disk")
    /\ Raise(p)
    /\ UNCHANGED <<file, attested, record, loaded, panel, gate, unsettled, lost, asked>>

-----------------------------------------------------------------------------
(* Recovery: EgressPolicyManager.recover, also the first thing apply() does.  *)

\* The recovery unit is pulled in by a start of the panel or of a server, and by
\* nothing else; it has work only with a record and without a switch under way.
StartRecovery ==
    /\ At("boot", "off") /\ (panel = "queued" \/ Queued # {})
    /\ record # {} /\ ~gate
    /\ Goto("boot", "wait")
    /\ UNCHANGED <<file, attested, record, loaded, panel, gate, unsettled, lost, asked, spent>>

TakeLock ==
    /\ At("boot", "wait") /\ LockFree
    /\ Goto("boot", "recover")
    /\ UNCHANGED <<file, attested, record, loaded, panel, gate, unsettled, lost, asked, spent>>

\* It is a oneshot without Restart=: when it fails or is killed, the starts that wait
\* for it fail too, and nothing performs them again.
RecoveryFails ==
    /\ At("boot", "failed")
    /\ proc' = [proc EXCEPT !["boot"] = Idle]
    /\ panel' = IF panel = "queued" THEN "down" ELSE panel
    /\ loaded' = [c \in Config |-> IF c \in Queued THEN "down" ELSE loaded[c]]
    /\ UNCHANGED <<file, attested, record, gate, unsettled, lost, asked, spent>>

AfterRecovery(p) == IF p = "boot" THEN "ended" ELSE "read"

\* Faulty: a switch counts as committed without its attestation.
RecoverMutFilesOnly(p) ==
    /\ At(p, "recover")
    /\ IF record = {} THEN Goto(p, AfterRecovery(p))
       ELSE \E r \in record :
              IF file = AllOf(r.target)
              THEN Goto(p, "clear")
              ELSE proc' = [proc EXCEPT ![p].pc = "restore", ![p].left = RecoverOrder]
    /\ UNCHANGED <<file, attested, record, loaded, panel, gate, unsettled, lost, asked, spent>>

\* A switch whose result is complete on disk was committed.
Recover(p) ==
    /\ At(p, "recover")
    /\ IF record = {} THEN Goto(p, AfterRecovery(p))
       ELSE \E r \in record :
              IF file = AllOf(r.target) /\ attested = [policy |-> r.target, files |-> file]
              THEN Goto(p, "clear")
              ELSE proc' = [proc EXCEPT ![p].pc = "restore", ![p].left = RecoverOrder]
    /\ UNCHANGED <<file, attested, record, loaded, panel, gate, unsettled, lost, asked, spent>>

Restore(p) ==
    /\ At(p, "restore")
    /\ \E r \in record :
         LET f == Head(proc[p].left) IN file' = [file EXCEPT ![f] = r.old[f]]
    /\ Replaced(p, "reattest")
    /\ UNCHANGED <<attested, record, loaded, panel, gate, unsettled, lost, asked>>

Reattest(p) ==
    /\ At(p, "reattest")
    /\ \E r \in record : attested' = [policy |-> r.old["env"], files |-> r.old]
    /\ Done(p, "clear")
    /\ UNCHANGED <<file, record, loaded, panel, gate, unsettled, lost, asked>>

\* Faulty: the record of a repaired switch stays.
ClearMutKeeps(p) ==
    /\ At(p, "clear")
    /\ Done(p, AfterRecovery(p))
    /\ UNCHANGED <<file, attested, record, loaded, panel, gate, unsettled, lost, asked>>

Clear(p) ==
    /\ At(p, "clear")
    /\ record' = {}
    /\ Done(p, AfterRecovery(p))
    /\ UNCHANGED <<file, attested, loaded, panel, gate, unsettled, lost, asked>>

-----------------------------------------------------------------------------
(* Servers, users and faults.                                              *)

StartPanel ==
    /\ panel = "queued" /\ MayStart
    /\ panel' = "up"
    /\ UNCHANGED <<file, attested, record, loaded, gate, unsettled, lost, proc, asked, spent>>

\* What does not run is started at once, or waits for the recovery.
Started == [c \in Config |-> IF c \in Up THEN loaded[c] ELSE IF MayStart THEN file[c] ELSE "queued"]

\* The panel starts the main server, which wants the other; it takes no lock.
StartServers ==
    /\ panel = "up" /\ loaded["main"] \notin Policy
    /\ loaded' = Started
    /\ UNCHANGED <<file, attested, record, panel, gate, unsettled, lost, proc, asked, spent>>

\* systemd starts a server, after the panel: at boot, after a crash, or when it may at last.
StartServer(c) ==
    /\ loaded[c] \in {"queued", "crashed"} /\ MayStart /\ panel = "up"
    /\ loaded' = [loaded EXCEPT ![c] = file[c]]
    /\ UNCHANGED <<file, attested, record, panel, gate, unsettled, lost, proc, asked, spent>>

\* The restart of a crashed server is due and has to wait; it wants the panel too.
RestartDue(c) ==
    /\ loaded[c] = "crashed" /\ ~(MayStart /\ panel = "up")
    /\ loaded' = [loaded EXCEPT ![c] = "queued"]
    /\ panel' = IF panel = "down" THEN "queued" ELSE panel
    /\ UNCHANGED <<file, attested, record, gate, unsettled, lost, proc, asked, spent>>

\* Root starts the panel by hand, or the servers, which want it.
StartByHand ==
    /\ panel = "down"
    /\ panel' = "queued"
    /\ loaded' \in {loaded, [c \in Config |-> IF c \in Up THEN loaded[c] ELSE "queued"]}
    /\ UNCHANGED <<file, attested, record, gate, unsettled, lost, proc, asked, spent>>

\* The panel stops the service, sessions settled; it does so under the lock it
\* also holds while it waits for a switch.
StopServers ==
    /\ panel = "up" /\ \A p \in Policy : At(p, "off")
    /\ Fault("stop")
    /\ loaded' = [c \in Config |-> "down"] /\ unsettled' = {}
    /\ UNCHANGED <<file, attested, record, panel, gate, lost, proc, asked>>

CrashServer(c) ==
    /\ c \in Up /\ Fault("crash")
    /\ loaded' = [loaded EXCEPT ![c] = "crashed"] /\ unsettled' = unsettled \ {c}
    /\ UNCHANGED <<file, attested, record, panel, gate, lost, proc, asked>>

\* The panel crashes, or its watchdog ends it, and is restarted.  During a switch that
\* stops the switch unit as well: see Kill.
CrashPanel ==
    /\ panel = "up" /\ (\A p \in Policy : At(p, "off")) /\ Fault("crash")
    /\ panel' = "queued"
    /\ UNCHANGED <<file, attested, record, loaded, gate, unsettled, lost, proc, asked>>

\* Faulty: the gate is not looked at.
AdmitMutIgnoresGate(c) ==
    /\ c \in Up
    /\ unsettled' = unsettled \cup {c}
    /\ UNCHANGED <<file, attested, record, loaded, panel, gate, lost, proc, asked, spent>>

\* A user logs in and causes traffic.
Admit(c) ==
    /\ c \in Up /\ ~gate
    /\ unsettled' = unsettled \cup {c}
    /\ UNCHANGED <<file, attested, record, loaded, panel, gate, lost, proc, asked, spent>>

\* A unit is killed: its stop timeout is over, the signal was deferred.
Kill(p) ==
    /\ Holds(p) \/ At(p, "wait")
    /\ Fault("kill")
    /\ Goto(p, Broken(p))
    /\ UNCHANGED <<file, attested, record, loaded, panel, gate, unsettled, lost, asked>>

PowerLoss ==
    /\ Fault("power")
    /\ loaded' = [c \in Config |-> "queued"] /\ unsettled' = {}
    /\ panel' = "queued" /\ gate' = FALSE /\ proc' = [p \in Proc |-> Idle]
    /\ UNCHANGED <<file, attested, record, lost, asked>>

-----------------------------------------------------------------------------
Switching(p) ==
    \/ Settle(p) \/ Read(p) \/ ReadRefused(p) \/ Replace(p) \/ Restart(p) \/ Check(p) \/ Attest(p) \/ Unlink(p)

Recovering(p) == Recover(p) \/ Restore(p) \/ Reattest(p) \/ Clear(p) \/ End(p)

Next ==
    \/ \E p \in Policy : Begin(p) \/ Switching(p) \/ SettleFails(p)
    \/ \E p \in Proc : Recovering(p) \/ WriteFails(p) \/ Kill(p)
    \/ StartRecovery \/ TakeLock \/ RecoveryFails
    \/ StartPanel \/ StartByHand \/ CrashPanel \/ StartServers \/ StopServers \/ PowerLoss
    \/ \E c \in Config : StartServer(c) \/ RestartDue(c) \/ CrashServer(c) \/ Admit(c)

Spec == Init /\ [][Next]_vars

-----------------------------------------------------------------------------
(* What the switch promises.                                               *)

TypeOK ==
    /\ file \in [File -> Policy]
    /\ attested \in Attestation
    /\ record \in {{}} \cup {{r} : r \in Record}
    /\ loaded \in [Config -> Policy \cup {"down", "queued", "crashed"}]
    /\ panel \in {"up", "queued", "down"} /\ gate \in BOOLEAN
    /\ unsettled \subseteq Config /\ lost \subseteq Config
    /\ proc \in [Proc -> Process]
    /\ asked \in 0..MaxSwitches
    /\ spent \in [FaultKind -> Nat]

Quiet == \A p \in Proc : At(p, "off")

\* The files are of one policy, and the state file vouches for them.
Attested ==
    /\ \A f \in File : file[f] = file["env"]
    /\ attested = [policy |-> file["env"], files |-> file]

\* EgressPolicyController.inspect: the policy the panel shows.
Shown == IF Attested /\ Crashed = {} THEN file["env"] ELSE "inconsistent"

\* Between switches, a policy that is shown, and not called inconsistent, is the
\* one every running server enforces.
ShownIsEnforced == Quiet /\ Shown \in Policy => \A c \in Up : loaded[c] = Shown

\* No unit was killed and no switch was asked for while another ran.
Undisturbed == spent["kill"] = 0 /\ spent["overlap"] = 0

\* The shown policy is the enforced one after a switch that succeeded, was rolled back
\* or was cut off by a power loss.
ShownPolicyIsInForce ==
    Undisturbed => ShownIsEnforced

\* Without a transaction record nothing needs repair: the files agree with one
\* another and with the state file, wherever a switch was interrupted.
NoRecordMeansConsistent == Quiet /\ record = {} => Attested

\* A server is started only on files that agree, or beside a switch that will
\* restart or stop it: after a power loss, or once a killed switch is over, no
\* server ever comes up on the half-written files.
ServersStartOnWholeFiles ==
    [][\A c \in Config : c \notin Up /\ c \in Up' /\ ~gate
                           => \A f \in File : file[f] = file["env"]]_vars

\* A switch takes a server down only when its traffic has been collected: users
\* are refused from before the settlement until after the restart.
SwitchLosesNoTraffic == Undisturbed => lost = {}

-----------------------------------------------------------------------------
(* Liveness: systemd runs what was started to its end, and performs the      *)
(* starts it was left with, each once: of the panel and the servers at boot  *)
(* and after a crash.  Nobody has to start what was stopped, or what failed  *)
(* with the recovery.                                                       *)

Progress ==
    \/ \E p \in Policy : Switching(p) \/ SettleFails(p)
    \/ \E p \in Proc : Recovering(p)
    \/ TakeLock \/ RecoveryFails

FairSpec ==
    /\ Spec
    /\ WF_vars(Progress) /\ WF_vars(StartRecovery) /\ WF_vars(StartPanel)
    /\ \A c \in Config : WF_vars(StartServer(c) \/ RestartDue(c))

\* A panel that crashed or lost power comes up again, on files that are attested, and a
\* server that waits for its start runs again, unless somebody stopped it, its unit
\* failed, or a switch overlapped by another found it stopped and stops it again.  The
\* one other excuse, and the only one of the panel, is that the recovery unit has
\* failed or was killed: then what waits for it stays down.
ServicesReturn ==
    /\ panel = "queued" ~> (panel = "up" /\ Attested) \/ At("boot", "failed")
    /\ \A c \in Config : loaded[c] \in {"queued", "crashed"} ~>
          c \in Up \/ At("boot", "failed") \/ spent["stop"] + spent["unit"] + spent["overlap"] > 0
=============================================================================
