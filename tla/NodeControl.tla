---------------------------- MODULE NodeControl ----------------------------
(***************************************************************************)
(* How the panel controls a paired node: the lifecycle an administrator and *)
(* the traffic budget move it through, the commands queued for it, the      *)
(* agent that executes them, and what they do to the sessions of one user.  *)
(*                                                                         *)
(* The panel decides in transactions on its database; the agent asks for    *)
(* commands, executes them in several steps beside the Hysteria servers and *)
(* acknowledges them; the removal of the node is left to a worker.  A wait  *)
(* of ten seconds for logins in flight stands for the end of those logins.  *)
(***************************************************************************)
EXTENDS Naturals, Sequences, FiniteSets

CONSTANTS
    Login,        \* logins of the user on this node, each used once
    MaxCommands,  \* bound: commands queued
    EventMixes    \* bound: how often each event happens; a run stays in one mix

EventKind == {"revoke", "expire", "exhaust", "reset", "drain", "stop", "emergency", "resume",
              "archive", "disconnect", "delete", "budget",
              "crash", "reboot", "lost", "late", "unit", "disk", "silent", "panel"}

ASSUME ConstantsAssumption ==
    /\ IsFiniteSet(Login) /\ MaxCommands \in Nat \ {0}
    /\ EventMixes \subseteq [EventKind -> Nat]

VARIABLES
    user,    \* panel: the valid credential, the generation, is the quota used up;
             \* owed: a kick is still to be queued; told: the credential it was queued for
    node,    \* panel: status and lifecycle of the node, the state of its budget
    snap,    \* panel: the last online snapshot: is anyone online, is it fresh
    cmds,    \* panel: node_commands in the order they were queued
    disk,    \* node: protocol.json, the spool and the uninstall marker
    agent,   \* node: the control loop: where it is, what it was given
    worker,  \* node: the uninstall unit
    plane,   \* node: the Hysteria servers: running, a kick marker, traffic of ended sessions
             \* that was not collected
    login,   \* where each login is and the credential it was made with
    wire,    \* acknowledgements the agent gave up on that may still arrive
    spent    \* events that have happened

panelVars == <<user, node, snap, cmds>>
nodeVars == <<disk, agent, worker, plane, login, wire>>
vars == <<user, node, snap, cmds, disk, agent, worker, plane, login, wire, spent>>

-----------------------------------------------------------------------------
(* Data.                                                                   *)

Lifecycle == {"active", "draining", "stopping", "stopped", "starting", "disconnecting", "archived"}
Stops == {"STOP_DATA_PLANE", "STOP_DATA_PLANE_IF_IDLE"}
Kind == Stops \cup {"KICK_USERS", "START_DATA_PLANE", "UNINSTALL_NODE"}

\* A quota kick carries the generation it was decided for, a security kick none.
Security == 0
Command == [kind : Kind, generation : Nat, acked : BOOLEAN]
NewCommand(kind, generation) == [kind |-> kind, generation |-> generation, acked |-> FALSE]

Ids == 1..MaxCommands
NoCommand == 0
NoSnapshot == [empty |-> TRUE, fresh |-> FALSE]

Flight == {l \in Login : login[l].at = "flight"}
Open == {l \in Login : login[l].at = "open"}

\* The agent that has just been started.  `seen' is its last online list, `quiet'
\* the logins in flight at the first empty list of each kick it watches.
Fresh == [pc |-> "idle", todo |-> {}, cur |-> NoCommand, quiet |-> [i \in Ids |-> {}],
          watched |-> {}, wait |-> {}, seen |-> "nothing"]
Seen == IF Open = {} THEN "empty" ELSE "busy"

Init ==
    /\ user = [cred |-> 1, generation |-> 1, over |-> FALSE, owed |-> FALSE, told |-> 1]
    /\ node = [status |-> "pending_verification", lifecycle |-> "active", automatic |-> FALSE,
               admitted |-> TRUE, full |-> FALSE, confirmed |-> FALSE, idle |-> "no", beat |-> TRUE]
    /\ snap = [empty |-> TRUE, fresh |-> TRUE] /\ cmds = <<>>
    /\ disk = [stopped |-> FALSE, done |-> {}, spool |-> FALSE, marker |-> NoCommand]
    /\ agent = Fresh /\ worker = "off"
    /\ plane = [up |-> TRUE, marked |-> FALSE, tail |-> FALSE]
    /\ login = [l \in Login |-> [at |-> "new", cred |-> 0]]
    /\ wire = {} /\ spent = [k \in EventKind |-> 0]

Event(k) ==
    /\ spent' = [spent EXCEPT ![k] = @ + 1]
    /\ \E mix \in EventMixes : \A j \in EventKind : spent'[j] <= mix[j]

Paired == node.status = "pending_verification"
Serving == Paired /\ node.lifecycle \in {"active", "draining"}
Pending == {i \in DOMAIN cmds : ~cmds[i].acked}

-----------------------------------------------------------------------------
(* The panel: the user's credential, quota and kicks.                       *)

\* An identical command that is not acknowledged yet is not queued twice.
QueueKick(q, generation) ==
    IF ~Serving \/ \E i \in Pending : q[i].kind = "KICK_USERS" /\ q[i].generation = generation
    THEN q ELSE Append(q, NewCommand("KICK_USERS", generation))

\* A token is rotated, the user disabled or deleted: a transaction of its own;
\* one web request at a time, which queues the kick afterwards.
Revoke ==
    /\ ~user.owed /\ Event("revoke")
    /\ user' = [user EXCEPT !.cred = @ + 1, !.generation = @ + 1, !.owed = TRUE]
    /\ UNCHANGED <<node, snap, cmds, nodeVars>>

\* The user's traffic is set back: the same, with the credential left valid.
Reset ==
    /\ ~user.owed /\ Event("reset")
    /\ user' = [user EXCEPT !.over = FALSE, !.generation = @ + 1, !.owed = TRUE]
    /\ UNCHANGED <<node, snap, cmds, nodeVars>>

KickOwed ==
    /\ user.owed
    /\ cmds' = QueueKick(cmds, Security) /\ Len(cmds') <= MaxCommands
    /\ user' = [user EXCEPT !.owed = FALSE, !.told = user.cred]
    /\ UNCHANGED <<node, snap, nodeVars, spent>>

\* The account expires, or its subscription is regenerated: one transaction.
Expire ==
    /\ Event("expire")
    /\ cmds' = QueueKick(cmds, Security) /\ Len(cmds') <= MaxCommands
    /\ user' = [user EXCEPT !.cred = @ + 1, !.generation = @ + 1, !.told = user.cred + 1]
    /\ UNCHANGED <<node, snap, nodeVars>>

\* A traffic batch takes the user over the quota.
Exhaust ==
    /\ ~user.over /\ Event("exhaust")
    /\ cmds' = QueueKick(cmds, user.generation) /\ Len(cmds') <= MaxCommands
    /\ user' = [user EXCEPT !.over = TRUE]
    /\ UNCHANGED <<node, snap, nodeVars>>

\* The panel stops between the two transactions of a request and comes back
\* without snapshots, or the second transaction fails and is only logged.
PanelFails ==
    /\ Event("panel")
    /\ user' = [user EXCEPT !.owed = FALSE]
    /\ \/ snap' = NoSnapshot
       \/ user.owed /\ UNCHANGED snap
    /\ UNCHANGED <<node, cmds, nodeVars>>

\* The kick addresses the account: no new session until it is acknowledged.
KickPending == \E i \in Pending : cmds[i].kind = "KICK_USERS" /\ cmds[i].generation = Security

\* Faulty: a node that was told to stop goes on admitting users.
AdmitsMutStopping ==
    /\ Paired /\ node.lifecycle \in {"active", "draining", "stopping"}
    /\ snap.fresh /\ ~user.over /\ ~KickPending

\* The device limit and the snapshots of other nodes are DeviceAdmission's.
Admits == Serving /\ snap.fresh /\ ~user.over /\ ~KickPending

Approve(l) ==
    /\ plane.up /\ login[l].at = "new" /\ Admits
    /\ login' = [login EXCEPT ![l] = [at |-> "flight", cred |-> user.cred]]
    /\ UNCHANGED <<panelVars, disk, agent, worker, plane, wire, spent>>

-----------------------------------------------------------------------------
(* The panel: the lifecycle of the node.                                    *)

Move(lifecycle) == node' = [node EXCEPT !.lifecycle = lifecycle, !.automatic = FALSE]

NewLifecycleCommand(kind) ==
    /\ Pending = {} /\ Len(cmds) < MaxCommands
    /\ cmds' = Append(cmds, NewCommand(kind, Security))

\* Already draining (for the budget, too) is not an error and changes nothing.
Drain ==
    /\ Paired /\ node.lifecycle = "active" /\ node.admitted /\ Event("drain")
    /\ Move("draining")
    /\ UNCHANGED <<user, snap, cmds, nodeVars>>

Quiet == snap.fresh /\ snap.empty

\* The address has left the DNS; the last snapshot is fresh and empty.
Stop ==
    /\ Paired /\ node.lifecycle = "draining" /\ Quiet /\ Event("stop")
    /\ NewLifecycleCommand("STOP_DATA_PLANE") /\ Move("stopping")
    /\ UNCHANGED <<user, snap, nodeVars>>

EmergencyStop ==
    /\ Serving /\ Event("emergency")
    /\ NewLifecycleCommand("STOP_DATA_PLANE") /\ Move("stopping")
    /\ UNCHANGED <<user, snap, nodeVars>>

Resume ==
    /\ Paired /\ node.lifecycle = "stopped" /\ Event("resume")
    /\ NewLifecycleCommand("START_DATA_PLANE") /\ Move("starting")
    /\ UNCHANGED <<user, snap, nodeVars>>

Archive ==
    /\ Paired /\ node.lifecycle = "stopped" /\ Pending = {} /\ Event("archive")
    /\ Move("archived")
    /\ UNCHANGED <<user, snap, cmds, nodeVars>>

Disconnect ==
    /\ Serving /\ node.beat /\ Event("disconnect")
    /\ NewLifecycleCommand("UNINSTALL_NODE") /\ Move("disconnecting")
    /\ UNCHANGED <<user, snap, nodeVars>>

\* The pairing is revoked without the node; a pending uninstall stays
\* acknowledgeable, every other pending command is dropped.
Delete ==
    /\ Paired /\ Event("delete")
    /\ node' = [node EXCEPT !.status = "revoked", !.lifecycle = "archived", !.automatic = FALSE]
    /\ cmds' = [i \in DOMAIN cmds |->
                    IF cmds[i].kind = "UNINSTALL_NODE" THEN cmds[i] ELSE [cmds[i] EXCEPT !.acked = TRUE]]
    /\ snap' = NoSnapshot
    /\ UNCHANGED <<user, nodeVars>>

\* The administrator confirms that the DNS entries of a full node are gone.
ConfirmDns ==
    /\ Paired /\ node.lifecycle = "draining" /\ node.automatic /\ ~node.confirmed
    /\ node' = [node EXCEPT !.confirmed = TRUE, !.idle = "no"]
    /\ UNCHANGED <<user, snap, cmds, nodeVars, spent>>

\* Traffic takes the node over 95% of its budget, or the budget is raised.
Budget ==
    /\ Event("budget")
    /\ node' = [node EXCEPT !.full = ~@]
    /\ UNCHANGED <<user, snap, cmds, nodeVars>>

\* What a check of the budget makes of the time the node has been idle.
IdleNext ==
    IF ~Quiet \/ ~node.beat THEN {"no"}
    ELSE IF node.idle = "no" THEN {"since"} ELSE {"since", "long"}

\* One check of the collector: drain, return to service, or ask for an idle stop.
Reconcile ==
    /\ Serving
    /\ \/ /\ ~node.full /\ node.automatic /\ node.lifecycle = "draining"
          /\ node' = [node EXCEPT !.lifecycle = "active", !.automatic = FALSE,
                                  !.confirmed = FALSE, !.idle = "no"]
          /\ UNCHANGED cmds
       \/ /\ node.full /\ node.lifecycle = "active"
          /\ node' = [node EXCEPT !.lifecycle = "draining", !.automatic = TRUE,
                                  !.confirmed = FALSE, !.idle = "no"]
          /\ UNCHANGED cmds
       \/ /\ node.full /\ node.lifecycle = "draining" /\ node.automatic /\ node.confirmed
          /\ \E idle \in IdleNext :
                \/ node' = [node EXCEPT !.idle = idle] /\ UNCHANGED cmds
                \/ /\ idle = "long"
                   /\ node' = [node EXCEPT !.idle = idle, !.lifecycle = "stopping"]
                   /\ NewLifecycleCommand("STOP_DATA_PLANE_IF_IDLE")
    /\ UNCHANGED <<user, snap, nodeVars, spent>>

\* Snapshots and heartbeats grow old while the node is silent.
GrowOld ==
    /\ Event("silent")
    /\ \/ snap' = [snap EXCEPT !.fresh = FALSE] /\ UNCHANGED node
       \/ node' = [node EXCEPT !.beat = FALSE] /\ UNCHANGED snap
    /\ UNCHANGED <<user, cmds, nodeVars>>

Heartbeat ==
    /\ Paired /\ worker \notin {"ack", "gone"} /\ ~node.beat
    /\ node' = [node EXCEPT !.beat = TRUE]
    /\ UNCHANGED <<user, snap, cmds, nodeVars, spent>>

-----------------------------------------------------------------------------
(* The panel answers the agent.                                             *)

\* The user's generation has changed or the usage is below the quota again.
Superseded(i) ==
    /\ cmds[i].kind = "KICK_USERS" /\ cmds[i].generation # Security
    /\ ~(user.over /\ user.generation = cmds[i].generation)

\* What a poll delivers and what it leaves in the queue.  A lease delays the
\* next delivery, mostly by less than a cycle; here it is over by the next poll.
Delivered == {i \in Pending : ~Superseded(i)}
Polled == [i \in DOMAIN cmds |-> [cmds[i] EXCEPT !.acked = @ \/ i \in Pending \ Delivered]]

\* The lifecycle a successful command of each kind leads to.
LifecycleAfter(kind) ==
    CASE kind \in Stops /\ node.lifecycle = "stopping" -> "stopped"
      [] kind = "START_DATA_PLANE" /\ node.lifecycle = "starting" -> "active"
      [] kind = "UNINSTALL_NODE" /\ node.lifecycle = "disconnecting" -> "archived"
      [] OTHER -> node.lifecycle

\* A revoked node may only confirm its uninstall.
AckAccepted(i, ok) == Paired \/ (cmds[i].kind = "UNINSTALL_NODE" /\ ok)

\* Faulty: a repeated acknowledgement is executed like the first.
AcknowledgeMutRepeat(i, ok) ==
    IF ~AckAccepted(i, ok) \/ ~ok THEN UNCHANGED <<node, snap, cmds>>
    ELSE /\ cmds' = [cmds EXCEPT ![i].acked = TRUE]
         /\ node' = [node EXCEPT !.lifecycle = LifecycleAfter(cmds[i].kind)]
         /\ UNCHANGED snap

\* The transaction of an acknowledgement; of a failure only the error is kept.
Acknowledge(i, ok) ==
    IF ~AckAccepted(i, ok) \/ ~ok \/ cmds[i].acked
    THEN UNCHANGED <<node, snap, cmds>>
    ELSE LET kind == cmds[i].kind IN
         /\ cmds' = [cmds EXCEPT ![i].acked = TRUE]
         /\ node' = [node EXCEPT !.lifecycle = LifecycleAfter(kind),
                                 !.admitted = @ /\ LifecycleAfter(kind) = node.lifecycle,
                                 !.status = IF kind = "UNINSTALL_NODE" /\ node.lifecycle = "disconnecting"
                                            THEN "revoked" ELSE @]
         /\ snap' = IF kind = "UNINSTALL_NODE" THEN NoSnapshot ELSE snap

\* An acknowledgement the agent no longer waits for is executed after all.
LateAck(a) ==
    /\ a \in wire
    /\ wire' = wire \ {a}
    /\ Acknowledge(a.id, a.ok)
    /\ UNCHANGED <<user, disk, agent, worker, plane, login, spent>>

-----------------------------------------------------------------------------
(* The agent: one control cycle.                                            *)

At(pc) == agent.pc = pc
Goto(pc) == agent' = [agent EXCEPT !.pc = pc]

\* The command at hand is left; the next one of the cycle follows.
Left == [agent EXCEPT !.pc = "take", !.cur = NoCommand, !.wait = {}, !.seen = "nothing"]

\* What the servers counted goes to the spool.  An open session always has traffic.
Counted == plane.tail \/ Open # {}
Collect ==
    /\ disk' = [disk EXCEPT !.spool = @ \/ Counted]
    /\ plane' = [plane EXCEPT !.tail = FALSE]

\* A stopped node only polls; with the servers down there is no snapshot.
Cycle ==
    /\ At("idle")
    /\ IF ~disk.stopped /\ plane.up
       THEN Collect /\ agent' = [agent EXCEPT !.pc = "exchange", !.seen = Seen]
       ELSE Goto("exchange") /\ UNCHANGED <<disk, plane>>
    /\ UNCHANGED <<panelVars, worker, login, wire, spent>>

Reporting == Paired /\ node.lifecycle \in {"active", "draining", "stopping", "disconnecting"}

\* The batches are committed, then the snapshot replaces the last.
Snapshot ==
    IF Reporting /\ agent.seen # "nothing"
    THEN snap' = [empty |-> agent.seen = "empty", fresh |-> TRUE] ELSE UNCHANGED snap

\* A cycle whose snapshot is refused is refused as a whole: its batches stay
\* in the spool, and the agent polls on its own.
SpoolAcked == ~disk.stopped /\ Paired /\ (agent.seen = "nothing" \/ Reporting)

Polling == Paired /\ node.lifecycle # "archived"

\* One control cycle: traffic, snapshot, poll; the request or its answer is lost.
Exchange ==
    /\ At("exchange")
    /\ \/ /\ Snapshot /\ cmds' = (IF Polling THEN Polled ELSE cmds)
          /\ \/ /\ agent' = [agent EXCEPT !.pc = "take", !.todo = IF Polling THEN Delivered ELSE {},
                                        !.seen = "nothing"]
                /\ disk' = [disk EXCEPT !.spool = @ /\ ~SpoolAcked]
                /\ UNCHANGED spent
             \/ agent' = [agent EXCEPT !.pc = "idle", !.seen = "nothing"] /\ UNCHANGED disk /\ Event("lost")
       \/ /\ agent' = [agent EXCEPT !.pc = "idle", !.seen = "nothing"] /\ Event("lost")
          /\ UNCHANGED <<snap, cmds, disk>>
    /\ UNCHANGED <<user, node, worker, plane, login, wire>>

\* Where the execution of a command begins.
FirstStep(i) ==
    IF i \in disk.done THEN "ack"
    ELSE CASE cmds[i].kind = "KICK_USERS" -> "kick"
           [] cmds[i].kind = "START_DATA_PLANE" -> "start"
           [] OTHER -> IF disk.stopped THEN "again" ELSE "waiting"

Take(i) ==
    /\ At("take") /\ i \in agent.todo
    /\ agent' = [agent EXCEPT !.pc = FirstStep(i), !.todo = @ \ {i}, !.cur = i,
                             !.wait = IF FirstStep(i) = "waiting" THEN Flight ELSE {}]
    /\ UNCHANGED <<panelVars, disk, worker, plane, login, wire, spent>>

EndOfCycle ==
    /\ At("take") /\ agent.todo = {} /\ Goto("idle")
    /\ UNCHANGED <<panelVars, disk, worker, plane, login, wire, spent>>

\* A step of the execution raised: the quiet window is forgotten.
Unwatch(a) == [a EXCEPT !.watched = @ \ {agent.cur}, !.quiet[agent.cur] = {}]
Raise == agent' = [Unwatch(agent) EXCEPT !.pc = "nack"]

\* Faulty: a user who is not online cannot be kicked.
KickMutAbsent ==
    /\ At("kick")
    /\ IF plane.up /\ Open # {}
       THEN Goto("look") /\ plane' = [plane EXCEPT !.marked = TRUE]
       ELSE Raise /\ UNCHANGED plane
    /\ UNCHANGED <<panelVars, disk, worker, login, wire, spent>>

\* KICK_USERS: a marker is left if the user is online on a server ...
Kick ==
    /\ At("kick")
    /\ IF plane.up
       THEN Goto("look") /\ plane' = [plane EXCEPT !.marked = @ \/ Open # {}]
       ELSE Raise /\ UNCHANGED plane
    /\ UNCHANGED <<panelVars, disk, worker, login, wire, spent>>

\* Faulty: the first empty list is enough.
KickSettledMutAtOnce == TRUE

\* The logins in flight at the first empty list have ended.
KickSettled == agent.cur \in agent.watched /\ agent.quiet[agent.cur] \cap Flight = {}

\* ... and the command stays unacknowledged until two lists without the user
\* are as far apart as a login may take.
Look ==
    /\ At("look")
    /\ IF ~plane.up THEN Raise
       ELSE IF Open # {} THEN agent' = Unwatch(Left)
       ELSE IF KickSettled THEN agent' = [Unwatch(agent) EXCEPT !.pc = "record"]
       ELSE agent' = [Left EXCEPT !.watched = @ \cup {agent.cur},
                          !.quiet[agent.cur] = IF agent.cur \in agent.watched THEN @ ELSE Flight]
    /\ UNCHANGED <<panelVars, disk, worker, plane, login, wire, spent>>

\* STOP and UNINSTALL: ten seconds for the logins in flight, then rounds of an
\* online list and a collection until both are empty.
Wait ==
    /\ At("waiting") /\ agent.wait \cap Flight = {}
    /\ agent' = [agent EXCEPT !.pc = "online", !.wait = {}]
    /\ UNCHANGED <<panelVars, disk, worker, plane, login, wire, spent>>

MayKick == cmds[agent.cur].kind # "STOP_DATA_PLANE_IF_IDLE"

Online ==
    /\ At("online")
    /\ IF ~plane.up \/ (Open # {} /\ ~MayKick) THEN Raise /\ UNCHANGED plane
       ELSE /\ plane' = [plane EXCEPT !.marked = @ \/ Open # {}]
            /\ agent' = [agent EXCEPT !.pc = "collect", !.seen = Seen]
    /\ UNCHANGED <<panelVars, disk, worker, login, wire, spent>>

Settled == agent.seen = "empty" /\ ~Counted

\* Three quiet rounds are one here; thirty that are not are a failure.
CollectRound ==
    /\ At("collect")
    /\ IF ~plane.up THEN Raise /\ UNCHANGED <<disk, plane>>
       ELSE Collect /\ (Goto(IF Settled THEN "flush" ELSE "online") \/ (~Settled /\ Raise))
    /\ UNCHANGED <<panelVars, worker, login, wire, spent>>

\* Faulty: what was collected is not uploaded before the servers stop.
FlushMutNoUpload ==
    /\ At("flush")
    /\ IF plane.up THEN Collect /\ Goto("halt") /\ UNCHANGED spent
       ELSE Raise /\ UNCHANGED <<disk, plane, spent>>
    /\ UNCHANGED <<panelVars, worker, login, wire>>

\* The last collection; the panel has to have acknowledged all of the spool.
Flush ==
    /\ At("flush")
    /\ \/ ~plane.up /\ Raise /\ UNCHANGED <<disk, plane, spent>>
       \/ /\ plane.up /\ plane' = [plane EXCEPT !.tail = FALSE]
          /\ \/ Paired /\ disk' = [disk EXCEPT !.spool = FALSE] /\ Goto("halt") /\ UNCHANGED spent
             \/ /\ disk' = [disk EXCEPT !.spool = @ \/ Counted] /\ Raise
                /\ Event("lost") \/ (~Paired /\ UNCHANGED spent)
    /\ UNCHANGED <<panelVars, worker, login, wire>>

\* No session outlives the servers, and what they had not handed over is lost.
Down == [up |-> FALSE, marked |-> FALSE, tail |-> FALSE]
Closed == [l \in Login |-> IF login[l].at = "new" THEN login[l] ELSE [login[l] EXCEPT !.at = "over"]]

AfterStop == IF cmds[agent.cur].kind = "UNINSTALL_NODE" THEN "marker" ELSE "record"

\* The units are stopped, with the settlement ("halt") or without ("again"); a
\* systemctl that fails or times out may have stopped them.
Halt ==
    /\ At("halt") \/ At("again")
    /\ \/ /\ plane' = Down /\ login' = Closed
          /\ \/ Goto(IF At("halt") THEN "flag" ELSE AfterStop) /\ UNCHANGED spent
             \/ Raise /\ Event("unit")
       \/ Raise /\ Event("unit") /\ UNCHANGED <<plane, login>>
    /\ UNCHANGED <<panelVars, disk, worker, wire>>

SetStopped ==
    /\ At("flag")
    /\ \/ disk' = [disk EXCEPT !.stopped = TRUE] /\ Goto(AfterStop) /\ UNCHANGED spent
       \/ Raise /\ Event("disk") /\ UNCHANGED disk
    /\ UNCHANGED <<panelVars, worker, plane, login, wire>>

\* Faulty: the worker is started before the command is on disk.
MarkMutWorkerFirst ==
    /\ At("marker")
    /\ worker' = "settle"
    /\ \/ agent' = Left /\ UNCHANGED spent
          /\ disk' = [disk EXCEPT !.marker = agent.cur]
       \/ Raise /\ Event("disk") /\ UNCHANGED disk
    /\ UNCHANGED <<panelVars, plane, login, wire>>

\* UNINSTALL: the command is kept in a file, the worker started, nothing acked.
Mark ==
    /\ At("marker")
    /\ \/ agent' = Left /\ UNCHANGED spent
          /\ disk' = [disk EXCEPT !.marker = agent.cur]
          /\ worker' = IF worker = "off" THEN "settle" ELSE worker
       \/ Raise /\ Event("disk") /\ UNCHANGED <<disk, worker>>
    /\ UNCHANGED <<panelVars, plane, login, wire>>

\* START: the units, then the flag.
Start ==
    /\ At("start")
    /\ \/ /\ plane' = [plane EXCEPT !.up = TRUE]
          /\ (Goto("unflag") /\ UNCHANGED spent) \/ (Raise /\ Event("unit"))
       \/ Raise /\ Event("unit") /\ UNCHANGED plane
    /\ UNCHANGED <<panelVars, disk, worker, login, wire>>

ClearStopped ==
    /\ At("unflag")
    /\ \/ disk' = [disk EXCEPT !.stopped = FALSE] /\ Goto("record") /\ UNCHANGED spent
       \/ Raise /\ Event("disk") /\ UNCHANGED disk
    /\ UNCHANGED <<panelVars, worker, plane, login, wire>>

\* The command is completed, for good, before the panel hears of it.
RecordDone ==
    /\ At("record")
    /\ disk' = [disk EXCEPT !.done = @ \cup {agent.cur}]
    /\ Goto("ack")
    /\ UNCHANGED <<panelVars, worker, plane, login, wire, spent>>

\* The acknowledgement is executed, lost, or executed later.
Ack ==
    /\ At("ack") \/ At("nack")
    /\ agent' = Left
    /\ \/ Acknowledge(agent.cur, At("ack")) /\ UNCHANGED <<wire, spent>>
       \/ Event("lost") /\ UNCHANGED <<node, snap, cmds, wire>>
       \/ /\ Event("late") /\ wire' = wire \cup {[id |-> agent.cur, ok |-> At("ack")]}
          /\ UNCHANGED <<node, snap, cmds>>
    /\ UNCHANGED <<user, disk, worker, plane, login>>

-----------------------------------------------------------------------------
(* The node beside the agent.                                               *)

\* Hysteria opens the session, or the client has given up.
Establish(l) ==
    /\ login[l].at = "flight"
    /\ \E at \in {"open", "over"} : login' = [login EXCEPT ![l].at = at]
    /\ UNCHANGED <<panelVars, disk, agent, worker, plane, wire, spent>>

\* A session's next traffic meets the marker of a kick and takes it with it.
Kicked(l) ==
    /\ login[l].at = "open" /\ plane.marked
    /\ plane' = [plane EXCEPT !.marked = FALSE, !.tail = TRUE]
    /\ login' = [login EXCEPT ![l].at = "over"]
    /\ UNCHANGED <<panelVars, disk, agent, worker, wire, spent>>

Leave(l) ==
    /\ login[l].at = "open"
    /\ plane' = [plane EXCEPT !.tail = TRUE]
    /\ login' = [login EXCEPT ![l].at = "over"]
    /\ UNCHANGED <<panelVars, disk, agent, worker, wire, spent>>

\* The control unit dies and systemd starts it again.
Crash ==
    /\ agent.pc \notin {"idle", "dead"} /\ Event("crash")
    /\ agent' = Fresh
    /\ UNCHANGED <<panelVars, disk, worker, plane, login, wire>>

\* The machine restarts: the enabled units with it, stopped or not; the worker
\* is not enabled, and the units it has removed do not come back.
Reboot ==
    /\ Event("reboot") /\ worker # "gone"
    /\ agent' = IF At("dead") THEN [Fresh EXCEPT !.pc = "dead"] ELSE Fresh
    /\ worker' = "off"
    /\ plane' = [Down EXCEPT !.up = ~At("dead")]
    /\ login' = Closed
    /\ UNCHANGED <<panelVars, disk, wire>>

\* With nothing left to settle, the worker stops and removes the units, the
\* agent's too; it tries again after half a minute until it can.
Remove ==
    /\ worker = "settle" /\ ~Counted /\ ~disk.spool
    /\ worker' = "ack"
    /\ agent' = [Fresh EXCEPT !.pc = "dead"]
    /\ plane' = Down /\ login' = Closed
    /\ UNCHANGED <<panelVars, disk, wire, spent>>

\* The signed receipt, repeated until it is answered; then nothing is left.
Confirm ==
    /\ worker = "ack"
    /\ Acknowledge(disk.marker, TRUE)
    /\ worker' = "gone"
    /\ UNCHANGED <<user, disk, agent, plane, login, wire, spent>>

-----------------------------------------------------------------------------
AgentStep ==
    \/ Cycle \/ Exchange \/ (\E i \in Ids : Take(i)) \/ EndOfCycle
    \/ Kick \/ Look \/ Wait \/ Online \/ CollectRound \/ Flush \/ Halt \/ SetStopped
    \/ Mark \/ Start \/ ClearStopped \/ RecordDone \/ Ack

WorkerStep == Remove \/ Confirm

PanelStep ==
    \/ Revoke \/ Reset \/ KickOwed \/ Expire \/ Exhaust \/ PanelFails
    \/ Drain \/ Stop \/ EmergencyStop \/ Resume \/ Archive \/ Disconnect \/ Delete
    \/ ConfirmDns \/ Budget \/ Reconcile \/ GrowOld \/ Heartbeat
    \/ (\E a \in wire : LateAck(a))

SessionStep == \E l \in Login : Approve(l) \/ Establish(l) \/ Kicked(l) \/ Leave(l)

Next == AgentStep \/ WorkerStep \/ PanelStep \/ SessionStep \/ Crash \/ Reboot

Spec == Init /\ [][Next]_vars

\* The control loop and the worker go on, a login in flight ends, a
\* request that owes a kick queues it, and a marked session has some traffic.
Fairness ==
    /\ WF_vars(AgentStep) /\ WF_vars(WorkerStep) /\ WF_vars(KickOwed)
    /\ \A l \in Login : WF_vars(Establish(l)) /\ WF_vars(Kicked(l))
FairSpec == Spec /\ Fairness

-----------------------------------------------------------------------------
(* Properties.                                                             *)

TypeOK ==
    /\ user \in [cred : Nat, generation : Nat, over : BOOLEAN, owed : BOOLEAN, told : Nat]
    /\ node \in [status : {"pending_verification", "revoked"}, lifecycle : Lifecycle,
                  automatic : BOOLEAN, admitted : BOOLEAN, full : BOOLEAN, confirmed : BOOLEAN,
                  idle : {"no", "since", "long"}, beat : BOOLEAN]
    /\ snap \in [empty : BOOLEAN, fresh : BOOLEAN]
    /\ cmds \in Seq(Command) /\ Len(cmds) <= MaxCommands
    /\ disk \in [stopped : BOOLEAN, done : SUBSET Ids, spool : BOOLEAN, marker : Ids \cup {NoCommand}]
    /\ agent.pc \in {"idle", "exchange", "take", "kick", "look", "waiting", "online", "collect",
                     "flush", "halt", "flag", "again", "marker", "start", "unflag", "record",
                     "ack", "nack", "dead"}
    /\ agent.todo \cup agent.watched \subseteq DOMAIN cmds
    /\ agent.cur \in DOMAIN cmds \cup {NoCommand}
    /\ worker \in {"off", "settle", "ack", "gone"}
    /\ worker # "off" => disk.marker \in DOMAIN cmds
    /\ plane \in [up : BOOLEAN, marked : BOOLEAN, tail : BOOLEAN]
    /\ login \in [Login -> [at : {"new", "flight", "open", "over"}, cred : Nat]]
    /\ ~plane.up => Open \cup Flight = {}
    /\ wire \subseteq [id : DOMAIN cmds, ok : BOOLEAN]

\* Where nothing is left to do for a node, no session of the user is left on it
\* that should have ended.  `disconnecting' and `stopping' end them otherwise.
Attended == Paired /\ node.lifecycle \notin {"stopping", "disconnecting"}
Kicks == {i \in Pending : cmds[i].kind = "KICK_USERS"}

\* When the kick of a revoked credential has been acknowledged, no session and
\* no login in flight with that credential is left, and a user over the quota
\* without a pending kick has neither: not after two kicks queued as one, a late
\* or repeated acknowledgement, or a restart of the agent in its quiet window.
RevokedSessionsEnd ==
    Attended =>
        /\ ~KickPending => \A l \in Flight \cup Open : login[l].cred >= user.told
        /\ user.over /\ ~user.owed /\ user.told = user.cred /\ Kicks = {} => Flight \cup Open = {}

\* A node shown as stopped has its servers down or, after a restart of the
\* machine, empty, and knows it is stopped; one that serves knows that.
LifecycleMatchesNode ==
    /\ Paired /\ node.lifecycle \in {"stopped", "archived"} => disk.stopped /\ Open \cup Flight = {}
    /\ Paired /\ node.lifecycle \in {"active", "draining"} => ~disk.stopped

\* Servers are stopped by a command or removed by the worker only when all
\* their traffic is with the panel: nothing in the counters, nothing spooled.
StopLosesNoTraffic ==
    [][plane.up /\ ~plane'.up /\ spent'["reboot"] = spent["reboot"] => ~Counted /\ ~disk.spool]_vars

\* The stop of a full, idle node ends no session and leaves no marker that
\* would, whatever opens between the panel's decision and the stop.
IdleStopDisconnectsNobody ==
    [][agent.cur # NoCommand /\ cmds[agent.cur].kind = "STOP_DATA_PLANE_IF_IDLE"
         /\ agent.pc \in {"online", "halt", "again"} /\ agent' # agent
            => (plane.up /\ ~plane'.up => Open = {}) /\ (plane'.marked => plane.marked)]_vars

\* Crashed, or failed, after the servers went down and before protocol.json says so.
Stranded == ~plane.up /\ ~disk.stopped

\* A command that does not wait for the users to leave is executed and
\* acknowledged, unless the pairing is deleted, the node stranded, or restarted
\* while the worker was removing it.
CommandsEnd ==
    \A i \in Ids :
        i \in Pending /\ cmds[i].kind # "STOP_DATA_PLANE_IF_IDLE"
            ~> i \notin Pending \/ ~Paired \/ Stranded \/ agent.pc = "dead"

\* What docs/specs/2026-08-29-v0.32.0-node-operations.md:96 says of STOP: a
\* failure is retried and the state converges after a restart.
StopConverges ==
    \A i \in Ids : i \in Pending /\ cmds[i].kind = "STOP_DATA_PLANE" ~> i \notin Pending
=============================================================================
