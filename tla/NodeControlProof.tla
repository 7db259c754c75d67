--------------------------- MODULE NodeControlProof ---------------------------
(***************************************************************************)
(* Proofs about NodeControl, for any number of logins, any bound on the      *)
(* commands and any mix of events.                                          *)
(*                                                                         *)
(* The invariant has four layers, each preserved given the ones before it.   *)
(* Placed: where the agent can be with a command of each kind.  Lifecycles:  *)
(* the lifecycle the panel shows, the commands it has queued and the flag of *)
(* a stopped node agree.  Draining: what a stop has achieved by each of its  *)
(* steps.  Kicking: whom a kick under way still has to end.                 *)
(***************************************************************************)
EXTENDS NodeControl, SequenceTheorems, FiniteSetTheorems, TLAPS

-----------------------------------------------------------------------------
(* The inductive invariant.                                                *)

Sessions == Flight \cup Open
IsKick(i) == cmds[i].kind = "KICK_USERS"
IsStop(i) == cmds[i].kind \in Stops
IsStart(i) == cmds[i].kind = "START_DATA_PLANE"
IsRemoval(i) == cmds[i].kind = "UNINSTALL_NODE"

Between == {"idle", "exchange", "take", "dead"}
Draw == {"waiting", "online", "collect", "flush", "halt", "flag", "again"}
AgentType == [pc : Between \cup Draw \cup {"kick", "look", "marker", "start", "unflag", "record", "ack", "nack"},
              todo : SUBSET Ids, cur : Ids \cup {NoCommand}, quiet : [Ids -> SUBSET Login],
              watched : SUBSET Ids, wait : SUBSET Login, seen : {"nothing", "empty", "busy"}]

\* What the agent does is a step of the command at hand, and one it has not completed.
AgentPlaced ==
    LET i == agent.cur IN
    /\ agent.pc \in Between <=> i = NoCommand
    /\ agent.pc \in Draw => IsStop(i) \/ IsRemoval(i)
    /\ agent.pc \in {"kick", "look"} => IsKick(i)
    /\ agent.pc = "marker" => IsRemoval(i)
    /\ agent.pc \in {"start", "unflag"} => IsStart(i)
    /\ agent.pc = "record" => ~IsRemoval(i)
    /\ agent.pc = "ack" => i \in disk.done
    /\ agent.pc \notin Between \cup {"ack", "nack"} => i \notin disk.done

Placed ==
    /\ TypeOK /\ agent \in AgentType /\ AgentPlaced
    /\ disk.done \subseteq DOMAIN cmds /\ \A i \in disk.done : ~IsRemoval(i)
    /\ disk.marker # NoCommand => disk.marker \in DOMAIN cmds /\ IsRemoval(disk.marker)
    /\ worker # "off" => disk.marker # NoCommand
    /\ worker \in {"ack", "gone"} => At("dead")
    /\ At("dead") => ~plane.up
    /\ plane.marked => plane.up
    /\ \A a \in wire : a.ok => a.id \in disk.done

Lifecycles ==
    /\ \A i, j \in Pending : ~IsKick(i) => i = j
    /\ ~Paired => \A i \in Pending : IsRemoval(i)
    /\ Paired => \A i \in Pending : /\ IsStop(i) => node.lifecycle = "stopping"
                                    /\ IsStart(i) => node.lifecycle = "starting"
                                    /\ IsRemoval(i) => node.lifecycle = "disconnecting"
    /\ Paired => \A i \in DOMAIN cmds : ~IsKick(i) /\ cmds[i].acked => i \in disk.done
    /\ \A i \in Pending \cap disk.done : IsStop(i) => disk.stopped
    /\ \A i \in Pending \cap disk.done : IsStart(i) => ~disk.stopped
    /\ Serving => ~disk.stopped
    /\ Paired /\ node.lifecycle \in {"stopped", "archived"} => disk.stopped
    /\ At("again") \/ At("marker") \/ (At("record") /\ IsStop(agent.cur)) => disk.stopped
    /\ At("record") /\ IsStart(agent.cur) => ~disk.stopped

Drained == Sessions = {} /\ ~plane.tail /\ ~disk.spool

Draining ==
    /\ disk.stopped => Drained
    /\ Paired /\ node.lifecycle \in {"stopped", "archived", "starting"} => Sessions = {}
    /\ At("waiting") => Flight \subseteq agent.wait
    /\ agent.pc \in {"online", "collect", "flush"} => Flight = {}
    /\ At("flush") => Open = {} /\ ~plane.tail
    /\ At("halt") \/ At("flag") => Drained

\* A kick that is still wanted.  While there is one, nobody is let in.
Covering(i) == i \in Pending /\ IsKick(i) /\ ~Superseded(i)

Kicking ==
    /\ user.told <= user.cred /\ user.generation \in Nat \ {Security}
    /\ \A i \in DOMAIN cmds : cmds[i].generation <= user.generation
                              /\ (cmds[i].generation = user.generation => user.over)
    /\ \A i \in DOMAIN cmds : Covering(i) =>
          /\ i \in agent.watched => Sessions \subseteq agent.quiet[i]
          /\ i \in disk.done \/ (At("record") /\ agent.cur = i) => Sessions = {}
    /\ Attended /\ ~KickPending => \A l \in Sessions : login[l].cred >= user.told
    /\ Attended /\ user.over /\ user.told = user.cred => Sessions = {} \/ \E i \in DOMAIN cmds : Covering(i)

Inv == Placed /\ Lifecycles /\ Draining /\ Kicking

-----------------------------------------------------------------------------
(* Data.                                                                   *)

UserType == [cred : Nat, generation : Nat, over : BOOLEAN, owed : BOOLEAN, told : Nat]
NodeType == [status : {"pending_verification", "revoked"}, lifecycle : Lifecycle,
             automatic : BOOLEAN, admitted : BOOLEAN, full : BOOLEAN, confirmed : BOOLEAN,
             idle : {"no", "since", "long"}, beat : BOOLEAN]
SnapType == [empty : BOOLEAN, fresh : BOOLEAN]
DiskType == [stopped : BOOLEAN, done : SUBSET Ids, spool : BOOLEAN, marker : Ids \cup {NoCommand}]
PlaneType == [up : BOOLEAN, marked : BOOLEAN, tail : BOOLEAN]
LoginType == [Login -> [at : {"new", "flight", "open", "over"}, cred : Nat]]

LEMMA Types ==
    ASSUME TypeOK
    PROVE  /\ user \in UserType /\ node \in NodeType /\ snap \in SnapType /\ disk \in DiskType
           /\ plane \in PlaneType /\ login \in LoginType
           /\ DOMAIN cmds = 1..Len(cmds) /\ Len(cmds) \in Nat /\ DOMAIN cmds \subseteq Ids
           /\ NoCommand \notin DOMAIN cmds /\ IsFiniteSet(DOMAIN cmds)
           /\ \A i \in DOMAIN cmds : /\ cmds[i] \in Command /\ cmds[i].kind \in Kind
                                     /\ cmds[i].generation \in Nat /\ cmds[i].acked \in BOOLEAN
<1>1. /\ user \in UserType /\ node \in NodeType /\ snap \in SnapType /\ disk \in DiskType
      /\ plane \in PlaneType /\ login \in LoginType /\ cmds \in Seq(Command) /\ Len(cmds) <= MaxCommands
  BY DEF TypeOK, UserType, NodeType, SnapType, DiskType, PlaneType, LoginType
<1>2. DOMAIN cmds = 1..Len(cmds) /\ Len(cmds) \in Nat /\ \A i \in DOMAIN cmds : cmds[i] \in Command
  BY <1>1
<1>3. DOMAIN cmds \subseteq Ids /\ NoCommand \notin DOMAIN cmds
  BY <1>1, <1>2, ConstantsAssumption DEF Ids, NoCommand
<1>4. \A i \in DOMAIN cmds : /\ cmds[i].kind \in Kind
                             /\ cmds[i].generation \in Nat /\ cmds[i].acked \in BOOLEAN
  BY <1>2 DEF Command
<1>5. IsFiniteSet(1..Len(cmds))
  BY <1>2, FS_Interval
<1> QED
  BY <1>1, <1>2, <1>3, <1>4, <1>5

-----------------------------------------------------------------------------
(* The queue of commands.                                                  *)

QueueType == cmds' \in Seq(Command) /\ Len(cmds') <= MaxCommands

\* Commands keep their place, kind and generation; S are acknowledged.
Acks(S) ==
    /\ QueueType /\ DOMAIN cmds' = DOMAIN cmds
    /\ \A i \in DOMAIN cmds : /\ cmds'[i].kind = cmds[i].kind /\ cmds'[i].generation = cmds[i].generation
                              /\ cmds'[i].acked <=> cmds[i].acked \/ i \in S

\* One more command at the end.
Last == Len(cmds) + 1
Grows(kind, generation) ==
    /\ QueueType /\ DOMAIN cmds' = DOMAIN cmds \cup {Last} /\ Last \notin DOMAIN cmds
    /\ \A i \in DOMAIN cmds : cmds'[i] = cmds[i]
    /\ cmds'[Last].kind = kind /\ cmds'[Last].generation = generation /\ cmds'[Last].acked = FALSE

Keeps ==
    /\ QueueType /\ DOMAIN cmds \subseteq DOMAIN cmds'
    /\ \A i \in DOMAIN cmds : /\ cmds'[i].kind = cmds[i].kind /\ cmds'[i].generation = cmds[i].generation
                              /\ cmds[i].acked => cmds'[i].acked

LEMMA AppendGrows ==
    ASSUME TypeOK, NEW kind \in Kind, NEW generation \in Nat,
           cmds' = Append(cmds, NewCommand(kind, generation)), Len(cmds') <= MaxCommands
    PROVE  Grows(kind, generation) /\ Keeps
<1>1. cmds \in Seq(Command) /\ Len(cmds) \in Nat /\ DOMAIN cmds = 1..Len(cmds)
  BY Types DEF TypeOK
<1> DEFINE c == NewCommand(kind, generation)
<1>2. c \in Command /\ c.kind = kind /\ c.generation = generation /\ c.acked = FALSE
  BY DEF NewCommand, Command
<1> HIDE DEF c
<1>3. /\ cmds' \in Seq(Command) /\ Len(cmds') = Len(cmds) + 1
      /\ \A i \in 1..Len(cmds) : cmds'[i] = cmds[i]
      /\ cmds'[Len(cmds) + 1] = c
  BY <1>1, <1>2, AppendProperties DEF c
<1>4. DOMAIN cmds' = 1..Len(cmds')
  BY <1>3
<1>5. Grows(kind, generation)
  BY <1>1, <1>2, <1>3, <1>4 DEF Grows, QueueType, Last
<1> QED
  BY <1>1, <1>5 DEF Grows, Keeps

LEMMA AckForm ==
    ASSUME TypeOK, NEW S,
           cmds' = [i \in DOMAIN cmds |-> [cmds[i] EXCEPT !.acked = @ \/ i \in S]]
    PROVE  Acks(S) /\ Keeps
<1>1. cmds \in Seq(Command) /\ Len(cmds) \in Nat /\ DOMAIN cmds = 1..Len(cmds) /\ Len(cmds) <= MaxCommands
      /\ \A i \in DOMAIN cmds : cmds[i] \in Command
  BY Types DEF TypeOK
<1>2. \A i \in DOMAIN cmds : /\ cmds'[i] \in Command /\ cmds'[i].kind = cmds[i].kind
                             /\ cmds'[i].generation = cmds[i].generation
                             /\ cmds'[i].acked <=> cmds[i].acked \/ i \in S
  BY <1>1 DEF Command
<1>3. DOMAIN cmds' = 1..Len(cmds)
  BY <1>1
<1>4. cmds' \in Seq(Command) /\ Len(cmds') = Len(cmds)
  <2> DEFINE n == Len(cmds)
             f == cmds'
  <2>1. n \in Nat /\ f = [i \in 1..n |-> f[i]] /\ \A i \in 1..n : f[i] \in Command
    BY <1>1, <1>2, <1>3
  <2> HIDE DEF n, f
  <2>2. f \in Seq(Command) /\ Len(f) = n
    BY <2>1, SeqDef
  <2> QED
    BY <2>2 DEF f, n
<1>5. Acks(S)
  BY <1>1, <1>2, <1>3, <1>4 DEF Acks, QueueType
<1> QED
  BY <1>5 DEF Acks, Keeps

LEMMA AckOne ==
    ASSUME TypeOK, NEW i \in DOMAIN cmds, cmds' = [cmds EXCEPT ![i].acked = TRUE]
    PROVE  Acks({i}) /\ Keeps
<1>1. \A j \in DOMAIN cmds : cmds[j] \in Command
  BY Types
<1>2. cmds' = [j \in DOMAIN cmds |-> [cmds[j] EXCEPT !.acked = @ \/ j \in {i}]]
  BY <1>1 DEF Command
<1> QED
  BY <1>2, AckForm

LEMMA SameQueue ==
    ASSUME TypeOK, cmds' = cmds
    PROVE  Acks({}) /\ Keeps
BY Types DEF TypeOK, Acks, Keeps, QueueType

-----------------------------------------------------------------------------
(* What an acknowledgement does.                                           *)

LEMMA LifecycleAfterIs ==
    ASSUME TypeOK, NEW i \in DOMAIN cmds
    PROVE  LET after == LifecycleAfter(cmds[i].kind) IN
           /\ after \in Lifecycle
           /\ IsStop(i) /\ node.lifecycle = "stopping" => after = "stopped"
           /\ IsStart(i) /\ node.lifecycle = "starting" => after = "active"
           /\ IsRemoval(i) /\ node.lifecycle = "disconnecting" => after = "archived"
           /\ \/ IsStop(i) /\ node.lifecycle = "stopping"
              \/ IsStart(i) /\ node.lifecycle = "starting"
              \/ IsRemoval(i) /\ node.lifecycle = "disconnecting"
              \/ after = node.lifecycle
<1>1. node.lifecycle \in Lifecycle /\ cmds[i].kind \in Kind
  BY Types DEF NodeType
<1>2. CASE IsStop(i) /\ node.lifecycle = "stopping"
  BY <1>2 DEF LifecycleAfter, IsStop, IsStart, IsRemoval, Stops, Lifecycle
<1>3. CASE IsStart(i) /\ node.lifecycle = "starting"
  BY <1>3 DEF LifecycleAfter, IsStop, IsStart, IsRemoval, Stops, Lifecycle
<1>4. CASE IsRemoval(i) /\ node.lifecycle = "disconnecting"
  BY <1>4 DEF LifecycleAfter, IsStop, IsStart, IsRemoval, Stops, Lifecycle
<1>5. CASE /\ ~(IsStop(i) /\ node.lifecycle = "stopping") /\ ~(IsStart(i) /\ node.lifecycle = "starting")
           /\ ~(IsRemoval(i) /\ node.lifecycle = "disconnecting")
  BY <1>1, <1>5 DEF LifecycleAfter, IsStop, IsStart, IsRemoval
<1> QED
  BY <1>2, <1>3, <1>4, <1>5

\* The first successful acknowledgement of command i.
Completes(i) ==
    /\ ~cmds[i].acked /\ Acks({i}) /\ (Paired \/ IsRemoval(i))
    /\ node'.lifecycle = LifecycleAfter(cmds[i].kind)
    /\ node'.status = IF IsRemoval(i) /\ node.lifecycle = "disconnecting" THEN "revoked" ELSE node.status

LEMMA AcknowledgeIs ==
    ASSUME TypeOK, NEW i \in DOMAIN cmds, NEW ok \in BOOLEAN, Acknowledge(i, ok)
    PROVE  /\ node' \in NodeType /\ snap' \in SnapType /\ Keeps
           /\ UNCHANGED <<node, cmds>> \/ (ok /\ Completes(i))
<1>1. node \in NodeType /\ snap \in SnapType
  BY Types
<1>2. CASE ~AckAccepted(i, ok) \/ ~ok \/ cmds[i].acked
  BY <1>1, <1>2, SameQueue DEF Acknowledge
<1>3. CASE AckAccepted(i, ok) /\ ok /\ ~cmds[i].acked
  <2> DEFINE after == LifecycleAfter(cmds[i].kind)
             revoked == cmds[i].kind = "UNINSTALL_NODE" /\ node.lifecycle = "disconnecting"
  <2>1. /\ cmds' = [cmds EXCEPT ![i].acked = TRUE]
        /\ node' = [node EXCEPT !.lifecycle = after,
                                !.admitted = @ /\ after = node.lifecycle,
                                !.status = IF revoked THEN "revoked" ELSE @]
        /\ snap' = IF cmds[i].kind = "UNINSTALL_NODE" THEN NoSnapshot ELSE snap
    BY <1>3 DEF Acknowledge
  <2>2. Acks({i}) /\ Keeps
    BY <2>1, AckOne
  <2>3. after \in Lifecycle
    BY LifecycleAfterIs
  <2>4. snap' \in SnapType
    BY <1>1, <2>1 DEF NoSnapshot, SnapType
  <2> HIDE DEF after
  <2>5. /\ node' \in NodeType /\ node'.lifecycle = after
        /\ node'.status = IF revoked THEN "revoked" ELSE node.status
    BY <1>1, <2>1, <2>3 DEF NodeType
  <2>6. Paired \/ IsRemoval(i)
    BY <1>3 DEF AckAccepted, IsRemoval
  <2> QED
    BY <1>3, <2>2, <2>4, <2>5, <2>6 DEF Completes, IsRemoval, after
<1> QED
  BY <1>2, <1>3

-----------------------------------------------------------------------------
(* The first layer: types, and where the agent can be.                      *)

\* Commands are the same commands after a step of the queue.
LEMMA KindsStay ==
    ASSUME Keeps
    PROVE  \A i \in DOMAIN cmds : /\ i \in DOMAIN cmds' /\ (IsKick(i)' <=> IsKick(i))
                                  /\ (IsStop(i)' <=> IsStop(i)) /\ (IsStart(i)' <=> IsStart(i))
                                  /\ (IsRemoval(i)' <=> IsRemoval(i))
BY DEF Keeps, IsKick, IsStop, IsStart, IsRemoval

LEMMA PlacedFacts ==
    ASSUME Placed
    PROVE  /\ TypeOK /\ agent \in AgentType /\ AgentPlaced
           /\ agent.todo \subseteq DOMAIN cmds /\ agent.watched \subseteq DOMAIN cmds
           /\ agent.cur \in DOMAIN cmds \cup {NoCommand}
           /\ agent.pc \notin Between => agent.cur \in DOMAIN cmds
           /\ ~At("dead") => worker \in {"off", "settle"}
<1>1. TypeOK /\ agent \in AgentType /\ AgentPlaced
  BY DEF Placed
<1>2. /\ agent.todo \subseteq DOMAIN cmds /\ agent.watched \subseteq DOMAIN cmds
      /\ agent.cur \in DOMAIN cmds \cup {NoCommand} /\ worker \in {"off", "settle", "ack", "gone"}
  BY <1>1 DEF TypeOK
<1> QED
  BY <1>1, <1>2 DEF Placed, AgentPlaced

\* Steps of the panel, of the network and of the users.
LEMMA PlacedElsewhere ==
    ASSUME Placed, UNCHANGED <<disk, agent, worker, plane>>, Keeps,
           user' \in UserType, node' \in NodeType, snap' \in SnapType, wire' \subseteq wire,
           login' \in LoginType, ~plane.up => (Open \cup Flight = {})'
    PROVE  Placed'
<1>1. TypeOK /\ agent \in AgentType /\ AgentPlaced /\ NoCommand \notin DOMAIN cmds
      /\ agent.cur \in DOMAIN cmds \cup {NoCommand}
  BY PlacedFacts, Types
<1>2. cmds' \in Seq(Command) /\ Len(cmds') <= MaxCommands /\ DOMAIN cmds \subseteq DOMAIN cmds'
  BY DEF Keeps, QueueType
<1>3. TypeOK'
  BY <1>1, <1>2 DEF TypeOK, UserType, NodeType, SnapType, LoginType
<1>4. AgentPlaced'
  BY <1>1, KindsStay DEF AgentPlaced, Between, Draw, NoCommand
<1>5. /\ disk'.done \subseteq DOMAIN cmds' /\ \A i \in disk'.done : ~IsRemoval(i)'
      /\ disk'.marker # NoCommand => disk'.marker \in DOMAIN cmds' /\ IsRemoval(disk.marker)'
  BY <1>2, KindsStay DEF Placed
<1> QED
  BY <1>1, <1>3, <1>4, <1>5 DEF Placed, At, IsRemoval

LEMMA SameLogins ==
    ASSUME TypeOK, UNCHANGED <<login, plane>>
    PROVE  login' \in LoginType /\ (~plane.up => (Open \cup Flight = {})') /\ Sessions' = Sessions
BY Types DEF TypeOK, Open, Flight, Sessions

LEMMA QueueKickKeeps ==
    ASSUME TypeOK, NEW g \in Nat, cmds' = QueueKick(cmds, g), Len(cmds') <= MaxCommands
    PROVE  /\ Keeps
           /\ \/ cmds' = cmds /\ (Serving => \E i \in Pending : IsKick(i) /\ cmds[i].generation = g)
              \/ Serving /\ Grows("KICK_USERS", g)
<1>1. CASE ~Serving \/ \E i \in Pending : cmds[i].kind = "KICK_USERS" /\ cmds[i].generation = g
  BY <1>1, SameQueue DEF QueueKick, IsKick
<1>2. CASE Serving /\ cmds' = Append(cmds, NewCommand("KICK_USERS", g))
  BY <1>2, AppendGrows DEF Kind
<1> QED
  BY <1>1, <1>2 DEF QueueKick

LEMMA PlacedUser ==
    ASSUME Placed, Revoke \/ Reset \/ KickOwed \/ Expire \/ Exhaust \/ PanelFails
    PROVE  Placed'
<1>1. TypeOK /\ user \in UserType /\ node \in NodeType /\ snap \in SnapType /\ Security \in Nat
      /\ user.generation \in Nat
  BY PlacedFacts, Types DEF Security, UserType
<1>2. UNCHANGED <<disk, agent, worker, plane, login, wire, node>>
  BY DEF Revoke, Reset, KickOwed, Expire, Exhaust, PanelFails, nodeVars
<1>3. Keeps
  BY <1>1, QueueKickKeeps, SameQueue DEF Revoke, Reset, KickOwed, Expire, Exhaust, PanelFails
<1>4. snap' \in SnapType
  <2>1. snap' = snap \/ snap' = NoSnapshot
    BY DEF Revoke, Reset, KickOwed, Expire, Exhaust, PanelFails
  <2>2. snap \in SnapType /\ NoSnapshot \in SnapType
    BY <1>1 DEF NoSnapshot, SnapType
  <2> QED
    BY <2>1, <2>2
<1>5. user' \in UserType
  <2>1. \/ user' = [user EXCEPT !.cred = @ + 1, !.generation = @ + 1, !.owed = TRUE]
        \/ user' = [user EXCEPT !.over = FALSE, !.generation = @ + 1, !.owed = TRUE]
        \/ user' = [user EXCEPT !.owed = FALSE, !.told = user.cred]
        \/ user' = [user EXCEPT !.cred = @ + 1, !.generation = @ + 1, !.told = user.cred + 1]
        \/ user' = [user EXCEPT !.over = TRUE]
        \/ user' = [user EXCEPT !.owed = FALSE]
    BY DEF Revoke, Reset, KickOwed, Expire, Exhaust, PanelFails
  <2>2. user \in UserType /\ user.cred + 1 \in Nat /\ user.generation + 1 \in Nat /\ user.cred \in Nat
    <3>1. user \in UserType
      BY <1>1
    <3> QED
      BY <3>1 DEF UserType
  <2>3. \A c, g \in Nat : [user EXCEPT !.cred = c, !.generation = g, !.owed = TRUE] \in UserType
    BY <2>2 DEF UserType
  <2>4. \A g \in Nat : [user EXCEPT !.over = FALSE, !.generation = g, !.owed = TRUE] \in UserType
    BY <2>2 DEF UserType
  <2>5. \A c \in Nat : [user EXCEPT !.owed = FALSE, !.told = c] \in UserType
    BY <2>2 DEF UserType
  <2>6. \A c, g \in Nat : [user EXCEPT !.cred = c, !.generation = g, !.told = c] \in UserType
    BY <2>2 DEF UserType
  <2>7. [user EXCEPT !.over = TRUE] \in UserType /\ [user EXCEPT !.owed = FALSE] \in UserType
    BY <2>2 DEF UserType
  <2> QED
    BY <2>1, <2>2, <2>3, <2>4, <2>5, <2>6, <2>7
<1> QED
  BY <1>1, <1>2, <1>3, <1>4, <1>5, PlacedElsewhere, SameLogins

-----------------------------------------------------------------------------
(* What the panel does to the node record and the queue.                    *)

NodeMoves(lifecycle) ==
    node' \in NodeType /\ node'.status = node.status /\ node'.lifecycle = lifecycle

\* A move of the lifecycle, and one that queues a command with nothing pending.
Shifts(from, to) == Paired /\ node.lifecycle \in from /\ NodeMoves(to)
Orders(kind, from, to) == Shifts(from, to) /\ Pending = {} /\ Grows(kind, Security) /\ Keeps

InService == {"active", "draining"}

LEMMA MoveIs ==
    ASSUME TypeOK, NEW lifecycle \in Lifecycle, Move(lifecycle)
    PROVE  NodeMoves(lifecycle)
<1>1. node \in NodeType
  BY Types
<1> QED
  BY <1>1 DEF Move, NodeMoves, NodeType

LEMMA OrderIs ==
    ASSUME TypeOK, NEW kind \in Kind, NEW from, NEW to \in Lifecycle, NodeMoves(to),
           Paired, node.lifecycle \in from, NewLifecycleCommand(kind)
    PROVE  Orders(kind, from, to)
<1>1. cmds \in Seq(Command) /\ NewCommand(kind, Security) \in Command /\ Security \in Nat
  BY DEF TypeOK, NewCommand, Command, Security
<1>2. Len(cmds') <= MaxCommands
  <2>1. Len(cmds') = Len(cmds) + 1
    BY <1>1, AppendProperties DEF NewLifecycleCommand
  <2>2. Len(cmds) \in Nat /\ MaxCommands \in Nat /\ Len(cmds) < MaxCommands
    BY <1>1, ConstantsAssumption DEF NewLifecycleCommand
  <2> QED
    BY <2>1, <2>2
<1> QED
  BY <1>1, <1>2, AppendGrows DEF NewLifecycleCommand, Orders, Shifts

PanelMove ==
    \/ NodeMoves(node.lifecycle) /\ UNCHANGED cmds
    \/ \E to \in InService : Shifts(InService, to) /\ UNCHANGED cmds
    \/ Shifts({"stopped"}, "archived") /\ UNCHANGED cmds
    \/ \E kind \in Stops : Orders(kind, InService, "stopping")
    \/ Orders("START_DATA_PLANE", {"stopped"}, "starting")
    \/ Orders("UNINSTALL_NODE", InService, "disconnecting")
    \/ /\ Paired /\ node' \in NodeType /\ node'.status = "revoked"
       /\ Acks({i \in DOMAIN cmds : ~IsRemoval(i)}) /\ Keeps

LEMMA ReconcileIs ==
    ASSUME TypeOK, Reconcile
    PROVE  PanelMove
<1>1. node \in NodeType /\ Serving /\ Paired /\ node.lifecycle \in InService
  BY Types DEF Reconcile, Serving, InService
<1>2. IdleNext \subseteq {"no", "since", "long"}
  BY DEF IdleNext
<1>3. CASE node' = [node EXCEPT !.lifecycle = "active", !.automatic = FALSE,
                                !.confirmed = FALSE, !.idle = "no"] /\ UNCHANGED cmds
  <2>1. NodeMoves("active")
    BY <1>1, <1>3 DEF NodeMoves, NodeType, Lifecycle
  <2> QED
    BY <1>1, <1>3, <2>1 DEF PanelMove, Shifts, InService
<1>4. CASE node' = [node EXCEPT !.lifecycle = "draining", !.automatic = TRUE,
                                !.confirmed = FALSE, !.idle = "no"] /\ UNCHANGED cmds
  <2>1. NodeMoves("draining")
    BY <1>1, <1>4 DEF NodeMoves, NodeType, Lifecycle
  <2> QED
    BY <1>1, <1>4, <2>1 DEF PanelMove, Shifts, InService
<1>5. ASSUME NEW idle \in IdleNext, node' = [node EXCEPT !.idle = idle], UNCHANGED cmds
      PROVE  PanelMove
  <2>1. NodeMoves(node.lifecycle)
    BY <1>1, <1>2, <1>5 DEF NodeMoves, NodeType
  <2> QED
    BY <1>5, <2>1 DEF PanelMove
<1>6. ASSUME NEW idle \in IdleNext, node' = [node EXCEPT !.idle = idle, !.lifecycle = "stopping"],
             NewLifecycleCommand("STOP_DATA_PLANE_IF_IDLE")
      PROVE  PanelMove
  <2>1. NodeMoves("stopping")
    BY <1>1, <1>2, <1>6 DEF NodeMoves, NodeType, Lifecycle
  <2>2. Orders("STOP_DATA_PLANE_IF_IDLE", InService, "stopping")
    BY <1>1, <1>6, <2>1, OrderIs DEF Kind, Stops, Lifecycle
  <2> QED
    BY <2>2 DEF PanelMove, Stops
<1> QED
  BY <1>3, <1>4, <1>5, <1>6 DEF Reconcile

NodeAction ==
    \/ Drain \/ Stop \/ EmergencyStop \/ Resume \/ Archive \/ Disconnect \/ Delete
    \/ ConfirmDns \/ Budget \/ Reconcile \/ GrowOld \/ Heartbeat

LEMMA NodeActionIs ==
    ASSUME TypeOK, NodeAction
    PROVE  PanelMove /\ snap' \in SnapType /\ UNCHANGED <<user, disk, agent, worker, plane, login, wire>>
<1>1. node \in NodeType /\ snap \in SnapType
  BY Types
<1>2. UNCHANGED <<user, disk, agent, worker, plane, login, wire>>
  BY DEF NodeAction, Drain, Stop, EmergencyStop, Resume, Archive, Disconnect, Delete, ConfirmDns, Budget,
     Reconcile, GrowOld, Heartbeat, nodeVars
<1>3. snap' \in SnapType
  <2>1. snap' \in {snap, NoSnapshot, [snap EXCEPT !.fresh = FALSE]}
    BY DEF NodeAction, Drain, Stop, EmergencyStop, Resume, Archive, Disconnect, Delete, ConfirmDns, Budget,
       Reconcile, GrowOld, Heartbeat
  <2>2. NoSnapshot \in SnapType /\ [snap EXCEPT !.fresh = FALSE] \in SnapType
    BY <1>1 DEF NoSnapshot, SnapType
  <2> QED
    BY <1>1, <2>1, <2>2
<1>4. CASE Drain
  <2>1. NodeMoves("draining")
    BY <1>4, MoveIs DEF Drain, Lifecycle
  <2> QED
    BY <1>2, <1>3, <1>4, <2>1 DEF Drain, PanelMove, Shifts, InService
<1>5. CASE Stop \/ EmergencyStop
  <2>1. NodeMoves("stopping") /\ Paired /\ node.lifecycle \in InService /\ NewLifecycleCommand("STOP_DATA_PLANE")
    BY <1>5, MoveIs DEF Stop, EmergencyStop, Serving, InService, Lifecycle
  <2>2. Orders("STOP_DATA_PLANE", InService, "stopping")
    BY <2>1, OrderIs DEF Kind, Stops, Lifecycle
  <2> QED
    BY <1>2, <1>3, <2>2 DEF PanelMove, Stops
<1>6. CASE Resume
  <2>1. NodeMoves("starting")
    BY <1>6, MoveIs DEF Resume, Lifecycle
  <2>2. Orders("START_DATA_PLANE", {"stopped"}, "starting")
    BY <1>6, <2>1, OrderIs DEF Resume, Kind, Lifecycle
  <2> QED
    BY <1>2, <1>3, <2>2 DEF PanelMove
<1>7. CASE Archive
  <2>1. NodeMoves("archived")
    BY <1>7, MoveIs DEF Archive, Lifecycle
  <2> QED
    BY <1>2, <1>3, <1>7, <2>1 DEF Archive, PanelMove, Shifts
<1>8. CASE Disconnect
  <2>1. NodeMoves("disconnecting")
    BY <1>8, MoveIs DEF Disconnect, Lifecycle
  <2>2. Orders("UNINSTALL_NODE", InService, "disconnecting")
    BY <1>8, <2>1, OrderIs DEF Disconnect, Serving, InService, Kind, Lifecycle
  <2> QED
    BY <1>2, <1>3, <2>2 DEF PanelMove
<1>9. CASE Delete
  <2>1. node' \in NodeType /\ node'.status = "revoked"
    BY <1>1, <1>9 DEF Delete, NodeType, Lifecycle
  <2> DEFINE S == {i \in DOMAIN cmds : ~IsRemoval(i)}
  <2>2. \A i \in DOMAIN cmds : cmds[i] \in Command
    BY Types
  <2>3. \A i \in DOMAIN cmds :
          (IF cmds[i].kind = "UNINSTALL_NODE" THEN cmds[i] ELSE [cmds[i] EXCEPT !.acked = TRUE])
            = [cmds[i] EXCEPT !.acked = @ \/ i \in S]
    <3> SUFFICES ASSUME NEW i \in DOMAIN cmds
                 PROVE  (IF cmds[i].kind = "UNINSTALL_NODE" THEN cmds[i] ELSE [cmds[i] EXCEPT !.acked = TRUE])
                          = [cmds[i] EXCEPT !.acked = @ \/ i \in S]
      OBVIOUS
    <3>1. cmds[i] \in Command
      BY <2>2
    <3>2. CASE IsRemoval(i)
      <4>1. i \notin S
        BY <3>2
      <4> HIDE DEF S
      <4> QED
        BY <3>1, <3>2, <4>1 DEF IsRemoval, Command
    <3>3. CASE ~IsRemoval(i)
      <4>1. i \in S
        BY <3>3
      <4> HIDE DEF S
      <4> QED
        BY <3>1, <3>3, <4>1 DEF IsRemoval, Command
    <3> QED
      BY <3>2, <3>3
  <2>4. cmds' = [i \in DOMAIN cmds |-> [cmds[i] EXCEPT !.acked = @ \/ i \in S]]
    BY <1>9, <2>3 DEF Delete
  <2>5. Acks(S) /\ Keeps
    BY <2>4, AckForm
  <2> QED
    BY <1>2, <1>3, <1>9, <2>1, <2>5 DEF Delete, PanelMove
<1>10. CASE ConfirmDns \/ Budget \/ GrowOld \/ Heartbeat
  <2>1. /\ cmds' = cmds
        /\ \/ node' = [node EXCEPT !.confirmed = TRUE, !.idle = "no"]
           \/ node' = [node EXCEPT !.full = ~@]
           \/ node' = [node EXCEPT !.beat = FALSE]
           \/ node' = [node EXCEPT !.beat = TRUE]
           \/ node' = node
    BY <1>10 DEF ConfirmDns, Budget, GrowOld, Heartbeat
  <2>2. NodeMoves(node.lifecycle)
    BY <1>1, <2>1 DEF NodeMoves, NodeType
  <2> QED
    BY <1>2, <1>3, <2>1, <2>2 DEF PanelMove
<1>11. CASE Reconcile
  BY <1>2, <1>3, <1>11, ReconcileIs
<1> QED
  BY <1>4, <1>5, <1>6, <1>7, <1>8, <1>9, <1>10, <1>11 DEF NodeAction

LEMMA PlacedNode ==
    ASSUME Placed, NodeAction
    PROVE  Placed'
<1>1. TypeOK /\ user \in UserType
  BY PlacedFacts, Types
<1>2. PanelMove /\ snap' \in SnapType /\ UNCHANGED <<user, disk, agent, worker, plane, login, wire>>
  BY <1>1, NodeActionIs
<1>3. node' \in NodeType /\ Keeps
  BY <1>1, <1>2, SameQueue DEF PanelMove, NodeMoves, Shifts, Orders
<1> QED
  BY <1>1, <1>2, <1>3, PlacedElsewhere, SameLogins

LEMMA PlacedLateAck ==
    ASSUME Placed, NEW a \in wire, LateAck(a)
    PROVE  Placed'
<1>1. TypeOK /\ user \in UserType /\ a.id \in DOMAIN cmds /\ a.ok \in BOOLEAN
  BY PlacedFacts, Types DEF TypeOK
<1>2. /\ wire' \subseteq wire /\ Acknowledge(a.id, a.ok)
      /\ UNCHANGED <<user, disk, agent, worker, plane, login>>
  BY DEF LateAck
<1>3. node' \in NodeType /\ snap' \in SnapType /\ Keeps
  BY <1>1, <1>2, AcknowledgeIs
<1> QED
  BY <1>1, <1>2, <1>3, PlacedElsewhere, SameLogins

\* All the parts of the first layer.
LEMMA PlacedPieces ==
    ASSUME Placed, Keeps,
           user' \in UserType, node' \in NodeType, snap' \in SnapType, login' \in LoginType,
           plane' \in PlaneType, disk' \in DiskType, agent' \in AgentType, AgentPlaced',
           agent'.todo \cup agent'.watched \subseteq DOMAIN cmds',
           agent'.cur \in DOMAIN cmds' \cup {NoCommand},
           \A i \in disk'.done : i \in DOMAIN cmds /\ ~IsRemoval(i),
           disk'.marker # NoCommand => disk'.marker \in DOMAIN cmds /\ IsRemoval(disk.marker)',
           worker' \in {"off", "settle", "ack", "gone"}, worker' # "off" => disk'.marker # NoCommand,
           worker' \in {"ack", "gone"} => At("dead")', At("dead") => At("dead")', At("dead")' => ~plane'.up,
           plane'.marked => plane'.up, ~plane'.up => (Open \cup Flight = {})',
           wire' \subseteq [id : DOMAIN cmds', ok : BOOLEAN], \A a \in wire' : a.ok => a.id \in disk'.done
    PROVE  Placed'
<1>1. cmds' \in Seq(Command) /\ Len(cmds') <= MaxCommands /\ DOMAIN cmds \subseteq DOMAIN cmds'
  BY DEF Keeps, QueueType
<1>2. agent'.pc \in Between \cup Draw \cup {"kick", "look", "marker", "start", "unflag", "record", "ack", "nack"}
  BY DEF AgentType
<1>3. TypeOK'
  BY <1>1, <1>2 DEF TypeOK, UserType, NodeType, SnapType, LoginType, PlaneType, DiskType, Between, Draw
<1>4. /\ disk'.done \subseteq DOMAIN cmds' /\ \A i \in disk'.done : ~IsRemoval(i)'
      /\ disk'.marker # NoCommand => disk'.marker \in DOMAIN cmds' /\ IsRemoval(disk.marker)'
  BY <1>1, KindsStay DEF IsRemoval
<1> QED
  BY <1>1, <1>3, <1>4 DEF Placed, At, IsRemoval

\* Sessions and logins in flight end, with the credential they had.
Fewer ==
    /\ login' \in LoginType /\ Sessions' \subseteq Sessions
    /\ \A l \in Sessions' : login'[l].cred = login[l].cred

LEMMA OneEnds ==
    ASSUME TypeOK, NEW l \in Login, login[l].at \in {"flight", "open"}, NEW at \in {"open", "over"},
           login' = [login EXCEPT ![l].at = at]
    PROVE  Fewer /\ Flight' \subseteq Flight
<1>1. login \in LoginType
  BY Types
<1>2. \A k \in Login : login[k].at \in {"new", "flight", "open", "over"} /\ login[k].cred \in Nat
  BY <1>1 DEF LoginType
<1>3. login' \in LoginType /\ \A k \in Login : /\ login'[k].cred = login[k].cred
                                               /\ login'[k].at = IF k = l THEN at ELSE login[k].at
  BY <1>1, <1>2 DEF LoginType
<1>4. Sessions' \subseteq Sessions /\ Flight' \subseteq Flight
  BY <1>3 DEF Sessions, Open, Flight
<1> QED
  BY <1>3, <1>4 DEF Fewer, Sessions, Open, Flight

\* A session is opened, given up, left or ended by a marker.
SessionEffect ==
    /\ UNCHANGED <<user, node, snap, cmds, disk, agent, worker, wire>> /\ Fewer
    /\ Flight' \subseteq Flight
    /\ plane'.tail => plane.tail \/ Open # {}

LEMMA PlacedSession ==
    ASSUME Placed, NEW l \in Login, Establish(l) \/ Kicked(l) \/ Leave(l)
    PROVE  Placed' /\ SessionEffect
<1>1. TypeOK /\ user \in UserType /\ node \in NodeType /\ snap \in SnapType /\ plane \in PlaneType
  BY PlacedFacts, Types
<1>2. UNCHANGED <<user, node, snap, cmds, disk, agent, worker, wire>>
  BY DEF Establish, Kicked, Leave, panelVars
<1>3. login[l].at \in {"flight", "open"} /\ \E at \in {"open", "over"} : login' = [login EXCEPT ![l].at = at]
  BY DEF Establish, Kicked, Leave
<1>4. Fewer /\ Flight' \subseteq Flight
  BY <1>1, <1>3, OneEnds
<1>5. plane.up
  <2>1. l \in Sessions
    BY <1>3 DEF Sessions, Open, Flight
  <2> QED
    BY <1>1, <2>1 DEF TypeOK, Sessions
<1>6. plane' \in PlaneType /\ plane'.up /\ (plane'.tail => plane.tail \/ Open # {})
  <2>1. CASE plane' = plane
    BY <1>1, <1>5, <2>1
  <2>2. CASE login[l].at = "open" /\ (plane' = [plane EXCEPT !.marked = FALSE, !.tail = TRUE]
                                      \/ plane' = [plane EXCEPT !.tail = TRUE])
    <3>1. plane' \in PlaneType /\ plane'.up
      BY <1>1, <1>5, <2>2 DEF PlaneType
    <3> QED
      BY <2>2, <3>1 DEF Open
  <2> QED
    BY <2>1, <2>2 DEF Establish, Kicked, Leave
<1>7. Keeps /\ AgentPlaced'
  BY <1>1, <1>2, SameQueue, PlacedFacts DEF AgentPlaced, IsStop, IsRemoval, IsKick, IsStart
<1>8. Placed'
  <2>1. login' \in LoginType
    BY <1>4 DEF Fewer
  <2>2. /\ disk \in DiskType /\ agent \in AgentType /\ agent.todo \cup agent.watched \subseteq DOMAIN cmds
        /\ agent.cur \in DOMAIN cmds \cup {NoCommand} /\ worker \in {"off", "settle", "ack", "gone"}
        /\ wire \subseteq [id : DOMAIN cmds, ok : BOOLEAN]
    BY <1>1, Types, PlacedFacts DEF TypeOK
  <2>3. ~At("dead") /\ At("dead")' = At("dead") /\ IsRemoval(disk.marker)' = IsRemoval(disk.marker)
    BY <1>2, <1>5 DEF Placed, At, IsRemoval
  <2>4. /\ \A i \in disk.done : i \in DOMAIN cmds /\ ~IsRemoval(i)
        /\ disk.marker # NoCommand => disk.marker \in DOMAIN cmds /\ IsRemoval(disk.marker)
        /\ worker # "off" => disk.marker # NoCommand
        /\ worker \in {"ack", "gone"} => At("dead")
        /\ \A a \in wire : a.ok => a.id \in disk.done
    BY DEF Placed
  <2> QED
    BY <1>1, <1>2, <1>6, <1>7, <2>1, <2>2, <2>3, <2>4, PlacedPieces
<1> QED
  BY <1>2, <1>4, <1>6, <1>8 DEF SessionEffect

LEMMA PlacedApprove ==
    ASSUME Placed, NEW l \in Login, Approve(l)
    PROVE  /\ Placed' /\ Admits /\ UNCHANGED <<user, node, snap, cmds, disk, agent, worker, plane, wire>>
           /\ Open' = Open /\ Flight' = Flight \cup {l} /\ l \notin Sessions
           /\ login'[l].cred = user.cred /\ \A k \in Login \ {l} : login'[k] = login[k]
<1>1. TypeOK /\ user \in UserType /\ node \in NodeType /\ snap \in SnapType /\ login \in LoginType
  BY PlacedFacts, Types
<1>2. /\ Admits /\ UNCHANGED <<user, node, snap, cmds, disk, agent, worker, plane, wire>>
      /\ plane.up /\ login[l].at = "new" /\ login' = [login EXCEPT ![l] = [at |-> "flight", cred |-> user.cred]]
  BY DEF Approve, panelVars
<1>3. user.cred \in Nat
  BY <1>1 DEF UserType
<1>4. login' \in LoginType /\ login'[l] = [at |-> "flight", cred |-> user.cred]
      /\ \A k \in Login \ {l} : login'[k] = login[k]
  BY <1>1, <1>2, <1>3 DEF LoginType
<1>5. Placed'
  BY <1>1, <1>2, <1>4, SameQueue, PlacedElsewhere
<1>6. \A k \in Login : login'[k].at = IF k = l THEN "flight" ELSE login[k].at
  BY <1>4
<1>7. Open' = Open /\ Flight' = Flight \cup {l} /\ l \notin Sessions
  BY <1>2, <1>6 DEF Open, Flight, Sessions
<1> QED
  BY <1>2, <1>4, <1>5, <1>7

-----------------------------------------------------------------------------
(* The steps of the agent, in terms of the fields they change.              *)

Pcs == Between \cup Draw \cup {"kick", "look", "marker", "start", "unflag", "record", "ack", "nack"}

KeepsWatch == \A j \in agent'.watched : j \in agent.watched /\ agent'.quiet[j] = agent.quiet[j]

\* It goes on with the command at hand, is done with it, or is started anew.
Goes(pc) ==
    /\ agent' \in AgentType /\ agent'.pc = pc /\ agent'.cur = agent.cur /\ agent'.todo = agent.todo
    /\ KeepsWatch
Leaves ==
    /\ agent' \in AgentType /\ agent'.pc = "take" /\ agent'.cur = NoCommand /\ agent'.todo = agent.todo
    /\ KeepsWatch
Restarts(pc) ==
    /\ agent' \in AgentType /\ agent'.pc = pc /\ agent'.cur = NoCommand
    /\ agent'.todo = {} /\ agent'.watched = {}

LEMMA GotoIs ==
    ASSUME agent \in AgentType, NEW pc \in Pcs, Goto(pc)
    PROVE  Goes(pc)
BY DEF Goto, Goes, AgentType, Pcs, KeepsWatch

LEMMA RaiseIs ==
    ASSUME agent \in AgentType, agent.cur \in Ids, Raise
    PROVE  Goes("nack")
<1>1. "nack" \in Pcs
  BY DEF Pcs
<1> DEFINE w == agent.watched \ {agent.cur}
           q == [agent.quiet EXCEPT ![agent.cur] = {}]
<1>2. w \in SUBSET Ids /\ q \in [Ids -> SUBSET Login] /\ \A j \in w : q[j] = agent.quiet[j]
  BY DEF AgentType
<1>3. w \subseteq agent.watched
  OBVIOUS
<1>4. agent' = [agent EXCEPT !.watched = w, !.quiet = q, !.pc = "nack"]
  BY DEF Raise, Unwatch, AgentType
<1> HIDE DEF w, q
<1> QED
  BY <1>1, <1>2, <1>3, <1>4 DEF Goes, AgentType, Pcs, KeepsWatch

LEMMA LeftIs ==
    ASSUME agent \in AgentType, agent' = Left
    PROVE  Leaves
BY DEF Left, Leaves, AgentType, KeepsWatch, Between, NoCommand

LEMMA FreshIs ==
    ASSUME NEW pc \in {"idle", "dead"}, agent' = [Fresh EXCEPT !.pc = pc]
    PROVE  Restarts(pc)
BY DEF Fresh, Restarts, AgentType, Between, NoCommand, Ids

\* The parts of the disk a step leaves alone.
Stores(stopped, spool) ==
    disk' \in DiskType /\ disk'.done = disk.done /\ disk'.marker = disk.marker
    /\ disk'.stopped = stopped /\ disk'.spool = spool

LEMMA CollectIs ==
    ASSUME TypeOK, Collect
    PROVE  /\ Stores(disk.stopped, disk.spool \/ Counted)
           /\ plane' \in PlaneType /\ plane'.up = plane.up /\ plane'.marked = plane.marked /\ plane'.tail = FALSE
<1>1. disk \in DiskType /\ plane \in PlaneType /\ Counted \in BOOLEAN
  BY Types DEF Counted, PlaneType
<1> DEFINE c == Counted
<1>2. c \in BOOLEAN /\ disk' = [disk EXCEPT !.spool = @ \/ c] /\ plane' = [plane EXCEPT !.tail = FALSE]
  BY <1>1 DEF Collect
<1> HIDE DEF c
<1>3. Stores(disk.stopped, disk.spool \/ c)
  BY <1>1, <1>2 DEF Stores, DiskType
<1>4. plane' \in PlaneType /\ plane'.up = plane.up /\ plane'.marked = plane.marked /\ plane'.tail = FALSE
  BY <1>1, <1>2 DEF PlaneType
<1> QED
  BY <1>3, <1>4 DEF c

LEMMA SameDisk ==
    ASSUME TypeOK, disk' = disk
    PROVE  Stores(disk.stopped, disk.spool)
BY Types DEF Stores

\* No session outlives the servers.
LEMMA ClosedIs ==
    ASSUME TypeOK, login' = Closed
    PROVE  Fewer /\ Sessions' = {} /\ Open' = {} /\ Flight' = {}
<1>1. login \in LoginType
  BY Types
<1>2. \A k \in Login : login[k].at \in {"new", "flight", "open", "over"} /\ login[k].cred \in Nat
  BY <1>1 DEF LoginType
<1>3. login' \in LoginType /\ \A k \in Login : login'[k].at \in {"new", "over"}
  BY <1>1, <1>2 DEF LoginType, Closed
<1>4. Open' = {} /\ Flight' = {}
  BY <1>3 DEF Open, Flight
<1> QED
  BY <1>3, <1>4 DEF Sessions, Fewer

-----------------------------------------------------------------------------
(* What the later layers need of a step of the agent or the worker.          *)

\* At most kicks nobody wants any more are dropped from the queue.
Polls == \E S \in SUBSET DOMAIN cmds : Acks(S) /\ \A i \in S : i \in Pending /\ Superseded(i)

\* A kick is newly watched only when nobody is online.
Watch == \A j \in agent'.watched : \/ j \in agent.watched /\ agent'.quiet[j] = agent.quiet[j]
                                   \/ Open = {} /\ agent'.quiet[j] = Flight

Calm ==
    /\ UNCHANGED <<user, node, wire>> /\ Polls /\ Keeps /\ Watch
    /\ Fewer /\ Open' \subseteq Open /\ Flight' \subseteq Flight
    /\ disk'.done = disk.done \/ (At("record") /\ disk'.done = disk.done \cup {agent.cur})

Settles ==
    /\ plane'.tail => plane.tail
    /\ disk'.spool => disk.spool \/ Counted
    /\ \/ disk'.stopped = disk.stopped
       \/ At("flag") /\ disk'.stopped
       \/ At("unflag") /\ ~disk'.stopped

\* The step the agent goes on to, and what is known when it gets there.
Free == Between \cup {"kick", "look", "start", "unflag", "ack", "nack"}
Advances ==
    LET to == agent'.pc
        same == agent'.cur = agent.cur
    IN \/ to \in Free
       \/ to = "waiting" /\ agent'.wait = Flight
       \/ to = "again" /\ disk.stopped /\ At("take")
       \/ to = "online" /\ At("waiting") /\ agent.wait \cap Flight = {}
       \/ to = "online" /\ At("collect")
       \/ to = "collect" /\ At("online")
       \/ to = "flush" /\ At("collect") /\ Open = {} /\ ~plane'.tail
       \/ to = "halt" /\ At("flush") /\ ~plane'.tail /\ ~disk'.spool
       \/ to = "flag" /\ At("halt")
       \/ to \in {"marker", "record"} /\ same /\ At("again")
       \/ to \in {"marker", "record"} /\ same /\ At("flag") /\ disk'.stopped
       \/ to = "record" /\ same /\ At("unflag") /\ ~disk'.stopped
       \/ to = "record" /\ same /\ At("look") /\ agent.cur \in agent.watched
          /\ Open = {} /\ agent.quiet[agent.cur] \cap Flight = {}

AgentEffect == Calm /\ Settles /\ Advances

LEMMA PlacedAgent ==
    ASSUME Placed, ~At("dead"), UNCHANGED <<user, node, cmds, wire>>, snap' \in SnapType,
           agent' \in AgentType, AgentPlaced', agent'.pc # "dead",
           agent'.todo \cup agent'.watched \subseteq DOMAIN cmds, agent'.cur \in DOMAIN cmds \cup {NoCommand},
           login' \in LoginType, plane' \in PlaneType, disk' \in DiskType,
           disk.done \subseteq disk'.done, \A i \in disk'.done \ disk.done : i \in DOMAIN cmds /\ ~IsRemoval(i),
           \/ disk'.marker = disk.marker
           \/ disk'.marker \in DOMAIN cmds /\ cmds[disk'.marker].kind = "UNINSTALL_NODE",
           worker' = worker \/ (worker' = "settle" /\ disk'.marker # NoCommand),
           plane'.marked => plane'.up, ~plane'.up => (Open \cup Flight = {})'
    PROVE  Placed'
<1>1. /\ TypeOK /\ user \in UserType /\ node \in NodeType /\ snap \in SnapType /\ worker \in {"off", "settle"}
      /\ NoCommand \notin DOMAIN cmds
  BY PlacedFacts, Types
<1>2. Keeps
  BY <1>1, SameQueue
<1>3. wire \subseteq [id : DOMAIN cmds, ok : BOOLEAN]
  BY <1>1 DEF TypeOK
<1>4. /\ \A i \in disk.done : i \in DOMAIN cmds /\ ~IsRemoval(i)
      /\ disk.marker # NoCommand => disk.marker \in DOMAIN cmds /\ IsRemoval(disk.marker)
      /\ worker # "off" => disk.marker # NoCommand
      /\ \A a \in wire : a.ok => a.id \in disk.done
  BY DEF Placed
<1>5. \A i \in disk'.done : i \in DOMAIN cmds /\ ~IsRemoval(i)
  BY <1>4
<1>6. disk'.marker # NoCommand => disk'.marker \in DOMAIN cmds' /\ IsRemoval(disk.marker)'
  BY <1>4 DEF IsRemoval
<1>7. ~At("dead")'
  BY DEF At
<1>8. worker' \in {"off", "settle"} /\ (worker' # "off" => disk'.marker # NoCommand)
  <2>1. CASE disk'.marker = disk.marker
    BY <1>1, <1>4, <2>1
  <2>2. CASE disk'.marker \in DOMAIN cmds
    BY <1>1, <1>4, <2>2
  <2> QED
    BY <2>1, <2>2
<1> QED
  BY <1>1, <1>2, <1>3, <1>4, <1>5, <1>6, <1>7, <1>8, PlacedPieces

\* The parts of a state in which only the agent, the disk or the servers change.
LEMMA CalmStep ==
    ASSUME TypeOK, UNCHANGED <<user, node, cmds, wire>>, Watch, plane' \in PlaneType,
           login' = Closed \/ (login' = login /\ (plane.up => plane'.up)),
           disk'.done = disk.done \/ (At("record") /\ disk'.done = disk.done \cup {agent.cur})
    PROVE  Calm /\ login' \in LoginType /\ (~plane'.up => (Open \cup Flight = {})')
<1>1. login \in LoginType /\ plane \in PlaneType
  BY Types
<1>2. Acks({}) /\ Keeps
  BY SameQueue
<1>3. Polls
  BY <1>2 DEF Polls
<1>4. CASE login' = Closed
  <2>1. Fewer /\ Open' = {} /\ Flight' = {}
    BY <1>4, ClosedIs
  <2> QED
    BY <1>2, <1>3, <2>1 DEF Calm, Fewer
<1>5. CASE login' = login /\ (plane.up => plane'.up)
  <2>1. Open' = Open /\ Flight' = Flight /\ Sessions' = Sessions
    BY <1>5 DEF Open, Flight, Sessions
  <2>2. ~plane'.up => Open \cup Flight = {}
    BY <1>1, <1>5 DEF TypeOK, PlaneType
  <2> QED
    BY <1>1, <1>2, <1>3, <1>5, <2>1, <2>2 DEF Calm, Fewer
<1> QED
  BY <1>4, <1>5

\* A step of the execution of a command other than the record of its completion.
LEMMA GoesOn ==
    ASSUME Placed, agent.cur \in DOMAIN cmds, UNCHANGED <<user, node, snap, cmds, worker, wire>>,
           NEW pc \in Pcs \ (Between \cup {"waiting", "kick", "ack"}), Goes(pc),
           disk' \in DiskType, disk'.marker = disk.marker, disk'.done = disk.done,
           plane' \in PlaneType, plane'.marked => plane'.up,
           login' = Closed \/ (login' = login /\ (plane.up => plane'.up)),
           pc # "nack" => agent.cur \notin disk.done,
           pc \in Draw => IsStop(agent.cur) \/ IsRemoval(agent.cur),
           pc = "look" => IsKick(agent.cur), pc = "marker" => IsRemoval(agent.cur),
           pc \in {"start", "unflag"} => IsStart(agent.cur), pc = "record" => ~IsRemoval(agent.cur)
    PROVE  Placed' /\ Calm
<1>1. TypeOK /\ agent \in AgentType /\ NoCommand \notin DOMAIN cmds /\ snap \in SnapType
  BY PlacedFacts, Types
<1>2. ~At("dead") /\ agent.todo \cup agent.watched \subseteq DOMAIN cmds
  BY <1>1, PlacedFacts DEF At, AgentPlaced, Between
<1>3. /\ agent' \in AgentType /\ agent'.pc = pc /\ agent'.cur = agent.cur /\ agent'.todo = agent.todo
      /\ agent'.watched \subseteq agent.watched /\ Watch
  BY DEF Goes, KeepsWatch, Watch
<1>4. AgentPlaced'
  <2>1. pc \notin Between /\ pc # "ack" /\ pc # "kick" /\ agent.cur # NoCommand
    BY <1>1
  <2> QED
    BY <1>3, <2>1 DEF AgentPlaced, IsStop, IsRemoval, IsKick, IsStart
<1>5. Calm /\ login' \in LoginType /\ (~plane'.up => (Open \cup Flight = {})')
  BY <1>1, <1>3, CalmStep
<1>6. agent'.pc # "dead"
  BY <1>3 DEF Between
<1> QED
  BY <1>1, <1>2, <1>3, <1>4, <1>5, <1>6, PlacedAgent

\* The agent leaves the command at hand.
LEMMA LeavesOff ==
    ASSUME Placed, agent.cur \in DOMAIN cmds, UNCHANGED <<user, node, snap, cmds, wire, login, plane>>,
           agent' \in AgentType, agent'.pc = "take", agent'.cur = NoCommand, agent'.todo = agent.todo,
           agent'.watched \subseteq DOMAIN cmds, Watch,
           disk' \in DiskType, disk'.done = disk.done,
           \/ disk'.marker = disk.marker
           \/ disk'.marker \in DOMAIN cmds /\ cmds[disk'.marker].kind = "UNINSTALL_NODE",
           worker' = worker \/ (worker' = "settle" /\ disk'.marker # NoCommand)
    PROVE  Placed' /\ Calm
<1>1. TypeOK /\ agent \in AgentType /\ NoCommand \notin DOMAIN cmds /\ snap \in SnapType /\ plane \in PlaneType
  BY PlacedFacts, Types
<1>2. ~At("dead") /\ agent.todo \cup agent.watched \subseteq DOMAIN cmds
  BY <1>1, PlacedFacts DEF At, AgentPlaced, Between
<1>3. AgentPlaced'
  BY DEF AgentPlaced, Between, Draw
<1>4. Calm /\ login' \in LoginType /\ (~plane'.up => (Open \cup Flight = {})')
  BY <1>1, CalmStep
<1>5. plane'.marked => plane'.up
  BY DEF Placed
<1> QED
  BY <1>1, <1>2, <1>3, <1>4, <1>5, PlacedAgent

\* Where the agent is, the command at hand.
LEMMA AtHand ==
    ASSUME Placed
    PROVE  /\ TypeOK /\ agent \in AgentType /\ disk \in DiskType /\ plane \in PlaneType
           /\ (plane.marked => plane.up)
           /\ agent.pc \in Pcs \ Between => agent.cur \in DOMAIN cmds /\ agent.cur \in Ids
           /\ agent.pc \in Draw => (IsStop(agent.cur) \/ IsRemoval(agent.cur)) /\ ~IsKick(agent.cur)
                                   /\ ~IsStart(agent.cur) /\ agent.cur \notin disk.done
           /\ agent.pc \in {"kick", "look"} => IsKick(agent.cur) /\ agent.cur \notin disk.done
           /\ agent.pc = "marker" => IsRemoval(agent.cur) /\ agent.cur \notin disk.done
           /\ agent.pc \in {"start", "unflag"} => IsStart(agent.cur) /\ agent.cur \notin disk.done
           /\ agent.pc = "record" => ~IsRemoval(agent.cur) /\ agent.cur \notin disk.done
<1>1. TypeOK /\ agent \in AgentType /\ AgentPlaced /\ disk \in DiskType /\ plane \in PlaneType
      /\ DOMAIN cmds \subseteq Ids /\ (plane.marked => plane.up)
  BY PlacedFacts, Types DEF Placed
<1>2. agent.cur \in DOMAIN cmds \cup {NoCommand}
  BY PlacedFacts
<1> QED
  BY <1>1, <1>2 DEF AgentPlaced, Pcs, Between, Draw, IsStop, IsRemoval, IsKick, IsStart, Stops

LEMMA KickStep ==
    ASSUME Placed, Kick
    PROVE  Placed' /\ AgentEffect
<1>1. TypeOK /\ agent \in AgentType /\ plane \in PlaneType /\ (plane.marked => plane.up)
      /\ agent.cur \in DOMAIN cmds /\ agent.cur \in Ids /\ IsKick(agent.cur) /\ agent.cur \notin disk.done
  BY AtHand DEF Kick, At, Pcs, Between
<1>2. UNCHANGED <<user, node, snap, cmds, disk, worker, wire, login>>
  BY DEF Kick, panelVars
<1>3. Stores(disk.stopped, disk.spool)
  BY <1>1, <1>2, SameDisk
<1>4. Goes("look") \/ Goes("nack")
  BY <1>1, GotoIs, RaiseIs DEF Kick, Pcs
<1>5. plane' \in PlaneType /\ plane'.up = plane.up /\ plane'.tail = plane.tail /\ (plane'.marked => plane'.up)
  BY <1>1 DEF Kick, PlaneType
<1>6. Placed' /\ Calm
  BY <1>1, <1>2, <1>3, <1>4, <1>5, GoesOn DEF Stores, Pcs, Between, Draw
<1> QED
  BY <1>3, <1>4, <1>5, <1>6 DEF AgentEffect, Settles, Stores, Advances, Free, Goes

LEMMA OnlineStep ==
    ASSUME Placed, Online
    PROVE  Placed' /\ AgentEffect
<1>1. /\ TypeOK /\ agent \in AgentType /\ plane \in PlaneType /\ (plane.marked => plane.up) /\ At("online")
      /\ agent.cur \in DOMAIN cmds /\ agent.cur \in Ids /\ agent.cur \notin disk.done
      /\ IsStop(agent.cur) \/ IsRemoval(agent.cur)
  BY AtHand DEF Online, At, Pcs, Between, Draw
<1>2. UNCHANGED <<user, node, snap, cmds, disk, worker, wire, login>>
  BY DEF Online, panelVars
<1>3. Stores(disk.stopped, disk.spool)
  BY <1>1, <1>2, SameDisk
<1>4. CASE Raise /\ UNCHANGED plane
  <2>1. Goes("nack")
    BY <1>1, <1>4, RaiseIs
  <2>2. Placed' /\ Calm
    BY <1>1, <1>2, <1>3, <1>4, <2>1, GoesOn DEF Stores, Pcs, Between, Draw
  <2> QED
    BY <1>3, <1>4, <2>1, <2>2 DEF AgentEffect, Settles, Stores, Advances, Free, Goes
<1>5. CASE /\ plane.up /\ plane' = [plane EXCEPT !.marked = @ \/ Open # {}]
           /\ agent' = [agent EXCEPT !.pc = "collect", !.seen = Seen]
  <2>1. Goes("collect")
    BY <1>1, <1>5 DEF Goes, AgentType, Draw, KeepsWatch, Seen
  <2>2. plane' \in PlaneType /\ plane'.up = plane.up /\ plane'.tail = plane.tail
    BY <1>1, <1>5 DEF PlaneType
  <2>3. Placed' /\ Calm
    BY <1>1, <1>2, <1>3, <1>5, <2>1, <2>2, GoesOn DEF Stores, Pcs, Between, Draw
  <2> QED
    BY <1>1, <1>3, <2>1, <2>2, <2>3 DEF AgentEffect, Settles, Stores, Advances, Goes
<1> QED
  BY <1>4, <1>5 DEF Online

LEMMA WaitStep ==
    ASSUME Placed, Wait
    PROVE  Placed' /\ AgentEffect
<1>1. /\ TypeOK /\ agent \in AgentType /\ plane \in PlaneType /\ (plane.marked => plane.up) /\ At("waiting")
      /\ agent.cur \in DOMAIN cmds /\ agent.cur \in Ids /\ agent.cur \notin disk.done
      /\ IsStop(agent.cur) \/ IsRemoval(agent.cur)
  BY AtHand DEF Wait, At, Pcs, Between, Draw
<1>2. UNCHANGED <<user, node, snap, cmds, disk, worker, wire, login, plane>>
  BY DEF Wait, panelVars
<1>3. Stores(disk.stopped, disk.spool)
  BY <1>1, <1>2, SameDisk
<1>4. Goes("online")
  BY <1>1 DEF Wait, Goes, AgentType, Draw, KeepsWatch
<1>5. Placed' /\ Calm
  BY <1>1, <1>2, <1>3, <1>4, GoesOn DEF Stores, Pcs, Between, Draw
<1> QED
  BY <1>1, <1>2, <1>3, <1>4, <1>5 DEF AgentEffect, Settles, Stores, Advances, Goes, Wait

LEMMA CollectStep ==
    ASSUME Placed, CollectRound
    PROVE  Placed' /\ AgentEffect
<1>1. /\ TypeOK /\ agent \in AgentType /\ plane \in PlaneType /\ (plane.marked => plane.up) /\ At("collect")
      /\ agent.cur \in DOMAIN cmds /\ agent.cur \in Ids /\ agent.cur \notin disk.done
      /\ IsStop(agent.cur) \/ IsRemoval(agent.cur)
  BY AtHand DEF CollectRound, At, Pcs, Between, Draw
<1>2. UNCHANGED <<user, node, snap, cmds, worker, wire, login>>
  BY DEF CollectRound, panelVars
<1>3. /\ disk' \in DiskType /\ disk'.done = disk.done /\ disk'.marker = disk.marker
      /\ disk'.stopped = disk.stopped /\ (disk'.spool => disk.spool \/ Counted)
      /\ plane' \in PlaneType /\ plane'.up = plane.up /\ (plane'.marked => plane'.up) /\ (plane'.tail => plane.tail)
  <2>1. CASE UNCHANGED <<disk, plane>>
    BY <1>1, <2>1, SameDisk DEF Stores
  <2>2. CASE Collect
    BY <1>1, <2>2, CollectIs DEF Stores
  <2> QED
    BY <2>1, <2>2 DEF CollectRound
<1>4. \/ Goes("nack") \/ Goes("online")
      \/ Goes("flush") /\ Settled /\ Collect
  <2>1. CASE Goto(IF Settled THEN "flush" ELSE "online") /\ Collect
    BY <1>1, <2>1, GotoIs DEF Pcs, Draw
  <2>2. CASE Raise
    BY <1>1, <2>2, RaiseIs
  <2> QED
    BY <2>1, <2>2 DEF CollectRound
<1>5. Placed' /\ Calm
  BY <1>1, <1>2, <1>3, <1>4, GoesOn DEF Pcs, Between, Draw
<1>6. Advances
  <2>1. CASE Goes("nack") \/ Goes("online")
    BY <1>1, <2>1 DEF Advances, Free, Goes
  <2>2. CASE Goes("flush") /\ Settled /\ Collect
    <3>1. Open = {} /\ ~plane'.tail
      BY <1>1, <2>2, CollectIs DEF Settled, Counted
    <3> QED
      BY <1>1, <2>2, <3>1 DEF Advances, Goes
  <2> QED
    BY <1>4, <2>1, <2>2
<1> QED
  BY <1>3, <1>5, <1>6 DEF AgentEffect, Settles

LEMMA FlushStep ==
    ASSUME Placed, Flush
    PROVE  Placed' /\ AgentEffect
<1>1. /\ TypeOK /\ agent \in AgentType /\ plane \in PlaneType /\ (plane.marked => plane.up) /\ At("flush")
      /\ agent.cur \in DOMAIN cmds /\ agent.cur \in Ids /\ agent.cur \notin disk.done
      /\ IsStop(agent.cur) \/ IsRemoval(agent.cur)
      /\ disk \in DiskType
  BY AtHand DEF Flush, At, Pcs, Between, Draw
<1>2. UNCHANGED <<user, node, snap, cmds, worker, wire, login>>
  BY DEF Flush, panelVars
<1> DEFINE c == Counted
<1>3. c \in BOOLEAN
  BY <1>1 DEF Counted, PlaneType
<1>4. \A b \in BOOLEAN : disk' = [disk EXCEPT !.spool = b] => Stores(disk.stopped, b)
  BY <1>1 DEF DiskType, Stores
<1>5. disk.spool \in BOOLEAN
  BY <1>1 DEF DiskType
<1>6. \/ disk' = disk \/ disk' = [disk EXCEPT !.spool = FALSE] \/ disk' = [disk EXCEPT !.spool = disk.spool \/ c]
  BY <1>1 DEF Flush, DiskType
<1> HIDE DEF c
<1>7. \E b \in BOOLEAN : Stores(disk.stopped, b) /\ (b => disk.spool \/ c)
  <2>1. CASE disk' = disk
    BY <1>1, <1>5, <2>1, SameDisk
  <2>2. CASE disk' = [disk EXCEPT !.spool = FALSE]
    BY <1>4, <2>2
  <2>3. CASE disk' = [disk EXCEPT !.spool = disk.spool \/ c]
    <3>1. disk.spool \/ c \in BOOLEAN
      BY <1>3, <1>5
    <3> QED
      BY <1>4, <2>3, <3>1
  <2> QED
    BY <1>6, <2>1, <2>2, <2>3
<1>8. disk' \in DiskType /\ disk'.done = disk.done /\ disk'.marker = disk.marker
      /\ disk'.stopped = disk.stopped /\ (disk'.spool => disk.spool \/ Counted)
  BY <1>7 DEF Stores, c
<1>9. plane' \in PlaneType /\ plane'.up = plane.up /\ (plane'.marked => plane'.up) /\ (plane'.tail => plane.tail)
  <2>1. plane' = plane \/ plane' = [plane EXCEPT !.tail = FALSE]
    BY DEF Flush
  <2> QED
    BY <1>1, <2>1 DEF PlaneType
<1>10. Goes("nack") \/ (Goes("halt") /\ ~plane'.tail /\ ~disk'.spool)
  <2>1. CASE Raise
    BY <1>1, <2>1, RaiseIs
  <2>2. CASE plane' = [plane EXCEPT !.tail = FALSE] /\ disk' = [disk EXCEPT !.spool = FALSE] /\ Goto("halt")
    <3>1. Goes("halt")
      BY <1>1, <2>2, GotoIs DEF Pcs, Draw
    <3>2. ~plane'.tail /\ ~disk'.spool
      BY <1>1, <2>2 DEF PlaneType, DiskType
    <3> QED
      BY <3>1, <3>2
  <2> QED
    BY <2>1, <2>2 DEF Flush
<1>11. Placed' /\ Calm
  BY <1>1, <1>2, <1>8, <1>9, <1>10, GoesOn DEF Pcs, Between, Draw
<1> QED
  BY <1>1, <1>8, <1>9, <1>10, <1>11 DEF AgentEffect, Settles, Advances, Free, Goes

LEMMA AfterStopIs ==
    ASSUME IsStop(agent.cur) \/ IsRemoval(agent.cur)
    PROVE  /\ AfterStop \in {"marker", "record"}
           /\ AfterStop = "marker" => IsRemoval(agent.cur)
           /\ AfterStop = "record" => ~IsRemoval(agent.cur) /\ IsStop(agent.cur)
BY DEF AfterStop, IsStop, IsRemoval

LEMMA HaltStep ==
    ASSUME Placed, Halt
    PROVE  Placed' /\ AgentEffect
<1>1. /\ TypeOK /\ agent \in AgentType /\ plane \in PlaneType /\ (plane.marked => plane.up)
      /\ agent.cur \in DOMAIN cmds /\ agent.cur \in Ids /\ agent.cur \notin disk.done
      /\ IsStop(agent.cur) \/ IsRemoval(agent.cur)
  BY AtHand DEF Halt, At, Pcs, Between, Draw
<1>2. UNCHANGED <<user, node, snap, cmds, disk, worker, wire>>
  BY DEF Halt, panelVars
<1>3. Stores(disk.stopped, disk.spool)
  BY <1>1, <1>2, SameDisk
<1>4. \/ Goes("nack")
      \/ At("halt") /\ Goes("flag")
      \/ At("again") /\ Goes(AfterStop)
  <2>1. CASE Raise
    BY <1>1, <2>1, RaiseIs
  <2>2. CASE At("halt") /\ Goto("flag")
    BY <1>1, <2>2, GotoIs DEF Pcs, Draw
  <2>3. CASE At("again") /\ Goto(AfterStop)
    BY <1>1, <2>3, GotoIs, AfterStopIs DEF Pcs
  <2> QED
    BY <2>1, <2>2, <2>3 DEF Halt, At
<1>5. /\ plane' \in PlaneType /\ (plane'.marked => plane'.up) /\ (plane'.tail => plane.tail)
      /\ login' = Closed \/ (login' = login /\ (plane.up => plane'.up))
  <2>1. CASE UNCHANGED <<plane, login>>
    BY <1>1, <2>1
  <2>2. CASE plane' = Down /\ login' = Closed
    BY <2>2 DEF Down, PlaneType
  <2> QED
    BY <2>1, <2>2 DEF Halt
<1>6. Placed' /\ Calm
  BY <1>1, <1>2, <1>3, <1>4, <1>5, AfterStopIs, GoesOn DEF Stores, Pcs, Between, Draw
<1>7. Advances
  BY <1>1, <1>4, AfterStopIs DEF Advances, Free, Goes
<1> QED
  BY <1>3, <1>5, <1>6, <1>7 DEF AgentEffect, Settles, Stores

\* The flag of a stopped node is set, or cleared.
LEMMA FlagStep ==
    ASSUME Placed, SetStopped \/ ClearStopped
    PROVE  Placed' /\ AgentEffect
<1>1. /\ TypeOK /\ agent \in AgentType /\ disk \in DiskType /\ plane \in PlaneType /\ (plane.marked => plane.up)
      /\ agent.cur \in DOMAIN cmds /\ agent.cur \in Ids /\ agent.cur \notin disk.done
      /\ At("flag") => IsStop(agent.cur) \/ IsRemoval(agent.cur)
      /\ At("unflag") => IsStart(agent.cur)
  BY AtHand DEF SetStopped, ClearStopped, At, Pcs, Between, Draw
<1>2. UNCHANGED <<user, node, snap, cmds, worker, wire, plane, login>>
  BY DEF SetStopped, ClearStopped, panelVars
<1>3. \/ Goes("nack") /\ disk' = disk
      \/ At("flag") /\ Goes(AfterStop) /\ disk' = [disk EXCEPT !.stopped = TRUE]
      \/ At("unflag") /\ Goes("record") /\ disk' = [disk EXCEPT !.stopped = FALSE]
  <2>1. CASE Raise /\ disk' = disk
    BY <1>1, <2>1, RaiseIs
  <2>2. CASE At("flag") /\ Goto(AfterStop) /\ disk' = [disk EXCEPT !.stopped = TRUE]
    BY <1>1, <2>2, GotoIs, AfterStopIs DEF Pcs
  <2>3. CASE At("unflag") /\ Goto("record") /\ disk' = [disk EXCEPT !.stopped = FALSE]
    BY <1>1, <2>3, GotoIs DEF Pcs
  <2> QED
    BY <2>1, <2>2, <2>3 DEF SetStopped, ClearStopped
<1>4. /\ disk' \in DiskType /\ disk'.done = disk.done /\ disk'.marker = disk.marker /\ disk'.spool = disk.spool
      /\ \/ Goes("nack") /\ disk'.stopped = disk.stopped
         \/ At("flag") /\ Goes(AfterStop) /\ disk'.stopped = TRUE
         \/ At("unflag") /\ Goes("record") /\ disk'.stopped = FALSE
  BY <1>1, <1>3 DEF DiskType
<1>5. IsStart(agent.cur) => ~IsRemoval(agent.cur)
  BY DEF IsStart, IsRemoval
<1>6. Placed' /\ Calm
  <2>1. CASE Goes("nack")
    BY <1>1, <1>2, <1>4, <2>1, GoesOn DEF Pcs, Between, Draw
  <2>2. CASE At("flag") /\ Goes(AfterStop)
    BY <1>1, <1>2, <1>4, <2>2, AfterStopIs, GoesOn DEF Pcs, Between, Draw
  <2>3. CASE At("unflag") /\ Goes("record")
    BY <1>1, <1>2, <1>4, <1>5, <2>3, GoesOn DEF Pcs, Between, Draw
  <2> QED
    BY <1>4, <2>1, <2>2, <2>3
<1>7. Advances
  BY <1>1, <1>4, AfterStopIs DEF Advances, Free, Goes
<1>8. Settles
  BY <1>2, <1>4 DEF Settles
<1> QED
  BY <1>6, <1>7, <1>8 DEF AgentEffect

LEMMA StartStep ==
    ASSUME Placed, Start
    PROVE  Placed' /\ AgentEffect
<1>1. /\ TypeOK /\ agent \in AgentType /\ plane \in PlaneType /\ (plane.marked => plane.up)
      /\ agent.cur \in DOMAIN cmds /\ agent.cur \in Ids /\ agent.cur \notin disk.done /\ IsStart(agent.cur)
  BY AtHand DEF Start, At, Pcs, Between, Draw
<1>2. UNCHANGED <<user, node, snap, cmds, disk, worker, wire, login>>
  BY DEF Start, panelVars
<1>3. Stores(disk.stopped, disk.spool)
  BY <1>1, <1>2, SameDisk
<1>4. Goes("nack") \/ Goes("unflag")
  BY <1>1, GotoIs, RaiseIs DEF Start, Pcs
<1>5. plane' \in PlaneType /\ (plane.up => plane'.up) /\ plane'.tail = plane.tail /\ (plane'.marked => plane'.up)
  BY <1>1 DEF Start, PlaneType
<1>6. Placed' /\ Calm
  BY <1>1, <1>2, <1>3, <1>4, <1>5, GoesOn DEF Stores, Pcs, Between, Draw
<1> QED
  BY <1>3, <1>4, <1>5, <1>6 DEF AgentEffect, Settles, Stores, Advances, Free, Goes

LEMMA MarkStep ==
    ASSUME Placed, Mark
    PROVE  Placed' /\ AgentEffect
<1>1. /\ TypeOK /\ agent \in AgentType /\ disk \in DiskType /\ plane \in PlaneType /\ (plane.marked => plane.up)
      /\ agent.cur \in DOMAIN cmds /\ agent.cur \in Ids /\ agent.cur \notin disk.done /\ IsRemoval(agent.cur)
  BY AtHand DEF Mark, At, Pcs, Between, Draw
<1>2. UNCHANGED <<user, node, snap, cmds, wire, plane, login>>
  BY DEF Mark, panelVars
<1>3. agent.watched \subseteq DOMAIN cmds /\ NoCommand \notin DOMAIN cmds /\ worker \in {"off", "settle"}
  BY <1>1, PlacedFacts, Types DEF Mark, At
<1>4. CASE Raise /\ UNCHANGED <<disk, worker>>
  <2>1. Goes("nack")
    BY <1>1, <1>4, RaiseIs
  <2>2. Placed' /\ Calm
    BY <1>1, <1>2, <1>4, <2>1, GoesOn DEF Pcs, Between, Draw
  <2> QED
    BY <1>2, <1>4, <2>1, <2>2 DEF AgentEffect, Settles, Advances, Free, Goes
<1>5. CASE /\ agent' = Left /\ disk' = [disk EXCEPT !.marker = agent.cur]
           /\ worker' = IF worker = "off" THEN "settle" ELSE worker
  <2>1. Leaves
    BY <1>1, <1>5, LeftIs
  <2>2. /\ disk' \in DiskType /\ disk'.done = disk.done /\ disk'.marker = agent.cur
        /\ disk'.spool = disk.spool /\ disk'.stopped = disk.stopped
    BY <1>1, <1>5 DEF DiskType
  <2>3. /\ agent' \in AgentType /\ agent'.pc = "take" /\ agent'.cur = NoCommand /\ agent'.todo = agent.todo
        /\ agent'.watched \subseteq agent.watched /\ Watch
    BY <2>1 DEF Leaves, KeepsWatch, Watch
  <2>4. worker' = "settle" /\ disk'.marker # NoCommand /\ disk'.marker \in DOMAIN cmds
        /\ cmds[disk'.marker].kind = "UNINSTALL_NODE"
    BY <1>1, <1>3, <1>5, <2>2 DEF IsRemoval
  <2>5. Placed' /\ Calm
    BY <1>1, <1>2, <1>3, <2>2, <2>3, <2>4, LeavesOff
  <2> QED
    BY <1>2, <2>2, <2>3, <2>5 DEF AgentEffect, Settles, Advances, Free, Between
<1> QED
  BY <1>4, <1>5 DEF Mark

LEMMA RecordStep ==
    ASSUME Placed, RecordDone
    PROVE  Placed' /\ AgentEffect
<1>1. /\ TypeOK /\ agent \in AgentType /\ disk \in DiskType /\ plane \in PlaneType /\ (plane.marked => plane.up)
      /\ At("record") /\ agent.cur \in DOMAIN cmds /\ agent.cur \in Ids /\ ~IsRemoval(agent.cur)
  BY AtHand DEF RecordDone, At, Pcs, Between, Draw
<1>2. UNCHANGED <<user, node, snap, cmds, worker, wire, plane, login>>
  BY DEF RecordDone, panelVars
<1>3. Goes("ack")
  BY <1>1, GotoIs DEF RecordDone, Pcs
<1>4. /\ agent' \in AgentType /\ agent'.pc = "ack" /\ agent'.cur = agent.cur /\ agent'.todo = agent.todo
      /\ agent'.watched \subseteq agent.watched /\ Watch
  BY <1>3 DEF Goes, KeepsWatch, Watch
<1>5. /\ disk' \in DiskType /\ disk'.done = disk.done \cup {agent.cur} /\ disk'.marker = disk.marker
      /\ disk'.spool = disk.spool /\ disk'.stopped = disk.stopped
  <2> DEFINE d == disk.done \cup {agent.cur}
  <2>1. d \in SUBSET Ids /\ disk' = [disk EXCEPT !.done = d]
    BY <1>1 DEF DiskType, RecordDone
  <2> HIDE DEF d
  <2>2. disk' \in DiskType /\ disk'.done = d /\ disk'.marker = disk.marker
        /\ disk'.spool = disk.spool /\ disk'.stopped = disk.stopped
    BY <1>1, <2>1 DEF DiskType
  <2> QED
    BY <2>2 DEF d
<1>6. /\ ~At("dead") /\ agent.todo \cup agent.watched \subseteq DOMAIN cmds /\ snap \in SnapType
      /\ NoCommand \notin DOMAIN cmds
  BY <1>1, PlacedFacts, Types DEF At
<1>7. Calm /\ login' \in LoginType /\ (~plane'.up => (Open \cup Flight = {})')
  BY <1>1, <1>2, <1>4, <1>5, CalmStep
<1>8. AgentPlaced'
  BY <1>1, <1>2, <1>4, <1>5, <1>6 DEF AgentPlaced, Between, Draw
<1>9. Placed'
  BY <1>1, <1>2, <1>4, <1>5, <1>6, <1>7, <1>8, PlacedAgent
<1> QED
  BY <1>2, <1>4, <1>5, <1>7, <1>9 DEF AgentEffect, Settles, Advances, Free

LEMMA LookStep ==
    ASSUME Placed, Look
    PROVE  Placed' /\ AgentEffect
<1>1. /\ TypeOK /\ agent \in AgentType /\ disk \in DiskType /\ plane \in PlaneType /\ (plane.marked => plane.up)
      /\ At("look") /\ agent.cur \in DOMAIN cmds /\ agent.cur \in Ids /\ agent.cur \notin disk.done
      /\ IsKick(agent.cur)
  BY AtHand DEF Look, At, Pcs, Between
<1>2. UNCHANGED <<user, node, snap, cmds, disk, worker, wire, plane, login>>
  BY DEF Look, panelVars
<1>3. Stores(disk.stopped, disk.spool) /\ Settles
  BY <1>1, <1>2, SameDisk DEF Settles
<1>4. agent.watched \subseteq DOMAIN cmds /\ ~IsRemoval(agent.cur)
  BY <1>1, PlacedFacts DEF IsKick, IsRemoval
<1> DEFINE w == agent.watched \ {agent.cur}
           q == [agent.quiet EXCEPT ![agent.cur] = {}]
<1>5. w \in SUBSET Ids /\ q \in [Ids -> SUBSET Login] /\ w \subseteq agent.watched
      /\ \A j \in w : q[j] = agent.quiet[j]
  BY <1>1 DEF AgentType
<1>6. CASE Raise
  <2>1. Goes("nack")
    BY <1>1, <1>6, RaiseIs
  <2>2. Placed' /\ Calm
    BY <1>1, <1>2, <1>3, <2>1, GoesOn DEF Stores, Pcs, Between, Draw
  <2> QED
    BY <1>3, <2>1, <2>2 DEF AgentEffect, Advances, Free, Goes
<1>7. CASE agent' = Unwatch(Left)
  <2>1. agent' = [agent EXCEPT !.pc = "take", !.cur = NoCommand, !.wait = {}, !.seen = "nothing",
                               !.watched = w, !.quiet = q]
    BY <1>1, <1>7 DEF Left, Unwatch, AgentType
  <2> HIDE DEF w, q
  <2>2. /\ agent' \in AgentType /\ agent'.pc = "take" /\ agent'.cur = NoCommand /\ agent'.todo = agent.todo
        /\ agent'.watched = w /\ agent'.quiet = q
    BY <1>1, <1>5, <2>1 DEF AgentType, Between, NoCommand
  <2>3. Watch /\ agent'.watched \subseteq DOMAIN cmds
    BY <1>4, <1>5, <2>2 DEF Watch
  <2>4. Placed' /\ Calm
    BY <1>1, <1>2, <2>2, <2>3, LeavesOff
  <2> QED
    BY <1>3, <2>2, <2>4 DEF AgentEffect, Advances, Free, Between
<1>8. CASE Open = {} /\ KickSettled /\ agent' = [Unwatch(agent) EXCEPT !.pc = "record"]
  <2>1. agent' = [agent EXCEPT !.watched = w, !.quiet = q, !.pc = "record"]
    BY <1>1, <1>8 DEF Unwatch, AgentType
  <2> HIDE DEF w, q
  <2>2. Goes("record")
    BY <1>1, <1>5, <2>1 DEF Goes, AgentType, KeepsWatch
  <2>3. Placed' /\ Calm
    BY <1>1, <1>2, <1>3, <1>4, <2>2, GoesOn DEF Stores, Pcs, Between, Draw
  <2>4. Advances
    BY <1>1, <1>8, <2>2 DEF Advances, Goes, KickSettled
  <2> QED
    BY <1>3, <2>3, <2>4 DEF AgentEffect
<1>9. CASE /\ Open = {}
           /\ agent' = [Left EXCEPT !.watched = @ \cup {agent.cur},
                          !.quiet[agent.cur] = IF agent.cur \in agent.watched THEN @ ELSE Flight]
  <2> DEFINE u == agent.watched \cup {agent.cur}
             x == IF agent.cur \in agent.watched THEN agent.quiet[agent.cur] ELSE Flight
             r == [agent.quiet EXCEPT ![agent.cur] = x]
  <2>1. agent' = [agent EXCEPT !.pc = "take", !.cur = NoCommand, !.wait = {}, !.seen = "nothing",
                               !.watched = u, !.quiet = r]
    BY <1>1, <1>9 DEF Left, AgentType
  <2>2. u \in SUBSET Ids /\ u \subseteq DOMAIN cmds /\ r \in [Ids -> SUBSET Login]
    <3>1. x \in SUBSET Login
      BY <1>1 DEF AgentType, Flight
    <3> HIDE DEF x
    <3> QED
      BY <1>1, <1>4, <3>1 DEF AgentType
  <2>3. \A j \in u : \/ j \in agent.watched /\ r[j] = agent.quiet[j]
                     \/ Open = {} /\ r[j] = Flight
    <3> SUFFICES ASSUME NEW j \in u
                 PROVE  \/ j \in agent.watched /\ r[j] = agent.quiet[j]
                        \/ Open = {} /\ r[j] = Flight
      OBVIOUS
    <3>1. CASE j = agent.cur
      BY <1>1, <1>9, <3>1 DEF AgentType
    <3>2. CASE j # agent.cur
      BY <1>1, <3>2 DEF AgentType
    <3> QED
      BY <3>1, <3>2
  <2> HIDE DEF u, r
  <2>4. /\ agent' \in AgentType /\ agent'.pc = "take" /\ agent'.cur = NoCommand /\ agent'.todo = agent.todo
        /\ agent'.watched = u /\ agent'.quiet = r
    BY <1>1, <2>1, <2>2 DEF AgentType, Between, NoCommand
  <2>5. Watch /\ agent'.watched \subseteq DOMAIN cmds
    BY <2>2, <2>3, <2>4 DEF Watch
  <2>6. Placed' /\ Calm
    BY <1>1, <1>2, <2>4, <2>5, LeavesOff
  <2> QED
    BY <1>3, <2>4, <2>6 DEF AgentEffect, Advances, Free, Between
<1> QED
  BY <1>6, <1>7, <1>8, <1>9 DEF Look

LEMMA TakeStep ==
    ASSUME Placed, NEW i \in Ids, Take(i)
    PROVE  Placed' /\ AgentEffect
<1>1. /\ TypeOK /\ agent \in AgentType /\ disk \in DiskType /\ plane \in PlaneType /\ (plane.marked => plane.up)
      /\ At("take") /\ i \in agent.todo /\ agent.todo \subseteq DOMAIN cmds /\ agent.watched \subseteq DOMAIN cmds
      /\ NoCommand \notin DOMAIN cmds /\ snap \in SnapType /\ cmds[i].kind \in Kind
  BY AtHand, PlacedFacts, Types DEF Take
<1>2. UNCHANGED <<user, node, snap, cmds, disk, worker, wire, plane, login>>
  BY DEF Take, panelVars
<1>3. Settles
  BY <1>2 DEF Settles
<1>4. /\ FirstStep(i) \in {"ack", "kick", "start", "again", "waiting"}
      /\ FirstStep(i) = "ack" => i \in disk.done
      /\ FirstStep(i) # "ack" => i \notin disk.done
      /\ FirstStep(i) = "kick" => IsKick(i)
      /\ FirstStep(i) = "start" => IsStart(i)
      /\ FirstStep(i) \in {"again", "waiting"} => IsStop(i) \/ IsRemoval(i)
      /\ FirstStep(i) = "again" => disk.stopped
  BY <1>1 DEF FirstStep, IsKick, IsStart, IsStop, IsRemoval, Kind
<1> DEFINE f == FirstStep(i)
           w == IF f = "waiting" THEN Flight ELSE {}
           t == agent.todo \ {i}
<1>5. w \in SUBSET Login /\ t \in SUBSET Ids /\ t \subseteq agent.todo /\ (f = "waiting" => w = Flight)
  BY <1>1 DEF Flight, AgentType
<1>6. agent' = [agent EXCEPT !.pc = f, !.todo = t, !.cur = i, !.wait = w]
  BY DEF Take
<1> HIDE DEF f, w, t
<1>7. f \in Pcs
  BY <1>4 DEF f, Pcs, Between, Draw
<1>8. /\ agent' \in AgentType /\ agent'.pc = f /\ agent'.cur = i /\ agent'.todo = t
      /\ agent'.watched = agent.watched /\ agent'.quiet = agent.quiet /\ agent'.wait = w
  BY <1>1, <1>5, <1>6, <1>7 DEF AgentType, Pcs
<1>9. Watch
  BY <1>8 DEF Watch
<1>10. AgentPlaced'
  BY <1>1, <1>2, <1>4, <1>8 DEF AgentPlaced, f, Between, Draw, IsKick, IsStart, IsStop, IsRemoval
<1>11. Calm /\ login' \in LoginType /\ (~plane'.up => (Open \cup Flight = {})')
  BY <1>1, <1>2, <1>9, CalmStep
<1>12. ~At("dead") /\ agent'.pc # "dead"
  BY <1>1, <1>4, <1>8 DEF At, f
<1>13. Placed'
  BY <1>1, <1>2, <1>5, <1>8, <1>10, <1>11, <1>12, PlacedAgent
<1>14. Advances
  BY <1>1, <1>4, <1>5, <1>8 DEF Advances, Free, f
<1> QED
  BY <1>3, <1>11, <1>13, <1>14 DEF AgentEffect

\* Between two commands: the cycle begins, is answered or ends.
LEMMA Idling ==
    ASSUME Placed, agent.pc \in {"idle", "exchange", "take"}
    PROVE  /\ TypeOK /\ agent \in AgentType /\ disk \in DiskType /\ plane \in PlaneType /\ snap \in SnapType
           /\ login \in LoginType /\ (plane.marked => plane.up) /\ ~At("dead") /\ agent.cur = NoCommand
           /\ agent.todo \cup agent.watched \subseteq DOMAIN cmds
BY AtHand, PlacedFacts, Types DEF Between, AgentPlaced, At

LEMMA CycleStep ==
    ASSUME Placed, Cycle \/ EndOfCycle
    PROVE  Placed' /\ AgentEffect
<1>1. /\ TypeOK /\ agent \in AgentType /\ disk \in DiskType /\ plane \in PlaneType /\ snap \in SnapType
      /\ login \in LoginType /\ (plane.marked => plane.up) /\ ~At("dead") /\ agent.cur = NoCommand
      /\ agent.todo \cup agent.watched \subseteq DOMAIN cmds
  BY Idling DEF Cycle, EndOfCycle, At
<1>2. UNCHANGED <<user, node, snap, cmds, worker, wire, login>>
  BY DEF Cycle, EndOfCycle, panelVars
<1>3. /\ disk' \in DiskType /\ disk'.done = disk.done /\ disk'.marker = disk.marker
      /\ disk'.stopped = disk.stopped /\ (disk'.spool => disk.spool \/ Counted)
      /\ plane' \in PlaneType /\ plane'.up = plane.up /\ (plane'.marked => plane'.up) /\ (plane'.tail => plane.tail)
  <2>1. CASE UNCHANGED <<disk, plane>>
    BY <1>1, <2>1
  <2>2. CASE Collect
    BY <1>1, <2>2, CollectIs DEF Stores
  <2> QED
    BY <2>1, <2>2 DEF Cycle, EndOfCycle
<1>4. \E pc \in {"exchange", "idle"} : Goes(pc)
  <2>1. CASE agent' = [agent EXCEPT !.pc = "exchange", !.seen = Seen]
    BY <1>1, <2>1 DEF Goes, AgentType, Between, KeepsWatch, Seen
  <2>2. CASE Goto("exchange") \/ Goto("idle")
    BY <1>1, <2>2, GotoIs DEF Pcs, Between
  <2> QED
    BY <2>1, <2>2 DEF Cycle, EndOfCycle
<1>5. /\ agent' \in AgentType /\ agent'.pc \in {"exchange", "idle"} /\ agent'.cur = NoCommand
      /\ agent'.todo = agent.todo /\ agent'.watched \subseteq agent.watched /\ Watch
  BY <1>1, <1>4 DEF Goes, KeepsWatch, Watch
<1>6. AgentPlaced'
  BY <1>5 DEF AgentPlaced, Between, Draw
<1>7. Calm /\ login' \in LoginType /\ (~plane'.up => (Open \cup Flight = {})')
  BY <1>1, <1>2, <1>3, <1>5, CalmStep
<1>8. Placed'
  BY <1>1, <1>2, <1>3, <1>5, <1>6, <1>7, PlacedAgent
<1> QED
  BY <1>3, <1>5, <1>7, <1>8 DEF AgentEffect, Settles, Advances, Free, Between

LEMMA ExchangeStep ==
    ASSUME Placed, Exchange
    PROVE  Placed' /\ AgentEffect
<1>1. /\ TypeOK /\ agent \in AgentType /\ disk \in DiskType /\ plane \in PlaneType /\ snap \in SnapType
      /\ login \in LoginType /\ (plane.marked => plane.up) /\ ~At("dead") /\ agent.cur = NoCommand
      /\ agent.todo \cup agent.watched \subseteq DOMAIN cmds /\ DOMAIN cmds \subseteq Ids
      /\ user \in UserType /\ node \in NodeType
  BY Idling, Types DEF Exchange, At
<1>2. UNCHANGED <<user, node, worker, wire, login, plane>>
  BY DEF Exchange
<1>3. Polls /\ Keeps
  <2> DEFINE S == Pending \ Delivered
  <2>1. CASE cmds' = cmds
    <3>1. Acks({}) /\ Keeps
      BY <1>1, <2>1, SameQueue
    <3> QED
      BY <3>1 DEF Polls
  <2>2. CASE cmds' = Polled
    <3>1. cmds' = [i \in DOMAIN cmds |-> [cmds[i] EXCEPT !.acked = @ \/ i \in S]]
      BY <2>2 DEF Polled
    <3>2. S \in SUBSET DOMAIN cmds /\ \A i \in S : i \in Pending /\ Superseded(i)
      BY DEF Delivered, Pending
    <3> HIDE DEF S
    <3>3. Acks(S) /\ Keeps
      BY <1>1, <3>1, AckForm
    <3> QED
      BY <3>2, <3>3 DEF Polls
  <2> QED
    BY <2>1, <2>2 DEF Exchange
<1>4. snap' \in SnapType
  <2> DEFINE b == agent.seen = "empty"
  <2>1. b \in BOOLEAN /\ (snap' = snap \/ snap' = [empty |-> b, fresh |-> TRUE])
    BY DEF Exchange, Snapshot
  <2> HIDE DEF b
  <2>2. [empty |-> b, fresh |-> TRUE] \in SnapType
    BY <2>1 DEF SnapType
  <2> QED
    BY <1>1, <2>1, <2>2
<1>5. /\ disk' \in DiskType /\ disk'.done = disk.done /\ disk'.marker = disk.marker
      /\ disk'.stopped = disk.stopped /\ (disk'.spool => disk.spool)
  <2> DEFINE a == SpoolAcked
  <2>1. disk' = disk \/ disk' = [disk EXCEPT !.spool = @ /\ ~a]
    BY DEF Exchange
  <2> HIDE DEF a
  <2> QED
    BY <1>1, <2>1 DEF DiskType
<1>6. Delivered \in SUBSET Ids /\ Delivered \subseteq DOMAIN cmds
  BY <1>1 DEF Delivered, Pending
<1>7. /\ agent' \in AgentType /\ agent'.pc \in {"idle", "take"} /\ agent'.cur = NoCommand
      /\ agent'.todo \subseteq DOMAIN cmds /\ agent'.watched = agent.watched /\ agent'.quiet = agent.quiet
  <2>1. CASE agent' = [agent EXCEPT !.pc = "idle", !.seen = "nothing"]
    BY <1>1, <2>1 DEF AgentType, Between
  <2> DEFINE t == IF Polling THEN Delivered ELSE {}
  <2>2. CASE agent' = [agent EXCEPT !.pc = "take", !.todo = t, !.seen = "nothing"]
    <3>1. t \in SUBSET Ids /\ t \subseteq DOMAIN cmds
      BY <1>6
    <3> HIDE DEF t
    <3> QED
      BY <1>1, <2>2, <3>1 DEF AgentType, Between
  <2> QED
    BY <2>1, <2>2 DEF Exchange
<1>8. AgentPlaced'
  BY <1>7 DEF AgentPlaced, Between, Draw
<1>9. /\ Fewer /\ Open' = Open /\ Flight' = Flight /\ (~plane'.up => (Open \cup Flight = {})')
  BY <1>1, <1>2, SameLogins DEF Fewer, Open, Flight, Sessions
<1>10. Watch
  BY <1>7 DEF Watch
<1>11. DOMAIN cmds \subseteq DOMAIN cmds' /\ wire \subseteq [id : DOMAIN cmds, ok : BOOLEAN]
  BY <1>1, <1>3 DEF Keeps, TypeOK
<1>12. Placed'
  <2>1. /\ \A i \in disk.done : i \in DOMAIN cmds /\ ~IsRemoval(i)
        /\ disk.marker # NoCommand => disk.marker \in DOMAIN cmds /\ IsRemoval(disk.marker)
        /\ worker # "off" => disk.marker # NoCommand
        /\ \A a \in wire : a.ok => a.id \in disk.done
        /\ worker \in {"off", "settle"}
    BY <1>1, PlacedFacts DEF Placed
  <2>2. disk'.marker # NoCommand => disk'.marker \in DOMAIN cmds' /\ IsRemoval(disk.marker)'
    BY <1>3, <1>5, <1>11, <2>1, KindsStay DEF IsRemoval
  <2>3. ~At("dead")'
    BY <1>7 DEF At
  <2>4. wire' \subseteq [id : DOMAIN cmds', ok : BOOLEAN]
    BY <1>2, <1>11
  <2> QED
    BY <1>1, <1>2, <1>3, <1>4, <1>5, <1>7, <1>8, <1>9, <1>11, <2>1, <2>2, <2>3, <2>4, PlacedPieces DEF Fewer
<1>13. Settles
  BY <1>2, <1>5 DEF Settles
<1>14. Advances
  BY <1>7 DEF Advances, Free, Between
<1> QED
  BY <1>2, <1>3, <1>5, <1>9, <1>10, <1>12, <1>13, <1>14 DEF AgentEffect, Calm

\* The control unit, or the machine, is started again; the units are removed.
LEMMA RestartStep ==
    ASSUME Placed, Crash \/ Reboot \/ Remove
    PROVE  Placed' /\ AgentEffect
<1>1. /\ TypeOK /\ agent \in AgentType /\ disk \in DiskType /\ plane \in PlaneType /\ snap \in SnapType
      /\ login \in LoginType /\ (plane.marked => plane.up) /\ user \in UserType /\ node \in NodeType
      /\ worker \in {"off", "settle", "ack", "gone"} /\ wire \subseteq [id : DOMAIN cmds, ok : BOOLEAN]
  BY AtHand, Types DEF TypeOK
<1>2. UNCHANGED <<user, node, snap, cmds, disk, wire>> /\ (login' = login \/ login' = Closed)
  BY DEF Crash, Reboot, Remove, panelVars
<1>3. /\ \A i \in disk.done : i \in DOMAIN cmds /\ ~IsRemoval(i)
      /\ disk.marker # NoCommand => disk.marker \in DOMAIN cmds /\ IsRemoval(disk.marker)
      /\ worker # "off" => disk.marker # NoCommand
      /\ worker \in {"ack", "gone"} => At("dead")
      /\ At("dead") => ~plane.up
      /\ \A a \in wire : a.ok => a.id \in disk.done
  BY DEF Placed
<1>4. PICK pc \in {"idle", "dead"} :
        /\ agent' = [Fresh EXCEPT !.pc = pc]
        /\ \/ Crash /\ pc = "idle" /\ ~At("dead")
           \/ Reboot /\ (pc = "dead" <=> At("dead"))
           \/ Remove /\ pc = "dead"
  <2>1. Fresh = [Fresh EXCEPT !.pc = "idle"]
    BY DEF Fresh
  <2> QED
    BY <2>1 DEF Crash, Reboot, Remove, At
<1>5. /\ agent' \in AgentType /\ agent'.pc = pc /\ agent'.cur = NoCommand /\ agent'.todo = {} /\ agent'.watched = {}
  BY <1>4, FreshIs DEF Restarts
<1>6. Watch /\ AgentPlaced' /\ (At("dead")' <=> pc = "dead")
  BY <1>5 DEF Watch, AgentPlaced, Between, Draw, At
<1>7. /\ plane' \in PlaneType /\ (plane'.marked => plane'.up) /\ (plane'.tail => plane.tail)
      /\ login' = Closed \/ (login' = login /\ plane' = plane)
      /\ pc = "dead" => ~plane'.up
  <2>1. CASE Crash
    BY <1>1, <1>4, <2>1 DEF Crash, Reboot, Remove, At
  <2>2. CASE Reboot
    BY <1>4, <2>2 DEF Reboot, Remove, Crash, Down, PlaneType, At
  <2>3. CASE Remove
    BY <2>3 DEF Remove, Down, PlaneType
  <2> QED
    BY <2>1, <2>2, <2>3, <1>4
<1>8. Calm /\ login' \in LoginType /\ (~plane'.up => (Open \cup Flight = {})')
  BY <1>1, <1>2, <1>6, <1>7, CalmStep
<1>9. /\ worker' \in {"off", "settle", "ack", "gone"} /\ (worker' # "off" => disk.marker # NoCommand)
      /\ (worker' \in {"ack", "gone"} => pc = "dead")
  <2>1. CASE Crash
    BY <1>1, <1>3, <1>4, <2>1 DEF Crash, Reboot, Remove, At
  <2>2. CASE Reboot
    BY <2>2 DEF Reboot
  <2>3. CASE Remove
    BY <1>3, <1>4, <2>3 DEF Remove, Reboot, Crash
  <2> QED
    BY <2>1, <2>2, <2>3, <1>4
<1>10. At("dead") => pc = "dead"
  BY <1>4
<1>11. Placed'
  <2>1. Keeps /\ IsRemoval(disk.marker)' = IsRemoval(disk.marker)
    BY <1>1, <1>2, SameQueue DEF IsRemoval
  <2>2. agent'.todo \cup agent'.watched \subseteq DOMAIN cmds
    BY <1>5
  <2> QED
    BY <1>1, <1>2, <1>3, <1>5, <1>6, <1>7, <1>8, <1>9, <1>10, <2>1, <2>2, PlacedPieces
<1>12. Settles
  BY <1>2, <1>7 DEF Settles
<1>13. Advances
  BY <1>5 DEF Advances, Free, Between
<1> QED
  BY <1>8, <1>11, <1>12, <1>13 DEF AgentEffect

\* An answer of the agent or the worker reaches the panel, or not.
AnswerEffect ==
    /\ UNCHANGED <<user, disk, plane, login>> /\ Keeps /\ node' \in NodeType
    /\ agent' = agent \/ Leaves
    /\ \/ UNCHANGED <<node, cmds>>
       \/ \E i \in DOMAIN cmds : Completes(i) /\ (i \in disk.done \/ IsRemoval(i))

LEMMA AckStep ==
    ASSUME Placed, Ack
    PROVE  Placed' /\ AnswerEffect
<1>1. /\ TypeOK /\ agent \in AgentType /\ disk \in DiskType /\ plane \in PlaneType /\ snap \in SnapType
      /\ login \in LoginType /\ (plane.marked => plane.up) /\ agent.cur \in DOMAIN cmds
      /\ user \in UserType /\ node \in NodeType
      /\ wire \subseteq [id : DOMAIN cmds, ok : BOOLEAN]
  BY AtHand, Types DEF TypeOK, Ack, At, Pcs, Between
<1>2. /\ ~At("dead") /\ At("ack") \in BOOLEAN /\ (At("ack") => agent.cur \in disk.done) /\ worker \in {"off", "settle"}
      /\ agent.todo \cup agent.watched \subseteq DOMAIN cmds
  BY <1>1, PlacedFacts DEF Ack, At, AgentPlaced
<1>3. UNCHANGED <<user, disk, worker, plane, login>> /\ agent' = Left
  BY DEF Ack
<1>4. Leaves
  BY <1>1, <1>3, LeftIs
<1>5. /\ node' \in NodeType /\ snap' \in SnapType /\ Keeps
      /\ \/ UNCHANGED <<node, cmds>>
         \/ \E i \in DOMAIN cmds : Completes(i) /\ (i \in disk.done \/ IsRemoval(i))
  <2>1. CASE Acknowledge(agent.cur, At("ack"))
    BY <1>1, <1>2, <2>1, AcknowledgeIs
  <2>2. CASE UNCHANGED <<node, snap, cmds>>
    BY <1>1, <2>2, SameQueue
  <2> QED
    BY <2>1, <2>2 DEF Ack
<1>6. DOMAIN cmds \subseteq DOMAIN cmds'
  BY <1>5 DEF Keeps
<1>7. wire' \subseteq [id : DOMAIN cmds, ok : BOOLEAN] /\ \A a \in wire' : a.ok => a.id \in disk.done
  <2>1. \A a \in wire : a.ok => a.id \in disk.done
    BY DEF Placed
  <2> DEFINE b == [id |-> agent.cur, ok |-> At("ack")]
  <2>2. b \in [id : DOMAIN cmds, ok : BOOLEAN] /\ (b.ok => b.id \in disk.done)
    BY <1>1, <1>2
  <2>3. wire' = wire \/ wire' = wire \cup {b}
    BY DEF Ack
  <2> HIDE DEF b
  <2> QED
    BY <1>1, <2>1, <2>2, <2>3
<1>8. /\ agent' \in AgentType /\ agent'.pc = "take" /\ agent'.cur = NoCommand
      /\ agent'.todo \cup agent'.watched \subseteq DOMAIN cmds'
  BY <1>2, <1>4, <1>6 DEF Leaves, KeepsWatch
<1>9. AgentPlaced' /\ ~At("dead")'
  BY <1>8 DEF AgentPlaced, Between, Draw, At
<1>10. Placed'
  <2>1. /\ \A i \in disk.done : i \in DOMAIN cmds /\ ~IsRemoval(i)
        /\ disk.marker # NoCommand => disk.marker \in DOMAIN cmds /\ IsRemoval(disk.marker)
        /\ worker # "off" => disk.marker # NoCommand
    BY DEF Placed
  <2>2. disk'.marker # NoCommand => disk'.marker \in DOMAIN cmds' /\ IsRemoval(disk.marker)'
    BY <1>3, <1>5, <1>6, <2>1, KindsStay DEF IsRemoval
  <2>3. wire' \subseteq [id : DOMAIN cmds', ok : BOOLEAN]
    BY <1>6, <1>7
  <2>4. ~plane'.up => (Open \cup Flight = {})'
    BY <1>1, <1>3, SameLogins
  <2> QED
    BY <1>1, <1>2, <1>3, <1>5, <1>7, <1>8, <1>9, <2>1, <2>2, <2>3, <2>4, PlacedPieces
<1> QED
  BY <1>3, <1>4, <1>5, <1>10 DEF AnswerEffect

LEMMA LateAckStep ==
    ASSUME Placed, NEW a \in wire, LateAck(a)
    PROVE  Placed' /\ AnswerEffect
<1>1. TypeOK /\ a.id \in DOMAIN cmds /\ a.ok \in BOOLEAN /\ (a.ok => a.id \in disk.done)
  BY DEF Placed, TypeOK
<1>2. Acknowledge(a.id, a.ok) /\ UNCHANGED <<user, disk, agent, worker, plane, login>>
  BY DEF LateAck
<1>3. /\ node' \in NodeType /\ Keeps
      /\ UNCHANGED <<node, cmds>> \/ (a.ok /\ Completes(a.id))
  BY <1>1, <1>2, AcknowledgeIs
<1> QED
  BY <1>1, <1>2, <1>3, PlacedLateAck DEF AnswerEffect

LEMMA ConfirmStep ==
    ASSUME Placed, Confirm
    PROVE  Placed' /\ AnswerEffect
<1>1. /\ TypeOK /\ agent \in AgentType /\ disk \in DiskType /\ plane \in PlaneType /\ snap \in SnapType
      /\ login \in LoginType /\ (plane.marked => plane.up) /\ user \in UserType /\ node \in NodeType
      /\ wire \subseteq [id : DOMAIN cmds, ok : BOOLEAN]
      /\ agent.todo \cup agent.watched \subseteq DOMAIN cmds /\ agent.cur \in DOMAIN cmds \cup {NoCommand}
  BY AtHand, PlacedFacts, Types DEF TypeOK
<1>2. /\ worker = "ack" /\ worker' = "gone" /\ Acknowledge(disk.marker, TRUE)
      /\ UNCHANGED <<user, disk, agent, plane, login, wire>>
  BY DEF Confirm
<1>3. /\ \A i \in disk.done : i \in DOMAIN cmds /\ ~IsRemoval(i)
      /\ disk.marker # NoCommand /\ disk.marker \in DOMAIN cmds /\ IsRemoval(disk.marker)
      /\ At("dead") /\ ~plane.up /\ \A a \in wire : a.ok => a.id \in disk.done
  BY <1>2 DEF Placed
<1>4. /\ node' \in NodeType /\ snap' \in SnapType /\ Keeps
      /\ UNCHANGED <<node, cmds>> \/ Completes(disk.marker)
  BY <1>1, <1>2, <1>3, AcknowledgeIs
<1>5. DOMAIN cmds \subseteq DOMAIN cmds'
  BY <1>4 DEF Keeps
<1>6. Placed'
  <2>1. disk'.marker \in DOMAIN cmds' /\ IsRemoval(disk.marker)'
    BY <1>2, <1>3, <1>4, <1>5, KindsStay DEF IsRemoval
  <2>2. AgentPlaced' /\ At("dead")'
    <3>1. agent.pc = "dead" /\ agent.cur = NoCommand
      BY <1>3, PlacedFacts DEF AgentPlaced, At, Between
    <3> QED
      BY <1>2, <3>1 DEF AgentPlaced, At, Between, Draw
  <2>3. ~plane'.up => (Open \cup Flight = {})'
    BY <1>1, <1>2, SameLogins
  <2>4. /\ agent'.todo \cup agent'.watched \subseteq DOMAIN cmds' /\ agent'.cur \in DOMAIN cmds' \cup {NoCommand}
        /\ wire' \subseteq [id : DOMAIN cmds', ok : BOOLEAN]
    BY <1>1, <1>2, <1>5
  <2> QED
    BY <1>1, <1>2, <1>3, <1>4, <2>1, <2>2, <2>3, <2>4, PlacedPieces
<1> QED
  BY <1>2, <1>3, <1>4, <1>6 DEF AnswerEffect

-----------------------------------------------------------------------------
(* Every step is of one of these kinds.                                     *)

UserAction == Revoke \/ Reset \/ KickOwed \/ Expire \/ Exhaust \/ PanelFails

StepKind ==
    \/ AgentEffect
    \/ AnswerEffect
    \/ SessionEffect
    \/ UserAction
    \/ NodeAction
    \/ \E l \in Login : Approve(l)

LEMMA StepPlaced ==
    ASSUME Placed, [Next]_vars
    PROVE  Placed' /\ StepKind
<1>1. CASE AgentStep
  <2>1. Placed' /\ (AgentEffect \/ AnswerEffect)
    BY <1>1, CycleStep, ExchangeStep, TakeStep, KickStep, LookStep, WaitStep, OnlineStep, CollectStep,
       FlushStep, HaltStep, FlagStep, MarkStep, StartStep, RecordStep, AckStep DEF AgentStep
  <2> QED
    BY <2>1 DEF StepKind
<1>2. CASE WorkerStep
  BY <1>2, RestartStep, ConfirmStep DEF WorkerStep, StepKind
<1>3. CASE PanelStep
  <2>1. UserAction \/ NodeAction \/ \E a \in wire : LateAck(a)
    BY <1>3 DEF PanelStep, UserAction, NodeAction
  <2> QED
    BY <2>1, PlacedUser, PlacedNode, LateAckStep DEF UserAction, StepKind
<1>4. CASE SessionStep
  BY <1>4, PlacedApprove, PlacedSession DEF SessionStep, StepKind
<1>5. CASE Crash \/ Reboot
  BY <1>5, RestartStep DEF StepKind
<1>6. CASE UNCHANGED vars
  <2>1. UNCHANGED <<user, node, snap, cmds, disk, agent, worker, plane, login, wire>>
    BY <1>6 DEF vars
  <2>2. TypeOK /\ user \in UserType /\ node \in NodeType /\ snap \in SnapType
    BY PlacedFacts, Types
  <2>3. Keeps
    BY <2>1, <2>2, SameQueue
  <2>4. Placed'
    BY <2>1, <2>2, <2>3, PlacedElsewhere, SameLogins
  <2> QED
    BY <2>1, <2>2, <2>3, <2>4 DEF StepKind, AnswerEffect
<1> QED
  BY <1>1, <1>2, <1>3, <1>4, <1>5, <1>6 DEF Next

-----------------------------------------------------------------------------
(* The second layer: lifecycle, queue and flag.                             *)

LEMMA PendingAcks ==
    ASSUME NEW S, Acks(S)
    PROVE  /\ Pending' = Pending \ S /\ DOMAIN cmds' = DOMAIN cmds
           /\ \A i \in DOMAIN cmds : /\ (IsKick(i)' <=> IsKick(i)) /\ (IsStop(i)' <=> IsStop(i))
                                     /\ (IsStart(i)' <=> IsStart(i)) /\ (IsRemoval(i)' <=> IsRemoval(i))
                                     /\ cmds'[i].acked <=> cmds[i].acked \/ i \in S
                                     /\ cmds'[i].generation = cmds[i].generation
BY DEF Acks, Pending, IsKick, IsStop, IsStart, IsRemoval

LEMMA PendingGrows ==
    ASSUME NEW kind, NEW generation, Grows(kind, generation)
    PROVE  /\ Pending' = Pending \cup {Last} /\ DOMAIN cmds' = DOMAIN cmds \cup {Last} /\ Last \notin DOMAIN cmds
           /\ \A i \in DOMAIN cmds : /\ (IsKick(i)' <=> IsKick(i)) /\ (IsStop(i)' <=> IsStop(i))
                                     /\ (IsStart(i)' <=> IsStart(i)) /\ (IsRemoval(i)' <=> IsRemoval(i))
                                     /\ cmds'[i] = cmds[i]
           /\ cmds'[Last].kind = kind /\ cmds'[Last].generation = generation /\ cmds'[Last].acked = FALSE
BY DEF Grows, Pending, IsKick, IsStop, IsStart, IsRemoval

\* Each command is of one kind.
LEMMA OneKind ==
    ASSUME TypeOK, NEW i \in DOMAIN cmds
    PROVE  /\ IsKick(i) \/ IsStop(i) \/ IsStart(i) \/ IsRemoval(i)
           /\ IsKick(i) => ~IsStop(i) /\ ~IsStart(i) /\ ~IsRemoval(i)
           /\ IsStop(i) => ~IsStart(i) /\ ~IsRemoval(i)
           /\ IsStart(i) => ~IsRemoval(i)
<1>1. cmds[i].kind \in Kind
  BY Types
<1> QED
  BY <1>1 DEF IsKick, IsStop, IsStart, IsRemoval, Kind, Stops

\* A pending command that moves the lifecycle is alone, and the node is not in service.
LEMMA Alone ==
    ASSUME Placed, Lifecycles, NEW i \in Pending, ~IsKick(i), Paired
    PROVE  /\ ~Serving /\ Pending = {i}
           /\ node.lifecycle \in {"stopping", "starting", "disconnecting"}
           /\ IsStop(i) => node.lifecycle = "stopping"
           /\ IsStart(i) => node.lifecycle = "starting"
           /\ IsRemoval(i) => node.lifecycle = "disconnecting"
<1>1. IsStop(i) \/ IsStart(i) \/ IsRemoval(i)
  BY PlacedFacts, OneKind DEF Pending
<1> QED
  BY <1>1 DEF Lifecycles, Serving

\* So is one that is being executed, as long as the node is paired.
LEMMA Owed ==
    ASSUME Placed, Lifecycles, Paired, NEW i \in DOMAIN cmds, i \notin disk.done, ~IsKick(i)
    PROVE  /\ i \in Pending /\ ~Serving /\ Pending = {i}
           /\ node.lifecycle \in {"stopping", "starting", "disconnecting"}
           /\ IsStop(i) => node.lifecycle = "stopping"
           /\ IsStart(i) => node.lifecycle = "starting"
           /\ IsRemoval(i) => node.lifecycle = "disconnecting"
<1>1. i \in Pending
  BY DEF Lifecycles, Pending
<1> QED
  BY <1>1, Alone

LEMMA LifecyclesAgent ==
    ASSUME Placed, Lifecycles, AgentEffect
    PROVE  Lifecycles'
<1>1. PICK S \in SUBSET DOMAIN cmds : Acks(S) /\ \A i \in S : i \in Pending /\ IsKick(i)
  BY DEF AgentEffect, Calm, Polls, Superseded, IsKick
<1>2. /\ Pending' = Pending \ S /\ DOMAIN cmds' = DOMAIN cmds
      /\ \A i \in DOMAIN cmds : /\ (IsKick(i)' <=> IsKick(i)) /\ (IsStop(i)' <=> IsStop(i))
                                /\ (IsStart(i)' <=> IsStart(i)) /\ (IsRemoval(i)' <=> IsRemoval(i))
                                /\ cmds'[i].acked <=> cmds[i].acked \/ i \in S
  BY <1>1, PendingAcks
<1>3. /\ node' = node
      /\ disk'.done = disk.done \/ (At("record") /\ disk'.done = disk.done \cup {agent.cur})
      /\ \/ disk'.stopped = disk.stopped
         \/ At("flag") /\ disk'.stopped
         \/ At("unflag") /\ ~disk'.stopped
  BY DEF AgentEffect, Calm, Settles
<1>4. Pending \subseteq DOMAIN cmds /\ TypeOK
  BY PlacedFacts DEF Pending
<1>5. At("flag") \/ At("unflag") \/ At("record") => agent.cur \in DOMAIN cmds /\ agent.cur \notin disk.done
  BY AtHand DEF At, Pcs, Between, Draw
<1>6. (At("unflag") => IsStart(agent.cur)) /\ (At("flag") => ~IsStart(agent.cur) /\ ~IsKick(agent.cur))
  BY AtHand DEF At, Draw
<1>7. At("unflag") /\ Paired => /\ Pending = {agent.cur} /\ ~Serving /\ node.lifecycle = "starting"
  BY <1>4, <1>5, <1>6, Owed, OneKind
<1>8. At("flag") /\ Paired => Pending = {agent.cur} /\ ~Serving
  BY <1>5, <1>6, Owed
<1>9. ~Paired => \A i \in Pending : ~IsStop(i) /\ ~IsStart(i)
  BY <1>4, OneKind DEF Lifecycles
<1>10. \A i \in Pending' \cap disk'.done :
         i \in Pending /\ (i \in disk.done \/ (At("record") /\ i = agent.cur))
  BY <1>2, <1>3
<1>11. \A i \in Pending' \cap disk'.done : IsStop(i)' => disk'.stopped
  <2> SUFFICES ASSUME NEW i \in Pending' \cap disk'.done, IsStop(i)
               PROVE  disk'.stopped
    BY <1>2, <1>4, <1>10
  <2>1. Paired
    BY <1>9, <1>10
  <2>2. ~At("unflag")
    <3>1. At("unflag") => i = agent.cur /\ ~At("record")
      BY <1>7, <1>10, <2>1 DEF At
    <3> QED
      BY <1>5, <1>10, <3>1
  <2>3. disk.stopped
    BY <1>10 DEF Lifecycles
  <2> QED
    BY <1>3, <2>2, <2>3
<1>12. \A i \in Pending' \cap disk'.done : IsStart(i)' => ~disk'.stopped
  <2> SUFFICES ASSUME NEW i \in Pending' \cap disk'.done, IsStart(i)
               PROVE  ~disk'.stopped
    BY <1>2, <1>4, <1>10
  <2>1. Paired
    BY <1>9, <1>10
  <2>2. ~At("flag")
    <3>1. At("flag") => i = agent.cur /\ ~At("record")
      BY <1>8, <1>10, <2>1 DEF At
    <3> QED
      BY <1>5, <1>10, <3>1
  <2>3. ~disk.stopped
    BY <1>10 DEF Lifecycles
  <2> QED
    BY <1>3, <2>2, <2>3
<1>13. /\ Serving => ~disk'.stopped
       /\ Paired /\ node.lifecycle \in {"stopped", "archived"} => disk'.stopped
  <2>1. CASE disk'.stopped = disk.stopped
    BY <2>1 DEF Lifecycles
  <2>2. CASE At("flag") /\ disk'.stopped
    BY <1>8, <2>2 DEF Serving
  <2>3. CASE At("unflag") /\ ~disk'.stopped
    BY <1>7, <2>3
  <2> QED
    BY <1>3, <2>1, <2>2, <2>3
<1>14. /\ At("again")' \/ At("marker")' \/ (At("record")' /\ IsStop(agent.cur)') => disk'.stopped
       /\ At("record")' /\ IsStart(agent.cur)' => ~disk'.stopped
  <2>1. Advances
    BY DEF AgentEffect
  <2>2. CASE agent'.pc \in Free
    BY <2>2 DEF Free, Between, At
  <2>3. CASE agent'.pc \in {"waiting", "online", "collect", "flush", "halt", "flag"}
    BY <2>3 DEF At
  <2>4. CASE agent'.pc = "again" /\ disk.stopped /\ At("take")
    BY <1>3, <2>4 DEF At
  <2>5. CASE /\ agent'.pc \in {"marker", "record"} /\ agent'.cur = agent.cur
             /\ At("again") \/ (At("flag") /\ disk'.stopped)
    <3>1. disk'.stopped
      BY <1>3, <2>5 DEF At, Lifecycles
    <3>2. agent.cur \in DOMAIN cmds /\ ~IsStart(agent.cur)
      BY <2>5, AtHand DEF At, Pcs, Between, Draw
    <3>3. ~IsStart(agent.cur)'
      BY <1>2, <2>5, <3>2 DEF IsStart
    <3> QED
      BY <3>1, <3>3
  <2>6. CASE agent'.pc = "record" /\ agent'.cur = agent.cur /\ At("unflag") /\ ~disk'.stopped
    <3>1. agent.cur \in DOMAIN cmds /\ ~IsStop(agent.cur)
      BY <1>4, <1>5, <1>6, <2>6, OneKind
    <3>2. ~IsStop(agent.cur)'
      BY <1>2, <2>6, <3>1 DEF IsStop
    <3> QED
      BY <2>6, <3>2 DEF At
  <2>7. CASE agent'.pc = "record" /\ agent'.cur = agent.cur /\ At("look")
    <3>1. agent.cur \in DOMAIN cmds /\ ~IsStop(agent.cur) /\ ~IsStart(agent.cur)
      BY <1>4, <2>7, AtHand, OneKind DEF At, Pcs, Between
    <3>2. ~IsStop(agent.cur)' /\ ~IsStart(agent.cur)'
      BY <1>2, <2>7, <3>1 DEF IsStop, IsStart
    <3> QED
      BY <2>7, <3>2 DEF At
  <2> QED
    BY <2>1, <2>2, <2>3, <2>4, <2>5, <2>6, <2>7 DEF Advances
<1>15. \A i, j \in Pending' : ~IsKick(i)' => i = j
  BY <1>2, <1>4 DEF Lifecycles
<1>16. /\ ~Paired' => \A i \in Pending' : IsRemoval(i)'
       /\ Paired' => \A i \in Pending' : /\ IsStop(i)' => node'.lifecycle = "stopping"
                                         /\ IsStart(i)' => node'.lifecycle = "starting"
                                         /\ IsRemoval(i)' => node'.lifecycle = "disconnecting"
  BY <1>2, <1>3, <1>4 DEF Lifecycles, Paired
<1>17. Paired' => \A i \in DOMAIN cmds' : ~IsKick(i)' /\ cmds'[i].acked => i \in disk'.done
  BY <1>1, <1>2, <1>3 DEF Lifecycles, Paired
<1> QED
  BY <1>3, <1>11, <1>12, <1>13, <1>14, <1>15, <1>16, <1>17 DEF Lifecycles, Paired, Serving

LEMMA RecordStays ==
    ASSUME Placed, Lifecycles, Keeps, disk' = disk, agent' = agent \/ agent'.pc = "take"
    PROVE  /\ At("again")' \/ At("marker")' \/ (At("record")' /\ IsStop(agent.cur)') => disk'.stopped
           /\ At("record")' /\ IsStart(agent.cur)' => ~disk'.stopped
<1>1. CASE agent' = agent
  <2>1. At("record") => agent.cur \in DOMAIN cmds
    BY AtHand DEF At, Pcs, Between
  <2>2. At("record") => (IsStop(agent.cur)' <=> IsStop(agent.cur)) /\ (IsStart(agent.cur)' <=> IsStart(agent.cur))
    BY <1>1, <2>1, KindsStay DEF IsStop, IsStart
  <2> QED
    BY <1>1, <2>2 DEF Lifecycles, At
<1>2. CASE agent'.pc = "take"
  BY <1>2 DEF At
<1> QED
  BY <1>1, <1>2

\* Sessions say nothing about the lifecycle.
LEMMA LifecyclesElsewhere ==
    ASSUME Placed, Lifecycles, UNCHANGED <<node, cmds, disk>>, agent' = agent \/ agent'.pc = "take"
    PROVE  Lifecycles'
<1>1. Keeps
  BY PlacedFacts, SameQueue
<1>2. Pending' = Pending
  BY DEF Pending
<1>3. \A i \in DOMAIN cmds : /\ (IsKick(i)' <=> IsKick(i)) /\ (IsStop(i)' <=> IsStop(i))
                             /\ (IsStart(i)' <=> IsStart(i)) /\ (IsRemoval(i)' <=> IsRemoval(i))
  BY <1>1, KindsStay
<1>4. Pending \subseteq DOMAIN cmds
  BY DEF Pending
<1> QED
  BY <1>1, <1>2, <1>3, <1>4, RecordStays DEF Lifecycles, Paired, Serving

LEMMA LifecyclesAnswer ==
    ASSUME Placed, Lifecycles, AnswerEffect
    PROVE  Lifecycles'
<1>1. Keeps /\ disk' = disk /\ (agent' = agent \/ agent'.pc = "take")
  BY DEF AnswerEffect, Leaves
<1>2. CASE UNCHANGED <<node, cmds>>
  BY <1>2, LifecyclesElsewhere DEF AnswerEffect, Leaves
<1>3. ASSUME NEW i \in DOMAIN cmds, Completes(i), i \in disk.done \/ IsRemoval(i)
      PROVE  Lifecycles'
  <2>1. /\ Keeps /\ disk' = disk /\ (agent' = agent \/ agent'.pc = "take")
        /\ i \in Pending /\ TypeOK
    BY <1>3, PlacedFacts DEF AnswerEffect, Leaves, Completes, Pending
  <2>2. /\ Pending' = Pending \ {i} /\ DOMAIN cmds' = DOMAIN cmds
        /\ \A j \in DOMAIN cmds : /\ (IsKick(j)' <=> IsKick(j)) /\ (IsStop(j)' <=> IsStop(j))
                                  /\ (IsStart(j)' <=> IsStart(j)) /\ (IsRemoval(j)' <=> IsRemoval(j))
                                  /\ cmds'[j].acked <=> cmds[j].acked \/ j \in {i}
    BY <1>3, PendingAcks DEF Completes
  <2>3. /\ node'.lifecycle = LifecycleAfter(cmds[i].kind)
        /\ node'.status = IF IsRemoval(i) /\ node.lifecycle = "disconnecting" THEN "revoked" ELSE node.status
        /\ Paired \/ IsRemoval(i)
    BY <1>3 DEF Completes
  <2>4. Pending \subseteq DOMAIN cmds /\ \A j \in Pending : ~IsKick(j) => Pending = {j}
    BY DEF Lifecycles, Pending
  <2>5. \A j \in Pending' : IsKick(j)'
    BY <2>1, <2>2, <2>4
  <2>6. /\ At("again")' \/ At("marker")' \/ (At("record")' /\ IsStop(agent.cur)') => disk'.stopped
        /\ At("record")' /\ IsStart(agent.cur)' => ~disk'.stopped
    BY <2>1, RecordStays
  <2>7. \A j \in Pending' : j \in DOMAIN cmds /\ ~IsStop(j)' /\ ~IsStart(j)' /\ ~IsRemoval(j)'
    BY <2>1, <2>2, <2>4, <2>5, OneKind
  <2>8. /\ ~Paired' => Pending' = {}
        /\ Paired' => \A j \in DOMAIN cmds' : ~IsKick(j)' /\ cmds'[j].acked => j \in disk.done
        /\ Serving' => ~disk.stopped
        /\ Paired' /\ node'.lifecycle \in {"stopped", "archived"} => disk.stopped
    <3>1. CASE ~Paired
      <4>1. Pending' = {}
        <5>1. \A j \in Pending : ~IsKick(j)
          BY <2>1, <2>4, <3>1, OneKind DEF Lifecycles
        <5> QED
          BY <2>1, <2>2, <2>4, <5>1
      <4>2. node.status # "pending_verification" /\ node'.status # "pending_verification"
        BY <2>3, <3>1 DEF Paired
      <4> QED
        BY <4>1, <4>2 DEF Paired, Serving
    <3>2. CASE Paired /\ IsRemoval(i)
      <4>1. node.lifecycle = "disconnecting" /\ ~IsKick(i)
        BY <2>1, <2>4, <3>2, OneKind DEF Lifecycles
      <4>2. ~Paired' /\ Pending' = {}
        BY <2>1, <2>2, <2>3, <2>4, <3>2, <4>1 DEF Paired
      <4> QED
        BY <4>2 DEF Serving, Paired
    <3>3. CASE Paired /\ ~IsRemoval(i)
      <4>1. node'.status = node.status /\ i \in disk.done
        BY <1>3, <2>3, <3>3
      <4>2. \A j \in DOMAIN cmds' : ~IsKick(j)' /\ cmds'[j].acked => j \in disk.done
        BY <2>2, <3>3, <4>1 DEF Lifecycles
      <4>3. CASE IsStop(i)
        <5>1. node'.lifecycle = "stopped" /\ disk.stopped
          BY <2>1, <2>3, <3>3, <4>1, <4>3, LifecycleAfterIs DEF Lifecycles
        <5> QED
          BY <3>3, <4>1, <4>2, <5>1 DEF Paired, Serving
      <4>4. CASE IsStart(i)
        <5>1. node'.lifecycle = "active" /\ ~disk.stopped
          BY <2>1, <2>3, <3>3, <4>1, <4>4, LifecycleAfterIs DEF Lifecycles
        <5> QED
          BY <3>3, <4>1, <4>2, <5>1 DEF Paired, Serving
      <4>5. CASE IsKick(i)
        <5>1. ~IsStop(i) /\ ~IsStart(i) /\ ~IsRemoval(i)
          BY <2>1, <4>5, OneKind
        <5>2. node'.lifecycle = node.lifecycle
          BY <2>1, <2>3, <5>1, LifecycleAfterIs
        <5> QED
          BY <3>3, <4>1, <4>2, <5>2 DEF Paired, Serving, Lifecycles
      <4> QED
        BY <2>1, <3>3, <4>3, <4>4, <4>5, OneKind
    <3> QED
      BY <3>1, <3>2, <3>3
  <2> QED
    BY <2>1, <2>2, <2>5, <2>6, <2>7, <2>8 DEF Lifecycles
<1> QED
  BY <1>2, <1>3 DEF AnswerEffect

\* A kick is queued only while the node is in service.
LEMMA UserActionIs ==
    ASSUME Placed, UserAction
    PROVE  /\ UNCHANGED <<node, disk, agent, worker, plane, login, wire>> /\ Keeps
           /\ cmds' = cmds \/ (Serving /\ \E g \in Nat : Grows("KICK_USERS", g))
<1>1. TypeOK /\ Security \in Nat /\ user.generation \in Nat
  BY PlacedFacts, Types DEF Security, UserType
<1>2. UNCHANGED <<node, disk, agent, worker, plane, login, wire>>
  BY DEF UserAction, Revoke, Reset, KickOwed, Expire, Exhaust, PanelFails, nodeVars
<1>3. \/ cmds' = cmds
      \/ \E g \in Nat : cmds' = QueueKick(cmds, g) /\ Len(cmds') <= MaxCommands
  BY <1>1 DEF UserAction, Revoke, Reset, KickOwed, Expire, Exhaust, PanelFails
<1> QED
  BY <1>1, <1>2, <1>3, QueueKickKeeps, SameQueue

LEMMA LifecyclesUser ==
    ASSUME Placed, Lifecycles, UserAction
    PROVE  Lifecycles'
<1>1. CASE UNCHANGED <<node, cmds, disk, agent>>
  BY <1>1, LifecyclesElsewhere
<1>2. ASSUME NEW g \in Nat, Serving, Grows("KICK_USERS", g), UNCHANGED <<node, disk, agent>>, Keeps
      PROVE  Lifecycles'
  <2>1. /\ Pending' = Pending \cup {Last} /\ DOMAIN cmds' = DOMAIN cmds \cup {Last} /\ Last \notin DOMAIN cmds
        /\ \A i \in DOMAIN cmds : /\ (IsKick(i)' <=> IsKick(i)) /\ (IsStop(i)' <=> IsStop(i))
                                  /\ (IsStart(i)' <=> IsStart(i)) /\ (IsRemoval(i)' <=> IsRemoval(i))
                                  /\ cmds'[i] = cmds[i]
        /\ cmds'[Last].kind = "KICK_USERS" /\ cmds'[Last].acked = FALSE
    BY <1>2, PendingGrows
  <2>2. Paired /\ Pending \subseteq DOMAIN cmds /\ TypeOK
    BY <1>2, PlacedFacts DEF Serving, Pending
  <2>3. \A i \in Pending : IsKick(i)
    BY <1>2, <2>2, Alone
  <2>4. \A i \in Pending' : cmds'[i].kind = "KICK_USERS"
    BY <2>1, <2>2, <2>3 DEF IsKick
  <2>5. \A i \in Pending' : IsKick(i)' /\ ~IsStop(i)' /\ ~IsStart(i)' /\ ~IsRemoval(i)'
    BY <2>4 DEF IsKick, IsStop, IsStart, IsRemoval, Stops
  <2>6. \A i \in DOMAIN cmds' : ~IsKick(i)' /\ cmds'[i].acked => i \in disk'.done
    BY <1>2, <2>1, <2>2 DEF Lifecycles
  <2>7. /\ At("again")' \/ At("marker")' \/ (At("record")' /\ IsStop(agent.cur)') => disk'.stopped
        /\ At("record")' /\ IsStart(agent.cur)' => ~disk'.stopped
    BY <1>2, RecordStays
  <2> QED
    BY <1>2, <2>2, <2>5, <2>6, <2>7 DEF Lifecycles, Paired, Serving
<1> QED
  BY <1>1, <1>2, UserActionIs

LEMMA LifecyclesNode ==
    ASSUME Placed, Lifecycles, NodeAction
    PROVE  Lifecycles'
<1>1. /\ TypeOK /\ PanelMove /\ UNCHANGED <<user, disk, agent, worker, plane, login, wire>>
      /\ Pending \subseteq DOMAIN cmds
  BY PlacedFacts, NodeActionIs DEF Pending
<1>2. Keeps
  BY <1>1, SameQueue DEF PanelMove, Orders
<1>3. /\ At("again")' \/ At("marker")' \/ (At("record")' /\ IsStop(agent.cur)') => disk'.stopped
      /\ At("record")' /\ IsStart(agent.cur)' => ~disk'.stopped
  BY <1>1, <1>2, RecordStays
<1>4. ASSUME UNCHANGED cmds, node'.status = node.status,
             \/ node'.lifecycle = node.lifecycle
             \/ Serving /\ node'.lifecycle \in InService
             \/ Paired /\ node.lifecycle = "stopped" /\ node'.lifecycle = "archived"
      PROVE  Lifecycles'
  <2>1. Pending' = Pending /\ DOMAIN cmds' = DOMAIN cmds
    BY <1>4 DEF Pending
  <2>2. \A i \in DOMAIN cmds : /\ (IsKick(i)' <=> IsKick(i)) /\ (IsStop(i)' <=> IsStop(i))
                               /\ (IsStart(i)' <=> IsStart(i)) /\ (IsRemoval(i)' <=> IsRemoval(i))
    BY <1>2, KindsStay
  <2>3. Paired' <=> Paired
    BY <1>4 DEF Paired
  <2>4. Paired => \A i \in Pending : /\ IsStop(i) => node'.lifecycle = "stopping"
                                     /\ IsStart(i) => node'.lifecycle = "starting"
                                     /\ IsRemoval(i) => node'.lifecycle = "disconnecting"
    <3>1. CASE node'.lifecycle = node.lifecycle
      BY <3>1 DEF Lifecycles
    <3>2. CASE node'.lifecycle # node.lifecycle
      <4>1. \A i \in Pending : IsKick(i)
        BY <1>4, <3>2, Alone DEF Serving
      <4> QED
        BY <1>1, <4>1, OneKind
    <3> QED
      BY <3>1, <3>2
  <2>5. Serving' => ~disk.stopped
    BY <1>4, <2>3 DEF Lifecycles, Serving
  <2>6. Paired /\ node'.lifecycle \in {"stopped", "archived"} => disk.stopped
    BY <1>4 DEF Lifecycles, InService
  <2> QED
    BY <1>1, <1>3, <1>4, <2>1, <2>2, <2>3, <2>4, <2>5, <2>6 DEF Lifecycles
<1>5. ASSUME NEW kind \in Kind \ {"KICK_USERS"}, NEW from, NEW to, Orders(kind, from, to),
             kind \in Stops => to = "stopping", kind = "START_DATA_PLANE" => to = "starting",
             kind = "UNINSTALL_NODE" => to = "disconnecting"
      PROVE  Lifecycles'
  <2>1. /\ Pending' = Pending \cup {Last} /\ DOMAIN cmds' = DOMAIN cmds \cup {Last} /\ Last \notin DOMAIN cmds
        /\ \A i \in DOMAIN cmds : /\ (IsKick(i)' <=> IsKick(i)) /\ cmds'[i] = cmds[i]
        /\ cmds'[Last].kind = kind /\ cmds'[Last].acked = FALSE
    BY <1>5, PendingGrows DEF Orders
  <2>2. Pending' = {Last} /\ Paired /\ Paired' /\ node'.lifecycle = to
    BY <1>5, <2>1 DEF Orders, Shifts, NodeMoves, Paired
  <2>3. to \in {"stopping", "starting", "disconnecting"}
    BY <1>5 DEF Kind
  <2>4. \A i \in Pending' : /\ IsStop(i)' => node'.lifecycle = "stopping"
                            /\ IsStart(i)' => node'.lifecycle = "starting"
                            /\ IsRemoval(i)' => node'.lifecycle = "disconnecting"
    <3>1. \A i \in Pending' : cmds'[i].kind = kind
      BY <2>1, <2>2
    <3> QED
      BY <1>5, <2>2, <3>1 DEF IsStop, IsStart, IsRemoval
  <2>5. \A i \in DOMAIN cmds' : ~IsKick(i)' /\ cmds'[i].acked => i \in disk'.done
    BY <1>1, <2>1, <2>2 DEF Lifecycles
  <2>6. Last \notin disk.done
    BY <2>1 DEF Placed
  <2> QED
    BY <1>1, <1>3, <2>2, <2>3, <2>4, <2>5, <2>6 DEF Lifecycles, Serving
<1>6. ASSUME node'.status = "revoked", Acks({i \in DOMAIN cmds : ~IsRemoval(i)})
      PROVE  Lifecycles'
  <2> DEFINE S == {i \in DOMAIN cmds : ~IsRemoval(i)}
  <2>1. /\ Pending' = Pending \ S /\ DOMAIN cmds' = DOMAIN cmds
        /\ \A i \in DOMAIN cmds : /\ (IsKick(i)' <=> IsKick(i)) /\ (IsStop(i)' <=> IsStop(i))
                                  /\ (IsStart(i)' <=> IsStart(i)) /\ (IsRemoval(i)' <=> IsRemoval(i))
    BY <1>6, PendingAcks
  <2>2. ~Paired' /\ ~Serving'
    BY <1>6 DEF Paired, Serving
  <2>3. \A i \in Pending' : i \in Pending /\ IsRemoval(i) /\ IsRemoval(i)' /\ ~IsStop(i)' /\ ~IsStart(i)' /\ ~IsKick(i)
    BY <1>1, <2>1, OneKind
  <2>4. \A i, j \in Pending' : i = j
    BY <2>3 DEF Lifecycles
  <2> QED
    BY <1>3, <2>2, <2>3, <2>4 DEF Lifecycles
<1>7. CASE NodeMoves(node.lifecycle) /\ UNCHANGED cmds
  BY <1>4, <1>7 DEF NodeMoves
<1>8. CASE \E to \in InService : Shifts(InService, to) /\ UNCHANGED cmds
  <2>1. PICK to \in InService : Shifts(InService, to) /\ UNCHANGED cmds
    BY <1>8
  <2> QED
    BY <1>4, <2>1 DEF Shifts, NodeMoves, InService, Serving
<1>9. CASE Shifts({"stopped"}, "archived") /\ UNCHANGED cmds
  BY <1>4, <1>9 DEF Shifts, NodeMoves
<1>10. CASE \E kind \in Stops : Orders(kind, InService, "stopping")
  <2>1. PICK kind \in Stops : Orders(kind, InService, "stopping")
    BY <1>10
  <2>2. kind \in Kind \ {"KICK_USERS"} /\ kind # "START_DATA_PLANE" /\ kind # "UNINSTALL_NODE"
    BY DEF Kind, Stops
  <2> QED
    BY <1>5, <2>1, <2>2
<1>11. CASE Orders("START_DATA_PLANE", {"stopped"}, "starting")
  BY <1>5, <1>11 DEF Kind, Stops
<1>12. CASE Orders("UNINSTALL_NODE", InService, "disconnecting")
  BY <1>5, <1>12 DEF Kind, Stops
<1> QED
  BY <1>1, <1>6, <1>7, <1>8, <1>9, <1>10, <1>11, <1>12 DEF PanelMove

LEMMA StepLifecycles ==
    ASSUME Placed, Lifecycles, [Next]_vars
    PROVE  Lifecycles'
<1>1. CASE SessionEffect
  BY <1>1, LifecyclesElsewhere DEF SessionEffect
<1>2. CASE \E l \in Login : Approve(l)
  BY <1>2, PlacedApprove, LifecyclesElsewhere
<1> QED
  BY <1>1, <1>2, StepPlaced, LifecyclesAgent, LifecyclesAnswer, LifecyclesUser, LifecyclesNode DEF StepKind

-----------------------------------------------------------------------------
(* The third layer: what a stop has achieved.                               *)

\* Nobody is let in on a node that is being stopped.
LEMMA NobodyEnters ==
    ASSUME Placed, Lifecycles, Serving
    PROVE  ~disk.stopped /\ agent.pc \notin Draw
<1>1. Paired /\ ~disk.stopped
  BY DEF Serving, Lifecycles
<1>2. agent.pc \in Draw => agent.cur \in DOMAIN cmds /\ agent.cur \notin disk.done /\ ~IsKick(agent.cur)
  BY AtHand DEF Pcs, Between, Draw
<1> QED
  BY <1>1, <1>2, Owed

LEMMA DrainedStays ==
    ASSUME Drained, Sessions' \subseteq Sessions, plane'.tail => plane.tail \/ Open # {},
           disk'.spool => disk.spool \/ Counted
    PROVE  Drained'
BY DEF Drained, Sessions, Counted

LEMMA DrainingAgent ==
    ASSUME Placed, Draining, AgentEffect
    PROVE  Draining'
<1>1. /\ node' = node /\ Sessions' \subseteq Sessions /\ Open' \subseteq Open /\ Flight' \subseteq Flight
      /\ plane'.tail => plane.tail
      /\ disk'.spool => disk.spool \/ Counted
      /\ disk'.stopped => disk.stopped \/ At("flag")
      /\ Advances
  BY DEF AgentEffect, Calm, Settles, Fewer
<1>2. Drained => Drained'
  BY <1>1, DrainedStays
<1>3. disk'.stopped => Drained'
  BY <1>1, <1>2 DEF Draining
<1>4. Paired' /\ node'.lifecycle \in {"stopped", "archived", "starting"} => Sessions' = {}
  BY <1>1 DEF Draining, Paired
<1>5. CASE agent'.pc \in Free \cup {"again", "marker", "record"}
  BY <1>3, <1>4, <1>5 DEF Draining, At, Free, Between
<1>6. CASE agent'.pc = "waiting" /\ agent'.wait = Flight
  BY <1>1, <1>3, <1>4, <1>6 DEF Draining, At
<1>7. CASE agent'.pc = "online"
  <2>1. Flight = {}
    BY <1>1, <1>7 DEF Advances, Free, Between, Draining, At
  <2> QED
    BY <1>1, <1>3, <1>4, <1>7, <2>1 DEF Draining, At
<1>8. CASE agent'.pc = "collect"
  <2>1. Flight = {}
    BY <1>1, <1>8 DEF Advances, Free, Between, Draining, At
  <2> QED
    BY <1>1, <1>3, <1>4, <1>8, <2>1 DEF Draining, At
<1>9. CASE agent'.pc = "flush"
  <2>1. Flight = {} /\ Open = {} /\ ~plane'.tail
    BY <1>1, <1>9 DEF Advances, Free, Between, Draining, At
  <2> QED
    BY <1>1, <1>3, <1>4, <1>9, <2>1 DEF Draining, At
<1>10. CASE agent'.pc = "halt"
  <2>1. At("flush") /\ ~plane'.tail /\ ~disk'.spool
    BY <1>1, <1>10 DEF Advances, Free, Between
  <2>2. Drained'
    BY <1>1, <2>1 DEF Draining, Drained, Sessions, At
  <2> QED
    BY <1>3, <1>4, <1>10, <2>2 DEF Draining, At
<1>11. CASE agent'.pc = "flag"
  <2>1. At("halt")
    BY <1>1, <1>11 DEF Advances, Free, Between
  <2>2. Drained'
    BY <1>2, <2>1 DEF Draining
  <2> QED
    BY <1>3, <1>4, <1>11, <2>2 DEF Draining, At
<1> QED
  BY <1>1, <1>5, <1>6, <1>7, <1>8, <1>9, <1>10, <1>11 DEF Advances

\* Steps that leave the servers, the logins and the disk as they are.
LEMMA DrainingElsewhere ==
    ASSUME Draining, Lifecycles', UNCHANGED <<disk, plane, login>>, agent' = agent \/ agent'.pc = "take",
           Paired' /\ node'.lifecycle = "starting" => Paired /\ node.lifecycle \in {"starting", "stopped"}
    PROVE  Draining'
<1>1. Sessions' = Sessions /\ Flight' = Flight /\ Open' = Open /\ (Drained' <=> Drained)
  BY DEF Sessions, Flight, Open, Drained
<1>2. Paired' /\ node'.lifecycle \in {"stopped", "archived"} => disk'.stopped
  BY DEF Lifecycles
<1>3. Paired' /\ node'.lifecycle \in {"stopped", "archived", "starting"} => Sessions' = {}
  BY <1>1, <1>2 DEF Draining, Drained
<1> QED
  BY <1>1, <1>3 DEF Draining, At

LEMMA StepDraining ==
    ASSUME Placed, Lifecycles, Draining, [Next]_vars
    PROVE  Draining'
<1>1. StepKind /\ Lifecycles' /\ TypeOK
  BY StepPlaced, StepLifecycles, PlacedFacts
<1>2. CASE AnswerEffect
  <2>1. UNCHANGED <<disk, plane, login>> /\ (agent' = agent \/ agent'.pc = "take")
    BY <1>2 DEF AnswerEffect, Leaves
  <2>2. CASE UNCHANGED <<node, cmds>>
    BY <1>1, <2>1, <2>2, DrainingElsewhere DEF Paired
  <2>3. ASSUME NEW i \in DOMAIN cmds, Completes(i)
        PROVE  Draining'
    <3>1. node'.lifecycle = "starting" => node.lifecycle = "starting"
      BY <1>1, <2>3, LifecycleAfterIs DEF Completes
    <3>2. Paired' => Paired
      BY <2>3 DEF Completes, Paired
    <3> QED
      BY <1>1, <2>1, <3>1, <3>2, DrainingElsewhere
  <2> QED
    BY <1>2, <2>2, <2>3 DEF AnswerEffect
<1>3. CASE UserAction
  BY <1>1, <1>3, UserActionIs, DrainingElsewhere DEF Paired
<1>4. CASE NodeAction
  <2>1. PanelMove /\ UNCHANGED <<disk, agent, plane, login>>
    BY <1>1, <1>4, NodeActionIs
  <2>2. Paired' /\ node'.lifecycle = "starting" => Paired /\ node.lifecycle \in {"starting", "stopped"}
    BY <2>1 DEF PanelMove, NodeMoves, Shifts, Orders, InService, Paired
  <2> QED
    BY <1>1, <2>1, <2>2, DrainingElsewhere
<1>5. CASE SessionEffect
  <2>1. /\ UNCHANGED <<node, disk, agent>> /\ Sessions' \subseteq Sessions /\ Flight' \subseteq Flight
        /\ plane'.tail => plane.tail \/ Open # {}
    BY <1>5 DEF SessionEffect, Fewer
  <2>2. Drained => Drained'
    BY <2>1, DrainedStays
  <2>3. At("flush") => Open' = {} /\ ~plane'.tail
    BY <2>1 DEF Draining, Sessions, At
  <2> QED
    BY <2>1, <2>2, <2>3 DEF Draining, At, Paired
<1>6. CASE \E l \in Login : Approve(l)
  <2>1. Serving /\ UNCHANGED <<node, disk, agent>>
    BY <1>6, PlacedApprove DEF Admits
  <2>2. ~disk.stopped /\ agent.pc \notin Draw
    BY <2>1, NobodyEnters
  <2> QED
    BY <2>1, <2>2 DEF Draining, At, Draw, Serving, Paired
<1> QED
  BY <1>1, <1>2, <1>3, <1>4, <1>5, <1>6, DrainingAgent DEF StepKind

-----------------------------------------------------------------------------
(* The fourth layer: kicks.                                                 *)

KickBounds ==
    /\ user.told <= user.cred /\ user.generation \in Nat \ {Security}
    /\ \A i \in DOMAIN cmds : cmds[i].generation <= user.generation
                              /\ (cmds[i].generation = user.generation => user.over)

KickProgress ==
    \A i \in DOMAIN cmds : Covering(i) =>
       /\ i \in agent.watched => Sessions \subseteq agent.quiet[i]
       /\ i \in disk.done \/ (At("record") /\ agent.cur = i) => Sessions = {}

KickReach ==
    /\ Attended /\ ~KickPending => \A l \in Sessions : login[l].cred >= user.told
    /\ Attended /\ user.over /\ user.told = user.cred => Sessions = {} \/ \E i \in DOMAIN cmds : Covering(i)

LEMMA KickingIs == Kicking <=> KickBounds /\ KickProgress /\ KickReach
BY DEF Kicking, KickBounds, KickProgress, KickReach

\* A kick of the account itself is never superseded.
LEMMA SecurityCovers ==
    /\ KickPending <=> \E i \in DOMAIN cmds : Covering(i) /\ cmds[i].generation = Security
    /\ \A i \in DOMAIN cmds : Covering(i) /\ cmds[i].generation # Security => user.over
BY DEF KickPending, Covering, Superseded, IsKick, Pending

\* While the user's record stays, a kick stays wanted until it is acknowledged.
LEMMA CoveringStays ==
    ASSUME Keeps, user' = user, NEW i \in DOMAIN cmds
    PROVE  /\ Covering(i)' => Covering(i)
           /\ Covering(i) /\ i \in Pending' => Covering(i)'
<1>1. /\ i \in DOMAIN cmds' /\ cmds'[i].kind = cmds[i].kind /\ cmds'[i].generation = cmds[i].generation
      /\ i \in Pending' => i \in Pending
  BY DEF Keeps, Pending
<1> QED
  BY <1>1 DEF Covering, Superseded, IsKick

LEMMA BoundsStay ==
    ASSUME KickBounds, user' = user, DOMAIN cmds' = DOMAIN cmds, Keeps
    PROVE  KickBounds'
BY DEF KickBounds, Keeps

\* Fewer sessions reach as little.
LEMMA ReachStays ==
    ASSUME KickReach, Keeps, UNCHANGED <<user, node>>, Fewer,
           \A i \in DOMAIN cmds : Covering(i) => i \in Pending'
    PROVE  KickReach'
<1>1. \A i \in DOMAIN cmds : Covering(i) => i \in DOMAIN cmds' /\ Covering(i)'
                                            /\ cmds'[i].generation = cmds[i].generation
  BY CoveringStays DEF Keeps
<1>2. KickPending => KickPending'
  <2>1. KickPending => \E i \in DOMAIN cmds : Covering(i) /\ cmds[i].generation = Security
    BY SecurityCovers
  <2>2. ASSUME NEW i \in DOMAIN cmds, Covering(i), cmds[i].generation = Security
        PROVE  KickPending'
    <3>1. i \in Pending' /\ cmds'[i].kind = "KICK_USERS" /\ cmds'[i].generation = Security
      BY <1>1, <2>2 DEF Covering, IsKick
    <3> QED
      BY <3>1 DEF KickPending
  <2> QED
    BY <2>1, <2>2
<1>3. Attended' <=> Attended
  BY DEF Attended, Paired
<1> QED
  BY <1>1, <1>2, <1>3 DEF KickReach, Fewer

LEMMA KickingAgent ==
    ASSUME Placed, Kicking, AgentEffect
    PROVE  Kicking'
<1>1. PICK S \in SUBSET DOMAIN cmds : Acks(S) /\ \A i \in S : i \in Pending /\ Superseded(i)
  BY DEF AgentEffect, Calm, Polls
<1>2. /\ Pending' = Pending \ S /\ DOMAIN cmds' = DOMAIN cmds
  BY <1>1, PendingAcks
<1>3. /\ UNCHANGED <<user, node>> /\ Keeps /\ Watch /\ Fewer
      /\ disk'.done = disk.done \/ (At("record") /\ disk'.done = disk.done \cup {agent.cur})
      /\ Advances
  BY DEF AgentEffect, Calm
<1>4. KickBounds /\ KickProgress /\ KickReach
  BY KickingIs
<1>5. \A i \in DOMAIN cmds : Covering(i) => i \in Pending'
  BY <1>1, <1>2 DEF Covering
<1>6. KickReach' /\ KickBounds'
  BY <1>2, <1>3, <1>4, <1>5, ReachStays, BoundsStay
<1>7. KickProgress'
  <2> SUFFICES ASSUME NEW i \in DOMAIN cmds, Covering(i)
               PROVE  /\ i \in agent'.watched => Sessions' \subseteq agent'.quiet[i]
                      /\ i \in disk'.done \/ (At("record")' /\ agent'.cur = i) => Sessions' = {}
    BY <1>2, <1>3, CoveringStays DEF KickProgress, At
  <2>1. /\ i \in agent.watched => Sessions \subseteq agent.quiet[i]
        /\ i \in disk.done \/ (At("record") /\ agent.cur = i) => Sessions = {}
        /\ Sessions' \subseteq Sessions /\ IsKick(i)
    BY <1>3, <1>4 DEF KickProgress, Fewer, Covering
  <2>2. i \in agent'.watched => Sessions' \subseteq agent'.quiet[i]
    <3>1. Open = {} => Sessions = Flight
      BY DEF Sessions
    <3> QED
      BY <1>3, <2>1, <3>1 DEF Watch
  <2>3. i \in disk'.done => Sessions' = {}
    BY <1>3, <2>1
  <2>4. At("record")' /\ agent'.cur = i => Sessions' = {}
    <3> SUFFICES ASSUME agent'.pc = "record", agent'.cur = i
                 PROVE  Sessions' = {}
      BY DEF At
    <3>1. \/ agent.cur = i /\ (At("again") \/ At("flag") \/ At("unflag"))
          \/ /\ agent.cur = i /\ At("look") /\ agent.cur \in agent.watched
             /\ Open = {} /\ agent.quiet[agent.cur] \cap Flight = {}
      BY <1>3 DEF Advances, Free, Between
    <3>2. CASE agent.cur = i /\ (At("again") \/ At("flag") \/ At("unflag"))
      <4>1. ~IsKick(agent.cur)
        BY <3>2, AtHand, OneKind DEF At, Pcs, Between, Draw
      <4> QED
        BY <2>1, <3>2, <4>1
    <3>3. CASE /\ agent.cur = i /\ At("look") /\ agent.cur \in agent.watched
               /\ Open = {} /\ agent.quiet[agent.cur] \cap Flight = {}
      BY <2>1, <3>3 DEF Sessions
    <3> QED
      BY <3>1, <3>2, <3>3
  <2> QED
    BY <2>2, <2>3, <2>4
<1> QED
  BY <1>6, <1>7, KickingIs DEF Kicking, KickBounds, KickProgress, KickReach

LEMMA KickingAnswer ==
    ASSUME Placed, Lifecycles, Kicking, Draining', AnswerEffect
    PROVE  Kicking'
<1>1. /\ UNCHANGED <<user, disk, plane, login>> /\ Keeps /\ TypeOK
      /\ agent' = agent \/ (agent'.pc = "take" /\ KeepsWatch)
  BY PlacedFacts DEF AnswerEffect, Leaves
<1>2. KickBounds /\ KickProgress /\ KickReach /\ Sessions' = Sessions /\ Fewer
  <2>1. login \in LoginType /\ Sessions' = Sessions
    BY <1>1, Types DEF Sessions, Open, Flight
  <2> QED
    BY <1>1, <2>1, KickingIs DEF Fewer
<1>3. DOMAIN cmds' = DOMAIN cmds
  <2>1. \A i : Completes(i) => DOMAIN cmds' = DOMAIN cmds
    BY DEF Completes, Acks
  <2> QED
    BY <2>1 DEF AnswerEffect
<1>4. KickProgress'
  <2> SUFFICES ASSUME NEW i \in DOMAIN cmds, Covering(i)
               PROVE  /\ i \in agent'.watched => Sessions' \subseteq agent'.quiet[i]
                      /\ i \in disk'.done \/ (At("record")' /\ agent'.cur = i) => Sessions' = {}
    BY <1>1, <1>3, CoveringStays DEF KickProgress, At
  <2>1. /\ i \in agent.watched => Sessions \subseteq agent.quiet[i]
        /\ i \in disk.done \/ (At("record") /\ agent.cur = i) => Sessions = {}
    BY <1>2 DEF KickProgress
  <2>2. CASE agent' = agent
    BY <1>1, <1>2, <2>1, <2>2 DEF At
  <2>3. CASE agent'.pc = "take" /\ KeepsWatch
    BY <1>1, <1>2, <2>1, <2>3 DEF At, KeepsWatch
  <2> QED
    BY <1>1, <2>2, <2>3
<1>5. KickReach'
  <2>1. CASE UNCHANGED <<node, cmds>>
    <3>1. \A i \in DOMAIN cmds : Covering(i) => i \in Pending'
      BY <2>1 DEF Covering, Pending
    <3> QED
      BY <1>1, <1>2, <2>1, <3>1, ReachStays
  <2>2. ASSUME NEW i \in DOMAIN cmds, Completes(i), i \in disk.done \/ IsRemoval(i)
        PROVE  KickReach'
    <3>1. /\ Pending' = Pending \ {i}
          /\ node'.lifecycle = LifecycleAfter(cmds[i].kind)
          /\ node'.status = (IF IsRemoval(i) /\ node.lifecycle = "disconnecting" THEN "revoked" ELSE node.status)
      BY <2>2, PendingAcks DEF Completes
    <3>2. CASE Sessions = {}
      BY <1>2, <3>2 DEF KickReach
    <3>3. CASE Sessions # {}
      <4>1. Attended' => Attended
        <5> SUFFICES ASSUME Attended', ~Attended
                     PROVE  FALSE
          OBVIOUS
        <5>1. Paired /\ Paired' /\ node.lifecycle \in {"stopping", "disconnecting"}
              /\ node'.lifecycle \notin {"stopping", "disconnecting"}
          BY <3>1 DEF Attended, Paired
        <5>2. node'.lifecycle \in {"stopped", "archived"}
          BY <1>1, <3>1, <5>1, LifecycleAfterIs
        <5>3. Sessions' = {}
          BY <5>1, <5>2 DEF Draining
        <5> QED
          BY <1>2, <3>3, <5>3
      <4>2. ~Covering(i)
        <5>1. Covering(i) => IsKick(i) /\ ~IsRemoval(i)
          BY <1>1, OneKind DEF Covering
        <5> QED
          BY <1>2, <2>2, <3>3, <5>1 DEF KickProgress
      <4>3. \A j \in DOMAIN cmds : Covering(j) => j \in DOMAIN cmds' /\ Covering(j)'
                                                   /\ cmds'[j].generation = cmds[j].generation
        BY <1>1, <1>3, <3>1, <4>2, CoveringStays DEF Covering, Keeps
      <4>4. KickPending => KickPending'
        <5>1. KickPending => \E j \in DOMAIN cmds : Covering(j) /\ cmds[j].generation = Security
          BY SecurityCovers
        <5>2. \A j \in DOMAIN cmds : Covering(j) /\ cmds[j].generation = Security =>
                j \in Pending' /\ cmds'[j].kind = "KICK_USERS" /\ cmds'[j].generation = Security
          BY <4>3 DEF Covering, IsKick
        <5> QED
          BY <5>1, <5>2 DEF KickPending
      <4> QED
        BY <1>1, <1>2, <4>1, <4>3, <4>4 DEF KickReach, Fewer
    <3> QED
      BY <3>2, <3>3
  <2> QED
    BY <2>1, <2>2 DEF AnswerEffect
<1>6. KickBounds'
  BY <1>1, <1>2, <1>3, BoundsStay
<1> QED
  BY <1>4, <1>5, <1>6, KickingIs DEF Kicking, KickBounds, KickProgress, KickReach

LEMMA KickingSession ==
    ASSUME Placed, Kicking, SessionEffect
    PROVE  Kicking'
<1>1. UNCHANGED <<user, node, cmds, disk, agent>> /\ Fewer /\ Keeps
  BY PlacedFacts, SameQueue DEF SessionEffect
<1>2. KickBounds /\ KickProgress /\ KickReach
  BY KickingIs
<1>3. \A i \in DOMAIN cmds : Covering(i) => i \in Pending'
  BY <1>1 DEF Covering, Pending
<1>4. KickBounds' /\ KickReach'
  BY <1>1, <1>2, <1>3, BoundsStay, ReachStays
<1>5. KickProgress'
  <2>1. Sessions' \subseteq Sessions
    BY <1>1 DEF Fewer
  <2>2. \A i \in DOMAIN cmds : Covering(i)' => Covering(i)
    BY <1>1, CoveringStays
  <2> QED
    BY <1>1, <1>2, <2>1, <2>2 DEF KickProgress, At
<1> QED
  BY <1>4, <1>5 DEF Kicking, KickBounds, KickProgress, KickReach

\* Whoever is let in has the valid credential, and no kick is wanted.
LEMMA KickingApprove ==
    ASSUME Placed, Kicking, NEW l \in Login, Approve(l)
    PROVE  Kicking'
<1>1. /\ Admits /\ UNCHANGED <<user, node, cmds, disk, agent>>
      /\ Open' = Open /\ Flight' = Flight \cup {l}
      /\ login'[l].cred = user.cred /\ \A k \in Login \ {l} : login'[k] = login[k]
  BY PlacedApprove
<1>2. KickBounds /\ KickProgress /\ KickReach
  BY KickingIs
<1>3. \A i \in DOMAIN cmds : ~Covering(i)
  BY <1>1, SecurityCovers DEF Admits
<1>4. \A i \in DOMAIN cmds : ~Covering(i)'
  BY <1>1, <1>3 DEF Covering, Superseded, IsKick, Pending
<1>5. Sessions' = Sessions \cup {l} /\ Sessions \subseteq Login
  BY <1>1 DEF Sessions, Open, Flight
<1>6. ~user.over /\ ~KickPending /\ (Attended' <=> Attended) /\ user.cred >= user.told
  <2>1. user.cred \in Nat /\ user.told \in Nat
    BY PlacedFacts, Types DEF UserType
  <2> QED
    BY <1>1, <1>2, <2>1 DEF Admits, KickBounds, Attended, Paired
<1>7. KickProgress' /\ KickBounds'
  BY <1>1, <1>2, <1>4 DEF KickProgress, KickBounds
<1>8. KickReach'
  <2>1. Attended => \A k \in Sessions' : login'[k].cred >= user.told
    BY <1>1, <1>2, <1>5, <1>6 DEF KickReach
  <2> QED
    BY <1>1, <1>6, <2>1 DEF KickReach
<1> QED
  BY <1>7, <1>8 DEF Kicking, KickBounds, KickProgress, KickReach

\* What each action does to the user's record, and the kick it queues.
Queued(generation) == /\ cmds' = QueueKick(cmds, generation) /\ Len(cmds') <= MaxCommands
                      /\ node' = node

UserFields(cred, generation, over, told) ==
    user'.cred = cred /\ user'.generation = generation /\ user'.over = over /\ user'.told = told

LEMMA UserSteps ==
    ASSUME TypeOK, UserAction
    PROVE  \/ Revoke /\ UserFields(user.cred + 1, user.generation + 1, user.over, user.told) /\ UNCHANGED cmds
           \/ Reset /\ UserFields(user.cred, user.generation + 1, FALSE, user.told) /\ UNCHANGED cmds
           \/ UserFields(user.cred, user.generation, user.over, user.cred) /\ Queued(Security)
           \/ UserFields(user.cred + 1, user.generation + 1, user.over, user.cred + 1) /\ Queued(Security)
           \/ UserFields(user.cred, user.generation, TRUE, user.told) /\ ~user.over /\ Queued(user.generation)
           \/ UserFields(user.cred, user.generation, user.over, user.told) /\ UNCHANGED cmds
<1>1. user \in UserType
  BY Types
<1>2. CASE Revoke
  BY <1>1, <1>2 DEF Revoke, UserFields, UserType
<1>3. CASE Reset
  BY <1>1, <1>3 DEF Reset, UserFields, UserType
<1>4. CASE KickOwed
  BY <1>1, <1>4 DEF KickOwed, UserFields, UserType, Queued
<1>5. CASE Expire
  <2> DEFINE c == user.cred + 1
             g == user.generation + 1
  <2>1. user' = [user EXCEPT !.cred = c, !.generation = g, !.told = c]
    BY <1>1, <1>5 DEF Expire, UserType
  <2> HIDE DEF c, g
  <2>2. UserFields(c, g, user.over, c)
    BY <1>1, <2>1 DEF UserFields, UserType
  <2>3. Queued(Security)
    BY <1>5 DEF Expire, Queued
  <2> QED
    BY <2>2, <2>3 DEF c, g
<1>6. CASE Exhaust
  BY <1>1, <1>6 DEF Exhaust, UserFields, UserType, Queued
<1>7. CASE PanelFails
  BY <1>1, <1>7 DEF PanelFails, UserFields, UserType
<1> QED
  BY <1>2, <1>3, <1>4, <1>5, <1>6, <1>7 DEF UserAction

\* A kick is in the queue once it was asked for, if anybody can be online.
LEMMA QueuedIs ==
    ASSUME Placed, NEW g \in Nat, Queued(g)
    PROVE  /\ Serving => \E i \in DOMAIN cmds' : /\ i \in Pending' /\ cmds'[i].kind = "KICK_USERS"
                                                 /\ cmds'[i].generation = g
           /\ \A i \in DOMAIN cmds' \ DOMAIN cmds : cmds'[i].generation = g
<1>1. /\ Keeps
      /\ \/ cmds' = cmds /\ (Serving => \E i \in Pending : IsKick(i) /\ cmds[i].generation = g)
         \/ Serving /\ Grows("KICK_USERS", g)
  BY PlacedFacts, QueueKickKeeps DEF Queued
<1>2. CASE cmds' = cmds /\ (Serving => \E i \in Pending : IsKick(i) /\ cmds[i].generation = g)
  BY <1>2 DEF Pending, IsKick
<1>3. CASE Serving /\ Grows("KICK_USERS", g)
  BY <1>3, PendingGrows
<1> QED
  BY <1>1, <1>2, <1>3

\* No action makes a kick wanted again.
LEMMA NotWantedAgain ==
    ASSUME Placed, Kicking, UserAction, NEW i \in DOMAIN cmds, Covering(i)'
    PROVE  Covering(i)
<1>1. /\ Keeps /\ user \in UserType /\ cmds[i].generation \in Nat /\ TypeOK
      /\ user.generation \in Nat
  BY UserActionIs, PlacedFacts, Types DEF UserType
<1>2. i \in Pending /\ cmds'[i].kind = cmds[i].kind /\ cmds'[i].generation = cmds[i].generation
  BY <1>1 DEF Covering, Keeps, Pending
<1>3. /\ cmds[i].generation <= user.generation
      /\ cmds[i].generation = user.generation => user.over
  BY DEF Kicking
<1>4. user'.over /\ user'.generation = cmds[i].generation => user.over /\ user.generation = cmds[i].generation
  <2>1. user'.generation \in {user.generation, user.generation + 1}
    BY <1>1, UserSteps DEF UserFields
  <2> QED
    BY <1>1, <1>3, <2>1
<1> QED
  BY <1>2, <1>4 DEF Covering, Superseded, IsKick

LEMMA KickingUser ==
    ASSUME Placed, Draining, Kicking, UserAction
    PROVE  Kicking'
<1>1. /\ UNCHANGED <<node, disk, agent, login>> /\ Keeps /\ TypeOK /\ user \in UserType
      /\ user.cred \in Nat /\ user.generation \in Nat /\ user.told \in Nat
  BY UserActionIs, PlacedFacts, Types DEF UserType
<1>2. KickBounds /\ KickProgress /\ KickReach
  BY KickingIs
<1>3. Sessions' = Sessions /\ (Attended' <=> Attended)
  BY <1>1 DEF Sessions, Open, Flight, Attended, Paired
<1>4. Attended /\ ~Serving => Sessions = {}
  <2>1. node.lifecycle \in Lifecycle
    BY <1>1, Types DEF NodeType
  <2> QED
    BY <2>1 DEF Attended, Serving, Lifecycle, Draining
<1>5. /\ DOMAIN cmds \subseteq DOMAIN cmds' /\ (\A i \in DOMAIN cmds : cmds'[i].generation = cmds[i].generation
                                                                    /\ cmds[i].generation \in Nat)
  BY <1>1, Types DEF Keeps
<1>6. KickProgress'
  <2> SUFFICES ASSUME NEW i \in DOMAIN cmds', Covering(i)'
               PROVE  /\ i \in agent.watched => Sessions \subseteq agent.quiet[i]
                      /\ i \in disk.done \/ (At("record") /\ agent.cur = i) => Sessions = {}
    BY <1>1, <1>3 DEF KickProgress, At
  <2>1. CASE i \in DOMAIN cmds
    BY <1>2, <2>1, NotWantedAgain DEF KickProgress
  <2>2. CASE i \notin DOMAIN cmds
    <3>1. i \notin agent.watched /\ i \notin disk.done
      BY <2>2, PlacedFacts DEF Placed
    <3>2. At("record") => agent.cur \in DOMAIN cmds
      BY AtHand DEF At, Pcs, Between
    <3> QED
      BY <2>2, <3>1, <3>2
  <2> QED
    BY <2>1, <2>2
<1>7. ASSUME NEW g \in Nat, Queued(g)
      PROVE  /\ Serving => \E i \in DOMAIN cmds' : /\ i \in Pending' /\ cmds'[i].kind = "KICK_USERS"
                                                   /\ cmds'[i].generation = g
             /\ \A i \in DOMAIN cmds' \ DOMAIN cmds : cmds'[i].generation = g
  BY <1>7, QueuedIs
<1>8. CASE Revoke /\ UserFields(user.cred + 1, user.generation + 1, user.over, user.told) /\ UNCHANGED cmds
  <2>1. KickBounds'
    BY <1>1, <1>2, <1>5, <1>8 DEF KickBounds, UserFields, Security
  <2>2. KickPending' <=> KickPending
    BY <1>8 DEF KickPending, Pending
  <2>3. user'.told # user'.cred
    BY <1>1, <1>2, <1>8 DEF KickBounds, UserFields
  <2>4. KickReach'
    BY <1>1, <1>2, <1>3, <1>8, <2>2, <2>3 DEF KickReach, UserFields
  <2> QED
    BY <1>6, <2>1, <2>4 DEF Kicking, KickBounds, KickProgress, KickReach
<1>9. CASE Reset /\ UserFields(user.cred, user.generation + 1, FALSE, user.told) /\ UNCHANGED cmds
  <2>1. KickBounds'
    BY <1>1, <1>2, <1>5, <1>9 DEF KickBounds, UserFields, Security
  <2>2. KickPending' <=> KickPending
    BY <1>9 DEF KickPending, Pending
  <2>3. KickReach'
    BY <1>1, <1>2, <1>3, <1>9, <2>2 DEF KickReach, UserFields
  <2> QED
    BY <1>6, <2>1, <2>3 DEF Kicking, KickBounds, KickProgress, KickReach
<1>10. ASSUME Queued(Security), user'.told = user'.cred, user'.cred \in Nat,
              user'.over = user.over, user'.generation \in {user.generation, user.generation + 1}
       PROVE  Kicking'
  <2>1. /\ Serving => \E i \in DOMAIN cmds' : /\ i \in Pending' /\ cmds'[i].kind = "KICK_USERS"
                                              /\ cmds'[i].generation = Security
        /\ \A i \in DOMAIN cmds' \ DOMAIN cmds : cmds'[i].generation = Security
    BY <1>7, <1>10 DEF Security
  <2>2. KickBounds'
    <3>1. user'.told <= user'.cred /\ user'.generation \in Nat \ {Security}
      BY <1>1, <1>2, <1>10 DEF KickBounds, Security
    <3>2. ASSUME NEW i \in DOMAIN cmds'
          PROVE  /\ cmds'[i].generation <= user'.generation
                 /\ cmds'[i].generation = user'.generation => user'.over
      <4>1. CASE i \in DOMAIN cmds
        BY <1>1, <1>2, <1>5, <1>10, <4>1 DEF KickBounds
      <4>2. CASE i \notin DOMAIN cmds
        BY <1>1, <2>1, <3>1, <4>2 DEF Security
      <4> QED
        BY <4>1, <4>2
    <3> QED
      BY <3>1, <3>2 DEF KickBounds
  <2>3. CASE Sessions = {}
    BY <1>3, <1>6, <2>2, <2>3 DEF Kicking, KickBounds, KickProgress, KickReach
  <2>4. CASE Sessions # {}
    <3>1. Attended => KickPending' /\ \E i \in DOMAIN cmds' : Covering(i)'
      BY <1>4, <2>1, <2>4 DEF KickPending, Covering, Superseded, IsKick
    <3>2. KickReach'
      BY <1>3, <3>1 DEF KickReach
    <3> QED
      BY <1>6, <2>2, <3>2 DEF Kicking, KickBounds, KickProgress, KickReach
  <2> QED
    BY <2>3, <2>4
<1>11. CASE UserFields(user.cred, user.generation, TRUE, user.told) /\ ~user.over /\ Queued(user.generation)
  <2>1. /\ Serving => \E i \in DOMAIN cmds' : /\ i \in Pending' /\ cmds'[i].kind = "KICK_USERS"
                                              /\ cmds'[i].generation = user.generation
        /\ \A i \in DOMAIN cmds' \ DOMAIN cmds : cmds'[i].generation = user.generation
    BY <1>1, <1>7, <1>11
  <2>2. KickBounds'
    BY <1>1, <1>2, <1>5, <1>11, <2>1 DEF KickBounds, UserFields
  <2>3. CASE Sessions = {}
    BY <1>3, <1>6, <2>2, <2>3 DEF Kicking, KickBounds, KickProgress, KickReach
  <2>4. CASE Sessions # {}
    <3>1. Attended => \E i \in DOMAIN cmds' : Covering(i)'
      BY <1>4, <1>11, <2>1, <2>4 DEF Covering, Superseded, IsKick, UserFields
    <3>2. KickPending => KickPending'
      <4>1. ASSUME NEW i \in Pending, cmds[i].kind = "KICK_USERS", cmds[i].generation = Security
            PROVE  i \in Pending' /\ cmds'[i].kind = "KICK_USERS" /\ cmds'[i].generation = Security
        <5>1. \/ cmds' = cmds
              \/ Grows("KICK_USERS", user.generation)
          BY <1>1, <1>11, QueueKickKeeps DEF Queued
        <5> QED
          BY <4>1, <5>1, PendingGrows DEF Pending
      <4> QED
        BY <4>1 DEF KickPending
    <3>3. KickReach'
      BY <1>1, <1>2, <1>3, <1>11, <3>1, <3>2 DEF KickReach, UserFields
    <3> QED
      BY <1>6, <2>2, <3>3 DEF Kicking, KickBounds, KickProgress, KickReach
  <2> QED
    BY <2>3, <2>4
<1>12. CASE UserFields(user.cred, user.generation, user.over, user.told) /\ UNCHANGED cmds
  <2>1. KickBounds' /\ (KickPending' <=> KickPending)
    BY <1>1, <1>2, <1>12 DEF KickBounds, UserFields, KickPending, Pending
  <2>2. \A i \in DOMAIN cmds : Covering(i)' <=> Covering(i)
    BY <1>12 DEF Covering, Superseded, IsKick, Pending, UserFields
  <2>3. KickReach'
    BY <1>1, <1>2, <1>3, <1>12, <2>1, <2>2 DEF KickReach, UserFields
  <2> QED
    BY <1>6, <2>1, <2>3 DEF Kicking, KickBounds, KickProgress, KickReach
<1> QED
  <2>1. CASE UserFields(user.cred, user.generation, user.over, user.cred) /\ Queued(Security)
    BY <1>1, <1>10, <2>1 DEF UserFields
  <2>2. CASE UserFields(user.cred + 1, user.generation + 1, user.over, user.cred + 1) /\ Queued(Security)
    BY <1>1, <1>10, <2>2 DEF UserFields
  <2> QED
    BY <1>1, <1>8, <1>9, <1>11, <1>12, <2>1, <2>2, UserSteps

LEMMA KickingNode ==
    ASSUME Placed, Lifecycles, Kicking, NodeAction
    PROVE  Kicking'
<1>1. /\ TypeOK /\ PanelMove /\ UNCHANGED <<user, disk, agent, login>> /\ user \in UserType
  BY PlacedFacts, NodeActionIs, Types
<1>2. KickBounds /\ KickProgress /\ KickReach
  BY KickingIs
<1>3. Keeps
  BY <1>1, SameQueue DEF PanelMove, Orders
<1>4. Sessions' = Sessions
  BY <1>1 DEF Sessions, Open, Flight
<1>5. CASE UNCHANGED cmds
  <2>1. /\ (KickPending' <=> KickPending) /\ \A i \in DOMAIN cmds : Covering(i)' <=> Covering(i)
    BY <1>1, <1>5 DEF KickPending, Pending, Covering, Superseded, IsKick
  <2>2. Attended' => Attended
    BY <1>1, <1>5 DEF PanelMove, NodeMoves, Shifts, Orders, Attended, Paired, InService
  <2>3. KickBounds' /\ KickProgress' /\ KickReach'
    BY <1>1, <1>2, <1>4, <1>5, <2>1, <2>2 DEF KickBounds, KickProgress, KickReach, At
  <2> QED
    BY <2>3 DEF Kicking, KickBounds, KickProgress, KickReach
<1>6. ASSUME NEW kind \in Kind \ {"KICK_USERS"}, NEW from, NEW to \in {"stopping", "starting", "disconnecting"},
             to = "starting" => from = {"stopped"}, Orders(kind, from, to)
      PROVE  Kicking'
  <2>1. /\ Pending' = Pending \cup {Last} /\ DOMAIN cmds' = DOMAIN cmds \cup {Last} /\ Last \notin DOMAIN cmds
        /\ \A i \in DOMAIN cmds : cmds'[i] = cmds[i]
        /\ cmds'[Last].kind = kind /\ cmds'[Last].generation = Security /\ Pending = {} /\ Paired
        /\ node.lifecycle \in from /\ node'.lifecycle = to
    BY <1>6, PendingGrows DEF Orders, Shifts, NodeMoves
  <2>2. \A i \in DOMAIN cmds' : ~Covering(i)'
    BY <1>6, <2>1 DEF Covering, IsKick
  <2>3. KickProgress'
    BY <2>2 DEF KickProgress
  <2>4. KickBounds'
    <3>1. Security <= user.generation /\ Security # user.generation
      BY <1>2 DEF KickBounds, Security
    <3> QED
      BY <1>1, <1>2, <2>1, <3>1 DEF KickBounds
  <2>5. ~KickPending /\ \A i \in DOMAIN cmds : ~Covering(i)
    BY <2>1 DEF KickPending, Covering
  <2>6. Attended' => Attended
    BY <1>6, <2>1 DEF Attended
  <2>7. KickReach'
    BY <1>1, <1>2, <1>4, <2>5, <2>6 DEF KickReach
  <2> QED
    BY <2>3, <2>4, <2>7 DEF Kicking, KickBounds, KickProgress, KickReach
<1>7. CASE node'.status = "revoked" /\ Acks({i \in DOMAIN cmds : ~IsRemoval(i)})
  <2>1. ~Attended'
    BY <1>7 DEF Attended, Paired
  <2>2. DOMAIN cmds' = DOMAIN cmds /\ \A i \in DOMAIN cmds : Covering(i)' => Covering(i)
    BY <1>1, <1>3, <1>7, CoveringStays DEF Acks
  <2>3. KickBounds'
    BY <1>1, <1>2, <1>3, <2>2, BoundsStay
  <2>4. KickProgress'
    BY <1>1, <1>2, <1>4, <2>2 DEF KickProgress, At
  <2> QED
    BY <2>1, <2>3, <2>4 DEF Kicking, KickBounds, KickProgress, KickReach
<1>8. CASE \E kind \in Stops : Orders(kind, InService, "stopping")
  <2>1. Stops \subseteq Kind \ {"KICK_USERS"}
    BY DEF Kind, Stops
  <2> QED
    BY <1>6, <1>8, <2>1
<1>9. CASE Orders("START_DATA_PLANE", {"stopped"}, "starting")
  BY <1>6, <1>9 DEF Kind
<1>10. CASE Orders("UNINSTALL_NODE", InService, "disconnecting")
  BY <1>6, <1>10 DEF Kind
<1> QED
  BY <1>1, <1>5, <1>7, <1>8, <1>9, <1>10 DEF PanelMove

LEMMA StepKicking ==
    ASSUME Inv, [Next]_vars
    PROVE  Kicking'
<1>1. Placed /\ Lifecycles /\ Draining /\ Kicking
  BY DEF Inv
<1>2. StepKind /\ Draining'
  BY <1>1, StepPlaced, StepDraining
<1> QED
  BY <1>1, <1>2, KickingAgent, KickingAnswer, KickingSession, KickingUser, KickingNode, KickingApprove DEF StepKind

-----------------------------------------------------------------------------
(* Theorems.                                                               *)

LEMMA InitInv ==
    ASSUME Init
    PROVE  Inv
<1>1. /\ user = [cred |-> 1, generation |-> 1, over |-> FALSE, owed |-> FALSE, told |-> 1]
      /\ node = [status |-> "pending_verification", lifecycle |-> "active", automatic |-> FALSE,
                 admitted |-> TRUE, full |-> FALSE, confirmed |-> FALSE, idle |-> "no", beat |-> TRUE]
      /\ snap = [empty |-> TRUE, fresh |-> TRUE] /\ cmds = <<>>
      /\ disk = [stopped |-> FALSE, done |-> {}, spool |-> FALSE, marker |-> NoCommand]
      /\ agent = Fresh /\ worker = "off"
      /\ plane = [up |-> TRUE, marked |-> FALSE, tail |-> FALSE]
      /\ login = [l \in Login |-> [at |-> "new", cred |-> 0]] /\ wire = {}
  BY DEF Init
<1>2. user \in UserType /\ node \in NodeType /\ snap \in SnapType /\ plane \in PlaneType
  BY <1>1 DEF UserType, NodeType, SnapType, PlaneType, Lifecycle
<1>3. disk \in DiskType /\ login \in LoginType
  BY <1>1 DEF DiskType, LoginType
<1>4. cmds \in Seq(Command) /\ Len(cmds) = 0 /\ DOMAIN cmds = {} /\ Len(cmds) <= MaxCommands
  BY <1>1, ConstantsAssumption
<1>5. /\ agent \in AgentType /\ agent.pc = "idle" /\ agent.todo = {} /\ agent.watched = {} /\ agent.cur = NoCommand
  BY <1>1 DEF Fresh, AgentType, Between, NoCommand, Ids
<1>6. Open = {} /\ Flight = {}
  BY <1>1 DEF Open, Flight
<1>7. TypeOK
  BY <1>1, <1>2, <1>3, <1>4, <1>5, <1>6 DEF TypeOK, UserType, NodeType, SnapType, PlaneType, DiskType, LoginType
<1>8. AgentPlaced
  BY <1>5 DEF AgentPlaced, Between, Draw
<1>9. Placed
  BY <1>1, <1>5, <1>7, <1>8 DEF Placed, At
<1>10. Pending = {} /\ Sessions = {}
  BY <1>4, <1>6 DEF Pending, Sessions
<1>11. Lifecycles /\ Draining
  BY <1>1, <1>4, <1>5, <1>10 DEF Lifecycles, Draining, At, Serving
<1>12. Kicking
  BY <1>1, <1>4, <1>10 DEF Kicking, Security
<1> QED
  BY <1>9, <1>11, <1>12 DEF Inv

\* The four layers together are preserved by every step, whatever the mix of events.
THEOREM Invariant == Spec => []Inv
<1>1. Inv /\ [Next]_vars => Inv'
  BY StepPlaced, StepLifecycles, StepDraining, StepKicking DEF Inv
<1> QED
  BY <1>1, InitInv, PTL DEF Spec

\* Every variable keeps its type: no command outside the queue is ever at hand,
\* watched or acknowledged, and no session exists while the servers are down.
THEOREM TypeCorrect == Spec => []TypeOK
<1>1. Inv => TypeOK
  BY DEF Inv, Placed
<1> QED
  BY <1>1, Invariant, PTL

\* What the panel shows of a stopped or serving node is what the node's own flag
\* and servers are, through lost and late answers, crashes and restarts.
THEOREM LifecycleShown == Spec => []LifecycleMatchesNode
<1>1. Inv => LifecycleMatchesNode
  BY DEF Inv, Lifecycles, Draining, LifecycleMatchesNode, Drained, Sessions, Serving
<1> QED
  BY <1>1, Invariant, PTL

\* An acknowledged kick of a revoked credential has left no session of it, and
\* neither has a user over the quota when no kick is pending.
THEOREM RevokedEnd == Spec => []RevokedSessionsEnd
<1>1. ASSUME Inv
      PROVE  RevokedSessionsEnd
  <2>1. KickReach
    BY <1>1, KickingIs DEF Inv
  <2>2. Kicks = {} => \A i \in DOMAIN cmds : ~Covering(i)
    BY DEF Kicks, Covering, IsKick
  <2> QED
    BY <2>1, <2>2 DEF KickReach, RevokedSessionsEnd, Sessions
<1> QED
  BY <1>1, Invariant, PTL

-----------------------------------------------------------------------------
(* What no step does.                                                      *)

\* The servers go down in three ways.
LEMMA GoesDown ==
    ASSUME Placed, Next, plane.up, ~plane'.up
    PROVE  Halt \/ Remove \/ Reboot
<1>1. TypeOK /\ plane \in PlaneType
  BY PlacedFacts, Types
<1>2. CASE AgentStep
  <2>1. Cycle \/ CollectRound => plane'.up
    BY <1>1, CollectIs DEF Cycle, CollectRound
  <2>2. Kick \/ Online \/ Flush \/ Start => plane'.up
    BY <1>1 DEF Kick, Online, Flush, Start, PlaneType
  <2>3. (Exchange \/ (\E i \in Ids : Take(i)) \/ EndOfCycle \/ Look \/ Wait \/ SetStopped \/ Mark \/ ClearStopped
           \/ RecordDone \/ Ack) => plane' = plane
    BY DEF Exchange, Take, EndOfCycle, Look, Wait, SetStopped, Mark, ClearStopped, RecordDone, Ack
  <2> QED
    BY <1>2, <2>1, <2>2, <2>3 DEF AgentStep
<1>3. CASE WorkerStep
  BY <1>3 DEF WorkerStep, Confirm
<1>4. CASE PanelStep
  <2>1. UserAction \/ NodeAction \/ \E a \in wire : LateAck(a)
    BY <1>4 DEF PanelStep, UserAction, NodeAction
  <2>2. plane' = plane
    BY <1>1, <2>1, UserActionIs, NodeActionIs DEF LateAck
  <2> QED
    BY <2>2
<1>5. CASE SessionStep
  BY <1>1, <1>5 DEF SessionStep, Approve, Establish, Kicked, Leave, PlaneType
<1>6. CASE Crash \/ Reboot
  BY <1>6 DEF Crash
<1> QED
  BY <1>2, <1>3, <1>4, <1>5, <1>6 DEF Next

SpentType == spent \in [EventKind -> Nat]

LEMMA StepSpent ==
    ASSUME SpentType, [Next]_vars
    PROVE  SpentType'
<1>1. ASSUME NEW k \in EventKind, Event(k)
      PROVE  SpentType'
  BY <1>1 DEF Event, SpentType
<1>2. spent' = spent \/ \E k \in EventKind : Event(k)
  <2>1. CASE AgentStep
    BY <2>1 DEF AgentStep, Cycle, Exchange, Take, EndOfCycle, Kick, Look, Wait, Online, CollectRound, Flush,
       Halt, SetStopped, Mark, Start, ClearStopped, RecordDone, Ack, EventKind
  <2>2. CASE WorkerStep
    BY <2>2 DEF WorkerStep, Remove, Confirm
  <2>3. CASE PanelStep
    BY <2>3 DEF PanelStep, Revoke, Reset, KickOwed, Expire, Exhaust, PanelFails, Drain, Stop, EmergencyStop,
       Resume, Archive, Disconnect, Delete, ConfirmDns, Budget, Reconcile, GrowOld, Heartbeat, LateAck, EventKind
  <2>4. CASE SessionStep \/ Crash \/ Reboot
    BY <2>4 DEF SessionStep, Approve, Establish, Kicked, Leave, Crash, Reboot, EventKind
  <2> QED
    BY <2>1, <2>2, <2>3, <2>4 DEF Next, vars
<1> QED
  BY <1>1, <1>2 DEF SpentType

LEMMA SpentTyped == Spec => []SpentType
<1>1. Init => SpentType
  BY DEF Init, SpentType
<1> QED
  BY <1>1, StepSpent, PTL DEF Spec

\* By the time a command stops the servers, nothing is left on the node.
LEMMA HaltDrained ==
    ASSUME Inv, Halt
    PROVE  Drained
BY DEF Inv, Halt, Draining, Lifecycles, At

\* A command or the removal never takes down servers whose traffic the panel
\* does not have, whatever was lost, repeated or interrupted before it.
THEOREM NoTrafficLost == Spec => StopLosesNoTraffic
<1>1. ASSUME Inv, SpentType, [Next]_vars
      PROVE  [plane.up /\ ~plane'.up /\ spent'["reboot"] = spent["reboot"] => ~Counted /\ ~disk.spool]_vars
  <2> SUFFICES ASSUME Next, plane.up, ~plane'.up, spent'["reboot"] = spent["reboot"]
               PROVE  ~Counted /\ ~disk.spool
    BY <1>1 DEF vars
  <2>1. Halt \/ Remove \/ Reboot
    BY <1>1, GoesDown DEF Inv
  <2>2. ~Reboot
    <3>1. "reboot" \in EventKind /\ spent["reboot"] \in Nat
      BY <1>1 DEF SpentType, EventKind
    <3>2. Reboot => spent'["reboot"] = spent["reboot"] + 1
      BY <1>1, <3>1 DEF Reboot, Event, SpentType
    <3> QED
      BY <3>1, <3>2
  <2>3. CASE Halt
    BY <1>1, <2>3, HaltDrained DEF Drained, Counted, Sessions
  <2>4. CASE Remove
    BY <2>4 DEF Remove
  <2> QED
    BY <2>1, <2>2, <2>3, <2>4
<1> QED
  BY <1>1, Invariant, SpentTyped, PTL DEF Spec, StopLosesNoTraffic

\* The stop of an idle node takes no server down on an open session, and leaves
\* no marker that would end one, at any of its steps.
THEOREM IdleStopIsHarmless == Spec => IdleStopDisconnectsNobody
<1>1. ASSUME Inv, [Next]_vars
      PROVE  [agent.cur # NoCommand /\ cmds[agent.cur].kind = "STOP_DATA_PLANE_IF_IDLE"
                /\ agent.pc \in {"online", "halt", "again"} /\ agent' # agent
                   => (plane.up /\ ~plane'.up => Open = {}) /\ (plane'.marked => plane.marked)]_vars
  <2> SUFFICES ASSUME Next, agent.cur # NoCommand, cmds[agent.cur].kind = "STOP_DATA_PLANE_IF_IDLE",
                      agent.pc \in {"online", "halt", "again"}, agent' # agent
               PROVE  (plane.up /\ ~plane'.up => Open = {}) /\ (plane'.marked => plane.marked)
    BY <1>1 DEF vars
  <2>1. Placed /\ TypeOK /\ plane \in PlaneType
    BY <1>1, PlacedFacts, Types DEF Inv
  <2>2. Online \/ Halt \/ Remove \/ Crash \/ Reboot
    <3>1. CASE AgentStep
      BY <3>1 DEF AgentStep, Cycle, Exchange, Take, EndOfCycle, Kick, Look, Wait, CollectRound, Flush,
         SetStopped, Mark, Start, ClearStopped, RecordDone, Ack, At
    <3>2. CASE WorkerStep
      BY <3>2 DEF WorkerStep, Confirm
    <3>3. CASE PanelStep
      <4>1. UserAction \/ NodeAction \/ \E a \in wire : LateAck(a)
        BY <3>3 DEF PanelStep, UserAction, NodeAction
      <4>2. agent' = agent
        BY <2>1, <4>1, UserActionIs, NodeActionIs DEF LateAck
      <4> QED
        BY <4>2
    <3>4. CASE SessionStep
      BY <3>4 DEF SessionStep, Approve, Establish, Kicked, Leave
    <3> QED
      BY <3>1, <3>2, <3>3, <3>4 DEF Next
  <2>3. CASE Online
    <3>1. ~MayKick
      BY DEF MayKick
    <3> QED
      BY <2>1, <2>3, <3>1 DEF Online, PlaneType
  <2>4. CASE Halt
    <3>1. Open = {}
      BY <1>1, <2>4, HaltDrained DEF Drained, Sessions
    <3> QED
      BY <2>4, <3>1 DEF Halt, Down
  <2>5. CASE Remove
    BY <2>5 DEF Remove, Counted, Down
  <2>6. CASE Crash
    BY <2>6 DEF Crash
  <2>7. CASE Reboot
    BY <2>7 DEF Reboot, Down, At
  <2> QED
    BY <2>2, <2>3, <2>4, <2>5, <2>6, <2>7
<1> QED
  BY <1>1, Invariant, PTL DEF Spec, IdleStopDisconnectsNobody
=============================================================================
