---------------------------- MODULE NodeOnboarding ----------------------------
(***************************************************************************)
(* How a machine becomes a node that subscriptions name: the administrator *)
(* creates a one-time code (create_node_enrollment), the operator pastes   *)
(* it on the machine (install_join_node), and from then on a timer on the  *)
(* machine runs complete_node_onboarding until it has succeeded: signed    *)
(* heartbeat, claim of a bootstrap grant, fetch of the line's identity,     *)
(* installation of the data plane under a transaction record, and an       *)
(* acknowledgement which the panel believes only after a canary connection  *)
(* of its own.  The same installer upgrades a node on a grant the           *)
(* administrator issued.                                                   *)
(*                                                                         *)
(* One machine; each node record belongs to one code.  Lifecycle and       *)
(* commands of a node that is paired are in NodeControl.                   *)
(***************************************************************************)
EXTENDS Naturals

CONSTANTS
    Codes,         \* bound: codes the administrator creates, a node record for each
    EventMixes     \* bound: how often each kind happens; a run stays in one mix

Node == 1..Codes
Nobody == 0

EventKind == {"lost", "slow", "unit", "reboot", "outage", "expire",
              "paste", "void", "revoke", "delete", "standby", "issue", "dns"}

ASSUME BoundsAssumption == Codes \in Nat /\ EventMixes \subseteq [EventKind -> Nat]

VARIABLES
    premium,    \* is this a premium line: one node per region, an identity of its own
    nodes,      \* panel: the rows of nodes and of their node_enrollments
    grant,      \* panel: each node's last row of node_data_plane_bootstrap_grants
    line,       \* panel: the profile of the line, its node and its certificate
    handler,    \* panel: the worker thread that serves an acknowledgement
    disk,       \* machine: what is installed
    up,         \* machine: the data-plane services run
    traffic,    \* machine: there is traffic the panel has not acknowledged
    installer,  \* machine: the installer, of which a lock lets one run at a time
    spent       \* events that have happened

panelVars == <<nodes, grant, line, handler>>
machineVars == <<disk, up, traffic, installer>>
vars == <<premium, panelVars, machineVars, spent>>

-----------------------------------------------------------------------------
(* Data.                                                                   *)

\* `void' is a code revoked or expired; `alive' a heartbeat, `fresh' a snapshot
\* and a traffic acknowledgement, young enough to be believed.
NodeRow == [status : {"none", "pending_registration", "pending_verification", "revoked"},
            consumed : BOOLEAN, void : BOOLEAN, key : Nat,
            policy : {"standby", "protocol_ready"},
            plane : {"not_issued", "bootstrap_issued", "data_plane_installed",
                     "direct_canary_passed", "dns_admitted"},
            alive : BOOLEAN, fresh : BOOLEAN]
NoRow == [status |-> "none", consumed |-> FALSE, void |-> FALSE, key |-> 0,
          policy |-> "standby", plane |-> "not_issued", alive |-> FALSE, fresh |-> FALSE]

\* `open' is neither acknowledged, revoked nor expired.  A token is known only to
\* those it was given to: `holders' have the one of this grant, others an old one.
Grant == [open : BOOLEAN, automatic : BOOLEAN, fetched : 0..3,
          holders : SUBSET {"command", "installer", "handler"}]
NoGrant == [open |-> FALSE, automatic |-> FALSE, fetched |-> 0, holders |-> {}]

\* A certificate is named by the node that it was made for; the panel's own, which
\* standard nodes share, by Nobody.  {} is a profile that has none yet.
Certificate == Node \cup {Nobody}
NoCertificate == {}
Bundle == SUBSET Certificate
Line == [node : Node \cup {Nobody}, certificate : Bundle]

Handler == [pc : {"off", "canary", "fresh", "commit"}, node : Node \cup {Nobody},
            automatic : BOOLEAN, waitedFor : BOOLEAN]
NoHandler == [pc |-> "off", node |-> Nobody, automatic |-> FALSE, waitedFor |-> FALSE]

\* `heartbeat' is "units" while its units are installed and its timer is not active;
\* `torn' tells that the agent or a heartbeat unit is half written, `staged' that bin/
\* or masquerade/ holds a temporary that was not moved to its place; `state' is the
\* directory once it has protocol.json and the spool.
Disk == [key : Nat, registration : Node \cup {Nobody}, marker : BOOLEAN, timer : BOOLEAN,
         heartbeat : {"none", "units", "on"}, torn : BOOLEAN,
         transaction : {"none", "fresh", "existing"}, plane : {"none", "partial", "whole"},
         staged : BOOLEAN, statsEnv : BOOLEAN, state : BOOLEAN, certificate : Bundle]
Blank == [key |-> 0, registration |-> Nobody, marker |-> FALSE, timer |-> FALSE,
          heartbeat |-> "none", torn |-> FALSE, transaction |-> "none", plane |-> "none",
          staged |-> FALSE, statsEnv |-> FALSE, state |-> FALSE,
          certificate |-> NoCertificate]

\* `code' is the code pasted, `byTimer' tells complete_node_onboarding from the
\* administrator's command, `resume' a rollback that precedes a new attempt,
\* `bundle' is the certificate fetched.
Installer == [pc : {"idle", "register", "enable", "agent", "beat", "claim", "activate", "fetch",
                    "identity", "arm", "settle", "files", "config", "start", "ack",
                    "wait", "commit", "unmark", "rollback", "remove", "purge"},
              code : Node \cup {Nobody}, byTimer : BOOLEAN, resume : BOOLEAN,
              bundle : Bundle]
NoInstaller == [pc |-> "idle", code |-> Nobody, byTimer |-> FALSE, resume |-> FALSE,
                bundle |-> NoCertificate]

Init ==
    /\ premium \in BOOLEAN
    /\ nodes = [n \in Node |-> NoRow] /\ grant = [n \in Node |-> NoGrant]
    /\ line = [node |-> Nobody, certificate |-> IF premium THEN NoCertificate ELSE {Nobody}]
    /\ handler = NoHandler
    /\ disk = Blank /\ up = FALSE /\ traffic = FALSE /\ installer = NoInstaller
    /\ spent = [k \in EventKind |-> 0]

Event(k) ==
    /\ spent' = [spent EXCEPT ![k] = @ + 1]
    /\ \E mix \in EventMixes : \A j \in EventKind : spent'[j] <= mix[j]

At(pc) == installer.pc = pc
Goto(pc) == installer' = [installer EXCEPT !.pc = pc]
Stop == installer' = NoInstaller

\* The row the machine's registration.json names.
Self == disk.registration

\* A signed request of the machine is verified against the key of that row.
SignatureVerifies(n) == nodes[n].key = disk.key
Verified(n) == n \in Node /\ nodes[n].status = "pending_verification" /\ SignatureVerifies(n)
Ready(n) == Verified(n) /\ nodes[n].policy = "protocol_ready"

Published(n) ==
    /\ nodes[n].status = "pending_verification" /\ nodes[n].policy = "protocol_ready"
    /\ nodes[n].plane = "dns_admitted"

-----------------------------------------------------------------------------
(* The administrator.                                                      *)

\* A premium region has one node; its profile, and with it the certificate users
\* have pinned, passes from the node that was removed to the new one.
Create(n) ==
    /\ nodes[n].status = "none" /\ \A m \in 1..(n - 1) : nodes[m].status # "none"
    /\ premium => \A m \in Node : nodes[m].status \in {"none", "revoked"}
    /\ nodes' = [nodes EXCEPT ![n].status = "pending_registration"]
    /\ line' = IF premium THEN [line EXCEPT !.node = n] ELSE line
    /\ UNCHANGED <<premium, grant, handler, machineVars, spent>>

\* revoke_node_enrollment: only a code that was not used.
RevokeCode(n) ==
    /\ nodes[n].status # "none" /\ ~nodes[n].consumed
    /\ Event("void")
    /\ nodes' = [nodes EXCEPT ![n].void = TRUE, ![n].status = "revoked"]
    /\ UNCHANGED <<premium, grant, line, handler, machineVars>>

\* revoke_node leaves the code and the grants as they are.
RevokeNode(n) ==
    /\ nodes[n].status \notin {"none", "revoked"} /\ nodes[n].plane # "dns_admitted"
    /\ Event("revoke")
    /\ nodes' = [nodes EXCEPT ![n].status = "revoked"]
    /\ UNCHANGED <<premium, grant, line, handler, machineVars>>

Delete(n) ==
    /\ nodes[n].status \notin {"none", "revoked"}
    /\ Event("delete")
    /\ nodes' = [nodes EXCEPT ![n].status = "revoked", ![n].policy = "standby",
                              ![n].void = @ \/ ~nodes[n].consumed]
    /\ grant' = [grant EXCEPT ![n].open = FALSE]
    /\ UNCHANGED <<premium, line, handler, machineVars>>

\* set_node_policy_state: a published node must leave DNS first.
Standby(n) ==
    /\ nodes[n].status = "pending_verification" /\ nodes[n].policy = "protocol_ready"
    /\ nodes[n].plane # "dns_admitted"
    /\ Event("standby")
    /\ nodes' = [nodes EXCEPT ![n].policy = "standby"]
    /\ UNCHANGED <<premium, grant, line, handler, machineVars>>

Enable(n) ==
    /\ nodes[n].status = "pending_verification" /\ nodes[n].policy = "standby" /\ nodes[n].alive
    /\ nodes' = [nodes EXCEPT ![n].policy = "protocol_ready"]
    /\ UNCHANGED <<premium, grant, line, handler, machineVars, spent>>

RemoveDns(n) ==
    /\ nodes[n].plane = "dns_admitted"
    /\ Event("dns")
    /\ nodes' = [nodes EXCEPT ![n].plane = "direct_canary_passed"]
    /\ UNCHANGED <<premium, grant, line, handler, machineVars>>

\* mark_node_direct_canary_passed after a check by hand; a grant of the
\* administrator's is acknowledged without a canary.
PassCanary(n) ==
    /\ nodes[n].status = "pending_verification" /\ nodes[n].policy = "protocol_ready"
    /\ nodes[n].plane = "data_plane_installed"
    /\ up /\ Self = n
    /\ nodes' = [nodes EXCEPT ![n].plane = "direct_canary_passed"]
    /\ UNCHANGED <<premium, grant, line, handler, machineVars, spent>>

\* By hand; the timer that did it (nodes.py, reconcile_dns) is disabled.
AdmitDns(n) ==
    /\ nodes[n].status = "pending_verification" /\ nodes[n].policy = "protocol_ready"
    /\ nodes[n].plane = "direct_canary_passed" /\ nodes[n].alive /\ nodes[n].fresh
    /\ nodes' = [nodes EXCEPT ![n].plane = "dns_admitted"]
    /\ UNCHANGED <<premium, grant, line, handler, machineVars, spent>>

\* A new grant revokes those not acknowledged.
NewGrant(n, holders, automatic) ==
    /\ grant' = [grant EXCEPT ![n] = [open |-> TRUE, automatic |-> automatic, fetched |-> 0,
                                      holders |-> holders]]
    /\ nodes' = [nodes EXCEPT ![n].policy = "protocol_ready",
                              ![n].plane = IF @ = "not_issued" THEN "bootstrap_issued" ELSE @]

\* The administrator issues an upgrade command.
Issue(n) ==
    /\ nodes[n].status = "pending_verification" /\ nodes[n].policy = "protocol_ready"
    /\ Event("issue")
    /\ NewGrant(n, {"command"}, FALSE)
    /\ UNCHANGED <<premium, line, handler, machineVars>>

\* Ten minutes, for a code as for a grant.
Expire(n) ==
    /\ Event("expire")
    /\ \/ ~nodes[n].void /\ nodes[n].status # "none" /\ nodes' = [nodes EXCEPT ![n].void = TRUE]
          /\ UNCHANGED grant
       \/ grant[n].open /\ grant' = [grant EXCEPT ![n].open = FALSE] /\ UNCHANGED nodes
    /\ UNCHANGED <<premium, line, handler, machineVars>>

\* Two minutes, or for `fresh' half a minute, without news of the node.
GrowOld(n) ==
    /\ nodes[n].status = "pending_verification"
    /\ \/ /\ nodes[n].alive /\ nodes' = [nodes EXCEPT ![n].alive = FALSE]
          /\ IF disk.heartbeat = "on" /\ ~disk.torn /\ Self = n
             THEN Event("outage") ELSE UNCHANGED spent
       \/ /\ nodes[n].fresh /\ nodes' = [nodes EXCEPT ![n].fresh = FALSE]
          /\ IF up /\ Self = n THEN Event("outage") ELSE UNCHANGED spent
    /\ UNCHANGED <<premium, grant, line, handler, machineVars>>

-----------------------------------------------------------------------------
(* Joining: install_join_node and the panel's consume_node_enrollment.      *)

\* A machine with an agent's paths is refused.  Keys and marker are written before
\* the code is used.
Paste(n) ==
    /\ At("idle") /\ disk.key = 0 /\ nodes[n].status # "none"
    /\ Event("paste")
    /\ disk' = [Blank EXCEPT !.key = spent'["paste"], !.marker = TRUE]
    /\ installer' = [NoInstaller EXCEPT !.pc = "register", !.code = n]
    /\ UNCHANGED <<premium, panelVars, up, traffic>>

\* rollback_join_node_install takes the key away with everything else.
Discard == disk' = Blank /\ Stop

\* Faulty: a repeated request is answered whatever key it brings.
SameRequestMutAnyKey(n) == nodes[n].consumed /\ nodes[n].status = "pending_verification"

\* The code is used by the first key; the same request again is answered alike.
FirstUse(n) == ~nodes[n].consumed /\ nodes[n].status = "pending_registration"
SameRequest(n) ==
    /\ nodes[n].consumed /\ nodes[n].status = "pending_verification"
    /\ nodes[n].key = disk.key
CodeAccepted(n) == ~nodes[n].void /\ (FirstUse(n) \/ SameRequest(n))

Consumed(n) ==
    IF ~nodes[n].void /\ FirstUse(n)
    THEN [nodes EXCEPT ![n].consumed = TRUE, ![n].status = "pending_verification",
                       ![n].key = disk.key]
    ELSE nodes

\* A request or its answer may be lost; after the third the installer gives up.
Register ==
    /\ At("register")
    /\ LET n == installer.code IN
         \/ /\ CodeAccepted(n) /\ nodes' = Consumed(n)
            /\ disk' = [disk EXCEPT !.registration = n] /\ Goto("enable")
            /\ UNCHANGED spent
         \/ ~CodeAccepted(n) /\ Discard /\ UNCHANGED <<nodes, spent>>
         \/ /\ Event("lost") /\ nodes' \in {nodes, Consumed(n)}
            /\ Discard \/ UNCHANGED <<disk, installer>>
    /\ UNCHANGED <<premium, grant, line, handler, up, traffic>>

EnableTimer ==
    /\ At("enable")
    /\ \/ disk' = [disk EXCEPT !.timer = TRUE] /\ Stop /\ UNCHANGED spent
       \/ Event("unit") /\ Discard
    /\ UNCHANGED <<premium, panelVars, up, traffic>>

-----------------------------------------------------------------------------
(* complete_node_onboarding, which the timer starts every thirty seconds.    *)

\* A healthy data plane without a transaction was acknowledged already.  The agent and
\* its heartbeat must be what was installed.
StartRun ==
    /\ At("idle") /\ disk.timer /\ disk.marker /\ ~disk.torn
    /\ \E pc \in {"unmark", "agent", "claim"} :
         /\ CASE pc = "unmark" -> disk.transaction = "none" /\ disk.plane = "whole" /\ up
              [] pc = "agent"  -> disk.heartbeat = "none"
              [] pc = "claim"  -> disk.heartbeat = "on"
         /\ pc # "unmark" => disk.transaction # "none" \/ disk.plane = "none"
         /\ installer' = [NoInstaller EXCEPT !.pc = pc, !.byTimer = TRUE]
    /\ UNCHANGED <<premium, panelVars, disk, up, traffic, spent>>

InstallAgent ==
    /\ At("agent")
    /\ disk' = [disk EXCEPT !.heartbeat = "units"]
    /\ Goto("beat")
    /\ UNCHANGED <<premium, panelVars, up, traffic, spent>>

\* accept_node_heartbeat.
BeatAccepted == Verified(Self)
Beaten == [nodes EXCEPT ![Self].alive = TRUE]

\* Faulty: the units of an agent that was refused are left behind.
FirstBeatMutKeepsUnits ==
    /\ At("beat")
    /\ \/ /\ BeatAccepted /\ nodes' = Beaten
          /\ disk' = [disk EXCEPT !.heartbeat = "on"] /\ Goto("claim") /\ UNCHANGED spent
       \/ ~BeatAccepted /\ UNCHANGED <<nodes, spent, disk>> /\ Stop
       \/ /\ BeatAccepted /\ Event("lost") /\ nodes' \in {nodes, Beaten}
          /\ UNCHANGED disk /\ Stop
    /\ UNCHANGED <<premium, grant, line, handler, up, traffic>>

\* activate_node_agent: the timer is enabled when one heartbeat was accepted.
FirstBeat ==
    /\ At("beat")
    /\ \/ /\ BeatAccepted /\ nodes' = Beaten
          /\ disk' = [disk EXCEPT !.heartbeat = "on"] /\ Goto("claim") /\ UNCHANGED spent
       \/ /\ ~BeatAccepted /\ UNCHANGED <<nodes, spent>>
          /\ disk' = [disk EXCEPT !.heartbeat = "none"] /\ Stop
       \/ /\ BeatAccepted /\ Event("lost") /\ nodes' \in {nodes, Beaten}
          /\ disk' = [disk EXCEPT !.heartbeat = "none"] /\ Stop
    /\ UNCHANGED <<premium, grant, line, handler, up, traffic>>

\* Faulty: a node that is published gets no further grant.
ClaimableMutUnpublished(n) == Verified(n) /\ nodes[n].alive /\ nodes[n].plane # "dns_admitted"

\* Also a node that was published needs a grant, to be repaired.
Claimable(n) == Verified(n) /\ nodes[n].alive

Claim ==
    /\ At("claim")
    /\ \/ /\ Claimable(Self)
          /\ \/ NewGrant(Self, {"installer"}, TRUE) /\ Goto("activate") /\ UNCHANGED spent
             \/ /\ Event("lost") /\ Stop
                /\ NewGrant(Self, {}, TRUE) \/ UNCHANGED <<nodes, grant>>
       \/ ~Claimable(Self) /\ Stop /\ UNCHANGED <<nodes, grant, spent>>
    /\ UNCHANGED <<premium, line, handler, disk, up, traffic>>

Unmark ==
    /\ At("unmark")
    /\ disk' = [disk EXCEPT !.marker = FALSE, !.timer = FALSE]
    /\ Stop
    /\ UNCHANGED <<premium, panelVars, up, traffic, spent>>

-----------------------------------------------------------------------------
(* activate_data_plane, for the timer or for the administrator's command.    *)

\* The operator pastes the command of the last grant.
Command ==
    /\ At("idle") /\ disk.heartbeat = "on" /\ ~disk.torn /\ "command" \in grant[Self].holders
    /\ grant' = [grant EXCEPT ![Self].holders = {"installer"}]
    /\ installer' = [NoInstaller EXCEPT !.pc = "activate"]
    /\ UNCHANGED <<premium, nodes, line, handler, disk, up, traffic, spent>>

\* A heartbeat must be accepted; then an interrupted transaction is rolled back,
\* and what is installed must be healthy.
Activate ==
    /\ At("activate")
    /\ \/ /\ BeatAccepted /\ nodes' = Beaten /\ UNCHANGED spent
          /\ IF disk.transaction # "none"
             THEN installer' = [installer EXCEPT !.pc = "rollback", !.resume = TRUE]
             ELSE IF disk.plane = "none" \/ (disk.plane = "whole" /\ up) THEN Goto("fetch") ELSE Stop
       \/ ~BeatAccepted /\ Stop /\ UNCHANGED <<nodes, spent>>
       \/ Event("lost") /\ Stop /\ UNCHANGED nodes
    /\ UNCHANGED <<premium, grant, line, handler, disk, up, traffic>>

HasToken(n, holder) == grant[n].open /\ holder \in grant[n].holders

MayFetch(n) == Ready(n) /\ HasToken(n, "installer") /\ grant[n].fetched < 3

\* The fetch is counted in one transaction, the identity is read in another.
Fetch ==
    /\ At("fetch")
    /\ LET counted == [grant EXCEPT ![Self].fetched = @ + 1] IN
         \/ MayFetch(Self) /\ grant' = counted /\ Goto("identity") /\ UNCHANGED spent
         \/ ~MayFetch(Self) /\ Stop /\ UNCHANGED <<grant, spent>>
         \/ MayFetch(Self) /\ Event("lost") /\ grant' \in {grant, counted} /\ Stop
    /\ UNCHANGED <<premium, nodes, line, handler, disk, up, traffic>>

\* The premium profile names the node.
OwnsLine(n) == premium => line.node = n

\* get_or_create_node_identity: a premium line gets its certificate at the first
\* fetch; the profile may have passed to another node in between.
Identity ==
    /\ At("identity")
    /\ IF OwnsLine(Self)
       THEN /\ line' = [line EXCEPT !.certificate = IF @ = NoCertificate THEN {Self} ELSE @]
            /\ installer' = [installer EXCEPT !.pc = "arm", !.bundle = line'.certificate]
       ELSE UNCHANGED line /\ Stop
    /\ UNCHANGED <<premium, nodes, grant, handler, disk, up, traffic, spent>>

\* Faulty: the record names what was found, not how to undo the run.
ArmMutFound ==
    /\ At("arm")
    /\ disk' = [disk EXCEPT !.transaction = disk.plane]
    /\ Goto(IF disk.plane = "none" THEN "files" ELSE "settle")
    /\ UNCHANGED <<premium, panelVars, up, traffic, spent>>

\* The backup is written, then the transaction record.
Arm ==
    /\ At("arm")
    /\ disk' = [disk EXCEPT !.transaction = IF disk.plane = "none" THEN "fresh" ELSE "existing"]
    /\ Goto(IF disk.plane = "none" THEN "files" ELSE "settle")
    /\ UNCHANGED <<premium, panelVars, up, traffic, spent>>

\* An existing plane is drained, what it counted stays in the spool.
Settle ==
    /\ At("settle")
    /\ \/ up' = FALSE /\ Goto("files") /\ UNCHANGED spent
       \/ Event("slow") /\ Goto("rollback") /\ UNCHANGED up
    /\ UNCHANGED <<premium, panelVars, disk, traffic>>

\* The agent and its heartbeat are replaced; Hysteria is put in its directory.
Files ==
    /\ At("files")
    /\ disk' = [disk EXCEPT !.plane = "partial"]
    /\ Goto("config")
    /\ UNCHANGED <<premium, panelVars, up, traffic, spent>>

\* Two configurations and the secret of the statistics endpoint, from the bundle.
Configured == [disk EXCEPT !.statsEnv = TRUE, !.certificate = installer.bundle]

\* They are written, then the site and the units.
Configure ==
    /\ At("config")
    /\ disk' = Configured
    /\ Goto("start")
    /\ UNCHANGED <<premium, panelVars, up, traffic, spent>>

\* A second heartbeat must be accepted; then the units are enabled and started, and
\* ports, listeners and firewall are checked.
Start ==
    /\ At("start")
    /\ \/ /\ BeatAccepted /\ nodes' = Beaten
          /\ disk' = [disk EXCEPT !.plane = "whole", !.state = TRUE]
          /\ \/ up' = TRUE /\ Goto("ack") /\ UNCHANGED spent
             \/ Event("unit") /\ up' \in BOOLEAN /\ Goto("rollback")
       \/ ~BeatAccepted /\ Goto("rollback") /\ UNCHANGED <<nodes, disk, up, spent>>
       \/ /\ BeatAccepted /\ Event("lost") /\ nodes' \in {nodes, Beaten}
          /\ Goto("rollback") /\ UNCHANGED <<disk, up>>
    /\ UNCHANGED <<premium, grant, line, handler, traffic>>

\* After the acknowledgement the transaction is over.
Finish ==
    /\ At("commit")
    /\ disk' = [disk EXCEPT !.transaction = "none"]
    /\ IF installer.byTimer THEN Goto("unmark") ELSE Stop
    /\ UNCHANGED <<premium, panelVars, up, traffic, spent>>

-----------------------------------------------------------------------------
(* The acknowledgement: DataPlaneBootstrapService.ack, in a worker thread.   *)

\* collect_data_plane_attestation names the certificate that is installed.
Attested == disk.certificate = line.certificate

\* data_plane_bootstrap_requires_canary.
NeedsCanary(n) == HasToken(n, "installer") /\ grant[n].automatic /\ grant[n].fetched \in 1..3

\* Whether a canary is needed is read before it runs.  The client outwaits every
\* earlier worker.
Acknowledge ==
    /\ At("ack") /\ handler = NoHandler
    /\ LET automatic == NeedsCanary(Self)
           valid == Ready(Self) /\ OwnsLine(Self) /\ Attested
       IN  \/ /\ valid /\ Goto("wait") /\ UNCHANGED spent
              /\ handler' = [pc |-> IF automatic THEN "canary" ELSE "commit", node |-> Self,
                             automatic |-> automatic, waitedFor |-> TRUE]
              /\ grant' = [grant EXCEPT ![Self].holders =
                             IF "installer" \in @ THEN @ \cup {"handler"} ELSE @]
           \/ ~valid /\ Goto("rollback") /\ UNCHANGED <<handler, grant, spent>>
           \/ valid /\ Event("lost") /\ Goto("rollback") /\ UNCHANGED <<handler, grant>>
    /\ UNCHANGED <<premium, nodes, line, disk, up, traffic>>

\* An installer that still waits rolls back.
Refuse ==
    /\ handler' = NoHandler
    /\ IF handler.waitedFor THEN Goto("rollback") ELSE UNCHANGED installer

\* The panel connects as a user of its own.
Canary ==
    /\ handler.pc = "canary"
    /\ \/ up /\ handler' = [handler EXCEPT !.pc = "fresh"] /\ UNCHANGED <<installer, spent>>
       \/ ~up /\ Refuse /\ UNCHANGED spent
       \/ up /\ Event("slow") /\ Refuse
    /\ UNCHANGED <<premium, nodes, grant, line, disk, up, traffic>>

\* Up to thirty seconds for the first snapshot and traffic acknowledgement.
AwaitFresh ==
    /\ handler.pc = "fresh"
    /\ IF nodes[handler.node].alive /\ nodes[handler.node].fresh
       THEN handler' = [handler EXCEPT !.pc = "commit"] /\ UNCHANGED <<installer, spent>>
       ELSE /\ Refuse
            /\ IF up /\ Self = handler.node /\ Ready(Self) THEN Event("slow")
               ELSE UNCHANGED spent
    /\ UNCHANGED <<premium, nodes, grant, line, disk, up, traffic>>

\* Faulty: the state of the node is not looked at again after the canary.
MayCommitMutStale(n) == HasToken(n, "handler")

\* acknowledge_data_plane_bootstrap checks everything again in one transaction.
MayCommit(n) ==
    /\ nodes[n].status = "pending_verification" /\ nodes[n].policy = "protocol_ready"
    /\ HasToken(n, "handler") /\ grant[n].fetched \in 1..3
    /\ grant[n].automatic = handler.automatic
    /\ handler.automatic => nodes[n].alive /\ nodes[n].fresh

Commit ==
    /\ handler.pc = "commit"
    /\ LET n == handler.node IN
         IF MayCommit(n)
         THEN /\ grant' = [grant EXCEPT ![n].open = FALSE]
              /\ nodes' = [nodes EXCEPT ![n].plane =
                            IF handler.automatic THEN "dns_admitted"
                            ELSE IF @ = "bootstrap_issued" THEN "data_plane_installed" ELSE @]
              /\ handler' = NoHandler
              /\ IF handler.waitedFor THEN Goto("commit") ELSE UNCHANGED installer
         ELSE Refuse /\ UNCHANGED <<nodes, grant>>
    /\ UNCHANGED <<premium, line, disk, up, traffic, spent>>

\* The connection breaks or three minutes pass; the worker goes on.
GiveUp ==
    /\ At("wait") /\ handler.waitedFor
    /\ Event("lost")
    /\ handler' = [handler EXCEPT !.waitedFor = FALSE]
    /\ Goto("rollback")
    /\ UNCHANGED <<premium, nodes, grant, line, disk, up, traffic>>

-----------------------------------------------------------------------------
(* rollback_data_plane_activation.                                         *)

Undone == IF installer.resume THEN installer' = [installer EXCEPT !.pc = "activate", !.resume = FALSE]
                              ELSE Stop

\* A rollback that fails keeps the record; when it preceded a new attempt, the exit
\* trap tries it once more.
Failed == IF installer.resume THEN installer' = [installer EXCEPT !.pc = "rollback", !.resume = FALSE]
                              ELSE Stop

\* An existing plane is restored from the backup; its spool was never touched.
RestoreExisting ==
    /\ At("rollback") /\ disk.transaction = "existing"
    /\ disk' = [disk EXCEPT !.plane = "whole", !.transaction = "none"]
    /\ up' = TRUE
    /\ Undone
    /\ UNCHANGED <<premium, panelVars, traffic, spent>>

\* Faulty: what was not acknowledged is left behind.
RequireAckMutPreserve ==
    /\ At("rollback") /\ disk.transaction = "fresh"
    /\ up' = FALSE /\ Goto("remove")
    /\ UNCHANGED <<premium, panelVars, disk, traffic, spent>>

\* A fresh plane is stopped when the panel has acknowledged all of its traffic, or
\* when it never had any; otherwise the record stays and the next run tries again.
RequireAck ==
    /\ At("rollback") /\ disk.transaction = "fresh"
    /\ LET needed == up \/ disk.state IN
         \/ /\ needed => disk.statsEnv /\ Ready(Self)
            /\ up' = FALSE /\ traffic' = FALSE /\ Goto("remove") /\ UNCHANGED spent
         \/ /\ needed /\ Failed /\ UNCHANGED <<up, traffic>>
            /\ IF disk.statsEnv /\ Ready(Self) THEN Event("lost") ELSE UNCHANGED spent
    /\ UNCHANGED <<premium, panelVars, disk>>

\* Units, configuration and stats.env go before the directory with the spool.
Remove ==
    /\ At("remove")
    /\ disk' = [disk EXCEPT !.plane = "none", !.statsEnv = FALSE, !.certificate = NoCertificate]
    /\ Goto("purge")
    /\ UNCHANGED <<premium, panelVars, up, traffic, spent>>

\* Only owned paths were deleted: rmdir fails on a directory that holds anything else,
\* before the record is removed.
Purge ==
    /\ At("purge")
    /\ IF disk.staged
       THEN disk' = [disk EXCEPT !.state = FALSE] /\ Failed
       ELSE disk' = [disk EXCEPT !.state = FALSE, !.transaction = "none"] /\ Undone
    /\ UNCHANGED <<premium, panelVars, up, traffic, spent>>

-----------------------------------------------------------------------------
(* The node's services, its users, and what interrupts the installer.        *)

\* node_agent.py heartbeat, by its timer.
Heartbeat ==
    /\ disk.heartbeat = "on" /\ ~disk.torn /\ BeatAccepted /\ ~nodes[Self].alive
    /\ nodes' = Beaten
    /\ UNCHANGED <<premium, grant, line, handler, machineVars, spent>>

\* A control cycle: snapshot and traffic are accepted.
Report ==
    /\ up /\ Ready(Self) /\ (traffic \/ ~nodes[Self].fresh)
    /\ nodes' = [nodes EXCEPT ![Self].fresh = TRUE]
    /\ traffic' = FALSE
    /\ UNCHANGED <<premium, grant, line, handler, disk, up, installer, spent>>

Use ==
    /\ up /\ Ready(Self) /\ ~traffic
    /\ traffic' = TRUE
    /\ UNCHANGED <<premium, panelVars, disk, up, installer, spent>>

\* uninstall_node, after the administrator has removed the node.
Uninstall ==
    /\ At("idle") /\ Self # Nobody /\ nodes[Self].status = "revoked" /\ ~disk.torn
    /\ disk' = Blank /\ up' = FALSE /\ traffic' = FALSE
    /\ UNCHANGED <<premium, panelVars, installer, spent>>

\* What is on the disk when the step at hand was cut off.  install unlinks a file, writes
\* it, and sets its mode at last; durable_replace_file and write_masquerade_site leave
\* a temporary; a removal goes file by file.
Cut ==
    {disk} \cup
    CASE At("agent")  -> {[disk EXCEPT !.torn = TRUE]}
      [] At("files")  -> {[disk EXCEPT !.plane = "partial", !.torn = TRUE],
                          [disk EXCEPT !.plane = "partial", !.staged = TRUE]}
      [] At("config") -> {[Configured EXCEPT !.staged = TRUE]}
      [] At("rollback") /\ disk.transaction = "existing" ->
                         {[disk EXCEPT !.plane = "partial", !.torn = TRUE],
                          [disk EXCEPT !.plane = "partial"]}
      [] At("remove") -> {[disk EXCEPT !.torn = TRUE], [disk EXCEPT !.plane = "partial"]}
      [] At("purge")  -> {[disk EXCEPT !.state = FALSE]}
      [] OTHER        -> {}

\* The units that are enabled have the agent start Hysteria from its template.
Boots == disk'.plane = "whole" /\ ~disk'.torn

\* The machine restarts, whatever the installer was doing.
Reboot ==
    /\ disk.key # 0
    /\ Event("reboot")
    /\ disk' \in Cut
    /\ up' = Boots
    /\ Stop
    /\ handler' = [handler EXCEPT !.waitedFor = FALSE]
    /\ UNCHANGED <<premium, nodes, grant, line, traffic>>

-----------------------------------------------------------------------------
Install ==
    \/ Register \/ EnableTimer \/ StartRun \/ InstallAgent \/ FirstBeat \/ Claim \/ Unmark
    \/ Activate \/ Fetch \/ Identity \/ Arm \/ Settle \/ Files
    \/ Configure \/ Start \/ Acknowledge \/ Finish
    \/ RestoreExisting \/ RequireAck \/ Remove \/ Purge

Serve == Canary \/ AwaitFresh \/ Commit

Administer(n) ==
    \/ Create(n) \/ RevokeCode(n) \/ RevokeNode(n) \/ Delete(n) \/ Standby(n) \/ Enable(n)
    \/ RemoveDns(n) \/ PassCanary(n) \/ AdmitDns(n) \/ Issue(n) \/ Expire(n)

Next ==
    \/ \E n \in Node : Administer(n) \/ GrowOld(n) \/ Paste(n)
    \/ Install \/ Serve \/ GiveUp \/ Command
    \/ Heartbeat \/ Report \/ Use \/ Uninstall \/ Reboot

Spec == Init /\ [][Next]_vars

\* systemd's timers run the installer, the heartbeat and the control loop; the
\* panel serves each request to its end.  Nobody has to administer.
FairSpec ==
    /\ Spec
    /\ WF_vars(Install) /\ WF_vars(Serve) /\ WF_vars(Heartbeat) /\ WF_vars(Report)

-----------------------------------------------------------------------------
(* What onboarding promises.                                               *)

TypeOK ==
    /\ premium \in BOOLEAN
    /\ nodes \in [Node -> NodeRow] /\ grant \in [Node -> Grant]
    /\ line \in Line /\ handler \in Handler
    /\ disk \in Disk /\ up \in BOOLEAN /\ traffic \in BOOLEAN
    /\ installer \in Installer
    /\ spent \in [EventKind -> Nat]

\* A machine that holds a registration holds the key the panel knows for that node:
\* whatever answer was lost and however often a code was pasted, no machine is left
\* signing with a key that is refused for ever.
RegistrationIsKnown ==
    Self # Nobody => nodes[Self].consumed /\ nodes[Self].key = disk.key

\* What the administrator revoked stays revoked and unpublished: neither a code that
\* is still open nor a worker that waited for a canary brings the node back.
RevocationIsFinal ==
    [][\A n \in Node : nodes[n].status = "revoked" =>
          /\ nodes'[n].status = "revoked"
          /\ nodes[n].plane # "dns_admitted" => nodes'[n].plane # "dns_admitted"]_vars

\* The spool of a node the panel still knows is deleted only when the panel has
\* acknowledged everything in it.
RollbackLosesNoTraffic ==
    [][disk.state /\ ~disk'.state /\ Verified(Self) => ~traffic]_vars

Serves(n) == up /\ Self = n /\ nodes[n].key = disk.key /\ disk.certificate = line.certificate

\* What a restart of the machine may leave that no later run gets out of: an agent or
\* a heartbeat unit half written; heartbeat units whose timer was not enabled yet; a
\* new data plane with a temporary in a directory that its rollback must remove, or
\* with a spool and no stats.env to settle it with; an upgrade by command between two
\* versions.
Stranded ==
    /\ spent["reboot"] > 0 /\ At("idle")
    /\ \/ disk.torn \/ disk.heartbeat = "units"
       \/ disk.transaction = "fresh" /\ (disk.staged \/ (disk.state /\ ~disk.statsEnv))
       \/ disk.transaction = "existing" /\ disk.plane = "partial" /\ ~disk.marker

\* A node that subscriptions name comes to serve with the certificate they pin, also
\* when it was published by an acknowledgement its installer had given up and rolled
\* back; the only excuse is a restart that left the machine Stranded.
PublishedServes ==
    \A n \in Node : Published(n) ~> Serves(n) \/ ~Published(n) \/ Stranded

\* An armed onboarding ends by itself: the marker goes, unless the node was removed or
\* a restart left the machine Stranded.
OnboardingEnds ==
    \A n \in Node : disk.timer /\ Self = n
                     ~> ~disk.marker \/ nodes[n].status = "revoked" \/ Stranded
=============================================================================
