-------------------------- MODULE NodeOnboardingProof --------------------------
(***************************************************************************)
(* Proofs about NodeOnboarding, for any number of codes and any mix of      *)
(* events.                                                                  *)
(*                                                                         *)
(* The invariant has two halves that do not depend on each other.  Known:   *)
(* what the panel's rows say of the machine's key, and of the line.         *)
(* Recorded: what is installed on the machine at each step of the installer, *)
(* and that the transaction record and the spool outlive an interruption.   *)
(***************************************************************************)
EXTENDS NodeOnboarding, TLAPS

-----------------------------------------------------------------------------
(* The inductive invariant.                                                *)

Live(n) == nodes[n].status \in {"pending_registration", "pending_verification"}

\* A key is made for one pasted code, which is the only one to be used with it.
Known ==
    /\ Self # Nobody => Self \in Node /\ nodes[Self].consumed /\ nodes[Self].key = disk.key
    /\ disk.key <= spent["paste"]
    /\ \A n \in Node : nodes[n].key <= spent["paste"] /\ (nodes[n].consumed => nodes[n].key # 0)
    /\ \A m, n \in Node : nodes[m].consumed /\ nodes[n].consumed /\ nodes[m].key = nodes[n].key => m = n
    /\ At("register") => /\ installer.code \in Node /\ disk.key # 0
                         /\ \A n \in Node : nodes[n].consumed /\ nodes[n].key = disk.key
                                              => n = installer.code
    /\ premium => \A n \in Node : Live(n) => line.node = n

\* What is installed at each step of the installer, and so what an interruption leaves.
Recorded ==
    /\ handler.waitedFor <=> At("wait")
    /\ disk.key = 0 => disk = Blank /\ ~up /\ At("idle")
    /\ At("register") \/ At("enable") =>
          disk.plane = "none" /\ disk.transaction = "none" /\ ~disk.state /\ ~up
    /\ installer.pc \in {"fetch", "identity", "arm"} =>
          disk.transaction = "none" /\ disk.plane # "partial"
    /\ installer.pc \in {"settle", "files", "config", "start", "ack", "wait", "commit",
                        "rollback"} => disk.transaction # "none"
    /\ installer.pc \in {"ack", "wait", "commit"} => disk.plane = "whole"
    /\ installer.pc \in {"remove", "purge"} => disk.transaction = "fresh" /\ ~up /\ ~traffic
    /\ At("purge") => disk.plane = "none"
    /\ disk.plane = "partial" => disk.transaction # "none"
    /\ disk.plane = "whole" \/ disk.transaction = "existing" \/ up \/ traffic => disk.state

Inv == TypeOK /\ Known /\ Recorded

-----------------------------------------------------------------------------
(* The panel's rows.                                                       *)

\* What every step does to them, but for the use of a code and the making of a key.
RowsMove ==
    /\ premium' = premium
    /\ nodes' \in [Node -> NodeRow] /\ grant' \in [Node -> Grant] /\ line' \in Line
    /\ \A n \in Node : nodes'[n].consumed = nodes[n].consumed /\ nodes'[n].key = nodes[n].key
    /\ \A n \in Node : nodes[n].status = "revoked" =>
          /\ nodes'[n].status = "revoked"
          /\ nodes[n].plane # "dns_admitted" => nodes'[n].plane # "dns_admitted"
    /\ premium => \A n \in Node : nodes'[n].status \in {"pending_registration", "pending_verification"}
                                    => line'.node = n
    /\ line.certificate # NoCertificate => line'.certificate = line.certificate

Rows == /\ TypeOK
        /\ premium => \A n \in Node : Live(n) => line.node = n

\* An event is counted; no event but a paste counts a paste.
LEMMA EventCounted ==
    ASSUME TypeOK, NEW k \in EventKind, Event(k)
    PROVE  /\ spent' \in [EventKind -> Nat]
           /\ \A j \in EventKind : j # k => spent'[j] = spent[j]
           /\ spent'[k] = spent[k] + 1
  BY DEF TypeOK, Event

LEMMA RowsIdle ==
    ASSUME Rows, UNCHANGED <<premium, nodes, grant, line>>
    PROVE  RowsMove
  BY DEF Rows, TypeOK, RowsMove, Live

\* A step that rewrites one row, and no other.
LEMMA RowWritten ==
    ASSUME Rows, UNCHANGED <<premium, line>>, grant' \in [Node -> Grant],
           NEW n \in Node, NEW r \in NodeRow,
           nodes' = [nodes EXCEPT ![n] = r],
           r.consumed = nodes[n].consumed, r.key = nodes[n].key,
           nodes[n].status = "revoked" =>
              r.status = "revoked" /\ (nodes[n].plane # "dns_admitted" => r.plane # "dns_admitted"),
           r.status \in {"pending_registration", "pending_verification"} => Live(n)
    PROVE  RowsMove
<1>1. nodes \in [Node -> NodeRow] /\ line \in Line
  BY DEF Rows, TypeOK
<1>2. nodes' \in [Node -> NodeRow] /\ nodes'[n] = r /\ \A m \in Node : m # n => nodes'[m] = nodes[m]
  BY <1>1
<1>3. \A m \in Node : nodes'[m].consumed = nodes[m].consumed /\ nodes'[m].key = nodes[m].key
  BY <1>2
<1>4. \A m \in Node : nodes[m].status = "revoked" =>
          /\ nodes'[m].status = "revoked"
          /\ nodes[m].plane # "dns_admitted" => nodes'[m].plane # "dns_admitted"
  BY <1>2
<1>5. premium => \A m \in Node : nodes'[m].status \in {"pending_registration", "pending_verification"}
                                    => line.node = m
  BY <1>2 DEF Rows, Live
<1> QED BY <1>1, <1>2, <1>3, <1>4, <1>5 DEF RowsMove

LEMMA GrantWritten ==
    ASSUME Rows, UNCHANGED <<premium, nodes, line>>, grant' \in [Node -> Grant]
    PROVE  RowsMove
  BY DEF Rows, TypeOK, RowsMove, Live

LEMMA CreateRows == ASSUME Rows, NEW n \in Node, Create(n) PROVE RowsMove
<1>1. nodes \in [Node -> NodeRow] /\ line \in Line /\ grant \in [Node -> Grant]
  BY DEF Rows, TypeOK
<1>2. nodes' \in [Node -> NodeRow] /\ nodes[n].status = "none"
  BY <1>1 DEF Create, NodeRow
<1>3. line' \in Line /\ line'.certificate = line.certificate /\ (premium => line'.node = n)
  BY <1>1 DEF Create, Line
<1>4. \A m \in Node : /\ nodes'[m].consumed = nodes[m].consumed /\ nodes'[m].key = nodes[m].key
                      /\ nodes'[m].plane = nodes[m].plane
                      /\ m # n => nodes'[m].status = nodes[m].status
  BY <1>1 DEF Create, NodeRow
<1>5. premium => \A m \in Node : m # n => nodes[m].status \in {"none", "revoked"}
  BY DEF Create
<1>6. premium => \A m \in Node : nodes'[m].status \in {"pending_registration", "pending_verification"}
                                    => line'.node = m
  BY <1>3, <1>4, <1>5
<1> QED BY <1>1, <1>2, <1>3, <1>4, <1>6 DEF Create, RowsMove

LEMMA RevokeCodeRows == ASSUME Rows, NEW n \in Node, RevokeCode(n) PROVE RowsMove
<1> DEFINE r == [nodes[n] EXCEPT !.void = TRUE, !.status = "revoked"]
<1>1. nodes[n] \in NodeRow /\ grant' \in [Node -> Grant]
  BY DEF Rows, TypeOK, RevokeCode
<1>2. r \in NodeRow /\ r.consumed = nodes[n].consumed /\ r.key = nodes[n].key /\ r.status = "revoked"
      /\ r.plane = nodes[n].plane
  BY <1>1 DEF NodeRow
<1>3. nodes' = [nodes EXCEPT ![n] = r]
  BY DEF RevokeCode, Rows, TypeOK
<1> QED BY <1>1, <1>2, <1>3, RowWritten DEF RevokeCode

LEMMA RevokeNodeRows == ASSUME Rows, NEW n \in Node, RevokeNode(n) PROVE RowsMove
<1> DEFINE r == [nodes[n] EXCEPT !.status = "revoked"]
<1>1. nodes[n] \in NodeRow /\ grant' \in [Node -> Grant]
  BY DEF Rows, TypeOK, RevokeNode
<1>2. r \in NodeRow /\ r.consumed = nodes[n].consumed /\ r.key = nodes[n].key /\ r.status = "revoked"
      /\ r.plane = nodes[n].plane
  BY <1>1 DEF NodeRow
<1>3. nodes' = [nodes EXCEPT ![n] = r]
  BY DEF RevokeNode, Rows, TypeOK
<1> QED BY <1>1, <1>2, <1>3, RowWritten DEF RevokeNode

LEMMA DeleteRows == ASSUME Rows, NEW n \in Node, Delete(n) PROVE RowsMove
<1> DEFINE v == nodes[n].void \/ ~nodes[n].consumed
           r == [nodes[n] EXCEPT !.status = "revoked", !.policy = "standby", !.void = v]
<1>1. nodes[n] \in NodeRow /\ grant \in [Node -> Grant]
  BY DEF Rows, TypeOK, Delete
<1>2. grant' \in [Node -> Grant]
  BY <1>1 DEF Delete, Grant
<1>3. nodes' = [nodes EXCEPT ![n] = r]
  BY <1>1 DEF Delete, Rows, TypeOK, NodeRow
<1>4. v \in BOOLEAN
  OBVIOUS
<1> HIDE DEF v
<1>5. r \in NodeRow /\ r.consumed = nodes[n].consumed /\ r.key = nodes[n].key /\ r.status = "revoked"
      /\ r.plane = nodes[n].plane
  BY <1>1, <1>4 DEF NodeRow
<1> QED BY <1>1, <1>2, <1>3, <1>5, RowWritten DEF Delete

LEMMA StandbyRows == ASSUME Rows, NEW n \in Node, Standby(n) PROVE RowsMove
<1> DEFINE r == [nodes[n] EXCEPT !.policy = "standby"]
<1>1. nodes[n] \in NodeRow /\ grant' \in [Node -> Grant] /\ nodes[n].status = "pending_verification"
  BY DEF Rows, TypeOK, Standby
<1>2. r \in NodeRow /\ r.consumed = nodes[n].consumed /\ r.key = nodes[n].key
      /\ r.status = nodes[n].status
  BY <1>1 DEF NodeRow
<1>3. nodes' = [nodes EXCEPT ![n] = r]
  BY DEF Standby, Rows, TypeOK
<1> QED BY <1>1, <1>2, <1>3, RowWritten DEF Standby, Live

LEMMA EnableRows == ASSUME Rows, NEW n \in Node, Enable(n) PROVE RowsMove
<1> DEFINE r == [nodes[n] EXCEPT !.policy = "protocol_ready"]
<1>1. nodes[n] \in NodeRow /\ grant' \in [Node -> Grant] /\ nodes[n].status = "pending_verification"
  BY DEF Rows, TypeOK, Enable
<1>2. r \in NodeRow /\ r.consumed = nodes[n].consumed /\ r.key = nodes[n].key
      /\ r.status = nodes[n].status
  BY <1>1 DEF NodeRow
<1>3. nodes' = [nodes EXCEPT ![n] = r]
  BY DEF Enable, Rows, TypeOK
<1> QED BY <1>1, <1>2, <1>3, RowWritten DEF Enable, Live

LEMMA RemoveDnsRows == ASSUME Rows, NEW n \in Node, RemoveDns(n) PROVE RowsMove
<1> DEFINE r == [nodes[n] EXCEPT !.plane = "direct_canary_passed"]
<1>1. nodes[n] \in NodeRow /\ grant' \in [Node -> Grant]
  BY DEF Rows, TypeOK, RemoveDns
<1>2. r \in NodeRow /\ r.consumed = nodes[n].consumed /\ r.key = nodes[n].key
      /\ r.status = nodes[n].status /\ r.plane # "dns_admitted"
  BY <1>1 DEF NodeRow
<1>3. nodes' = [nodes EXCEPT ![n] = r]
  BY DEF RemoveDns, Rows, TypeOK
<1> QED BY <1>1, <1>2, <1>3, RowWritten DEF RemoveDns, Live

LEMMA PassCanaryRows == ASSUME Rows, NEW n \in Node, PassCanary(n) PROVE RowsMove
<1> DEFINE r == [nodes[n] EXCEPT !.plane = "direct_canary_passed"]
<1>1. nodes[n] \in NodeRow /\ grant' \in [Node -> Grant] /\ nodes[n].status = "pending_verification"
  BY DEF Rows, TypeOK, PassCanary
<1>2. r \in NodeRow /\ r.consumed = nodes[n].consumed /\ r.key = nodes[n].key
      /\ r.status = nodes[n].status
  BY <1>1 DEF NodeRow
<1>3. nodes' = [nodes EXCEPT ![n] = r]
  BY DEF PassCanary, Rows, TypeOK
<1> QED BY <1>1, <1>2, <1>3, RowWritten DEF PassCanary, Live

LEMMA AdmitDnsRows == ASSUME Rows, NEW n \in Node, AdmitDns(n) PROVE RowsMove
<1> DEFINE r == [nodes[n] EXCEPT !.plane = "dns_admitted"]
<1>1. nodes[n] \in NodeRow /\ grant' \in [Node -> Grant] /\ nodes[n].status = "pending_verification"
  BY DEF Rows, TypeOK, AdmitDns
<1>2. r \in NodeRow /\ r.consumed = nodes[n].consumed /\ r.key = nodes[n].key
      /\ r.status = nodes[n].status
  BY <1>1 DEF NodeRow
<1>3. nodes' = [nodes EXCEPT ![n] = r]
  BY DEF AdmitDns, Rows, TypeOK
<1> QED BY <1>1, <1>2, <1>3, RowWritten DEF AdmitDns, Live

\* A grant never publishes a node.
LEMMA NewGrantRows ==
    ASSUME Rows, NEW n \in Node, NEW h \in SUBSET {"command", "installer", "handler"},
           NEW a \in BOOLEAN, NewGrant(n, h, a), UNCHANGED <<premium, line>>
    PROVE  RowsMove
<1> DEFINE p == IF nodes[n].plane = "not_issued" THEN "bootstrap_issued" ELSE nodes[n].plane
           r == [nodes[n] EXCEPT !.policy = "protocol_ready", !.plane = p]
           g == [open |-> TRUE, automatic |-> a, fetched |-> 0, holders |-> h]
<1>1. nodes[n] \in NodeRow /\ grant \in [Node -> Grant]
  BY DEF Rows, TypeOK
<1>2. grant' = [grant EXCEPT ![n] = g]
  BY DEF NewGrant
<1>3. g \in Grant
  BY DEF Grant
<1>4. grant' \in [Node -> Grant]
  BY <1>1, <1>2, <1>3
<1>5. nodes' = [nodes EXCEPT ![n] = r]
  BY <1>1 DEF NewGrant, Rows, TypeOK, NodeRow
<1>6. /\ p \in {"not_issued", "bootstrap_issued", "data_plane_installed",
                "direct_canary_passed", "dns_admitted"}
      /\ p = "dns_admitted" => nodes[n].plane = "dns_admitted"
  BY <1>1 DEF NodeRow
<1> HIDE DEF p
<1>7. r \in NodeRow /\ r.consumed = nodes[n].consumed /\ r.key = nodes[n].key
      /\ r.status = nodes[n].status /\ r.plane = p
  BY <1>1, <1>6 DEF NodeRow
<1> QED BY <1>1, <1>4, <1>5, <1>6, <1>7, RowWritten DEF Live

LEMMA IssueRows == ASSUME Rows, NEW n \in Node, Issue(n) PROVE RowsMove
  BY NewGrantRows DEF Issue

LEMMA ExpireRows == ASSUME Rows, NEW n \in Node, Expire(n) PROVE RowsMove
<1>1. nodes[n] \in NodeRow /\ grant \in [Node -> Grant] /\ UNCHANGED <<premium, line>>
  BY DEF Rows, TypeOK, Expire
<1>2. CASE nodes' = [nodes EXCEPT ![n].void = TRUE] /\ UNCHANGED grant
  <2> DEFINE r == [nodes[n] EXCEPT !.void = TRUE]
  <2>1. r \in NodeRow /\ r.consumed = nodes[n].consumed /\ r.key = nodes[n].key
        /\ r.status = nodes[n].status /\ r.plane = nodes[n].plane
    BY <1>1 DEF NodeRow
  <2>2. nodes' = [nodes EXCEPT ![n] = r]
    BY <1>2 DEF Rows, TypeOK
  <2> QED BY <1>1, <1>2, <2>1, <2>2, RowWritten DEF Live
<1>3. CASE grant' = [grant EXCEPT ![n].open = FALSE] /\ UNCHANGED nodes
  <2>1. grant' \in [Node -> Grant]
    BY <1>1, <1>3 DEF Grant
  <2> QED BY <1>1, <1>3, <2>1, GrantWritten
<1> QED BY <1>2, <1>3 DEF Expire

LEMMA GrowOldRows == ASSUME Rows, NEW n \in Node, GrowOld(n) PROVE RowsMove
<1>1. nodes[n] \in NodeRow /\ grant' \in [Node -> Grant] /\ UNCHANGED <<premium, line>>
  BY DEF Rows, TypeOK, GrowOld
<1>2. CASE nodes' = [nodes EXCEPT ![n].alive = FALSE]
  <2> DEFINE r == [nodes[n] EXCEPT !.alive = FALSE]
  <2>1. r \in NodeRow /\ r.consumed = nodes[n].consumed /\ r.key = nodes[n].key
        /\ r.status = nodes[n].status /\ r.plane = nodes[n].plane
    BY <1>1 DEF NodeRow
  <2>2. nodes' = [nodes EXCEPT ![n] = r]
    BY <1>2 DEF Rows, TypeOK
  <2> QED BY <1>1, <2>1, <2>2, RowWritten DEF Live
<1>3. CASE nodes' = [nodes EXCEPT ![n].fresh = FALSE]
  <2> DEFINE r == [nodes[n] EXCEPT !.fresh = FALSE]
  <2>1. r \in NodeRow /\ r.consumed = nodes[n].consumed /\ r.key = nodes[n].key
        /\ r.status = nodes[n].status /\ r.plane = nodes[n].plane
    BY <1>1 DEF NodeRow
  <2>2. nodes' = [nodes EXCEPT ![n] = r]
    BY <1>3 DEF Rows, TypeOK
  <2> QED BY <1>1, <2>1, <2>2, RowWritten DEF Live
<1> QED BY <1>2, <1>3 DEF GrowOld

LEMMA BeatenRows == ASSUME Rows, Verified(Self), nodes' = Beaten, UNCHANGED <<premium, grant, line>>
                    PROVE  RowsMove
<1> DEFINE n == Self
           r == [nodes[n] EXCEPT !.alive = TRUE]
<1>1. n \in Node /\ nodes[n] \in NodeRow /\ grant' \in [Node -> Grant]
  BY DEF Rows, TypeOK, Verified
<1>2. r \in NodeRow /\ r.consumed = nodes[n].consumed /\ r.key = nodes[n].key
      /\ r.status = nodes[n].status /\ r.plane = nodes[n].plane
  BY <1>1 DEF NodeRow
<1>3. nodes' = [nodes EXCEPT ![n] = r]
  BY DEF Rows, TypeOK, Beaten
<1> QED BY <1>1, <1>2, <1>3, RowWritten DEF Live

LEMMA ReportRows == ASSUME Rows, Report PROVE RowsMove
<1> DEFINE n == Self
           r == [nodes[n] EXCEPT !.fresh = TRUE]
<1>1. n \in Node /\ nodes[n] \in NodeRow /\ grant' \in [Node -> Grant]
  BY DEF Rows, TypeOK, Report, Ready, Verified
<1>2. r \in NodeRow /\ r.consumed = nodes[n].consumed /\ r.key = nodes[n].key
      /\ r.status = nodes[n].status /\ r.plane = nodes[n].plane
  BY <1>1 DEF NodeRow
<1>3. nodes' = [nodes EXCEPT ![n] = r]
  BY DEF Rows, TypeOK, Report
<1> QED BY <1>1, <1>2, <1>3, RowWritten DEF Report, Live

LEMMA FirstBeatRows == ASSUME Rows, FirstBeat PROVE RowsMove
  BY BeatenRows, RowsIdle DEF FirstBeat, BeatAccepted

LEMMA ActivateRows == ASSUME Rows, Activate PROVE RowsMove
  BY BeatenRows, RowsIdle DEF Activate, BeatAccepted

LEMMA HeartbeatRows == ASSUME Rows, Heartbeat PROVE RowsMove
  BY BeatenRows DEF Heartbeat, BeatAccepted

LEMMA ClaimRows == ASSUME Rows, Claim PROVE RowsMove
<1>1. CASE UNCHANGED <<nodes, grant>>
  BY <1>1, RowsIdle DEF Claim
<1>2. CASE ~UNCHANGED <<nodes, grant>>
  <2>1. Self \in Node /\ UNCHANGED <<premium, line>>
    BY <1>2 DEF Claim, Claimable, Verified
  <2>2. NewGrant(Self, {"installer"}, TRUE) \/ NewGrant(Self, {}, TRUE)
    BY <1>2 DEF Claim
  <2> QED BY <2>1, <2>2, NewGrantRows
<1> QED BY <1>1, <1>2

LEMMA CommandRows == ASSUME Rows, Command PROVE RowsMove
<1>1. grant \in [Node -> Grant]
  BY DEF Rows, TypeOK
<1>2. grant' \in [Node -> Grant]
  BY <1>1 DEF Command, Grant
<1> QED BY <1>2, GrantWritten DEF Command

LEMMA FetchRows == ASSUME Rows, Fetch PROVE RowsMove
<1>1. CASE UNCHANGED grant
  BY <1>1, RowsIdle DEF Fetch
<1>2. CASE MayFetch(Self) /\ grant' = [grant EXCEPT ![Self].fetched = @ + 1]
  <2>1. grant \in [Node -> Grant] /\ Self \in Node /\ grant[Self].fetched < 3
    BY <1>2 DEF Rows, TypeOK, MayFetch, Ready, Verified
  <2>2. grant[Self].fetched + 1 \in 0..3
    BY <2>1 DEF Grant
  <2>3. grant' \in [Node -> Grant]
    BY <1>2, <2>1, <2>2 DEF Grant
  <2> QED BY <2>3, GrantWritten DEF Fetch
<1> QED BY <1>1, <1>2 DEF Fetch

\* A certificate, once a line has one, is the line's for good.
LEMMA IdentityRows == ASSUME Rows, Identity PROVE RowsMove
<1>1. CASE UNCHANGED line
  BY <1>1, RowsIdle DEF Identity
<1>2. CASE line' = [line EXCEPT !.certificate = IF @ = NoCertificate THEN {Self} ELSE @]
  <2> DEFINE c == IF line.certificate = NoCertificate THEN {Self} ELSE line.certificate
  <2>1. /\ disk \in Disk /\ line \in Line /\ nodes \in [Node -> NodeRow]
        /\ grant \in [Node -> Grant]
    BY DEF Rows, TypeOK
  <2>0. Self \in Node \cup {Nobody}
    BY <2>1 DEF Disk, Self
  <2>2. c \in Bundle /\ (line.certificate # NoCertificate => c = line.certificate)
    BY <2>1, <2>0 DEF Line, Bundle, Certificate
  <2>3. line' = [line EXCEPT !.certificate = c]
    BY <1>2, <2>1 DEF Line
  <2> HIDE DEF c
  <2>4. line' \in Line /\ line'.node = line.node /\ line'.certificate = c
    BY <2>1, <2>2, <2>3 DEF Line
  <2>5. UNCHANGED <<premium, nodes, grant>>
    BY DEF Identity
  <2> QED BY <2>1, <2>2, <2>4, <2>5 DEF Rows, RowsMove, Live
<1> QED BY <1>1, <1>2 DEF Identity

LEMMA AcknowledgeRows == ASSUME Rows, Acknowledge PROVE RowsMove
<1>1. CASE UNCHANGED grant
  BY <1>1, RowsIdle DEF Acknowledge
<1>2. CASE ~UNCHANGED grant
  <2> DEFINE h == IF "installer" \in grant[Self].holders
                  THEN grant[Self].holders \cup {"handler"} ELSE grant[Self].holders
  <2>1. grant \in [Node -> Grant] /\ Self \in Node
    BY <1>2 DEF Rows, TypeOK, Acknowledge, Ready, Verified
  <2>2. grant' = [grant EXCEPT ![Self].holders = h]
    BY <1>2, <2>1 DEF Acknowledge
  <2>3. h \in SUBSET {"command", "installer", "handler"}
    BY <2>1 DEF Grant
  <2> HIDE DEF h
  <2>4. grant' \in [Node -> Grant]
    BY <2>1, <2>2, <2>3 DEF Grant
  <2> QED BY <2>4, GrantWritten DEF Acknowledge
<1> QED BY <1>1, <1>2

\* The acknowledgement publishes only a node that is still paired.
LEMMA CommitRows == ASSUME Rows, Commit PROVE RowsMove
<1>1. CASE UNCHANGED <<nodes, grant>>
  BY <1>1, RowsIdle DEF Commit
<1>2. CASE ~UNCHANGED <<nodes, grant>>
  <2> DEFINE n == handler.node
             p == IF handler.automatic THEN "dns_admitted"
                  ELSE IF nodes[n].plane = "bootstrap_issued" THEN "data_plane_installed"
                  ELSE nodes[n].plane
             r == [nodes[n] EXCEPT !.plane = p]
  <2>1. MayCommit(n) /\ grant' = [grant EXCEPT ![n].open = FALSE] /\ UNCHANGED <<premium, line>>
    BY <1>2 DEF Commit
  <2>2. nodes \in [Node -> NodeRow] /\ grant \in [Node -> Grant] /\ nodes[n].status = "pending_verification"
    BY <2>1 DEF Rows, TypeOK, MayCommit
  <2>3. grant' \in [Node -> Grant]
    BY <2>1, <2>2 DEF Grant
  <2>4. nodes' = [nodes EXCEPT ![n].plane = p]
    BY <1>2, <2>2 DEF Commit, NodeRow
  <2>5. CASE n \in Node
    <3>1. nodes[n] \in NodeRow /\ nodes' = [nodes EXCEPT ![n] = r]
      BY <2>2, <2>4, <2>5
    <3>2. p \in {"not_issued", "bootstrap_issued", "data_plane_installed",
                 "direct_canary_passed", "dns_admitted"}
      BY <3>1 DEF NodeRow
    <3> HIDE DEF p
    <3>3. r \in NodeRow /\ r.consumed = nodes[n].consumed /\ r.key = nodes[n].key
          /\ r.status = nodes[n].status
      BY <3>1, <3>2 DEF NodeRow
    <3> QED BY <2>1, <2>2, <2>3, <2>5, <3>1, <3>3, RowWritten DEF Live
  <2>6. CASE n \notin Node
    <3>1. UNCHANGED nodes
      BY <2>2, <2>4, <2>6
    <3> QED BY <2>1, <2>3, <3>1, GrantWritten
  <2> QED BY <2>5, <2>6
<1> QED BY <1>1, <1>2


LEMMA AdministerRows == ASSUME Rows, NEW n \in Node, Administer(n) PROVE RowsMove
  BY CreateRows, RevokeCodeRows, RevokeNodeRows, DeleteRows, StandbyRows, EnableRows, RemoveDnsRows,
     PassCanaryRows, AdmitDnsRows, IssueRows, ExpireRows DEF Administer

LEMMA StartRows == ASSUME Rows, Start PROVE RowsMove
  BY BeatenRows, RowsIdle DEF Start, BeatAccepted

LEMMA InstallRows == ASSUME Rows, Install PROVE RowsMove \/ Register
<1>1. CASE EnableTimer \/ StartRun \/ InstallAgent \/ Unmark \/ Arm \/ Settle \/ Files
           \/ Configure \/ Finish \/ RestoreExisting \/ RequireAck \/ Remove \/ Purge
  <2>1. UNCHANGED <<premium, nodes, grant, line>>
    BY <1>1 DEF EnableTimer, StartRun, InstallAgent, Unmark, Arm, Settle, Files, Configure,
                Finish, RestoreExisting, RequireAck, Remove, Purge, panelVars
  <2> QED BY <2>1, RowsIdle
<1> QED BY <1>1, FirstBeatRows, ClaimRows, ActivateRows, FetchRows, IdentityRows, StartRows,
           AcknowledgeRows DEF Install

LEMMA StepRows == ASSUME Rows, [Next]_vars
                  PROVE  RowsMove \/ Register \/ \E n \in Node : Paste(n)
<1>1. CASE Canary \/ AwaitFresh \/ GiveUp \/ Use \/ Uninstall \/ Reboot \/ UNCHANGED vars
  <2>1. UNCHANGED <<premium, nodes, grant, line>>
    BY <1>1 DEF Canary, AwaitFresh, GiveUp, Use, Uninstall, Reboot, vars, panelVars
  <2> QED BY <2>1, RowsIdle
<1> QED BY <1>1, AdministerRows, GrowOldRows, InstallRows, CommitRows, CommandRows, HeartbeatRows,
           ReportRows DEF Next, Serve

-----------------------------------------------------------------------------
(* The machine.                                                            *)

\* What every step but Register and Paste does to the machine and its handler.
MachineMove ==
    /\ disk' \in Disk /\ up' \in BOOLEAN /\ traffic' \in BOOLEAN
    /\ installer' \in Installer /\ handler' \in Handler
    /\ (disk'.key = disk.key /\ disk'.registration = disk.registration) \/ disk' = Blank
    /\ installer' = installer \/ installer'.pc # "register"
    /\ Recorded'

Machine == TypeOK /\ Recorded

Pc == {"idle", "register", "enable", "agent", "beat", "claim", "activate", "fetch",
       "identity", "arm", "settle", "files", "config", "start", "ack", "wait", "commit",
       "unmark", "rollback", "remove", "purge"}

LEMMA Gone ==
    ASSUME TypeOK, NEW pc \in Pc, Goto(pc)
    PROVE  installer' \in Installer /\ installer'.pc = pc
<1>1. installer \in Installer
  BY DEF TypeOK
<1> QED BY <1>1 DEF Installer, Goto, Pc

LEMMA Stopped == ASSUME Stop PROVE installer' \in Installer /\ installer'.pc = "idle"
  BY DEF Stop, NoInstaller, Installer, Bundle, NoCertificate

LEMMA Emptied ==
    ASSUME disk' = Blank
    PROVE  /\ disk' \in Disk /\ disk'.key = 0 /\ disk'.registration = Nobody /\ disk'.plane = "none"
           /\ disk'.transaction = "none" /\ disk'.state = FALSE
<1>1. Nobody \in Nat /\ 0 \in Nat
  BY DEF Nobody
<1>2. NoCertificate \in Bundle
  BY DEF NoCertificate, Bundle
<1> QED BY <1>1, <1>2 DEF Blank, Disk

LEMMA Refused ==
    ASSUME TypeOK, Refuse
    PROVE  /\ handler' \in Handler /\ handler'.waitedFor = FALSE
           /\ IF handler.waitedFor THEN installer' \in Installer /\ installer'.pc = "rollback"
                                   ELSE installer' = installer
<1>1. handler' \in Handler /\ handler'.waitedFor = FALSE
  BY DEF Refuse, NoHandler, Handler
<1> QED BY <1>1, Gone DEF Refuse, Pc

LEMMA Undoing ==
    ASSUME TypeOK, Undone
    PROVE  installer' \in Installer /\ installer'.pc \in {"idle", "activate"}
<1>1. CASE installer.resume
  <2>1. installer \in Installer /\ installer' = [installer EXCEPT !.pc = "activate", !.resume = FALSE]
    BY <1>1 DEF TypeOK, Undone
  <2> QED BY <2>1 DEF Installer
<1>2. CASE ~installer.resume
  BY <1>2, Stopped DEF Undone
<1> QED BY <1>1, <1>2

LEMMA Failing ==
    ASSUME TypeOK, Failed
    PROVE  installer' \in Installer /\ installer'.pc \in {"idle", "rollback"}
<1>1. CASE installer.resume
  <2>1. installer \in Installer /\ installer' = [installer EXCEPT !.pc = "rollback", !.resume = FALSE]
    BY <1>1 DEF TypeOK, Failed
  <2> QED BY <2>1 DEF Installer
<1>2. CASE ~installer.resume
  BY <1>2, Stopped DEF Failed
<1> QED BY <1>1, <1>2

LEMMA MachineIdle ==
    ASSUME Machine, UNCHANGED machineVars, UNCHANGED handler
    PROVE  MachineMove
  BY DEF Machine, TypeOK, MachineMove, Recorded, machineVars, At

LEMMA EnableTimerMachine == ASSUME Machine, EnableTimer PROVE MachineMove
<1>1. disk \in Disk /\ At("enable") /\ UNCHANGED <<up, traffic, handler>>
  BY DEF Machine, TypeOK, EnableTimer, panelVars
<1>2. CASE disk' = [disk EXCEPT !.timer = TRUE] /\ Stop
  <2>1. /\ disk' \in Disk /\ disk'.key = disk.key /\ disk'.registration = disk.registration
        /\ disk'.plane = disk.plane /\ disk'.transaction = disk.transaction /\ disk'.state = disk.state
    BY <1>1, <1>2 DEF Disk
  <2> QED BY <1>1, <1>2, <2>1, Stopped DEF Machine, TypeOK, MachineMove, Recorded, At
<1>3. CASE Discard
  BY <1>1, <1>3, Emptied, Stopped DEF Discard, Machine, TypeOK, MachineMove, Recorded, At
<1> QED BY <1>2, <1>3 DEF EnableTimer

LEMMA StartRunMachine == ASSUME Machine, StartRun PROVE MachineMove
<1>1. At("idle") /\ disk.timer /\ UNCHANGED <<disk, up, traffic, handler>>
  BY DEF StartRun, panelVars
<1>2. disk.key # 0
  BY <1>1 DEF Machine, Recorded, Blank
<1>3. PICK pc \in {"unmark", "agent", "claim"} :
        installer' = [NoInstaller EXCEPT !.pc = pc, !.byTimer = TRUE]
  BY DEF StartRun
<1>4. installer' \in Installer /\ installer'.pc \in {"unmark", "agent", "claim"}
  BY <1>3 DEF NoInstaller, Installer, Bundle, NoCertificate
<1> QED BY <1>1, <1>2, <1>4 DEF Machine, TypeOK, MachineMove, Recorded, At

LEMMA InstallAgentMachine == ASSUME Machine, InstallAgent PROVE MachineMove
<1>1. disk \in Disk /\ At("agent") /\ UNCHANGED <<up, traffic, handler>>
  BY DEF Machine, TypeOK, InstallAgent, panelVars
<1>2. /\ disk' \in Disk /\ disk'.key = disk.key /\ disk'.registration = disk.registration
      /\ disk'.plane = disk.plane /\ disk'.transaction = disk.transaction /\ disk'.state = disk.state
  BY <1>1 DEF InstallAgent, Disk
<1>3. installer' \in Installer /\ installer'.pc = "beat"
  BY Gone DEF Machine, InstallAgent, Pc
<1> QED BY <1>1, <1>2, <1>3 DEF Machine, TypeOK, MachineMove, Recorded, At

LEMMA FirstBeatMachine == ASSUME Machine, FirstBeat PROVE MachineMove
<1>1. disk \in Disk /\ At("beat") /\ UNCHANGED <<up, traffic, handler>>
  BY DEF Machine, TypeOK, FirstBeat
<1>2. PICK b \in {"none", "on"} : disk' = [disk EXCEPT !.heartbeat = b]
  BY DEF FirstBeat
<1>3. /\ disk' \in Disk /\ disk'.key = disk.key /\ disk'.registration = disk.registration
      /\ disk'.plane = disk.plane /\ disk'.transaction = disk.transaction /\ disk'.state = disk.state
  BY <1>1, <1>2 DEF Disk
<1>4. installer' \in Installer /\ installer'.pc \in {"idle", "claim"}
  BY Gone, Stopped DEF Machine, FirstBeat, Pc
<1> QED BY <1>1, <1>3, <1>4 DEF Machine, TypeOK, MachineMove, Recorded, At

LEMMA ClaimMachine == ASSUME Machine, Claim PROVE MachineMove
<1>1. At("claim") /\ UNCHANGED <<disk, up, traffic, handler>>
  BY DEF Claim
<1>2. installer' \in Installer /\ installer'.pc \in {"idle", "activate"}
  BY Gone, Stopped DEF Machine, Claim, Pc
<1> QED BY <1>1, <1>2 DEF Machine, TypeOK, MachineMove, Recorded, At

LEMMA UnmarkMachine == ASSUME Machine, Unmark PROVE MachineMove
<1>1. disk \in Disk /\ At("unmark") /\ UNCHANGED <<up, traffic, handler>>
  BY DEF Machine, TypeOK, Unmark, panelVars
<1>2. /\ disk' \in Disk /\ disk'.key = disk.key /\ disk'.registration = disk.registration
      /\ disk'.plane = disk.plane /\ disk'.transaction = disk.transaction /\ disk'.state = disk.state
  BY <1>1 DEF Unmark, Disk
<1>3. installer' \in Installer /\ installer'.pc = "idle"
  BY Stopped DEF Unmark
<1> QED BY <1>1, <1>2, <1>3 DEF Machine, TypeOK, MachineMove, Recorded, At

LEMMA CommandMachine == ASSUME Machine, Command PROVE MachineMove
<1>1. At("idle") /\ disk.heartbeat = "on" /\ UNCHANGED <<disk, up, traffic, handler>>
  BY DEF Command
<1>2. disk.key # 0
  BY <1>1 DEF Machine, Recorded, Blank
<1>3. installer' \in Installer /\ installer'.pc = "activate"
  BY DEF Command, NoInstaller, Installer, Bundle, NoCertificate
<1> QED BY <1>1, <1>2, <1>3 DEF Machine, TypeOK, MachineMove, Recorded, At

LEMMA ActivateMachine == ASSUME Machine, Activate PROVE MachineMove
<1>1. At("activate") /\ UNCHANGED <<disk, up, traffic, handler>>
  BY DEF Activate
<1>2. \/ Stop
      \/ disk.transaction # "none" /\ installer' = [installer EXCEPT !.pc = "rollback", !.resume = TRUE]
      \/ disk.transaction = "none" /\ disk.plane # "partial" /\ Goto("fetch")
  BY DEF Activate
<1>3. installer \in Installer
  BY DEF Machine, TypeOK
<1>4. installer' \in Installer /\ \/ installer'.pc = "idle"
                                  \/ disk.transaction # "none" /\ installer'.pc = "rollback"
                                  \/ disk.transaction = "none" /\ disk.plane # "partial"
                                     /\ installer'.pc = "fetch"
  <2>1. CASE Stop
    BY <2>1, Stopped
  <2>2. CASE disk.transaction # "none" /\ installer' = [installer EXCEPT !.pc = "rollback", !.resume = TRUE]
    BY <1>3, <2>2 DEF Installer
  <2>3. CASE disk.transaction = "none" /\ disk.plane # "partial" /\ Goto("fetch")
    BY <2>3, Gone DEF Machine, Pc
  <2> QED BY <1>2, <2>1, <2>2, <2>3
<1> QED BY <1>1, <1>4 DEF Machine, TypeOK, MachineMove, Recorded, At

LEMMA FetchMachine == ASSUME Machine, Fetch PROVE MachineMove
<1>1. At("fetch") /\ UNCHANGED <<disk, up, traffic, handler>>
  BY DEF Fetch
<1>2. installer' \in Installer /\ installer'.pc \in {"idle", "identity"}
  BY Gone, Stopped DEF Machine, Fetch, Pc
<1> QED BY <1>1, <1>2 DEF Machine, TypeOK, MachineMove, Recorded, At

LEMMA IdentityMachine == ASSUME Machine, Rows, Identity PROVE MachineMove
<1>1. At("identity") /\ UNCHANGED <<disk, up, traffic, handler>>
  BY DEF Identity
<1>2. CASE installer' = [installer EXCEPT !.pc = "arm", !.bundle = line'.certificate]
  <2>1. line' \in Line /\ installer \in Installer
    BY IdentityRows DEF RowsMove, Machine, TypeOK
  <2>2. line'.certificate \in Bundle
    BY <2>1 DEF Line
  <2>3. installer' \in Installer /\ installer'.pc = "arm"
    BY <1>2, <2>1, <2>2 DEF Installer
  <2> QED BY <1>1, <2>3 DEF Machine, TypeOK, MachineMove, Recorded, At
<1>3. CASE Stop
  BY <1>1, <1>3, Stopped DEF Machine, TypeOK, MachineMove, Recorded, At
<1> QED BY <1>2, <1>3 DEF Identity

\* The record is written before anything that is installed is touched.
LEMMA ArmMachine == ASSUME Machine, Arm PROVE MachineMove
<1>1. disk \in Disk /\ At("arm") /\ UNCHANGED <<up, traffic, handler>>
  BY DEF Machine, TypeOK, Arm, panelVars
<1>2. /\ disk' \in Disk /\ disk'.key = disk.key /\ disk'.registration = disk.registration
      /\ disk'.plane = disk.plane /\ disk'.state = disk.state
      /\ disk'.transaction = IF disk.plane = "none" THEN "fresh" ELSE "existing"
  BY <1>1 DEF Arm, Disk
<1>3. installer' \in Installer /\ installer'.pc \in {"files", "settle"}
  BY Gone DEF Machine, Arm, Pc
<1>4. disk.plane \in {"none", "partial", "whole"}
  BY <1>1 DEF Disk
<1> QED BY <1>1, <1>2, <1>3, <1>4 DEF Machine, TypeOK, MachineMove, Recorded, At

LEMMA SettleMachine == ASSUME Machine, Settle PROVE MachineMove
<1>1. At("settle") /\ UNCHANGED <<disk, traffic, handler>>
  BY DEF Settle, panelVars
<1>2. installer' \in Installer /\ installer'.pc \in {"files", "rollback"}
  BY Gone DEF Machine, Settle, Pc
<1>3. CASE up' = FALSE
  BY <1>1, <1>2, <1>3 DEF Machine, TypeOK, MachineMove, Recorded, At
<1>4. CASE UNCHANGED up
  BY <1>1, <1>2, <1>4 DEF Machine, TypeOK, MachineMove, Recorded, At
<1> QED BY <1>3, <1>4 DEF Settle

LEMMA FilesMachine == ASSUME Machine, Files PROVE MachineMove
<1>1. disk \in Disk /\ At("files") /\ UNCHANGED <<up, traffic, handler>>
  BY DEF Machine, TypeOK, Files, panelVars
<1>2. /\ disk' \in Disk /\ disk'.key = disk.key /\ disk'.registration = disk.registration
      /\ disk'.plane = "partial" /\ disk'.transaction = disk.transaction /\ disk'.state = disk.state
  BY <1>1 DEF Files, Disk
<1>3. installer' \in Installer /\ installer'.pc = "config"
  BY Gone DEF Machine, Files, Pc
<1> QED BY <1>1, <1>2, <1>3 DEF Machine, TypeOK, MachineMove, Recorded, At

LEMMA ConfiguredDisk ==
    ASSUME TypeOK
    PROVE  /\ Configured \in Disk
           /\ Configured.key = disk.key /\ Configured.registration = disk.registration
           /\ Configured.plane = disk.plane /\ Configured.transaction = disk.transaction
           /\ Configured.state = disk.state
<1>1. disk \in Disk /\ installer.bundle \in Bundle
  BY DEF TypeOK, Installer
<1> QED BY <1>1 DEF Configured, Disk

LEMMA ConfigureMachine == ASSUME Machine, Configure PROVE MachineMove
<1>1. At("config") /\ UNCHANGED <<up, traffic, handler>>
  BY DEF Configure, panelVars
<1>2. /\ disk' \in Disk /\ disk'.key = disk.key /\ disk'.registration = disk.registration
      /\ disk'.plane = disk.plane /\ disk'.transaction = disk.transaction /\ disk'.state = disk.state
  BY ConfiguredDisk DEF Machine, Configure
<1>3. installer' \in Installer /\ installer'.pc = "start"
  BY Gone DEF Machine, Configure, Pc
<1> QED BY <1>1, <1>2, <1>3 DEF Machine, TypeOK, MachineMove, Recorded, At

LEMMA StartMachine == ASSUME Machine, Start PROVE MachineMove
<1>1. disk \in Disk /\ At("start") /\ UNCHANGED <<traffic, handler>> /\ up' \in BOOLEAN
  BY DEF Machine, TypeOK, Start
<1>2. installer' \in Installer /\ installer'.pc \in {"ack", "rollback"}
  BY Gone DEF Machine, Start, Pc
<1>3. CASE disk' = [disk EXCEPT !.plane = "whole", !.state = TRUE]
  <2>1. /\ disk' \in Disk /\ disk'.key = disk.key /\ disk'.registration = disk.registration
        /\ disk'.plane = "whole" /\ disk'.transaction = disk.transaction /\ disk'.state = TRUE
    BY <1>1, <1>3 DEF Disk
  <2> QED BY <1>1, <1>2, <2>1 DEF Machine, TypeOK, MachineMove, Recorded, At
<1>4. CASE UNCHANGED <<disk, up>> /\ Goto("rollback")
  BY <1>1, <1>2, <1>4, Gone DEF Machine, TypeOK, MachineMove, Recorded, At, Pc
<1> QED BY <1>3, <1>4 DEF Start

LEMMA FinishMachine == ASSUME Machine, Finish PROVE MachineMove
<1>1. disk \in Disk /\ At("commit") /\ UNCHANGED <<up, traffic, handler>>
  BY DEF Machine, TypeOK, Finish, panelVars
<1>2. /\ disk' \in Disk /\ disk'.key = disk.key /\ disk'.registration = disk.registration
      /\ disk'.plane = disk.plane /\ disk'.transaction = "none" /\ disk'.state = disk.state
  BY <1>1 DEF Finish, Disk
<1>3. installer' \in Installer /\ installer'.pc \in {"unmark", "idle"}
  BY Gone, Stopped DEF Machine, Finish, Pc
<1> QED BY <1>1, <1>2, <1>3 DEF Machine, TypeOK, MachineMove, Recorded, At

LEMMA AcknowledgeMachine == ASSUME Machine, Acknowledge PROVE MachineMove
<1>1. At("ack") /\ ~handler.waitedFor /\ UNCHANGED <<disk, up, traffic>>
  BY DEF Acknowledge, NoHandler
<1>2. CASE Goto("rollback") /\ UNCHANGED handler
  BY <1>1, <1>2, Gone DEF Machine, TypeOK, MachineMove, Recorded, At, Pc
<1>3. CASE /\ Goto("wait") /\ Ready(Self)
           /\ handler' = [pc |-> IF NeedsCanary(Self) THEN "canary" ELSE "commit", node |-> Self,
                          automatic |-> NeedsCanary(Self), waitedFor |-> TRUE]
  <2> DEFINE a == NeedsCanary(Self)
             h == [pc |-> IF a THEN "canary" ELSE "commit", node |-> Self,
                   automatic |-> a, waitedFor |-> TRUE]
  <2>1. handler' = h
    BY <1>3
  <2>3. Self \in Node
    BY <1>3 DEF Ready, Verified
  <2>2. a \in BOOLEAN
    BY DEF NeedsCanary
  <2> HIDE DEF a
  <2>4. h \in Handler /\ h.waitedFor = TRUE
    BY <2>2, <2>3 DEF Handler
  <2> QED BY <1>1, <1>3, <2>1, <2>4, Gone DEF Machine, TypeOK, MachineMove, Recorded, At, Pc
<1> QED BY <1>2, <1>3 DEF Acknowledge

LEMMA CanaryMachine == ASSUME Machine, Canary PROVE MachineMove
<1>1. UNCHANGED <<disk, up, traffic>>
  BY DEF Canary
<1>2. CASE handler' = [handler EXCEPT !.pc = "fresh"] /\ UNCHANGED installer
  <2>1. handler' \in Handler /\ handler'.waitedFor = handler.waitedFor
    BY <1>2 DEF Machine, TypeOK, Handler
  <2> QED BY <1>1, <1>2, <2>1 DEF Machine, TypeOK, MachineMove, Recorded, At
<1>3. CASE Refuse
  BY <1>1, <1>3, Refused DEF Machine, TypeOK, MachineMove, Recorded, At
<1> QED BY <1>2, <1>3 DEF Canary

LEMMA AwaitFreshMachine == ASSUME Machine, AwaitFresh PROVE MachineMove
<1>1. UNCHANGED <<disk, up, traffic>>
  BY DEF AwaitFresh
<1>2. CASE handler' = [handler EXCEPT !.pc = "commit"] /\ UNCHANGED installer
  <2>1. handler' \in Handler /\ handler'.waitedFor = handler.waitedFor
    BY <1>2 DEF Machine, TypeOK, Handler
  <2> QED BY <1>1, <1>2, <2>1 DEF Machine, TypeOK, MachineMove, Recorded, At
<1>3. CASE Refuse
  BY <1>1, <1>3, Refused DEF Machine, TypeOK, MachineMove, Recorded, At
<1> QED BY <1>2, <1>3 DEF AwaitFresh

LEMMA CommitMachine == ASSUME Machine, Commit PROVE MachineMove
<1>1. UNCHANGED <<disk, up, traffic>>
  BY DEF Commit
<1>2. CASE handler' = NoHandler /\ IF handler.waitedFor THEN Goto("commit") ELSE UNCHANGED installer
  <2>1. handler' \in Handler /\ handler'.waitedFor = FALSE
    BY <1>2 DEF NoHandler, Handler
  <2> QED BY <1>1, <1>2, <2>1, Gone DEF Machine, TypeOK, MachineMove, Recorded, At, Pc
<1>3. CASE Refuse
  BY <1>1, <1>3, Refused DEF Machine, TypeOK, MachineMove, Recorded, At
<1> QED BY <1>2, <1>3 DEF Commit

LEMMA GiveUpMachine == ASSUME Machine, GiveUp PROVE MachineMove
<1>1. At("wait") /\ UNCHANGED <<disk, up, traffic>>
  BY DEF GiveUp
<1>2. handler' \in Handler /\ handler'.waitedFor = FALSE
  BY DEF Machine, TypeOK, Handler, GiveUp
<1>3. installer' \in Installer /\ installer'.pc = "rollback"
  BY Gone DEF Machine, GiveUp, Pc
<1> QED BY <1>1, <1>2, <1>3 DEF Machine, TypeOK, MachineMove, Recorded, At

LEMMA RestoreExistingMachine == ASSUME Machine, RestoreExisting PROVE MachineMove
<1>1. disk \in Disk /\ At("rollback") /\ disk.transaction = "existing" /\ UNCHANGED <<traffic, handler>>
      /\ up' = TRUE
  BY DEF Machine, TypeOK, RestoreExisting, panelVars
<1>2. /\ disk' \in Disk /\ disk'.key = disk.key /\ disk'.registration = disk.registration
      /\ disk'.plane = "whole" /\ disk'.transaction = "none" /\ disk'.state = disk.state
  BY <1>1 DEF RestoreExisting, Disk
<1>3. installer' \in Installer /\ installer'.pc \in {"idle", "activate"}
  BY Undoing DEF Machine, RestoreExisting
<1> QED BY <1>1, <1>2, <1>3 DEF Machine, TypeOK, MachineMove, Recorded, At

LEMMA RequireAckMachine == ASSUME Machine, RequireAck PROVE MachineMove
<1>1. At("rollback") /\ disk.transaction = "fresh" /\ UNCHANGED <<disk, handler>>
  BY DEF RequireAck, panelVars
<1>2. CASE up' = FALSE /\ traffic' = FALSE /\ Goto("remove")
  BY <1>1, <1>2, Gone DEF Machine, TypeOK, MachineMove, Recorded, At, Pc
<1>3. CASE Failed /\ UNCHANGED <<up, traffic>>
  BY <1>1, <1>3, Failing DEF Machine, TypeOK, MachineMove, Recorded, At
<1> QED BY <1>2, <1>3 DEF RequireAck

LEMMA RemoveMachine == ASSUME Machine, Remove PROVE MachineMove
<1>1. disk \in Disk /\ At("remove") /\ UNCHANGED <<up, traffic, handler>>
  BY DEF Machine, TypeOK, Remove, panelVars
<1>2. NoCertificate \in Bundle
  BY DEF NoCertificate, Bundle
<1>3. /\ disk' \in Disk /\ disk'.key = disk.key /\ disk'.registration = disk.registration
      /\ disk'.plane = "none" /\ disk'.transaction = disk.transaction /\ disk'.state = disk.state
  BY <1>1, <1>2 DEF Remove, Disk
<1>4. installer' \in Installer /\ installer'.pc = "purge"
  BY Gone DEF Machine, Remove, Pc
<1> QED BY <1>1, <1>3, <1>4 DEF Machine, TypeOK, MachineMove, Recorded, At

LEMMA PurgeMachine == ASSUME Machine, Purge PROVE MachineMove
<1>1. disk \in Disk /\ At("purge") /\ UNCHANGED <<up, traffic, handler>>
  BY DEF Machine, TypeOK, Purge, panelVars
<1>2. CASE disk.staged
  <2>1. /\ disk' \in Disk /\ disk'.key = disk.key /\ disk'.registration = disk.registration
        /\ disk'.plane = disk.plane /\ disk'.transaction = disk.transaction /\ disk'.state = FALSE
    BY <1>1, <1>2 DEF Purge, Disk
  <2>2. installer' \in Installer /\ installer'.pc \in {"idle", "rollback"}
    BY <1>2, Failing DEF Machine, Purge
  <2> QED BY <1>1, <2>1, <2>2 DEF Machine, TypeOK, MachineMove, Recorded, At
<1>3. CASE ~disk.staged
  <2>1. /\ disk' \in Disk /\ disk'.key = disk.key /\ disk'.registration = disk.registration
        /\ disk'.plane = disk.plane /\ disk'.transaction = "none" /\ disk'.state = FALSE
    BY <1>1, <1>3 DEF Purge, Disk
  <2>2. installer' \in Installer /\ installer'.pc \in {"idle", "activate"}
    BY <1>3, Undoing DEF Machine, Purge
  <2> QED BY <1>1, <2>1, <2>2 DEF Machine, TypeOK, MachineMove, Recorded, At
<1> QED BY <1>2, <1>3

LEMMA ReportMachine == ASSUME Machine, Report PROVE MachineMove
<1>1. UNCHANGED <<disk, up, installer, handler>> /\ traffic' = FALSE
  BY DEF Report
<1> QED BY <1>1 DEF Machine, TypeOK, MachineMove, Recorded, At

LEMMA UseMachine == ASSUME Machine, Use PROVE MachineMove
<1>1. UNCHANGED <<disk, up, installer, handler>> /\ up /\ traffic' = TRUE
  BY DEF Use, panelVars
<1> QED BY <1>1 DEF Machine, TypeOK, MachineMove, Recorded, At

LEMMA UninstallMachine == ASSUME Machine, Uninstall PROVE MachineMove
<1>1. At("idle") /\ UNCHANGED <<installer, handler>> /\ disk' = Blank /\ up' = FALSE /\ traffic' = FALSE
  BY DEF Uninstall, panelVars
<1> QED BY <1>1, Emptied DEF Machine, TypeOK, MachineMove, Recorded, At

\* What a step that was cut off leaves: the record and the spool outlive it, but for the
\* spool of a data plane that is purged.
LEMMA CutDisk ==
    ASSUME Machine, NEW d \in Cut
    PROVE  /\ d \in Disk /\ d.key = disk.key /\ d.registration = disk.registration
           /\ d.transaction = disk.transaction
           /\ d.plane = disk.plane \/ (d.plane = "partial" /\ disk.transaction # "none")
           /\ d.state = disk.state \/ (At("purge") /\ d.plane = disk.plane)
<1>1. disk \in Disk /\ disk.plane \in {"none", "partial", "whole"}
  BY DEF Machine, TypeOK, Disk
<1>2. CASE d = disk
  BY <1>1, <1>2
<1>3. CASE At("agent")
  BY <1>1, <1>3 DEF Cut, Disk, At
<1>4. CASE At("files")
  <2>1. disk.transaction # "none"
    BY <1>4 DEF Machine, Recorded, At
  <2>2. \/ d = disk
        \/ d = [disk EXCEPT !.plane = "partial", !.torn = TRUE]
        \/ d = [disk EXCEPT !.plane = "partial", !.staged = TRUE]
    BY <1>4 DEF Cut, At
  <2> QED BY <1>1, <2>1, <2>2 DEF Disk
<1>5. CASE At("config")
  <2> DEFINE c == Configured
  <2>1. d = disk \/ d = [c EXCEPT !.staged = TRUE]
    BY <1>5 DEF Cut, At
  <2>2. c \in Disk /\ c.key = disk.key /\ c.registration = disk.registration
        /\ c.plane = disk.plane /\ c.transaction = disk.transaction /\ c.state = disk.state
    BY ConfiguredDisk DEF Machine
  <2> HIDE DEF c
  <2> QED BY <1>1, <2>1, <2>2 DEF Disk
<1>6. CASE At("rollback")
  <2>1. disk.transaction # "none"
    BY <1>6 DEF Machine, Recorded, At
  <2>2. \/ d = disk
        \/ d = [disk EXCEPT !.plane = "partial", !.torn = TRUE]
        \/ d = [disk EXCEPT !.plane = "partial"]
    BY <1>6 DEF Cut, At
  <2> QED BY <1>1, <2>1, <2>2 DEF Disk
<1>7. CASE At("remove")
  <2>1. disk.transaction # "none"
    BY <1>7 DEF Machine, Recorded, At
  <2>2. \/ d = disk
        \/ d = [disk EXCEPT !.torn = TRUE]
        \/ d = [disk EXCEPT !.plane = "partial"]
    BY <1>7 DEF Cut, At
  <2> QED BY <1>1, <2>1, <2>2 DEF Disk
<1>8. CASE At("purge")
  <2>1. d = disk \/ d = [disk EXCEPT !.state = FALSE]
    BY <1>8 DEF Cut, At
  <2> QED BY <1>1, <1>8, <2>1 DEF Disk
<1>9. CASE installer.pc \notin {"agent", "files", "config", "rollback", "remove", "purge"}
  <2>1. d = disk
    BY <1>9 DEF Cut, At
  <2> QED BY <1>1, <2>1
<1> QED BY <1>2, <1>3, <1>4, <1>5, <1>6, <1>7, <1>8, <1>9 DEF At

LEMMA RebootMachine == ASSUME Machine, Reboot PROVE MachineMove
<1>1. disk.key # 0 /\ disk' \in Cut /\ UNCHANGED traffic /\ up' \in BOOLEAN
      /\ (up' => disk'.plane = "whole")
  BY DEF Reboot, Boots
<1>2. /\ disk' \in Disk /\ disk'.key = disk.key /\ disk'.registration = disk.registration
      /\ disk'.transaction = disk.transaction
      /\ disk'.plane = disk.plane \/ (disk'.plane = "partial" /\ disk.transaction # "none")
      /\ disk'.state = disk.state \/ (At("purge") /\ disk'.plane = disk.plane)
  BY <1>1, CutDisk
<1>3. handler' \in Handler /\ handler'.waitedFor = FALSE
  BY DEF Machine, TypeOK, Handler, Reboot
<1>4. installer' \in Installer /\ installer'.pc = "idle"
  BY Stopped DEF Reboot
<1> QED BY <1>1, <1>2, <1>3, <1>4 DEF Machine, TypeOK, MachineMove, Recorded, At

\* The two steps that are told apart.
LEMMA PasteMachine ==
    ASSUME Machine, NEW n \in Node, Paste(n)
    PROVE  /\ disk' \in Disk /\ up' \in BOOLEAN /\ traffic' \in BOOLEAN
           /\ installer' \in Installer /\ handler' \in Handler /\ Recorded'
           /\ disk.state = FALSE
           /\ disk'.key = spent'["paste"] /\ disk'.registration = Nobody
           /\ installer'.pc = "register" /\ installer'.code = n
           /\ spent'["paste"] = spent["paste"] + 1
<1>1. At("idle") /\ disk = Blank /\ ~up /\ UNCHANGED <<up, traffic, handler>> /\ Event("paste")
  BY DEF Machine, TypeOK, Recorded, Paste, panelVars
<1>2. spent'["paste"] = spent["paste"] + 1 /\ spent["paste"] \in Nat
  <2>1. "paste" \in EventKind
    BY DEF EventKind
  <2> QED BY <1>1, <2>1, EventCounted DEF Machine, TypeOK
<1>3. Blank \in Disk /\ Blank.plane = "none" /\ Blank.transaction = "none" /\ Blank.state = FALSE
      /\ Blank.registration = Nobody
  <2>1. NoCertificate \in Bundle
    BY DEF NoCertificate, Bundle
  <2> QED BY <2>1 DEF Blank, Disk
<1>4. /\ disk' \in Disk /\ disk'.key = spent'["paste"] /\ disk'.registration = Nobody
      /\ disk'.plane = "none" /\ disk'.transaction = "none" /\ disk'.state = FALSE
  <2> DEFINE b == Blank
             k == spent'["paste"]
  <2>1. b \in Disk /\ k \in Nat /\ disk' = [b EXCEPT !.key = k, !.marker = TRUE]
    BY <1>2, <1>3 DEF Paste
  <2> HIDE DEF b, k
  <2>2. /\ disk' \in Disk /\ disk'.key = k /\ disk'.registration = b.registration
        /\ disk'.plane = b.plane /\ disk'.transaction = b.transaction /\ disk'.state = b.state
    BY <2>1 DEF Disk
  <2> QED BY <1>3, <2>2 DEF b, k
<1>5. installer' \in Installer /\ installer'.pc = "register" /\ installer'.code = n
  BY DEF Paste, NoInstaller, Installer, Bundle, NoCertificate
<1> QED BY <1>1, <1>2, <1>3, <1>4, <1>5 DEF Machine, TypeOK, Recorded, At

LEMMA RegisterMachine ==
    ASSUME Machine, Register
    PROVE  /\ disk' \in Disk /\ up' \in BOOLEAN /\ traffic' \in BOOLEAN
           /\ installer' \in Installer /\ handler' \in Handler /\ Recorded'
           /\ disk.state = FALSE
           /\ \/ disk' = Blank /\ installer'.pc = "idle"
              \/ UNCHANGED <<disk, installer>>
              \/ /\ CodeAccepted(installer.code) /\ nodes' = Consumed(installer.code)
                 /\ disk'.key = disk.key /\ disk'.registration = installer.code
                 /\ installer'.pc = "enable"
<1>1. disk \in Disk /\ installer \in Installer /\ At("register") /\ UNCHANGED <<up, traffic, handler>>
      /\ disk.state = FALSE
  BY DEF Machine, TypeOK, Recorded, Register
<1>2. CASE /\ CodeAccepted(installer.code) /\ nodes' = Consumed(installer.code)
           /\ disk' = [disk EXCEPT !.registration = installer.code] /\ Goto("enable")
  <2>1. installer.code \in Node \cup {Nobody}
    BY <1>1 DEF Installer
  <2>2. /\ disk' \in Disk /\ disk'.key = disk.key /\ disk'.registration = installer.code
        /\ disk'.plane = disk.plane /\ disk'.transaction = disk.transaction /\ disk'.state = disk.state
    BY <1>1, <1>2, <2>1 DEF Disk
  <2> QED BY <1>1, <1>2, <2>2, Gone DEF Machine, TypeOK, Recorded, At, Pc
<1>3. CASE Discard
  BY <1>1, <1>3, Emptied, Stopped DEF Discard, Machine, TypeOK, Recorded, At
<1>4. CASE UNCHANGED <<disk, installer>>
  BY <1>1, <1>4 DEF Machine, TypeOK, Recorded, At
<1> QED BY <1>2, <1>3, <1>4 DEF Register

LEMMA StepMachine == ASSUME Machine, Rows, [Next]_vars
                     PROVE  MachineMove \/ Register \/ \E n \in Node : Paste(n)
<1>1. CASE \E n \in Node : Administer(n) \/ GrowOld(n)
  <2>1. UNCHANGED machineVars /\ UNCHANGED handler
    BY <1>1 DEF Administer, GrowOld, Create, RevokeCode, RevokeNode, Delete, Standby, Enable,
                RemoveDns, PassCanary, AdmitDns, Issue, Expire
  <2> QED BY <2>1, MachineIdle
<1>2. CASE Heartbeat \/ UNCHANGED vars
  <2>1. UNCHANGED machineVars /\ UNCHANGED handler
    BY <1>2 DEF Heartbeat, vars, panelVars
  <2> QED BY <2>1, MachineIdle
<1>3. CASE Install
  BY <1>3, EnableTimerMachine, StartRunMachine, InstallAgentMachine, FirstBeatMachine, ClaimMachine,
     UnmarkMachine, ActivateMachine, FetchMachine, IdentityMachine, ArmMachine, SettleMachine,
     FilesMachine, ConfigureMachine, StartMachine, AcknowledgeMachine, FinishMachine, RestoreExistingMachine,
     RequireAckMachine, RemoveMachine, PurgeMachine DEF Install
<1> QED BY <1>1, <1>2, <1>3, CanaryMachine, AwaitFreshMachine, CommitMachine, GiveUpMachine,
           CommandMachine, ReportMachine, UseMachine, UninstallMachine, RebootMachine DEF Next, Serve

-----------------------------------------------------------------------------
(* Keys.                                                                   *)

LEMMA StepSpent ==
    ASSUME TypeOK, [Next]_vars
    PROVE  /\ spent' \in [EventKind -> Nat]
           /\ spent'["paste"] = spent["paste"] \/ \E n \in Node : Paste(n)
<1>1. \/ UNCHANGED spent
      \/ \E k \in EventKind \ {"paste"} : Event(k)
      \/ \E n \in Node : Paste(n)
  <2>1. CASE \E n \in Node : Administer(n) \/ GrowOld(n)
    BY <2>1 DEF Administer, GrowOld, Create, RevokeCode, RevokeNode, Delete, Standby, Enable,
                RemoveDns, PassCanary, AdmitDns, Issue, Expire, EventKind
  <2>2. CASE Install
    BY <2>2 DEF Install, Register, EnableTimer, StartRun, InstallAgent, FirstBeat, Claim, Unmark,
                Activate, Fetch, Identity, Arm, Settle, Files, Configure, Start, Acknowledge,
                Finish, RestoreExisting, RequireAck, Remove, Purge, EventKind
  <2>3. CASE Serve \/ GiveUp \/ Command \/ Heartbeat \/ Report \/ Use \/ Uninstall \/ Reboot
    BY <2>3 DEF Serve, Canary, AwaitFresh, Commit, GiveUp, Command, Heartbeat, Report, Use,
                Uninstall, Reboot, machineVars, EventKind
  <2> QED BY <2>1, <2>2, <2>3 DEF Next, vars
<1>2. CASE \E n \in Node : Paste(n)
  BY <1>2, EventCounted DEF Paste, EventKind
<1>3. CASE \E k \in EventKind \ {"paste"} : Event(k)
  <2>1. PICK k \in EventKind \ {"paste"} : Event(k)
    BY <1>3
  <2>2. "paste" \in EventKind
    BY DEF EventKind
  <2> QED BY <2>1, <2>2, EventCounted
<1> QED BY <1>1, <1>2, <1>3 DEF TypeOK

LEMMA KnownRows == ASSUME TypeOK, Known PROVE Rows
  BY DEF Rows, Known

LEMMA KnownKept ==
    ASSUME TypeOK, Known, RowsMove, MachineMove, spent'["paste"] = spent["paste"]
    PROVE  Known'
<1>1. disk \in Disk /\ disk' \in Disk /\ spent["paste"] \in Nat
  <2>1. "paste" \in EventKind
    BY DEF EventKind
  <2> QED BY <2>1 DEF TypeOK, MachineMove
<1>2. \/ disk'.key = disk.key /\ disk'.registration = disk.registration
      \/ disk'.key = 0 /\ disk'.registration = Nobody
  BY Emptied DEF MachineMove
<1>3. (Self # Nobody => Self \in Node /\ nodes[Self].consumed /\ nodes[Self].key = disk.key)'
  BY <1>2 DEF Known, RowsMove, Self
<1>4. (disk.key <= spent["paste"])'
  BY <1>1, <1>2 DEF Known
<1>5. (\A n \in Node : nodes[n].key <= spent["paste"] /\ (nodes[n].consumed => nodes[n].key # 0))'
  BY DEF Known, RowsMove
<1>6. (\A m, n \in Node : nodes[m].consumed /\ nodes[n].consumed /\ nodes[m].key = nodes[n].key => m = n)'
  BY DEF Known, RowsMove
<1>7. (At("register") => /\ installer.code \in Node /\ disk.key # 0
                         /\ \A n \in Node : nodes[n].consumed /\ nodes[n].key = disk.key
                                              => n = installer.code)'
  <2> SUFFICES ASSUME installer'.pc = "register"
               PROVE  /\ installer'.code \in Node /\ disk'.key # 0
                      /\ \A n \in Node : nodes'[n].consumed /\ nodes'[n].key = disk'.key
                                              => n = installer'.code
    BY DEF At
  <2>1. installer' = installer /\ At("register")
    BY DEF MachineMove, At
  <2>2. disk'.key # 0
    BY DEF MachineMove, Recorded, At
  <2> QED BY <1>2, <2>1, <2>2 DEF Known, RowsMove
<1>8. (premium => \A n \in Node : Live(n) => line.node = n)'
  BY DEF RowsMove, Live
<1> QED BY <1>3, <1>4, <1>5, <1>6, <1>7, <1>8 DEF Known

\* A new key belongs to no row.
LEMMA KnownPasted ==
    ASSUME Machine, Known, NEW p \in Node, Paste(p)
    PROVE  Known'
<1>1. UNCHANGED <<premium, nodes, grant, line>> /\ nodes \in [Node -> NodeRow]
  BY DEF Paste, panelVars, Machine, TypeOK
<1>2. /\ disk'.key = spent'["paste"] /\ disk'.registration = Nobody
      /\ installer'.pc = "register" /\ installer'.code = p
      /\ spent'["paste"] = spent["paste"] + 1
  BY PasteMachine
<1>3. spent["paste"] \in Nat
  <2>1. "paste" \in EventKind
    BY DEF EventKind
  <2> QED BY <2>1 DEF Machine, TypeOK
<1>4. \A n \in Node : nodes[n].key \in Nat /\ nodes[n].key <= spent["paste"]
  BY <1>1 DEF Known, NodeRow
<1>5. \A n \in Node : nodes[n].key # disk'.key /\ nodes[n].key <= spent'["paste"]
  BY <1>2, <1>3, <1>4
<1>6. disk'.key <= spent'["paste"] /\ disk'.key # 0
  BY <1>2, <1>3
<1> QED BY <1>1, <1>2, <1>5, <1>6 DEF Known, At, Live, Self

\* The first key takes the code; the answer that is lost does not matter.
LEMMA RegisteredRows ==
    ASSUME Machine, Known, Register, nodes' = Consumed(installer.code),
           ~nodes[installer.code].void, FirstUse(installer.code)
    PROVE  /\ nodes' \in [Node -> NodeRow]
           /\ nodes'[installer.code].consumed /\ nodes'[installer.code].key = disk.key
           /\ \A n \in Node : n # installer.code => nodes'[n] = nodes[n]
           /\ nodes[installer.code].status = "pending_registration"
<1> DEFINE n == installer.code
           r == [nodes[n] EXCEPT !.consumed = TRUE, !.status = "pending_verification", !.key = disk.key]
<1>1. n \in Node /\ nodes \in [Node -> NodeRow] /\ disk \in Disk
  BY DEF Machine, TypeOK, Known, Register
<1>2. disk.key \in Nat /\ nodes[n] \in NodeRow
  BY <1>1 DEF Disk
<1>3. nodes' = [nodes EXCEPT ![n] = r]
  BY <1>1 DEF Consumed
<1>4. r \in NodeRow /\ r.consumed = TRUE /\ r.key = disk.key
  BY <1>2 DEF NodeRow
<1> QED BY <1>1, <1>3, <1>4 DEF FirstUse

LEMMA RegisterNodes == ASSUME Register PROVE nodes' = nodes \/ nodes' = Consumed(installer.code)
  BY DEF Register

LEMMA KnownRegistered ==
    ASSUME Machine, Known, Register, spent'["paste"] = spent["paste"]
    PROVE  Known' /\ nodes' \in [Node -> NodeRow]
<1> DEFINE c == installer.code
<1>1. /\ c \in Node /\ nodes \in [Node -> NodeRow] /\ UNCHANGED <<premium, line>>
      /\ disk.key # 0 /\ At("register") /\ spent["paste"] \in Nat
      /\ \A n \in Node : nodes[n].consumed /\ nodes[n].key = disk.key => n = c
  <2>1. "paste" \in EventKind
    BY DEF EventKind
  <2> QED BY <2>1 DEF Machine, TypeOK, Known, Register
<1>2. \/ disk'.key = 0 /\ disk'.registration = Nobody /\ installer'.pc = "idle"
      \/ UNCHANGED <<disk, installer>>
      \/ /\ CodeAccepted(c) /\ nodes' = Consumed(c)
         /\ disk'.key = disk.key /\ disk'.registration = c /\ installer'.pc = "enable"
  BY RegisterMachine, Emptied
<1>3. \/ UNCHANGED nodes
      \/ /\ ~nodes[c].consumed /\ nodes' \in [Node -> NodeRow]
         /\ nodes'[c].consumed /\ nodes'[c].key = disk.key
         /\ \A n \in Node : n # c => nodes'[n] = nodes[n]
         /\ nodes[c].status = "pending_registration"
  <2>1. CASE ~nodes[c].void /\ FirstUse(c) /\ nodes' = Consumed(c)
    BY <2>1, RegisteredRows DEF FirstUse
  <2>2. CASE ~(~nodes[c].void /\ FirstUse(c)) \/ nodes' = nodes
    BY <2>2, RegisterNodes DEF Consumed
  <2> QED BY <2>1, <2>2, RegisterNodes
<1>4. CodeAccepted(c) /\ nodes' = Consumed(c) => nodes'[c].consumed /\ nodes'[c].key = disk.key
  <2>1. CASE ~nodes[c].void /\ FirstUse(c) /\ nodes' = Consumed(c)
    BY <2>1, RegisteredRows
  <2>2. CASE SameRequest(c) /\ nodes' = Consumed(c)
    BY <2>2 DEF Consumed, SameRequest, FirstUse
  <2> QED BY <2>1, <2>2 DEF CodeAccepted
<1>5. (Self # Nobody => Self \in Node /\ nodes[Self].consumed /\ nodes[Self].key = disk.key)'
  BY <1>1, <1>2, <1>3, <1>4 DEF Known, Self
<1>6. (disk.key <= spent["paste"])'
  BY <1>1, <1>2 DEF Known
<1>7. (\A n \in Node : nodes[n].key <= spent["paste"] /\ (nodes[n].consumed => nodes[n].key # 0))'
  BY <1>1, <1>3 DEF Known
<1>8. (\A m, n \in Node : nodes[m].consumed /\ nodes[n].consumed /\ nodes[m].key = nodes[n].key => m = n)'
  BY <1>1, <1>3 DEF Known
<1>9. (At("register") => /\ installer.code \in Node /\ disk.key # 0
                         /\ \A n \in Node : nodes[n].consumed /\ nodes[n].key = disk.key
                                              => n = installer.code)'
  BY <1>1, <1>2, <1>3 DEF At
<1>10. (premium => \A n \in Node : Live(n) => line.node = n)'
  BY <1>1, <1>3 DEF Known, Live
<1>11. nodes' \in [Node -> NodeRow]
  BY <1>1, <1>3
<1> QED BY <1>5, <1>6, <1>7, <1>8, <1>9, <1>10, <1>11 DEF Known

-----------------------------------------------------------------------------
(* The theorems.                                                           *)

LEMMA InitInv == Init => Inv
<1> SUFFICES ASSUME Init PROVE Inv
  OBVIOUS
<1>1. NoRow \in NodeRow /\ NoGrant \in Grant /\ NoHandler \in Handler /\ NoInstaller \in Installer
  BY DEF NoRow, NodeRow, NoGrant, Grant, NoHandler, Handler, NoInstaller, Installer, Bundle, NoCertificate
<1>2. Blank \in Disk
  <2>1. NoCertificate \in Bundle
    BY DEF NoCertificate, Bundle
  <2> QED BY <2>1 DEF Blank, Disk, Nobody
<1>3. line \in Line
  <2>1. line = [node |-> Nobody, certificate |-> IF premium THEN NoCertificate ELSE {Nobody}]
    BY DEF Init
  <2>2. (IF premium THEN NoCertificate ELSE {Nobody}) \in Bundle
    BY DEF NoCertificate, Bundle, Certificate
  <2> QED BY <2>1, <2>2 DEF Line
<1>4. TypeOK
  BY <1>1, <1>2, <1>3 DEF Init, TypeOK
<1>5. Known
  <2>1. "paste" \in EventKind
    BY DEF EventKind
  <2>2. \A n \in Node : nodes[n] = NoRow
    BY DEF Init
  <2>3. disk.key = 0 /\ Self = Nobody /\ spent["paste"] = 0 /\ installer.pc = "idle"
    BY <2>1 DEF Init, Blank, NoInstaller, Self
  <2> QED BY <2>2, <2>3 DEF Known, Live, NoRow, At
<1>6. Recorded
  BY DEF Init, Recorded, Blank, NoHandler, NoInstaller, At
<1> QED BY <1>4, <1>5, <1>6 DEF Inv

LEMMA StepInv == Inv /\ [Next]_vars => Inv'
<1> SUFFICES ASSUME Inv, [Next]_vars PROVE Inv'
  OBVIOUS
<1>0. TypeOK /\ Known /\ Recorded /\ Machine /\ Rows
  BY KnownRows DEF Inv, Machine
<1>1. CASE RowsMove /\ MachineMove /\ spent'["paste"] = spent["paste"]
  <2>1. TypeOK'
    BY <1>0, <1>1, StepSpent DEF TypeOK, RowsMove, MachineMove
  <2> QED BY <1>0, <1>1, <2>1, KnownKept DEF Inv, MachineMove
<1>2. CASE Register
  <2>1. spent'["paste"] = spent["paste"] /\ spent' \in [EventKind -> Nat]
    <3>1. UNCHANGED spent \/ Event("lost")
      BY <1>2 DEF Register
    <3>2. "paste" \in EventKind /\ "lost" \in EventKind
      BY DEF EventKind
    <3> QED BY <1>0, <3>1, <3>2, EventCounted DEF TypeOK
  <2>2. Known' /\ nodes' \in [Node -> NodeRow]
    BY <1>0, <1>2, <2>1, KnownRegistered
  <2>3. UNCHANGED <<premium, grant, line>>
    BY <1>2 DEF Register
  <2>4. TypeOK'
    BY <1>0, <1>2, <2>1, <2>2, <2>3, RegisterMachine DEF TypeOK
  <2> QED BY <1>0, <1>2, <2>2, <2>4, RegisterMachine DEF Inv
<1>3. CASE \E n \in Node : Paste(n)
  <2>1. PICK n \in Node : Paste(n)
    BY <1>3
  <2>2. UNCHANGED <<premium, nodes, grant, line>>
    BY <2>1 DEF Paste, panelVars
  <2>3. TypeOK'
    BY <1>0, <2>1, <2>2, PasteMachine, StepSpent DEF TypeOK
  <2> QED BY <1>0, <2>1, <2>3, KnownPasted, PasteMachine DEF Inv
<1> QED BY <1>0, <1>1, <1>2, <1>3, StepRows, StepMachine, StepSpent

\* The invariant holds in every state, for every number of codes and mix of events.
THEOREM Invariant == Spec => []Inv
  BY InitInv, StepInv, PTL DEF Spec

\* Every variable keeps its type.
THEOREM TypeCorrect == Spec => []TypeOK
<1>1. Inv => TypeOK
  BY DEF Inv
<1> QED BY <1>1, Invariant, PTL

\* A machine that holds a registration signs with the key the panel has for it.
THEOREM RegistrationKnown == Spec => []RegistrationIsKnown
<1>1. Inv => RegistrationIsKnown
  BY DEF Inv, Known, RegistrationIsKnown
<1> QED BY <1>1, Invariant, PTL

\* No key is that of two nodes: a code pasted twice, or a request that is repeated,
\* does not make one machine answer for two rows.
OneNodePerKey ==
    \A m, n \in Node : nodes[m].consumed /\ nodes[n].consumed /\ nodes[m].key = nodes[n].key => m = n
\* Part of Known: a key is made for one pasted code, and the next paste makes another.
THEOREM KeysTellNodesApart == Spec => []OneNodePerKey
<1>1. Inv => OneNodePerKey
  BY DEF Inv, Known, OneNodePerKey
<1> QED BY <1>1, Invariant, PTL

\* A premium region has at most one node that is not revoked, and the profile is its own.
LiveNodeOwnsLine == premium => \A n \in Node : Live(n) => line.node = n
\* Part of Known: a second enrolment of a premium line waits for a revocation.
THEOREM OneLiveNode == Spec => []LiveNodeOwnsLine
<1>1. Inv => LiveNodeOwnsLine
  BY DEF Inv, Known, LiveNodeOwnsLine
<1> QED BY <1>1, Invariant, PTL

\* The certificate that users of a line have pinned is never replaced.
CertificateStays == [][line.certificate # NoCertificate => line'.certificate = line.certificate]_vars
\* Every transaction that writes the line keeps a certificate that is there.
THEOREM CertificateKept == Spec => CertificateStays
<1>1. Inv /\ [Next]_vars => [line.certificate # NoCertificate => line'.certificate = line.certificate]_vars
  <2> SUFFICES ASSUME Inv, [Next]_vars
               PROVE  line.certificate # NoCertificate => line'.certificate = line.certificate
    OBVIOUS
  <2>1. Register \/ (\E n \in Node : Paste(n)) => UNCHANGED line
    BY DEF Register, Paste, panelVars
  <2> QED BY <2>1, KnownRows, StepRows DEF Inv, RowsMove
<1> QED BY <1>1, Invariant, PTL DEF Spec, CertificateStays

\* What the administrator revoked stays revoked, and a step never publishes it.
THEOREM RevocationFinal == Spec => RevocationIsFinal
<1> DEFINE Final == \A n \in Node : nodes[n].status = "revoked" =>
          /\ nodes'[n].status = "revoked"
          /\ nodes[n].plane # "dns_admitted" => nodes'[n].plane # "dns_admitted"
<1>1. Inv /\ [Next]_vars => [Final]_vars
  <2> SUFFICES ASSUME Inv, [Next]_vars PROVE Final
    OBVIOUS
  <2>0. Machine /\ Known /\ Rows /\ nodes \in [Node -> NodeRow]
    BY KnownRows DEF Inv, Machine, TypeOK
  <2>1. CASE Register
    <3>1. CASE ~nodes[installer.code].void /\ FirstUse(installer.code) /\ nodes' = Consumed(installer.code)
      BY <2>0, <2>1, <3>1, RegisteredRows
    <3>2. CASE ~(~nodes[installer.code].void /\ FirstUse(installer.code)) \/ nodes' = nodes
      <4>1. nodes' = nodes
        BY <2>1, <3>2, RegisterNodes DEF Consumed
      <4> QED BY <4>1
    <3> QED BY <2>1, <3>1, <3>2, RegisterNodes
  <2>2. CASE \E n \in Node : Paste(n)
    <3>1. UNCHANGED nodes
      BY <2>2 DEF Paste, panelVars
    <3> QED BY <3>1
  <2> QED BY <2>0, <2>1, <2>2, StepRows DEF RowsMove
<1> QED BY <1>1, Invariant, PTL DEF Spec, RevocationIsFinal

\* Traffic the panel has not acknowledged is in the spool.
SpoolHoldsTraffic == traffic => disk.state
\* Part of Recorded: only the removal of a drained data plane deletes the spool.
THEOREM TrafficIsSpooled == Spec => []SpoolHoldsTraffic
<1>1. Inv => SpoolHoldsTraffic
  BY DEF Inv, Recorded, SpoolHoldsTraffic
<1> QED BY <1>1, Invariant, PTL

\* A data plane that is half installed is named by a transaction record, whatever
\* interrupted the installer, and a rollback always finds one.
HalfInstalledIsRecorded ==
    disk.plane = "partial" \/ installer.pc \in {"rollback", "remove", "purge"} => disk.transaction # "none"
\* Part of Recorded: the record is written before the first file and removed after the last.
THEOREM RecordOutlivesInstaller == Spec => []HalfInstalledIsRecorded
<1>1. Inv => HalfInstalledIsRecorded
  BY DEF Inv, Recorded, HalfInstalledIsRecorded
<1> QED BY <1>1, Invariant, PTL

\* An installer waits for an acknowledgement exactly while a worker serves it, so an
\* answer never reaches a later run.
AnswerFindsItsInstaller == handler.waitedFor <=> At("wait")
\* Part of Recorded: a step that ends the wait of one ends that of the other.
THEOREM AnswersMatch == Spec => []AnswerFindsItsInstaller
<1>1. Inv => AnswerFindsItsInstaller
  BY DEF Inv, Recorded, AnswerFindsItsInstaller
<1> QED BY <1>1, Invariant, PTL

\* The spool of a node the panel still knows is deleted only when nothing in it is
\* owed to the panel.
THEOREM RollbackKeepsTraffic == Spec => RollbackLosesNoTraffic
<1>1. Inv /\ [Next]_vars => [disk.state /\ ~disk'.state /\ Verified(Self) => ~traffic]_vars
  <2> SUFFICES ASSUME Inv, [Next]_vars, disk.state, ~disk'.state, Verified(Self) PROVE ~traffic
    OBVIOUS
  <2>0. TypeOK /\ Recorded /\ Machine /\ disk \in Disk
    BY DEF Inv, Machine, TypeOK
  <2>1. ~UNCHANGED disk
    OBVIOUS
  <2>2. CASE Register
    BY <2>0, <2>2, RegisterMachine
  <2>3. CASE \E n \in Node : Paste(n)
    BY <2>0, <2>3, PasteMachine
  <2>4. CASE EnableTimer
    BY <2>0, <2>4 DEF EnableTimer, Recorded
  <2>5. CASE Purge
    BY <2>0, <2>5 DEF Purge, Recorded, At
  <2>6. CASE Uninstall
    BY <2>6 DEF Uninstall, Verified
  <2>7. CASE InstallAgent \/ FirstBeat \/ Unmark \/ Arm \/ Files \/ Configure
             \/ Start \/ Finish \/ RestoreExisting \/ Remove
    <3>1. CASE InstallAgent
      BY <2>0, <3>1 DEF InstallAgent, Disk
    <3>2. CASE FirstBeat
      BY <2>0, <3>2 DEF FirstBeat, Disk
    <3>3. CASE Unmark
      BY <2>0, <3>3 DEF Unmark, Disk
    <3>4. CASE Arm
      BY <2>0, <3>4 DEF Arm, Disk
    <3>5. CASE Files
      BY <2>0, <3>5 DEF Files, Disk
    <3>6. CASE Start
      BY <2>0, <2>1, <3>6 DEF Start, Disk
    <3>7. CASE Finish
      BY <2>0, <3>7 DEF Finish, Disk
    <3>8. CASE RestoreExisting
      BY <2>0, <3>8 DEF RestoreExisting, Disk
    <3>9. CASE Remove
      BY <2>0, <3>9 DEF Remove, Disk
    <3>10. CASE Configure
      BY <2>0, <3>10, ConfiguredDisk DEF Configure
    <3> QED BY <2>7, <3>1, <3>2, <3>3, <3>4, <3>5, <3>6, <3>7, <3>8, <3>9, <3>10
  <2>8. CASE StartRun \/ Claim \/ Activate \/ Fetch \/ Identity \/ Settle \/ Acknowledge \/ RequireAck
    BY <2>1, <2>8 DEF StartRun, Claim, Activate, Fetch, Identity, Settle, Acknowledge, RequireAck
  <2>9. CASE \E n \in Node : Administer(n) \/ GrowOld(n)
    BY <2>1, <2>9 DEF machineVars, Administer, GrowOld, Create, RevokeCode, RevokeNode, Delete, Standby,
                      Enable, RemoveDns, PassCanary, AdmitDns, Issue, Expire
  <2>10. CASE Serve \/ GiveUp \/ Command \/ Heartbeat \/ Report \/ Use \/ UNCHANGED vars
    BY <2>1, <2>10 DEF machineVars, Serve, Canary, AwaitFresh, Commit, GiveUp, Command, Heartbeat,
                       Report, Use, vars
  <2>11. CASE Reboot
    BY <2>0, <2>11, CutDisk DEF Reboot, Recorded, At
  <2> QED BY <2>2, <2>3, <2>4, <2>5, <2>6, <2>7, <2>8, <2>9, <2>10, <2>11 DEF Next, Install
<1> QED BY <1>1, Invariant, PTL DEF Spec, RollbackLosesNoTraffic

\* Nothing settles traffic but the panel, for a node that is ready, or the removal of
\* a node that was revoked.
OnlyPanelSettles == [][traffic /\ ~traffic' => Ready(Self) \/ nodes[Self].status = "revoked"]_vars
\* By the steps of Next that clear the traffic.
THEOREM PanelSettles == Spec => OnlyPanelSettles
<1>1. Inv /\ [Next]_vars => [traffic /\ ~traffic' => Ready(Self) \/ nodes[Self].status = "revoked"]_vars
  <2> SUFFICES ASSUME Inv, [Next]_vars, traffic, ~traffic'
               PROVE  Ready(Self) \/ nodes[Self].status = "revoked"
    OBVIOUS
  <2>1. ~UNCHANGED traffic
    OBVIOUS
  <2>2. CASE Report \/ Uninstall
    BY <2>2 DEF Report, Uninstall
  <2>3. CASE RequireAck
    <3>1. disk.state
      BY DEF Inv, Recorded
    <3> QED BY <2>1, <2>3, <3>1 DEF RequireAck
  <2>4. CASE Use
    BY <2>4 DEF Use
  <2>5. CASE Install /\ ~RequireAck
    BY <2>1, <2>5 DEF Install, Register, EnableTimer, StartRun, InstallAgent, FirstBeat, Claim, Unmark,
                      Activate, Fetch, Identity, Arm, Settle, Files, Configure, Start, Acknowledge,
                      Finish, RestoreExisting, Remove, Purge
  <2>6. CASE \E n \in Node : Administer(n) \/ GrowOld(n) \/ Paste(n)
    BY <2>1, <2>6 DEF machineVars, Administer, GrowOld, Create, RevokeCode, RevokeNode, Delete, Standby,
                      Enable, RemoveDns, PassCanary, AdmitDns, Issue, Expire, Paste
  <2>7. CASE Serve \/ GiveUp \/ Command \/ Heartbeat \/ Reboot \/ UNCHANGED vars
    BY <2>1, <2>7 DEF machineVars, Serve, Canary, AwaitFresh, Commit, GiveUp, Command, Heartbeat,
                      Reboot, vars
  <2> QED BY <2>2, <2>3, <2>4, <2>5, <2>6, <2>7 DEF Next
<1> QED BY <1>1, Invariant, PTL DEF Spec, OnlyPanelSettles
=============================================================================
