-------------------------- MODULE DeviceAdmission --------------------------
(***************************************************************************)
(* The device limit of one user over all the places where the user can log  *)
(* in: the panel host's own Hysteria and the nodes that are protocol ready. *)
(*                                                                         *)
(* Nobody sees all sessions at once.  The panel adds up what it knows when  *)
(* a login asks: the panel host's online list, the last online snapshot of  *)
(* every node, and a short lease for every login it approved that no list   *)
(* shows yet.  Time is the integer second the code compares.                *)
(***************************************************************************)
EXTENDS Naturals, FiniteSets, FiniteSetsExt

CONSTANTS
    Node,         \* the participating nodes of the user's tier
    Panel,        \* the panel host's own Hysteria
    Premium,      \* premium users are served by nodes alone
    Freshness,    \* MAX_STATE_AGE_SECONDS, also the lease of a node's approval
    LocalLease,   \* pending_ttl: the lease of an approval on the panel host
    CacheAge,     \* auth_stats_ttl: how old the local list of a local login may be
    Window,       \* longest time from a node's request to the session it opens
    LocalWindow,  \* the same on the panel host
    Gap,          \* oldest snapshot a node lets the panel hold
    Outage,       \* seconds a restart of the panel takes
    Straddle,     \* may a snapshot sent to the old panel process reach the new one
    DeviceLimit,  \* the user's device_limit
    LoginId,      \* bound: logins remembered at once
    MaxSends,     \* bound: snapshots each node sends
    MaxRestarts,  \* bound: restarts of the panel
    MaxTime       \* bound: seconds

ASSUME ConstantsAssumption ==
    /\ Panel \notin Node /\ IsFiniteSet(Node) /\ IsFiniteSet(LoginId)
    /\ {Premium, Straddle} \subseteq BOOLEAN
    /\ {Freshness, LocalLease, CacheAge, Window, LocalWindow, Gap, Outage,
        DeviceLimit, MaxSends, MaxRestarts, MaxTime} \subseteq Nat

Place == IF Premium THEN Node ELSE Node \cup {Panel}

VARIABLES
    now,       \* the clock, in seconds
    login,     \* what became of each login: its session, and its row of
               \* node_auth_decisions or local_auth_leases
    snapshot,  \* node_online_snapshots
    count,     \* node_online_counts
    flight,    \* snapshots sent: one that never arrives just stays there
    sequence,  \* the last snapshot number each node used
    cache,     \* UsageManager._auth_online, and when it was read
    restarts   \* restarts of the panel so far

vars == <<now, login, snapshot, count, flight, sequence, cache, restarts>>

-----------------------------------------------------------------------------
(* Data.                                                                   *)

\* `leased': the row is there and not absorbed.  `local' is the count of the
\* panel host's sessions a node's request read before its transaction.
Login == [pc : {"asking", "approved", "online", "gone"}, place : Place,
          start : Nat, local : Nat, leased : BOOLEAN]
Free == [pc |-> "free"]
Snapshot == [sequence : Nat, observed : Nat, accepted : Nat]
NoSnapshot == [observed |-> "never"]
Message == [node : Node, sequence : Nat, count : Nat, observed : Nat]
NoCache == [at |-> "never"]

Used == {i \in LoginId : login[i] # Free}
At(p) == {i \in Used : login[i].place = p}
Online(p) == Cardinality({i \in At(p) : login[i].pc = "online"})

MaySettle(i) == now <= login[i].start + (IF login[i].place = Panel THEN LocalWindow ELSE Window)
Devices == Cardinality({i \in Used : \/ login[i].pc = "online"
                                     \/ login[i].pc = "approved" /\ MaySettle(i)})

Init ==
    /\ now = 0
    /\ login = [i \in LoginId |-> Free]
    /\ snapshot = [n \in Node |-> NoSnapshot] /\ count = [n \in Node |-> 0]
    /\ flight = {} /\ sequence = [n \in Node |-> 0]
    /\ cache = NoCache /\ restarts = 0

\* A login whose session is over and whose row no longer counts is forgotten.
Kept(l) == IF l.pc = "gone" /\ ~l.leased THEN Free ELSE l

-----------------------------------------------------------------------------
(* What the panel knows.                                                   *)

\* Every participating node has reported lately enough for an answer at `t'.
Fresh(t) ==
    \A n \in Node : /\ snapshot[n] # NoSnapshot
                    /\ snapshot[n].accepted + Freshness >= t
                    /\ snapshot[n].observed + Freshness >= t

\* Mutant: nodes get the short lease of the panel host.
ExpiryMutShort(l) == l.start + LocalLease

Expiry(l) == l.start + (IF l.place = Panel THEN LocalLease ELSE Freshness)

\* The sessions that the nodes' counts stand for, one pair for each.
Counted == {c \in Node \X (1..Cardinality(LoginId)) : c[2] <= count[c[1]]}

Capacity(t, local) ==
    local + Cardinality(Counted)
          + Cardinality({i \in Used : login[i].leased /\ Expiry(login[i]) >= t})

-----------------------------------------------------------------------------
(* A login on a node: the panel reads its clock and its own online list,    *)
(* then decides in a transaction of its own.                               *)

Ask(n) ==
    /\ \E i \in LoginId \ Used :
          login' = [login EXCEPT ![i] = [pc |-> "asking", place |-> n, start |-> now,
                                         local |-> Online(Panel), leased |-> FALSE]]
    /\ UNCHANGED <<now, snapshot, count, flight, sequence, cache, restarts>>

Admits(i) == Fresh(login[i].start) /\ Capacity(login[i].start, login[i].local) < DeviceLimit

Approve(i) ==
    /\ login[i] # Free /\ login[i].pc = "asking"
    /\ Admits(i)
    /\ login' = [login EXCEPT ![i].pc = "approved", ![i].local = 0, ![i].leased = TRUE]
    /\ UNCHANGED <<now, snapshot, count, flight, sequence, cache, restarts>>

\* Denied: the limit is reached, a snapshot is stale, or the account is disabled,
\* out of quota, outside its dates, of another tier or being kicked from the node.
Deny(i) ==
    /\ login[i] # Free /\ login[i].pc = "asking"
    /\ login' = [login EXCEPT ![i] = Free]
    /\ UNCHANGED <<now, snapshot, count, flight, sequence, cache, restarts>>

\* A login on the panel host: one step under UsageManager's lock, but with an
\* online list that may have been read CacheAge ago.
Cached == cache # NoCache /\ now <= cache.at + CacheAge

\* Mutant: the panel host serves premium users too.
LocalLoginMutAnyTier(reuse) ==
    /\ ~reuse
    /\ Fresh(now) /\ Capacity(now, Online(Panel)) < DeviceLimit
    /\ \E i \in LoginId \ Used :
          login' = [login EXCEPT ![i] = [pc |-> "approved", place |-> Panel, start |-> now,
                                         local |-> 0, leased |-> TRUE]]
    /\ UNCHANGED <<now, snapshot, count, flight, sequence, cache, restarts>>

LocalLogin(reuse) ==
    /\ ~Premium
    /\ reuse => Cached
    /\ LET local == IF reuse THEN cache.count ELSE Online(Panel)
       IN /\ Fresh(now) /\ Capacity(now, local) < DeviceLimit
          /\ cache' = IF reuse THEN cache ELSE [at |-> now, count |-> local]
    /\ \E i \in LoginId \ Used :
          login' = [login EXCEPT ![i] = [pc |-> "approved", place |-> Panel, start |-> now,
                                         local |-> 0, leased |-> TRUE]]
    /\ UNCHANGED <<now, snapshot, count, flight, sequence, restarts>>

\* A denied local login leaves the list it read behind.
LocalDenied ==
    /\ ~Premium
    /\ cache' = [at |-> now, count |-> Online(Panel)]
    /\ UNCHANGED <<now, login, snapshot, count, flight, sequence, restarts>>

-----------------------------------------------------------------------------
(* Sessions.                                                               *)

Connect(i) ==
    /\ login[i] # Free /\ login[i].pc = "approved" /\ MaySettle(i)
    /\ login' = [login EXCEPT ![i].pc = "online"]
    /\ UNCHANGED <<now, snapshot, count, flight, sequence, cache, restarts>>

\* The session ends, or the approval is never used.
Leave(i) ==
    /\ login[i] # Free /\ login[i].pc \in {"approved", "online"}
    /\ login' = [login EXCEPT ![i] = Kept([login[i] EXCEPT !.pc = "gone"])]
    /\ UNCHANGED <<now, snapshot, count, flight, sequence, cache, restarts>>

-----------------------------------------------------------------------------
(* Snapshots.                                                              *)

\* The agent takes the next number and reads the clock before Hysteria's list.
Send(n) ==
    /\ sequence[n] < MaxSends
    /\ sequence' = [sequence EXCEPT ![n] = @ + 1]
    /\ flight' = flight \cup {[node |-> n, sequence |-> sequence'[n],
                               count |-> Online(n), observed |-> now]}
    /\ UNCHANGED <<now, login, snapshot, count, cache, restarts>>

\* The `k' oldest leases of a node, expired ones too, are taken for the
\* sessions by which its count grew.  Leases of the same second are alike.
Absorbed(n, k) ==
    LET leases == {i \in At(n) : login[i].leased}
        oldest(S) == \A i \in S, j \in leases \ S : login[i].start <= login[j].start
    IN {S \in kSubset(IF k < Cardinality(leases) THEN k ELSE Cardinality(leases), leases) :
            oldest(S)}

\* Mutant: as many leases are absorbed as there are sessions.
IncreaseMutTotal(m) == m.count

Increase(m) == IF m.count > count[m.node] THEN m.count - count[m.node] ELSE 0

\* Mutant: a snapshot that was overtaken replaces the newer one.
AcceptsMutNoOrder(m) == m.observed + Freshness >= now

Accepts(m) ==
    /\ m.observed + Freshness >= now
    /\ snapshot[m.node] # NoSnapshot => snapshot[m.node].sequence < m.sequence

Accept(m) ==
    /\ Accepts(m)
    /\ flight' = flight \ {m}
    /\ snapshot' = [snapshot EXCEPT ![m.node] = [sequence |-> m.sequence,
                                                 observed |-> m.observed, accepted |-> now]]
    /\ count' = [count EXCEPT ![m.node] = m.count]
    /\ \E seen \in Absorbed(m.node, Increase(m)) :
          login' = [i \in LoginId |-> IF i \in seen
                                     THEN Kept([login[i] EXCEPT !.leased = FALSE])
                                     ELSE login[i]]
    /\ UNCHANGED <<now, sequence, cache, restarts>>

-----------------------------------------------------------------------------
(* Restarts of the panel, and time.                                        *)

\* begin_runtime_epoch: a new process trusts no lease and no snapshot of the old.
Restart ==
    /\ restarts < MaxRestarts /\ now + Outage <= MaxTime
    /\ restarts' = restarts + 1 /\ now' = now + Outage
    /\ login' = [i \in LoginId |->
                   IF login[i] = Free \/ login[i].pc = "asking" THEN Free
                   ELSE Kept([login[i] EXCEPT !.leased = FALSE])]
    /\ snapshot' = [n \in Node |-> NoSnapshot] /\ count' = [n \in Node |-> 0]
    /\ cache' = NoCache
    /\ flight' = IF Straddle THEN flight ELSE {}
    /\ UNCHANGED <<sequence>>

\* An expired lease of the panel host, a list too old to be reused and a
\* snapshot too old to be accepted are never looked at again.
Forgotten(l, t) ==
    /\ l # Free
    /\ l.pc = "gone" /\ l.place = Panel /\ Expiry(l) < t

Tick ==
    /\ now < MaxTime
    /\ \A n \in Node : snapshot[n] # NoSnapshot => now < snapshot[n].observed + Gap
    /\ now' = now + 1
    /\ login' = [i \in LoginId |-> IF Forgotten(login[i], now') THEN Free ELSE login[i]]
    /\ cache' = IF Cached /\ now' <= cache.at + CacheAge THEN cache ELSE NoCache
    /\ flight' = {m \in flight : m.observed + Freshness >= now'}
    /\ UNCHANGED <<snapshot, count, sequence, restarts>>

Next ==
    \/ \E n \in Node : Ask(n) \/ Send(n)
    \/ \E i \in LoginId : Approve(i) \/ Deny(i) \/ Connect(i) \/ Leave(i)
    \/ \E reuse \in BOOLEAN : LocalLogin(reuse)
    \/ LocalDenied
    \/ \E m \in flight : Accept(m)
    \/ Restart
    \/ Tick

Spec == Init /\ [][Next]_vars

-----------------------------------------------------------------------------
(* Properties.                                                             *)

TypeOK ==
    /\ now \in 0..MaxTime
    /\ login \in [LoginId -> Login \cup {Free}]
    /\ snapshot \in [Node -> Snapshot \cup {NoSnapshot}]
    /\ count \in [Node -> 0..Cardinality(LoginId)]
    /\ flight \subseteq Message
    /\ sequence \in [Node -> 0..MaxSends]
    /\ cache \in [at : Nat, count : Nat] \cup {NoCache}
    /\ restarts \in 0..MaxRestarts

\* A login is approved only if, with it, the user's sessions and the logins
\* already approved that may still become sessions stay within the limit.
AdmissionWithinLimit ==
    [][ (\E i \in LoginId : /\ login'[i] # Free /\ login'[i].pc = "approved"
                            /\ (login[i] = Free \/ login[i].pc = "asking"))
        => Devices' <= DeviceLimit ]_vars

\* What a node's last count does not show has a lease that nobody else has
\* used up, however the snapshots are delayed, lost or overtaken: leases are
\* absorbed by the growth of the count, oldest first, never by name.
EveryDeviceIsLeasedOrCounted ==
    \A n \in Node :
        snapshot[n] # NoSnapshot =>
            Online(n) + Cardinality({i \in At(n) : login[i].pc = "approved" /\ MaySettle(i)})
                <= count[n] + Cardinality({i \in At(n) : login[i].leased})
=============================================================================
