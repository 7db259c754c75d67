------------------------- MODULE DeviceAdmissionProof -------------------------
(***************************************************************************)
(* Proofs about DeviceAdmission, for any nodes, logins, bounds and times.    *)
(*                                                                         *)
(* Base needs no hypothesis.  Accounted is the heart: of each node, how many *)
(* sessions opened between the snapshot the panel holds, each snapshot under *)
(* way and now, which the leases not yet absorbed must still cover.  Missed  *)
(* does the same for the panel host's own list.                             *)
(***************************************************************************)
EXTENDS DeviceAdmission, FiniteSetTheorems, FunctionTheorems, TLAPS

-----------------------------------------------------------------------------
(* The relations between times the code relies on.                          *)

\* A restart takes longer than an approval lives, and no snapshot of the old process
\* reaches the new one.
RestartsOutlastLogins ==
    MaxRestarts = 0 \/ (~Straddle /\ Window < Outage /\ LocalWindow < Outage)

\* A lease outlives the snapshot that does not show its session yet.
LeasesOutlastSnapshots == Window = 0 \/ Gap + Window <= Freshness

\* A lease of the panel host outlives the list that does not show its session yet.
LeasesOutlastList == CacheAge + LocalWindow <= LocalLease

-----------------------------------------------------------------------------
(* The inductive invariant.                                                *)

On(p) == {i \in At(p) : login[i].pc = "online"}
Settling(p) == {i \in At(p) : login[i].pc = "approved" /\ MaySettle(i)}
Leases(p) == {i \in At(p) : login[i].leased}
SettlingSince(p, t) == {i \in Settling(p) : login[i].start >= t}
LeasesSince(p, t) == {i \in Leases(p) : login[i].start >= t}

Base ==
    /\ TypeOK
    /\ \A i \in Used : login[i].start <= now
    /\ \A i \in Used : login[i].pc = "asking" => ~login[i].leased /\ login[i].place \in Node
    /\ \A m \in flight : /\ m.count <= Cardinality(LoginId) /\ m.observed <= now
                         /\ m.sequence <= sequence[m.node]
    /\ \A m, k \in flight : m.node = k.node /\ m.sequence <= k.sequence => m.observed <= k.observed
    /\ \A n \in Node : snapshot[n] # NoSnapshot =>
          /\ snapshot[n].observed <= now /\ snapshot[n].sequence <= sequence[n]
          /\ \A m \in flight : m.node = n /\ snapshot[n].sequence < m.sequence =>
                snapshot[n].observed <= m.observed
    /\ \A n \in Node : snapshot[n] = NoSnapshot => Leases(n) = {}

\* Snapshots of a node that may still be accepted.
Pending(n) ==
    {m \in flight : m.node = n /\ (snapshot[n] # NoSnapshot => snapshot[n].sequence < m.sequence)}

Young(n) == now <= snapshot[n].observed + Gap

\* `L' and `E' are the sessions opened since the snapshot the panel holds of `n', by
\* logins that asked at `t' or later and by earlier ones; of these, late[s] and
\* early[s] had been opened when snapshot s was taken.  Not a variable of the
\* specification: that such numbers exist is what a step preserves.
Accounted(n, t, late, early, L, E) ==
    /\ \A m \in Pending(n) :
          /\ late[m.sequence] <= L /\ early[m.sequence] <= E
          /\ Online(n) + late[m.sequence] + early[m.sequence] <= m.count + L + E
          /\ snapshot[n] # NoSnapshot => m.count <= count[n] + (late[m.sequence] + early[m.sequence])
          /\ t + Window <= m.observed => E = early[m.sequence]
    /\ \A m, k \in Pending(n) : m.sequence <= k.sequence =>
          /\ late[m.sequence] <= late[k.sequence] /\ early[m.sequence] <= early[k.sequence]
          /\ k.count + late[m.sequence] + early[m.sequence]
                <= m.count + late[k.sequence] + early[k.sequence]
    /\ snapshot[n] # NoSnapshot =>
          /\ Online(n) <= count[n] + L + E
          /\ t + Window <= snapshot[n].observed => E = 0
          /\ Young(n) \/ (t + Window <= now => E = 0)
    /\ t = 0 => E = 0
    /\ Cardinality(Settling(n)) + L + E <= Cardinality(Leases(n))
    /\ Cardinality(SettlingSince(n, t)) + L <= Cardinality(LeasesSince(n, t))

Sessions ==
    \A n \in Node : \A t \in Nat : \E late, early \in [Nat -> Nat] : \E L, E \in Nat :
        Accounted(n, t, late, early, L, E)

\* Sessions of the panel host that a list read at `t' must show, for no lease does.
Missed(t) == {i \in On(Panel) : ~(login[i].leased /\ login[i].start + LocalWindow >= t)}

Listed ==
    /\ \A i \in Settling(Panel) : login[i].leased
    /\ \A t \in Nat : \A i \in Used :
          login[i].pc = "asking" /\ login[i].start = t => Cardinality(Missed(t)) <= login[i].local
    /\ \A t \in Nat : cache # NoCache /\ cache.at = t =>
          t <= now /\ Cardinality(Missed(t)) <= cache.count

Inv == Base /\ Sessions /\ Listed

-----------------------------------------------------------------------------
(* Data.                                                                   *)

LEMMA Constant ==
    /\ Freshness \in Nat /\ LocalLease \in Nat /\ CacheAge \in Nat /\ Window \in Nat
    /\ LocalWindow \in Nat /\ Gap \in Nat /\ Outage \in Nat /\ DeviceLimit \in Nat
    /\ MaxSends \in Nat /\ MaxRestarts \in Nat /\ MaxTime \in Nat
    /\ Panel \notin Node /\ IsFiniteSet(Node) /\ IsFiniteSet(LoginId)
    /\ Cardinality(LoginId) \in Nat
  BY ConstantsAssumption, FS_CardinalityType

LEMMA UsedLogin ==
    ASSUME TypeOK, NEW i \in Used
    PROVE  /\ i \in LoginId /\ login[i] \in Login
           /\ login[i].pc \in {"asking", "approved", "online", "gone"} /\ login[i].place \in Place
           /\ login[i].start \in Nat /\ login[i].local \in Nat /\ login[i].leased \in BOOLEAN
<1>1. i \in LoginId /\ login[i] \in Login
  BY DEF TypeOK, Used
<1> QED BY <1>1 DEF Login

LEMMA NotFree == ASSUME NEW l \in Login PROVE l # Free
  BY DEF Login, Free

LEMMA SomeSnapshot ==
    ASSUME TypeOK, NEW n \in Node, snapshot[n] # NoSnapshot
    PROVE  /\ snapshot[n] \in Snapshot /\ snapshot[n].sequence \in Nat
           /\ snapshot[n].observed \in Nat /\ snapshot[n].accepted \in Nat
<1>1. snapshot[n] \in Snapshot
  BY DEF TypeOK
<1> QED BY <1>1 DEF Snapshot

LEMMA InFlight ==
    ASSUME TypeOK, NEW m \in flight
    PROVE  /\ m \in Message /\ m.node \in Node /\ m.sequence \in Nat /\ m.count \in Nat
           /\ m.observed \in Nat
<1>1. m \in Message
  BY DEF TypeOK
<1> QED BY <1>1 DEF Message

LEMMA Subset ==
    ASSUME NEW T \in SUBSET LoginId, NEW S \in SUBSET T
    PROVE  /\ IsFiniteSet(S) /\ IsFiniteSet(T) /\ Cardinality(S) \in Nat /\ Cardinality(T) \in Nat
           /\ Cardinality(S) <= Cardinality(T)
<1>1. IsFiniteSet(T)
  BY Constant, FS_Subset
<1>2. IsFiniteSet(S) /\ Cardinality(S) <= Cardinality(T)
  BY <1>1, FS_Subset
<1> QED BY <1>1, <1>2, FS_CardinalityType

LEMMA OneMore ==
    ASSUME NEW T \in SUBSET LoginId, NEW i \in LoginId, NEW S \in SUBSET (T \cup {i})
    PROVE  /\ Cardinality(S) \in Nat /\ Cardinality(T) \in Nat /\ Cardinality(S) <= Cardinality(T) + 1
           /\ i \notin T => Cardinality(T \cup {i}) = Cardinality(T) + 1
<1>1. /\ T \cup {i} \in SUBSET LoginId /\ IsFiniteSet(T) /\ Cardinality(T) \in Nat
      /\ Cardinality(T \cup {i}) \in Nat
  BY Subset
<1>2. Cardinality(S) \in Nat /\ Cardinality(S) <= Cardinality(T \cup {i})
  BY <1>1, Subset
<1>3. i \notin T => Cardinality(T \cup {i}) = Cardinality(T) + 1
  BY <1>1, FS_AddElement
<1>4. Cardinality(T \cup {i}) <= Cardinality(T) + 1
  <2>1. CASE i \in T
    <3>1. T \cup {i} = T
      BY <2>1
    <3>2. Cardinality(T \cup {i}) = Cardinality(T)
      BY <3>1, Zenon
    <3> QED BY <1>1, <3>2
  <2> QED BY <1>1, <1>3, <2>1
<1> DEFINE s == Cardinality(S)
           c == Cardinality(T)
           d == Cardinality(T \cup {i})
<1>5. s \in Nat /\ c \in Nat /\ d \in Nat /\ s <= d /\ d <= c + 1
  BY <1>1, <1>2, <1>4
<1> HIDE DEF s, c, d
<1>6. s <= c + 1
  BY <1>5
<1> QED BY <1>1, <1>2, <1>3, <1>6 DEF s, c

\* A login's row is rewritten.
LEMMA Rewritten ==
    ASSUME TypeOK, NEW i \in LoginId, NEW r \in Login, login' = [login EXCEPT ![i] = r]
    PROVE  /\ login' \in [LoginId -> Login \cup {Free}] /\ login'[i] = r
           /\ Used' = Used \cup {i} /\ \A j \in LoginId : j # i => login'[j] = login[j]
<1>1. login \in [LoginId -> Login \cup {Free}]
  BY DEF TypeOK
<1>2. login' \in [LoginId -> Login \cup {Free}] /\ login'[i] = r
      /\ \A j \in LoginId : j # i => login'[j] = login[j]
  BY <1>1
<1>3. Used' = Used \cup {i}
  BY <1>2, NotFree DEF Used
<1> QED BY <1>2, <1>3

LEMMA Freed ==
    ASSUME TypeOK, NEW i \in LoginId, login' = [login EXCEPT ![i] = Free]
    PROVE  /\ login' \in [LoginId -> Login \cup {Free}]
           /\ Used' = Used \ {i} /\ \A j \in LoginId : j # i => login'[j] = login[j]
<1>1. login \in [LoginId -> Login \cup {Free}]
  BY DEF TypeOK
<1>2. login' \in [LoginId -> Login \cup {Free}] /\ login'[i] = Free
      /\ \A j \in LoginId : j # i => login'[j] = login[j]
  BY <1>1
<1>3. Used' = Used \ {i}
  BY <1>2 DEF Used
<1> QED BY <1>2, <1>3

-----------------------------------------------------------------------------
(* The types, and what a step does to the logins.                           *)

\* A login keeps its place and its second; it gets a lease when it is approved.
LoginsMove ==
    /\ login' \in [LoginId -> Login \cup {Free}]
    /\ \A i \in Used' :
          \/ /\ i \in Used
             /\ login'[i].place = login[i].place /\ login'[i].start = login[i].start
             /\ login'[i].pc = "asking" => /\ login[i].pc = "asking" /\ login'[i].local = login[i].local
                                           /\ ~login'[i].leased
             /\ login'[i].leased => login[i].leased \/ \A n \in Node : snapshot[n] # NoSnapshot
          \/ /\ i \notin Used /\ login'[i].start = now
             /\ \/ login'[i].pc = "asking" /\ login'[i].place \in Node /\ ~login'[i].leased
                \/ login'[i].pc = "approved" /\ login'[i].place = Panel

LEMMA SameLogins == ASSUME Base, UNCHANGED login PROVE LoginsMove
  BY DEF Base, TypeOK, LoginsMove, Used

LEMMA AskLogins == ASSUME Base, NEW n \in Node, Ask(n) PROVE LoginsMove
<1>1. PICK i \in LoginId \ Used :
        login' = [login EXCEPT ![i] = [pc |-> "asking", place |-> n, start |-> now,
                                       local |-> Online(Panel), leased |-> FALSE]]
  BY DEF Ask
<1> DEFINE r == [pc |-> "asking", place |-> n, start |-> now, local |-> Online(Panel), leased |-> FALSE]
<1>2. Online(Panel) \in Nat /\ now \in Nat /\ n \in Place
  <2>1. Online(Panel) \in Nat
    BY Subset DEF Online, At, Used
  <2> QED BY <2>1, Constant DEF Base, TypeOK, Place
<1>3. r \in Login
  BY <1>2 DEF Login
<1> HIDE DEF r
<1>4. /\ login' \in [LoginId -> Login \cup {Free}] /\ login'[i] = r
      /\ Used' = Used \cup {i} /\ \A j \in LoginId : j # i => login'[j] = login[j]
  BY <1>1, <1>3, Rewritten DEF Base, r
<1>5. r.pc = "asking" /\ r.place = n /\ r.start = now /\ r.leased = FALSE
  BY DEF r
<1> QED BY <1>4, <1>5 DEF LoginsMove, Used, Base

LEMMA ApproveLogins == ASSUME Base, NEW i \in LoginId, Approve(i) PROVE LoginsMove
<1> DEFINE r == [login[i] EXCEPT !.pc = "approved", !.local = 0, !.leased = TRUE]
<1>1. i \in Used /\ login[i] \in Login /\ login \in [LoginId -> Login \cup {Free}]
  BY UsedLogin DEF Approve, Used, Base, TypeOK
<1>2. r \in Login /\ r.pc = "approved" /\ r.place = login[i].place /\ r.start = login[i].start
  BY <1>1 DEF Login
<1>3. login' = [login EXCEPT ![i] = r]
  BY <1>1 DEF Approve
<1>4. \A n \in Node : snapshot[n] # NoSnapshot
  BY DEF Approve, Admits, Fresh
<1> HIDE DEF r
<1>5. /\ login' \in [LoginId -> Login \cup {Free}] /\ login'[i] = r
      /\ Used' = Used \cup {i} /\ \A j \in LoginId : j # i => login'[j] = login[j]
  BY <1>2, <1>3, Rewritten DEF Base
<1> QED BY <1>1, <1>2, <1>4, <1>5 DEF LoginsMove, Used, Base

LEMMA DenyLogins == ASSUME Base, NEW i \in LoginId, Deny(i) PROVE LoginsMove
<1>1. /\ login' \in [LoginId -> Login \cup {Free}]
      /\ Used' = Used \ {i} /\ \A j \in LoginId : j # i => login'[j] = login[j]
  BY Freed DEF Deny, Base
<1> QED BY <1>1 DEF LoginsMove, Used, Base

LEMMA LocalLoginLogins == ASSUME Base, NEW reuse \in BOOLEAN, LocalLogin(reuse) PROVE LoginsMove
<1>1. PICK i \in LoginId \ Used :
        login' = [login EXCEPT ![i] = [pc |-> "approved", place |-> Panel, start |-> now,
                                       local |-> 0, leased |-> TRUE]]
  BY DEF LocalLogin
<1> DEFINE r == [pc |-> "approved", place |-> Panel, start |-> now, local |-> 0, leased |-> TRUE]
<1>2. now \in Nat /\ Panel \in Place
  BY Constant DEF Base, TypeOK, Place, LocalLogin
<1>3. r \in Login
  BY <1>2 DEF Login
<1> HIDE DEF r
<1>4. /\ login' \in [LoginId -> Login \cup {Free}] /\ login'[i] = r
      /\ Used' = Used \cup {i} /\ \A j \in LoginId : j # i => login'[j] = login[j]
  BY <1>1, <1>3, Rewritten DEF Base, r
<1>5. r.pc = "approved" /\ r.place = Panel /\ r.start = now
  BY DEF r
<1> QED BY <1>4, <1>5 DEF LoginsMove, Used, Base

LEMMA ConnectLogins == ASSUME Base, NEW i \in LoginId, Connect(i) PROVE LoginsMove
<1> DEFINE r == [login[i] EXCEPT !.pc = "online"]
<1>1. i \in Used /\ login[i] \in Login /\ login \in [LoginId -> Login \cup {Free}]
  BY UsedLogin DEF Connect, Used, Base, TypeOK
<1>2. /\ r \in Login /\ r.pc = "online" /\ r.place = login[i].place /\ r.start = login[i].start
      /\ r.leased = login[i].leased
  BY <1>1 DEF Login
<1>3. login' = [login EXCEPT ![i] = r]
  BY <1>1 DEF Connect
<1> HIDE DEF r
<1>4. /\ login' \in [LoginId -> Login \cup {Free}] /\ login'[i] = r
      /\ Used' = Used \cup {i} /\ \A j \in LoginId : j # i => login'[j] = login[j]
  BY <1>2, <1>3, Rewritten DEF Base
<1> QED BY <1>1, <1>2, <1>4 DEF LoginsMove, Used, Base

\* A row whose session is over goes when no lease is left of it.
LEMMA KeptRow ==
    ASSUME NEW l \in Login
    PROVE  \/ Kept(l) = l
           \/ Kept(l) = Free /\ l.pc = "gone" /\ ~l.leased
  BY DEF Kept

LEMMA LeaveLogins ==
    ASSUME Base, NEW i \in LoginId, Leave(i)
    PROVE  /\ LoginsMove
           /\ \A p : On(p)' \subseteq On(p) /\ Settling(p)' \subseteq Settling(p) /\ Leases(p)' = Leases(p)
           /\ \A j \in Used' : j \in Used /\ login'[j].start = login[j].start
<1> DEFINE r == [login[i] EXCEPT !.pc = "gone"]
<1>1. i \in Used /\ login[i] \in Login /\ login \in [LoginId -> Login \cup {Free}]
      /\ login[i].pc \in {"approved", "online"}
  BY UsedLogin DEF Leave, Used, Base, TypeOK
<1>2. /\ r \in Login /\ r.pc = "gone" /\ r.place = login[i].place /\ r.start = login[i].start
      /\ r.leased = login[i].leased
  BY <1>1 DEF Login
<1>3. login' = [login EXCEPT ![i] = Kept(r)] /\ UNCHANGED now
  BY <1>1 DEF Leave
<1> HIDE DEF r
<1>4. CASE Kept(r) = r
  <2>1. /\ login' \in [LoginId -> Login \cup {Free}] /\ login'[i] = r
        /\ Used' = Used \cup {i} /\ \A j \in LoginId : j # i => login'[j] = login[j]
    BY <1>2, <1>3, <1>4, Rewritten DEF Base
  <2> QED BY <1>1, <1>2, <1>3, <2>1 DEF LoginsMove, Used, Base, On, Settling, Leases, At, MaySettle
<1>5. CASE Kept(r) = Free /\ ~r.leased
  <2>1. /\ login' \in [LoginId -> Login \cup {Free}]
        /\ Used' = Used \ {i} /\ \A j \in LoginId : j # i => login'[j] = login[j]
    BY <1>3, <1>5, Freed DEF Base
  <2> QED BY <1>1, <1>2, <1>3, <1>5, <2>1 DEF LoginsMove, Used, Base, On, Settling, Leases, At, MaySettle
<1> QED BY <1>2, <1>4, <1>5, KeptRow

\* The leases that a snapshot's growth pays for.
LEMMA AbsorbedLeases ==
    ASSUME TypeOK, NEW n \in Node, NEW k \in Nat, NEW S \in Absorbed(n, k)
    PROVE  /\ S \subseteq Leases(n) /\ Cardinality(S) <= k /\ Cardinality(S) <= Cardinality(Leases(n))
           /\ \A i \in S, j \in Leases(n) \ S : login[i].start <= login[j].start
<1> DEFINE L == {i \in At(n) : login[i].leased}
           c == IF k < Cardinality(L) THEN k ELSE Cardinality(L)
<1>1. L = Leases(n) /\ L \subseteq LoginId
  BY DEF Leases, At, Used
<1>2. Cardinality(L) \in Nat
  BY <1>1, Subset
<1>3. c <= k /\ c <= Cardinality(L)
  BY <1>2
<1>4. S \in SUBSET L /\ Cardinality(S) = c /\ \A i \in S, j \in L \ S : login[i].start <= login[j].start
  BY DEF Absorbed, kSubset
<1> HIDE DEF L, c
<1> QED BY <1>1, <1>3, <1>4

LEMMA AcceptLogins ==
    ASSUME Base, NEW m \in flight, Accept(m), NEW seen \in SUBSET Leases(m.node),
           login' = [i \in LoginId |-> IF i \in seen THEN Kept([login[i] EXCEPT !.leased = FALSE])
                                       ELSE login[i]]
    PROVE  /\ LoginsMove
           /\ \A p : On(p)' = On(p) /\ Settling(p)' = Settling(p) /\ Leases(p)' = Leases(p) \ seen
           /\ \A j \in Used' : j \in Used /\ login'[j].start = login[j].start
<1>0. seen \subseteq Used /\ UNCHANGED now /\ login \in [LoginId -> Login \cup {Free}]
  BY DEF Leases, At, Accept, Base, TypeOK
<1>1. ASSUME NEW j \in seen
      PROVE  /\ login'[j] \in Login \cup {Free}
             /\ login'[j] # Free => /\ login'[j].pc = login[j].pc /\ login'[j].place = login[j].place
                                    /\ login'[j].start = login[j].start
                                    /\ login'[j].local = login[j].local /\ login'[j].leased = FALSE
             /\ login'[j] = Free => login[j].pc = "gone"
  <2> DEFINE r == [login[j] EXCEPT !.leased = FALSE]
  <2>1. j \in Used /\ login[j] \in Login
    BY <1>0, UsedLogin DEF Base
  <2>2. /\ r \in Login /\ r.pc = login[j].pc /\ r.place = login[j].place /\ r.start = login[j].start
        /\ r.local = login[j].local /\ r.leased = FALSE
    BY <2>1 DEF Login
  <2>3. login'[j] = Kept(r)
    BY <2>1 DEF Used
  <2> HIDE DEF r
  <2> QED BY <2>2, <2>3, KeptRow, NotFree
<1>2. \A j \in LoginId : j \notin seen => login'[j] = login[j]
  OBVIOUS
<1>3. login' \in [LoginId -> Login \cup {Free}]
  <2>1. \A j \in LoginId : login'[j] \in Login \cup {Free}
    BY <1>0, <1>1, <1>2
  <2> QED BY <2>1
<1>4. Used' \subseteq Used
  BY <1>0, <1>2 DEF Used
<1>5. \A j \in Used \ Used' : j \in seen /\ login[j].pc = "gone"
  BY <1>1, <1>2 DEF Used
<1>6. \A j \in Used' : /\ login'[j].pc = login[j].pc /\ login'[j].place = login[j].place
                       /\ login'[j].start = login[j].start /\ login'[j].local = login[j].local
                       /\ (login'[j].leased <=> login[j].leased /\ j \notin seen)
  <2> TAKE j \in Used'
  <2>1. j \in LoginId /\ login'[j] # Free /\ login[j].leased \in BOOLEAN
    BY <1>4, UsedLogin DEF Used, Base
  <2> QED BY <1>1, <1>2, <2>1
<1>7. LoginsMove
  BY <1>3, <1>4, <1>6 DEF LoginsMove, Base
<1>8. \A p : On(p)' = On(p)
  BY <1>4, <1>5, <1>6 DEF On, At
<1>9. \A p : Settling(p)' = Settling(p)
  BY <1>0, <1>4, <1>5, <1>6 DEF Settling, At, MaySettle
<1>10. \A p : Leases(p)' = Leases(p) \ seen
  <2> TAKE p
  <2>1. Leases(p)' \subseteq Leases(p) \ seen
    BY <1>4, <1>6 DEF Leases, At
  <2>2. Leases(p) \ seen \subseteq Leases(p)'
    BY <1>5, <1>6 DEF Leases, At
  <2> QED BY <2>1, <2>2
<1> QED BY <1>4, <1>6, <1>7, <1>8, <1>9, <1>10

LEMMA RestartLogins ==
    ASSUME Base, Restart
    PROVE  /\ LoginsMove
           /\ \A p : On(p)' \subseteq On(p) /\ Leases(p)' = {}
           /\ \A j \in Used' : j \in Used /\ login'[j].start = login[j].start /\ login'[j].pc # "asking"
                               /\ login'[j].place = login[j].place
<1>1. ASSUME NEW j \in LoginId
      PROVE  /\ login'[j] \in Login \cup {Free}
             /\ login'[j] # Free => /\ j \in Used /\ login[j].pc # "asking"
                                    /\ login'[j].pc = login[j].pc /\ login'[j].place = login[j].place
                                    /\ login'[j].start = login[j].start /\ login'[j].leased = FALSE
  <2>1. CASE login[j] = Free \/ login[j].pc = "asking"
    BY <2>1 DEF Restart
  <2>2. CASE ~(login[j] = Free \/ login[j].pc = "asking")
    <3> DEFINE r == [login[j] EXCEPT !.leased = FALSE]
    <3>1. j \in Used /\ login[j] \in Login
      BY <2>2, UsedLogin DEF Base, Used
    <3>2. /\ r \in Login /\ r.pc = login[j].pc /\ r.place = login[j].place /\ r.start = login[j].start
          /\ r.leased = FALSE
      BY <3>1 DEF Login
    <3>3. login'[j] = Kept(r)
      BY <2>2 DEF Restart
    <3> HIDE DEF r
    <3> QED BY <2>2, <3>1, <3>2, <3>3, KeptRow
  <2> QED BY <2>1, <2>2
<1>2. login' \in [LoginId -> Login \cup {Free}]
  BY <1>1 DEF Restart
<1>3. \A j \in Used' : /\ j \in Used /\ login'[j].start = login[j].start /\ login[j].pc # "asking"
                       /\ login'[j].pc = login[j].pc /\ login'[j].place = login[j].place
                       /\ login'[j].leased = FALSE
  BY <1>1 DEF Used
<1>4. LoginsMove
  BY <1>2, <1>3 DEF LoginsMove
<1>5. \A p : On(p)' \subseteq On(p)
  BY <1>3 DEF On, At
<1>6. \A p : Leases(p)' = {}
  BY <1>3 DEF Leases, At
<1> QED BY <1>3, <1>4, <1>5, <1>6

\* Only rows of the panel host are forgotten, and what is over by then.
LEMMA TickLogins ==
    ASSUME Base, Tick
    PROVE  /\ LoginsMove
           /\ \A p : On(p)' = On(p) /\ Settling(p)' \subseteq Settling(p)
           /\ \A n \in Node : Leases(n)' = Leases(n)
           /\ \A j \in Used' : j \in Used /\ login'[j] = login[j]
<1>0. login \in [LoginId -> Login \cup {Free}] /\ now \in Nat /\ now' = now + 1
  BY Constant DEF Base, TypeOK, Tick
<1>1. \A j \in LoginId : \/ login'[j] = login[j]
                         \/ login'[j] = Free /\ login[j].pc = "gone" /\ login[j].place = Panel
  BY DEF Tick, Forgotten
<1>2. login' \in [LoginId -> Login \cup {Free}]
  BY <1>0, <1>1 DEF Tick
<1>3. \A j \in Used' : j \in Used /\ login'[j] = login[j]
  BY <1>1 DEF Used
<1>4. \A j \in Used \ Used' : login[j].pc = "gone" /\ login[j].place = Panel
  BY <1>1 DEF Used
<1>5. LoginsMove
  BY <1>2, <1>3 DEF LoginsMove, Base
<1>6. \A p : On(p)' = On(p)
  BY <1>3, <1>4 DEF On, At
<1>7. \A p : Settling(p)' \subseteq Settling(p)
  <2> SUFFICES ASSUME NEW p, NEW j \in Settling(p)' PROVE j \in Settling(p)
    OBVIOUS
  <2>1. j \in Used' /\ login'[j].place = p /\ login'[j].pc = "approved" /\ MaySettle(j)'
    BY DEF Settling, At
  <2>2. j \in Used /\ login'[j] = login[j]
    BY <1>3, <2>1
  <2>3. login[j].start \in Nat
    BY <2>2, UsedLogin DEF Base
  <2>4. MaySettle(j)
    BY <1>0, <2>1, <2>2, <2>3, Constant DEF MaySettle
  <2> QED BY <2>1, <2>2, <2>4 DEF Settling, At
<1>8. \A n \in Node : Leases(n)' = Leases(n)
  BY <1>3, <1>4, Constant DEF Leases, At
<1> QED BY <1>3, <1>5, <1>6, <1>7, <1>8

\* What is said of the logins in Base.
LoginsOK ==
    /\ \A i \in Used : login[i].start <= now
    /\ \A i \in Used : login[i].pc = "asking" => ~login[i].leased /\ login[i].place \in Node

LEMMA LoginsKept ==
    ASSUME Base, LoginsMove, now' \in Nat, now' >= now
    PROVE  LoginsOK'
<1>1. now \in Nat
  BY Constant DEF Base, TypeOK
<1>2. ASSUME NEW i \in Used'
      PROVE  /\ login'[i].start <= now'
             /\ login'[i].pc = "asking" => ~login'[i].leased /\ login'[i].place \in Node
  <2>1. CASE i \in Used
    <3>1. login[i].start \in Nat /\ login[i].start <= now
      BY <2>1, UsedLogin DEF Base
    <3> QED BY <1>1, <1>2, <2>1, <3>1 DEF LoginsMove, Base
  <2>2. CASE i \notin Used
    BY <1>1, <1>2, <2>2 DEF LoginsMove
  <2> QED BY <2>1, <2>2
<1> QED BY <1>2 DEF LoginsOK

LEMMA NoLeases ==
    ASSUME Base, LoginsMove, NEW n \in Node, snapshot[n] = NoSnapshot
    PROVE  Leases(n)' = {}
<1> SUFFICES ASSUME NEW i \in Leases(n)' PROVE FALSE
  OBVIOUS
<1>1. i \in Used' /\ login'[i].place = n /\ login'[i].leased
  BY DEF Leases, At
<1>2. i \in Used /\ login[i].place = n /\ login[i].leased
  BY <1>1, Constant DEF LoginsMove
<1> QED BY <1>2 DEF Base, Leases, At

LEMMA BaseKept ==
    ASSUME Base, LoginsMove, UNCHANGED <<now, snapshot, count, flight, sequence, restarts>>,
           cache' \in [at : Nat, count : Nat] \cup {NoCache}
    PROVE  Base'
<1>1. TypeOK'
  BY DEF Base, TypeOK, LoginsMove
<1>2. LoginsOK'
  BY LoginsKept, Constant DEF Base, TypeOK
<1>3. \A n \in Node : snapshot'[n] = NoSnapshot => Leases(n)' = {}
  BY NoLeases
<1> QED BY <1>1, <1>2, <1>3 DEF Base, LoginsOK

LEMMA OnlineNat == ASSUME TypeOK, NEW p PROVE Online(p) \in Nat /\ Online(p) <= Cardinality(LoginId)
<1>1. {i \in At(p) : login[i].pc = "online"} \subseteq LoginId
  BY DEF At, Used
<1> QED BY <1>1, Subset DEF Online

LEMMA SendBase == ASSUME Base, NEW n \in Node, Send(n) PROVE Base' /\ LoginsMove
<1> DEFINE s == [node |-> n, sequence |-> sequence[n] + 1, count |-> Online(n), observed |-> now]
<1>0. LoginsMove
  BY SameLogins DEF Send
<1>1. now \in Nat /\ sequence \in [Node -> 0..MaxSends] /\ flight \subseteq Message /\ Online(n) \in Nat
      /\ Online(n) <= Cardinality(LoginId) /\ sequence[n] < MaxSends
  BY OnlineNat, Constant DEF Base, TypeOK, Send
<1>2. sequence[n] \in Nat /\ sequence[n] + 1 \in 0..MaxSends
  BY <1>1, Constant
<1>3. /\ sequence' \in [Node -> 0..MaxSends] /\ sequence'[n] = sequence[n] + 1
      /\ \A k \in Node : k # n => sequence'[k] = sequence[k]
  BY <1>1, <1>2 DEF Send
<1>4. flight' = flight \cup {s} /\ UNCHANGED <<now, login, snapshot, count, cache, restarts>>
  BY <1>3 DEF Send
<1>5. /\ s \in Message /\ s.node = n /\ s.sequence = sequence[n] + 1 /\ s.count = Online(n)
      /\ s.observed = now
  BY <1>1, <1>2 DEF Message
<1> HIDE DEF s
<1>6. TypeOK'
  BY <1>0, <1>1, <1>3, <1>4, <1>5 DEF Base, TypeOK, LoginsMove
<1>7. LoginsOK'
  BY <1>0, <1>1, <1>4, LoginsKept
<1>8. \A m \in flight : /\ m.node \in Node /\ m.sequence \in Nat /\ m.observed \in Nat
                        /\ m.sequence <= sequence[m.node] /\ m.observed <= now
                        /\ m.count <= Cardinality(LoginId)
  BY InFlight DEF Base
<1>9. \A m \in flight : m.sequence <= sequence'[m.node] /\ (m.node = n => m.sequence < s.sequence)
  BY <1>2, <1>3, <1>5, <1>8
<1>10. \A m \in flight' : /\ m.count <= Cardinality(LoginId) /\ m.observed <= now'
                          /\ m.sequence <= sequence'[m.node]
  BY <1>1, <1>2, <1>3, <1>4, <1>5, <1>8, <1>9
<1>11. \A m, k \in flight' : m.node = k.node /\ m.sequence <= k.sequence => m.observed <= k.observed
  BY <1>1, <1>2, <1>4, <1>5, <1>8, <1>9 DEF Base
<1>12. \A k \in Node : snapshot'[k] # NoSnapshot =>
          /\ snapshot'[k].observed <= now' /\ snapshot'[k].sequence <= sequence'[k]
          /\ \A m \in flight' : m.node = k /\ snapshot'[k].sequence < m.sequence =>
                snapshot'[k].observed <= m.observed
  <2> SUFFICES ASSUME NEW k \in Node, snapshot[k] # NoSnapshot
               PROVE  /\ snapshot[k].observed <= now /\ snapshot[k].sequence <= sequence'[k]
                      /\ \A m \in flight' : m.node = k /\ snapshot[k].sequence < m.sequence =>
                            snapshot[k].observed <= m.observed
    BY <1>4
  <2>1. snapshot[k].sequence \in Nat /\ snapshot[k].observed <= now /\ snapshot[k].sequence <= sequence[k]
    BY SomeSnapshot DEF Base
  <2>2. sequence[k] \in Nat /\ sequence[k] <= sequence'[k] /\ sequence'[k] \in Nat
    BY <1>1, <1>2, <1>3
  <2>3. snapshot[k].sequence <= sequence'[k]
    BY <2>1, <2>2
  <2> QED BY <1>4, <1>5, <2>1, <2>3 DEF Base
<1>13. \A k \in Node : snapshot'[k] = NoSnapshot => Leases(k)' = {}
  BY <1>0, <1>4, NoLeases
<1> QED BY <1>0, <1>6, <1>7, <1>10, <1>11, <1>12, <1>13 DEF Base, LoginsOK

LEMMA IncreaseNat ==
    ASSUME TypeOK, NEW m \in flight
    PROVE  Increase(m) \in Nat /\ count[m.node] \in Nat
           /\ \A d \in Nat : m.count <= count[m.node] + d => Increase(m) <= d
<1>1. m.node \in Node /\ m.count \in Nat
  BY InFlight
<1>2. count[m.node] \in Nat
  BY <1>1, Constant DEF TypeOK
<1> QED BY <1>1, <1>2 DEF Increase

LEMMA AcceptSeen ==
    ASSUME Base, NEW m \in flight, Accept(m)
    PROVE  \E seen \in SUBSET Leases(m.node) :
              /\ login' = [i \in LoginId |-> IF i \in seen THEN Kept([login[i] EXCEPT !.leased = FALSE])
                                             ELSE login[i]]
              /\ Cardinality(seen) <= Increase(m)
              /\ \A i \in seen, j \in Leases(m.node) \ seen : login[i].start <= login[j].start
<1>1. PICK seen \in Absorbed(m.node, Increase(m)) :
        login' = [i \in LoginId |-> IF i \in seen THEN Kept([login[i] EXCEPT !.leased = FALSE])
                                    ELSE login[i]]
  BY DEF Accept
<1>2. m.node \in Node /\ Increase(m) \in Nat /\ TypeOK
  BY InFlight, IncreaseNat DEF Base
<1>3. /\ seen \in SUBSET Leases(m.node) /\ Cardinality(seen) <= Increase(m)
      /\ \A i \in seen, j \in Leases(m.node) \ seen : login[i].start <= login[j].start
  BY <1>2, AbsorbedLeases
<1> QED BY <1>1, <1>3

LEMMA AcceptBase == ASSUME Base, NEW m \in flight, Accept(m) PROVE Base' /\ LoginsMove
<1> DEFINE n == m.node
           s == [sequence |-> m.sequence, observed |-> m.observed, accepted |-> now]
<1>0. LoginsMove
  BY AcceptSeen, AcceptLogins
<1>1. /\ now \in Nat /\ n \in Node /\ m.sequence \in Nat /\ m.count \in Nat /\ m.observed \in Nat
      /\ snapshot \in [Node -> Snapshot \cup {NoSnapshot}]
      /\ count \in [Node -> 0..Cardinality(LoginId)] /\ Cardinality(LoginId) \in Nat
      /\ m.count <= Cardinality(LoginId) /\ m.observed <= now /\ m.sequence <= sequence[n]
  BY InFlight, Constant DEF Base, TypeOK
<1>2. UNCHANGED <<now, sequence, cache, restarts>> /\ flight' = flight \ {m}
      /\ snapshot' = [snapshot EXCEPT ![n] = s] /\ count' = [count EXCEPT ![n] = m.count]
  BY DEF Accept
<1>3. s \in Snapshot /\ s # NoSnapshot /\ s.observed = m.observed /\ s.sequence = m.sequence
  BY <1>1 DEF Snapshot, NoSnapshot
<1> HIDE DEF s
<1>4. /\ snapshot' \in [Node -> Snapshot \cup {NoSnapshot}] /\ snapshot'[n] = s
      /\ \A k \in Node : k # n => snapshot'[k] = snapshot[k]
  BY <1>1, <1>2, <1>3
<1>5. count' \in [Node -> 0..Cardinality(LoginId)]
  BY <1>1, <1>2
<1>6. TypeOK'
  BY <1>0, <1>2, <1>4, <1>5 DEF Base, TypeOK, LoginsMove
<1>7. LoginsOK'
  BY <1>0, <1>1, <1>2, LoginsKept
<1>8. \A k \in flight : m.node = k.node /\ m.sequence <= k.sequence => m.observed <= k.observed
  BY DEF Base
<1>9. \A k \in flight : k.sequence \in Nat
  BY InFlight DEF Base
<1>10. \A k \in Node : snapshot'[k] # NoSnapshot =>
          /\ snapshot'[k].observed <= now' /\ snapshot'[k].sequence <= sequence'[k]
          /\ \A l \in flight' : l.node = k /\ snapshot'[k].sequence < l.sequence =>
                snapshot'[k].observed <= l.observed
  <2> TAKE k \in Node
  <2>1. CASE k = n
    BY <1>1, <1>2, <1>3, <1>4, <1>8, <1>9, <2>1
  <2>2. CASE k # n
    BY <1>2, <1>4, <2>2 DEF Base
  <2> QED BY <2>1, <2>2
<1>11. \A k \in Node : snapshot'[k] = NoSnapshot => Leases(k)' = {}
  BY <1>0, <1>3, <1>4, NoLeases
<1> QED BY <1>0, <1>2, <1>6, <1>7, <1>10, <1>11 DEF Base, LoginsOK

LEMMA RestartBase == ASSUME Base, Restart PROVE Base' /\ LoginsMove
<1>0. LoginsMove /\ \A p : Leases(p)' = {}
  BY RestartLogins
<1>1. now \in Nat /\ restarts \in 0..MaxRestarts /\ now' \in 0..MaxTime /\ now' >= now
      /\ restarts' \in 0..MaxRestarts
  <2>1. now \in 0..MaxTime /\ restarts \in 0..MaxRestarts /\ now' = now + Outage
        /\ restarts' = restarts + 1 /\ restarts < MaxRestarts /\ now + Outage <= MaxTime
    BY DEF Base, TypeOK, Restart
  <2> QED BY <2>1, Constant
<1>2. UNCHANGED sequence /\ flight' \subseteq flight /\ cache' = NoCache
  BY DEF Restart
<1>3. /\ snapshot' \in [Node -> Snapshot \cup {NoSnapshot}] /\ \A n \in Node : snapshot'[n] = NoSnapshot
      /\ count' \in [Node -> 0..Cardinality(LoginId)]
  BY Constant DEF Restart
<1>4. TypeOK'
  BY <1>0, <1>1, <1>2, <1>3 DEF Base, TypeOK, LoginsMove
<1>5. LoginsOK'
  BY <1>0, <1>1, Constant, LoginsKept
<1>6. \A m \in flight' : m.observed <= now'
  <2> TAKE m \in flight'
  <2>1. m.observed \in Nat /\ m.observed <= now
    BY <1>2, InFlight DEF Base
  <2> QED BY <1>1, <2>1, Constant
<1> QED BY <1>0, <1>2, <1>3, <1>4, <1>5, <1>6 DEF Base, LoginsOK

LEMMA TickBase == ASSUME Base, Tick PROVE Base' /\ LoginsMove
<1>0. LoginsMove
  BY TickLogins
<1>1. now \in Nat /\ now' \in 0..MaxTime /\ now' = now + 1
  BY Constant DEF Base, TypeOK, Tick
<1>2. UNCHANGED <<snapshot, count, sequence, restarts>> /\ flight' \subseteq flight
      /\ (cache' = cache \/ cache' = NoCache)
  BY DEF Tick
<1>3. TypeOK'
  BY <1>0, <1>1, <1>2 DEF Base, TypeOK, LoginsMove
<1>4. LoginsOK'
  BY <1>0, <1>1, Constant, LoginsKept
<1>5. \A m \in flight' : m.observed <= now'
  <2> TAKE m \in flight'
  <2>1. m.observed \in Nat /\ m.observed <= now
    BY <1>2, InFlight DEF Base
  <2> QED BY <1>1, <2>1
<1>6. \A n \in Node : snapshot[n] # NoSnapshot => snapshot[n].observed <= now'
  <2> SUFFICES ASSUME NEW n \in Node, snapshot[n] # NoSnapshot PROVE snapshot[n].observed <= now'
    OBVIOUS
  <2>1. snapshot[n].observed \in Nat /\ snapshot[n].observed <= now
    BY SomeSnapshot DEF Base
  <2> QED BY <1>1, <2>1
<1>7. \A n \in Node : snapshot'[n] = NoSnapshot => Leases(n)' = {}
  BY <1>0, <1>2, NoLeases
<1> QED BY <1>0, <1>2, <1>3, <1>4, <1>5, <1>6, <1>7 DEF Base, LoginsOK

LEMMA LocalCacheType ==
    ASSUME Base, NEW reuse \in BOOLEAN, LocalLogin(reuse) \/ LocalDenied
    PROVE  cache' \in [at : Nat, count : Nat] \cup {NoCache}
<1>1. now \in Nat /\ Online(Panel) \in Nat /\ cache \in [at : Nat, count : Nat] \cup {NoCache}
  BY OnlineNat, Constant DEF Base, TypeOK
<1>2. cache' = cache \/ cache' = [at |-> now, count |-> Online(Panel)]
  BY DEF LocalLogin, LocalDenied
<1> QED BY <1>1, <1>2

LEMMA StepBase == ASSUME Base, [Next]_vars PROVE Base' /\ LoginsMove
<1>1. CASE \E n \in Node : Ask(n)
  <2>1. LoginsMove /\ UNCHANGED <<now, snapshot, count, flight, sequence, restarts, cache>>
    BY <1>1, AskLogins DEF Ask
  <2> QED BY <2>1, BaseKept DEF Base, TypeOK
<1>2. CASE \E i \in LoginId : Approve(i) \/ Deny(i) \/ Connect(i) \/ Leave(i)
  <2>1. LoginsMove /\ UNCHANGED <<now, snapshot, count, flight, sequence, restarts, cache>>
    BY <1>2, ApproveLogins, DenyLogins, ConnectLogins, LeaveLogins DEF Approve, Deny, Connect, Leave
  <2> QED BY <2>1, BaseKept DEF Base, TypeOK
<1>3. CASE \E reuse \in BOOLEAN : LocalLogin(reuse)
  <2>1. LoginsMove /\ UNCHANGED <<now, snapshot, count, flight, sequence, restarts>>
    BY <1>3, LocalLoginLogins DEF LocalLogin
  <2> QED BY <1>3, <2>1, BaseKept, LocalCacheType
<1>4. CASE LocalDenied
  <2>1. LoginsMove /\ UNCHANGED <<now, snapshot, count, flight, sequence, restarts>>
    BY <1>4, SameLogins DEF LocalDenied
  <2>2. cache' \in [at : Nat, count : Nat] \cup {NoCache}
    BY <1>4, LocalCacheType
  <2> QED BY <2>1, <2>2, BaseKept
<1>5. CASE UNCHANGED vars
  <2>1. LoginsMove /\ UNCHANGED <<now, snapshot, count, flight, sequence, restarts, cache>>
    BY <1>5, SameLogins DEF vars
  <2> QED BY <2>1, BaseKept DEF Base, TypeOK
<1> QED BY <1>1, <1>2, <1>3, <1>4, <1>5, SendBase, AcceptBase, RestartBase, TickBase DEF Next

LEMMA InitBase == Init => Base
<1> SUFFICES ASSUME Init PROVE Base
  OBVIOUS
<1>1. TypeOK
  BY Constant DEF Init, TypeOK
<1>2. Used = {}
  BY DEF Init, Used
<1> QED BY <1>1, <1>2 DEF Init, Base, Leases, At

\* Types, and the order in which snapshots are taken, sent and accepted: whatever the
\* times are.
THEOREM BaseInvariant == Spec => []Base
<1>1. Base /\ [Next]_vars => Base'
  BY StepBase
<1> QED BY <1>1, InitBase, PTL DEF Spec

\* Every variable keeps its type.
THEOREM TypeCorrect == Spec => []TypeOK
<1>1. Base => TypeOK
  BY DEF Base
<1> QED BY <1>1, BaseInvariant, PTL

-----------------------------------------------------------------------------
(* Sessions, snapshots and leases of a node.                                *)

LEMMA NodeSets ==
    ASSUME TypeOK, NEW n, NEW t
    PROVE  /\ On(n) \subseteq LoginId /\ Settling(n) \subseteq LoginId /\ Leases(n) \subseteq LoginId
           /\ SettlingSince(n, t) \subseteq Settling(n) /\ LeasesSince(n, t) \subseteq Leases(n)
           /\ IsFiniteSet(On(n)) /\ IsFiniteSet(Settling(n)) /\ IsFiniteSet(Leases(n))
           /\ IsFiniteSet(SettlingSince(n, t)) /\ IsFiniteSet(LeasesSince(n, t))
           /\ Online(n) = Cardinality(On(n)) /\ Online(n) \in Nat
           /\ Cardinality(Settling(n)) \in Nat /\ Cardinality(Leases(n)) \in Nat
           /\ Cardinality(SettlingSince(n, t)) \in Nat /\ Cardinality(LeasesSince(n, t)) \in Nat
<1>1. /\ On(n) \subseteq LoginId /\ Settling(n) \subseteq LoginId /\ Leases(n) \subseteq LoginId
      /\ SettlingSince(n, t) \subseteq Settling(n) /\ LeasesSince(n, t) \subseteq Leases(n)
  BY DEF On, Settling, Leases, SettlingSince, LeasesSince, At, Used
<1>2. /\ IsFiniteSet(On(n)) /\ Cardinality(On(n)) \in Nat
      /\ IsFiniteSet(Settling(n)) /\ Cardinality(Settling(n)) \in Nat
      /\ IsFiniteSet(Leases(n)) /\ Cardinality(Leases(n)) \in Nat
      /\ IsFiniteSet(SettlingSince(n, t)) /\ Cardinality(SettlingSince(n, t)) \in Nat
      /\ IsFiniteSet(LeasesSince(n, t)) /\ Cardinality(LeasesSince(n, t)) \in Nat
  BY <1>1, Subset
<1>3. Online(n) = Cardinality(On(n))
  BY DEF Online, On
<1> QED BY <1>1, <1>2, <1>3

\* What may become of the sets of a node without any session or snapshot of it.
Fewer(n) ==
    /\ On(n)' \subseteq On(n) /\ Settling(n)' \subseteq Settling(n) /\ Leases(n)' = Leases(n)
    /\ \A i \in Settling(n)' : login'[i].start = login[i].start
    /\ \A i \in Leases(n) : login'[i].start = login[i].start

\* The numbers of the node, compared.
LEMMA FewerCounted ==
    ASSUME Base, Base', NEW n, NEW t, Fewer(n)
    PROVE  /\ Online(n)' <= Online(n) /\ Cardinality(Settling(n)') <= Cardinality(Settling(n))
           /\ Cardinality(Leases(n)') = Cardinality(Leases(n))
           /\ Cardinality(SettlingSince(n, t)') <= Cardinality(SettlingSince(n, t))
           /\ Cardinality(LeasesSince(n, t)') = Cardinality(LeasesSince(n, t))
           /\ Online(n)' \in Nat /\ Cardinality(Settling(n)') \in Nat
           /\ Cardinality(SettlingSince(n, t)') \in Nat
<1>1. SettlingSince(n, t)' \subseteq SettlingSince(n, t) /\ LeasesSince(n, t)' = LeasesSince(n, t)
  BY DEF Fewer, SettlingSince, LeasesSince
<1>2. /\ On(n) \in SUBSET LoginId /\ Settling(n) \in SUBSET LoginId
      /\ SettlingSince(n, t) \in SUBSET LoginId /\ Online(n) = Cardinality(On(n))
  BY NodeSets DEF Base
<1>3. Online(n)' = Cardinality(On(n)')
  BY DEF Online, On
<1>4. Cardinality(On(n)') <= Cardinality(On(n)) /\ Cardinality(On(n)') \in Nat
  BY <1>2, Subset DEF Fewer
<1>5. Cardinality(Settling(n)') <= Cardinality(Settling(n)) /\ Cardinality(Settling(n)') \in Nat
  BY <1>2, Subset DEF Fewer
<1>6. Cardinality(SettlingSince(n, t)') <= Cardinality(SettlingSince(n, t))
      /\ Cardinality(SettlingSince(n, t)') \in Nat
  BY <1>1, <1>2, Subset
<1> QED BY <1>1, <1>2, <1>3, <1>4, <1>5, <1>6 DEF Fewer

LEMMA PendingFacts ==
    ASSUME Base, NEW n \in Node, NEW m \in Pending(n)
    PROVE  /\ m \in flight /\ m.node = n /\ m.sequence \in Nat /\ m.count \in Nat /\ m.observed \in Nat
           /\ m.observed <= now /\ m.sequence <= sequence[n] /\ count[n] \in Nat /\ now \in Nat
<1>1. m \in flight /\ m.node = n
  BY DEF Pending
<1> QED BY <1>1, InFlight, Constant DEF Base, TypeOK

\* A step that neither opens a session nor touches snapshots of the node.
LEMMA FewerAccounted ==
    ASSUME Base, Base', NEW n \in Node, NEW t \in Nat, Fewer(n),
           snapshot'[n] = snapshot[n], count'[n] = count[n], Pending(n)' \subseteq Pending(n),
           UNCHANGED now \/ (snapshot[n] # NoSnapshot => Young(n)'),
           NEW late \in [Nat -> Nat], NEW early \in [Nat -> Nat], NEW L \in Nat, NEW E \in Nat,
           Accounted(n, t, late, early, L, E)
    PROVE  Accounted(n, t, late, early, L, E)'
<1>0. /\ Online(n)' <= Online(n) /\ Cardinality(Settling(n)') <= Cardinality(Settling(n))
      /\ Cardinality(Leases(n)') = Cardinality(Leases(n))
      /\ Cardinality(SettlingSince(n, t)') <= Cardinality(SettlingSince(n, t))
      /\ Cardinality(LeasesSince(n, t)') = Cardinality(LeasesSince(n, t))
      /\ Online(n)' \in Nat /\ Cardinality(Settling(n)') \in Nat
      /\ Cardinality(SettlingSince(n, t)') \in Nat
  BY FewerCounted
<1>1. /\ Online(n) \in Nat /\ Cardinality(Settling(n)) \in Nat /\ Cardinality(Leases(n)) \in Nat
      /\ Cardinality(SettlingSince(n, t)) \in Nat /\ Cardinality(LeasesSince(n, t)) \in Nat
  BY NodeSets DEF Base
<1>2. ASSUME NEW m \in Pending(n)'
      PROVE  /\ late[m.sequence] <= L /\ early[m.sequence] <= E
             /\ Online(n)' + late[m.sequence] + early[m.sequence] <= m.count + L + E
             /\ snapshot'[n] # NoSnapshot => m.count <= count'[n] + (late[m.sequence] + early[m.sequence])
             /\ t + Window <= m.observed => E = early[m.sequence]
  <2>1. m \in Pending(n) /\ m.sequence \in Nat /\ m.count \in Nat
    BY PendingFacts
  <2>2. late[m.sequence] \in Nat /\ early[m.sequence] \in Nat
    BY <2>1
  <2>3. Online(n) + late[m.sequence] + early[m.sequence] <= m.count + L + E
    BY <2>1 DEF Accounted
  <2>4. Online(n)' + late[m.sequence] + early[m.sequence] <= m.count + L + E
    BY <1>0, <1>1, <2>1, <2>2, <2>3
  <2> QED BY <2>1, <2>4 DEF Accounted
<1>3. \A m, k \in Pending(n)' : m.sequence <= k.sequence =>
          /\ late[m.sequence] <= late[k.sequence] /\ early[m.sequence] <= early[k.sequence]
          /\ k.count + late[m.sequence] + early[m.sequence]
                <= m.count + late[k.sequence] + early[k.sequence]
  BY DEF Accounted
<1>4. snapshot'[n] # NoSnapshot =>
          /\ Online(n)' <= count'[n] + L + E
          /\ t + Window <= snapshot'[n].observed => E = 0
          /\ Young(n)' \/ (t + Window <= now' => E = 0)
  <2> SUFFICES ASSUME snapshot[n] # NoSnapshot
               PROVE  /\ Online(n)' <= count[n] + L + E
                      /\ t + Window <= snapshot[n].observed => E = 0
                      /\ Young(n)' \/ (t + Window <= now' => E = 0)
    OBVIOUS
  <2>1. /\ Online(n) <= count[n] + L + E
        /\ t + Window <= snapshot[n].observed => E = 0
        /\ Young(n) \/ (t + Window <= now => E = 0)
    BY DEF Accounted
  <2>2. count[n] \in Nat
    BY Constant DEF Base, TypeOK
  <2>3. Online(n)' <= count[n] + L + E
    BY <1>0, <1>1, <2>1, <2>2
  <2>4. Young(n)' \/ (t + Window <= now' => E = 0)
    BY <2>1 DEF Young
  <2> QED BY <2>1, <2>3, <2>4
<1>5. t = 0 => E = 0
  BY DEF Accounted
<1>6. Cardinality(Settling(n)') + L + E <= Cardinality(Leases(n)')
  <2>1. Cardinality(Settling(n)) + L + E <= Cardinality(Leases(n))
    BY DEF Accounted
  <2> QED BY <1>0, <1>1, <2>1
<1>7. Cardinality(SettlingSince(n, t)') + L <= Cardinality(LeasesSince(n, t)')
  <2>1. Cardinality(SettlingSince(n, t)) + L <= Cardinality(LeasesSince(n, t))
    BY DEF Accounted
  <2> QED BY <1>0, <1>1, <2>1
<1> QED BY <1>2, <1>3, <1>4, <1>5, <1>6, <1>7 DEF Accounted

SessionsOf(n) ==
    \A t \in Nat : \E late, early \in [Nat -> Nat] : \E L, E \in Nat :
        Accounted(n, t, late, early, L, E)

LEMMA FewerSessions ==
    ASSUME Base, Base', NEW n \in Node, Fewer(n),
           snapshot'[n] = snapshot[n], count'[n] = count[n], Pending(n)' \subseteq Pending(n),
           UNCHANGED now \/ (snapshot[n] # NoSnapshot => Young(n)'),
           SessionsOf(n)
    PROVE  SessionsOf(n)'
<1> SUFFICES ASSUME NEW t \in Nat
             PROVE  \E late, early \in [Nat -> Nat] : \E L, E \in Nat :
                        Accounted(n, t, late, early, L, E)'
  BY DEF SessionsOf
<1>1. PICK late, early \in [Nat -> Nat] : \E L, E \in Nat : Accounted(n, t, late, early, L, E)
  BY DEF SessionsOf
<1>2. PICK L, E \in Nat : Accounted(n, t, late, early, L, E)
  BY <1>1
<1>3. Accounted(n, t, late, early, L, E)'
  BY <1>2, FewerAccounted
<1> QED BY <1>3

\* An approval brings its own lease.
LEMMA ApproveSessions ==
    ASSUME Base, Base', NEW i \in LoginId, Approve(i), NEW n \in Node, SessionsOf(n)
    PROVE  SessionsOf(n)'
<1> DEFINE r == [login[i] EXCEPT !.pc = "approved", !.local = 0, !.leased = TRUE]
<1>1. i \in Used /\ login[i] \in Login /\ login[i].pc = "asking" /\ ~login[i].leased
      /\ UNCHANGED <<now, snapshot, count, flight, sequence, cache, restarts>>
  BY UsedLogin DEF Approve, Used, Base
<1>2. /\ r \in Login /\ r.pc = "approved" /\ r.place = login[i].place /\ r.start = login[i].start
      /\ r.leased = TRUE
  BY <1>1 DEF Login
<1>3. login' = [login EXCEPT ![i] = r]
  BY <1>1 DEF Approve, Base, TypeOK
<1> HIDE DEF r
<1>4. login'[i] = r /\ Used' = Used \cup {i} /\ \A j \in LoginId : j # i => login'[j] = login[j]
  BY <1>2, <1>3, Rewritten DEF Base
<1>5. Pending(n)' = Pending(n)
  BY <1>1 DEF Pending
<1>6. CASE login[i].place # n
  <2>1. Fewer(n)
    BY <1>1, <1>2, <1>4, <1>6 DEF Fewer, On, Settling, Leases, At, Used, MaySettle
  <2> QED BY <1>1, <1>5, <2>1, FewerSessions
<1>7. CASE login[i].place = n
  <2>1. /\ On(n)' = On(n) /\ Settling(n)' \subseteq Settling(n) \cup {i} /\ i \notin Settling(n)
        /\ Leases(n)' = Leases(n) \cup {i} /\ i \notin Leases(n)
        /\ \A j \in LoginId : login'[j].start = login[j].start
    BY <1>1, <1>2, <1>4, <1>7 DEF On, Settling, Leases, At, Used, MaySettle
  <2> SUFFICES ASSUME NEW t \in Nat
               PROVE  \E late, early \in [Nat -> Nat] : \E L, E \in Nat :
                          Accounted(n, t, late, early, L, E)'
    BY DEF SessionsOf
  <2>2. PICK late, early \in [Nat -> Nat] : \E L, E \in Nat : Accounted(n, t, late, early, L, E)
    BY DEF SessionsOf
  <2>3. PICK L, E \in Nat : Accounted(n, t, late, early, L, E)
    BY <2>2
  <2>4. /\ Cardinality(Settling(n)) + L + E <= Cardinality(Leases(n))
        /\ Cardinality(SettlingSince(n, t)) + L <= Cardinality(LeasesSince(n, t))
    BY <2>3 DEF Accounted
  <2>5. /\ Settling(n) \in SUBSET LoginId /\ Settling(n) \cup {i} \in SUBSET LoginId
        /\ SettlingSince(n, t) \in SUBSET LoginId /\ SettlingSince(n, t) \cup {i} \in SUBSET LoginId
        /\ IsFiniteSet(Settling(n)) /\ IsFiniteSet(SettlingSince(n, t))
        /\ IsFiniteSet(Leases(n)) /\ IsFiniteSet(LeasesSince(n, t))
        /\ Cardinality(Settling(n)) \in Nat /\ Cardinality(Leases(n)) \in Nat
        /\ Cardinality(SettlingSince(n, t)) \in Nat /\ Cardinality(LeasesSince(n, t)) \in Nat
    BY NodeSets DEF Base
  <2>6. Cardinality(Settling(n)') <= Cardinality(Settling(n)) + 1
        /\ Cardinality(Settling(n)') \in Nat
    BY <2>1, <2>5, OneMore
  <2>7. Cardinality(Leases(n)') = Cardinality(Leases(n)) + 1
    BY <2>1, <2>5, FS_AddElement
  <2>8. CASE login[i].start >= t
    <3>1. /\ SettlingSince(n, t)' \subseteq SettlingSince(n, t) \cup {i}
          /\ i \notin SettlingSince(n, t)
          /\ LeasesSince(n, t)' = LeasesSince(n, t) \cup {i} /\ i \notin LeasesSince(n, t)
      <4>1. Settling(n)' \subseteq LoginId /\ Leases(n) \subseteq LoginId
        BY <2>1, NodeSets DEF Base
      <4> QED BY <2>1, <2>8, <4>1 DEF SettlingSince, LeasesSince
    <3>2. Cardinality(SettlingSince(n, t)') <= Cardinality(SettlingSince(n, t)) + 1
          /\ Cardinality(SettlingSince(n, t)') \in Nat
      BY <2>5, <3>1, OneMore
    <3>3. Cardinality(LeasesSince(n, t)') = Cardinality(LeasesSince(n, t)) + 1
      BY <2>5, <3>1, FS_AddElement
    <3>4. Cardinality(Settling(n)') + L + E <= Cardinality(Leases(n)')
      BY <2>4, <2>5, <2>6, <2>7
    <3>5. Cardinality(SettlingSince(n, t)') + L <= Cardinality(LeasesSince(n, t)')
      BY <2>4, <2>5, <3>2, <3>3
    <3>6. Online(n)' = Online(n)
      BY <2>1 DEF Online, On
    <3>7. Accounted(n, t, late, early, L, E)'
      BY <1>1, <1>5, <2>3, <3>4, <3>5, <3>6 DEF Accounted, Young
    <3> QED BY <3>7
  <2>9. CASE ~(login[i].start >= t)
    <3>1. /\ SettlingSince(n, t)' \subseteq SettlingSince(n, t)
          /\ LeasesSince(n, t)' = LeasesSince(n, t)
      <4>1. Settling(n)' \subseteq LoginId /\ Leases(n) \subseteq LoginId
        BY <2>1, NodeSets DEF Base
      <4> QED BY <2>1, <2>9, <4>1 DEF SettlingSince, LeasesSince
    <3>2. Cardinality(SettlingSince(n, t)') <= Cardinality(SettlingSince(n, t))
          /\ Cardinality(SettlingSince(n, t)') \in Nat
      BY <2>5, <3>1, Subset
    <3>4. Cardinality(Settling(n)') + L + E <= Cardinality(Leases(n)')
      BY <2>4, <2>5, <2>6, <2>7
    <3>5. Cardinality(SettlingSince(n, t)') + L <= Cardinality(LeasesSince(n, t)')
      BY <2>4, <2>5, <3>1, <3>2
    <3>6. Online(n)' = Online(n)
      BY <2>1 DEF Online, On
    <3>7. Accounted(n, t, late, early, L, E)'
      BY <1>1, <1>5, <2>3, <3>4, <3>5, <3>6 DEF Accounted, Young
    <3> QED BY <3>7
  <2> QED BY <2>8, <2>9
<1> QED BY <1>6, <1>7

LEMMA OneLess ==
    ASSUME NEW S \in SUBSET LoginId, NEW i \in S
    PROVE  /\ Cardinality(S) \in Nat /\ Cardinality(S \ {i}) \in Nat
           /\ Cardinality(S) = Cardinality(S \ {i}) + 1
<1>1. IsFiniteSet(S) /\ Cardinality(S) \in Nat /\ IsFiniteSet(S \ {i}) /\ Cardinality(S \ {i}) \in Nat
  BY Subset
<1>2. Cardinality((S \ {i}) \cup {i}) = Cardinality(S \ {i}) + 1
  BY <1>1, FS_AddElement
<1>3. (S \ {i}) \cup {i} = S
  OBVIOUS
<1>4. Cardinality((S \ {i}) \cup {i}) = Cardinality(S)
  BY <1>3, Zenon
<1> QED BY <1>1, <1>2, <1>4

\* A session that opens is one more that the snapshots do not show, and one less to come.
LEMMA ConnectSessions ==
    ASSUME Base, Base', NEW i \in LoginId, Connect(i), NEW n \in Node, SessionsOf(n)
    PROVE  SessionsOf(n)'
<1> DEFINE r == [login[i] EXCEPT !.pc = "online"]
<1>1. i \in Used /\ login[i] \in Login /\ login[i].pc = "approved" /\ MaySettle(i)
      /\ login[i].start \in Nat /\ UNCHANGED <<now, snapshot, count, flight, sequence, cache, restarts>>
  BY UsedLogin DEF Connect, Used, Base
<1>2. /\ r \in Login /\ r.pc = "online" /\ r.place = login[i].place /\ r.start = login[i].start
      /\ r.leased = login[i].leased
  BY <1>1 DEF Login
<1>3. login' = [login EXCEPT ![i] = r]
  BY <1>1 DEF Connect
<1> HIDE DEF r
<1>4. login'[i] = r /\ Used' = Used \cup {i} /\ \A j \in LoginId : j # i => login'[j] = login[j]
  BY <1>2, <1>3, Rewritten DEF Base
<1>5. Pending(n)' = Pending(n) /\ (Young(n)' <=> Young(n))
  BY <1>1 DEF Pending, Young
<1>6. Leases(n)' = Leases(n) /\ \A j \in LoginId : login'[j].start = login[j].start
  BY <1>1, <1>2, <1>4 DEF Leases, At, Used
<1>7. CASE login[i].place # n
  <2>1. Fewer(n)
    BY <1>1, <1>2, <1>4, <1>6, <1>7 DEF Fewer, On, Settling, Leases, At, Used, MaySettle
  <2> QED BY <1>1, <1>5, <2>1, FewerSessions
<1>8. CASE login[i].place = n
  <2>1. /\ On(n)' = On(n) \cup {i} /\ i \notin On(n)
        /\ Settling(n)' = Settling(n) \ {i} /\ i \in Settling(n)
    BY <1>1, <1>2, <1>4, <1>8 DEF On, Settling, At, Used, MaySettle
  <2>2. now <= login[i].start + Window
    BY <1>1, <1>8, Constant DEF MaySettle
  <2> SUFFICES ASSUME NEW t \in Nat
               PROVE  \E late, early \in [Nat -> Nat] : \E L, E \in Nat :
                          Accounted(n, t, late, early, L, E)'
    BY DEF SessionsOf
  <2>3. PICK late, early \in [Nat -> Nat] : \E L, E \in Nat : Accounted(n, t, late, early, L, E)
    BY DEF SessionsOf
  <2>4. PICK L, E \in Nat : Accounted(n, t, late, early, L, E)
    BY <2>3
  <2>5. /\ Cardinality(Settling(n)) + L + E <= Cardinality(Leases(n))
        /\ Cardinality(SettlingSince(n, t)) + L <= Cardinality(LeasesSince(n, t))
    BY <2>4 DEF Accounted
  <2>6. /\ On(n) \in SUBSET LoginId /\ Settling(n) \in SUBSET LoginId
        /\ SettlingSince(n, t) \in SUBSET LoginId
        /\ Online(n) = Cardinality(On(n)) /\ Online(n) \in Nat
        /\ Cardinality(Settling(n)) \in Nat /\ Cardinality(Leases(n)) \in Nat
        /\ Cardinality(SettlingSince(n, t)) \in Nat /\ Cardinality(LeasesSince(n, t)) \in Nat
    BY NodeSets DEF Base
  <2>7. Online(n)' = Online(n) + 1
    <3>1. Online(n)' = Cardinality(On(n)')
      BY DEF Online, On
    <3> QED BY <2>1, <2>6, <3>1, OneMore
  <2>8. Cardinality(Settling(n)) = Cardinality(Settling(n)') + 1 /\ Cardinality(Settling(n)') \in Nat
    BY <2>1, <2>6, OneLess
  <2>9. LeasesSince(n, t)' = LeasesSince(n, t)
    BY <1>6, NodeSets DEF LeasesSince, Base
  <2>10. count[n] \in Nat /\ now \in Nat
    BY Constant DEF Base, TypeOK
  <2>11. CASE login[i].start >= t
    <3>1. SettlingSince(n, t)' = SettlingSince(n, t) \ {i} /\ i \in SettlingSince(n, t)
      BY <1>6, <2>1, <2>6, <2>11 DEF SettlingSince
    <3>2. Cardinality(SettlingSince(n, t)) = Cardinality(SettlingSince(n, t)') + 1
          /\ Cardinality(SettlingSince(n, t)') \in Nat
      BY <2>6, <3>1, OneLess
    <3>3. ASSUME NEW m \in Pending(n)'
          PROVE  /\ late[m.sequence] <= L + 1 /\ early[m.sequence] <= E
                 /\ Online(n)' + late[m.sequence] + early[m.sequence] <= m.count + (L + 1) + E
                 /\ snapshot'[n] # NoSnapshot =>
                        m.count <= count'[n] + (late[m.sequence] + early[m.sequence])
                 /\ t + Window <= m.observed => E = early[m.sequence]
      <4>1. m \in Pending(n) /\ m.sequence \in Nat /\ m.count \in Nat
        BY <1>5, PendingFacts
      <4>2. late[m.sequence] \in Nat /\ early[m.sequence] \in Nat
        BY <4>1
      <4>3. late[m.sequence] <= L /\ Online(n) + late[m.sequence] + early[m.sequence] <= m.count + L + E
        BY <2>4, <4>1 DEF Accounted
      <4>4. Online(n)' + late[m.sequence] + early[m.sequence] <= m.count + (L + 1) + E
            /\ late[m.sequence] <= L + 1
        BY <2>6, <2>7, <4>1, <4>2, <4>3
      <4> QED BY <1>1, <2>4, <4>1, <4>4 DEF Accounted
    <3>4. snapshot'[n] # NoSnapshot =>
              /\ Online(n)' <= count'[n] + (L + 1) + E
              /\ t + Window <= snapshot'[n].observed => E = 0
              /\ Young(n)' \/ (t + Window <= now' => E = 0)
      <4>1. snapshot[n] # NoSnapshot => Online(n) <= count[n] + L + E
        BY <2>4 DEF Accounted
      <4>2. snapshot[n] # NoSnapshot => Online(n)' <= count[n] + (L + 1) + E
        BY <2>6, <2>7, <2>10, <4>1
      <4> QED BY <1>1, <1>5, <2>4, <4>2 DEF Accounted
    <3>5. Cardinality(Settling(n)') + (L + 1) + E <= Cardinality(Leases(n)')
      BY <1>6, <2>5, <2>6, <2>8
    <3>6. Cardinality(SettlingSince(n, t)') + (L + 1) <= Cardinality(LeasesSince(n, t)')
      BY <2>5, <2>6, <2>9, <3>2
    <3>7. Accounted(n, t, late, early, L + 1, E)'
      BY <1>5, <2>4, <3>3, <3>4, <3>5, <3>6 DEF Accounted
    <3>8. L + 1 \in Nat
      OBVIOUS
    <3> QED BY <3>7, <3>8
  <2>12. CASE ~(login[i].start >= t)
    <3>1. SettlingSince(n, t)' \subseteq SettlingSince(n, t)
      BY <1>6, <2>1, <2>6, <2>12 DEF SettlingSince
    <3>2. Cardinality(SettlingSince(n, t)') <= Cardinality(SettlingSince(n, t))
          /\ Cardinality(SettlingSince(n, t)') \in Nat
      BY <2>6, <3>1, Subset
    <3>3. t # 0 /\ ~(t + Window <= now)
      BY <1>1, <2>2, <2>10, <2>12, Constant
    <3>4. ASSUME NEW m \in Pending(n)'
          PROVE  /\ late[m.sequence] <= L /\ early[m.sequence] <= E + 1
                 /\ Online(n)' + late[m.sequence] + early[m.sequence] <= m.count + L + (E + 1)
                 /\ snapshot'[n] # NoSnapshot =>
                        m.count <= count'[n] + (late[m.sequence] + early[m.sequence])
                 /\ t + Window <= m.observed => E + 1 = early[m.sequence]
      <4>1. m \in Pending(n) /\ m.sequence \in Nat /\ m.count \in Nat /\ m.observed \in Nat
            /\ m.observed <= now
        BY <1>5, PendingFacts
      <4>2. late[m.sequence] \in Nat /\ early[m.sequence] \in Nat
        BY <4>1
      <4>3. early[m.sequence] <= E /\ Online(n) + late[m.sequence] + early[m.sequence] <= m.count + L + E
        BY <2>4, <4>1 DEF Accounted
      <4>4. Online(n)' + late[m.sequence] + early[m.sequence] <= m.count + L + (E + 1)
            /\ early[m.sequence] <= E + 1
        BY <2>6, <2>7, <4>1, <4>2, <4>3
      <4>5. ~(t + Window <= m.observed)
        BY <2>10, <3>3, <4>1, Constant
      <4> QED BY <1>1, <2>4, <4>1, <4>4, <4>5 DEF Accounted
    <3>5. snapshot'[n] # NoSnapshot =>
              /\ Online(n)' <= count'[n] + L + (E + 1)
              /\ t + Window <= snapshot'[n].observed => E + 1 = 0
              /\ Young(n)' \/ (t + Window <= now' => E + 1 = 0)
      <4>1. snapshot[n] # NoSnapshot => Online(n) <= count[n] + L + E
        BY <2>4 DEF Accounted
      <4>2. snapshot[n] # NoSnapshot => Online(n)' <= count[n] + L + (E + 1)
        BY <2>6, <2>7, <2>10, <4>1
      <4>3. ASSUME snapshot[n] # NoSnapshot PROVE ~(t + Window <= snapshot[n].observed)
        <5>1. snapshot[n].observed \in Nat /\ snapshot[n].observed <= now
          BY <4>3, SomeSnapshot DEF Base
        <5> QED BY <2>10, <3>3, <5>1, Constant
      <4> QED BY <1>1, <3>3, <4>2, <4>3
    <3>6. Cardinality(Settling(n)') + L + (E + 1) <= Cardinality(Leases(n)')
      BY <1>6, <2>5, <2>6, <2>8
    <3>7. Cardinality(SettlingSince(n, t)') + L <= Cardinality(LeasesSince(n, t)')
      BY <2>5, <2>6, <2>9, <3>2
    <3>8. Accounted(n, t, late, early, L, E + 1)'
      <4>1. \A m, k \in Pending(n)' : m.sequence <= k.sequence =>
               /\ late[m.sequence] <= late[k.sequence] /\ early[m.sequence] <= early[k.sequence]
               /\ k.count + late[m.sequence] + early[m.sequence]
                     <= m.count + late[k.sequence] + early[k.sequence]
        BY <1>5, <2>4 DEF Accounted
      <4> QED BY <3>3, <3>4, <3>5, <3>6, <3>7, <4>1 DEF Accounted
    <3>9. E + 1 \in Nat
      OBVIOUS
    <3> QED BY <3>8, <3>9
  <2> QED BY <2>11, <2>12
<1> QED BY <1>7, <1>8

\* A new snapshot shows every session opened so far.
LEMMA SendSessions ==
    ASSUME Base, Base', NEW p \in Node, Send(p), NEW n \in Node, SessionsOf(n)
    PROVE  SessionsOf(n)'
<1> DEFINE s == [node |-> p, sequence |-> sequence[p] + 1, count |-> Online(p), observed |-> now]
<1>1. sequence \in [Node -> 0..MaxSends] /\ sequence[p] \in Nat /\ now \in Nat /\ count[n] \in Nat
  BY Constant DEF Base, TypeOK
<1>2. flight' = flight \cup {s} /\ UNCHANGED <<now, login, snapshot, count, cache, restarts>>
  BY <1>1 DEF Send
<1>3. s.node = p /\ s.sequence = sequence[p] + 1 /\ s.count = Online(p) /\ s.observed = now
  OBVIOUS
<1> HIDE DEF s
<1>4. Fewer(n) /\ Online(n)' = Online(n) /\ (Young(n)' <=> Young(n))
  BY <1>2 DEF Fewer, On, Settling, Leases, At, Used, MaySettle, Online, Young
<1>5. CASE p # n
  <2>1. Pending(n)' \subseteq Pending(n)
    BY <1>2, <1>3, <1>5 DEF Pending
  <2> QED BY <1>2, <1>4, <2>1, FewerSessions
<1>6. CASE p = n
  <2>1. \A m \in Pending(n)' : m \in Pending(n) \/ m = s
    BY <1>2 DEF Pending
  <2>2. Settling(n)' = Settling(n) /\ Leases(n)' = Leases(n)
    BY <1>2 DEF Settling, Leases, At, Used, MaySettle
  <2> SUFFICES ASSUME NEW t \in Nat
               PROVE  \E late, early \in [Nat -> Nat] : \E L, E \in Nat :
                          Accounted(n, t, late, early, L, E)'
    BY DEF SessionsOf
  <2>3. PICK late, early \in [Nat -> Nat] : \E L, E \in Nat : Accounted(n, t, late, early, L, E)
    BY DEF SessionsOf
  <2>4. PICK L, E \in Nat : Accounted(n, t, late, early, L, E)
    BY <2>3
  <2>5. s.sequence \in Nat /\ Online(n) \in Nat
    BY <1>1, <1>3, OnlineNat DEF Base
  <2>e. PICK last \in Nat : last = s.sequence
    BY <2>5
  <2> DEFINE lateNow == [late EXCEPT ![last] = L]
             earlyNow == [early EXCEPT ![last] = E]
  <2>f. /\ lateNow \in [Nat -> Nat] /\ earlyNow \in [Nat -> Nat]
        /\ lateNow[last] = L /\ earlyNow[last] = E
        /\ \A q \in Nat : q # last => lateNow[q] = late[q] /\ earlyNow[q] = early[q]
    OBVIOUS
  <2> HIDE DEF lateNow, earlyNow
  <2>6. /\ lateNow \in [Nat -> Nat] /\ earlyNow \in [Nat -> Nat]
        /\ lateNow[s.sequence] = L /\ earlyNow[s.sequence] = E
        /\ \A q \in Nat : q # s.sequence => lateNow[q] = late[q] /\ earlyNow[q] = early[q]
    BY <2>e, <2>f
  <2>7. ASSUME NEW m \in Pending(n)
        PROVE  /\ m.sequence \in Nat /\ m.count \in Nat /\ m.sequence < s.sequence
               /\ lateNow[m.sequence] = late[m.sequence] /\ earlyNow[m.sequence] = early[m.sequence]
               /\ late[m.sequence] <= L /\ early[m.sequence] <= E
               /\ Online(n) + late[m.sequence] + early[m.sequence] <= m.count + L + E
               /\ snapshot[n] # NoSnapshot => m.count <= count[n] + (late[m.sequence] + early[m.sequence])
               /\ t + Window <= m.observed => E = early[m.sequence]
    <3>1. m.sequence \in Nat /\ m.count \in Nat /\ m.sequence <= sequence[n]
      BY PendingFacts
    <3>2. m.sequence < s.sequence
      BY <1>1, <1>3, <1>6, <3>1
    <3>3. lateNow[m.sequence] = late[m.sequence] /\ earlyNow[m.sequence] = early[m.sequence]
      BY <2>5, <2>6, <3>1, <3>2
    <3> QED BY <2>4, <3>1, <3>2, <3>3 DEF Accounted
  <2>8. snapshot[n] # NoSnapshot => Online(n) <= count[n] + (L + E)
    <3>1. snapshot[n] # NoSnapshot => Online(n) <= count[n] + L + E
      BY <2>4 DEF Accounted
    <3> QED BY <1>1, <2>5, <3>1
  <2>9. ASSUME NEW m \in Pending(n)'
        PROVE  /\ lateNow[m.sequence] <= L /\ earlyNow[m.sequence] <= E
               /\ Online(n)' + lateNow[m.sequence] + earlyNow[m.sequence] <= m.count + L + E
               /\ snapshot'[n] # NoSnapshot =>
                      m.count <= count'[n] + (lateNow[m.sequence] + earlyNow[m.sequence])
               /\ t + Window <= m.observed => E = earlyNow[m.sequence]
    <3>1. CASE m \in Pending(n)
      BY <1>2, <1>4, <2>7, <3>1
    <3>2. CASE m = s
      BY <1>2, <1>3, <1>4, <1>6, <2>5, <2>6, <2>8, <3>2
    <3> QED BY <2>1, <3>1, <3>2
  <2>10. ASSUME NEW m \in Pending(n)', NEW k \in Pending(n)', m.sequence <= k.sequence
         PROVE  /\ lateNow[m.sequence] <= lateNow[k.sequence]
                /\ earlyNow[m.sequence] <= earlyNow[k.sequence]
                /\ k.count + lateNow[m.sequence] + earlyNow[m.sequence]
                      <= m.count + lateNow[k.sequence] + earlyNow[k.sequence]
    <3>1. CASE m \in Pending(n) /\ k \in Pending(n)
      <4>1. /\ late[m.sequence] <= late[k.sequence] /\ early[m.sequence] <= early[k.sequence]
            /\ k.count + late[m.sequence] + early[m.sequence]
                  <= m.count + late[k.sequence] + early[k.sequence]
        BY <2>4, <2>10, <3>1 DEF Accounted
      <4> QED BY <2>7, <3>1, <4>1
    <3>2. CASE m \in Pending(n) /\ k = s
      BY <1>3, <1>6, <2>6, <2>7, <3>2
    <3>3. CASE m = s /\ k \in Pending(n)
      BY <2>5, <2>7, <2>10, <3>3
    <3>4. CASE m = s /\ k = s
      BY <1>3, <1>6, <2>5, <2>6, <3>4
    <3> QED BY <2>1, <3>1, <3>2, <3>3, <3>4
  <2>11. snapshot'[n] # NoSnapshot =>
            /\ Online(n)' <= count'[n] + L + E
            /\ t + Window <= snapshot'[n].observed => E = 0
            /\ Young(n)' \/ (t + Window <= now' => E = 0)
    BY <1>2, <1>4, <2>4 DEF Accounted
  <2>12. /\ t = 0 => E = 0
         /\ Cardinality(Settling(n)') + L + E <= Cardinality(Leases(n)')
         /\ Cardinality(SettlingSince(n, t)') + L <= Cardinality(LeasesSince(n, t)')
    <3>1. SettlingSince(n, t)' = SettlingSince(n, t) /\ LeasesSince(n, t)' = LeasesSince(n, t)
      BY <1>2 DEF SettlingSince, LeasesSince, Settling, Leases, At, Used, MaySettle
    <3> QED BY <1>4, <2>2, <2>4, <3>1 DEF Accounted
  <2>13. Accounted(n, t, lateNow, earlyNow, L, E)'
    BY <2>9, <2>10, <2>11, <2>12 DEF Accounted
  <2> QED BY <2>f, <2>13
<1> QED BY <1>5, <1>6

LEMMA Without ==
    ASSUME NEW T \in SUBSET LoginId, NEW S \in SUBSET T
    PROVE  /\ Cardinality(T \ S) \in Nat /\ Cardinality(S) \in Nat /\ Cardinality(T) \in Nat
           /\ Cardinality(T) = Cardinality(T \ S) + Cardinality(S)
<1>1. /\ IsFiniteSet(S) /\ IsFiniteSet(T) /\ Cardinality(S) \in Nat /\ Cardinality(T) \in Nat
      /\ Cardinality(T \ S) \in Nat
  BY Subset
<1>2. Cardinality(T \ S) = Cardinality(T) - Cardinality(T \cap S)
  BY <1>1, FS_Difference
<1>3. T \cap S = S
  OBVIOUS
<1>4. Cardinality(T \cap S) = Cardinality(S)
  BY <1>3, Zenon
<1> QED BY <1>1, <1>2, <1>4

\* A snapshot that is accepted becomes the one the panel holds; its growth takes no more
\* leases than sessions it shows for the first time, and never a late one before an early one.
LEMMA AcceptSessions ==
    ASSUME Base, Base', NEW m \in flight, Accept(m), NEW n \in Node, SessionsOf(n)
    PROVE  SessionsOf(n)'
<1>1. PICK seen \in SUBSET Leases(m.node) :
        /\ login' = [i \in LoginId |-> IF i \in seen THEN Kept([login[i] EXCEPT !.leased = FALSE])
                                       ELSE login[i]]
        /\ Cardinality(seen) <= Increase(m)
        /\ \A i \in seen, j \in Leases(m.node) \ seen : login[i].start <= login[j].start
  BY AcceptSeen
<1>2. /\ \A p : On(p)' = On(p) /\ Settling(p)' = Settling(p) /\ Leases(p)' = Leases(p) \ seen
      /\ \A j \in Used' : j \in Used /\ login'[j].start = login[j].start
  BY <1>1, AcceptLogins
<1>3. /\ m.node \in Node /\ m.sequence \in Nat /\ m.count \in Nat /\ m.observed \in Nat
      /\ now \in Nat /\ m.observed <= now
  BY InFlight, Constant DEF Base, TypeOK
<1>4. /\ flight' = flight \ {m} /\ UNCHANGED now
      /\ snapshot[m.node] # NoSnapshot => snapshot[m.node].sequence < m.sequence
  BY DEF Accept, Accepts
<1>5. /\ snapshot'[m.node] = [sequence |-> m.sequence, observed |-> m.observed, accepted |-> now]
      /\ count'[m.node] = m.count
      /\ \A p \in Node : p # m.node => snapshot'[p] = snapshot[p] /\ count'[p] = count[p]
  BY <1>3 DEF Accept, Base, TypeOK
<1>6. CASE m.node # n
  <2>1. Leases(n) \ seen = Leases(n)
    BY <1>6 DEF Leases, At
  <2>2. Fewer(n)
    <3>1. \A i \in Settling(n)' \cup Leases(n)' : i \in Used'
      BY DEF Settling, Leases, At
    <3> QED BY <1>2, <2>1, <3>1 DEF Fewer
  <2>3. Pending(n)' \subseteq Pending(n)
    BY <1>4, <1>5, <1>6 DEF Pending
  <2> QED BY <1>4, <1>5, <1>6, <2>2, <2>3, FewerSessions
<1>7. CASE m.node = n
  <2> SUFFICES ASSUME NEW t \in Nat
               PROVE  \E late, early \in [Nat -> Nat] : \E L, E \in Nat :
                          Accounted(n, t, late, early, L, E)'
    BY DEF SessionsOf
  <2>1. PICK late, early \in [Nat -> Nat] : \E L, E \in Nat : Accounted(n, t, late, early, L, E)
    BY DEF SessionsOf
  <2>2. PICK L, E \in Nat : Accounted(n, t, late, early, L, E)
    BY <2>1
  <2> DEFINE l == late[m.sequence]
             e == early[m.sequence]
             lateNow == [q \in Nat |-> IF late[q] >= l THEN late[q] - l ELSE 0]
             earlyNow == [q \in Nat |-> IF early[q] >= e THEN early[q] - e ELSE 0]
  <2>3. m \in Pending(n)
    BY <1>4, <1>7 DEF Pending
  <2>4. /\ l \in Nat /\ e \in Nat /\ l <= L /\ e <= E
        /\ Online(n) + l + e <= m.count + L + E
        /\ snapshot[n] # NoSnapshot => m.count <= count[n] + (l + e)
        /\ t + Window <= m.observed => E = e
    BY <1>3, <2>2, <2>3 DEF Accounted
  <2>5. /\ lateNow \in [Nat -> Nat] /\ earlyNow \in [Nat -> Nat]
        /\ \A q \in Nat : late[q] >= l => lateNow[q] = late[q] - l
        /\ \A q \in Nat : early[q] >= e => earlyNow[q] = early[q] - e
    BY <2>4
  <2> HIDE DEF l, e, lateNow, earlyNow
  <2>6. /\ snapshot'[n] # NoSnapshot /\ snapshot'[n].observed = m.observed
        /\ snapshot'[n].sequence = m.sequence
    BY <1>5, <1>7 DEF NoSnapshot
  <2>7. ASSUME NEW k \in Pending(n)'
        PROVE  k \in Pending(n) /\ k \in flight /\ k.sequence \in Nat /\ k.count \in Nat
               /\ m.sequence < k.sequence
    <3>1. k \in flight /\ k.node = n /\ m.sequence < k.sequence
      BY <1>4, <2>6 DEF Pending
    <3>2. k.sequence \in Nat /\ k.count \in Nat
      BY <3>1, InFlight DEF Base
    <3>3. snapshot[n] # NoSnapshot => snapshot[n].sequence < k.sequence
      <4> SUFFICES ASSUME snapshot[n] # NoSnapshot PROVE snapshot[n].sequence < k.sequence
        OBVIOUS
      <4>1. snapshot[n].sequence \in Nat /\ snapshot[n].sequence < m.sequence
        BY <1>4, <1>7, SomeSnapshot DEF Base
      <4> QED BY <1>3, <3>1, <3>2, <4>1
    <3> QED BY <3>1, <3>2, <3>3 DEF Pending
  <2>8. ASSUME NEW k \in Pending(n)'
        PROVE  /\ late[k.sequence] \in Nat /\ early[k.sequence] \in Nat
               /\ late[k.sequence] = lateNow[k.sequence] + l /\ lateNow[k.sequence] \in Nat
               /\ early[k.sequence] = earlyNow[k.sequence] + e /\ earlyNow[k.sequence] \in Nat
               /\ k.count + (l + e) <= m.count + (late[k.sequence] + early[k.sequence])
    <3>1. k \in Pending(n) /\ k.sequence \in Nat /\ k.count \in Nat /\ m.sequence <= k.sequence
      BY <1>3, <2>7
    <3>2. late[k.sequence] \in Nat /\ early[k.sequence] \in Nat
      BY <3>1
    <3>3. /\ l <= late[k.sequence] /\ e <= early[k.sequence]
          /\ k.count + l + e <= m.count + late[k.sequence] + early[k.sequence]
      BY <2>2, <2>3, <3>1 DEF Accounted, l, e
    <3>4. lateNow[k.sequence] = late[k.sequence] - l /\ earlyNow[k.sequence] = early[k.sequence] - e
      BY <2>4, <2>5, <3>1, <3>2, <3>3
    <3> QED BY <1>3, <2>4, <3>1, <3>2, <3>3, <3>4
  <2>9. Online(n) \in Nat /\ Online(n)' = Online(n)
    BY <1>2, OnlineNat DEF Base, Online, On
  <2>10. /\ L - l \in Nat /\ E - e \in Nat /\ L = (L - l) + l /\ E = (E - e) + e
    BY <2>4
  <2>11. ASSUME NEW k \in Pending(n)'
         PROVE  /\ lateNow[k.sequence] <= L - l /\ earlyNow[k.sequence] <= E - e
                /\ Online(n)' + lateNow[k.sequence] + earlyNow[k.sequence] <= k.count + (L - l) + (E - e)
                /\ snapshot'[n] # NoSnapshot =>
                       k.count <= count'[n] + (lateNow[k.sequence] + earlyNow[k.sequence])
                /\ t + Window <= k.observed => E - e = earlyNow[k.sequence]
    <3>1. k \in Pending(n) /\ k.sequence \in Nat /\ k.count \in Nat
      BY <2>7
    <3>2. /\ late[k.sequence] <= L /\ early[k.sequence] <= E
          /\ Online(n) + late[k.sequence] + early[k.sequence] <= k.count + L + E
          /\ t + Window <= k.observed => E = early[k.sequence]
      BY <2>2, <3>1 DEF Accounted
    <3>3. lateNow[k.sequence] <= L - l /\ earlyNow[k.sequence] <= E - e
      BY <2>4, <2>8, <3>2
    <3>4. Online(n)' + lateNow[k.sequence] + earlyNow[k.sequence] <= k.count + (L - l) + (E - e)
      BY <2>4, <2>8, <2>9, <3>1, <3>2
    <3>5. k.count <= count'[n] + (lateNow[k.sequence] + earlyNow[k.sequence])
      BY <1>3, <1>5, <1>7, <2>4, <2>8, <3>1
    <3>6. t + Window <= k.observed => E - e = earlyNow[k.sequence]
      BY <2>4, <2>8, <3>2
    <3> QED BY <3>3, <3>4, <3>5, <3>6
  <2>12. ASSUME NEW j \in Pending(n)', NEW k \in Pending(n)', j.sequence <= k.sequence
         PROVE  /\ lateNow[j.sequence] <= lateNow[k.sequence]
                /\ earlyNow[j.sequence] <= earlyNow[k.sequence]
                /\ k.count + lateNow[j.sequence] + earlyNow[j.sequence]
                      <= j.count + lateNow[k.sequence] + earlyNow[k.sequence]
    <3>1. /\ late[j.sequence] <= late[k.sequence] /\ early[j.sequence] <= early[k.sequence]
          /\ k.count + late[j.sequence] + early[j.sequence]
                <= j.count + late[k.sequence] + early[k.sequence]
      BY <2>2, <2>7, <2>12 DEF Accounted
    <3>2. j.count \in Nat /\ k.count \in Nat
      BY <2>7
    <3> QED BY <2>4, <2>8, <3>1, <3>2
  <2>13. snapshot[n] = NoSnapshot => L = 0 /\ E = 0 /\ Leases(n) = {} /\ Cardinality(Settling(n)) = 0
    <3> SUFFICES ASSUME snapshot[n] = NoSnapshot
                 PROVE  L = 0 /\ E = 0 /\ Leases(n) = {} /\ Cardinality(Settling(n)) = 0
      OBVIOUS
    <3>1. Leases(n) = {}
      BY DEF Base
    <3>2. Cardinality(Leases(n)) = 0
      BY <3>1, FS_EmptySet
    <3>3. Cardinality(Settling(n)) + L + E <= Cardinality(Leases(n)) /\ Cardinality(Settling(n)) \in Nat
      BY <2>2, NodeSets DEF Accounted, Base
    <3> QED BY <3>1, <3>2, <3>3
  <2>14. Online(n)' <= count'[n] + (L - l) + (E - e)
    BY <1>3, <1>5, <1>7, <2>4, <2>9
  <2>15. t + Window <= m.observed => E - e = 0
    BY <2>4
  <2>16. Young(n)' \/ (t + Window <= now' => E - e = 0)
    <3>1. CASE snapshot[n] = NoSnapshot
      BY <2>4, <2>13, <3>1
    <3>2. CASE snapshot[n] # NoSnapshot
      <4>1. snapshot[n].observed \in Nat /\ snapshot[n].observed <= m.observed
        BY <1>4, <1>7, <3>2, SomeSnapshot DEF Base
      <4>2. Young(n) => Young(n)'
        BY <1>3, <1>4, <2>6, <4>1, Constant DEF Young
      <4>3. Young(n) \/ (t + Window <= now => E = 0)
        BY <2>2, <3>2 DEF Accounted
      <4> QED BY <1>4, <2>4, <4>2, <4>3
    <3> QED BY <3>1, <3>2
  <2>17. t = 0 => E - e = 0
    BY <2>2, <2>4 DEF Accounted
  <2>18. /\ Settling(n) \in SUBSET LoginId /\ Leases(n) \in SUBSET LoginId
         /\ SettlingSince(n, t) \in SUBSET Settling(n) /\ LeasesSince(n, t) \in SUBSET LoginId
         /\ Cardinality(Settling(n)) \in Nat /\ Cardinality(Leases(n)) \in Nat
         /\ Cardinality(SettlingSince(n, t)) \in Nat /\ Cardinality(LeasesSince(n, t)) \in Nat
    BY NodeSets DEF Base
  <2>19. /\ Cardinality(Leases(n) \ seen) \in Nat /\ Cardinality(seen) \in Nat
         /\ Cardinality(Leases(n)) = Cardinality(Leases(n) \ seen) + Cardinality(seen)
    BY <1>7, <2>18, Without
  <2>20. Cardinality(seen) <= l + e
    <3>1. CASE snapshot[n] = NoSnapshot
      <4>1. Cardinality(Leases(n)) = 0
        BY <2>13, <3>1, FS_EmptySet
      <4> QED BY <2>4, <2>19, <4>1
    <3>2. CASE snapshot[n] # NoSnapshot
      <4>1. Increase(m) \in Nat /\ \A d \in Nat : m.count <= count[m.node] + d => Increase(m) <= d
        BY IncreaseNat DEF Base
      <4>2. l + e \in Nat /\ m.count <= count[m.node] + (l + e)
        BY <1>7, <2>4, <3>2
      <4>3. Increase(m) <= l + e
        BY <4>1, <4>2
      <4> QED BY <1>1, <2>19, <4>1, <4>2, <4>3
    <3> QED BY <3>1, <3>2
  <2>21. Cardinality(Settling(n)) + (L - l) + (E - e) <= Cardinality(Leases(n) \ seen)
    <3>1. Cardinality(Settling(n)) + L + E <= Cardinality(Leases(n))
      BY <2>2 DEF Accounted
    <3> QED BY <2>4, <2>18, <2>19, <2>20, <3>1
  <2>22. Cardinality(Settling(n)') + (L - l) + (E - e) <= Cardinality(Leases(n)')
    BY <1>2, <2>21
  <2>23. SettlingSince(n, t)' = SettlingSince(n, t) /\ LeasesSince(n, t)' = LeasesSince(n, t) \ seen
    <3>1. \A i \in Settling(n)' \cup Leases(n)' : login'[i].start = login[i].start
      BY <1>2 DEF Settling, Leases, At
    <3>2. SettlingSince(n, t)' = SettlingSince(n, t)
      BY <1>2, <3>1 DEF SettlingSince
    <3>3. LeasesSince(n, t)' = LeasesSince(n, t) \ seen
      BY <1>2, <3>1 DEF LeasesSince
    <3> QED BY <3>2, <3>3
  <2>24. Cardinality(SettlingSince(n, t)) + (L - l) <= Cardinality(LeasesSince(n, t) \ seen)
    <3>1. CASE \E j \in Leases(n) \ seen : ~(login[j].start >= t)
      <4>1. PICK j \in Leases(n) \ seen : ~(login[j].start >= t)
        BY <3>1
      <4>2. LeasesSince(n, t) \ seen = LeasesSince(n, t)
        <5> SUFFICES ASSUME NEW i \in LeasesSince(n, t) PROVE i \notin seen
          OBVIOUS
        <5>1. i \in Used /\ j \in Used /\ login[i].start >= t
          BY DEF LeasesSince, Leases, At
        <5>2. login[i].start \in Nat /\ login[j].start \in Nat
          BY <5>1, UsedLogin DEF Base
        <5>3. ~(login[i].start <= login[j].start)
          BY <4>1, <5>1, <5>2
        <5> QED BY <1>1, <1>7, <5>3
      <4>3. Cardinality(SettlingSince(n, t)) + L <= Cardinality(LeasesSince(n, t))
        BY <2>2 DEF Accounted
      <4>4. Cardinality(LeasesSince(n, t) \ seen) = Cardinality(LeasesSince(n, t))
        BY <4>2, Zenon
      <4> QED BY <2>4, <2>18, <4>3, <4>4
    <3>2. CASE ~\E j \in Leases(n) \ seen : ~(login[j].start >= t)
      <4>1. LeasesSince(n, t) \ seen = Leases(n) \ seen
        BY <3>2 DEF LeasesSince
      <4>2. Cardinality(SettlingSince(n, t)) <= Cardinality(Settling(n))
        BY <2>18, Subset
      <4>3. Cardinality(LeasesSince(n, t) \ seen) = Cardinality(Leases(n) \ seen)
        BY <4>1, Zenon
      <4> QED BY <2>10, <2>18, <2>19, <2>21, <4>2, <4>3
    <3> QED BY <3>1, <3>2
  <2>25. Cardinality(SettlingSince(n, t)') + (L - l) <= Cardinality(LeasesSince(n, t)')
    BY <2>23, <2>24
  <2>26. Accounted(n, t, lateNow, earlyNow, L - l, E - e)'
    BY <2>6, <2>11, <2>12, <2>14, <2>15, <2>16, <2>17, <2>22, <2>25 DEF Accounted
  <2> QED BY <2>5, <2>10, <2>26
<1> QED BY <1>6, <1>7

LEMMA RestartSessions ==
    ASSUME Base, Base', RestartsOutlastLogins, Restart, NEW n \in Node
    PROVE  SessionsOf(n)'
<1>1. ~Straddle /\ Window < Outage
  <2>1. restarts < MaxRestarts /\ restarts \in Nat
    BY Constant DEF Restart, Base, TypeOK
  <2> QED BY <2>1, Constant DEF RestartsOutlastLogins
<1>2. /\ Pending(n)' = {} /\ snapshot'[n] = NoSnapshot /\ Leases(n)' = {}
  BY <1>1, RestartLogins DEF Restart, Pending
<1>3. Settling(n)' = {}
  <2> SUFFICES ASSUME NEW i \in Settling(n)' PROVE FALSE
    OBVIOUS
  <2>1. i \in Used' /\ login'[i].place = n /\ MaySettle(i)'
    BY DEF Settling, At
  <2>2. i \in Used /\ login'[i].start = login[i].start /\ login[i].start <= now /\ login[i].start \in Nat
    BY <2>1, RestartLogins, UsedLogin DEF Base
  <2>3. now' <= login[i].start + Window
    BY <2>1, <2>2, Constant DEF MaySettle
  <2>4. now' = now + Outage /\ now \in Nat
    BY Constant DEF Restart, Base, TypeOK
  <2> QED BY <1>1, <2>2, <2>3, <2>4, Constant
<1> SUFFICES ASSUME NEW t \in Nat
             PROVE  \E late, early \in [Nat -> Nat] : \E L, E \in Nat :
                        Accounted(n, t, late, early, L, E)'
  BY DEF SessionsOf
<1> DEFINE zero == [q \in Nat |-> 0]
<1>4. zero \in [Nat -> Nat]
  OBVIOUS
<1> HIDE DEF zero
<1>5. SettlingSince(n, t)' = {} /\ LeasesSince(n, t)' = {}
  BY <1>2, <1>3 DEF SettlingSince, LeasesSince
<1>6. /\ Cardinality(Settling(n)') = 0 /\ Cardinality(Leases(n)') = 0
      /\ Cardinality(SettlingSince(n, t)') = 0 /\ Cardinality(LeasesSince(n, t)') = 0
  BY <1>2, <1>3, <1>5, FS_EmptySet
<1>7. Accounted(n, t, zero, zero, 0, 0)'
  BY <1>2, <1>6 DEF Accounted
<1> QED BY <1>4, <1>7

LEMMA InitSessions == ASSUME Init PROVE Sessions
<1> SUFFICES ASSUME NEW n \in Node, NEW t \in Nat
             PROVE  \E late, early \in [Nat -> Nat] : \E L, E \in Nat :
                        Accounted(n, t, late, early, L, E)
  BY DEF Sessions
<1>1. Used = {}
  BY DEF Init, Used
<1>2. /\ Pending(n) = {} /\ snapshot[n] = NoSnapshot /\ Leases(n) = {} /\ Settling(n) = {}
      /\ SettlingSince(n, t) = {} /\ LeasesSince(n, t) = {}
  BY <1>1 DEF Init, Pending, Leases, Settling, SettlingSince, LeasesSince, At
<1> DEFINE zero == [q \in Nat |-> 0]
<1>3. zero \in [Nat -> Nat]
  OBVIOUS
<1> HIDE DEF zero
<1>4. /\ Cardinality(Settling(n)) = 0 /\ Cardinality(Leases(n)) = 0
      /\ Cardinality(SettlingSince(n, t)) = 0 /\ Cardinality(LeasesSince(n, t)) = 0
  BY <1>2, FS_EmptySet
<1>5. Accounted(n, t, zero, zero, 0, 0)
  BY <1>2, <1>4 DEF Accounted
<1> QED BY <1>3, <1>5

LEMMA TickSessions ==
    ASSUME Base, Base', Tick, NEW n \in Node, SessionsOf(n)
    PROVE  SessionsOf(n)'
<1>1. Fewer(n)
  <2>1. \A i \in Settling(n)' \cup Leases(n)' : i \in Used'
    BY DEF Settling, Leases, At
  <2> QED BY <2>1, TickLogins DEF Fewer
<1>2. snapshot'[n] = snapshot[n] /\ count'[n] = count[n] /\ Pending(n)' \subseteq Pending(n)
  BY DEF Tick, Pending
<1>3. ASSUME snapshot[n] # NoSnapshot PROVE Young(n)'
  <2>1. snapshot[n].observed \in Nat /\ now \in Nat /\ now' = now + 1
        /\ now < snapshot[n].observed + Gap
    BY <1>3, SomeSnapshot, Constant DEF Base, TypeOK, Tick
  <2> QED BY <1>2, <2>1, Constant DEF Young
<1> QED BY <1>1, <1>2, <1>3, FewerSessions

\* No other step changes what a node's snapshots have to show.
LEMMA OtherSessions ==
    ASSUME Base, Base', NEW n \in Node, SessionsOf(n),
           \/ \E p \in Node : Ask(p)
           \/ \E i \in LoginId : Deny(i) \/ Leave(i)
           \/ \E reuse \in BOOLEAN : LocalLogin(reuse)
           \/ LocalDenied
           \/ UNCHANGED vars
    PROVE  SessionsOf(n)'
<1>1. CASE \E p \in Node : Ask(p)
  <2>1. PICK p \in Node : Ask(p)
    BY <1>1
  <2>2. PICK i \in LoginId \ Used :
          login' = [login EXCEPT ![i] = [pc |-> "asking", place |-> p, start |-> now,
                                         local |-> Online(Panel), leased |-> FALSE]]
    BY <2>1 DEF Ask
  <2>3. /\ login \in [LoginId -> Login \cup {Free}]
        /\ login'[i] = [pc |-> "asking", place |-> p, start |-> now, local |-> Online(Panel), leased |-> FALSE]
        /\ \A j \in LoginId : j # i => login'[j] = login[j]
    BY <2>2 DEF Base, TypeOK
  <2>4. login'[i].pc = "asking" /\ login'[i].leased = FALSE
    BY <2>3
  <2>5. UNCHANGED <<now, snapshot, count, flight>>
    BY <2>1 DEF Ask
  <2>6. Fewer(n)
    BY <2>2, <2>3, <2>4, <2>5 DEF Fewer, On, Settling, Leases, At, Used, MaySettle
  <2> QED BY <2>5, <2>6, FewerSessions DEF Pending
<1>2. CASE \E i \in LoginId : Deny(i)
  <2>1. PICK i \in LoginId : Deny(i)
    BY <1>2
  <2>2. /\ Used' = Used \ {i} /\ \A j \in LoginId : j # i => login'[j] = login[j]
    BY <2>1, Freed DEF Deny, Base
  <2>3. UNCHANGED <<now, snapshot, count, flight>> /\ login[i].pc = "asking" /\ ~login[i].leased
    BY <2>1 DEF Deny, Base, Used
  <2>4. Fewer(n)
    BY <2>2, <2>3 DEF Fewer, On, Settling, Leases, At, Used, MaySettle
  <2> QED BY <2>3, <2>4, FewerSessions DEF Pending
<1>3. CASE \E i \in LoginId : Leave(i)
  <2>1. PICK i \in LoginId : Leave(i)
    BY <1>3
  <2>2. /\ On(n)' \subseteq On(n) /\ Settling(n)' \subseteq Settling(n) /\ Leases(n)' = Leases(n)
        /\ \A j \in Used' : j \in Used /\ login'[j].start = login[j].start
    BY <2>1, LeaveLogins
  <2>3. \A j \in Settling(n)' \cup Leases(n)' : j \in Used'
    BY DEF Settling, Leases, At
  <2>4. Fewer(n)
    BY <2>2, <2>3 DEF Fewer
  <2>5. UNCHANGED <<now, snapshot, count, flight>>
    BY <2>1 DEF Leave
  <2> QED BY <2>4, <2>5, FewerSessions DEF Pending
<1>4. CASE \E reuse \in BOOLEAN : LocalLogin(reuse)
  <2>1. PICK reuse \in BOOLEAN : LocalLogin(reuse)
    BY <1>4
  <2>2. PICK i \in LoginId \ Used :
          login' = [login EXCEPT ![i] = [pc |-> "approved", place |-> Panel, start |-> now,
                                         local |-> 0, leased |-> TRUE]]
    BY <2>1 DEF LocalLogin
  <2>3. /\ login \in [LoginId -> Login \cup {Free}]
        /\ login'[i] = [pc |-> "approved", place |-> Panel, start |-> now, local |-> 0, leased |-> TRUE]
        /\ \A j \in LoginId : j # i => login'[j] = login[j]
    BY <2>2 DEF Base, TypeOK
  <2>4. login'[i].place # n
    BY <2>3, Constant
  <2>5. UNCHANGED <<now, snapshot, count, flight>>
    BY <2>1 DEF LocalLogin
  <2>6. Fewer(n)
    BY <2>2, <2>3, <2>4, <2>5 DEF Fewer, On, Settling, Leases, At, Used, MaySettle
  <2> QED BY <2>5, <2>6, FewerSessions DEF Pending
<1>5. CASE LocalDenied \/ UNCHANGED vars
  <2>1. UNCHANGED <<now, login, snapshot, count, flight>>
    BY <1>5 DEF LocalDenied, vars
  <2>2. Fewer(n)
    BY <2>1 DEF Fewer, On, Settling, Leases, At, Used, MaySettle
  <2> QED BY <2>1, <2>2, FewerSessions DEF Pending
<1> QED BY <1>1, <1>2, <1>3, <1>4, <1>5

LEMMA StepSessions ==
    ASSUME Base, Base', Sessions, RestartsOutlastLogins, [Next]_vars
    PROVE  Sessions'
<1> SUFFICES ASSUME NEW n \in Node PROVE SessionsOf(n)'
  BY DEF Sessions, SessionsOf
<1>0. SessionsOf(n)
  BY DEF Sessions, SessionsOf
<1>1. CASE \/ \E p \in Node : Ask(p)
           \/ \E i \in LoginId : Deny(i) \/ Leave(i)
           \/ \E reuse \in BOOLEAN : LocalLogin(reuse)
           \/ LocalDenied
           \/ UNCHANGED vars
  BY <1>0, <1>1, OtherSessions
<1>2. CASE \E p \in Node : Send(p)
  BY <1>0, <1>2, SendSessions
<1>3. CASE \E i \in LoginId : Approve(i)
  BY <1>0, <1>3, ApproveSessions
<1>4. CASE \E i \in LoginId : Connect(i)
  BY <1>0, <1>4, ConnectSessions
<1>5. CASE \E m \in flight : Accept(m)
  BY <1>0, <1>5, AcceptSessions
<1>6. CASE Restart
  BY <1>6, RestartSessions
<1>7. CASE Tick
  BY <1>0, <1>7, TickSessions
<1> QED BY <1>1, <1>2, <1>3, <1>4, <1>5, <1>6, <1>7 DEF Next

\* The accounts of every node's sessions and leases add up after any order of snapshots,
\* approvals, ends of sessions and restarts.
THEOREM SessionsInvariant == RestartsOutlastLogins => (Spec => [](Base /\ Sessions))
<1> SUFFICES ASSUME RestartsOutlastLogins PROVE Spec => [](Base /\ Sessions)
  OBVIOUS
<1>1. Init => Base /\ Sessions
  BY InitBase, InitSessions
<1>2. Base /\ Sessions /\ [Next]_vars => (Base /\ Sessions)'
  BY StepBase, StepSessions
<1> QED BY <1>1, <1>2, PTL DEF Spec

\* What a node's last count does not show has a lease that no other session has used up,
\* however its snapshots are delayed, lost or overtaken and the panel restarted.
THEOREM LeasedOrCounted == RestartsOutlastLogins => (Spec => []EveryDeviceIsLeasedOrCounted)
<1>1. Base /\ Sessions => EveryDeviceIsLeasedOrCounted
  <2> SUFFICES ASSUME Base, Sessions, NEW n \in Node, snapshot[n] # NoSnapshot
               PROVE  Online(n) + Cardinality({i \in At(n) : login[i].pc = "approved" /\ MaySettle(i)})
                         <= count[n] + Cardinality({i \in At(n) : login[i].leased})
    BY DEF EveryDeviceIsLeasedOrCounted
  <2>1. PICK late, early \in [Nat -> Nat] : \E L, E \in Nat : Accounted(n, 0, late, early, L, E)
    BY DEF Sessions
  <2>2. PICK L, E \in Nat : Accounted(n, 0, late, early, L, E)
    BY <2>1
  <2>3. Online(n) <= count[n] + L + E /\ Cardinality(Settling(n)) + L + E <= Cardinality(Leases(n))
    BY <2>2 DEF Accounted
  <2>4. /\ Online(n) \in Nat /\ Cardinality(Settling(n)) \in Nat /\ Cardinality(Leases(n)) \in Nat
        /\ count[n] \in Nat
    <3>1. SettlingSince(n, 0) \subseteq Settling(n) /\ Online(n) \in Nat
          /\ Cardinality(Settling(n)) \in Nat /\ Cardinality(Leases(n)) \in Nat
      BY NodeSets DEF Base
    <3> QED BY <3>1, Constant DEF Base, TypeOK
  <2>5. Online(n) + Cardinality(Settling(n)) <= count[n] + Cardinality(Leases(n))
    BY <2>3, <2>4
  <2> QED BY <2>5 DEF Settling, Leases
<1> QED BY <1>1, SessionsInvariant, PTL

-----------------------------------------------------------------------------
(* The panel host's own list.                                               *)

PanelMove ==
    /\ \A i \in On(Panel)' :
          \/ /\ i \in On(Panel) /\ login'[i].start = login[i].start
             /\ (login'[i].leased <=> login[i].leased)
          \/ login'[i].leased /\ login'[i].start \in Nat /\ now <= login'[i].start + LocalWindow
    /\ \A i \in Settling(Panel)' : login'[i].leased
    /\ \A i \in Used' : login'[i].pc = "asking" =>
          \/ i \in Used /\ login[i].pc = "asking" /\ login'[i].start = login[i].start
                        /\ login'[i].local = login[i].local
          \/ login'[i].start = now /\ login'[i].local = Online(Panel)
    /\ cache' = cache \/ cache' = NoCache \/ cache' = [at |-> now, count |-> Online(Panel)]
    /\ now' >= now

LEMMA MissedMove ==
    ASSUME Base, Base', PanelMove, NEW t \in Nat, t <= now
    PROVE  /\ Cardinality(Missed(t)') \in Nat /\ Cardinality(Missed(t)) \in Nat
           /\ Cardinality(Missed(t)') <= Cardinality(Missed(t))
           /\ Cardinality(Missed(t)) <= Online(Panel)
<1>1. now \in Nat
  BY Constant DEF Base, TypeOK
<1>2. Missed(t)' \subseteq Missed(t)
  <2> SUFFICES ASSUME NEW i \in Missed(t)' PROVE i \in Missed(t)
    OBVIOUS
  <2>1. i \in On(Panel)' /\ ~(login'[i].leased /\ login'[i].start + LocalWindow >= t)
    BY DEF Missed
  <2>2. ~(login'[i].leased /\ login'[i].start \in Nat /\ now <= login'[i].start + LocalWindow)
    BY <1>1, <2>1, Constant
  <2>3. i \in On(Panel) /\ login'[i].start = login[i].start /\ (login'[i].leased <=> login[i].leased)
    BY <2>1, <2>2 DEF PanelMove
  <2> QED BY <2>1, <2>3 DEF Missed
<1>3. Missed(t) \subseteq On(Panel) /\ On(Panel) \in SUBSET LoginId /\ Online(Panel) = Cardinality(On(Panel))
  BY NodeSets DEF Missed, Base
<1>4. Cardinality(Missed(t)) \in Nat /\ Cardinality(Missed(t)) <= Online(Panel)
  BY <1>3, Subset
<1>5. Cardinality(Missed(t)') \in Nat /\ Cardinality(Missed(t)') <= Cardinality(Missed(t))
  <2>1. Missed(t) \in SUBSET LoginId
    BY <1>3
  <2> QED BY <1>2, <2>1, Subset
<1> QED BY <1>4, <1>5

LEMMA PanelListed ==
    ASSUME Base, Base', Listed, PanelMove
    PROVE  Listed'
<1>1. now \in Nat /\ now' \in Nat /\ Online(Panel) \in Nat
  BY OnlineNat, Constant DEF Base, TypeOK
<1>2. ASSUME NEW t \in Nat, t <= now, NEW c \in Nat, Cardinality(Missed(t)) <= c
      PROVE  Cardinality(Missed(t)') <= c
  BY <1>2, MissedMove
<1>3. Cardinality(Missed(now)) <= Online(Panel)
  BY <1>1, MissedMove
<1>4. ASSUME NEW t \in Nat, NEW i \in Used', login'[i].pc = "asking", login'[i].start = t
      PROVE  Cardinality(Missed(t)') <= login'[i].local
  <2>1. t <= now /\ login'[i].local \in Nat /\ Cardinality(Missed(t)) <= login'[i].local
    <3>1. CASE i \in Used /\ login[i].pc = "asking" /\ t = login[i].start /\ login'[i].local = login[i].local
      BY <3>1, UsedLogin DEF Listed, Base
    <3>2. CASE t = now /\ login'[i].local = Online(Panel)
      BY <1>1, <1>3, <3>2
    <3> QED BY <1>4, <3>1, <3>2 DEF PanelMove
  <2> QED BY <2>1, <1>2
<1>5. ASSUME NEW t \in Nat, cache' # NoCache, cache'.at = t
      PROVE  t <= now' /\ Cardinality(Missed(t)') <= cache'.count
  <2>1. t <= now /\ cache'.count \in Nat /\ Cardinality(Missed(t)) <= cache'.count
    <3>1. CASE cache' = cache
      <4>1. cache \in [at : Nat, count : Nat]
        BY <1>5, <3>1 DEF Base, TypeOK
      <4>2. cache.at \in Nat /\ cache.count \in Nat
        BY <4>1
      <4> QED BY <1>5, <3>1, <4>2 DEF Listed
    <3>2. CASE cache' = [at |-> now, count |-> Online(Panel)]
      BY <1>1, <1>3, <1>5, <3>2
    <3> QED BY <1>5, <3>1, <3>2 DEF PanelMove
  <2>2. t <= now'
    BY <1>1, <2>1 DEF PanelMove
  <2> QED BY <2>1, <2>2, <1>2
<1> QED BY <1>4, <1>5 DEF Listed, PanelMove

LEMMA PanelFewer ==
    ASSUME Base, Listed, LoginsMove, Used' \subseteq Used,
           On(Panel)' \subseteq On(Panel), Settling(Panel)' \subseteq Settling(Panel),
           \A i \in On(Panel)' \cup Settling(Panel)' :
              login'[i].start = login[i].start /\ (login'[i].leased <=> login[i].leased),
           cache' = cache \/ cache' = NoCache \/ cache' = [at |-> now, count |-> Online(Panel)],
           now' >= now
    PROVE  PanelMove
<1>1. \A i \in Settling(Panel)' : login'[i].leased
  BY DEF Listed
<1>2. \A i \in Used' : login'[i].pc = "asking" =>
          i \in Used /\ login[i].pc = "asking" /\ login'[i].start = login[i].start
                     /\ login'[i].local = login[i].local
  BY DEF LoginsMove
<1> QED BY <1>1, <1>2 DEF PanelMove

LEMMA AskPanel == ASSUME Base, Base', Listed, NEW n \in Node, Ask(n) PROVE PanelMove
<1>1. PICK i \in LoginId \ Used :
        login' = [login EXCEPT ![i] = [pc |-> "asking", place |-> n, start |-> now,
                                       local |-> Online(Panel), leased |-> FALSE]]
  BY DEF Ask
<1>2. login' = [login EXCEPT ![i] = login'[i]] /\ login \in [LoginId -> Login \cup {Free}]
      /\ login'[i] = [pc |-> "asking", place |-> n, start |-> now, local |-> Online(Panel), leased |-> FALSE]
      /\ \A j \in LoginId : j # i => login'[j] = login[j]
  BY <1>1 DEF Base, TypeOK
<1>3. login'[i].pc = "asking" /\ login'[i].start = now /\ login'[i].local = Online(Panel)
  BY <1>2
<1>4. UNCHANGED <<now, cache>> /\ now \in Nat
  BY Constant DEF Ask, Base, TypeOK
<1>5. /\ \A j \in On(Panel)' : j \in On(Panel) /\ login'[j] = login[j]
      /\ \A j \in Settling(Panel)' : j \in Settling(Panel) /\ login'[j] = login[j]
  BY <1>2, <1>3, <1>4 DEF On, Settling, At, Used, MaySettle
<1>6. \A j \in Used' : j = i \/ (j \in Used /\ login'[j] = login[j])
  BY <1>2 DEF Used
<1> QED BY <1>3, <1>4, <1>5, <1>6 DEF PanelMove, Listed

LEMMA LocalLoginPanel ==
    ASSUME Base, Base', Listed, NEW reuse \in BOOLEAN, LocalLogin(reuse) PROVE PanelMove
<1>1. PICK i \in LoginId \ Used :
        login' = [login EXCEPT ![i] = [pc |-> "approved", place |-> Panel, start |-> now,
                                       local |-> 0, leased |-> TRUE]]
  BY DEF LocalLogin
<1>2. /\ login'[i] = [pc |-> "approved", place |-> Panel, start |-> now, local |-> 0, leased |-> TRUE]
      /\ \A j \in LoginId : j # i => login'[j] = login[j]
  BY <1>1 DEF Base, TypeOK
<1>3. login'[i].pc = "approved" /\ login'[i].leased = TRUE
  BY <1>2
<1>4. UNCHANGED now /\ now \in Nat
      /\ (cache' = cache \/ cache' = [at |-> now, count |-> Online(Panel)])
  BY Constant DEF LocalLogin, Base, TypeOK
<1>5. /\ \A j \in On(Panel)' : j \in On(Panel) /\ login'[j] = login[j]
      /\ \A j \in Settling(Panel)' : j = i \/ (j \in Settling(Panel) /\ login'[j] = login[j])
  BY <1>2, <1>3, <1>4 DEF On, Settling, At, Used, MaySettle
<1>6. \A j \in Used' : j = i \/ (j \in Used /\ login'[j] = login[j])
  BY <1>2 DEF Used
<1> QED BY <1>3, <1>4, <1>5, <1>6 DEF PanelMove, Listed

LEMMA ConnectPanel ==
    ASSUME Base, Base', Listed, NEW i \in LoginId, Connect(i) PROVE PanelMove
<1> DEFINE r == [login[i] EXCEPT !.pc = "online"]
<1>1. i \in Used /\ login[i] \in Login /\ login[i].pc = "approved" /\ MaySettle(i)
      /\ login[i].start \in Nat /\ UNCHANGED <<now, cache>> /\ now \in Nat
  BY UsedLogin, Constant DEF Connect, Used, Base, TypeOK
<1>2. /\ r \in Login /\ r.pc = "online" /\ r.place = login[i].place /\ r.start = login[i].start
      /\ r.leased = login[i].leased
  BY <1>1 DEF Login
<1>3. login' = [login EXCEPT ![i] = r]
  BY <1>1 DEF Connect
<1> HIDE DEF r
<1>4. login'[i] = r /\ Used' = Used \cup {i} /\ \A j \in LoginId : j # i => login'[j] = login[j]
  BY <1>2, <1>3, Rewritten DEF Base
<1>5. ASSUME NEW j \in On(Panel)'
      PROVE  \/ /\ j \in On(Panel) /\ login'[j].start = login[j].start
                /\ (login'[j].leased <=> login[j].leased)
             \/ login'[j].leased /\ login'[j].start \in Nat /\ now <= login'[j].start + LocalWindow
  <2>1. CASE j = i
    <3>1. login[i].place = Panel
      BY <1>2, <1>4, <2>1 DEF On, At
    <3>2. i \in Settling(Panel)
      BY <1>1, <3>1 DEF Settling, At
    <3>3. login[i].leased /\ now <= login[i].start + LocalWindow
      BY <1>1, <3>1, <3>2 DEF Listed, MaySettle
    <3> QED BY <1>1, <1>2, <1>4, <2>1, <3>3
  <2>2. CASE j # i
    BY <1>4, <2>2 DEF On, At, Used
  <2> QED BY <2>1, <2>2
<1>6. \A j \in Settling(Panel)' : j \in Settling(Panel) /\ login'[j] = login[j]
  BY <1>1, <1>2, <1>4 DEF Settling, At, Used, MaySettle
<1>7. \A j \in Used' : login'[j].pc = "asking" => j \in Used /\ login'[j] = login[j]
  BY <1>1, <1>2, <1>4 DEF Used
<1> QED BY <1>1, <1>5, <1>6, <1>7 DEF PanelMove, Listed

LEMMA ApproveDenyPanel ==
    ASSUME Base, Base', Listed, NEW i \in LoginId, Approve(i) \/ Deny(i) PROVE PanelMove
<1>0. LoginsMove
  BY ApproveLogins, DenyLogins
<1>1. /\ i \in Used /\ login[i].pc = "asking" /\ login[i].place # Panel
      /\ UNCHANGED <<now, cache>> /\ now \in Nat
  BY Constant DEF Approve, Deny, Base, Used, TypeOK
<1>2. \A j \in LoginId : j # i => login'[j] = login[j]
  BY DEF Approve, Deny, Base, TypeOK
<1>3. \A j \in Used' : j \in Used
  BY <1>1, <1>2 DEF Used
<1>4. i \in Used' => login'[i].place # Panel
  BY <1>0, <1>1 DEF LoginsMove
<1>5. /\ \A j \in On(Panel)' : j \in On(Panel) /\ login'[j] = login[j]
      /\ \A j \in Settling(Panel)' : j \in Settling(Panel) /\ login'[j] = login[j]
  BY <1>1, <1>2, <1>3, <1>4 DEF On, Settling, At, Used, MaySettle
<1> QED BY <1>0, <1>1, <1>3, <1>5, PanelFewer

LEMMA LeavePanel ==
    ASSUME Base, Base', Listed, NEW i \in LoginId, Leave(i) PROVE PanelMove
<1>1. /\ LoginsMove
      /\ On(Panel)' \subseteq On(Panel) /\ Settling(Panel)' \subseteq Settling(Panel)
      /\ Leases(Panel)' = Leases(Panel)
      /\ \A j \in Used' : j \in Used /\ login'[j].start = login[j].start
  BY LeaveLogins
<1>2. UNCHANGED <<now, cache>> /\ now \in Nat
  BY Constant DEF Leave, Base, TypeOK
<1>3. \A j \in On(Panel)' \cup Settling(Panel)' :
         login'[j].start = login[j].start /\ (login'[j].leased <=> login[j].leased)
  <2> SUFFICES ASSUME NEW j \in On(Panel)' \cup Settling(Panel)'
               PROVE  login'[j].start = login[j].start /\ (login'[j].leased <=> login[j].leased)
    OBVIOUS
  <2>1. j \in At(Panel)' /\ j \in At(Panel)
    BY <1>1 DEF On, Settling
  <2>2. (j \in Leases(Panel)' <=> login'[j].leased) /\ (j \in Leases(Panel) <=> login[j].leased)
    BY <2>1 DEF Leases
  <2> QED BY <1>1, <2>1, <2>2 DEF At
<1> QED BY <1>1, <1>2, <1>3, PanelFewer

LEMMA AcceptPanel ==
    ASSUME Base, Base', Listed, NEW m \in flight, Accept(m) PROVE PanelMove
<1>1. PICK seen \in SUBSET Leases(m.node) :
        login' = [i \in LoginId |-> IF i \in seen THEN Kept([login[i] EXCEPT !.leased = FALSE])
                                    ELSE login[i]]
  BY AcceptSeen
<1>2. /\ LoginsMove
      /\ On(Panel)' = On(Panel) /\ Settling(Panel)' = Settling(Panel)
      /\ \A j \in Used' : j \in Used /\ login'[j].start = login[j].start
  BY <1>1, AcceptLogins
<1>3. UNCHANGED <<now, cache>> /\ now \in Nat
  BY Constant DEF Accept, Base, TypeOK
<1>4. m.node # Panel
  BY InFlight, Constant DEF Base
<1>5. \A j \in On(Panel)' \cup Settling(Panel)' : login'[j] = login[j]
  BY <1>1, <1>2, <1>4 DEF On, Settling, Leases, At, Used
<1> QED BY <1>2, <1>3, <1>5, PanelFewer

LEMMA TickPanel == ASSUME Base, Base', Listed, Tick PROVE PanelMove
<1>1. /\ LoginsMove
      /\ On(Panel)' = On(Panel) /\ Settling(Panel)' \subseteq Settling(Panel)
      /\ \A j \in Used' : j \in Used /\ login'[j] = login[j]
  BY TickLogins
<1>2. \A j \in On(Panel)' \cup Settling(Panel)' : j \in Used'
  BY DEF On, Settling, At
<1>3. now' >= now /\ (cache' = cache \/ cache' = NoCache)
  BY Constant DEF Tick, Base, TypeOK
<1> QED BY <1>1, <1>2, <1>3, PanelFewer

LEMMA SamePanel ==
    ASSUME Base, Base', Listed, UNCHANGED <<now, login>>,
           cache' = cache \/ cache' = [at |-> now, count |-> Online(Panel)]
    PROVE  PanelMove
<1>1. now' >= now
  BY Constant DEF Base, TypeOK
<1>2. Used' = Used /\ On(Panel)' = On(Panel) /\ Settling(Panel)' = Settling(Panel)
  BY DEF Used, On, Settling, At, MaySettle
<1> QED BY <1>1, <1>2, SameLogins, PanelFewer

LEMMA RestartListed ==
    ASSUME Base, Base', RestartsOutlastLogins, Restart PROVE Listed'
<1>1. LocalWindow < Outage
  <2>1. restarts < MaxRestarts /\ restarts \in Nat
    BY Constant DEF Restart, Base, TypeOK
  <2> QED BY <2>1, Constant DEF RestartsOutlastLogins
<1>2. Settling(Panel)' = {}
  <2> SUFFICES ASSUME NEW i \in Settling(Panel)' PROVE FALSE
    OBVIOUS
  <2>1. i \in Used' /\ login'[i].place = Panel /\ MaySettle(i)'
    BY DEF Settling, At
  <2>2. i \in Used /\ login'[i].start = login[i].start /\ login[i].start <= now /\ login[i].start \in Nat
    BY <2>1, RestartLogins, UsedLogin DEF Base
  <2>3. now' <= login[i].start + LocalWindow
    BY <2>1, <2>2 DEF MaySettle
  <2>4. now' = now + Outage /\ now \in Nat
    BY Constant DEF Restart, Base, TypeOK
  <2> QED BY <1>1, <2>2, <2>3, <2>4, Constant
<1>3. \A i \in Used' : login'[i].pc # "asking"
  BY RestartLogins
<1>4. cache' = NoCache
  BY DEF Restart
<1> QED BY <1>2, <1>3, <1>4 DEF Listed

LEMMA StepListed ==
    ASSUME Base, Base', Listed, RestartsOutlastLogins, [Next]_vars
    PROVE  Listed'
<1>1. CASE Restart
  BY <1>1, RestartListed
<1>2. CASE \E n \in Node : Ask(n)
  BY <1>2, AskPanel, PanelListed
<1>3. CASE \E i \in LoginId : Approve(i) \/ Deny(i)
  BY <1>3, ApproveDenyPanel, PanelListed
<1>4. CASE \E i \in LoginId : Connect(i)
  BY <1>4, ConnectPanel, PanelListed
<1>5. CASE \E i \in LoginId : Leave(i)
  BY <1>5, LeavePanel, PanelListed
<1>6. CASE \E reuse \in BOOLEAN : LocalLogin(reuse)
  BY <1>6, LocalLoginPanel, PanelListed
<1>7. CASE \E m \in flight : Accept(m)
  BY <1>7, AcceptPanel, PanelListed
<1>8. CASE Tick
  BY <1>8, TickPanel, PanelListed
<1>9. CASE (\E n \in Node : Send(n)) \/ LocalDenied \/ UNCHANGED vars
  <2>1. /\ UNCHANGED <<now, login>>
        /\ cache' = cache \/ cache' = [at |-> now, count |-> Online(Panel)]
    BY <1>9 DEF Send, LocalDenied, vars
  <2> QED BY <2>1, SamePanel, PanelListed
<1> QED BY <1>1, <1>2, <1>3, <1>4, <1>5, <1>6, <1>7, <1>8, <1>9 DEF Next

LEMMA InitListed == ASSUME Init PROVE Listed
<1>1. Used = {} /\ cache = NoCache
  BY DEF Init, Used
<1> QED BY <1>1 DEF Listed, Settling, At

\* The inductive invariant, of a panel whose restarts outlast the logins it approved.
THEOREM Invariant == RestartsOutlastLogins => (Spec => []Inv)
<1> SUFFICES ASSUME RestartsOutlastLogins PROVE Spec => []Inv
  OBVIOUS
<1>1. Init => Inv
  BY InitBase, InitSessions, InitListed DEF Inv
<1>2. Inv /\ [Next]_vars => Inv'
  BY StepBase, StepSessions, StepListed DEF Inv
<1> QED BY <1>1, <1>2, PTL DEF Spec

-----------------------------------------------------------------------------
(* Adding up the nodes: no sum is computed, each set is mapped one to one     *)
(* into the sets the panel counts.                                          *)

Numbering(S) == CHOOSE f \in Injection(S, 1..Cardinality(S)) : TRUE
Listing(S) == CHOOSE f \in Injection(1..Cardinality(S), S) : TRUE

LEMMA Numbered ==
    ASSUME NEW S \in SUBSET LoginId
    PROVE  /\ Numbering(S) \in [S -> 1..Cardinality(S)]
           /\ \A i, j \in S : Numbering(S)[i] = Numbering(S)[j] => i = j
           /\ Listing(S) \in [1..Cardinality(S) -> S]
           /\ \A i, j \in 1..Cardinality(S) : Listing(S)[i] = Listing(S)[j] => i = j
<1>1. ExistsBijection(1..Cardinality(S), S) /\ ExistsBijection(S, 1..Cardinality(S))
  <2>1. ExistsBijection(1..Cardinality(S), S)
    BY Subset, FS_CardinalityType
  <2> QED BY <2>1, Fun_ExistsBijSymmetric
<1>2. \E f \in Injection(1..Cardinality(S), S) : TRUE
  <2>1. PICK f \in Bijection(1..Cardinality(S), S) : TRUE
    BY <1>1 DEF ExistsBijection
  <2> QED BY <2>1, Fun_BijectionProperties
<1>3. \E f \in Injection(S, 1..Cardinality(S)) : TRUE
  <2>1. PICK f \in Bijection(S, 1..Cardinality(S)) : TRUE
    BY <1>1 DEF ExistsBijection
  <2> QED BY <2>1, Fun_BijectionProperties
<1>4. Listing(S) \in Injection(1..Cardinality(S), S)
  BY <1>2, Zenon DEF Listing
<1>5. Numbering(S) \in Injection(S, 1..Cardinality(S))
  BY <1>3, Zenon DEF Numbering
<1>6. /\ Numbering(S) \in [S -> 1..Cardinality(S)]
      /\ \A i, j \in S : Numbering(S)[i] = Numbering(S)[j] => i = j
  <2> DEFINE f == Numbering(S)
             T == 1..Cardinality(S)
  <2>1. f \in Injection(S, T)
    BY <1>5
  <2> HIDE DEF f, T
  <2>2. f \in [S -> T] /\ \A i, j \in S : f[i] = f[j] => i = j
    BY <2>1, Fun_InjectionProperties
  <2> QED BY <2>2 DEF f, T
<1>7. /\ Listing(S) \in [1..Cardinality(S) -> S]
      /\ \A i, j \in 1..Cardinality(S) : Listing(S)[i] = Listing(S)[j] => i = j
  BY <1>4, Fun_InjectionProperties
<1> QED BY <1>6, <1>7

Pairs(c) == {x \in Node \X (1..Cardinality(LoginId)) : x[2] <= c[x[1]]}

LEMMA Combined ==
    ASSUME NEW D \in SUBSET LoginId, NEW U \in SUBSET LoginId,
           NEW at, \A i \in D \cup U : at[i] \in Node,
           NEW c \in [Node -> 0..Cardinality(LoginId)],
           \A n \in Node : Cardinality({i \in D : at[i] = n}) <= c[n] + Cardinality({i \in U : at[i] = n})
    PROVE  /\ Cardinality(Pairs(c)) \in Nat
           /\ Cardinality(D) <= Cardinality(Pairs(c)) + Cardinality(U)
<1> DEFINE N == Cardinality(LoginId)
           C == {x \in Node \X (1..N) : x[2] <= c[x[1]]}
           Of(n) == {i \in D : at[i] = n}
           Left(n) == {i \in U : at[i] = n}
           place(i) == Numbering(Of(at[i]))[i]
           K == {i \in D : place(i) <= c[at[i]]}
<1>1. N \in Nat
  BY Constant
<1>2. IsFiniteSet(C) /\ Cardinality(C) \in Nat
  <2>1. IsFiniteSet(1..N)
    BY <1>1, FS_Interval
  <2>2. IsFiniteSet(Node \X (1..N))
    BY <2>1, Constant, FS_Product
  <2>3. IsFiniteSet(C)
    BY <2>2, FS_Subset
  <2> QED BY <2>3, FS_CardinalityType
<1>3. ASSUME NEW n \in Node
      PROVE  /\ Of(n) \in SUBSET LoginId /\ Left(n) \in SUBSET LoginId
             /\ Cardinality(Of(n)) \in Nat /\ Cardinality(Left(n)) \in Nat
             /\ Cardinality(Of(n)) <= N /\ c[n] \in Nat
             /\ Cardinality(Of(n)) <= c[n] + Cardinality(Left(n))
  <2>1. Of(n) \in SUBSET LoginId /\ Left(n) \in SUBSET LoginId
    OBVIOUS
  <2>2. Cardinality(Of(n)) \in Nat /\ Cardinality(Left(n)) \in Nat /\ Cardinality(Of(n)) <= N
    BY <2>1, Subset
  <2> QED BY <1>1, <2>1, <2>2
<1> HIDE DEF N, Of, Left
<1>4. ASSUME NEW i \in D
      PROVE  /\ at[i] \in Node /\ i \in Of(at[i]) /\ place(i) \in 1..Cardinality(Of(at[i]))
             /\ \A j \in D : at[i] = at[j] /\ place(i) = place(j) => i = j
  <2>1. at[i] \in Node /\ \A j \in D : j \in Of(at[j])
    BY DEF Of
  <2>2. /\ Numbering(Of(at[i])) \in [Of(at[i]) -> 1..Cardinality(Of(at[i]))]
        /\ \A j, k \in Of(at[i]) : Numbering(Of(at[i]))[j] = Numbering(Of(at[i]))[k] => j = k
    BY <1>3, <2>1, Numbered
  <2>3. \A j \in D : at[i] = at[j] /\ place(i) = place(j) => i = j
    BY <2>1, <2>2
  <2> QED BY <2>1, <2>2, <2>3
<1> HIDE DEF place
<1>5. Cardinality(K) <= Cardinality(C) /\ K \in SUBSET D
  <2> DEFINE h == [i \in K |-> <<at[i], place(i)>>]
  <2>1. ASSUME NEW i \in K PROVE <<at[i], place(i)>> \in C
    <3>1. /\ at[i] \in Node /\ place(i) \in 1..Cardinality(Of(at[i])) /\ place(i) <= c[at[i]]
          /\ Cardinality(Of(at[i])) \in Nat /\ Cardinality(Of(at[i])) <= N
      BY <1>3, <1>4
    <3>2. place(i) \in 1..N
      BY <1>1, <3>1
    <3> QED BY <3>1, <3>2
  <2>2. \A i, j \in K : h[i] = h[j] => i = j
    BY <1>4
  <2>3. h \in [K -> C]
    BY <2>1
  <2> HIDE DEF h, C, K
  <2>4. h \in Injection(K, C)
    BY <2>2, <2>3, Fun_IsInj
  <2>5. Cardinality(K) <= Cardinality(C)
    BY <1>2, <2>4, FS_Injection
  <2> QED BY <2>5 DEF K
<1>6. Cardinality(D \ K) <= Cardinality(U)
  <2> DEFINE rest(i) == place(i) - c[at[i]]
             h == [i \in D \ K |-> Listing(Left(at[i]))[rest(i)]]
  <2>1. ASSUME NEW i \in D \ K
        PROVE  /\ at[i] \in Node /\ rest(i) \in 1..Cardinality(Left(at[i])) /\ h[i] \in Left(at[i])
               /\ place(i) = rest(i) + c[at[i]]
    <3>1. /\ at[i] \in Node /\ place(i) \in 1..Cardinality(Of(at[i])) /\ ~(place(i) <= c[at[i]])
      BY <1>4
    <3>2. /\ Cardinality(Of(at[i])) \in Nat /\ Cardinality(Left(at[i])) \in Nat /\ c[at[i]] \in Nat
          /\ Cardinality(Of(at[i])) <= c[at[i]] + Cardinality(Left(at[i]))
          /\ Left(at[i]) \in SUBSET LoginId
      BY <1>3, <3>1
    <3>3. rest(i) \in 1..Cardinality(Left(at[i])) /\ place(i) = rest(i) + c[at[i]]
      BY <3>1, <3>2
    <3>4. Listing(Left(at[i])) \in [1..Cardinality(Left(at[i])) -> Left(at[i])]
      BY <3>2, Numbered
    <3> QED BY <3>1, <3>3, <3>4
  <2> HIDE DEF rest
  <2>2. ASSUME NEW i \in D \ K, NEW j \in D \ K, h[i] = h[j] PROVE i = j
    <3>1. at[i] = at[j]
      <4>1. h[i] \in Left(at[i]) /\ h[i] \in Left(at[j])
        BY <2>1, <2>2
      <4> HIDE DEF h
      <4> QED BY <4>1 DEF Left
    <3>2. Left(at[i]) \in SUBSET LoginId
      BY <1>3, <2>1
    <3>3. rest(i) = rest(j)
      <4>1. \A a, b \in 1..Cardinality(Left(at[i])) :
                Listing(Left(at[i]))[a] = Listing(Left(at[i]))[b] => a = b
        BY <3>2, Numbered
      <4>2. rest(i) \in 1..Cardinality(Left(at[i])) /\ rest(j) \in 1..Cardinality(Left(at[i]))
        BY <2>1, <3>1
      <4>3. Listing(Left(at[i]))[rest(i)] = Listing(Left(at[i]))[rest(j)]
        BY <2>2, <3>1
      <4> QED BY <4>1, <4>2, <4>3
    <3>4. place(i) = place(j)
      BY <2>1, <3>1, <3>3
    <3> QED BY <1>4, <3>1, <3>4
  <2>3. h \in [D \ K -> U]
    <3>1. \A i \in D \ K : h[i] \in U
      BY <2>1 DEF Left
    <3> QED BY <3>1
  <2> HIDE DEF h, K
  <2>4. h \in Injection(D \ K, U)
    BY <2>2, <2>3, Fun_IsInj
  <2>5. IsFiniteSet(U)
    BY Subset
  <2> QED BY <2>4, <2>5, FS_Injection
<1>7. /\ Cardinality(D \ K) \in Nat /\ Cardinality(K) \in Nat /\ Cardinality(U) \in Nat
      /\ Cardinality(D) = Cardinality(D \ K) + Cardinality(K)
  BY <1>5, Without, Subset
<1>8. Cardinality(D) <= Cardinality(C) + Cardinality(U)
  <2> HIDE DEF C, K
  <2> QED BY <1>2, <1>5, <1>6, <1>7
<1> QED BY <1>2, <1>8 DEF N, Pairs

-----------------------------------------------------------------------------
(* The limit.                                                               *)

Active == {i \in Used : login[i].pc = "online" \/ (login[i].pc = "approved" /\ MaySettle(i))}
Unexpired(t) == {i \in Used : login[i].leased /\ Expiry(login[i]) >= t}

\* At a node, the count and the unexpired leases cover the sessions: of the logins whose
\* leases have expired, the snapshot shows those that opened one.
LEMMA NodeWithin ==
    ASSUME Base, Sessions, LeasesOutlastSnapshots, NEW n \in Node, NEW t \in Nat, t <= now, Fresh(t)
    PROVE  Cardinality({i \in Active : login[i].place = n})
              <= count[n] + Cardinality({i \in Unexpired(t) : login[i].place = n})
<1> DEFINE s == IF t >= Freshness THEN t - Freshness ELSE 0
<1>1. /\ s \in Nat /\ now \in Nat /\ count[n] \in Nat /\ s <= t
      /\ s # 0 => s + Freshness = t
      /\ \A k \in Nat : k >= s <=> k + Freshness >= t
  BY Constant DEF Base, TypeOK
<1> HIDE DEF s
<1>2. PICK u \in Nat : u = s
  BY <1>1
<1>3. PICK late, early \in [Nat -> Nat] : \E L, E \in Nat : Accounted(n, u, late, early, L, E)
  BY DEF Sessions
<1>4. PICK L, E \in Nat : Accounted(n, u, late, early, L, E)
  BY <1>3
<1>5. /\ snapshot[n] # NoSnapshot /\ snapshot[n].observed + Freshness >= t
      /\ snapshot[n].observed \in Nat
  BY SomeSnapshot DEF Fresh, Base
<1>6. E = 0
  <2>1. /\ u = 0 => E = 0
        /\ u + Window <= snapshot[n].observed => E = 0
        /\ Young(n) \/ (u + Window <= now => E = 0)
    BY <1>4, <1>5 DEF Accounted
  <2>2. CASE u = 0
    BY <2>1, <2>2
  <2>3. CASE u # 0 /\ Window = 0
    <3>1. u + Window <= snapshot[n].observed
      BY <1>1, <1>2, <1>5, <2>3, Constant
    <3> QED BY <2>1, <3>1
  <2>4. CASE u # 0 /\ Gap + Window <= Freshness
    <3>1. u + Freshness = t
      BY <1>1, <1>2, <2>4
    <3>2. u + Window + Gap <= now
      BY <1>1, <2>4, <3>1, Constant
    <3>3. CASE Young(n)
      <4>1. u + Window <= snapshot[n].observed
        BY <1>1, <1>5, <3>2, <3>3, Constant DEF Young
      <4> QED BY <2>1, <4>1
    <3>4. CASE ~Young(n)
      <4>1. u + Window <= now
        BY <1>1, <3>2, Constant
      <4> QED BY <2>1, <3>4, <4>1
    <3> QED BY <3>3, <3>4
  <2> QED BY <2>2, <2>3, <2>4 DEF LeasesOutlastSnapshots
<1>7. /\ On(n) \in SUBSET LoginId /\ Settling(n) \in SUBSET LoginId
      /\ IsFiniteSet(On(n)) /\ IsFiniteSet(Settling(n))
      /\ Online(n) = Cardinality(On(n)) /\ Online(n) \in Nat
      /\ Cardinality(Settling(n)) \in Nat
      /\ Cardinality(SettlingSince(n, u)) \in Nat /\ Cardinality(LeasesSince(n, u)) \in Nat
  BY NodeSets DEF Base
<1>8. /\ Online(n) <= count[n] + L + E
      /\ Cardinality(SettlingSince(n, u)) + L <= Cardinality(LeasesSince(n, u))
  BY <1>4, <1>5 DEF Accounted
<1>9. SettlingSince(n, u) = Settling(n)
  <2> SUFFICES ASSUME NEW i \in Settling(n) PROVE login[i].start >= u
    BY DEF SettlingSince
  <2>1. i \in Used /\ login[i].place = n /\ MaySettle(i)
    BY DEF Settling, At
  <2>2. login[i].start \in Nat /\ now <= login[i].start + Window
    BY <2>1, UsedLogin, Constant DEF MaySettle, Base
  <2>3. login[i].start + Freshness >= t
    BY <1>1, <2>2, Constant DEF LeasesOutlastSnapshots
  <2> QED BY <1>1, <1>2, <2>2, <2>3
<1>10. Online(n) + Cardinality(Settling(n)) <= count[n] + Cardinality(LeasesSince(n, u))
  <2>1. Cardinality(SettlingSince(n, u)) = Cardinality(Settling(n))
    BY <1>9, Zenon
  <2> QED BY <1>1, <1>6, <1>7, <1>8, <2>1
<1>11. Cardinality({i \in Active : login[i].place = n}) <= Online(n) + Cardinality(Settling(n))
  <2>1. {i \in Active : login[i].place = n} = On(n) \cup Settling(n)
    BY DEF Active, On, Settling, At
  <2>2. On(n) \cap Settling(n) \in SUBSET LoginId
    BY <1>7
  <2>3. Cardinality(On(n) \cap Settling(n)) \in Nat
    BY <2>2, Subset
  <2>4. Cardinality(On(n) \cup Settling(n))
           = Cardinality(On(n)) + Cardinality(Settling(n)) - Cardinality(On(n) \cap Settling(n))
    BY <1>7, FS_Union
  <2>5. Cardinality({i \in Active : login[i].place = n}) = Cardinality(On(n) \cup Settling(n))
    BY <2>1, Zenon
  <2> QED BY <1>7, <2>3, <2>4, <2>5
<1>12. {i \in Unexpired(t) : login[i].place = n} = LeasesSince(n, u)
  <2>1. \A i \in Used : login[i].place = n => (Expiry(login[i]) >= t <=> login[i].start >= u)
    <3> SUFFICES ASSUME NEW i \in Used, login[i].place = n
                 PROVE  Expiry(login[i]) >= t <=> login[i].start >= u
      OBVIOUS
    <3>1. login[i].start \in Nat /\ Expiry(login[i]) = login[i].start + Freshness
      BY UsedLogin, Constant DEF Expiry, Base
    <3> QED BY <1>1, <1>2, <3>1
  <2> QED BY <2>1 DEF Unexpired, LeasesSince, Leases, At
<1>13. Cardinality({i \in Unexpired(t) : login[i].place = n}) = Cardinality(LeasesSince(n, u))
  BY <1>12, Zenon
<1>14. Cardinality({i \in Active : login[i].place = n}) \in Nat
  <2>1. {i \in Active : login[i].place = n} \in SUBSET LoginId
    BY DEF Active, Used
  <2> QED BY <2>1, Subset
<1> QED BY <1>1, <1>7, <1>10, <1>11, <1>13, <1>14

\* On the panel host, the list and the unexpired leases do.
LEMMA PanelWithin ==
    ASSUME Base, Listed, LeasesOutlastList, NEW t \in Nat, t <= now, NEW s \in Nat, t <= s + CacheAge
    PROVE  Cardinality({i \in Active : login[i].place = Panel})
              <= Cardinality(Missed(s)) + Cardinality({i \in Unexpired(t) : login[i].place = Panel})
<1> DEFINE D == {i \in Active : login[i].place = Panel}
           U == {i \in Unexpired(t) : login[i].place = Panel}
<1>1. now \in Nat
  BY Constant DEF Base, TypeOK
<1>2. ASSUME NEW i \in D PROVE i \in Missed(s) \cup U
  <2>1. i \in Used /\ login[i].place = Panel /\ login[i].start \in Nat
    BY UsedLogin DEF Active, Base
  <2>2. Expiry(login[i]) = login[i].start + LocalLease
    BY <2>1 DEF Expiry
  <2>3. CASE i \in Settling(Panel)
    <3>1. login[i].leased /\ now <= login[i].start + LocalWindow
      BY <2>1, <2>3 DEF Listed, Settling, MaySettle
    <3>2. Expiry(login[i]) >= t
      BY <1>1, <2>1, <2>2, <3>1, Constant DEF LeasesOutlastList
    <3> QED BY <2>1, <3>1, <3>2 DEF Unexpired
  <2>4. CASE i \in On(Panel) /\ i \notin Missed(s)
    <3>1. login[i].leased /\ login[i].start + LocalWindow >= s
      BY <2>4 DEF Missed
    <3>2. Expiry(login[i]) >= t
      BY <2>1, <2>2, <3>1, Constant DEF LeasesOutlastList
    <3> QED BY <2>1, <3>1, <3>2 DEF Unexpired
  <2>5. i \in On(Panel) \cup Settling(Panel)
    BY DEF Active, On, Settling, At
  <2> QED BY <2>3, <2>4, <2>5
<1>3. Missed(s) \in SUBSET LoginId /\ U \in SUBSET LoginId
  BY DEF Missed, On, At, Unexpired, Used
<1>4. D \in SUBSET (Missed(s) \cup U) /\ Missed(s) \cup U \in SUBSET LoginId
      /\ Missed(s) \cap U \in SUBSET LoginId
  BY <1>2, <1>3
<1> HIDE DEF D, U
<1>5. /\ IsFiniteSet(Missed(s)) /\ Cardinality(Missed(s)) \in Nat
      /\ IsFiniteSet(U) /\ Cardinality(U) \in Nat
  BY <1>3, Subset
<1>6. /\ Cardinality(D) \in Nat /\ Cardinality(Missed(s) \cup U) \in Nat
      /\ Cardinality(D) <= Cardinality(Missed(s) \cup U) /\ Cardinality(Missed(s) \cap U) \in Nat
  BY <1>4, Subset
<1>7. Cardinality(Missed(s) \cup U)
         = Cardinality(Missed(s)) + Cardinality(U) - Cardinality(Missed(s) \cap U)
  BY <1>5, FS_Union
<1>8. Cardinality(D) <= Cardinality(Missed(s)) + Cardinality(U)
  BY <1>5, <1>6, <1>7
<1> QED BY <1>8 DEF D, U

\* What the panel adds up is never less than the user's devices.
LEMMA DevicesWithin ==
    ASSUME Inv, LeasesOutlastSnapshots, LeasesOutlastList,
           NEW t \in Nat, t <= now, Fresh(t), NEW s \in Nat, t <= s + CacheAge,
           NEW local \in Nat, Cardinality(Missed(s)) <= local
    PROVE  Capacity(t, local) \in Nat /\ Cardinality(Active) \in Nat
           /\ Cardinality(Active) <= Capacity(t, local)
<1> DEFINE DP == {i \in Active : login[i].place = Panel}
           UP == {i \in Unexpired(t) : login[i].place = Panel}
           DN == Active \ DP
           UN == Unexpired(t) \ UP
           at == [i \in LoginId |-> login[i].place]
<1>1. /\ Active \in SUBSET LoginId /\ Unexpired(t) \in SUBSET LoginId
      /\ DP \in SUBSET Active /\ UP \in SUBSET Unexpired(t)
      /\ DN \in SUBSET LoginId /\ UN \in SUBSET LoginId
  BY DEF Active, Unexpired, Used
<1>2. \A i \in DN \cup UN : at[i] \in Node
  <2> SUFFICES ASSUME NEW i \in DN \cup UN PROVE at[i] \in Node
    OBVIOUS
  <2>1. i \in Used /\ login[i].place # Panel
    BY DEF Active, Unexpired
  <2>2. i \in LoginId /\ login[i].place \in Place
    BY <2>1, UsedLogin DEF Inv, Base
  <2> QED BY <2>1, <2>2 DEF Place
<1>3. count \in [Node -> 0..Cardinality(LoginId)]
  BY DEF Inv, Base, TypeOK
<1>4. ASSUME NEW n \in Node
      PROVE  Cardinality({i \in DN : at[i] = n}) <= count[n] + Cardinality({i \in UN : at[i] = n})
  <2>1. {i \in DN : at[i] = n} = {i \in Active : login[i].place = n}
    BY <1>1, Constant
  <2>2. {i \in UN : at[i] = n} = {i \in Unexpired(t) : login[i].place = n}
    BY <1>1, Constant
  <2>3. Cardinality({i \in Active : login[i].place = n})
           <= count[n] + Cardinality({i \in Unexpired(t) : login[i].place = n})
    BY NodeWithin DEF Inv
  <2> QED BY <2>1, <2>2, <2>3
<1>5. Cardinality(Counted) \in Nat /\ Cardinality(DN) <= Cardinality(Counted) + Cardinality(UN)
  <2> HIDE DEF DN, UN, at
  <2>1. /\ Cardinality(Pairs(count)) \in Nat
        /\ Cardinality(DN) <= Cardinality(Pairs(count)) + Cardinality(UN)
    BY <1>1, <1>2, <1>3, <1>4, Combined
  <2> QED BY <2>1 DEF Counted, Pairs
<1>6. Cardinality(DP) <= Cardinality(Missed(s)) + Cardinality(UP)
  BY PanelWithin DEF Inv
<1>7. /\ Cardinality(Active) \in Nat /\ Cardinality(DP) \in Nat /\ Cardinality(DN) \in Nat
      /\ Cardinality(Active) = Cardinality(DN) + Cardinality(DP)
  BY <1>1, Without
<1>8. /\ Cardinality(Unexpired(t)) \in Nat /\ Cardinality(UP) \in Nat /\ Cardinality(UN) \in Nat
      /\ Cardinality(Unexpired(t)) = Cardinality(UN) + Cardinality(UP)
  BY <1>1, Without
<1>9. Cardinality(Missed(s)) \in Nat
  <2>1. Missed(s) \in SUBSET LoginId
    BY DEF Missed, On, At, Used
  <2> QED BY <2>1, Subset
<1>10. Capacity(t, local) = local + Cardinality(Counted) + Cardinality(Unexpired(t))
  BY DEF Capacity, Unexpired
<1> HIDE DEF DP, UP, DN, UN
<1> QED BY <1>5, <1>6, <1>7, <1>8, <1>9, <1>10

Approved(i) ==
    /\ login'[i] # Free /\ login'[i].pc = "approved"
    /\ login[i] = Free \/ login[i].pc = "asking"

\* Only the panel's two decisions approve.
LEMMA OthersApproveNone ==
    ASSUME Base, NEW i \in LoginId, Approved(i),
           [Next]_vars
    PROVE  Approve(i) \/ \E reuse \in BOOLEAN : LocalLogin(reuse)
<1>0. login \in [LoginId -> Login \cup {Free}]
  BY DEF Base, TypeOK
<1>1. CASE \E n \in Node : Ask(n)
  <2>1. PICK n \in Node, j \in LoginId \ Used :
          login' = [login EXCEPT ![j] = [pc |-> "asking", place |-> n, start |-> now,
                                         local |-> Online(Panel), leased |-> FALSE]]
    BY <1>1 DEF Ask
  <2>2. /\ login'[j] = [pc |-> "asking", place |-> n, start |-> now, local |-> Online(Panel), leased |-> FALSE]
        /\ \A k \in LoginId : k # j => login'[k] = login[k]
    BY <1>0, <2>1
  <2>3. login'[j].pc = "asking"
    BY <2>2
  <2> QED BY <2>2, <2>3 DEF Approved
<1>2. CASE \E j \in LoginId : Approve(j)
  <2>1. PICK j \in LoginId : Approve(j)
    BY <1>2
  <2>2. \A k \in LoginId : k # j => login'[k] = login[k]
    BY <1>0, <2>1 DEF Approve
  <2>3. i = j
    BY <2>2 DEF Approved
  <2> QED BY <2>1, <2>3
<1>3. CASE \E j \in LoginId : Deny(j)
  BY <1>0, <1>3 DEF Deny, Approved
<1>4. CASE \E j \in LoginId : Connect(j) \/ Leave(j)
  <2>1. PICK j \in LoginId : Connect(j) \/ Leave(j)
    BY <1>4
  <2>2. /\ \A k \in LoginId : k # j => login'[k] = login[k]
        /\ login[j] # Free /\ login[j].pc \in {"approved", "online"}
    BY <1>0, <2>1 DEF Connect, Leave
  <2> QED BY <2>2 DEF Approved
<1>5. CASE \E m \in flight : Accept(m)
  <2>1. PICK m \in flight : Accept(m)
    BY <1>5
  <2>2. PICK seen \in SUBSET Leases(m.node) :
          login' = [k \in LoginId |-> IF k \in seen THEN Kept([login[k] EXCEPT !.leased = FALSE])
                                      ELSE login[k]]
    BY <2>1, AcceptSeen
  <2>3. i \in seen
    BY <2>2 DEF Approved
  <2>4. i \in Used /\ login[i] \in Login /\ login[i].pc # "asking"
    BY <2>3, UsedLogin DEF Leases, At, Base
  <2> QED BY <2>4 DEF Approved, Used
<1>6. CASE Restart
  <2>1. login[i] = Free \/ login[i].pc = "asking" => login'[i] = Free
    BY <1>6 DEF Restart
  <2> QED BY <2>1 DEF Approved
<1>7. CASE Tick
  <2>1. login'[i] = Free \/ login'[i] = login[i]
    BY <1>7 DEF Tick
  <2> QED BY <2>1 DEF Approved
<1>8. CASE (\E n \in Node : Send(n)) \/ LocalDenied \/ UNCHANGED vars
  <2>1. UNCHANGED login
    BY <1>8 DEF Send, LocalDenied, vars
  <2> QED BY <2>1 DEF Approved
<1>9. CASE \E reuse \in BOOLEAN : LocalLogin(reuse)
  BY <1>9
<1> QED BY <1>1, <1>2, <1>3, <1>4, <1>5, <1>6, <1>7, <1>8, <1>9 DEF Next

LEMMA ApproveWithin ==
    ASSUME Inv, LeasesOutlastSnapshots, LeasesOutlastList, NEW i \in LoginId, Approve(i)
    PROVE  Devices' <= DeviceLimit
<1>1. /\ i \in Used /\ login[i].pc = "asking" /\ login[i].start \in Nat /\ login[i].local \in Nat
      /\ login[i].start <= now /\ Fresh(login[i].start)
      /\ Capacity(login[i].start, login[i].local) < DeviceLimit /\ UNCHANGED now
  BY UsedLogin DEF Approve, Admits, Used, Inv, Base
<1>2. PICK t \in Nat : t = login[i].start
  BY <1>1
<1>3. Cardinality(Missed(t)) <= login[i].local
  BY <1>1, <1>2 DEF Inv, Listed
<1>4. t <= now /\ t <= t + CacheAge /\ Fresh(t)
  BY <1>1, <1>2, Constant
<1>5. Capacity(t, login[i].local) \in Nat /\ Cardinality(Active) \in Nat
      /\ Cardinality(Active) <= Capacity(t, login[i].local)
  BY <1>1, <1>3, <1>4, DevicesWithin
<1>6. \A j \in LoginId : j # i => login'[j] = login[j]
  BY DEF Approve, Inv, Base, TypeOK
<1>7. Active' \subseteq Active \cup {i}
  BY <1>1, <1>6 DEF Active, Used, MaySettle
<1>8. Active \in SUBSET LoginId
  BY DEF Active, Used
<1>9. Cardinality(Active') \in Nat /\ Cardinality(Active') <= Cardinality(Active) + 1
  BY <1>7, <1>8, OneMore
<1>10. Capacity(t, login[i].local) < DeviceLimit
  BY <1>1, <1>2
<1>11. Cardinality(Active') <= DeviceLimit
  BY <1>5, <1>9, <1>10, Constant
<1> QED BY <1>11 DEF Active, Devices

LEMMA LocalLoginWithin ==
    ASSUME Inv, LeasesOutlastSnapshots, LeasesOutlastList, NEW reuse \in BOOLEAN, LocalLogin(reuse)
    PROVE  Devices' <= DeviceLimit
<1>1. now \in Nat /\ UNCHANGED now /\ Online(Panel) \in Nat /\ Fresh(now)
  BY OnlineNat, Constant DEF Inv, Base, TypeOK, LocalLogin
<1>2. PICK i \in LoginId \ Used :
        login' = [login EXCEPT ![i] = [pc |-> "approved", place |-> Panel, start |-> now,
                                       local |-> 0, leased |-> TRUE]]
  BY DEF LocalLogin
<1>3. PICK s \in Nat, local \in Nat :
        /\ now <= s + CacheAge /\ Cardinality(Missed(s)) <= local
        /\ Capacity(now, local) < DeviceLimit
  <2>1. CASE reuse
    <3>1. cache # NoCache /\ now <= cache.at + CacheAge /\ Capacity(now, cache.count) < DeviceLimit
      BY <2>1 DEF LocalLogin, Cached
    <3>2. cache \in [at : Nat, count : Nat]
      BY <3>1 DEF Inv, Base, TypeOK
    <3>3. cache.at \in Nat /\ cache.count \in Nat
      BY <3>2
    <3>4. PICK s \in Nat : s = cache.at
      BY <3>3
    <3>5. Cardinality(Missed(s)) <= cache.count
      BY <3>1, <3>4 DEF Inv, Listed
    <3> QED BY <3>1, <3>3, <3>4, <3>5
  <2>2. CASE ~reuse
    <3>1. Capacity(now, Online(Panel)) < DeviceLimit
      BY <2>2 DEF LocalLogin
    <3>2. now <= now + CacheAge
      BY <1>1, Constant
    <3>3. Cardinality(Missed(now)) <= Online(Panel)
      <4>1. Missed(now) \subseteq On(Panel) /\ On(Panel) \in SUBSET LoginId
        BY DEF Missed, On, At, Used
      <4> QED BY <4>1, Subset DEF On, Online
    <3> QED BY <1>1, <3>1, <3>2, <3>3
  <2> QED BY <2>1, <2>2
<1>4. PICK t \in Nat : t = now
  BY <1>1
<1>5. t <= now /\ t <= s + CacheAge /\ Fresh(t) /\ Capacity(t, local) < DeviceLimit
  BY <1>1, <1>3, <1>4
<1>6. Capacity(t, local) \in Nat /\ Cardinality(Active) \in Nat
      /\ Cardinality(Active) <= Capacity(t, local)
  BY <1>3, <1>5, DevicesWithin
<1>7. \A j \in LoginId : j # i => login'[j] = login[j]
  BY <1>2 DEF Inv, Base, TypeOK
<1>8. Active' \subseteq Active \cup {i}
  BY <1>1, <1>7 DEF Active, Used, MaySettle
<1>9. Active \in SUBSET LoginId
  BY DEF Active, Used
<1>10. Cardinality(Active') \in Nat /\ Cardinality(Active') <= Cardinality(Active) + 1
  BY <1>8, <1>9, OneMore
<1>11. Cardinality(Active') <= DeviceLimit
  BY <1>5, <1>6, <1>10, Constant
<1> QED BY <1>11 DEF Active, Devices

\* No login is approved beyond the limit: with it, the user's sessions and the approved
\* logins that may still open one stay within it, on the panel host and all nodes together,
\* if the panel's leases live as long as the lists that do not show their sessions.
THEOREM WithinLimit ==
    RestartsOutlastLogins /\ LeasesOutlastSnapshots /\ LeasesOutlastList =>
        (Spec => AdmissionWithinLimit)
<1> SUFFICES ASSUME RestartsOutlastLogins, LeasesOutlastSnapshots, LeasesOutlastList
             PROVE  Spec => AdmissionWithinLimit
  OBVIOUS
<1>1. Inv /\ [Next]_vars =>
        [(\E i \in LoginId : /\ login'[i] # Free /\ login'[i].pc = "approved"
                             /\ (login[i] = Free \/ login[i].pc = "asking"))
            => Devices' <= DeviceLimit]_vars
  <2> SUFFICES ASSUME Inv, [Next]_vars, NEW i \in LoginId, Approved(i)
               PROVE  Devices' <= DeviceLimit
    BY DEF Approved
  <2>1. Approve(i) \/ \E reuse \in BOOLEAN : LocalLogin(reuse)
    BY OthersApproveNone DEF Inv
  <2> QED BY <2>1, ApproveWithin, LocalLoginWithin
<1>2. Spec => []Inv
  BY Invariant
<1> QED BY <1>1, <1>2, PTL DEF Spec, AdmissionWithinLimit
=============================================================================
