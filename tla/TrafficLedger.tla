---------------------------- MODULE TrafficLedger ----------------------------
(***************************************************************************)
(* What the accounting of a node's traffic promises, without the machinery *)
(* that keeps the promise.  Traffic is carried, then either recorded or     *)
(* lost for good; recorded traffic is added to the totals at most once, or  *)
(* archived by the operator.  Nothing recorded is forgotten, nothing lost   *)
(* comes back, nothing that was never recorded is counted.                  *)
(***************************************************************************)
EXTENDS Naturals

CONSTANT Unit

VARIABLES carried, recorded, gone, total, archive

ledgerVars == <<carried, recorded, gone, total, archive>>

LedgerInit ==
    /\ carried = {} /\ recorded = {} /\ gone = {} /\ archive = {}
    /\ total = [u \in Unit |-> 0]

Carry(u) ==
    /\ u \notin carried
    /\ carried' = carried \cup {u}
    /\ UNCHANGED <<recorded, gone, total, archive>>

Record(units) ==
    /\ units \subseteq carried \ (recorded \cup gone)
    /\ recorded' = recorded \cup units
    /\ UNCHANGED <<carried, gone, total, archive>>

Lose(units) ==
    /\ units \subseteq carried \ recorded
    /\ gone' = gone \cup units
    /\ UNCHANGED <<carried, recorded, total, archive>>

Count(units) ==
    /\ units \subseteq {u \in recorded : total[u] = 0}
    /\ total' = [u \in Unit |-> IF u \in units THEN total[u] + 1 ELSE total[u]]
    /\ UNCHANGED <<carried, recorded, gone, archive>>

Archive(units) ==
    /\ units \subseteq recorded
    /\ archive' = archive \cup units
    /\ UNCHANGED <<carried, recorded, gone, total>>

LedgerNext ==
    \/ \E u \in Unit : Carry(u)
    \/ \E units \in SUBSET Unit :
         Record(units) \/ Lose(units) \/ Count(units) \/ Archive(units)

LedgerSpec == LedgerInit /\ [][LedgerNext]_ledgerVars
=============================================================================
