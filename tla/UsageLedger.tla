---------------------------- MODULE UsageLedger -----------------------------
(***************************************************************************)
(* The collector implements Accounting: a unit is open while it is in a    *)
(* counter or in a batch, and the bills are what the documents of the data *)
(* stream say.                                                             *)
(***************************************************************************)
EXTENDS UsageCollector

Open == pending \cup UNION {UnitsIn(batch[r]) : r \in Replicas}

BilledFor(d, dir) == [inbound |-> d.inbound, user |-> d.user, node |-> d.node, dir |-> dir]

BillsOf(d) ==
  {[unit |-> b, origin |-> BilledFor(d, "uplink"), at |-> d.at] : b \in d.up}
  \cup {[unit |-> b, origin |-> BilledFor(d, "downlink"), at |-> d.at] : b \in d.down}

Bills == UNION {BillsOf(d) : d \in docs}

Ledger == INSTANCE Accounting
            WITH Units <- Bytes, origin <- carried, open <- Open, bills <- Bills

(* Whatever the replicas do at once and whatever fails, every step of the  *)
(* collector carries a unit, settles open units once, by a bill to what    *)
(* they were carried for or as a loss, or is nothing to the accounts.      *)
ImplementsAccounting == Ledger!Spec
=============================================================================
