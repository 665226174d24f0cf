----------------------------- MODULE Accounting -----------------------------
(***************************************************************************)
(* What traffic accounting promises: a unit of traffic is open from when   *)
(* it is carried until it is settled, once and for good.  It is settled by *)
(* one bill, to what it was carried for, or it is lost.  There is nothing  *)
(* here of counters, replicas, cycles and writes.                          *)
(***************************************************************************)
CONSTANTS
  Units,      \* units of traffic
  Origins,    \* what traffic is carried for
  Times,      \* when it is billed
  None        \* not carried yet

VARIABLES
  origin,     \* what each unit was carried for
  open,       \* units that are neither billed nor lost
  bills       \* the bills: a unit, an origin and a time each

vars == <<origin, open, bills>>

Bill(b, o, t) == [unit |-> b, origin |-> o, at |-> t]

Init ==
  /\ origin = [b \in Units |-> None]
  /\ open = {} /\ bills = {}

Carry(b, o) ==
  /\ origin[b] = None
  /\ origin' = [origin EXCEPT ![b] = o]
  /\ open' = open \cup {b}
  /\ UNCHANGED bills

(* At time t the units of paid are billed and those of lost are given up.  *)
Settle(paid, lost, t) ==
  /\ bills' = bills \cup {Bill(b, origin[b], t) : b \in paid}
  /\ open' = open \ (paid \cup lost)
  /\ UNCHANGED origin

Lose(lost) ==
  /\ open' = open \ lost
  /\ UNCHANGED <<origin, bills>>

Next ==
  \/ \E b \in Units, o \in Origins : Carry(b, o)
  \/ \E paid, lost \in SUBSET open, t \in Times : Settle(paid, lost, t)
  \/ \E lost \in SUBSET open : Lose(lost)

Spec == Init /\ [][Next]_vars
=============================================================================
