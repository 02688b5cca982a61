-------------------------------- MODULE Fills --------------------------------
(***************************************************************************)
(* What the execution path promises about an order: its swap takes effect  *)
(* at most once, and the ledger is posted at most once, after the effect.  *)
(* settlement.ts: "Post a final receipt once."                             *)
(***************************************************************************)
EXTENDS Naturals

CONSTANTS Order,
          Fill      \* the effects a swap may have, records with a field order

VARIABLES executed, \* the fills that happened on the chain
          posted    \* ledger rows per order

Init ==
  /\ executed = {}
  /\ posted = [o \in Order |-> 0]

Execute(f) ==
  /\ f \in Fill
  /\ \A g \in executed : g.order # f.order
  /\ executed' = executed \cup {f}
  /\ UNCHANGED posted

Post(o) ==
  /\ posted[o] = 0
  /\ \E f \in executed : f.order = o
  /\ posted' = [posted EXCEPT ![o] = 1]
  /\ UNCHANGED executed

Next == (\E f \in Fill : Execute(f)) \/ (\E o \in Order : Post(o))

Spec == Init /\ [][Next]_<<executed, posted>>
=============================================================================
