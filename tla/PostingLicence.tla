------------------------- MODULE PostingLicence -------------------------
(***************************************************************************)
(* What the outbox promises to a chat room, without rows, claims, leases   *)
(* or clocks.  Every part of a delivery is posted at most as often as      *)
(* somebody has asked for it: the first request grants one posting, and a  *)
(* further one is granted only by a deliberate decision to send again.     *)
(***************************************************************************)
EXTENDS Naturals

CONSTANTS Deliveries,   \* what may be posted
          Parts         \* a delivery is posted in parts 1 .. Parts

VARIABLES posted,       \* how often each part of each delivery was posted
          licence       \* how often it may be posted

vars == <<posted, licence>>

Init ==
  /\ posted  = [d \in Deliveries |-> [p \in 1..Parts |-> 0]]
  /\ licence = [d \in Deliveries |-> 1]

\* A step posts some parts, each only below the licence it had before the
\* step, and may grant some deliveries one more posting of their parts.
Step ==
  /\ posted'  \in [Deliveries -> [1..Parts -> Nat]]
  /\ licence' \in [Deliveries -> Nat]
  /\ \A d \in Deliveries :
       /\ licence'[d] \in {licence[d], licence[d] + 1}
       /\ \A p \in 1..Parts :
            /\ posted'[d][p] >= posted[d][p]
            /\ posted'[d][p] > posted[d][p] => posted'[d][p] <= licence[d]

Spec == Init /\ [][Step]_vars

\* No part is posted more often than licensed.
WithinLicence ==
  \A d \in Deliveries : \A p \in 1..Parts : posted[d][p] <= licence[d]
=========================================================================
