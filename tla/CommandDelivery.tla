-------------------------- MODULE CommandDelivery ---------------------------
(***************************************************************************)
(* What the secure link promises, without keys, packets or clocks: ground  *)
(* stations seal commands, the satellite executes sealed commands, each at *)
(* most once and in any order.                                             *)
(***************************************************************************)
EXTENDS Sequences

VARIABLES
  sealed,     \* the packets sealed so far
  executed    \* the packets executed, in order

Init == sealed = {} /\ executed = <<>>

Seal ==
  /\ sealed \subseteq sealed'
  /\ UNCHANGED executed

Execute ==
  \E packet \in sealed :
    /\ \A i \in DOMAIN executed : executed[i] # packet
    /\ executed' = Append(executed, packet)
    /\ UNCHANGED sealed

Next == Seal \/ Execute

Spec == Init /\ [][Next]_<<sealed, executed>>
=============================================================================
