------------------------------ MODULE UpdateLog ------------------------------
(***************************************************************************)
(* What the collaboration service promises of one document: it takes over  *)
(* edits its clients made, it stores what it took over, what is stored     *)
(* stays, and a restart of the server costs no more than what was not      *)
(* stored yet.                                                             *)
(***************************************************************************)
EXTENDS Naturals

VARIABLES
  made,    \* edits the clients made
  held,    \* edits the service took over
  durable, \* edits a restart cannot take away
  restarts \* restarts of the server so far

vars == <<made, held, durable, restarts>>

Init == made = {} /\ held = {} /\ durable = {} /\ restarts = 0

Make ==
  /\ made \subseteq made'
  /\ UNCHANGED <<held, durable, restarts>>

Accept ==
  /\ held \subseteq held' /\ held' \subseteq made
  /\ UNCHANGED <<made, durable, restarts>>

Store ==
  /\ durable \subseteq durable' /\ durable' \subseteq held
  /\ UNCHANGED <<made, held, restarts>>

Restart ==
  /\ restarts' = restarts + 1
  /\ held' = durable
  /\ UNCHANGED <<made, durable>>

Next == Make \/ Accept \/ Store \/ Restart

Spec == Init /\ [][Next]_vars

=============================================================================
