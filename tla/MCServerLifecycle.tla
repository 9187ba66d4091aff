-------------------------- MODULE MCServerLifecycle --------------------------
(* An instance of ServerLifecycle for TLC: one connection at a time, every   *)
(* kind of request, grace periods of none, one that is too short and one     *)
(* that just suffices.                                                       *)
EXTENDS ServerLifecycle, TLC

CONSTANT c1

MCConns == {c1}
MCKinds == DOMAIN Plans
MCConfigs ==
  {[grace |-> 0, failOpen |-> TRUE, retryPost |-> TRUE],
   [grace |-> 1, failOpen |-> FALSE, retryPost |-> FALSE],
   [grace |-> HeaderTimeout + LongestRequest + 1, failOpen |-> TRUE, retryPost |-> FALSE],
   [grace |-> HeaderTimeout + LongestRequest + 1, failOpen |-> FALSE, retryPost |-> TRUE]}
=============================================================================
