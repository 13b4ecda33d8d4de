---------------------------- MODULE MCNetworkInfo ----------------------------
(***************************************************************************)
(* The networks by themselves, under a framework that tells of every       *)
(* network that it is up before it tells that it is gone, and lives.       *)
(***************************************************************************)
EXTENDS NetworkInfo, TLC

VARIABLE told     \* the networks the framework has told to be up

Tell(n, connected) ==
  /\ connected <=> n \notin told
  /\ ConnectionStatus(n, connected)
  /\ told' = IF connected THEN told \cup {n} ELSE told \ {n}

RegularInit == NetworkInfoInit /\ told = {}
RegularNext ==
  \/ \E n \in Network, connected \in BOOLEAN : Tell(n, connected)
  \/ NotifyNetwork /\ UNCHANGED told
RegularSpec == RegularInit /\ [][RegularNext]_<<netVars, told>>

NetworkSymmetry == Permutations(Network)
=============================================================================
