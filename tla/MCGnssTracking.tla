---------------------------- MODULE MCGnssTracking ----------------------------
(***************************************************************************)
(* Tracking by itself, for TLC.                                            *)
(***************************************************************************)
EXTENDS GnssTracking, TLC

Symmetry == Permutations(Client)

\* The bound of tracking_crash: a behaviour has a crash, of sessions of two
\* clients, or changes of the NHz requirement and the SV configuration, of
\* sessions of one client; not both.
Changed == budget.nhz < MaxNHz \/ budget.reconfigs < MaxReconfigs
CrashOrChange ==
  Changed => /\ budget.crashes = MaxCrashes
             /\ Cardinality({owner[id] : id \in Id} \ {Nobody}) <= 1
=============================================================================
