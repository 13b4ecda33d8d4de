---------------------------- MODULE MCGnssAdapter ----------------------------
(***************************************************************************)
(* Tracking and the control session, the two large parts of GnssAdapter,   *)
(* in one run.  They share no state but the adapter's thread, and one part *)
(* is chosen at the start and runs.                                        *)
(***************************************************************************)
EXTENDS GnssTracking, GnssControl

VARIABLE running

AdapterInit ==
  /\ running \in {"tracking", "control"} /\ Init /\ ControlInit
  /\ running = "tracking" => framework = "P"        \* tracking does not look at it

TrackingRuns == running = "tracking" /\ Next /\ UNCHANGED <<running, controlVars>>
ControlRuns == running = "control" /\ ControlNext /\ UNCHANGED <<running, vars>>
AdapterNext == TrackingRuns \/ ControlRuns

AdapterSpec == AdapterInit /\ [][AdapterNext]_<<running, vars, controlVars>>

\* The state of both parts has its type, whichever runs.
AdapterTypeOK == TypeOK /\ ControlTypeOK
=============================================================================
