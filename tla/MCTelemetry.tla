----------------------------- MODULE MCTelemetry -----------------------------
(* Instances of Telemetry for TLC.                                          *)
EXTENDS Telemetry, TLC

CONSTANTS e1, e2, t1, t2, w1, w2

\* Two workers on one test, or one.
SharedTest == e1 :> t1 @@ e2 :> t1
OneTest == e1 :> t1
TwoWorkers == e1 :> w1 @@ e2 :> w2
OneWorker == e1 :> w1

=============================================================================
