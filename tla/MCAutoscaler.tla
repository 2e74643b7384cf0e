----------------------------- MODULE MCAutoscaler -----------------------------
(* Instances of Autoscaler for TLC.                                         *)
EXTENDS Autoscaler, TLC

CONSTANT t1

\* Capacity 2: a test at rate 3 takes two workers, one at rate 1 takes one.
MCWorkerCapacity == 2
OneNarrow == t1 :> 1

=============================================================================
