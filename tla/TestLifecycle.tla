---------------------------- MODULE TestLifecycle ----------------------------
(***************************************************************************)
(* What the control plane promises about the life of a test: the abstract  *)
(* specification that ControlPlane implements.  It has no workers, no      *)
(* assignments and no requests, only the status a client sees and how far  *)
(* the one start a test can have has come.                                 *)
(*                                                                         *)
(* The transitions are those the service code and its last, unconditional  *)
(* writes allow; docs/lifecycle.md draws the same diagram without the      *)
(* three that overtake each other (Run and Stopped may overwrite any       *)
(* status, GiveUp may find a test that was stopped).                       *)
(***************************************************************************)
CONSTANT Tests

VARIABLES
  status,    \* status[t]: tests.status, or NoTest
  claim,     \* claim[t]: how far the start of t has come
  stopping,  \* the tests some stop request is at work on
  cut        \* the tests with an execution ended by a stop, not by its worker

lifecycleVars == <<status, claim, stopping, cut>>

NoTest == "NONE"

Claims == {"none", "starting", "allocated", "spent"}

LifecycleInit ==
  /\ status = [t \in Tests |-> NoTest]
  /\ claim = [t \in Tests |-> "none"]
  /\ stopping = {}
  /\ cut = {}

Create(t) ==
  /\ status[t] = NoTest
  /\ status' = [status EXCEPT ![t] = "CREATED"]
  /\ UNCHANGED <<claim, stopping, cut>>

\* One start at a time is on its way, and none once workers were allocated.
Claim(t) ==
  /\ status[t] = "CREATED" /\ claim[t] = "none"
  /\ status' = [status EXCEPT ![t] = "STARTING"]
  /\ claim' = [claim EXCEPT ![t] = "starting"]
  /\ UNCHANGED <<stopping, cut>>

\* The start returns an error: the test is CREATED again, unless a stop took
\* it from STARTING meanwhile.
GiveUp(t) ==
  /\ claim[t] = "starting"
  /\ status' = [status EXCEPT ![t] = IF @ = "STARTING" THEN "CREATED" ELSE @]
  /\ claim' = [claim EXCEPT ![t] = "none"]
  /\ UNCHANGED <<stopping, cut>>

\* The start's request is cut off.
Abandon(t) ==
  /\ claim[t] \in {"starting", "allocated"}
  /\ claim' = [claim EXCEPT ![t] = IF @ = "starting" THEN "none" ELSE "spent"]
  /\ UNCHANGED <<status, stopping, cut>>

Allocate(t) ==
  /\ claim[t] = "starting"
  /\ claim' = [claim EXCEPT ![t] = "allocated"]
  /\ UNCHANGED <<status, stopping, cut>>

\* Only the start that allocated the workers makes a test RUNNING, once.
Run(t) ==
  /\ claim[t] = "allocated"
  /\ status' = [status EXCEPT ![t] = "RUNNING"]
  /\ claim' = [claim EXCEPT ![t] = "spent"]
  /\ UNCHANGED <<stopping, cut>>

BeginStop(t) ==
  /\ status[t] \in {"CREATED", "STARTING", "RUNNING", "STOPPING"}
  /\ stopping' = stopping \cup {t}
  /\ UNCHANGED <<status, claim, cut>>

MarkStopping(t) ==
  /\ t \in stopping
  /\ status[t] \in {"CREATED", "STARTING", "RUNNING"}
  /\ status' = [status EXCEPT ![t] = "STOPPING"]
  /\ UNCHANGED <<claim, stopping, cut>>

\* The stop ends what its workers still had to do.
CutShort(t) ==
  /\ t \in stopping
  /\ cut' = cut \cup {t}
  /\ UNCHANGED <<status, claim, stopping>>

\* Several stops of a test may be at work; each of them writes STOPPED.
Stopped(t) ==
  /\ t \in stopping
  /\ status' = [status EXCEPT ![t] = "STOPPED"]
  /\ stopping' \in {stopping, stopping \ {t}}
  /\ UNCHANGED <<claim, cut>>

StopFails(t) ==
  /\ t \in stopping
  /\ stopping' = stopping \ {t}
  /\ UNCHANGED <<status, claim, cut>>

\* Only a RUNNING test completes, and never one whose work was cut short.
Complete(t) ==
  /\ status[t] = "RUNNING" /\ claim[t] = "spent" /\ t \notin cut
  /\ status' = [status EXCEPT ![t] = "COMPLETED"]
  /\ UNCHANGED <<claim, stopping, cut>>

\* One sweep may fail several tests, all of them RUNNING.
Fail(failed) ==
  /\ \A t \in failed : status[t] = "RUNNING" /\ claim[t] = "spent"
  /\ status' = [t \in Tests |-> IF t \in failed THEN "FAILED" ELSE status[t]]
  /\ UNCHANGED <<claim, stopping, cut>>

LifecycleNext ==
  \/ \E failed \in SUBSET Tests : Fail(failed)
  \/ \E t \in Tests :
       \/ Create(t)
       \/ Claim(t) \/ GiveUp(t) \/ Abandon(t) \/ Allocate(t) \/ Run(t)
       \/ BeginStop(t) \/ MarkStopping(t) \/ CutShort(t) \/ Stopped(t) \/ StopFails(t)
       \/ Complete(t)

LifecycleSpec == LifecycleInit /\ [][LifecycleNext]_lifecycleVars

=============================================================================
