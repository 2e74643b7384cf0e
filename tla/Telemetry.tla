------------------------------ MODULE Telemetry ------------------------------
(***************************************************************************)
(* The telemetry pipeline: the executions of module Execution publish      *)
(* buckets on NATS; the aggregator (internal/aggregator) merges them into  *)
(* one window per test and reports each window every second to             *)
(* VictoriaMetrics (internal/victoria).                                    *)
(*                                                                         *)
(* The aggregator has two goroutines.  The subscription's callback, one    *)
(* message at a time, gets a window from the store and then merges the     *)
(* bucket into it; reportLoop collects the snapshots under the store's     *)
(* lock and then writes them one by one without it.  Get and Merge take    *)
(* different locks, so a report may fall between them.                     *)
(***************************************************************************)
EXTENDS Execution

CONSTANTS
  Tests,       \* the tests the executions belong to
  TestOf,      \* TestOf[e]: MetricBucket.TestID of execution e
  WorkerOf     \* WorkerOf[e]: MetricBucket.WorkerID

ASSUME TestOfAssumption == TestOf \in [Executions -> Tests]
ASSUME WorkerOfAssumption == DOMAIN WorkerOf = Executions

VARIABLES
  stored,     \* the tests with a window in Store.tests
  window,     \* window[t]: that GlobalWindow
  handling,   \* what the subscription's callback is at work on
  snapshots,  \* the snapshots reportLoop has yet to write
  exported,   \* exported[t][q]: how often q was reported to VictoriaMetrics
  lost        \* history: the requests in buckets or windows that were lost

aggregatorVars == <<stored, window, handling, snapshots, exported, lost>>

telemetryVars == <<context, engine, executing, slots, collector, watch, sent, bus,
                   stored, window, handling, snapshots, exported, lost>>

Contributors == {WorkerOf[e] : e \in Executions}

Windows == [requests : SUBSET Requests, workers : SUBSET Contributors]

NewWindow == [requests |-> {}, workers |-> {}]

Nothing == [pc |-> "idle"]

\* live: whether the window the callback got is still in the store.
Handling == {Nothing} \cup [pc : {"merge"}, bucket : Buckets, live : BOOLEAN]

Snapshots == [test : Tests, requests : SUBSET Requests, workers : SUBSET Contributors]

TelemetryTypeOK ==
  /\ ExecutionTypeOK
  /\ stored \subseteq Tests
  /\ window \in [Tests -> Windows]
  /\ handling \in Handling
  /\ snapshots \subseteq Snapshots
  /\ exported \in [Tests -> [Requests -> Nat]]
  /\ lost \subseteq Requests

AggregatorInit ==
  /\ stored = {}
  /\ window = [t \in Tests |-> NewWindow]
  /\ handling = Nothing
  /\ snapshots = {}
  /\ exported = [t \in Tests |-> [q \in Requests |-> 0]]
  /\ lost = {}

-----------------------------------------------------------------------------
(* NATS: at most once, in no order across publishers                       *)

\* A bucket is lost: Publish fails, or no one is connected to receive it.
BucketLost(b) ==
  /\ b \in bus
  /\ bus' = bus \ {b}
  /\ lost' = lost \cup b.requests
  /\ UNCHANGED <<context, engine, executing, slots, collector, watch, sent,
                 stored, window, handling, snapshots, exported>>

\* WHO: the callback.  Store.Get, which creates the window of a test unseen.
SubscriberGets(b) ==
  /\ b \in bus
  /\ bus' = bus \ {b}
  /\ handling = Nothing
  /\ handling' = [pc |-> "merge", bucket |-> b, live |-> TRUE]
  /\ stored' = stored \cup {TestOf[b.execution]}
  /\ UNCHANGED <<context, engine, executing, slots, collector, watch, sent,
                 window, snapshots, exported, lost>>

\* WHO: the callback.  GlobalWindow.Merge: into a window that the store no
\* longer has, if a report has deleted it, and then no report sees it.
SubscriberMerges ==
  /\ handling.pc = "merge"
  /\ handling' = Nothing
  /\ LET e == handling.bucket.execution
     IN  IF handling.live
         THEN /\ window' = [window EXCEPT
                   ![TestOf[e]] = [requests |-> @.requests \cup handling.bucket.requests,
                                   workers  |-> @.workers \cup {WorkerOf[e]}]]
              /\ UNCHANGED lost
         ELSE /\ lost' = lost \cup handling.bucket.requests
              /\ UNCHANGED window
  /\ UNCHANGED <<executionVars, stored, snapshots, exported>>

-----------------------------------------------------------------------------
(* report                                                                  *)

EmptyWindows == {t \in stored : window[t].requests = {}}

SnapshotOf(t) == [test |-> t, requests |-> window[t].requests, workers |-> window[t].workers]

\* Defect variant: the set of workers is not reset with the counters.
ResetCounters(t) == [window[t] EXCEPT !.requests = {}]

\* Defect variant: the map of workers is left nil, and the next Merge panics.
ResetWorkersNil(t) == [requests |-> {}]

\* A window that was collected starts anew.
ResetWindow(t) == NewWindow

\* WHO: reportLoop.  Under the store's lock a window without requests is
\* deleted, and each of the others is copied and reset.
ReportCollects ==
  /\ snapshots = {}
  /\ stored' = stored \ EmptyWindows
  /\ snapshots' = {SnapshotOf(t) : t \in stored'}
  /\ window' = [t \in Tests |-> IF t \in stored' THEN ResetWindow(t) ELSE NewWindow]
  /\ handling' = IF handling.pc = "merge" /\ TestOf[handling.bucket.execution] \in EmptyWindows
                 THEN [handling EXCEPT !.live = FALSE] ELSE handling
  /\ UNCHANGED <<executionVars, exported, lost>>

\* VictoriaMetrics is told of the requests of a snapshot.
Told(s) ==
  exported' = [exported EXCEPT
                 ![s.test] = [q \in Requests |-> IF q \in s.requests THEN @[q] + 1 ELSE @[q]]]

\* Defect variant: a write that fails stops the report and is tried again.
ReportWritesKeeping(s) ==
  /\ s \in snapshots
  /\ Told(s)
  /\ snapshots' \in {snapshots, snapshots \ {s}}
  /\ UNCHANGED <<executionVars, stored, window, handling, lost>>

\* WHO: reportLoop.  A snapshot is written, whether or not the answer says so.
ReportWrites(s) ==
  /\ s \in snapshots
  /\ snapshots' = snapshots \ {s}
  /\ Told(s)
  /\ UNCHANGED <<executionVars, stored, window, handling, lost>>

\* WHO: reportLoop.  The write fails; the error is logged and that is all.
ReportFails(s) ==
  /\ s \in snapshots
  /\ snapshots' = snapshots \ {s}
  /\ lost' = lost \cup s.requests
  /\ UNCHANGED <<executionVars, stored, window, handling, exported>>

InHand == IF handling.pc = "merge" THEN handling.bucket.requests ELSE {}

\* What the aggregator has in memory.
InMemory ==
  (UNION {window[t].requests : t \in Tests}) \cup (UNION {s.requests : s \in snapshots}) \cup InHand

\* The aggregator stops and is started again with nothing.
AggregatorRestarts ==
  /\ stored # {} \/ snapshots # {} \/ handling # Nothing
  /\ stored' = {}
  /\ window' = [t \in Tests |-> NewWindow]
  /\ handling' = Nothing
  /\ snapshots' = {}
  /\ lost' = lost \cup InMemory
  /\ UNCHANGED <<executionVars, exported>>

-----------------------------------------------------------------------------

TelemetryInit == ExecutionInit /\ AggregatorInit

TelemetryNext ==
  \/ \E e \in Executions : ExecutionStep(e) /\ UNCHANGED aggregatorVars
  \/ \E b \in bus : BucketLost(b) \/ SubscriberGets(b)
  \/ SubscriberMerges
  \/ ReportCollects
  \/ \E s \in snapshots : ReportWrites(s) \/ ReportFails(s)
  \/ AggregatorRestarts

TelemetrySpec == TelemetryInit /\ [][TelemetryNext]_telemetryVars

\* Requests end (runCtx reaches the HTTP client), goroutines are scheduled, a
\* cancelled scheduler is told, the two tickers keep firing and messages are
\* handled.  Nothing is assumed of the duration, which may be long.
Running(A) == A /\ UNCHANGED aggregatorVars

TelemetryFairness ==
  /\ \A e \in Executions :
       /\ WF_telemetryVars(\E q \in Requests : Running(Record(e, q) \/ RequestEnds(e, q)))
       /\ WF_telemetryVars(context[e] # "live" /\ Running(PacingEnds(e)))
       /\ WF_telemetryVars(Running(EngineReturns(e)))
       /\ WF_telemetryVars(Running(FlushTick(e) /\ UNCHANGED context))
       /\ WF_telemetryVars(Running(ExecutionFinishes(e)))
  /\ WF_telemetryVars(\E b \in bus : SubscriberGets(b))
  /\ WF_telemetryVars(SubscriberMerges)
  /\ WF_telemetryVars(ReportCollects)
  /\ WF_telemetryVars(\E s \in snapshots : ReportWrites(s))

FairTelemetrySpec == TelemetrySpec /\ TelemetryFairness

-----------------------------------------------------------------------------
(* Safety                                                                  *)

\* The places that hold request q, or a count of it.
Places(q) ==
  {<<"executing", e>> : e \in {f \in Executions : q \in executing[f]}} \cup
  {<<"collector", e>> : e \in {f \in Executions : q \in collector[f]}} \cup
  {<<"bus", b>> : b \in {c \in bus : q \in c.requests}} \cup
  (IF q \in InHand THEN {<<"in hand", handling>>} ELSE {}) \cup
  {<<"window", t>> : t \in {u \in Tests : q \in window[u].requests}} \cup
  {<<"snapshot", s>> : s \in {r \in snapshots : q \in r.requests}} \cup
  {<<"exported", t>> : t \in {u \in Tests : exported[u][q] > 0}} \cup
  (IF q \in lost THEN {<<"lost", lost>>} ELSE {})

\* A request made is counted in one place and one only, from the goroutine
\* that makes it to VictoriaMetrics, whatever flushes, merges, reports and
\* restarts run into each other; where it is lost, that is a known fault.
CountedOnce ==
  \A q \in Requests : Cardinality(Places(q)) = IF q \in Sent THEN 1 ELSE 0

\* A snapshot names exactly the workers whose requests it counts: counters
\* and contributors are taken and reset together.
ContributorsMatch ==
  \A s \in snapshots :
    s.workers = {WorkerOf[e] : e \in {f \in Executions : s.requests \cap sent[f] # {}}}

-----------------------------------------------------------------------------
(* Refinement: a transport that counts at most once                        *)

Counting == INSTANCE AtMostOnce
  WITH made <- [t \in Tests |-> UNION {sent[e] : e \in {f \in Executions : TestOf[f] = t}}],
       told <- exported,
       gone <- lost

\* To the dashboards the pipeline is what AtMostOnce says: each request is
\* reported for its own test, once or never, and what was lost stays lost.
ImplementsAtMostOnce == Counting!CountingSpec

-----------------------------------------------------------------------------
(* Liveness, under FairTelemetrySpec                                       *)

Reported(q) == \E t \in Tests : exported[t][q] > 0

\* A stop, or a shutdown, ends the run of the engine however much of the
\* duration is left and however many slots are taken.
CancelEndsRun ==
  \A e \in Executions : context[e] # "live" ~> engine[e] = "returned"

\* What is recorded is reported, unless a known fault loses it or the process
\* shuts down with it: nothing stays in a collector, a bucket or a window.
RecordedIsReported ==
  \A q \in Requests :
    (\E e \in Executions : q \in collector[e]) ~>
      \/ Reported(q) \/ q \in lost
      \/ \E e \in Executions : watch[e] = "abandoned" /\ q \in collector[e]

-----------------------------------------------------------------------------
(* What the documents say of the program and its code does not keep        *)

\* The bucket at hand is merged into a window that reports go through.
MergedIsReported == handling.pc = "merge" => handling.live

=============================================================================
