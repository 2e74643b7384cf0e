---------------------------- MODULE TelemetryProofs ----------------------------
(***************************************************************************)
(* Proofs about modules Execution and Telemetry, for every set of          *)
(* executions, tests and requests: what the collectors, the bus and the    *)
(* aggregator hold, and that the pipeline implements AtMostOnce.           *)
(***************************************************************************)
EXTENDS Telemetry, FiniteSetTheorems, TLAPS

-----------------------------------------------------------------------------
(* Types                                                                   *)

LEMMA TypeInit == TelemetryInit => TelemetryTypeOK
  BY DEF TelemetryInit, ExecutionInit, AggregatorInit, TelemetryTypeOK, ExecutionTypeOK, Contexts,
         Windows, NewWindow, Handling, Nothing

\* An execution publishes what its collector held, and nothing else.
LEMMA FlushTypes ==
  ASSUME ExecutionTypeOK, NEW e \in Executions, Flush(e)
  PROVE  /\ collector' = [collector EXCEPT ![e] = {}]
         /\ collector' \in [Executions -> SUBSET Requests]
         /\ \/ bus' = bus /\ collector[e] = {}
            \/ /\ collector[e] # {}
               /\ bus' = bus \cup {[execution |-> e, requests |-> collector[e]]}
         /\ bus' \subseteq Buckets
  BY DEF Flush, ExecutionTypeOK, Buckets

LEMMA ExecutionTypes ==
  ASSUME ExecutionTypeOK, NEW e \in Executions, ExecutionStep(e)
  PROVE  ExecutionTypeOK'
  <1>1. ASSUME NEW q \in Requests, Tick(e, q) \/ Record(e, q) \/ RequestEnds(e, q)
        PROVE  ExecutionTypeOK'
    BY <1>1 DEF Tick, Record, RequestEnds, ExecutionTypeOK
  <1>2. CASE PacingEnds(e) \/ EngineReturns(e) \/ ShutDown(e) \/ ExecutionAbandoned(e)
    BY <1>2 DEF PacingEnds, EngineReturns, ShutDown, ExecutionAbandoned, ExecutionTypeOK, Contexts
  <1>3. CASE FlushTick(e) \/ ExecutionFinishes(e)
    <2>1. Flush(e)
      BY <1>3 DEF FlushTick, ExecutionFinishes
    <2>. QED
      BY <1>3, <2>1, FlushTypes DEF FlushTick, ExecutionFinishes, ExecutionTypeOK, Contexts
  <1>. QED
    BY <1>1, <1>2, <1>3 DEF ExecutionStep

AggregatorTypeOK ==
  /\ stored \subseteq Tests
  /\ window \in [Tests -> Windows]
  /\ handling \in Handling
  /\ snapshots \subseteq Snapshots
  /\ exported \in [Tests -> [Requests -> Nat]]
  /\ lost \subseteq Requests

LEMMA AggregatorTypes ==
  ASSUME TelemetryTypeOK,
         \/ \E b \in bus : BucketLost(b) \/ SubscriberGets(b)
         \/ SubscriberMerges \/ ReportCollects
         \/ \E s \in snapshots : ReportWrites(s) \/ ReportFails(s)
         \/ AggregatorRestarts
  PROVE  AggregatorTypeOK'
  <1> USE DEF TelemetryTypeOK, AggregatorTypeOK
  <1>0. /\ \A b \in Buckets : /\ b.execution \in Executions /\ b.requests \subseteq Requests
                              /\ TestOf[b.execution] \in Tests
                              /\ WorkerOf[b.execution] \in Contributors
        /\ bus \subseteq Buckets /\ NewWindow \in Windows /\ Nothing \in Handling
    BY TestOfAssumption DEF Buckets, ExecutionTypeOK, NewWindow, Windows, Nothing, Handling, Contributors
  <1>1. ASSUME NEW b \in bus, BucketLost(b) PROVE AggregatorTypeOK'
    BY <1>0, <1>1 DEF BucketLost
  <1>2. ASSUME NEW b \in bus, SubscriberGets(b) PROVE AggregatorTypeOK'
    BY <1>0, <1>2 DEF SubscriberGets, Handling
  <1>3. CASE SubscriberMerges
    <2>1. handling.pc = "merge" /\ handling.bucket \in Buckets
      BY <1>3 DEF SubscriberMerges, Handling, Nothing
    <2> DEFINE e == handling.bucket.execution
               merged == [requests |-> window[TestOf[e]].requests \cup handling.bucket.requests,
                          workers  |-> window[TestOf[e]].workers \cup {WorkerOf[e]}]
    <2>2. merged \in Windows
      BY <1>0, <2>1 DEF Windows
    <2>3. window' \in [Tests -> Windows] /\ lost' \subseteq Requests
      <3> HIDE DEF merged
      <3>1. window' = [window EXCEPT ![TestOf[e]] = merged] \/ window' = window
        BY <1>3 DEF SubscriberMerges, merged
      <3>2. lost' = lost \cup handling.bucket.requests \/ lost' = lost
        BY <1>3 DEF SubscriberMerges
      <3>. QED
        BY <1>0, <2>1, <2>2, <3>1, <3>2
    <2>. QED
      BY <1>0, <1>3, <2>3 DEF SubscriberMerges
  <1>4. CASE ReportCollects
    <2>1. stored' \subseteq Tests
      BY <1>4 DEF ReportCollects
    <2>2. window' \in [Tests -> Windows]
      BY <1>0, <1>4 DEF ReportCollects, ResetWindow
    <2>3. handling' \in Handling
      BY <1>4 DEF ReportCollects, Handling, Nothing
    <2>4. \A t \in Tests : SnapshotOf(t) \in Snapshots
      BY DEF SnapshotOf, Snapshots, Windows
    <2>5. snapshots' \subseteq Snapshots
      BY <1>4, <2>1, <2>4 DEF ReportCollects
    <2>. QED
      BY <1>4, <2>1, <2>2, <2>3, <2>5 DEF ReportCollects
  <1>5. ASSUME NEW s \in snapshots, ReportWrites(s) \/ ReportFails(s) PROVE AggregatorTypeOK'
    <2>1. s.test \in Tests /\ s.requests \subseteq Requests
      BY DEF Snapshots
    <2>2. exported' \in [Tests -> [Requests -> Nat]]
      <3> DEFINE row == [q \in Requests |-> IF q \in s.requests THEN exported[s.test][q] + 1
                                                                ELSE exported[s.test][q]]
      <3>1. row \in [Requests -> Nat]
        BY <2>1
      <3>2. exported' = [exported EXCEPT ![s.test] = row] \/ exported' = exported
        BY <1>5 DEF ReportWrites, ReportFails, Told
      <3>. QED
        BY <2>1, <3>1, <3>2
    <2>. QED
      BY <1>5, <2>1, <2>2 DEF ReportWrites, ReportFails
  <1>6. CASE AggregatorRestarts
    <2>1. InMemory \subseteq Requests
      <3>1. \A t \in Tests : window[t].requests \subseteq Requests
        BY DEF Windows
      <3>2. \A s \in snapshots : s.requests \subseteq Requests
        BY DEF Snapshots
      <3>3. InHand \subseteq Requests
        <4>1. handling.pc = "merge" => handling.bucket \in Buckets
          BY DEF Handling, Nothing
        <4>. QED
          BY <1>0, <4>1 DEF InHand
      <3>. QED
        BY <3>1, <3>2, <3>3 DEF InMemory
    <2>. QED
      BY <1>0, <1>6, <2>1 DEF AggregatorRestarts
  <1>. QED
    BY <1>1, <1>2, <1>3, <1>4, <1>5, <1>6

LEMMA TypeStep == TelemetryTypeOK /\ [TelemetryNext]_telemetryVars => TelemetryTypeOK'
  <1> SUFFICES ASSUME TelemetryTypeOK, [TelemetryNext]_telemetryVars PROVE TelemetryTypeOK'
    OBVIOUS
  <1>1. ASSUME NEW e \in Executions, ExecutionStep(e) /\ UNCHANGED aggregatorVars
        PROVE  TelemetryTypeOK'
    BY <1>1, ExecutionTypes DEF TelemetryTypeOK, aggregatorVars
  <1>2. CASE \/ \E b \in bus : BucketLost(b) \/ SubscriberGets(b)
             \/ SubscriberMerges \/ ReportCollects
             \/ \E s \in snapshots : ReportWrites(s) \/ ReportFails(s)
             \/ AggregatorRestarts
    <2>1. /\ UNCHANGED <<context, engine, executing, slots, collector, watch, sent>>
          /\ bus' \subseteq bus
      BY <1>2 DEF BucketLost, SubscriberGets, SubscriberMerges, ReportCollects, ReportWrites, ReportFails,
                  AggregatorRestarts, executionVars
    <2>2. ExecutionTypeOK'
      BY <2>1 DEF TelemetryTypeOK, ExecutionTypeOK
    <2>. QED
      BY <1>2, <2>2, AggregatorTypes DEF TelemetryTypeOK, AggregatorTypeOK
  <1>3. CASE UNCHANGED telemetryVars
    BY <1>3 DEF telemetryVars, TelemetryTypeOK, ExecutionTypeOK
  <1>. QED
    BY <1>1, <1>2, <1>3 DEF TelemetryNext

\* The types of both modules, for every number of executions and requests.
THEOREM TelemetryTypes == TelemetrySpec => []TelemetryTypeOK
  BY TypeInit, TypeStep, PTL DEF TelemetrySpec

-----------------------------------------------------------------------------
(* The last flush                                                          *)

\* A request holds its slot until its result is recorded, and the engine
\* returns when no slot is held.
EngineInv ==
  \A e \in Executions :
    /\ executing[e] \subseteq slots[e]
    /\ engine[e] = "returned" => slots[e] = {}
    /\ watch[e] = "finished" => engine[e] = "returned" /\ collector[e] = {}

LEMMA EngineStep ==
  ASSUME ExecutionTypeOK, EngineInv, NEW e \in Executions, ExecutionStep(e)
  PROVE  EngineInv'
  <1> USE DEF ExecutionTypeOK, EngineInv
  <1>1. ASSUME NEW q \in Requests, Tick(e, q) PROVE EngineInv'
    BY <1>1 DEF Tick
  <1>2. ASSUME NEW q \in Requests, Record(e, q) PROVE EngineInv'
    BY <1>2 DEF Record
  <1>3. ASSUME NEW q \in Requests, RequestEnds(e, q) PROVE EngineInv'
    BY <1>3 DEF RequestEnds
  <1>4. CASE PacingEnds(e) \/ EngineReturns(e)
    BY <1>4 DEF PacingEnds, EngineReturns
  <1>5. CASE ShutDown(e) \/ ExecutionAbandoned(e)
    BY <1>5 DEF ShutDown, ExecutionAbandoned
  <1>6. CASE FlushTick(e) \/ ExecutionFinishes(e)
    <2>1. collector' = [collector EXCEPT ![e] = {}]
      BY <1>6 DEF FlushTick, ExecutionFinishes, Flush
    <2>. QED
      BY <1>6, <2>1 DEF FlushTick, ExecutionFinishes
  <1>. QED
    BY <1>1, <1>2, <1>3, <1>4, <1>5, <1>6 DEF ExecutionStep

\* When execute has made its last flush nothing is in flight any more and
\* nothing recorded was left behind.
THEOREM LastFlushIsLast == TelemetrySpec => []NothingAfterLastFlush
  <1>1. TelemetryInit => EngineInv
    BY DEF TelemetryInit, ExecutionInit, EngineInv
  <1>2. TelemetryTypeOK /\ EngineInv /\ [TelemetryNext]_telemetryVars => EngineInv'
    <2> SUFFICES ASSUME TelemetryTypeOK, EngineInv, [TelemetryNext]_telemetryVars PROVE EngineInv'
      OBVIOUS
    <2>1. ASSUME NEW e \in Executions, ExecutionStep(e) PROVE EngineInv'
      BY <2>1, EngineStep DEF TelemetryTypeOK
    <2>2. ASSUME UNCHANGED <<engine, executing, slots, collector, watch>> PROVE EngineInv'
      BY <2>2 DEF EngineInv
    <2>. QED
      BY <2>1, <2>2
         DEF TelemetryNext, BucketLost, SubscriberGets, SubscriberMerges, ReportCollects, ReportWrites,
             ReportFails, AggregatorRestarts, executionVars, telemetryVars
  <1>3. EngineInv => NothingAfterLastFlush
    BY DEF EngineInv, NothingAfterLastFlush
  <1>. QED
    BY <1>1, <1>2, <1>3, TelemetryTypes, PTL DEF TelemetrySpec

-----------------------------------------------------------------------------
(* Where a request is counted                                              *)

Flying(q) == \E e \in Executions : q \in executing[e]
Recorded(q) == \E e \in Executions : q \in collector[e]
OnBus(q) == \E b \in bus : q \in b.requests
InWindow(q) == \E t \in Tests : q \in window[t].requests
InSnapshot(q) == \E s \in snapshots : q \in s.requests

\* One execution made the request, and everything that counts it knows which
\* execution, or which test, that was.
MadeFor(t, q) == \E e \in Executions : TestOf[e] = t /\ q \in sent[e]

SentOnce ==
  \A e, f \in Executions, q \in Requests : q \in sent[e] /\ q \in sent[f] => e = f

Owned ==
  /\ \A e \in Executions : executing[e] \subseteq sent[e] /\ collector[e] \subseteq sent[e]
  /\ \A b \in bus : b.requests # {} /\ b.requests \subseteq sent[b.execution]
  /\ handling.pc = "merge" =>
       handling.bucket.requests # {} /\ handling.bucket.requests \subseteq sent[handling.bucket.execution]
  /\ \A t \in Tests, q \in Requests :
       q \in window[t].requests \/ exported[t][q] > 0 => MadeFor(t, q)
  /\ \A s \in snapshots : \A q \in s.requests : MadeFor(s.test, q)

\* No two buckets and no two snapshots share a request, and none is reported
\* twice.
NoTwins ==
  /\ \A b, c \in bus, q \in Requests : q \in b.requests /\ q \in c.requests => b = c
  /\ \A r, s \in snapshots, q \in Requests : q \in r.requests /\ q \in s.requests => r = s
  /\ \A t \in Tests, q \in Requests : exported[t][q] \in {0, 1}

\* A request that was made is in one of the eight places, and in one only.
Single(q) ==
  /\ Flying(q) => ~Recorded(q)
  /\ Flying(q) \/ Recorded(q) => ~OnBus(q)
  /\ Flying(q) \/ Recorded(q) \/ OnBus(q) => q \notin InHand
  /\ Flying(q) \/ Recorded(q) \/ OnBus(q) \/ q \in InHand => ~InWindow(q)
  /\ Flying(q) \/ Recorded(q) \/ OnBus(q) \/ q \in InHand \/ InWindow(q) => ~InSnapshot(q)
  /\ Flying(q) \/ Recorded(q) \/ OnBus(q) \/ q \in InHand \/ InWindow(q) \/ InSnapshot(q) => ~Reported(q)
  /\ Flying(q) \/ Recorded(q) \/ OnBus(q) \/ q \in InHand \/ InWindow(q) \/ InSnapshot(q) \/ Reported(q)
       => q \notin lost
  /\ q \in Sent <=> \/ Flying(q) \/ Recorded(q) \/ OnBus(q) \/ q \in InHand \/ InWindow(q)
                    \/ InSnapshot(q) \/ Reported(q) \/ q \in lost

\* Only windows in the store hold anything, and a bucket at hand is merged
\* into one of those unless a report took it away.
StoreInv ==
  /\ \A t \in Tests \ stored : window[t].requests = {}
  /\ handling.pc = "merge" /\ handling.live => TestOf[handling.bucket.execution] \in stored

CountInv == SentOnce /\ Owned /\ NoTwins /\ (\A q \in Requests : Single(q)) /\ StoreInv

LEMMA CountInvInit == TelemetryInit => CountInv
  <1> SUFFICES ASSUME TelemetryInit PROVE CountInv
    OBVIOUS
  <1> USE DEF TelemetryInit, ExecutionInit, AggregatorInit, NewWindow, Nothing
  <1>1. SentOnce /\ Owned /\ NoTwins /\ StoreInv
    BY DEF SentOnce, Owned, NoTwins, StoreInv
  <1>2. ASSUME NEW q \in Requests PROVE Single(q)
    <2>1. ~Flying(q) /\ ~Recorded(q) /\ ~OnBus(q) /\ q \notin InHand /\ q \notin Sent
      BY DEF Flying, Recorded, OnBus, InHand, Sent
    <2>2. ~InWindow(q) /\ ~InSnapshot(q) /\ ~Reported(q) /\ q \notin lost
      BY DEF InWindow, InSnapshot, Reported
    <2>. QED
      BY <2>1, <2>2 DEF Single
  <1>. QED
    BY <1>1, <1>2 DEF CountInv

\* What does not change is counted where it was.
LEMMA Frames ==
  /\ sent' = sent => Sent' = Sent /\ \A t, q : MadeFor(t, q)' <=> MadeFor(t, q)
  /\ executing' = executing => \A q : Flying(q)' <=> Flying(q)
  /\ collector' = collector => \A q : Recorded(q)' <=> Recorded(q)
  /\ bus' = bus => \A q : OnBus(q)' <=> OnBus(q)
  /\ handling' = handling => InHand' = InHand
  /\ window' = window => \A q : InWindow(q)' <=> InWindow(q)
  /\ snapshots' = snapshots => \A q : InSnapshot(q)' <=> InSnapshot(q)
  /\ exported' = exported => \A q : Reported(q)' <=> Reported(q)
  BY DEF Sent, MadeFor, Flying, Recorded, OnBus, InHand, InWindow, InSnapshot, Reported

LEMMA CountTick ==
  ASSUME TelemetryTypeOK, CountInv, NEW e \in Executions, NEW x \in Requests, Tick(e, x),
         UNCHANGED aggregatorVars
  PROVE  CountInv'
  <1> USE DEF TelemetryTypeOK, ExecutionTypeOK
  <1>1. /\ x \notin Sent /\ UNCHANGED <<collector, bus>> /\ UNCHANGED aggregatorVars
        /\ sent' = [sent EXCEPT ![e] = @ \cup {x}]
        /\ executing' = [executing EXCEPT ![e] = @ \cup {x}]
    BY DEF Tick
  <1>2. UNCHANGED <<stored, window, handling, snapshots, exported, lost>>
    BY DEF aggregatorVars
  <1>3. \A f \in Executions : x \notin sent[f] /\ sent[f] \subseteq sent'[f]
    BY <1>1 DEF Sent
  <1>4. \A f \in Executions, q \in Requests : q # x => (q \in sent'[f] <=> q \in sent[f])
    BY <1>1
  <1>5. \A f \in Executions : x \in sent'[f] => f = e
    BY <1>1, <1>3
  <1>6. SentOnce'
    BY <1>4, <1>5 DEF CountInv, SentOnce
  <1>7. \A t \in Tests, q \in Requests : MadeFor(t, q) => MadeFor(t, q)'
    BY <1>3 DEF MadeFor
  <1>8. Owned'
    <2>1. \A b \in Buckets : b.execution \in Executions
      BY DEF Buckets
    <2>2. handling.pc = "merge" => handling.bucket \in Buckets
      BY DEF Handling, Nothing
    <2>3. \A s \in snapshots : s.test \in Tests /\ s.requests \subseteq Requests
      BY DEF Snapshots
    <2>. QED
      BY <1>1, <1>2, <1>3, <1>7, <2>1, <2>2, <2>3 DEF CountInv, Owned
  <1>9. NoTwins' /\ StoreInv'
    BY <1>1, <1>2 DEF CountInv, NoTwins, StoreInv
  <1>10. ASSUME NEW q \in Requests PROVE Single(q)'
    <2>1. Flying(q)' <=> Flying(q) \/ q = x
      BY <1>1 DEF Flying
    <2>2. q \in Sent' <=> q \in Sent \/ q = x
      BY <1>1 DEF Sent
    <2>3. Single(q)
      BY DEF CountInv
    <2>. QED
      BY <1>1, <1>2, <2>1, <2>2, <2>3, Frames DEF Single
  <1>. QED
    BY <1>6, <1>8, <1>9, <1>10 DEF CountInv

LEMMA CountRecord ==
  ASSUME TelemetryTypeOK, CountInv, NEW e \in Executions, NEW x \in Requests, Record(e, x),
         UNCHANGED aggregatorVars
  PROVE  CountInv'
  <1> USE DEF TelemetryTypeOK, ExecutionTypeOK
  <1>1. /\ x \in executing[e] /\ UNCHANGED <<sent, bus>>
        /\ executing' = [executing EXCEPT ![e] = @ \ {x}]
        /\ collector' = [collector EXCEPT ![e] = @ \cup {x}]
    BY DEF Record
  <1>2. UNCHANGED <<stored, window, handling, snapshots, exported, lost>>
    BY DEF aggregatorVars
  <1>3. \A f \in Executions : x \in executing[f] => f = e
    BY <1>1 DEF CountInv, Owned, SentOnce
  <1>4. Owned'
    BY <1>1, <1>2, Frames DEF CountInv, Owned
  <1>5. SentOnce' /\ NoTwins' /\ StoreInv'
    BY <1>1, <1>2 DEF CountInv, SentOnce, NoTwins, StoreInv
  <1>6. ASSUME NEW q \in Requests PROVE Single(q)'
    <2>1. Flying(q)' <=> Flying(q) /\ q # x
      BY <1>1, <1>3 DEF Flying
    <2>2. Recorded(q)' <=> Recorded(q) \/ q = x
      BY <1>1 DEF Recorded
    <2>3. Flying(x) /\ Single(q)
      BY <1>1 DEF Flying, CountInv
    <2>. QED
      BY <1>1, <1>2, <2>1, <2>2, <2>3, Frames DEF Single
  <1>. QED
    BY <1>4, <1>5, <1>6 DEF CountInv

\* Nothing that is counted moves.
LEMMA CountQuiet ==
  ASSUME CountInv,
         UNCHANGED <<executing, collector, sent, bus, stored, window, handling, snapshots, exported, lost>>
  PROVE  CountInv'
  <1>1. SentOnce' /\ Owned' /\ NoTwins' /\ StoreInv'
    BY Frames DEF CountInv, SentOnce, Owned, NoTwins, StoreInv
  <1>2. ASSUME NEW q \in Requests PROVE Single(q)'
    BY Frames DEF CountInv, Single
  <1>. QED
    BY <1>1, <1>2 DEF CountInv

LEMMA CountFlush ==
  ASSUME TelemetryTypeOK, CountInv, NEW e \in Executions, Flush(e),
         UNCHANGED <<executing, sent>>, UNCHANGED aggregatorVars
  PROVE  CountInv'
  <1> USE DEF TelemetryTypeOK
  <1>0. UNCHANGED <<stored, window, handling, snapshots, exported, lost>>
    BY DEF aggregatorVars
  <1>1. CASE collector[e] = {}
    <2>1. /\ collector \in [Executions -> SUBSET Requests] /\ bus' = bus
          /\ collector' = [collector EXCEPT ![e] = {}]
      BY <1>1 DEF ExecutionTypeOK, Flush
    <2>2. collector' = collector
      BY <1>1, <2>1
    <2>. QED
      BY <1>0, <2>1, <2>2, CountQuiet
  <1>2. CASE collector[e] # {}
    <2> DEFINE bucket == [execution |-> e, requests |-> collector[e]]
    <2>1. /\ collector \in [Executions -> SUBSET Requests]
          /\ collector' = [collector EXCEPT ![e] = {}]
          /\ bus' = bus \cup {bucket}
      BY <1>2, FlushTypes DEF ExecutionTypeOK
    <2>2. bucket.execution = e /\ bucket.requests = collector[e]
      OBVIOUS
    <2> HIDE DEF bucket
    <2>3. \A f \in Executions, q \in collector[e] : q \in collector[f] => f = e
      BY <2>1 DEF CountInv, Owned, SentOnce
    <2>4. Owned'
      BY <1>0, <1>2, <2>1, <2>2, Frames DEF CountInv, Owned
    <2>5. \A q \in collector[e] : q \in Requests /\ Recorded(q) /\ ~OnBus(q)
      BY <2>1 DEF CountInv, Single, Recorded
    <2>6. NoTwins'
      BY <1>0, <2>1, <2>2, <2>5 DEF CountInv, NoTwins, OnBus
    <2>7. SentOnce' /\ StoreInv'
      BY <1>0 DEF CountInv, SentOnce, StoreInv
    <2>8. ASSUME NEW q \in Requests PROVE Single(q)'
      <3>1. Recorded(q)' <=> Recorded(q) /\ q \notin collector[e]
        BY <2>1, <2>3 DEF Recorded
      <3>2. OnBus(q)' <=> OnBus(q) \/ q \in collector[e]
        BY <2>1, <2>2 DEF OnBus
      <3>3. Single(q)
        BY DEF CountInv
      <3>. QED
        BY <1>0, <2>5, <3>1, <3>2, <3>3, Frames DEF Single
    <2>. QED
      BY <2>4, <2>6, <2>7, <2>8 DEF CountInv
  <1>. QED
    BY <1>1, <1>2

LEMMA CountExecution ==
  ASSUME TelemetryTypeOK, CountInv, NEW e \in Executions, ExecutionStep(e), UNCHANGED aggregatorVars
  PROVE  CountInv'
  <1>1. ASSUME NEW q \in Requests, Tick(e, q) PROVE CountInv'
    BY <1>1, CountTick
  <1>2. ASSUME NEW q \in Requests, Record(e, q) PROVE CountInv'
    BY <1>2, CountRecord
  <1>3. CASE FlushTick(e) \/ ExecutionFinishes(e)
    <2>1. Flush(e) /\ UNCHANGED <<executing, sent>>
      BY <1>3 DEF FlushTick, ExecutionFinishes
    <2>. QED
      BY <2>1, CountFlush
  <1>4. CASE \/ \E q \in Requests : RequestEnds(e, q)
             \/ PacingEnds(e) \/ EngineReturns(e) \/ ShutDown(e) \/ ExecutionAbandoned(e)
    <2>1. UNCHANGED <<executing, collector, sent, bus>>
      BY <1>4 DEF RequestEnds, PacingEnds, EngineReturns, ShutDown, ExecutionAbandoned
    <2>2. UNCHANGED <<stored, window, handling, snapshots, exported, lost>>
      BY DEF aggregatorVars
    <2>. QED
      BY <2>1, <2>2, CountQuiet
  <1>. QED
    BY <1>1, <1>2, <1>3, <1>4 DEF ExecutionStep

\* A bucket leaves the bus, lost or taken by the callback.
LEMMA CountBus ==
  ASSUME TelemetryTypeOK, CountInv, NEW b \in bus, BucketLost(b) \/ SubscriberGets(b)
  PROVE  CountInv'
  <1>0. /\ b \in Buckets /\ b.requests \subseteq Requests /\ b.execution \in Executions
        /\ TestOf[b.execution] \in Tests
    BY TestOfAssumption DEF TelemetryTypeOK, ExecutionTypeOK, Buckets
  <1>1. /\ bus' = bus \ {b}
        /\ UNCHANGED <<executing, collector, sent, window, snapshots, exported>>
    BY DEF BucketLost, SubscriberGets
  <1>m. \A t, q : MadeFor(t, q)' <=> MadeFor(t, q)
    BY <1>1, Frames
  <1>2. ASSUME NEW q \in Requests
        PROVE  /\ OnBus(q)' <=> OnBus(q) /\ q \notin b.requests
               /\ q \in b.requests => OnBus(q)
    BY <1>1 DEF OnBus, CountInv, NoTwins
  <1>3. SentOnce' /\ NoTwins'
    BY <1>1 DEF CountInv, SentOnce, NoTwins
  <1>4. CASE BucketLost(b)
    <2>1. lost' = lost \cup b.requests /\ UNCHANGED <<stored, handling>>
      BY <1>4 DEF BucketLost
    <2>2. Owned' /\ StoreInv'
      <3>1. Owned'
        BY <1>m, <1>1, <2>1 DEF CountInv, Owned
      <3>2. StoreInv'
        BY <1>1, <2>1 DEF CountInv, StoreInv
      <3>. QED
        BY <3>1, <3>2
    <2>3. ASSUME NEW q \in Requests PROVE Single(q)'
      <3>1. Single(q)
        BY DEF CountInv
      <3>. QED
        BY <1>1, <1>2, <2>1, <3>1, Frames DEF Single
    <2>. QED
      BY <1>3, <2>2, <2>3 DEF CountInv
  <1>5. CASE SubscriberGets(b)
    <2>1. /\ handling = Nothing /\ handling' = [pc |-> "merge", bucket |-> b, live |-> TRUE]
          /\ stored' = stored \cup {TestOf[b.execution]} /\ lost' = lost
      BY <1>5 DEF SubscriberGets
    <2>2. InHand = {} /\ InHand' = b.requests
      BY <2>1 DEF InHand, Nothing
    <2>3. Owned' /\ StoreInv'
      <3>1. handling'.pc = "merge" /\ handling'.bucket = b /\ TestOf[b.execution] \in stored'
        BY <2>1
      <3>2. Owned'
        BY <1>m, <1>1, <3>1 DEF CountInv, Owned
      <3>3. StoreInv'
        BY <1>1, <2>1, <3>1 DEF CountInv, StoreInv
      <3>. QED
        BY <3>2, <3>3
    <2>4. ASSUME NEW q \in Requests PROVE Single(q)'
      <3>1. Single(q)
        BY DEF CountInv
      <3>. QED
        BY <1>1, <1>2, <2>1, <2>2, <3>1, Frames DEF Single
    <2>. QED
      BY <1>3, <2>3, <2>4 DEF CountInv
  <1>. QED
    BY <1>4, <1>5

LEMMA CountMerge ==
  ASSUME TelemetryTypeOK, CountInv, SubscriberMerges
  PROVE  CountInv'
  <1> DEFINE bucket == handling.bucket
             t == TestOf[bucket.execution]
  <1>0. /\ handling.pc = "merge" /\ bucket \in Buckets /\ handling' = Nothing
        /\ UNCHANGED <<executing, collector, sent, bus, stored, snapshots, exported>>
    BY DEF SubscriberMerges, executionVars, TelemetryTypeOK, Handling, Nothing
  <1>1. bucket.requests \subseteq Requests /\ bucket.execution \in Executions /\ t \in Tests
    BY <1>0, TestOfAssumption DEF Buckets
  <1>2. InHand = bucket.requests /\ InHand' = {}
    BY <1>0 DEF InHand, Nothing
  <1>3. SentOnce' /\ NoTwins'
    BY <1>0 DEF CountInv, SentOnce, NoTwins
  <1>4. CASE handling.live
    <2>1. /\ lost' = lost /\ window \in [Tests -> Windows]
          /\ window' = [window EXCEPT
                 ![t] = [requests |-> window[t].requests \cup bucket.requests,
                         workers  |-> window[t].workers \cup {WorkerOf[bucket.execution]}]]
      BY <1>4 DEF SubscriberMerges, TelemetryTypeOK
    <2>2. \A u \in Tests, q \in Requests :
            q \in window'[u].requests <=> q \in window[u].requests \/ (u = t /\ q \in bucket.requests)
      BY <1>1, <2>1
    <2>3. \A q \in bucket.requests : MadeFor(t, q)
      BY <1>0, <1>1 DEF CountInv, Owned, MadeFor
    <2>4. Owned'
      <3>1. \A u \in Tests, q \in Requests :
              q \in window'[u].requests \/ exported'[u][q] > 0 => MadeFor(u, q)'
        BY <1>0, <2>2, <2>3, Frames DEF CountInv, Owned
      <3>. QED
        BY <1>0, <3>1, Frames DEF CountInv, Owned, Nothing
    <2>5. StoreInv'
      <3>1. t \in stored
        BY <1>0, <1>4 DEF CountInv, StoreInv
      <3>2. \A u \in Tests \ {t} : window'[u] = window[u]
        BY <2>1
      <3>. QED
        BY <1>0, <3>1, <3>2 DEF CountInv, StoreInv, Nothing
    <2>6. ASSUME NEW q \in Requests PROVE Single(q)'
      <3>1. InWindow(q)' <=> InWindow(q) \/ q \in bucket.requests
        BY <1>1, <2>2 DEF InWindow
      <3>2. Single(q)
        BY DEF CountInv
      <3>. QED
        BY <1>0, <1>2, <2>1, <3>1, <3>2, Frames DEF Single
    <2>. QED
      BY <1>3, <2>4, <2>5, <2>6 DEF CountInv
  <1>5. CASE ~handling.live
    <2>1. lost' = lost \cup bucket.requests /\ window' = window
      BY <1>5 DEF SubscriberMerges
    <2>2. Owned' /\ StoreInv'
      BY <1>0, <2>1, Frames DEF CountInv, Owned, StoreInv, Nothing
    <2>3. ASSUME NEW q \in Requests PROVE Single(q)'
      <3>1. Single(q)
        BY DEF CountInv
      <3>. QED
        BY <1>0, <1>2, <2>1, <3>1, Frames DEF Single
    <2>. QED
      BY <1>3, <2>2, <2>3 DEF CountInv
  <1>. QED
    BY <1>4, <1>5

LEMMA CountCollect ==
  ASSUME TelemetryTypeOK, CountInv, ReportCollects
  PROVE  CountInv'
  <1>1. /\ snapshots = {} /\ stored' = stored \ EmptyWindows /\ stored' \subseteq Tests
        /\ snapshots' = {SnapshotOf(t) : t \in stored'}
        /\ window' = [t \in Tests |-> NewWindow]
        /\ UNCHANGED <<executing, collector, sent, bus, exported, lost>>
    BY DEF ReportCollects, ResetWindow, TelemetryTypeOK, executionVars
  <1>2. /\ handling'.pc = handling.pc
        /\ handling.pc = "merge" =>
             /\ handling'.bucket = handling.bucket
             /\ handling'.live => handling.live /\ TestOf[handling.bucket.execution] \notin EmptyWindows
    BY DEF ReportCollects, TelemetryTypeOK, Handling, Nothing
  <1>3. \A t \in Tests : \A q \in window[t].requests : t \in stored'
    BY <1>1 DEF CountInv, StoreInv, EmptyWindows
  <1>4. \A t \in Tests : SnapshotOf(t).test = t /\ SnapshotOf(t).requests = window[t].requests
    BY DEF SnapshotOf
  <1>5. \A t \in Tests : window'[t].requests = {}
    BY <1>1 DEF NewWindow
  <1>6. SentOnce'
    BY <1>1 DEF CountInv, SentOnce
  <1>7. \A t \in Tests : window[t].requests \subseteq Requests
    BY DEF TelemetryTypeOK, Windows
  <1>m. \A t, q : MadeFor(t, q)' <=> MadeFor(t, q)
    BY <1>1, Frames
  <1>8. Owned'
    <2>1. \A s \in snapshots' : \A q \in s.requests : MadeFor(s.test, q)'
      BY <1>m, <1>1, <1>4, <1>7 DEF CountInv, Owned
    <2>2. \A t \in Tests, q \in Requests :
            q \in window'[t].requests \/ exported'[t][q] > 0 => MadeFor(t, q)'
      BY <1>m, <1>1, <1>5 DEF CountInv, Owned
    <2>. QED
      BY <1>1, <1>2, <2>1, <2>2 DEF CountInv, Owned
  \* A request in two windows would have been made for two tests.
  <1>9. NoTwins'
    <2>1. \A t, u \in Tests, q \in Requests :
            q \in window[t].requests /\ q \in window[u].requests => t = u
      BY DEF CountInv, Owned, MadeFor, SentOnce
    <2>2. \A r, s \in snapshots', q \in Requests : q \in r.requests /\ q \in s.requests => r = s
      BY <1>1, <1>4, <2>1
    <2>. QED
      BY <1>1, <2>2 DEF CountInv, NoTwins
  <1>10. StoreInv'
    <2>1. handling'.pc = "merge" /\ handling'.live => TestOf[handling'.bucket.execution] \in stored'
      BY <1>1, <1>2 DEF CountInv, StoreInv
    <2>. QED
      BY <1>5, <2>1 DEF StoreInv
  <1>11. ASSUME NEW q \in Requests PROVE Single(q)'
    <2>1. ~InSnapshot(q) /\ ~InWindow(q)'
      BY <1>1, <1>5 DEF InSnapshot, InWindow
    <2>2. InSnapshot(q)' <=> InWindow(q)
      BY <1>1, <1>3, <1>4 DEF InSnapshot, InWindow
    <2>3. InHand' = InHand
      BY <1>2 DEF InHand
    <2>4. Single(q)
      BY DEF CountInv
    <2>. QED
      BY <1>1, <2>1, <2>2, <2>3, <2>4, Frames DEF Single
  <1>. QED
    BY <1>6, <1>8, <1>9, <1>10, <1>11 DEF CountInv

\* What writing a snapshot does to the counts.
LEMMA ToldCounts ==
  ASSUME TelemetryTypeOK, NEW s \in snapshots, Told(s)
  PROVE  /\ s.test \in Tests /\ s.requests \subseteq Requests
         /\ \A t \in Tests, q \in Requests :
              exported'[t][q] = IF t = s.test /\ q \in s.requests THEN exported[t][q] + 1
                                                                  ELSE exported[t][q]
  BY DEF Told, TelemetryTypeOK, Snapshots

LEMMA CountWrite ==
  ASSUME TelemetryTypeOK, CountInv, NEW s \in snapshots, ReportWrites(s) \/ ReportFails(s)
  PROVE  CountInv'
  <1>0. s.test \in Tests /\ s.requests \subseteq Requests
    BY DEF TelemetryTypeOK, Snapshots
  <1>1. /\ snapshots' = snapshots \ {s}
        /\ UNCHANGED <<executing, collector, sent, bus, stored, window, handling>>
    BY DEF ReportWrites, ReportFails, executionVars
  <1>m. \A t, q : MadeFor(t, q)' <=> MadeFor(t, q)
    BY <1>1, Frames
  <1>2. SentOnce' /\ StoreInv'
    BY <1>1 DEF CountInv, SentOnce, StoreInv
  <1>3. ASSUME NEW q \in Requests
        PROVE  /\ InSnapshot(q)' <=> InSnapshot(q) /\ q \notin s.requests
               /\ q \in s.requests => InSnapshot(q)
    BY <1>1 DEF InSnapshot, CountInv, NoTwins
  <1>4. CASE ReportWrites(s)
    <2>1. /\ lost' = lost
          /\ \A t \in Tests, q \in Requests :
               exported'[t][q] = IF t = s.test /\ q \in s.requests THEN exported[t][q] + 1
                                                                   ELSE exported[t][q]
      BY <1>4, ToldCounts DEF ReportWrites
    <2>2. \A t \in Tests, q \in Requests : exported[t][q] \in {0, 1}
      BY DEF CountInv, NoTwins
    <2>3. \A q \in s.requests : MadeFor(s.test, q) /\ exported[s.test][q] = 0
      <3>1. \A q \in s.requests : ~Reported(q)
        BY <1>0, <1>3 DEF CountInv, Single
      <3>. QED
        BY <1>0, <2>2, <3>1 DEF CountInv, Owned, Reported
    <2>4. \A t \in Tests, q \in Requests : exported'[t][q] > 0 => MadeFor(t, q)
      BY <2>1, <2>3 DEF CountInv, Owned
    <2>5. Owned'
      BY <1>m, <1>1, <2>4 DEF CountInv, Owned
    <2>6. NoTwins'
      BY <1>1, <2>1, <2>2, <2>3 DEF CountInv, NoTwins
    <2>7. ASSUME NEW q \in Requests PROVE Single(q)'
      <3>1. Reported(q)' <=> Reported(q) \/ q \in s.requests
        BY <1>0, <2>1, <2>2 DEF Reported
      <3>2. Single(q)
        BY DEF CountInv
      <3>. QED
        BY <1>1, <1>3, <2>1, <3>1, <3>2, Frames DEF Single
    <2>. QED
      BY <1>2, <2>5, <2>6, <2>7 DEF CountInv
  <1>5. CASE ReportFails(s)
    <2>1. exported' = exported /\ lost' = lost \cup s.requests
      BY <1>5 DEF ReportFails
    <2>2. Owned' /\ NoTwins'
      BY <1>m, <1>1, <2>1 DEF CountInv, Owned, NoTwins
    <2>3. ASSUME NEW q \in Requests PROVE Single(q)'
      <3>1. Single(q)
        BY DEF CountInv
      <3>. QED
        BY <1>1, <1>3, <2>1, <3>1, Frames DEF Single
    <2>. QED
      BY <1>2, <2>2, <2>3 DEF CountInv
  <1>. QED
    BY <1>4, <1>5

LEMMA InMemoryIs ==
  \A q \in Requests : q \in InMemory <=> InWindow(q) \/ InSnapshot(q) \/ q \in InHand
  BY DEF InMemory, InWindow, InSnapshot

LEMMA CountRestart ==
  ASSUME TelemetryTypeOK, CountInv, AggregatorRestarts
  PROVE  CountInv'
  <1>1. /\ stored' = {} /\ window' = [t \in Tests |-> NewWindow] /\ handling' = Nothing
        /\ snapshots' = {} /\ lost' = lost \cup InMemory
        /\ UNCHANGED <<executing, collector, sent, bus, exported>>
    BY DEF AggregatorRestarts, executionVars
  <1>m. \A t, q : MadeFor(t, q)' <=> MadeFor(t, q)
    BY <1>1, Frames
  <1>2. \A t \in Tests : window'[t].requests = {}
    BY <1>1 DEF NewWindow
  <1>3. SentOnce' /\ NoTwins' /\ StoreInv'
    BY <1>1, <1>2 DEF CountInv, SentOnce, NoTwins, StoreInv, Nothing
  <1>4. Owned'
    BY <1>m, <1>1, <1>2 DEF CountInv, Owned, Nothing
  <1>5. ASSUME NEW q \in Requests PROVE Single(q)'
    <2>1. ~InWindow(q)' /\ ~InSnapshot(q)' /\ InHand' = {}
      BY <1>1, <1>2 DEF InWindow, InSnapshot, InHand, Nothing
    <2>2. Single(q)
      BY DEF CountInv
    <2>. QED
      BY <1>1, <2>1, <2>2, InMemoryIs, Frames DEF Single
  <1>. QED
    BY <1>3, <1>4, <1>5 DEF CountInv

LEMMA CountStep == TelemetryTypeOK /\ CountInv /\ [TelemetryNext]_telemetryVars => CountInv'
  <1> SUFFICES ASSUME TelemetryTypeOK, CountInv, [TelemetryNext]_telemetryVars PROVE CountInv'
    OBVIOUS
  <1>1. CASE UNCHANGED telemetryVars
    BY <1>1, CountQuiet DEF telemetryVars
  <1>. QED
    BY <1>1, CountExecution, CountBus, CountMerge, CountCollect, CountWrite, CountRestart
       DEF TelemetryNext

LEMMA CountInvAlways == TelemetrySpec => [](TelemetryTypeOK /\ CountInv)
  BY CountInvInit, CountStep, TelemetryTypes, PTL DEF TelemetrySpec

-----------------------------------------------------------------------------
(* Contributors                                                            *)

\* The workers whose executions made requests of a group.
Contribution(group) == {WorkerOf[e] : e \in {f \in Executions : group \cap sent[f] # {}}}

ContributorsInv ==
  /\ \A t \in Tests : window[t].workers = Contribution(window[t].requests)
  /\ \A s \in snapshots : s.workers = Contribution(s.requests)

\* New requests are in no group that is counted already.
LEMMA ContributionKept ==
  ASSUME NEW group \in SUBSET Requests,
         \A e \in Executions, q \in group : q \in sent'[e] <=> q \in sent[e]
  PROVE  Contribution(group)' = Contribution(group)
  <1>1. \A e \in Executions : group \cap sent'[e] = group \cap sent[e]
    OBVIOUS
  <1>. QED
    BY <1>1 DEF Contribution

LEMMA ContributorsStep ==
  ASSUME TelemetryTypeOK, CountInv, ContributorsInv, TelemetryTypeOK', [TelemetryNext]_telemetryVars
  PROVE  ContributorsInv'
  <1>0. /\ \A t \in Tests : window[t].requests \in SUBSET Requests
        /\ \A s \in snapshots : s.requests \in SUBSET Requests
    BY DEF TelemetryTypeOK, Windows, Snapshots
  <1>1. ASSUME NEW e \in Executions, NEW x \in Requests, Tick(e, x), UNCHANGED aggregatorVars
        PROVE  ContributorsInv'
    <2>1. UNCHANGED <<window, snapshots>>
      BY <1>1 DEF aggregatorVars
    <2>2. \A f \in Executions, q \in Requests : q # x => (q \in sent'[f] <=> q \in sent[f])
      BY <1>1 DEF Tick, TelemetryTypeOK, ExecutionTypeOK
    <2>3. \A f \in Executions : x \notin sent[f]
      BY <1>1 DEF Tick, Sent
    <2>4. /\ \A t \in Tests : x \notin window[t].requests
          /\ \A s \in snapshots : x \notin s.requests
      BY <2>3 DEF CountInv, Owned, MadeFor
    <2>5. /\ \A t \in Tests : Contribution(window[t].requests)' = Contribution(window[t].requests)
          /\ \A s \in snapshots : Contribution(s.requests)' = Contribution(s.requests)
      BY <1>0, <2>1, <2>2, <2>4, ContributionKept
    <2>. QED
      BY <2>1, <2>5 DEF ContributorsInv
  \* What leaves the requests, the windows and the snapshots alone, except
  \* that windows are emptied and snapshots go.
  <1>2. ASSUME sent' = sent, snapshots' \subseteq snapshots,
               \A t \in Tests : window'[t] \in {window[t], NewWindow}
        PROVE  ContributorsInv'
    <2>1. \A group : Contribution(group)' = Contribution(group)
      BY <1>2 DEF Contribution
    <2>2. Contribution({}) = {}
      BY DEF Contribution
    <2>3. ASSUME NEW t \in Tests
          PROVE  window'[t].workers = Contribution(window'[t].requests)
      <3>1. CASE window'[t] = window[t]
        BY <3>1 DEF ContributorsInv
      <3>2. CASE window'[t] = NewWindow
        <4>1. window'[t].workers = {} /\ window'[t].requests = {}
          BY <3>2 DEF NewWindow
        <4>. QED
          BY <4>1, <2>2
      <3>. QED
        BY <1>2, <3>1, <3>2
    <2>4. \A s \in snapshots' : s.workers = Contribution(s.requests)
      BY <1>2 DEF ContributorsInv
    <2>. QED
      BY <2>1, <2>3, <2>4 DEF ContributorsInv
  <1>3. CASE SubscriberMerges
    <2> DEFINE bucket == handling.bucket
               e == bucket.execution
               t == TestOf[e]
    <2>1. /\ handling.pc = "merge" /\ bucket \in Buckets /\ UNCHANGED <<sent, snapshots>>
      BY <1>3 DEF SubscriberMerges, executionVars, TelemetryTypeOK, Handling, Nothing
    <2>2. e \in Executions /\ t \in Tests /\ bucket.requests # {} /\ bucket.requests \subseteq sent[e]
          /\ bucket.requests \subseteq Requests
      BY <2>1, TestOfAssumption DEF Buckets, CountInv, Owned
    <2>3. CASE ~handling.live
      BY <1>2, <1>3, <2>1, <2>3 DEF SubscriberMerges
    <2>4. CASE handling.live
      <3>1. /\ window \in [Tests -> Windows]
            /\ window' = [window EXCEPT
                   ![t] = [requests |-> window[t].requests \cup bucket.requests,
                           workers  |-> window[t].workers \cup {WorkerOf[e]}]]
        BY <1>3, <2>4 DEF SubscriberMerges, TelemetryTypeOK
      <3>2. /\ window'[t].requests = window[t].requests \cup bucket.requests
            /\ window'[t].workers = window[t].workers \cup {WorkerOf[e]}
            /\ \A u \in Tests \ {t} : window'[u] = window[u]
        BY <2>2, <3>1
      <3>3. \A f \in Executions : bucket.requests \cap sent[f] # {} <=> f = e
        BY <2>2 DEF CountInv, SentOnce
      <3>4. Contribution(window[t].requests \cup bucket.requests)
              = Contribution(window[t].requests) \cup {WorkerOf[e]}
        <4> DEFINE old == {f \in Executions : window[t].requests \cap sent[f] # {}}
                   new == {f \in Executions : (window[t].requests \cup bucket.requests) \cap sent[f] # {}}
        <4>1. new = old \cup {e}
          BY <2>2, <3>3
        <4>2. {WorkerOf[f] : f \in new} = {WorkerOf[f] : f \in old} \cup {WorkerOf[e]}
          BY <4>1
        <4>. QED
          BY <4>2 DEF Contribution
      <3>5. \A group : Contribution(group)' = Contribution(group)
        BY <2>1 DEF Contribution
      <3>6. \A u \in Tests : window'[u].workers = Contribution(window'[u].requests)
        BY <3>2, <3>4 DEF ContributorsInv
      <3>. QED
        BY <2>1, <3>5, <3>6 DEF ContributorsInv
    <2>. QED
      BY <2>3, <2>4
  <1>4. CASE ReportCollects
    <2>1. /\ sent' = sent /\ snapshots' = {SnapshotOf(t) : t \in stored'} /\ stored' \subseteq Tests
          /\ \A t \in Tests : window'[t] = NewWindow
      BY <1>4 DEF ReportCollects, ResetWindow, executionVars, TelemetryTypeOK
    <2>2. \A group : Contribution(group)' = Contribution(group)
      BY <2>1 DEF Contribution
    <2>3. \A s \in snapshots' : s.workers = Contribution(s.requests)
      BY <2>1 DEF SnapshotOf, ContributorsInv
    <2>4. Contribution({}) = {}
      BY DEF Contribution
    <2>. QED
      BY <2>1, <2>2, <2>3, <2>4 DEF ContributorsInv, NewWindow
  <1>5. ASSUME NEW e \in Executions, ExecutionStep(e), UNCHANGED aggregatorVars,
               \A x \in Requests : ~Tick(e, x)
        PROVE  ContributorsInv'
    <2>1. sent' = sent
      BY <1>5 DEF ExecutionStep, Record, RequestEnds, PacingEnds, EngineReturns, FlushTick,
                  ExecutionFinishes, ShutDown, ExecutionAbandoned
    <2>. QED
      BY <1>2, <1>5, <2>1 DEF aggregatorVars
  <1>6. CASE \/ \E b \in bus : BucketLost(b) \/ SubscriberGets(b)
             \/ \E s \in snapshots : ReportWrites(s) \/ ReportFails(s)
             \/ UNCHANGED telemetryVars
    BY <1>2, <1>6 DEF BucketLost, SubscriberGets, ReportWrites, ReportFails, executionVars, telemetryVars
  <1>7. CASE AggregatorRestarts
    BY <1>2, <1>7 DEF AggregatorRestarts, executionVars
  <1>. QED
    BY <1>1, <1>3, <1>4, <1>5, <1>6, <1>7 DEF TelemetryNext

\* A snapshot names exactly the workers whose requests it counts.
THEOREM ContributorsCounted == TelemetrySpec => []ContributorsMatch
  <1>1. TelemetryInit => ContributorsInv
    BY DEF TelemetryInit, ExecutionInit, AggregatorInit, NewWindow, ContributorsInv, Contribution
  <1>2. TelemetryTypeOK /\ TelemetryTypeOK' /\ CountInv /\ ContributorsInv /\ [TelemetryNext]_telemetryVars
          => ContributorsInv'
    BY ContributorsStep
  <1>3. ContributorsInv => ContributorsMatch
    BY DEF ContributorsInv, ContributorsMatch, Contribution
  <1>. QED
    BY <1>1, <1>2, <1>3, CountInvAlways, PTL DEF TelemetrySpec

-----------------------------------------------------------------------------
(* One place                                                               *)

\* A request made is counted in exactly one place, from the goroutine that
\* makes it to VictoriaMetrics or to a known loss, for every number of
\* executions, buckets, windows and reports.
THEOREM CountedInOnePlace == TelemetrySpec => []CountedOnce
  <1>1. ASSUME TelemetryTypeOK, CountInv, NEW q \in Requests
        PROVE  Cardinality(Places(q)) = IF q \in Sent THEN 1 ELSE 0
    <2> DEFINE p1 == {<<"executing", e>> : e \in {f \in Executions : q \in executing[f]}}
               p2 == {<<"collector", e>> : e \in {f \in Executions : q \in collector[f]}}
               p3 == {<<"bus", b>> : b \in {c \in bus : q \in c.requests}}
               p4 == IF q \in InHand THEN {<<"in hand", handling>>} ELSE {}
               p5 == {<<"window", t>> : t \in {u \in Tests : q \in window[u].requests}}
               p6 == {<<"snapshot", s>> : s \in {r \in snapshots : q \in r.requests}}
               p7 == {<<"exported", t>> : t \in {u \in Tests : exported[u][q] > 0}}
               p8 == IF q \in lost THEN {<<"lost", lost>>} ELSE {}
    <2>0. Places(q) = p1 \cup p2 \cup p3 \cup p4 \cup p5 \cup p6 \cup p7 \cup p8
      BY DEF Places
    <2>s. Single(q) /\ SentOnce /\ Owned /\ NoTwins
      BY <1>1 DEF CountInv
    <2>1. (Flying(q) => \E x : p1 = {x}) /\ (~Flying(q) => p1 = {})
      <3>1. \A x, y \in {f \in Executions : q \in executing[f]} : x = y
        BY <2>s DEF Owned, MadeFor, SentOnce, NoTwins
      <3>2. Flying(q) <=> {f \in Executions : q \in executing[f]} # {}
        BY DEF Flying
      <3>3. \A x \in {f \in Executions : q \in executing[f]} : p1 = {<<"executing", x>>}
        BY <3>1
      <3>. QED
        BY <3>2, <3>3
    <2>2. (Recorded(q) => \E x : p2 = {x}) /\ (~Recorded(q) => p2 = {})
      <3>1. \A x, y \in {f \in Executions : q \in collector[f]} : x = y
        BY <2>s DEF Owned, MadeFor, SentOnce, NoTwins
      <3>2. Recorded(q) <=> {f \in Executions : q \in collector[f]} # {}
        BY DEF Recorded
      <3>3. \A x \in {f \in Executions : q \in collector[f]} : p2 = {<<"collector", x>>}
        BY <3>1
      <3>. QED
        BY <3>2, <3>3
    <2>3. (OnBus(q) => \E x : p3 = {x}) /\ (~OnBus(q) => p3 = {})
      <3>1. \A x, y \in {c \in bus : q \in c.requests} : x = y
        BY <2>s DEF Owned, MadeFor, SentOnce, NoTwins
      <3>2. OnBus(q) <=> {c \in bus : q \in c.requests} # {}
        BY DEF OnBus
      <3>3. \A x \in {c \in bus : q \in c.requests} : p3 = {<<"bus", x>>}
        BY <3>1
      <3>. QED
        BY <3>2, <3>3
    <2>4. (q \in InHand => \E x : p4 = {x}) /\ (q \notin InHand => p4 = {})
      OBVIOUS
    <2>5. (InWindow(q) => \E x : p5 = {x}) /\ (~InWindow(q) => p5 = {})
      <3>1. \A x, y \in {u \in Tests : q \in window[u].requests} : x = y
        BY <2>s DEF Owned, MadeFor, SentOnce, NoTwins
      <3>2. InWindow(q) <=> {u \in Tests : q \in window[u].requests} # {}
        BY DEF InWindow
      <3>3. \A x \in {u \in Tests : q \in window[u].requests} : p5 = {<<"window", x>>}
        BY <3>1
      <3>. QED
        BY <3>2, <3>3
    <2>6. (InSnapshot(q) => \E x : p6 = {x}) /\ (~InSnapshot(q) => p6 = {})
      <3>1. \A x, y \in {r \in snapshots : q \in r.requests} : x = y
        BY <2>s DEF Owned, MadeFor, SentOnce, NoTwins
      <3>2. InSnapshot(q) <=> {r \in snapshots : q \in r.requests} # {}
        BY DEF InSnapshot
      <3>3. \A x \in {r \in snapshots : q \in r.requests} : p6 = {<<"snapshot", x>>}
        BY <3>1
      <3>. QED
        BY <3>2, <3>3
    <2>7. (Reported(q) => \E x : p7 = {x}) /\ (~Reported(q) => p7 = {})
      <3>1. \A x, y \in {u \in Tests : exported[u][q] > 0} : x = y
        BY <2>s DEF Owned, MadeFor, SentOnce, NoTwins
      <3>2. Reported(q) <=> {u \in Tests : exported[u][q] > 0} # {}
        BY DEF Reported
      <3>3. \A x \in {u \in Tests : exported[u][q] > 0} : p7 = {<<"exported", x>>}
        BY <3>1
      <3>. QED
        BY <3>2, <3>3
    <2>8. (q \in lost => \E x : p8 = {x}) /\ (q \notin lost => p8 = {})
      OBVIOUS
    <2> HIDE DEF p1, p2, p3, p4, p5, p6, p7, p8
    <2>9. (q \in Sent => \E x : Places(q) = {x}) /\ (q \notin Sent => Places(q) = {})
      <3>1. CASE Flying(q)
        BY <3>1, <2>0, <2>s, <2>1, <2>2, <2>3, <2>4, <2>5, <2>6, <2>7, <2>8 DEF Single
      <3>2. CASE Recorded(q)
        BY <3>2, <2>0, <2>s, <2>1, <2>2, <2>3, <2>4, <2>5, <2>6, <2>7, <2>8 DEF Single
      <3>3. CASE OnBus(q)
        BY <3>3, <2>0, <2>s, <2>1, <2>2, <2>3, <2>4, <2>5, <2>6, <2>7, <2>8 DEF Single
      <3>4. CASE q \in InHand
        BY <3>4, <2>0, <2>s, <2>1, <2>2, <2>3, <2>4, <2>5, <2>6, <2>7, <2>8 DEF Single
      <3>5. CASE InWindow(q)
        BY <3>5, <2>0, <2>s, <2>1, <2>2, <2>3, <2>4, <2>5, <2>6, <2>7, <2>8 DEF Single
      <3>6. CASE InSnapshot(q)
        BY <3>6, <2>0, <2>s, <2>1, <2>2, <2>3, <2>4, <2>5, <2>6, <2>7, <2>8 DEF Single
      <3>7. CASE Reported(q)
        BY <3>7, <2>0, <2>s, <2>1, <2>2, <2>3, <2>4, <2>5, <2>6, <2>7, <2>8 DEF Single
      <3>8. CASE q \in lost
        BY <3>8, <2>0, <2>s, <2>1, <2>2, <2>3, <2>4, <2>5, <2>6, <2>7, <2>8 DEF Single
      <3>9. CASE q \notin Sent
        BY <3>9, <2>0, <2>s, <2>1, <2>2, <2>3, <2>4, <2>5, <2>6, <2>7, <2>8 DEF Single
      <3>. QED
        BY <2>s, <3>1, <3>2, <3>3, <3>4, <3>5, <3>6, <3>7, <3>8, <3>9 DEF Single
    <2>. QED
      BY <2>9, FS_EmptySet, FS_Singleton
  <1>2. TelemetryTypeOK /\ CountInv => CountedOnce
    BY <1>1 DEF CountedOnce
  <1>. QED
    BY <1>2, CountInvAlways, PTL

-----------------------------------------------------------------------------
(* The pipeline counts at most once                                        *)

\* The refinement mapping's value of AtMostOnce's made.
MadeOf == [t \in Tests |-> UNION {sent[e] : e \in {f \in Executions : TestOf[f] = t}}]

CountingStep == [Counting!CountingNext]_(Counting!countingVars)

LEMMA MadeIs == \A t \in Tests : \A q : q \in MadeOf[t] <=> MadeFor(t, q)
  BY DEF MadeOf, MadeFor

LEMMA CountingStutters == UNCHANGED <<sent, exported, lost>> => CountingStep
  BY DEF CountingStep, Counting!countingVars

LEMMA MapInit == TelemetryInit => Counting!CountingInit
  <1> SUFFICES ASSUME TelemetryInit PROVE Counting!CountingInit
    OBVIOUS
  <1>1. \A t \in Tests : UNION {sent[e] : e \in {f \in Executions : TestOf[f] = t}} = {}
    BY DEF TelemetryInit, ExecutionInit
  <1>. QED
    BY <1>1 DEF TelemetryInit, AggregatorInit, Counting!CountingInit

\* A tick that starts a request makes it.
LEMMA MapTick ==
  ASSUME TelemetryTypeOK, NEW e \in Executions, NEW q \in Requests, Tick(e, q), UNCHANGED aggregatorVars
  PROVE  CountingStep
  <1>1. /\ TestOf[e] \in Tests /\ q \notin Sent /\ UNCHANGED <<exported, lost>>
        /\ sent' = [sent EXCEPT ![e] = @ \cup {q}] /\ sent \in [Executions -> SUBSET Requests]
    BY TestOfAssumption DEF Tick, aggregatorVars, TelemetryTypeOK, ExecutionTypeOK
  <1>2. \A u \in Tests : q \notin MadeOf[u]
    BY <1>1, MadeIs DEF MadeFor, Sent
  <1>3. \A u \in Tests : \A x : MadeFor(u, x)' <=> MadeFor(u, x) \/ (u = TestOf[e] /\ x = q)
    BY <1>1 DEF MadeFor
  <1>4. MadeOf' = [MadeOf EXCEPT ![TestOf[e]] = @ \cup {q}]
    <2>1. ASSUME NEW u \in Tests
          PROVE  MadeOf'[u] = IF u = TestOf[e] THEN MadeOf[u] \cup {q} ELSE MadeOf[u]
      <3>1. \A x : x \in MadeOf'[u] <=> MadeFor(u, x)'
        BY DEF MadeOf, MadeFor
      <3>2. \A x : x \in MadeOf[u] <=> MadeFor(u, x)
        BY MadeIs
      <3>. QED
        BY <1>3, <3>1, <3>2
    <2>2. /\ MadeOf = [u \in Tests |-> MadeOf[u]]
          /\ MadeOf' = [u \in Tests |-> MadeOf'[u]]
      BY DEF MadeOf
    <2>. QED
      BY <2>1, <2>2
  <1>5. Counting!Make(TestOf[e], q)
    BY <1>1, <1>2, <1>4 DEF Counting!Make, MadeOf
  <1>. QED
    BY <1>1, <1>5 DEF CountingStep, Counting!CountingNext

\* A report that is written tells of the requests of its snapshot.
LEMMA MapWrite ==
  ASSUME TelemetryTypeOK, CountInv, NEW s \in snapshots, ReportWrites(s)
  PROVE  CountingStep
  <1>1. /\ s.test \in Tests /\ s.requests \in SUBSET Requests
        /\ UNCHANGED <<sent, lost>>
        /\ exported \in [Tests -> [Requests -> Nat]]
        /\ Told(s)
    BY ToldCounts DEF ReportWrites, executionVars, TelemetryTypeOK, Snapshots
  <1>2. \A q \in s.requests : ~Reported(q) /\ q \notin lost /\ MadeFor(s.test, q)
    <2>1. \A q \in s.requests : InSnapshot(q) /\ Single(q)
      BY <1>1 DEF InSnapshot, CountInv
    <2>. QED
      BY <2>1 DEF Single, CountInv, Owned
  <1>3. \A q \in s.requests : \A t \in Tests : exported[t][q] = 0
    BY <1>1, <1>2 DEF Reported
  <1>4. s.requests \subseteq MadeOf[s.test] \ lost
    BY <1>1, <1>2, MadeIs
  <1>5. [q \in Requests |-> IF q \in s.requests THEN exported[s.test][q] + 1 ELSE exported[s.test][q]]
          = [q \in Requests |-> IF q \in s.requests THEN 1 ELSE exported[s.test][q]]
    BY <1>1, <1>3
  <1>6. exported' = [exported EXCEPT
                       ![s.test] = [q \in Requests |-> IF q \in s.requests THEN 1 ELSE @[q]]]
    BY <1>1, <1>5 DEF Told
  <1>7. MadeOf' = MadeOf
    BY <1>1 DEF MadeOf
  <1>8. Counting!Tell(s.test, s.requests)
    <2>1. s.requests \subseteq MadeOf[s.test] \ lost
      BY <1>4
    <2>2. \A q \in s.requests : Counting!Untold(q)
      BY <1>3 DEF Counting!Untold
    <2>. QED
      BY <1>1, <1>6, <1>7, <2>1, <2>2 DEF Counting!Tell, MadeOf
  <1>. QED
    BY <1>1, <1>8 DEF CountingStep, Counting!CountingNext

\* Whatever takes requests that are on their way loses them.
LEMMA MapLoss ==
  ASSUME CountInv, NEW group \in SUBSET Requests, lost' = lost \cup group, UNCHANGED <<sent, exported>>,
         \A q \in group : OnBus(q) \/ q \in InHand \/ InWindow(q) \/ InSnapshot(q)
  PROVE  CountingStep
  <1>1. \A q \in group : q \in Sent /\ ~Reported(q) /\ q \notin lost
    BY DEF CountInv, Single
  <1>2. \A q \in group : \A t \in Tests : exported[t][q] = 0
    BY <1>1 DEF Reported, CountInv, NoTwins
  <1>3. \A q \in group : \E t \in Tests : q \in MadeOf[t]
    BY <1>1, MadeIs, TestOfAssumption DEF Sent, MadeFor
  <1>4. Counting!Lose(group)
    BY <1>1, <1>2, <1>3 DEF Counting!Lose, Counting!Untold, MadeOf
  <1>. QED
    BY <1>4 DEF CountingStep, Counting!CountingNext

LEMMA MapStep ==
  ASSUME TelemetryTypeOK, CountInv, [TelemetryNext]_telemetryVars
  PROVE  CountingStep
  <1>0. /\ \A b \in bus : b.requests \in SUBSET Requests
        /\ \A s \in snapshots : s.requests \in SUBSET Requests
    BY DEF TelemetryTypeOK, ExecutionTypeOK, Buckets, Snapshots
  <1>1. ASSUME NEW e \in Executions, ExecutionStep(e), UNCHANGED aggregatorVars
        PROVE  CountingStep
    <2>1. ASSUME \A q \in Requests : ~Tick(e, q)
          PROVE  UNCHANGED <<sent, exported, lost>>
      BY <1>1, <2>1 DEF ExecutionStep, Record, RequestEnds, PacingEnds, EngineReturns, FlushTick,
                        ExecutionFinishes, ShutDown, ExecutionAbandoned, aggregatorVars
    <2>. QED
      BY <1>1, <2>1, MapTick, CountingStutters
  <1>2. ASSUME NEW b \in bus, BucketLost(b) PROVE CountingStep
    <2>1. lost' = lost \cup b.requests /\ UNCHANGED <<sent, exported>>
      BY <1>2 DEF BucketLost
    <2>2. \A q \in b.requests : OnBus(q)
      BY DEF OnBus
    <2>. QED
      BY <1>0, <2>1, <2>2, MapLoss
  <1>3. CASE SubscriberMerges
    <2>1. handling.pc = "merge" /\ UNCHANGED <<sent, exported>>
      BY <1>3 DEF SubscriberMerges, executionVars
    <2>2. InHand = handling.bucket.requests /\ InHand \in SUBSET Requests
      BY <2>1 DEF InHand, TelemetryTypeOK, Handling, Nothing, Buckets
    <2>3. CASE handling.live
      BY <1>3, <2>1, <2>3, CountingStutters DEF SubscriberMerges
    <2>4. CASE ~handling.live
      <3>1. lost' = lost \cup InHand
        BY <1>3, <2>2, <2>4 DEF SubscriberMerges
      <3>. QED
        BY <2>1, <2>2, <3>1, MapLoss
    <2>. QED
      BY <2>3, <2>4
  <1>4. ASSUME NEW s \in snapshots, ReportFails(s) PROVE CountingStep
    <2>1. lost' = lost \cup s.requests /\ UNCHANGED <<sent, exported>>
      BY <1>4 DEF ReportFails, executionVars
    <2>2. \A q \in s.requests : InSnapshot(q)
      BY DEF InSnapshot
    <2>. QED
      BY <1>0, <2>1, <2>2, MapLoss
  <1>5. CASE AggregatorRestarts
    <2>1. lost' = lost \cup InMemory /\ UNCHANGED <<sent, exported>>
      BY <1>5 DEF AggregatorRestarts, executionVars
    <2>2. InMemory \in SUBSET Requests
      BY DEF InMemory, InHand, TelemetryTypeOK, Windows, Snapshots, Handling, Nothing, Buckets
    <2>3. \A q \in InMemory : InWindow(q) \/ InSnapshot(q) \/ q \in InHand
      BY <2>2, InMemoryIs
    <2>. QED
      BY <2>1, <2>2, <2>3, MapLoss
  <1>6. CASE \/ \E b \in bus : SubscriberGets(b)
             \/ ReportCollects
             \/ UNCHANGED telemetryVars
    BY <1>6, CountingStutters DEF SubscriberGets, ReportCollects, executionVars, telemetryVars
  <1>. QED
    BY <1>1, <1>2, <1>3, <1>4, <1>5, <1>6, MapWrite DEF TelemetryNext

\* Whatever flushes, merges, reports, losses and restarts run into each
\* other, each request is told of at most once and for its own test, and what
\* was lost is not told of.
THEOREM CountingImplemented == TelemetrySpec => ImplementsAtMostOnce
  <1>1. TelemetryTypeOK /\ CountInv /\ [TelemetryNext]_telemetryVars
          => [Counting!CountingNext]_(Counting!countingVars)
    BY MapStep DEF CountingStep
  <1>. QED
    BY <1>1, MapInit, CountInvAlways, PTL
       DEF TelemetrySpec, ImplementsAtMostOnce, Counting!CountingSpec

=============================================================================
