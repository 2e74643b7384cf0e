------------------------------ MODULE Execution ------------------------------
(***************************************************************************)
(* What a worker does with an assignment (internal/execution,              *)
(* internal/worker/executor.go, internal/metrics).  Three kinds of         *)
(* goroutine share the collector: the scheduler's loop starts one          *)
(* goroutine per request, within a semaphore; each of these records its    *)
(* result; and execute flushes the collector into a bucket every second,   *)
(* once more when the engine has returned, and publishes it.               *)
(*                                                                         *)
(* Requests are identifiers, so that the counters of a bucket are the set  *)
(* of requests in it; sizes and latencies are dropped.  The identifiers    *)
(* bound the length of a run: a tick finds one that is not yet used.       *)
(***************************************************************************)
EXTENDS Naturals, FiniteSets

CONSTANTS
  Executions,   \* the assignments being worked on, each with a collector
  Requests,     \* identifiers of requests
  Concurrency   \* tests.concurrency

ASSUME ConcurrencyAssumption == Concurrency \in Nat \ {0}

VARIABLES
  context,    \* context[e]: why execCtx is done, if it is
  engine,     \* engine[e]: the point FixedRateScheduler.Run has reached
  executing,  \* executing[e]: requests that have no result yet
  slots,      \* slots[e]: requests whose goroutine has not ended (sem and wg)
  collector,  \* collector[e]: the requests in the Collector's counters
  watch,      \* watch[e]: the point execute's loop has reached
  sent,       \* history: sent[e]: the requests made so far
  bus         \* the buckets published and not yet delivered

executionVars == <<context, engine, executing, slots, collector, watch, sent, bus>>

Contexts == {"live", "stopped", "shutdown"}

Buckets == [execution : Executions, requests : SUBSET Requests]

ExecutionTypeOK ==
  /\ context \in [Executions -> Contexts]
  /\ engine \in [Executions -> {"pacing", "waiting", "returned"}]
  /\ executing \in [Executions -> SUBSET Requests]
  /\ slots \in [Executions -> SUBSET Requests]
  /\ collector \in [Executions -> SUBSET Requests]
  /\ watch \in [Executions -> {"running", "finished", "abandoned"}]
  /\ sent \in [Executions -> SUBSET Requests]
  /\ bus \subseteq Buckets

ExecutionInit ==
  /\ context = [e \in Executions |-> "live"]
  /\ engine = [e \in Executions |-> "pacing"]
  /\ executing = [e \in Executions |-> {}]
  /\ slots = [e \in Executions |-> {}]
  /\ collector = [e \in Executions |-> {}]
  /\ watch = [e \in Executions |-> "running"]
  /\ sent = [e \in Executions |-> {}]
  /\ bus = {}

-----------------------------------------------------------------------------
(* FixedRateScheduler.Run and the goroutines it starts                     *)

Sent == UNION {sent[e] : e \in Executions}

\* A tick starts a request if a slot of the semaphore is free; otherwise it
\* is dropped, which changes nothing.  When runCtx is done as well, select
\* may still take the tick.
Tick(e, q) ==
  /\ engine[e] = "pacing"
  /\ Cardinality(slots[e]) < Concurrency
  /\ q \notin Sent
  /\ sent' = [sent EXCEPT ![e] = @ \cup {q}]
  /\ executing' = [executing EXCEPT ![e] = @ \cup {q}]
  /\ slots' = [slots EXCEPT ![e] = @ \cup {q}]
  /\ UNCHANGED <<context, engine, collector, watch, bus>>

\* The request succeeds or fails (as it does when runCtx is done), and its
\* result is recorded, in the same goroutine.
Record(e, q) ==
  /\ q \in executing[e]
  /\ executing' = [executing EXCEPT ![e] = @ \ {q}]
  /\ collector' = [collector EXCEPT ![e] = @ \cup {q}]
  /\ UNCHANGED <<context, engine, slots, watch, sent, bus>>

\* Defect variant: a cancelled request returns without giving its slot back.
RequestEndsHolding(e, q) ==
  /\ q \in slots[e] \ executing[e]
  /\ context[e] = "live"
  /\ slots' = [slots EXCEPT ![e] = @ \ {q}]
  /\ UNCHANGED <<context, engine, executing, collector, watch, sent, bus>>

\* The deferred calls: the slot is given back and the wait group told.
RequestEnds(e, q) ==
  /\ q \in slots[e] \ executing[e]
  /\ slots' = [slots EXCEPT ![e] = @ \ {q}]
  /\ UNCHANGED <<context, engine, executing, collector, watch, sent, bus>>

\* runCtx is done: the duration is over, or execCtx was cancelled.
PacingEnds(e) ==
  /\ engine[e] = "pacing"
  /\ engine' = [engine EXCEPT ![e] = "waiting"]
  /\ UNCHANGED <<context, executing, slots, collector, watch, sent, bus>>

\* Defect variant: Run returns without waiting for its requests.
EngineReturnsAtOnce(e) ==
  /\ engine[e] = "waiting"
  /\ engine' = [engine EXCEPT ![e] = "returned"]
  /\ UNCHANGED <<context, executing, slots, collector, watch, sent, bus>>

\* wg.Wait returns.
EngineReturns(e) ==
  /\ engine[e] = "waiting"
  /\ slots[e] = {}
  /\ engine' = [engine EXCEPT ![e] = "returned"]
  /\ UNCHANGED <<context, executing, slots, collector, watch, sent, bus>>

-----------------------------------------------------------------------------
(* execute                                                                 *)

\* Defect variant: the counters go into the bucket and are not reset.
FlushKeeping(e) ==
  /\ UNCHANGED collector
  /\ IF collector[e] = {}
     THEN UNCHANGED bus
     ELSE bus' = bus \cup {[execution |-> e, requests |-> collector[e]]}

\* Collector.Flush and Publish: nothing is published of an empty bucket.
Flush(e) ==
  /\ collector' = [collector EXCEPT ![e] = {}]
  /\ IF collector[e] = {}
     THEN UNCHANGED bus
     ELSE bus' = bus \cup {[execution |-> e, requests |-> collector[e]]}

\* WHO: the flush ticker.  GetTest may say that the test was stopped, which
\* cancels the engine; the bucket is published in either case.
FlushTick(e) ==
  /\ watch[e] = "running"
  /\ Flush(e)
  /\ \/ UNCHANGED context
     \/ /\ context[e] = "live"
        /\ context' = [context EXCEPT ![e] = "stopped"]
  /\ UNCHANGED <<engine, executing, slots, watch, sent>>

\* Defect variant: the last bucket is forgotten.
EndUnflushed(e) ==
  /\ watch[e] = "running" /\ engine[e] = "returned"
  /\ watch' = [watch EXCEPT ![e] = "finished"]
  /\ UNCHANGED <<context, engine, executing, slots, collector, sent, bus>>

\* WHO: executionErr.  The engine has returned; the rest is flushed.
ExecutionFinishes(e) ==
  /\ watch[e] = "running" /\ engine[e] = "returned"
  /\ Flush(e)
  /\ watch' = [watch EXCEPT ![e] = "finished"]
  /\ UNCHANGED <<context, engine, executing, slots, sent>>

\* The process is told to shut down: ctx is done, and execCtx with it.
ShutDown(e) ==
  /\ watch[e] = "running"
  /\ context[e] # "shutdown"
  /\ context' = [context EXCEPT ![e] = "shutdown"]
  /\ UNCHANGED <<engine, executing, slots, collector, watch, sent, bus>>

\* WHO: ctx.Done().  execute returns with the collector as it is.
ExecutionAbandoned(e) ==
  /\ watch[e] = "running" /\ context[e] = "shutdown"
  /\ watch' = [watch EXCEPT ![e] = "abandoned"]
  /\ UNCHANGED <<context, engine, executing, slots, collector, sent, bus>>

-----------------------------------------------------------------------------

ExecutionStep(e) ==
  \/ \E q \in Requests : Tick(e, q) \/ Record(e, q) \/ RequestEnds(e, q)
  \/ PacingEnds(e) \/ EngineReturns(e)
  \/ FlushTick(e) \/ ExecutionFinishes(e) \/ ShutDown(e) \/ ExecutionAbandoned(e)

-----------------------------------------------------------------------------
(* Safety                                                                  *)

\* When execute has made the last flush nothing is left that could still be
\* recorded, and nothing recorded was left behind: the wait for the requests
\* comes before it, and each records before it tells the wait group.
NothingAfterLastFlush ==
  \A e \in Executions : watch[e] = "finished" =>
    executing[e] = {} /\ collector[e] = {}

=============================================================================
