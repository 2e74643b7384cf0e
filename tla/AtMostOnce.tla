----------------------------- MODULE AtMostOnce -----------------------------
(***************************************************************************)
(* What the telemetry pipeline promises: the abstract specification that   *)
(* Telemetry implements.  Requests are made, and told of in any groups and *)
(* order, each at most once and for its own test; some get lost.           *)
(***************************************************************************)
EXTENDS Naturals

CONSTANTS Tests, Requests

VARIABLES
  made,   \* made[t]: the requests made for test t
  told,   \* told[t][q]: how often q has been counted for t
  gone    \* the requests lost on the way

countingVars == <<made, told, gone>>

CountingInit ==
  /\ made = [t \in Tests |-> {}]
  /\ told = [t \in Tests |-> [q \in Requests |-> 0]]
  /\ gone = {}

Untold(q) == \A t \in Tests : told[t][q] = 0

Make(t, q) ==
  /\ \A u \in Tests : q \notin made[u]
  /\ made' = [made EXCEPT ![t] = @ \cup {q}]
  /\ UNCHANGED <<told, gone>>

\* One report counts a group of requests of one test.
Tell(t, group) ==
  /\ group \subseteq made[t] \ gone
  /\ \A q \in group : Untold(q)
  /\ told' = [told EXCEPT ![t] = [q \in Requests |-> IF q \in group THEN 1 ELSE @[q]]]
  /\ UNCHANGED <<made, gone>>

\* A fault may take requests of several tests at once.
Lose(group) ==
  /\ \A q \in group : Untold(q) /\ q \notin gone /\ \E t \in Tests : q \in made[t]
  /\ gone' = gone \cup group
  /\ UNCHANGED <<made, told>>

CountingNext ==
  \/ \E t \in Tests, q \in Requests : Make(t, q)
  \/ \E t \in Tests, group \in SUBSET Requests : Tell(t, group)
  \/ \E group \in SUBSET Requests : Lose(group)

CountingSpec == CountingInit /\ [][CountingNext]_countingVars

=============================================================================
