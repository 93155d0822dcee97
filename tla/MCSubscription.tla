--------------------------- MODULE MCSubscription ----------------------------
(***************************************************************************)
(* Subscription as it is model-checked.                                    *)
(***************************************************************************)
EXTENDS Subscription, FiniteSets

\* Of two events that follow each other in one second.
Ties == {i \in DOMAIN events \ {1} : events[i].at = events[i - 1].at}

\* A bound: besides what the provider does in turn, one thing happens: a plan
\* change, a failure, two events in one second or an overlap that is excused.
OneExtra == requests + faults + Cardinality(Ties) + (IF excused THEN 1 ELSE 0) <= 1
=============================================================================
