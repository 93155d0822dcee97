----------------------------- MODULE Subscription ----------------------------
(***************************************************************************)
(* The paid subscription of a workspace over its life: the events of the   *)
(* payment provider (BillingWebhookService), the plan changes people ask   *)
(* for (BillingService) and the grace period (BillingLifecycleService), in *)
(* libs/api/workspace/src/lib/billing.                                     *)
(*                                                                         *)
(* The provider sends every event until it is answered, in any order; the  *)
(* handlers read the row first and update it without a condition. An event *)
(* carries the second it was created in, so that of two of one second they *)
(* cannot tell the later. Checkout has the activation and upgrades;        *)
(* trials, refunds, invoices and rows without a provider are left out.     *)
(***************************************************************************)
EXTENDS Naturals, Sequences

CONSTANTS
    Handlers,    \* webhook deliveries in progress
    None,
    MaxEvents,   \* bound: events of the provider
    MaxPeriods,  \* bound: billing periods
    MaxRequests, \* bound: plan changes asked for
    MaxFaults    \* bound: handlers that die, cancellations that fail

ASSUME BoundsAssumption ==
    {MaxEvents, MaxPeriods, MaxRequests, MaxFaults} \subseteq Nat
ASSUME NoneAssumption == None \notin {"free", "lower"}

VARIABLES
    provider,  \* the subscription at the provider
    events,    \* its events, in order of creation
    done,      \* BillingWebhookEvent: the events PROCESSED or IGNORED
    row,       \* WorkspaceSubscription
    upto,      \* history: the number of the newest event the row accounts for
    handlers,  \* BillingWebhookService.handle
    user,      \* a plan change between the call of the provider and its write
    sweep,     \* enforcePastDueGrace
    excused,   \* history: what overlapped in a way the code does not handle
    requests, faults

vars == <<provider, events, done, row, upto, handlers, user, sweep, excused,
          requests, faults>>

Idle == [pc |-> "idle"]
\* A bound: after an excused overlap, of which no property but AllAnswered
\* says anything, only what has begun goes on.
Open == ~excused
Fault == Open /\ faults < MaxFaults /\ faults' = faults + 1
Go(h, to) == handlers' = [handlers EXCEPT ![h] = to]
Excuse(late) == excused' = (excused \/ late)

Event(kind, p, at) == [kind |-> kind, period |-> p.period, status |-> p.status,
                       cancel |-> p.cancel, at |-> at]
Last == events[Len(events)]

\* The second of the newest event, that of the checkout included.
Second == IF row.eventAt > Last.at THEN row.eventAt ELSE Last.at

\* The next event is of the same second or of a later one.
Turns(kind, p) ==
    /\ Open
    /\ Len(events) < MaxEvents
    /\ provider' = p
    /\ \E at \in {Second, Second + 1} : events' = Append(events, Event(kind, p, at))

----------------------------------------------------------------------------
(* The provider                                                            *)

\* A period ends: the subscription renews and its invoice is open, or it
\* ends where that was asked for.
Renew ==
    /\ row.known
    /\ provider.status = "ACTIVE"
    /\ ~provider.cancel
    /\ provider.period < MaxPeriods
    /\ Turns("updated", [provider EXCEPT !.period = @ + 1, !.unpaid = TRUE])
    /\ UNCHANGED <<done, row, upto, handlers, user, sweep, excused, requests, faults>>

Expire ==
    /\ row.known
    /\ provider.cancel
    /\ provider.status # "ended"
    /\ Turns("deleted", [provider EXCEPT !.status = "ended"])
    /\ UNCHANGED <<done, row, upto, handlers, user, sweep, excused, requests, faults>>

\* The open invoice is paid, or a payment fails.
Collect ==
    /\ provider.unpaid
    /\ provider.status # "ended"
    /\ \/ Turns("paid", [provider EXCEPT !.unpaid = FALSE, !.status = "ACTIVE"])
       \/ Turns("failed", [provider EXCEPT !.status = "PAST_DUE"])
    /\ UNCHANGED <<done, row, upto, handlers, user, sweep, excused, requests, faults>>

\* An update that says what an event before it said: of the subscription
\* that became active or past due as its invoice was paid or was not.
Announce ==
    /\ provider.status # "ended"
    /\ Last.kind # "updated"
    /\ Turns("updated", provider)
    /\ UNCHANGED <<done, row, upto, handlers, user, sweep, excused, requests, faults>>

\* completeSubscriptionCheckout, in Checkout: the payment's events lie before
\* that of the completed checkout, perhaps in its second.
Activate ==
    /\ ~row.known
    /\ \E at \in {Last.at, Last.at + 1} :
         row' = [row EXCEPT !.known = TRUE, !.bound = TRUE, !.plan = "paid", !.period = 1,
                            !.eventAt = at]
    /\ upto' = Len(events)
    /\ UNCHANGED <<provider, events, done, handlers, user, sweep, excused,
                   requests, faults>>

----------------------------------------------------------------------------
(* Webhooks                                                                *)

\* findSubscription: by the subscription, or else by the customer.
FoundBound(sub) == sub.bound
Found(sub) == sub.known

\* handle claims an event that is not done and reads the row. An invoice
\* without a subscription is refused (RetryWebhookLater) and comes again.
\* `sub' is what the handlers use of it.
Deliver(h, e) ==
    /\ handlers[h] = Idle
    /\ e \notin done
    /\ events[e].kind = "paid" => Found(row)
    /\ Go(h, [pc |-> "read", event |-> e,
              sub |-> [known |-> row.known, bound |-> row.bound,
                       eventAt |-> row.eventAt, period |-> row.period]])
    /\ UNCHANGED <<provider, events, done, row, upto, user, sweep, excused, requests, faults>>

StaleOrTied(e, sub) == events[e].at <= sub.eventAt
Stale(e, sub) == events[e].at < sub.eventAt

\* downgradeToFree
FreeKeepingPlan(r) == [r EXCEPT !.bound = FALSE, !.cancelAtEnd = FALSE]
Free(r) ==
    [r EXCEPT !.plan = "free", !.status = "ACTIVE", !.bound = FALSE,
              !.cancelAtEnd = FALSE, !.scheduled = None, !.due = 0]

\* A write of what would be ignored if the row were read again.
Late(e, sub) ==
    \/ row.eventAt # sub.eventAt /\ events[e].at < row.eventAt
    \/ row.bound # sub.bound

\* A write of what a later event of the same second has overtaken.
Tied(e) == e < upto /\ events[e].at = row.eventAt

Writes(e, r, sub) ==
    /\ row' = r
    /\ upto' = e
    /\ Excuse(Late(e, sub) \/ Tied(e))

Advances(h) ==
    events[handlers[h].event].period > handlers[h].sub.period

Paid(r, e, sub) ==
    [r EXCEPT !.status = "ACTIVE", !.eventAt = events[e].at,
              !.period = IF events[e].period > sub.period THEN events[e].period ELSE @]

\* invoice.paid. The invoice is recorded in any case, which is left out.
InvoicePaid(h) ==
    LET r == handlers[h] e == r.event IN
    /\ r.pc = "read"
    /\ events[e].kind = "paid"
    /\ IF Stale(e, r.sub)
       THEN /\ Go(h, [pc |-> "answer", event |-> e])
            /\ UNCHANGED <<row, upto, excused>>
       ELSE /\ Writes(e, Paid(row, e, r.sub), r.sub)
            /\ Go(h, [pc |-> IF Advances(h) THEN "plan" ELSE "answer", event |-> e])
    /\ UNCHANGED <<provider, events, done, user, sweep, requests, faults>>

\* invoice.payment_failed, subscription.updated and .deleted
Updated(r, e, sub) ==
    CASE events[e].kind = "failed" ->
           [r EXCEPT !.status = "PAST_DUE", !.eventAt = events[e].at]
      [] events[e].kind = "updated" ->
           [r EXCEPT !.status = events[e].status, !.cancelAtEnd = events[e].cancel,
                     !.eventAt = events[e].at, !.bound = TRUE,
                     !.period = IF events[e].period > sub.period
                                THEN events[e].period ELSE @]
      [] events[e].kind = "deleted" -> [Free(r) EXCEPT !.eventAt = events[e].at]

Ignores(e, sub) ==
    \/ ~Found(sub)
    \/ events[e].kind = "deleted" /\ ~sub.bound
    \/ Stale(e, sub)

Change(h) ==
    LET r == handlers[h] e == r.event IN
    /\ r.pc = "read"
    /\ events[e].kind # "paid"
    /\ IF Ignores(e, r.sub)
       THEN UNCHANGED <<row, upto, excused>>
       ELSE Writes(e, Updated(row, e, r.sub), r.sub)
    /\ Go(h, [pc |-> "answer", event |-> e])
    /\ UNCHANGED <<provider, events, done, user, sweep, requests, faults>>

\* applyScheduledPlan: reads the row, then writes the plan.
PlanRead(h) ==
    LET r == handlers[h] IN
    /\ r.pc = "plan"
    /\ Go(h, IF row.scheduled = None \/ row.due >= provider.period
             THEN [pc |-> "answer", event |-> r.event]
             ELSE [pc |-> "switch", event |-> r.event, plan |-> row.scheduled, due |-> row.due])
    /\ UNCHANGED <<provider, events, done, row, upto, user, sweep, excused, requests, faults>>

PlanWrite(h) ==
    LET r == handlers[h] IN
    /\ r.pc = "switch"
    /\ row' = IF r.plan = "free" THEN Free(row)
              ELSE [row EXCEPT !.plan = r.plan, !.scheduled = None, !.due = 0,
                        !.cancelAtEnd = FALSE]
    /\ Excuse(row.scheduled # r.plan \/ row.due # r.due \/ row.cancelAtEnd \/ user # Idle)
    /\ Go(h, [pc |-> "answer", event |-> r.event])
    /\ UNCHANGED <<provider, events, done, upto, user, sweep, requests, faults>>

Answer(h) ==
    /\ handlers[h].pc = "answer"
    /\ done' = done \cup {handlers[h].event}
    /\ Go(h, Idle)
    /\ UNCHANGED <<provider, events, row, upto, user, sweep, excused, requests, faults>>

\* The handler dies or a query fails: the event comes again. Before its
\* first write that is as if it had not begun.
HandlerFails(h) ==
    /\ handlers[h].pc \in {"plan", "switch", "answer"}
    /\ Go(h, Idle)
    /\ Fault
    /\ UNCHANGED <<provider, events, done, row, upto, user, sweep, excused, requests>>

----------------------------------------------------------------------------
(* Plan changes                                                            *)

\* The bound counts what is asked for, not its withdrawal.
Ask(request) ==
    /\ Open
    /\ user = Idle
    /\ row.plan # "free"
    /\ \/ request = None /\ UNCHANGED requests
       \/ request # None /\ requests < MaxRequests /\ requests' = requests + 1
    /\ user' = [pc |-> "write", request |-> request, period |-> row.period]
    /\ UNCHANGED <<done, row, upto, handlers, sweep, excused, faults>>

\* cancelSubscription, reactivateSubscription, downgradePlan: what they ask
\* of the provider ...
AskCancel ==
    /\ Ask("free")
    /\ row.bound
    /\ provider.status # "ended"
    /\ Turns("updated", [provider EXCEPT !.cancel = TRUE])

AskReactivate ==
    /\ Ask(None)
    /\ row.cancelAtEnd \/ row.scheduled # None
    /\ row.period >= provider.period
    /\ row.bound
    /\ provider.status # "ended"
    /\ Turns("updated", [provider EXCEPT !.cancel = FALSE])

AskDowngrade ==
    /\ Ask("lower")
    /\ row.plan = "paid"
    /\ provider.status # "ended"
    /\ UNCHANGED <<provider, events>>

\* ... and what they write then.
Schedule ==
    /\ user.pc = "write"
    /\ row' = [row EXCEPT !.scheduled = user.request,
                          !.due = IF user.request = None THEN 0 ELSE user.period,
                          !.cancelAtEnd = IF user.request = "lower" THEN @
                                          ELSE user.request = "free"]
    /\ user' = Idle
    /\ Excuse(row.plan = "free" \/ row.period # user.period \/ provider.period # user.period)
    /\ UNCHANGED <<provider, events, done, upto, handlers, sweep, requests, faults>>

\* A reactivation that fails here leaves the plan scheduled that the provider
\* no longer ends, which the next invoice applies; that is excused.
ScheduleFails ==
    /\ Open
    /\ user # Idle
    /\ user' = Idle
    /\ Excuse(user.request = None)
    /\ UNCHANGED <<provider, events, done, row, upto, handlers, sweep, requests, faults>>

----------------------------------------------------------------------------
(* enforcePastDueGrace                                                     *)

\* It lists what has been past due for long enough,
OverdueWhateverStatus == row.bound /\ row.plan # "free"
Overdue == row.bound /\ row.plan # "free" /\ row.status = "PAST_DUE"

SweepLists ==
    /\ Open
    /\ sweep = Idle
    /\ Overdue
    /\ sweep' = [pc |-> "listed"]
    /\ UNCHANGED <<provider, events, done, row, upto, handlers, user, excused, requests, faults>>

\* cancels each one at the provider, which may fail,
SweepCancels ==
    /\ sweep.pc = "listed"
    /\ sweep' = [pc |-> "cancelled"]
    /\ \/ /\ provider.status # "ended"
          /\ Turns("deleted", [provider EXCEPT !.status = "ended"])
          /\ Excuse(~Overdue)
          /\ UNCHANGED faults
       \/ /\ provider.status = "ended"
          /\ UNCHANGED <<provider, events, excused, faults>>
       \/ /\ Fault
          /\ excused' = TRUE
          /\ UNCHANGED <<provider, events>>
    /\ UNCHANGED <<done, row, upto, handlers, user, requests>>

\* and drops it.
SweepDrops ==
    /\ sweep.pc = "cancelled"
    /\ row' = Free(row)
    /\ sweep' = Idle
    /\ UNCHANGED <<provider, events, done, upto, handlers, user, excused, requests, faults>>

----------------------------------------------------------------------------
\* The first payment. That of the subscription's creation comes before it,
\* as an update that is incomplete, if it is not answered yet.
Init ==
    /\ provider = [status |-> "ACTIVE", period |-> 1, unpaid |-> FALSE, cancel |-> FALSE]
    /\ events \in {<<Event("paid", provider, 1)>>}
         \cup {<<Event("updated", [provider EXCEPT !.status = "INCOMPLETE"], 1),
                 Event("paid", provider, at)>> : at \in {1, 2}}
    /\ done = {}
    /\ row = [known |-> FALSE, bound |-> FALSE, plan |-> "free", status |-> "ACTIVE",
              period |-> 0, eventAt |-> 0, cancelAtEnd |-> FALSE, scheduled |-> None, due |-> 0]
    /\ upto = 0
    /\ handlers = [h \in Handlers |-> Idle]
    /\ user = Idle
    /\ sweep = Idle
    /\ excused = FALSE
    /\ requests = 0
    /\ faults = 0

HandlerStep(h) ==
    \/ \E e \in DOMAIN events : Deliver(h, e)
    \/ InvoicePaid(h) \/ Change(h) \/ PlanRead(h) \/ PlanWrite(h) \/ Answer(h)

Next ==
    \/ Renew \/ Expire \/ Collect \/ Announce \/ Activate
    \/ \E h \in Handlers : HandlerStep(h) \/ HandlerFails(h)
    \/ AskCancel \/ AskReactivate \/ AskDowngrade \/ Schedule \/ ScheduleFails
    \/ SweepLists \/ SweepCancels \/ SweepDrops

Spec == Init /\ [][Next]_vars

\* The provider sends again what was not answered, and handlers go on.
Fairness == WF_vars(\E h \in Handlers : HandlerStep(h))
FairSpec == Spec /\ Fairness

----------------------------------------------------------------------------
(* Properties                                                              *)

Status == {"ACTIVE", "PAST_DUE", "INCOMPLETE"}
Plans == {"free", "lower", "paid"}
Changes == {None, "free", "lower"}
Provider == [status: Status \cup {"ended"}, period: Nat, unpaid: BOOLEAN, cancel: BOOLEAN]
EventType == [kind: {"paid", "failed", "updated", "deleted"}, period: Nat,
              status: Status \cup {"ended"}, cancel: BOOLEAN, at: Nat]
Row == [known: BOOLEAN, bound: BOOLEAN, plan: Plans, status: Status, period: Nat,
        eventAt: Nat, cancelAtEnd: BOOLEAN, scheduled: Changes, due: Nat]
View == [known: BOOLEAN, bound: BOOLEAN, eventAt: Nat, period: Nat]
Delivery == [pc: {"read"}, event: Nat, sub: View]
            \cup [pc: {"plan", "answer"}, event: Nat]
            \cup [pc: {"switch"}, event: Nat, plan: {"free", "lower"}, due: Nat]

\* Type invariant. A row that is not bound to the provider has no paid plan,
\* unless a read and a write overlapped.
TypeOK ==
    /\ provider \in Provider
    /\ events \in Seq(EventType)
    /\ done \subseteq DOMAIN events
    /\ row \in Row
    /\ upto \in 0 .. Len(events)
    /\ row.plan # "free" /\ ~excused => row.bound
    /\ handlers \in [Handlers -> {Idle} \cup Delivery]
    /\ \A h \in Handlers : handlers[h] # Idle => handlers[h].event \in DOMAIN events
    /\ user \in {Idle} \cup [pc: {"write"}, request: Changes, period: Nat]
    /\ sweep \in [pc: {"idle", "listed", "cancelled"}]
    /\ excused \in BOOLEAN
    /\ requests \in 0 .. MaxRequests /\ faults \in 0 .. MaxFaults

Quiet ==
    /\ row.known
    /\ done = DOMAIN events
    /\ user = Idle /\ sweep = Idle
    /\ \A h \in Handlers : handlers[h] = Idle

\* However often the events came, in whatever order those of different
\* seconds, and whatever happened to their handlers, the row agrees with the
\* provider once all are answered: whether it has a paid plan, is past due, in
\* which period it is and whether it ends there (isStale, the claim of an
\* event, its release by a failed handler) - the latter two if the newest
\* event carries them, as an older one that it overtook is ignored. Excused
\* are two events of one second that are written out of order, which isStale
\* cannot tell, an overlap of a read and a write, and a failed cancellation.
FollowsProvider ==
    Quiet /\ ~excused =>
        IF provider.status = "ended" THEN row.plan = "free"
        ELSE /\ row.plan # "free"
             /\ row.status = provider.status
             /\ Last.kind # "failed" => row.period = provider.period
             /\ Last.kind = "updated" => row.cancelAtEnd = provider.cancel

\* A workspace that pays keeps its plan. The row is dropped only after the
\* provider has ended the subscription; and that it does only when the
\* cancellation is due, or a payment is missing, or its event is still on the
\* way when the grace period runs out.
OnlyUnpaidIsDropped ==
    [][/\ row.plan # "free" /\ row'.plan = "free" /\ ~excused' =>
             provider.status = "ended"
       /\ provider.status # "ended" /\ provider'.status = "ended" /\ ~excused' =>
             \/ provider.cancel
             \/ provider.unpaid
             \/ \E e \in DOMAIN events \ done : events[e].kind = "paid"]_vars

\* Every event is answered in the end, an invoice too that comes before its
\* subscription is known or after it has ended.
AllAnswered == []<>(done = DOMAIN events \/ ~row.known)

\* `Applies a scheduled downgrade once its effective date has arrived'
\* (applyScheduledPlan): here, when the new period is paid for as well.
ScheduleApplied ==
    Quiet /\ ~excused /\ ~provider.unpaid /\ row.scheduled # None => row.due >= row.period
=============================================================================
