------------------------------ MODULE Checkout ------------------------------
(***************************************************************************)
(* Buying a plan or AI credits: CheckoutService, the reservations of a     *)
(* coupon (PromotionService) and the checkout webhooks of the payment      *)
(* provider (BillingWebhookService), in                                    *)
(* libs/api/workspace/src/lib/billing.                                     *)
(*                                                                         *)
(* A request or a webhook delivery is a process that awaits the database   *)
(* and the provider; an action is what it does between two awaits that     *)
(* matter. A database transaction is one action where its row locks and    *)
(* conditional updates make it serialize; the activation of a plan reads   *)
(* the subscription without a lock, so it is two. A session makes at most  *)
(* one provider event: its payment or its expiry. Prices, trials, invoices *)
(* and notices are left out; requests carry no idempotency key; a payment  *)
(* provider is configured.                                                 *)
(***************************************************************************)
EXTENDS Naturals, FiniteSets

CONSTANTS
    MaxSessions,     \* bound: checkout sessions
    Callers,         \* createCheckout requests in flight at a time
    Handlers,        \* webhook deliveries in flight at a time
    Users, Workspaces,
    None,
    MaxPlan,         \* paid plans, by rank
    MaxRedemptions,  \* of the one coupon
    PerUserLimit,    \* of the one coupon
    MaxFaults        \* bound: crashes, provider and database errors, short
                     \* payments and duplicated deliveries, together

ASSUME NoneAssumption == None \notin Nat
ASSUME LimitsAssumption ==
    {MaxSessions, MaxPlan, MaxRedemptions, PerUserLimit, MaxFaults} \subseteq Nat

\* Checkout session ids, in the order of their insertion.
Sids == 1 .. MaxSessions

VARIABLES
    sessions,  \* per id: the BillingCheckoutSession row, or status NEW
    slots,     \* per id: the PromotionRedemption row, or status NONE
    redeemed,  \* Promotion.redemptionsCount
    sub,       \* per workspace: WorkspaceSubscription
    credited,  \* per id: CreditTransactions with the reference checkout:<id>
    rows,      \* per id: BillingWebhookEvent.status of its event
    pay,       \* per id: the provider's session
    billing,   \* ids whose provider subscription charges the customer
    calls,     \* per caller: the createCheckout request before its transaction
    hooks,     \* per handler: the webhook delivery
    lost,      \* history: follow-ups that a crash or an error skipped
    faults

dbVars == <<sessions, slots, redeemed, sub, credited, rows>>
vars == <<dbVars, pay, billing, calls, hooks, lost, faults>>

Kinds == {"SUBSCRIPTION", "CREDIT_TOPUP"}
DoneOnceSeen == {"PROCESSED", "IGNORED", "RECEIVED", "FAILED"}
Done == {"PROCESSED", "IGNORED"}
\* A session's status; CLOSED is FAILED, CANCELLED or EXPIRED.
Statuses == {"NEW", "PENDING", "COMPLETED", "CLOSED"}
Final == {"COMPLETED", "CLOSED"}
Fault == faults < MaxFaults /\ faults' = faults + 1

Fresh(s) == s = 1 + Cardinality({o \in Sids : sessions[o].status # "NEW"})
Pending(s) == sessions[s].status = "PENDING"
Slot(status, u) == [status |-> status, user |-> u]
Used == {s \in Sids : slots[s].status \in {"RESERVED", "APPLIED"}}
UsedBy(u) == {s \in Used : slots[s].user = u}

\* The row locks that activations hold between their flip and their commit.
Locked == {hooks[h].sid : h \in {g \in Handlers : hooks[g].pc = "activating"}}

----------------------------------------------------------------------------
(* Promotion reservations                                                  *)

\* reserve's conditional counter update and per-user count, on the rows as
\* the transaction sees them: those it has released are released.
HasSlot(u, released) ==
    /\ redeemed - Cardinality(released) < MaxRedemptions
    /\ Cardinality(UsedBy(u) \ released) < PerUserLimit

\* What releasing each of S gives back.
Reserved(S) == {s \in S : slots[s].status = "RESERVED"}

\* failCheckout, as one transaction: it flips a pending session and returns
\* its slot. It waits for the row lock of an activation.
FailKeepingSlot(s) ==
    /\ s \notin Locked
    /\ sessions' = [sessions EXCEPT ![s].status = IF Pending(s) THEN "CLOSED" ELSE @]
    /\ UNCHANGED <<slots, redeemed>>
FailReleasingTwice(s) ==
    /\ s \notin Locked
    /\ sessions' = [sessions EXCEPT ![s].status = IF Pending(s) THEN "CLOSED" ELSE @]
    /\ slots' = [slots EXCEPT ![s].status = IF @ = "RESERVED" THEN "RELEASED" ELSE @]
    /\ redeemed' = IF slots[s].status = "NONE" \/ redeemed = 0 THEN redeemed
                   ELSE redeemed - 1
FailUnguarded(s) ==
    /\ s \notin Locked
    /\ sessions' = [sessions EXCEPT ![s].status = "CLOSED"]
    /\ slots' = [slots EXCEPT ![s].status = IF @ = "RESERVED" THEN "RELEASED" ELSE @]
    /\ redeemed' = redeemed - Cardinality(Reserved({s}))
FailWithoutLock(s) ==
    /\ sessions' = [sessions EXCEPT ![s].status = IF Pending(s) THEN "CLOSED" ELSE @]
    /\ slots' = [slots EXCEPT ![s].status = IF @ = "RESERVED" THEN "RELEASED" ELSE @]
    /\ redeemed' = redeemed - Cardinality(Reserved({s}))
Fail(s) ==
    /\ s \notin Locked
    /\ IF Pending(s)
       THEN /\ sessions' = [sessions EXCEPT ![s].status = "CLOSED"]
            /\ slots' = [slots EXCEPT ![s].status = IF @ = "RESERVED" THEN "RELEASED" ELSE @]
            /\ redeemed' = redeemed - Cardinality(Reserved({s}))
       ELSE UNCHANGED <<sessions, slots, redeemed>>

----------------------------------------------------------------------------
(* createCheckout and createTopUpCheckout                                  *)

Idle == [pc |-> "idle"]

\* The reads that precede the transaction: the plan must not be a lower one -
\* the same is bought for another interval, or as it ends or is past due -, the
\* coupon usable, and the open checkouts of the workspace are listed.
\* (u redeems the coupon, or it is None.) The bound: no more requests than ids.
Quote(c, u, w, plan) ==
    /\ calls[c] = Idle
    /\ Cardinality({d \in Callers : calls[d] # Idle})
         < Cardinality({s \in Sids : sessions[s].status = "NEW"})
    /\ plan >= sub[w].plan
    /\ u # None => HasSlot(u, {})
    /\ calls' = [calls EXCEPT ![c] =
           [pc |-> "quoted", user |-> u, ws |-> w, plan |-> plan,
            stale |-> {s \in Sids : /\ Pending(s)
                                    /\ sessions[s].ws = w
                                    /\ sessions[s].kind = "SUBSCRIPTION"}]]
    /\ UNCHANGED <<dbVars, pay, billing, hooks, lost, faults>>

NewSession(kind, w, plan) ==
    [status |-> "PENDING", kind |-> kind, ws |-> w, plan |-> plan]

\* The transaction: cancel and release what was listed, insert the session,
\* reserve a slot. Without a slot it is rolled back and the request refused.
Open(c, s) ==
    LET q == calls[c]
        back == Reserved(q.stale)
        superseded == [o \in Sids |-> IF o \in q.stale /\ Pending(o)
                                      THEN [sessions[o] EXCEPT !.status = "CLOSED"]
                                      ELSE sessions[o]]
    IN  /\ q.pc = "quoted"
        /\ Fresh(s)
        /\ q.stale \cap Locked = {}
        /\ IF q.user # None /\ ~HasSlot(q.user, back)
           THEN UNCHANGED <<sessions, slots, redeemed, pay>>
           ELSE /\ sessions' = [superseded EXCEPT ![s] =
                       NewSession("SUBSCRIPTION", q.ws, q.plan)]
                /\ slots' = [o \in Sids |->
                       IF o = s /\ q.user # None THEN Slot("RESERVED", q.user)
                       ELSE IF o \in back THEN [slots[o] EXCEPT !.status = "RELEASED"]
                       ELSE slots[o]]
                /\ redeemed' = redeemed - Cardinality(back)
                                 + (IF q.user # None THEN 1 ELSE 0)
                /\ pay' = [pay EXCEPT ![s] = "opening"]
        /\ calls' = [calls EXCEPT ![c] = Idle]
        /\ UNCHANGED <<sub, credited, rows, billing, hooks, lost, faults>>

\* createTopUpCheckout: no coupon, and it supersedes nothing.
OpenTopUp(s, w) ==
    /\ Fresh(s)
    /\ sessions' = [sessions EXCEPT ![s] = NewSession("CREDIT_TOPUP", w, 0)]
    /\ pay' = [pay EXCEPT ![s] = "opening"]
    /\ UNCHANGED <<slots, redeemed, sub, credited, rows, billing, calls,
                   hooks, lost, faults>>

\* The provider answers the request with a page, whose address is stored and
\* returned. A request that dies before leaves the session without one.
ProviderOpens(s) ==
    /\ pay[s] = "opening"
    /\ pay' = [pay EXCEPT ![s] = "open"]
    /\ UNCHANGED <<dbVars, billing, calls, hooks, lost, faults>>

ProviderFails(s) ==
    /\ pay[s] = "opening"
    /\ pay' = [pay EXCEPT ![s] = "none"]
    /\ Fail(s)
    /\ Fault
    /\ UNCHANGED <<sub, credited, rows, billing, calls, hooks, lost>>

\* cancelCheckout reads the status, which may have changed when it fails the
\* session: every session was pending once.
CancelCheckout(s) ==
    /\ sessions[s].status # "NEW"
    /\ Fail(s)
    /\ UNCHANGED <<sub, credited, rows, pay, billing, calls, hooks, lost, faults>>

\* expireStaleCheckouts fails each session of a list; a session may be past
\* its expiry at any time, and settled since it was listed.
ExpireStale(s) ==
    /\ sessions[s].status # "NEW"
    /\ Fail(s)
    /\ UNCHANGED <<sub, credited, rows, pay, billing, calls, hooks, lost, faults>>

----------------------------------------------------------------------------
(* The provider: its page stays payable whatever became of the session     *)

Pays(s, amount) ==
    /\ pay[s] = "open"
    /\ pay' = [pay EXCEPT ![s] = amount]
    /\ billing' = IF sessions[s].kind = "SUBSCRIPTION" THEN billing \cup {s} ELSE billing
    /\ IF amount = "short" THEN Fault ELSE UNCHANGED faults
    /\ UNCHANGED <<dbVars, calls, hooks, lost>>

PageExpires(s) ==
    /\ pay[s] = "open"
    /\ pay' = [pay EXCEPT ![s] = "expired"]
    /\ UNCHANGED <<dbVars, billing, calls, hooks, lost, faults>>

----------------------------------------------------------------------------
(* Webhooks: handle claims the event, apply does the work, and the event   *)
(* row and the answer follow.                                              *)

Goto(h, s, pc, out) ==
    hooks' = [hooks EXCEPT ![h] = [pc |-> pc, sid |-> s, out |-> out, seen |-> None]]
Rest(h) == hooks' = [hooks EXCEPT ![h] = Idle]

\* The provider delivers until it gets a 2xx, which is when the row says that
\* the event was processed or ignored: later deliveries are only answered. A
\* delivery while another one is being handled is a duplicate.
Deliver(h, s) ==
    /\ hooks[h] = Idle
    /\ pay[s] \in {"full", "short", "expired"}
    /\ rows[s] \notin Done
    /\ IF \E g \in Handlers : hooks[g] # Idle /\ hooks[g].sid = s
       THEN Fault ELSE UNCHANGED faults
    /\ rows' = [rows EXCEPT ![s] = IF @ = "NONE" THEN "RECEIVED" ELSE @]
    /\ Goto(h, s, "apply", "PROCESSED")
    /\ UNCHANGED <<sessions, slots, redeemed, sub, credited, pay, billing, calls, lost>>

\* checkout.expired, and a payment below the total: failCheckout.
ApplyFail(h) ==
    LET s == hooks[h].sid IN
    /\ hooks[h].pc = "apply"
    /\ pay[s] \in {"short", "expired"}
    /\ Fail(s)
    /\ Goto(h, s, "answer",
            IF \/ pay[s] = "short" /\ sessions[s].kind = "CREDIT_TOPUP"
               \/ pay[s] = "expired" /\ ~Pending(s) THEN "IGNORED" ELSE "PROCESSED")
    /\ UNCHANGED <<sub, credited, rows, pay, billing, calls, lost, faults>>

\* completeTopUp and completeSubscriptionCheckout begin with the same flip:
\* a session that is not pending any more is left alone.
MayComplete(s) == Pending(s)

ApplyTopUpCreditFirst(h) ==
    LET s == hooks[h].sid IN
    /\ hooks[h].pc = "apply"
    /\ pay[s] = "full" /\ sessions[s].kind = "CREDIT_TOPUP"
    /\ Goto(h, s, IF MayComplete(s) THEN "credit" ELSE "answer", "PROCESSED")
    /\ UNCHANGED <<dbVars, pay, billing, calls, lost, faults>>
ApplyTopUp(h) ==
    LET s == hooks[h].sid IN
    /\ hooks[h].pc = "apply"
    /\ pay[s] = "full" /\ sessions[s].kind = "CREDIT_TOPUP"
    /\ IF MayComplete(s)
       THEN /\ sessions' = [sessions EXCEPT ![s].status = "COMPLETED"]
            /\ Goto(h, s, "credit", "PROCESSED")
       ELSE Goto(h, s, "answer", "IGNORED") /\ UNCHANGED sessions
    /\ UNCHANGED <<slots, redeemed, sub, credited, rows, pay, billing,
                   calls, lost, faults>>

\* The activation's transaction: the flip takes the row lock, the subscription
\* is read without one.
ActivateBegin(h) ==
    LET s == hooks[h].sid IN
    /\ hooks[h].pc = "apply"
    /\ pay[s] = "full" /\ sessions[s].kind = "SUBSCRIPTION"
    /\ s \notin Locked
    /\ IF MayComplete(s)
       THEN hooks' = [hooks EXCEPT ![h].pc = "activating",
                                   ![h].seen = sub[sessions[s].ws].current]
       ELSE Goto(h, s, "answer", "IGNORED")
    /\ UNCHANGED <<dbVars, pay, billing, calls, lost, faults>>

\* The provider subscription that the new one replaces.
ReplacesNothing(h) == FALSE
Replaces(h) == hooks[h].seen \notin {None, hooks[h].sid}

\* The commit. A subscription that another activation stored since the read
\* is overwritten and nobody cancels it.
ActivateCommit(h) ==
    LET s == hooks[h].sid
        w == sessions[s].ws
        current == sub[w].current
    IN  /\ hooks[h].pc = "activating"
        /\ sessions' = [sessions EXCEPT ![s].status = "COMPLETED"]
        /\ slots' = [slots EXCEPT ![s].status = IF @ = "RESERVED" THEN "APPLIED" ELSE @]
        /\ sub' = [sub EXCEPT ![w] = [plan |-> sessions[s].plan, current |-> s]]
        /\ hooks' = [hooks EXCEPT ![h].pc = IF Replaces(h) THEN "retire" ELSE "credit"]
        /\ lost' = IF current \in {None, hooks[h].seen} THEN lost
                   ELSE lost \cup {<<"overwritten", current>>}
        /\ UNCHANGED <<redeemed, credited, rows, pay, billing, calls, faults>>

\* cancelNow on the replaced subscription; its failure is logged only.
Retire(h) ==
    /\ hooks[h].pc = "retire"
    /\ hooks' = [hooks EXCEPT ![h].pc = "credit"]
    /\ \/ billing' = billing \ {hooks[h].seen} /\ UNCHANGED <<lost, faults>>
       \/ /\ Fault
          /\ lost' = lost \cup {<<"kept", hooks[h].seen>>}
          /\ UNCHANGED billing
    /\ UNCHANGED <<dbVars, pay, calls>>

\* credit: no transaction with this reference may exist.
Credited(s) == IF credited[s] > 0 THEN credited[s] ELSE credited[s] + 1

\* grantPlanAllowance or the top-up's credit.
Credit(h) ==
    LET s == hooks[h].sid IN
    /\ hooks[h].pc = "credit"
    /\ credited' = [credited EXCEPT ![s] = Credited(s)]
    /\ Goto(h, s, "answer", "PROCESSED")
    /\ UNCHANGED <<sessions, slots, redeemed, sub, rows, pay, billing,
                   calls, lost, faults>>

\* It fails: a plan's activation goes on, a top-up's webhook fails.
CreditFails(h) ==
    LET s == hooks[h].sid IN
    /\ hooks[h].pc = "credit"
    /\ IF sessions[s].kind = "SUBSCRIPTION"
       THEN Goto(h, s, "answer", "PROCESSED") /\ UNCHANGED rows
       ELSE Rest(h) /\ rows' = [rows EXCEPT ![s] = "FAILED"]
    /\ lost' = lost \cup {<<"credit", s>>}
    /\ Fault
    /\ UNCHANGED <<sessions, slots, redeemed, sub, credited, pay, billing, calls>>

Answer(h) ==
    LET s == hooks[h].sid IN
    /\ hooks[h].pc = "answer"
    /\ rows' = [rows EXCEPT ![s] = hooks[h].out]
    /\ Rest(h)
    /\ UNCHANGED <<sessions, slots, redeemed, sub, credited, pay, billing, calls, lost, faults>>

\* The handler dies, or the database fails it: an open transaction is rolled
\* back, and what it had still to do after a commit is nobody's.
HandlerCrashes(h) ==
    /\ hooks[h] # Idle
    /\ Rest(h)
    /\ lost' = lost \cup
         (IF hooks[h].pc = "retire"
          THEN {<<"kept", hooks[h].seen>>, <<"credit", hooks[h].sid>>}
          ELSE IF hooks[h].pc = "credit" THEN {<<"credit", hooks[h].sid>>} ELSE {})
    /\ Fault
    /\ UNCHANGED <<dbVars, pay, billing, calls>>

----------------------------------------------------------------------------
Init ==
    /\ sessions = [s \in Sids |-> [status |-> "NEW"]]
    /\ slots = [s \in Sids |-> Slot("NONE", None)]
    /\ redeemed = 0
    /\ sub = [w \in Workspaces |-> [plan |-> 0, current |-> None]]
    /\ credited = [s \in Sids |-> 0]
    /\ rows = [s \in Sids |-> "NONE"]
    /\ pay = [s \in Sids |-> "none"]
    /\ billing = {}
    /\ calls = [c \in Callers |-> Idle]
    /\ hooks = [h \in Handlers |-> Idle]
    /\ lost = {}
    /\ faults = 0

CallerStep(c) ==
    \/ \E u \in Users \cup {None}, w \in Workspaces, plan \in 1 .. MaxPlan :
         Quote(c, u, w, plan)
    \/ \E s \in Sids : Open(c, s)

Handle(h) ==
    \/ ApplyFail(h) \/ ApplyTopUp(h) \/ ActivateBegin(h) \/ ActivateCommit(h)
    \/ Retire(h) \/ Credit(h) \/ Answer(h)

SessionStep(s) ==
    \/ \E w \in Workspaces : OpenTopUp(s, w)
    \/ ProviderOpens(s) \/ ProviderFails(s)
    \/ CancelCheckout(s) \/ ExpireStale(s) \/ PageExpires(s)
    \/ \E amount \in {"full", "short"} : Pays(s, amount)
    \/ \E h \in Handlers : Deliver(h, s)

Next ==
    \/ \E c \in Callers : CallerStep(c)
    \/ \E s \in Sids : SessionStep(s)
    \/ \E h \in Handlers : Handle(h) \/ CreditFails(h) \/ HandlerCrashes(h)

Spec == Init /\ [][Next]_vars

\* The provider re-delivers what was not answered, and a delivery runs to its
\* end; a request may die or the customer never pay.
Fairness ==
    /\ \A s \in Sids : WF_vars(\E h \in Handlers : Deliver(h, s))
    /\ \A h \in Handlers : WF_vars(Handle(h))

FairSpec == Spec /\ Fairness

----------------------------------------------------------------------------
(* Properties                                                              *)

Session == [status: {"NEW"}]
           \cup [status: Statuses \ {"NEW"}, kind: Kinds, ws: Workspaces, plan: 0 .. MaxPlan]
Slots == [status: {"NONE", "RESERVED", "APPLIED", "RELEASED"}, user: Users \cup {None}]
Payments == {"none", "opening", "open", "full", "short", "expired"}
Request == {Idle} \cup [pc: {"quoted"}, user: Users \cup {None}, ws: Workspaces,
                        plan: 1 .. MaxPlan, stale: SUBSET Sids]
Delivery == {Idle} \cup [pc: {"apply", "activating", "retire", "credit", "answer"},
                         sid: Sids, out: Done, seen: Sids \cup {None}]

\* Type invariant; only a session has a slot or a payment, and the session an
\* activation works on is pending until it commits.
TypeOK ==
    /\ sessions \in [Sids -> Session]
    /\ slots \in [Sids -> Slots]
    /\ redeemed \in Nat
    /\ sub \in [Workspaces -> [plan: 0 .. MaxPlan, current: Sids \cup {None}]]
    /\ credited \in [Sids -> Nat]
    /\ rows \in [Sids -> {"NONE", "RECEIVED", "FAILED", "PROCESSED", "IGNORED"}]
    /\ pay \in [Sids -> Payments]
    /\ billing \subseteq Sids
    /\ calls \in [Callers -> Request]
    /\ hooks \in [Handlers -> Delivery]
    /\ faults \in 0 .. MaxFaults
    /\ \A s \in Sids : sessions[s].status = "NEW" =>
                         slots[s].status = "NONE" /\ pay[s] = "none"
    /\ \A s \in Locked : Pending(s)

\* The coupon's counter is the number of reserved and applied redemptions, and
\* neither its limit nor a user's is passed, whichever checkouts of however
\* many requests are opened, superseded, cancelled, expired, failed and paid
\* at once (reserve's conditional update and lock, release's flip).
SlotsAccounted ==
    /\ redeemed = Cardinality(Used)
    /\ redeemed <= MaxRedemptions
    /\ \A u \in Users : Cardinality(UsedBy(u)) <= PerUserLimit

\* A slot is held exactly by an open checkout and consumed exactly by a
\* completed one: no closed checkout keeps a slot from other customers, and
\* none that is still payable has given its slot away.
SlotFollowsCheckout ==
    \A s \in Sids : slots[s].status # "NONE" =>
        /\ slots[s].status = "RESERVED" <=> sessions[s].status = "PENDING"
        /\ slots[s].status = "APPLIED" <=> sessions[s].status = "COMPLETED"

\* Credits are booked once per checkout, however often its event is delivered
\* and by however many handlers at once, and only for one that was completed
\* by a full payment (the flip of PENDING before the credit).
CreditedOnce ==
    \A s \in Sids : credited[s] > 0 =>
        credited[s] = 1 /\ sessions[s].status = "COMPLETED" /\ pay[s] = "full"

\* The outcome of a checkout is final: a late payment, expiry, cancellation or
\* duplicate of a delivery changes nothing about it.
OutcomeFinal ==
    [][\A s \in Sids : sessions[s].status \in Final =>
           sessions'[s].status = sessions[s].status]_vars

\* The customer is not charged for two plans: a provider subscription that
\* still charges is the workspace's current one, or its payment is not yet
\* applied, or a handler is about to cancel it. Left over are payments of a
\* checkout that was closed before, subscriptions whose cancellation failed or
\* was cut short by a crash, and one that two activations at once overwrote.
NoDoubleCharge ==
    \A s \in billing :
        \/ sub[sessions[s].ws].current = s
        \/ sessions[s].status \in {"PENDING", "CLOSED"}
        \/ \E h \in Handlers : hooks[h].pc = "retire" /\ hooks[h].seen = s
        \/ \E why \in {"overwritten", "kept"} : <<why, s>> \in lost

\* A full payment is honoured in the end, through duplicated deliveries,
\* handler crashes and rollbacks: the checkout is completed and its credits
\* booked, unless it was closed before the payment was applied or the handler
\* failed between the flip and the credit.
PaidIsHonoured ==
    \A s \in Sids : pay[s] = "full" ~>
        \/ sessions[s].status = "CLOSED"
        \/ sessions[s].status = "COMPLETED"
             /\ (credited[s] = 1 \/ <<"credit", s>> \in lost)
=============================================================================
