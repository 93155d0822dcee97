--------------------------- MODULE CheckoutProofs ---------------------------
(***************************************************************************)
(* What holds of Checkout for any number of sessions, requests, handlers,  *)
(* users and workspaces, any limits of the coupon and any faults.          *)
(***************************************************************************)
EXTENDS Checkout, FiniteSetTheorems, TLAPS

----------------------------------------------------------------------------
(* The inductive invariant                                                 *)

\* Session ids are taken in order.
TakenInOrder ==
    \A s, t \in Sids :
        t < s /\ sessions[s].status # "NEW" => sessions[t].status # "NEW"

\* Only the checkout of a plan holds a slot or charges the customer.
OfPlans(S) ==
    \A s \in S : sessions[s].status # "NEW" /\ sessions[s].kind = "SUBSCRIPTION"

SlotsOfPlans == OfPlans({s \in Sids : slots[s].status # "NONE"})

\* A handler is where its session's status and payment let it be: a commit
\* follows a full payment, and credits follow the flip.
HandlersFit ==
    \A h \in Handlers :
        /\ hooks[h].pc = "activating" =>
             /\ Pending(hooks[h].sid)
             /\ sessions[hooks[h].sid].kind = "SUBSCRIPTION"
             /\ pay[hooks[h].sid] = "full"
        /\ hooks[h].pc \in {"retire", "credit"} =>
             /\ sessions[hooks[h].sid].status = "COMPLETED"
             /\ pay[hooks[h].sid] = "full"

\* The row lock: one activation works on a session at a time.
OneActivation ==
    \A g, h \in Handlers :
        /\ hooks[g].pc = "activating" /\ hooks[h].pc = "activating"
        /\ hooks[g].sid = hooks[h].sid
        => g = h

\* Only a full payment completes a checkout.
CompletedIsPaid ==
    \A s \in Sids : sessions[s].status = "COMPLETED" => pay[s] = "full"

IInv ==
    /\ TypeOK /\ TakenInOrder /\ CompletedIsPaid
    /\ SlotsAccounted /\ SlotFollowsCheckout /\ SlotsOfPlans
    /\ HandlersFit /\ OneActivation
    /\ CreditedOnce
    /\ NoDoubleCharge /\ OfPlans(billing)

----------------------------------------------------------------------------
(* Lemmas about the operators of the model                                 *)

\* Sets of sessions are finite.
LEMMA SidsFinite ==
    /\ IsFiniteSet(Sids)
    /\ \A S \in SUBSET Sids : IsFiniteSet(S) /\ Cardinality(S) \in Nat
<1>1. IsFiniteSet(Sids)
  BY FS_Interval, LimitsAssumption DEF Sids
<1>2. QED
  BY <1>1, FS_Subset, FS_CardinalityType

\* What a change of status leaves of a session.
LEMMA StatusChange ==
    ASSUME NEW r \in Session, r.status # "NEW", NEW x \in Statuses \ {"NEW"}
    PROVE  LET q == [r EXCEPT !.status = x]
           IN  q \in Session /\ q.status = x /\ q.kind = r.kind /\ q.ws = r.ws /\ q.plan = r.plan
<1>1. r \in [status: Statuses \ {"NEW"}, kind: Kinds, ws: Workspaces, plan: 0 .. MaxPlan]
  BY DEF Session
<1>2. QED
  BY <1>1 DEF Session

\* What a change of its status leaves of a slot.
LEMMA SlotChange ==
    ASSUME NEW r \in Slots, NEW x \in {"NONE", "RESERVED", "APPLIED", "RELEASED"}
    PROVE  LET q == [r EXCEPT !.status = x]
           IN  /\ q \in Slots /\ q.status = x /\ q.user = r.user
               /\ [r EXCEPT !.status = IF @ = "RESERVED" THEN x ELSE @]
                    = IF r.status = "RESERVED" THEN q ELSE r
<1>1. r = [status |-> r.status, user |-> r.user]
  BY DEF Slots
<1>2. QED
  BY <1>1 DEF Slots

\* A session is opened under the first id that is not taken: the id is new,
\* and all before it are taken.
LEMMA FreshIsNext ==
    ASSUME TypeOK, TakenInOrder, NEW s \in Sids, Fresh(s)
    PROVE  /\ sessions[s].status = "NEW"
           /\ \A t \in Sids : t < s => sessions[t].status # "NEW"
<1> DEFINE N == {o \in Sids : sessions[o].status # "NEW"}
<1>1. N \in SUBSET Sids /\ IsFiniteSet(N) /\ s = 1 + Cardinality(N) /\ Cardinality(N) \in Nat
  BY SidsFinite DEF Fresh
<1>2. s \notin N
  <2>0. s \in Int /\ s >= 1
    BY LimitsAssumption DEF Sids
  <2> SUFFICES ASSUME s \in N PROVE FALSE
    OBVIOUS
  <2>1. 1 .. s \subseteq N
    BY LimitsAssumption DEF Sids, TakenInOrder
  <2>2. Cardinality(1 .. s) <= Cardinality(N)
    BY <1>1, <2>1, FS_Subset
  <2>3. Cardinality(1 .. s) = s
    BY <2>0, FS_Interval
  <2>4. QED
    BY <1>1, <2>2, <2>3
<1>3. ASSUME NEW t \in Sids, t < s PROVE t \in N
  <2> SUFFICES ASSUME t \notin N PROVE FALSE
    OBVIOUS
  <2>1. N \subseteq 1 .. (t - 1)
    BY LimitsAssumption DEF Sids, TakenInOrder
  <2>2. IsFiniteSet(1 .. (t - 1)) /\ Cardinality(1 .. (t - 1)) = t - 1
    BY FS_Interval DEF Sids
  <2>3. Cardinality(N) <= t - 1
    BY <2>1, <2>2, FS_Subset
  <2>4. QED
    BY <1>1, <1>3, <2>3 DEF Sids
<1>4. QED
  BY <1>2, <1>3

\* A session is locked when an activation works on it.
LEMMA LockedSession ==
    \A s : s \in Locked <=> \E h \in Handlers : hooks[h].pc = "activating" /\ hooks[h].sid = s
BY DEF Locked

\* Taking part of a finite set away.
LEMMA Difference ==
    ASSUME NEW S, IsFiniteSet(S), NEW B \in SUBSET S
    PROVE  /\ IsFiniteSet(S \ B) /\ IsFiniteSet(B)
           /\ Cardinality(S \ B) = Cardinality(S) - Cardinality(B)
           /\ Cardinality(S \ B) \in Nat
<1>1. IsFiniteSet(B) /\ IsFiniteSet(S \ B)
  BY FS_Subset
<1>2. (S \ B) \cup B = S /\ (S \ B) \cap B = {}
  OBVIOUS
<1>3. Cardinality(S) = Cardinality(S \ B) + Cardinality(B) - Cardinality({})
  BY <1>1, <1>2, FS_Union
<1>4. Cardinality(S) \in Nat /\ Cardinality(B) \in Nat /\ Cardinality(S \ B) \in Nat
  BY <1>1, FS_CardinalityType
<1>5. QED
  BY <1>1, <1>3, <1>4, FS_EmptySet

----------------------------------------------------------------------------
(* What a step does to the sessions and their slots                        *)

\* A session and its slot keep what they are, or the session opens, closes or
\* completes and its slot with it.
Keeps(t) == sessions'[t] = sessions[t] /\ slots'[t] = slots[t]
Opens(t) ==
    /\ sessions[t].status = "NEW" /\ sessions'[t].status = "PENDING"
    /\ pay'[t] = "opening"
    /\ \A o \in Sids : o < t => sessions[o].status # "NEW"
    /\ \/ slots'[t] = slots[t]
       \/ sessions'[t].kind = "SUBSCRIPTION" /\ slots'[t].status = "RESERVED"
Ends(t, outcome, slot) ==
    /\ Pending(t)
    /\ sessions'[t] = [sessions[t] EXCEPT !.status = outcome]
    /\ slots'[t] = IF slots[t].status = "RESERVED" THEN [slots[t] EXCEPT !.status = slot]
                   ELSE slots[t]
Closes(t) == Ends(t, "CLOSED", "RELEASED") /\ t \notin Locked
Completes(t) ==
    /\ Ends(t, "COMPLETED", "APPLIED")
    /\ pay[t] = "full"
    /\ \E h \in Handlers : hooks[h].sid = t /\ (ApplyTopUp(h) \/ ActivateCommit(h))

Followed == \A t \in Sids : Keeps(t) \/ Opens(t) \/ Closes(t) \/ Completes(t)
Typed == sessions' \in [Sids -> Session] /\ slots' \in [Sids -> Slots]

\* The actions that write sessions, slots or the coupon's counter.
LEMMA Writers ==
    ASSUME [Next]_vars
    PROVE  \/ UNCHANGED <<sessions, slots, redeemed>>
           \/ \E s \in Sids : Fail(s)
           \/ \E c \in Callers, s \in Sids : Open(c, s)
           \/ \E s \in Sids, w \in Workspaces : OpenTopUp(s, w)
           \/ \E h \in Handlers : ApplyTopUp(h) \/ ActivateCommit(h) \/ ApplyFail(h)
<1>1. ASSUME NEW c \in Callers, CallerStep(c)
      PROVE  \/ UNCHANGED <<sessions, slots, redeemed>>
             \/ \E s \in Sids : Open(c, s)
  BY <1>1 DEF CallerStep, Quote, dbVars
<1>2. ASSUME NEW s \in Sids, SessionStep(s)
      PROVE  \/ UNCHANGED <<sessions, slots, redeemed>>
             \/ Fail(s)
             \/ \E w \in Workspaces : OpenTopUp(s, w)
  BY <1>2 DEF SessionStep, ProviderOpens, ProviderFails, CancelCheckout, ExpireStale,
              PageExpires, Pays, Deliver, dbVars
<1>3. ASSUME NEW h \in Handlers, Handle(h) \/ CreditFails(h) \/ HandlerCrashes(h)
      PROVE  \/ UNCHANGED <<sessions, slots, redeemed>>
             \/ ApplyTopUp(h) \/ ActivateCommit(h) \/ ApplyFail(h)
  BY <1>3 DEF Handle, ActivateBegin, Retire, Credit, Answer, CreditFails,
              HandlerCrashes, dbVars
<1>4. QED
  BY <1>1, <1>2, <1>3 DEF Next, vars, dbVars

\* The counter follows the slots when some are given back and at most one is
\* taken, under the guard of the reservation.
LEMMA Accounting ==
    ASSUME TypeOK, SlotsAccounted, NEW B \in SUBSET Used,
           NEW New \in SUBSET (Sids \ Used), NEW u,
           New = {} \/ (HasSlot(u, B) /\ \E s \in Sids : New = {s}),
           Used' = (Used \ B) \cup New,
           \A o \in Used \ B : slots'[o].user = slots[o].user,
           \A o \in New : slots'[o].user = u,
           redeemed' = redeemed - Cardinality(B) + Cardinality(New)
    PROVE  SlotsAccounted' /\ redeemed' \in Nat
<1>1. IsFiniteSet(Used) /\ Cardinality(Used) \in Nat
  BY SidsFinite DEF Used
<1>2. /\ IsFiniteSet(Used \ B) /\ Cardinality(Used \ B) \in Nat
      /\ Cardinality(Used \ B) = Cardinality(Used) - Cardinality(B)
      /\ Cardinality(B) \in Nat
  BY <1>1, Difference, FS_CardinalityType
<1>3. Cardinality(New) \in {0, 1}
  BY FS_EmptySet, FS_Singleton
<1>4. Cardinality(Used') = Cardinality(Used \ B) + Cardinality(New)
  <2>1. CASE New = {}
    BY <2>1, <1>2, FS_EmptySet
  <2>2. ASSUME NEW s \in Sids, New = {s}
        PROVE  Cardinality(Used') = Cardinality(Used \ B) + Cardinality(New)
    <3>1. s \notin Used \ B
      BY <2>2
    <3>2. Cardinality((Used \ B) \cup {s}) = Cardinality(Used \ B) + 1
      BY <3>1, <1>2, FS_AddElement
    <3>3. QED
      BY <2>2, <3>2, FS_Singleton
  <2>3. QED
    BY <2>1, <2>2
<1>5. redeemed' = Cardinality(Used') /\ redeemed' \in Nat
  BY <1>2, <1>3, <1>4 DEF SlotsAccounted
<1>6. redeemed' <= MaxRedemptions
  <2>1. CASE New = {}
    <3>1. redeemed' = Cardinality(Used) - Cardinality(B)
      BY <2>1, <1>4, <1>5, <1>2, FS_EmptySet
    <3>2. QED
      BY <3>1, <1>1, <1>2, LimitsAssumption DEF SlotsAccounted
  <2>2. CASE HasSlot(u, B) /\ \E s \in Sids : New = {s}
    BY <2>2, <1>1, <1>2, <1>3, FS_Singleton, LimitsAssumption DEF SlotsAccounted, HasSlot
  <2>3. QED
    BY <2>1, <2>2
<1>7. ASSUME NEW v \in Users PROVE Cardinality(UsedBy(v)') <= PerUserLimit
  <2>1. /\ IsFiniteSet(UsedBy(v)) /\ Cardinality(UsedBy(v)) \in Nat
        /\ Cardinality(UsedBy(v)) <= PerUserLimit
    BY SidsFinite DEF UsedBy, Used, SlotsAccounted
  <2>2. /\ IsFiniteSet(UsedBy(v) \ B) /\ Cardinality(UsedBy(v) \ B) \in Nat
        /\ Cardinality(UsedBy(v) \ B) <= Cardinality(UsedBy(v))
    BY <2>1, FS_Subset, FS_CardinalityType
  <2>3. CASE New = {} \/ v # u
    <3>1. UsedBy(v)' = UsedBy(v) \ B
      BY <2>3 DEF UsedBy
    <3>2. QED
      BY <3>1, <2>1, <2>2, LimitsAssumption
  <2>4. CASE v = u /\ HasSlot(u, B) /\ \E s \in Sids : New = {s}
    <3>1. PICK s \in Sids : New = {s}
      BY <2>4
    <3>2. UsedBy(v)' = (UsedBy(v) \ B) \cup {s}
      BY <2>4, <3>1 DEF UsedBy
    <3>3. Cardinality(UsedBy(v) \ B) < PerUserLimit
      BY <2>4 DEF HasSlot
    <3> DEFINE kept == UsedBy(v) \ B
    <3>4. Cardinality(kept \cup {s}) \in {Cardinality(kept), Cardinality(kept) + 1}
      <4> HIDE DEF kept
      <4>1. IsFiniteSet(kept)
        BY <2>2 DEF kept
      <4>2. QED
        BY <4>1, FS_AddElement
    <3>5. QED
      BY <3>2, <3>3, <3>4, <2>2, LimitsAssumption
  <2>5. QED
    BY <2>3, <2>4
<1>8. QED
  BY <1>5, <1>6, <1>7 DEF SlotsAccounted

\* What failCheckout does.
LEMMA FailEffect ==
    ASSUME TypeOK, NEW s \in Sids, Fail(s)
    PROVE  Typed /\ \A t \in Sids : Keeps(t) \/ Closes(t)
<1>1. sessions \in [Sids -> Session] /\ slots \in [Sids -> Slots]
  BY DEF TypeOK
<1>2. CASE UNCHANGED <<sessions, slots>>
  BY <1>1, <1>2 DEF Typed, Keeps
<1>3. CASE Pending(s) /\ ~UNCHANGED <<sessions, slots>>
  <2>1. /\ sessions' = [sessions EXCEPT ![s].status = "CLOSED"]
        /\ slots' = [slots EXCEPT ![s].status = IF @ = "RESERVED" THEN "RELEASED" ELSE @]
        /\ s \notin Locked
    BY <1>3 DEF Fail
  <2>2. sessions[s] \in Session /\ slots[s] \in Slots /\ sessions[s].status # "NEW"
    BY <1>1, <1>3 DEF Pending
  <2>3. [sessions[s] EXCEPT !.status = "CLOSED"] \in Session
    BY <2>2, StatusChange DEF Statuses
  <2>4. /\ [slots[s] EXCEPT !.status = "RELEASED"] \in Slots
        /\ slots'[s] = IF slots[s].status = "RESERVED"
                       THEN [slots[s] EXCEPT !.status = "RELEASED"] ELSE slots[s]
    <3>1. slots'[s] = [slots[s] EXCEPT !.status = IF @ = "RESERVED" THEN "RELEASED" ELSE @]
      BY <1>1, <2>1
    <3>2. QED
      BY <2>2, <3>1, SlotChange
  <2>5. Typed
    BY <1>1, <2>1, <2>3, <2>4 DEF Typed
  <2>6. Closes(s)
    BY <1>1, <1>3, <2>1, <2>4 DEF Closes, Ends
  <2>7. \A t \in Sids : t # s => Keeps(t)
    BY <1>1, <2>1 DEF Keeps
  <2>8. QED
    BY <2>5, <2>6, <2>7
<1>4. QED
  BY <1>2, <1>3 DEF Fail

\* What createCheckout's transaction does: the checkouts it listed close if
\* they are still open, a new one opens.
LEMMA OpenEffect ==
    ASSUME IInv, NEW c \in Callers, NEW s \in Sids, Open(c, s)
    PROVE  /\ Typed /\ \A t \in Sids : Keeps(t) \/ Closes(t) \/ (t = s /\ Opens(t))
           /\ UNCHANGED <<sessions, slots>> \/ Opens(s)
<1> DEFINE q == calls[c]
           back == Reserved(q.stale)
<1>1. sessions \in [Sids -> Session] /\ slots \in [Sids -> Slots] /\ pay \in [Sids -> Payments]
  BY DEF IInv, TypeOK
<1>2. /\ q \in Request /\ q.pc = "quoted" /\ q.user \in Users \cup {None} /\ q.ws \in Workspaces
      /\ q.plan \in 0 .. MaxPlan /\ q.stale \in SUBSET Sids
  <2>1. q \in Request /\ q.pc = "quoted"
    BY DEF Open, IInv, TypeOK
  <2>2. QED
    BY <2>1, LimitsAssumption DEF Request, Idle
<1>3. CASE UNCHANGED <<sessions, slots>>
  BY <1>1, <1>3 DEF Typed, Keeps
<1>4. CASE ~UNCHANGED <<sessions, slots>>
  <2>1. /\ \A t \in Sids : sessions'[t] = IF t = s THEN NewSession("SUBSCRIPTION", q.ws, q.plan)
             ELSE IF t \in q.stale /\ Pending(t) THEN [sessions[t] EXCEPT !.status = "CLOSED"]
             ELSE sessions[t]
        /\ \A t \in Sids : slots'[t] =
             IF t = s /\ q.user # None THEN Slot("RESERVED", q.user)
             ELSE IF t \in back THEN [slots[t] EXCEPT !.status = "RELEASED"]
             ELSE slots[t]
        /\ sessions' = [t \in Sids |-> sessions'[t]]
        /\ slots' = [t \in Sids |-> slots'[t]]
        /\ pay'[s] = "opening"
        /\ q.stale \cap Locked = {}
    BY <1>1, <1>4 DEF Open
  <2>2. /\ sessions[s].status = "NEW" /\ slots[s].status = "NONE"
        /\ \A t \in Sids : t < s => sessions[t].status # "NEW"
    BY FreshIsNext DEF Open, IInv, TypeOK
  <2>3. sessions'[s] \in Session /\ sessions'[s].status = "PENDING"
        /\ sessions'[s].kind = "SUBSCRIPTION"
    BY <1>2, <2>1 DEF NewSession, Session, Statuses, Kinds
  <2>4. /\ slots'[s] \in Slots
        /\ slots'[s] = slots[s] \/ slots'[s].status = "RESERVED"
    BY <1>1, <1>2, <2>1, <2>2 DEF Slot, Slots, Reserved
  <2>5. ASSUME NEW t \in Sids, t # s
        PROVE  sessions'[t] \in Session /\ slots'[t] \in Slots /\ (Keeps(t) \/ Closes(t))
    <3>1. sessions[t] \in Session /\ slots[t] \in Slots
      BY <1>1
    <3>2. CASE t \in q.stale /\ Pending(t)
      <4>0. sessions'[t] = [sessions[t] EXCEPT !.status = "CLOSED"]
        BY <2>1, <2>5, <3>2
      <4>1. sessions'[t] \in Session
        BY <3>1, <3>2, <4>0, StatusChange DEF Pending, Statuses
      <4>2. slots'[t] = IF slots[t].status = "RESERVED"
                        THEN [slots[t] EXCEPT !.status = "RELEASED"] ELSE slots[t]
        BY <2>1, <2>5, <3>2 DEF Reserved
      <4>3. slots'[t] \in Slots
        <5>1. [slots[t] EXCEPT !.status = "RELEASED"] \in Slots
          BY <3>1, SlotChange
        <5>2. QED
          BY <3>1, <4>2, <5>1
      <4>4. t \notin Locked
        BY <2>1, <3>2
      <4>5. Ends(t, "CLOSED", "RELEASED")
        BY <3>2, <4>0, <4>2 DEF Ends
      <4>6. QED
        BY <4>1, <4>3, <4>4, <4>5 DEF Closes
    <3>3. CASE ~(t \in q.stale /\ Pending(t))
      <4>1. sessions'[t] = sessions[t]
        BY <2>1, <2>5, <3>3
      <4>2. t \notin back
        BY <1>2, <3>1, <3>3 DEF Reserved, Pending, IInv, SlotFollowsCheckout
      <4>3. QED
        BY <2>1, <2>5, <3>1, <4>1, <4>2 DEF Keeps
    <3>4. QED
      BY <3>2, <3>3
  <2>6. Opens(s)
    BY <2>1, <2>2, <2>3, <2>4 DEF Opens
  <2>7. Typed
    BY <2>1, <2>3, <2>4, <2>5 DEF Typed
  <2>8. QED
    BY <2>5, <2>6, <2>7
<1>5. QED
  BY <1>3, <1>4

\* What createTopUpCheckout does: a checkout without a slot opens.
LEMMA OpenTopUpEffect ==
    ASSUME IInv, NEW s \in Sids, NEW w \in Workspaces, OpenTopUp(s, w)
    PROVE  Typed /\ Opens(s) /\ \A t \in Sids : t = s \/ Keeps(t)
<1>1. /\ sessions \in [Sids -> Session] /\ slots \in [Sids -> Slots] /\ pay \in [Sids -> Payments]
      /\ sessions' = [sessions EXCEPT ![s] = NewSession("CREDIT_TOPUP", w, 0)]
      /\ pay' = [pay EXCEPT ![s] = "opening"]
      /\ slots' = slots
  BY DEF IInv, TypeOK, OpenTopUp
<1>2. NewSession("CREDIT_TOPUP", w, 0) \in Session
      /\ NewSession("CREDIT_TOPUP", w, 0).status = "PENDING"
  BY LimitsAssumption DEF NewSession, Session, Statuses, Kinds
<1>3. sessions[s].status = "NEW" /\ \A t \in Sids : t < s => sessions[t].status # "NEW"
  BY FreshIsNext DEF OpenTopUp, IInv
<1>4. Typed
  BY <1>1, <1>2 DEF Typed
<1>5. Opens(s)
  BY <1>1, <1>2, <1>3 DEF Opens
<1>6. \A t \in Sids : t = s \/ Keeps(t)
  BY <1>1 DEF Keeps
<1>7. QED
  BY <1>4, <1>5, <1>6

\* A handler at work has a session.
LEMMA HandlerHasSession ==
    ASSUME TypeOK, NEW h \in Handlers, hooks[h] # Idle
    PROVE  /\ hooks[h].sid \in Sids
           /\ hooks[h].out \in Done
           /\ hooks[h].seen \in Sids \cup {None}
BY DEF TypeOK, Delivery

\* What a flip does: the session of the handler completes.
LEMMA FlipEffect ==
    ASSUME IInv, NEW h \in Handlers,
           ApplyTopUp(h) \/ ActivateCommit(h)
    PROVE  /\ hooks[h].sid \in Sids /\ Typed
           /\ UNCHANGED <<sessions, slots>> \/ Completes(hooks[h].sid)
           /\ \A t \in Sids : Keeps(t) \/ (t = hooks[h].sid /\ Completes(t))
<1> DEFINE s == hooks[h].sid
<1>1. sessions \in [Sids -> Session] /\ slots \in [Sids -> Slots]
  BY DEF IInv, TypeOK
<1>2. s \in Sids
  <2>1. hooks[h].pc # "idle"
    BY DEF ApplyTopUp, ActivateCommit
  <2>2. QED
    BY <2>1, HandlerHasSession DEF IInv, Idle
<1>3. CASE UNCHANGED <<sessions, slots>>
  BY <1>1, <1>2, <1>3 DEF Typed, Keeps
<1>4. CASE ~UNCHANGED <<sessions, slots>>
  <2>1. sessions' = [sessions EXCEPT ![s].status = "COMPLETED"] /\ Pending(s) /\ pay[s] = "full"
    BY <1>4 DEF ApplyTopUp, MayComplete, ActivateCommit, IInv, HandlersFit
  <2>2. sessions[s] \in Session /\ slots[s] \in Slots /\ sessions[s].status # "NEW"
    BY <1>1, <1>2, <2>1 DEF Pending
  <2>3. [sessions[s] EXCEPT !.status = "COMPLETED"] \in Session
    BY <2>2, StatusChange DEF Statuses
  <2>4. slots'[s] = (IF slots[s].status = "RESERVED"
                     THEN [slots[s] EXCEPT !.status = "APPLIED"] ELSE slots[s])
        /\ slots' = [slots EXCEPT ![s] = slots'[s]]
    <3>1. CASE ApplyTopUp(h)
      <4>1. slots' = slots /\ slots[s].status # "RESERVED"
        BY <1>2, <3>1 DEF ApplyTopUp, IInv, SlotsOfPlans, OfPlans
      <4>2. QED
        BY <1>1, <1>2, <4>1
    <3>2. CASE ActivateCommit(h)
      <4>1. slots' = [slots EXCEPT ![s].status = IF @ = "RESERVED" THEN "APPLIED" ELSE @]
        BY <3>2 DEF ActivateCommit
      <4>2. slots'[s] = [slots[s] EXCEPT !.status = IF @ = "RESERVED" THEN "APPLIED" ELSE @]
        BY <1>1, <1>2, <4>1
      <4>3. QED
        BY <1>1, <1>2, <2>2, <4>1, <4>2, SlotChange
    <3>3. QED
      BY <3>1, <3>2
  <2>5. Typed
    <3> DEFINE applied == [slots[s] EXCEPT !.status = "APPLIED"]
    <3>0. applied \in Slots
      BY <2>2, SlotChange
    <3>1. slots'[s] \in Slots
      <4>1. slots'[s] \in {slots[s], applied}
        BY <2>4
      <4>2. QED
        BY <2>2, <3>0, <4>1
    <3>2. QED
      BY <1>1, <1>2, <2>1, <2>3, <2>4, <3>1 DEF Typed
  <2>6. Completes(s)
    BY <1>1, <1>2, <2>1, <2>4 DEF Completes, Ends
  <2>7. \A t \in Sids : t # s => Keeps(t)
    BY <1>1, <1>2, <2>1, <2>4 DEF Keeps
  <2>8. QED
    BY <1>2, <2>5, <2>6, <2>7
<1>5. QED
  BY <1>2, <1>3, <1>4

\* Every step follows the life of a session and its slot.
LEMMA StepFollows ==
    ASSUME IInv, [Next]_vars
    PROVE  Typed /\ Followed
<1>1. CASE UNCHANGED <<sessions, slots, redeemed>>
  BY <1>1 DEF IInv, TypeOK, Typed, Followed, Keeps
<1>2. ASSUME NEW s \in Sids, Fail(s) PROVE Typed /\ Followed
  BY <1>2, FailEffect DEF IInv, Followed
<1>3. ASSUME NEW c \in Callers, NEW s \in Sids, Open(c, s) PROVE Typed /\ Followed
  BY <1>3, OpenEffect DEF Followed
<1>4. ASSUME NEW s \in Sids, NEW w \in Workspaces, OpenTopUp(s, w) PROVE Typed /\ Followed
  BY <1>4, OpenTopUpEffect DEF Followed
<1>5. ASSUME NEW h \in Handlers, ApplyTopUp(h) \/ ActivateCommit(h) PROVE Typed /\ Followed
  BY <1>5, FlipEffect DEF Followed
<1>6. ASSUME NEW h \in Handlers, ApplyFail(h) PROVE Typed /\ Followed
  <2>1. hooks[h].sid \in Sids /\ Fail(hooks[h].sid)
    <3>1. hooks[h].pc = "apply" /\ Fail(hooks[h].sid)
      BY <1>6 DEF ApplyFail
    <3>2. hooks[h] # Idle
      BY <3>1 DEF Idle
    <3>3. QED
      BY <3>1, <3>2, HandlerHasSession DEF IInv
  <2>2. QED
    BY <1>2, <2>1
<1>7. QED
  BY <1>1, <1>2, <1>3, <1>4, <1>5, <1>6, Writers

\* What the effects on a session mean, field by field.
LEMMA SessionLife ==
    ASSUME IInv, [Next]_vars, NEW t \in Sids
    PROVE  /\ sessions[t].status # "NEW" =>
                /\ sessions'[t].status # "NEW"
                /\ sessions'[t].kind = sessions[t].kind
                /\ sessions'[t].ws = sessions[t].ws
                /\ sessions'[t].plan = sessions[t].plan
           /\ sessions[t].status \in Final => sessions'[t].status = sessions[t].status
           /\ sessions[t].status = "NEW" => Keeps(t) \/ Opens(t)
<1>1. Typed /\ Followed
  BY StepFollows
<1>2. sessions[t] \in Session /\ sessions'[t] \in Session
  BY <1>1 DEF Typed, IInv, TypeOK
<1>3. ASSUME NEW x \in {"COMPLETED", "CLOSED"}, NEW y, Ends(t, x, y)
      PROVE  /\ sessions[t].status = "PENDING" /\ sessions'[t].status = x
             /\ sessions'[t].kind = sessions[t].kind
             /\ sessions'[t].ws = sessions[t].ws
             /\ sessions'[t].plan = sessions[t].plan
  <2>1. sessions'[t] = [sessions[t] EXCEPT !.status = x] /\ sessions[t].status = "PENDING"
    BY <1>3 DEF Ends, Pending
  <2>2. QED
    BY <1>2, <2>1, StatusChange DEF Statuses
<1>4. CASE Keeps(t)
  BY <1>4 DEF Keeps
<1>5. CASE Opens(t)
  BY <1>5 DEF Opens, Final
<1>6. CASE Closes(t)
  BY <1>3, <1>6 DEF Closes, Final
<1>7. CASE Completes(t)
  BY <1>3, <1>7 DEF Completes, Final
<1>8. QED
  BY <1>1, <1>4, <1>5, <1>6, <1>7 DEF Followed

\* Slots follow their sessions.
LEMMA SlotsFollow ==
    ASSUME IInv, [Next]_vars
    PROVE  TakenInOrder' /\ SlotFollowsCheckout' /\ SlotsOfPlans'
<1>1. Typed /\ Followed
  BY StepFollows
<1>2. TakenInOrder'
  <2> SUFFICES ASSUME NEW s \in Sids, NEW t \in Sids, t < s, sessions'[s].status # "NEW"
               PROVE  sessions'[t].status # "NEW"
    BY DEF TakenInOrder
  <2>1. sessions[s].status # "NEW" \/ Opens(s)
    BY SessionLife DEF Keeps
  <2>2. sessions[t].status # "NEW"
    BY <2>1 DEF Opens, IInv, TakenInOrder
  <2>3. QED
    BY <2>2, SessionLife
<1>3. ASSUME NEW s \in Sids, slots'[s].status # "NONE"
      PROVE  /\ slots'[s].status = "RESERVED" <=> sessions'[s].status = "PENDING"
             /\ slots'[s].status = "APPLIED" <=> sessions'[s].status = "COMPLETED"
             /\ sessions'[s].status # "NEW" /\ sessions'[s].kind = "SUBSCRIPTION"
  <2>1. sessions[s] \in Session /\ slots[s] \in Slots
    BY DEF IInv, TypeOK
  <2>2. slots[s].status # "NONE" =>
          /\ slots[s].status = "RESERVED" <=> sessions[s].status = "PENDING"
          /\ slots[s].status = "APPLIED" <=> sessions[s].status = "COMPLETED"
          /\ sessions[s].status # "NEW" /\ sessions[s].kind = "SUBSCRIPTION"
    BY DEF IInv, SlotFollowsCheckout, SlotsOfPlans, OfPlans
  <2>3. CASE Keeps(s)
    BY <1>3, <2>2, <2>3 DEF Keeps
  <2>4. CASE Opens(s)
    BY <1>3, <2>2, <2>4 DEF Opens
  <2>5. ASSUME NEW x \in {"COMPLETED", "CLOSED"}, NEW y \in {"APPLIED", "RELEASED"}, Ends(s, x, y),
               x = "COMPLETED" <=> y = "APPLIED"
        PROVE  /\ slots'[s].status = "RESERVED" <=> sessions'[s].status = "PENDING"
               /\ slots'[s].status = "APPLIED" <=> sessions'[s].status = "COMPLETED"
               /\ sessions'[s].status # "NEW" /\ sessions'[s].kind = "SUBSCRIPTION"
    <3>1. sessions[s].status = "PENDING" /\ sessions'[s].status = x
          /\ sessions'[s].kind = sessions[s].kind
      <4>1. sessions[s].status = "PENDING" /\ sessions'[s] = [sessions[s] EXCEPT !.status = x]
        BY <2>5 DEF Ends, Pending
      <4>2. QED
        BY <2>1, <4>1, StatusChange DEF Statuses
    <3>2. slots[s].status = "RESERVED" => slots'[s].status = y
      <4>1. slots[s].status = "RESERVED" => slots'[s] = [slots[s] EXCEPT !.status = y]
        BY <2>5 DEF Ends
      <4>2. [slots[s] EXCEPT !.status = y].status = y
        BY <2>1, SlotChange
      <4>3. QED
        BY <4>1, <4>2
    <3>3. slots[s].status = "RESERVED"
      <4>1. slots[s].status # "RESERVED" => slots'[s] = slots[s]
        BY <2>5 DEF Ends
      <4>2. QED
        BY <1>3, <2>2, <3>1, <4>1
    <3>4. QED
      BY <2>2, <2>5, <3>1, <3>2, <3>3
  <2>6. CASE Closes(s)
    BY <2>5, <2>6 DEF Closes
  <2>7. CASE Completes(s)
    BY <2>5, <2>7 DEF Completes
  <2>8. QED
    BY <1>1, <2>3, <2>4, <2>6, <2>7 DEF Followed
<1>4. QED
  BY <1>2, <1>3 DEF SlotFollowsCheckout, SlotsOfPlans, OfPlans

----------------------------------------------------------------------------
(* Types of what is not a session, a slot or the counter                   *)

LEMMA TypesStep ==
    ASSUME TypeOK, [Next]_vars
    PROVE  /\ (sub \in [Workspaces -> [plan: 0 .. MaxPlan, current: Sids \cup {None}]])'
           /\ (credited \in [Sids -> Nat])'
           /\ (rows \in [Sids -> {"NONE", "RECEIVED", "FAILED", "PROCESSED", "IGNORED"}])'
           /\ (pay \in [Sids -> Payments])'
           /\ (billing \subseteq Sids)'
           /\ (calls \in [Callers -> Request])'
           /\ (hooks \in [Handlers -> Delivery])'
           /\ (faults \in 0 .. MaxFaults)'
<1> DEFINE RowTypes ==
             /\ sub \in [Workspaces -> [plan: 0 .. MaxPlan, current: Sids \cup {None}]]
             /\ credited \in [Sids -> Nat]
             /\ rows \in [Sids -> {"NONE", "RECEIVED", "FAILED", "PROCESSED", "IGNORED"}]
           CallTypes == calls \in [Callers -> Request]
           HookTypes == hooks \in [Handlers -> Delivery]
           PayTypes == /\ pay \in [Sids -> Payments]
                       /\ billing \subseteq Sids /\ faults \in 0 .. MaxFaults
           Types == RowTypes /\ CallTypes /\ HookTypes /\ PayTypes
<1>0. Types
  BY DEF TypeOK
<1> USE LimitsAssumption DEF dbVars
<1>a. faults' = faults \/ Fault => faults' \in 0 .. MaxFaults
  BY <1>0 DEF Fault
<1>b. Idle \in Request /\ Idle \in Delivery
  BY DEF Request, Delivery
<1>1. ASSUME NEW c \in Callers, NEW u \in Users \cup {None}, NEW w \in Workspaces,
             NEW plan \in 1 .. MaxPlan, Quote(c, u, w, plan)
      PROVE  Types'
  <2> DEFINE q == [pc |-> "quoted", user |-> u, ws |-> w, plan |-> plan,
                   stale |-> {s \in Sids : /\ Pending(s)
                                           /\ sessions[s].ws = w
                                           /\ sessions[s].kind = "SUBSCRIPTION"}]
  <2>1. q \in Request
    BY DEF Request
  <2>2. calls' = [calls EXCEPT ![c] = q]
        /\ UNCHANGED <<sub, credited, rows, pay, billing, hooks, faults>>
    BY <1>1 DEF Quote
  <2>3. QED
    BY <1>0, <2>1, <2>2
<1>2. ASSUME NEW c \in Callers, NEW s \in Sids, Open(c, s) PROVE Types'
  <2>1. /\ calls' = [calls EXCEPT ![c] = Idle]
        /\ pay' = pay \/ pay' = [pay EXCEPT ![s] = "opening"]
        /\ UNCHANGED <<sub, credited, rows, billing, hooks, faults>>
    BY <1>2 DEF Open
  <2>2. PayTypes'
    BY <1>0, <2>1 DEF Payments
  <2>3. QED
    BY <1>0, <1>b, <2>1, <2>2
<1>3. ASSUME NEW s \in Sids, NEW w \in Workspaces, OpenTopUp(s, w) PROVE Types'
  BY <1>0, <1>3 DEF OpenTopUp, Payments
<1>4. ASSUME NEW s \in Sids,
             ProviderOpens(s) \/ ProviderFails(s) \/ CancelCheckout(s) \/ ExpireStale(s)
               \/ PageExpires(s)
      PROVE  Types'
  <2>1. /\ pay' = pay \/ \E x \in Payments : pay' = [pay EXCEPT ![s] = x]
        /\ UNCHANGED <<sub, credited, rows, billing, hooks, calls>>
        /\ faults' = faults \/ Fault
    BY <1>4 DEF ProviderOpens, ProviderFails, CancelCheckout, ExpireStale, PageExpires, Payments
  <2>2. QED
    BY <1>0, <1>a, <2>1
<1>5. ASSUME NEW s \in Sids, NEW amount \in {"full", "short"}, Pays(s, amount) PROVE Types'
  <2>1. /\ pay' = [pay EXCEPT ![s] = amount] /\ billing' \in {billing, billing \cup {s}}
        /\ UNCHANGED <<sub, credited, rows, hooks, calls>>
        /\ faults' = faults \/ Fault
    BY <1>5 DEF Pays
  <2>2. amount \in Payments
    BY DEF Payments
  <2>3. QED
    BY <1>0, <1>a, <2>1, <2>2
<1>6. ASSUME NEW s \in Sids, NEW h \in Handlers, Deliver(h, s) PROVE Types'
  <2>1. /\ rows' = [rows EXCEPT ![s] = IF @ = "NONE" THEN "RECEIVED" ELSE @]
        /\ hooks' = [hooks EXCEPT ![h] =
              [pc |-> "apply", sid |-> s, out |-> "PROCESSED", seen |-> None]]
        /\ UNCHANGED <<sub, credited, pay, billing, calls>>
        /\ faults' = faults \/ Fault
    BY <1>6 DEF Deliver, Goto
  <2>2. RowTypes' /\ CallTypes' /\ PayTypes'
    BY <1>0, <1>a, <2>1
  <2>3. HookTypes'
    BY <1>0, <2>1 DEF Delivery, Done
  <2>4. QED
    BY <2>2, <2>3
<1>7. ASSUME NEW h \in Handlers, Handle(h) \/ CreditFails(h) \/ HandlerCrashes(h)
      PROVE  Types'
  <2> DEFINE s == hooks[h].sid
  <2>1. hooks[h] # Idle
    <3>1. hooks[h].pc # "idle" \/ hooks[h] # Idle
      BY <1>7 DEF Handle, ApplyFail, ApplyTopUp, ActivateBegin, ActivateCommit, Retire, Credit,
                  Answer, CreditFails, HandlerCrashes
    <3>2. QED
      BY <3>1 DEF Idle
  <2>2. s \in Sids /\ hooks[h].out \in Done /\ hooks[h].seen \in Sids \cup {None}
    BY <2>1, HandlerHasSession
  <2>3. CallTypes' /\ PayTypes'
    <3>1. /\ UNCHANGED <<calls, pay>> /\ billing' \in {billing, billing \ {hooks[h].seen}}
          /\ faults' = faults \/ Fault
      BY <1>7 DEF Handle, ApplyFail, ApplyTopUp, ActivateBegin, ActivateCommit, Retire, Credit,
                  Answer, CreditFails, HandlerCrashes
    <3>2. QED
      BY <1>0, <1>a, <3>1
  <2>4. HookTypes'
    <3>1. \/ hooks' = [hooks EXCEPT ![h] = Idle]
          \/ \E pc \in {"answer", "credit"}, out \in Done : hooks' = [hooks EXCEPT ![h] =
                [pc |-> pc, sid |-> s, out |-> out, seen |-> None]]
          \/ \E pc \in {"retire", "credit"} : hooks' = [hooks EXCEPT ![h].pc = pc]
          \/ ActivateBegin(h) /\ hooks' = [hooks EXCEPT ![h].pc = "activating",
                                             ![h].seen = sub[sessions[s].ws].current]
      BY <1>7 DEF Handle, ApplyFail, ApplyTopUp, ActivateBegin, ActivateCommit, Retire, Credit,
                  Answer, CreditFails, HandlerCrashes, Goto, Rest, Done
    <3>2. CASE hooks' = [hooks EXCEPT ![h] = Idle]
      BY <1>0, <1>b, <3>2
    <3>3. ASSUME NEW pc \in {"answer", "credit"}, NEW out \in Done,
                 hooks' = [hooks EXCEPT ![h] =
                    [pc |-> pc, sid |-> s, out |-> out, seen |-> None]]
          PROVE  HookTypes'
      <4>1. [pc |-> pc, sid |-> s, out |-> out, seen |-> None] \in Delivery
        BY <2>2 DEF Delivery
      <4>2. QED
        BY <1>0, <3>3, <4>1
    <3>4. ASSUME NEW pc \in {"retire", "credit"}, hooks' = [hooks EXCEPT ![h].pc = pc]
          PROVE  HookTypes'
      <4>1. [hooks[h] EXCEPT !.pc = pc] \in Delivery
        BY <1>0, <2>1 DEF Delivery
      <4>2. QED
        BY <1>0, <3>4, <4>1
    <3>5. CASE ActivateBegin(h) /\ hooks' = [hooks EXCEPT ![h].pc = "activating",
                                             ![h].seen = sub[sessions[s].ws].current]
      <4>1. sub[sessions[s].ws].current \in Sids \cup {None}
        <5>1. sessions[s].ws \in Workspaces
          BY <2>2, <3>5 DEF ActivateBegin, TypeOK, Session
        <5>2. QED
          BY <1>0, <5>1
      <4>2. [hooks[h] EXCEPT !.pc = "activating", !.seen = sub[sessions[s].ws].current] \in Delivery
        <5> DEFINE old == sub[sessions[s].ws].current
        <5>1. hooks[h] \in Delivery /\ hooks[h] # Idle /\ old \in Sids \cup {None}
          BY <1>0, <2>1, <4>1
        <5> HIDE DEF old
        <5>2. [hooks[h] EXCEPT !.pc = "activating", !.seen = old] \in Delivery
          BY <5>1 DEF Delivery
        <5>3. QED
          BY <5>2 DEF old
      <4>3. QED
        BY <1>0, <3>5, <4>2
    <3>6. QED
      BY <3>1, <3>2, <3>3, <3>4, <3>5
  <2>5. RowTypes'
    <3>1. CASE ActivateCommit(h)
      <4>0. Pending(s) /\ UNCHANGED <<credited, rows>>
            /\ sub' = [sub EXCEPT ![sessions[s].ws] = [plan |-> sessions[s].plan, current |-> s]]
        BY <3>1, LockedSession DEF ActivateCommit, TypeOK
      <4>1. sessions[s].ws \in Workspaces /\ sessions[s].plan \in 0 .. MaxPlan
        BY <2>2, <4>0 DEF TypeOK, Session, Pending
      <4>2. QED
        BY <1>0, <2>2, <4>0, <4>1
    <3>2. CASE ~ActivateCommit(h)
      <4>1. /\ UNCHANGED sub
            /\ rows' = rows \/ rows' = [rows EXCEPT ![s] = "FAILED"]
                 \/ rows' = [rows EXCEPT ![s] = hooks[h].out]
            /\ credited' = credited \/ credited' = [credited EXCEPT ![s] = Credited(s)]
        BY <1>7, <3>2 DEF Handle, ApplyFail, ApplyTopUp, ActivateBegin, Retire, Credit,
                  Answer, CreditFails, HandlerCrashes
      <4>2. Credited(s) \in Nat
        BY <1>0, <2>2 DEF Credited
      <4>3. QED
        BY <1>0, <2>2, <4>1, <4>2 DEF Done
    <3>3. QED
      BY <3>1, <3>2
  <2>6. QED
    BY <2>3, <2>4, <2>5
<1>8. CASE UNCHANGED vars
  BY <1>0, <1>8 DEF vars
<1>9. Types'
  BY <1>1, <1>2, <1>3, <1>4, <1>5, <1>6, <1>7, <1>8 DEF Next, CallerStep, SessionStep
<1>10. QED
  BY <1>9

----------------------------------------------------------------------------
(* The coupon                                                              *)

\* Each writer gives back slots that are held and takes at most a free one,
\* under the guard of the reservation.
LEMMA SlotsAccountedStep ==
    ASSUME IInv, [Next]_vars
    PROVE  SlotsAccounted' /\ redeemed' \in Nat
<1>0. /\ slots \in [Sids -> Slots] /\ sessions \in [Sids -> Session] /\ TypeOK /\ SlotsAccounted
      /\ redeemed \in Nat
  BY DEF IInv, TypeOK
<1>a. ASSUME UNCHANGED redeemed, \A t \in Sids : (t \in Used' <=> t \in Used) /\
               slots'[t].user = slots[t].user
      PROVE  SlotsAccounted' /\ redeemed' \in Nat
  <2>1. Used' = Used
    BY <1>a DEF Used
  <2>2. \A u \in Users : UsedBy(u)' = UsedBy(u)
    BY <1>a, <2>1 DEF UsedBy, Used
  <2>3. QED
    BY <1>0, <1>a, <2>1, <2>2 DEF SlotsAccounted
<1>1. CASE UNCHANGED <<sessions, slots, redeemed>>
  BY <1>1, <1>a DEF Used
<1>2. ASSUME NEW s \in Sids, Fail(s) PROVE SlotsAccounted' /\ redeemed' \in Nat
  <2>1. CASE UNCHANGED <<slots, redeemed>>
    BY <1>a, <2>1 DEF Used
  <2>2. CASE Pending(s) /\ ~UNCHANGED <<slots, redeemed>>
    <3> DEFINE B == Reserved({s})
    <3>1. /\ slots' = [slots EXCEPT ![s].status = IF @ = "RESERVED" THEN "RELEASED" ELSE @]
          /\ redeemed' = redeemed - Cardinality(B)
      BY <1>2, <2>2 DEF Fail
    <3>2. \A t \in Sids : slots'[t].user = slots[t].user /\
            slots'[t].status = IF t \in B THEN "RELEASED" ELSE slots[t].status
      BY <1>0, <3>1 DEF Reserved
    <3>3. B \in SUBSET Used
      BY DEF Used, Reserved
    <3>4. Used' = (Used \ B) \cup {}
      BY <3>2, <3>3 DEF Used
    <3>5. redeemed' = redeemed - Cardinality(B) + Cardinality({})
      <4>1. Cardinality(B) \in Nat
        BY <3>3, SidsFinite DEF Used
      <4>2. QED
        BY <1>0, <3>1, <4>1, FS_EmptySet
    <3>6. \A o \in Used \ B : slots'[o].user = slots[o].user
      BY <3>2 DEF Used
    <3> HIDE DEF B
    <3>7. QED
      BY <1>0, <3>3, <3>4, <3>5, <3>6, Accounting
  <2>3. QED
    BY <1>2, <2>1, <2>2 DEF Fail
<1>3. ASSUME NEW c \in Callers, NEW s \in Sids, Open(c, s)
      PROVE  SlotsAccounted' /\ redeemed' \in Nat
  <2> DEFINE q == calls[c]
             B == Reserved(q.stale)
             New == IF q.user # None THEN {s} ELSE {}
  <2>1. CASE UNCHANGED <<slots, redeemed>>
    BY <1>a, <2>1 DEF Used
  <2>2. CASE ~UNCHANGED <<slots, redeemed>>
    <3>1. /\ slots' = [o \in Sids |->
               IF o = s /\ q.user # None THEN Slot("RESERVED", q.user)
               ELSE IF o \in B THEN [slots[o] EXCEPT !.status = "RELEASED"]
               ELSE slots[o]]
          /\ redeemed' = redeemed - Cardinality(B) + (IF q.user # None THEN 1 ELSE 0)
          /\ q.user # None => HasSlot(q.user, B)
      BY <1>3, <2>2 DEF Open
    <3>2. q.stale \in SUBSET Sids
      <4>1. q \in Request /\ q.pc = "quoted"
        BY <1>3 DEF Open, IInv, TypeOK
      <4>2. QED
        BY <4>1 DEF Request, Idle
    <3>3. B \in SUBSET Used /\ \A o \in B : slots[o].status = "RESERVED"
      BY <3>2 DEF Used, Reserved
    <3>4. slots[s].status = "NONE"
      BY <1>3, FreshIsNext DEF Open, IInv, TypeOK
    <3>5. New \in SUBSET (Sids \ Used)
      BY <3>4 DEF Used
    <3>6. \A o \in Sids : o \notin New => slots'[o].user = slots[o].user /\
            slots'[o].status = IF o \in B THEN "RELEASED" ELSE slots[o].status
      BY <1>0, <3>1, <3>3, SlotChange
    <3>7. \A o \in New : slots'[o].user = q.user /\ slots'[o].status = "RESERVED"
      BY <3>1 DEF Slot
    <3>8. Used' = (Used \ B) \cup New
      BY <3>5, <3>6, <3>7 DEF Used
    <3>9. redeemed' = redeemed - Cardinality(B) + Cardinality(New)
      BY <3>1, FS_EmptySet, FS_Singleton
    <3>10. \A o \in Used \ B : slots'[o].user = slots[o].user
      BY <3>5, <3>6 DEF Used
    <3>11. New = {} \/ (HasSlot(q.user, B) /\ \E t \in Sids : New = {t})
      BY <3>1
    <3>12. \A o \in New : slots'[o].user = q.user
      BY <3>7
    <3> HIDE DEF B, New, q
    <3>13. QED
      BY <1>0, <3>3, <3>5, <3>8, <3>9, <3>10, <3>11, <3>12, Accounting
  <2>3. QED
    BY <2>1, <2>2
<1>4. ASSUME NEW s \in Sids, NEW w \in Workspaces, OpenTopUp(s, w)
      PROVE  SlotsAccounted' /\ redeemed' \in Nat
  BY <1>4, <1>a DEF OpenTopUp, Used
<1>5. ASSUME NEW h \in Handlers, ApplyTopUp(h) PROVE SlotsAccounted' /\ redeemed' \in Nat
  BY <1>5, <1>a DEF ApplyTopUp, Used
<1>6. ASSUME NEW h \in Handlers, ActivateCommit(h) PROVE SlotsAccounted' /\ redeemed' \in Nat
  <2> DEFINE s == hooks[h].sid
  <2>1. /\ slots' = [slots EXCEPT ![s].status = IF @ = "RESERVED" THEN "APPLIED" ELSE @]
        /\ UNCHANGED redeemed
    BY <1>6 DEF ActivateCommit
  <2>2. \A t \in Sids : (t \in Used' <=> t \in Used) /\ slots'[t].user = slots[t].user
    BY <1>0, <2>1 DEF Used
  <2>3. QED
    BY <1>a, <2>1, <2>2
<1>7. ASSUME NEW h \in Handlers, ApplyFail(h) PROVE SlotsAccounted' /\ redeemed' \in Nat
  <2>1. hooks[h].pc = "apply" /\ Fail(hooks[h].sid)
    BY <1>7 DEF ApplyFail
  <2>2. hooks[h] # Idle
    BY <2>1 DEF Idle
  <2>3. QED
    BY <1>0, <1>2, <2>1, <2>2, HandlerHasSession
<1>8. QED
  BY <1>1, <1>2, <1>3, <1>4, <1>5, <1>6, <1>7, Writers

----------------------------------------------------------------------------
(* Payments, handlers and credits                                          *)

\* A payment is final, and what has no session yet has neither a payment nor
\* a slot.
LEMMA PaymentLife ==
    ASSUME IInv, [Next]_vars, NEW t \in Sids
    PROVE  /\ pay[t] \in {"full", "short", "expired"} => pay'[t] = pay[t]
           /\ sessions'[t].status = "NEW" => pay'[t] = "none" /\ slots'[t].status = "NONE"
<1>0. pay \in [Sids -> Payments] /\ TypeOK /\ TakenInOrder
  BY DEF IInv, TypeOK
<1>1. \/ pay'[t] = pay[t]
      \/ pay[t] \in {"opening", "open"}
      \/ pay[t] = "none" /\ Opens(t)
  <2>1. ASSUME NEW s \in Sids, Opens(s), pay' = [pay EXCEPT ![s] = "opening"]
        PROVE  pay'[t] = pay[t] \/ (pay[t] = "none" /\ Opens(t))
    BY <1>0, <2>1 DEF Opens, TypeOK
  <2>2. ASSUME NEW c \in Callers, CallerStep(c) PROVE <1>1!1 \/ <1>1!3
    <3>1. CASE UNCHANGED pay
      BY <3>1
    <3>2. ASSUME NEW s \in Sids, Open(c, s), ~UNCHANGED pay
          PROVE  pay'[t] = pay[t] \/ (pay[t] = "none" /\ Opens(t))
      <4>1. pay' = [pay EXCEPT ![s] = "opening"] /\ ~UNCHANGED <<sessions, slots>>
        <5>1. pay' = [pay EXCEPT ![s] = "opening"]
              /\ sessions'[s] = NewSession("SUBSCRIPTION", calls[c].ws, calls[c].plan)
          BY <1>0, <3>2 DEF Open, TypeOK
        <5>2. sessions[s].status = "NEW" /\ sessions'[s].status = "PENDING"
          BY <1>0, <3>2, <5>1, FreshIsNext DEF Open, NewSession
        <5>3. QED
          BY <5>1, <5>2
      <4>2. Opens(s)
        BY <3>2, <4>1, OpenEffect
      <4>3. QED
        BY <2>1, <4>1, <4>2
    <3>3. QED
      BY <2>2, <3>1, <3>2 DEF CallerStep, Quote
  <2>3. ASSUME NEW s \in Sids, SessionStep(s) PROVE <1>1
    <3>1. ASSUME NEW w \in Workspaces, OpenTopUp(s, w) PROVE <1>1
      BY <2>1, <3>1, OpenTopUpEffect DEF OpenTopUp
    <3>2. CASE ~\E w \in Workspaces : OpenTopUp(s, w)
      BY <1>0, <2>3, <3>2 DEF SessionStep, ProviderOpens, ProviderFails, CancelCheckout, ExpireStale,
                  PageExpires, Pays, Deliver
    <3>3. QED
      BY <3>1, <3>2
  <2>4. ASSUME NEW h \in Handlers, Handle(h) \/ CreditFails(h) \/ HandlerCrashes(h)
        PROVE  UNCHANGED pay
    BY <2>4 DEF Handle, ApplyFail, ApplyTopUp, ActivateBegin, ActivateCommit, Retire, Credit,
                Answer, CreditFails, HandlerCrashes
  <2>5. QED
    BY <2>2, <2>3, <2>4 DEF Next, vars
<1>2. ASSUME sessions'[t].status = "NEW"
      PROVE  pay'[t] = "none" /\ slots'[t].status = "NONE"
  <2>1. sessions[t].status = "NEW" /\ Keeps(t)
    BY <1>2, SessionLife DEF Opens
  <2>2. pay[t] = "none" /\ slots[t].status = "NONE"
    BY <1>0, <2>1 DEF TypeOK
  <2>3. QED
    BY <1>1, <1>2, <2>1, <2>2 DEF Keeps, Opens
<1>3. QED
  BY <1>1, <1>2

\* One handler moves at a time, and this is how it comes to a stage.
MovesTo(h) ==
    \/ hooks'[h].pc \in {"idle", "apply", "answer"}
    \/ /\ ActivateBegin(h) /\ hooks'[h].pc = "activating"
       /\ hooks'[h].sid = hooks[h].sid
       /\ Pending(hooks[h].sid)
    \/ /\ ApplyTopUp(h) \/ ActivateCommit(h)
       /\ hooks'[h].pc \in {"retire", "credit"} /\ hooks'[h].sid = hooks[h].sid
       /\ Completes(hooks[h].sid)
    \/ /\ hooks[h].pc = "retire"
       /\ hooks'[h].pc = "credit" /\ hooks'[h].sid = hooks[h].sid

LEMMA HandlersMove ==
    ASSUME IInv, [Next]_vars
    PROVE  \/ UNCHANGED hooks
           \/ \E h \in Handlers : /\ MovesTo(h)
                                   /\ \A g \in Handlers : g # h => hooks'[g] = hooks[g]
<1>0. hooks \in [Handlers -> Delivery]
  BY DEF IInv, TypeOK
<1>1. ASSUME NEW h \in Handlers, NEW x, hooks' = [hooks EXCEPT ![h] = x]
      PROVE  hooks'[h] = x /\ \A g \in Handlers : g # h => hooks'[g] = hooks[g]
  BY <1>0, <1>1
<1>2. ASSUME NEW h \in Handlers, NEW s \in Sids, Deliver(h, s)
      PROVE  MovesTo(h) /\ \A g \in Handlers : g # h => hooks'[g] = hooks[g]
  <2>1. hooks' = [hooks EXCEPT ![h] = [pc |-> "apply", sid |-> s, out |-> "PROCESSED",
                                       seen |-> None]]
    BY <1>2 DEF Deliver, Goto
  <2>2. QED
    BY <1>0, <2>1 DEF MovesTo
<1>3. ASSUME NEW h \in Handlers, HandlerCrashes(h) \/ CreditFails(h) \/ Answer(h) \/ ApplyFail(h)
      PROVE  MovesTo(h) /\ \A g \in Handlers : g # h => hooks'[g] = hooks[g]
  BY <1>1, <1>3 DEF HandlerCrashes, CreditFails, Answer, ApplyFail, Goto, Rest, Idle, MovesTo
<1>4. ASSUME NEW h \in Handlers, Credit(h)
      PROVE  MovesTo(h) /\ \A g \in Handlers : g # h => hooks'[g] = hooks[g]
  <2>1. hooks' = [hooks EXCEPT ![h] = [pc |-> "answer", sid |-> hooks[h].sid,
                                       out |-> "PROCESSED", seen |-> None]]
    BY <1>4 DEF Credit, Goto
  <2>2. QED
    BY <1>0, <2>1 DEF MovesTo
<1>5. ASSUME NEW h \in Handlers, Retire(h)
      PROVE  MovesTo(h) /\ \A g \in Handlers : g # h => hooks'[g] = hooks[g]
  <2>1. hooks[h].pc = "retire" /\ hooks' = [hooks EXCEPT ![h].pc = "credit"]
    BY <1>5 DEF Retire
  <2>2. hooks'[h].pc = "credit" /\ hooks'[h].sid = hooks[h].sid
    BY <1>0, <2>1 DEF Delivery, Idle
  <2>3. QED
    BY <1>0, <2>1, <2>2 DEF MovesTo
<1>6. ASSUME NEW h \in Handlers, ActivateBegin(h)
      PROVE  MovesTo(h) /\ \A g \in Handlers : g # h => hooks'[g] = hooks[g]
  <2>1. CASE ~Pending(hooks[h].sid)
    BY <1>1, <1>6, <2>1 DEF ActivateBegin, MayComplete, Goto, MovesTo
  <2>2. CASE Pending(hooks[h].sid)
    <3>1. hooks[h].pc = "apply" /\
          hooks' = [hooks EXCEPT ![h].pc = "activating",
                                 ![h].seen = sub[sessions[hooks[h].sid].ws].current]
      BY <1>6, <2>2 DEF ActivateBegin, MayComplete
    <3>2. hooks'[h].pc = "activating" /\ hooks'[h].sid = hooks[h].sid
      BY <1>0, <3>1 DEF Delivery, Idle
    <3>3. QED
      BY <1>0, <1>6, <2>2, <3>1, <3>2 DEF MovesTo
  <2>3. QED
    BY <2>1, <2>2
<1>7. ASSUME NEW h \in Handlers, ApplyTopUp(h)
      PROVE  MovesTo(h) /\ \A g \in Handlers : g # h => hooks'[g] = hooks[g]
  <2>1. CASE ~Pending(hooks[h].sid)
    BY <1>1, <1>7, <2>1 DEF ApplyTopUp, MayComplete, Goto, MovesTo
  <2>2. CASE Pending(hooks[h].sid)
    <3>1. /\ sessions' = [sessions EXCEPT ![hooks[h].sid].status = "COMPLETED"]
          /\ hooks' = [hooks EXCEPT ![h] = [pc |-> "credit", sid |-> hooks[h].sid,
                                            out |-> "PROCESSED", seen |-> None]]
      BY <1>7, <2>2 DEF ApplyTopUp, MayComplete, Goto
    <3>2. ~UNCHANGED sessions
      <4>1. hooks[h].sid \in Sids
        BY <1>7, FlipEffect
      <4>2. sessions[hooks[h].sid] \in Session /\ sessions \in [Sids -> Session]
        BY <4>1 DEF IInv, TypeOK
      <4>3. sessions'[hooks[h].sid].status = "COMPLETED"
        BY <2>2, <3>1, <4>1, <4>2 DEF Pending, Session
      <4>4. QED
        BY <2>2, <4>3 DEF Pending
    <3>3. hooks'[h].pc = "credit" /\ hooks'[h].sid = hooks[h].sid
          /\ \A g \in Handlers : g # h => hooks'[g] = hooks[g]
      BY <1>0, <3>1
    <3>4. Completes(hooks[h].sid)
      BY <1>7, <3>2, FlipEffect
    <3>5. QED
      BY <1>7, <3>3, <3>4 DEF MovesTo
  <2>3. QED
    BY <2>1, <2>2
<1>8. ASSUME NEW h \in Handlers, ActivateCommit(h)
      PROVE  MovesTo(h) /\ \A g \in Handlers : g # h => hooks'[g] = hooks[g]
  <2>1. hooks[h].pc = "activating" /\ Pending(hooks[h].sid) /\ hooks[h].sid \in Sids
        /\ sessions' = [sessions EXCEPT ![hooks[h].sid].status = "COMPLETED"]
    BY <1>8, FlipEffect DEF ActivateCommit, IInv, HandlersFit
  <2>2. hooks' = [hooks EXCEPT ![h].pc = IF Replaces(h) THEN "retire" ELSE "credit"]
    BY <1>8 DEF ActivateCommit
  <2>3. hooks'[h].pc \in {"retire", "credit"} /\ hooks'[h].sid = hooks[h].sid
    BY <1>0, <2>1, <2>2 DEF Delivery, Idle
  <2>4. Completes(hooks[h].sid)
    <3>1. sessions[hooks[h].sid] \in Session /\ sessions \in [Sids -> Session]
      BY <2>1 DEF IInv, TypeOK
    <3>2. sessions'[hooks[h].sid].status = "COMPLETED"
      BY <2>1, <3>1 DEF Pending, Session
    <3>3. QED
      BY <1>8, <2>1, <3>2, FlipEffect DEF Pending
  <2>5. QED
    BY <1>0, <1>8, <2>2, <2>3, <2>4 DEF MovesTo
<1>9. QED
  BY <1>2, <1>3, <1>4, <1>5, <1>6, <1>7, <1>8 DEF Next, vars, CallerStep, SessionStep, Handle,
     Quote, Open, OpenTopUp, ProviderOpens, ProviderFails, CancelCheckout, ExpireStale,
     PageExpires, Pays

\* An activation keeps its session pending until it commits, alone; later its
\* session is completed.
LEMMA HandlersFitStep ==
    ASSUME IInv, [Next]_vars
    PROVE  HandlersFit' /\ OneActivation'
<1>0. hooks \in [Handlers -> Delivery] /\ TypeOK /\ HandlersFit /\ OneActivation
      /\ \A h \in Handlers : hooks'[h] \in Delivery
  <2>1. (hooks \in [Handlers -> Delivery])'
    BY TypesStep DEF IInv
  <2>2. QED
    BY <2>1 DEF IInv, TypeOK
<1>a. \A h \in Handlers : hooks[h].pc \in {"activating", "retire", "credit"} => hooks[h].sid \in Sids
  BY <1>0 DEF Delivery, Idle
<1>1. ASSUME NEW s \in Sids, Completes(s) PROVE sessions'[s].status = "COMPLETED"
  <2>1. sessions[s] \in Session /\ sessions[s].status # "NEW"
    BY <1>0, <1>1 DEF Completes, Ends, Pending, TypeOK
  <2>2. sessions'[s] = [sessions[s] EXCEPT !.status = "COMPLETED"]
    BY <1>1 DEF Completes, Ends
  <2>3. QED
    BY <2>1, <2>2, StatusChange DEF Statuses
<1>2. ASSUME NEW h \in Handlers, hooks'[h].pc = "activating"
      PROVE  /\ sessions'[hooks'[h].sid].status = "PENDING"
             /\ sessions'[hooks'[h].sid].kind = "SUBSCRIPTION"
             /\ pay'[hooks'[h].sid] = "full"
             /\ hooks'[h].sid = hooks[h].sid /\ hooks[h].sid \in Sids
             /\ hooks'[h] = hooks[h] \/ (ActivateBegin(h) /\ hooks[h].sid \notin Locked)
  <2> DEFINE s == hooks[h].sid
  <2>1. CASE hooks'[h] = hooks[h]
    <3>1. hooks[h].pc = "activating" /\ s \in Sids /\ s \in Locked
          /\ sessions[s].status = "PENDING" /\ sessions[s].kind = "SUBSCRIPTION" /\ pay[s] = "full"
      BY <1>0, <1>2, <1>a, <2>1, LockedSession DEF HandlersFit, Pending
    <3>2. ~Completes(s)
      <4> SUFFICES ASSUME NEW g \in Handlers, hooks[g].sid = s, ApplyTopUp(g) \/ ActivateCommit(g)
                   PROVE  FALSE
        BY DEF Completes
      <4>1. CASE ApplyTopUp(g)
        BY <3>1, <4>1 DEF ApplyTopUp
      <4>2. CASE ActivateCommit(g)
        <5>1. g = h
          BY <1>0, <3>1, <4>2 DEF OneActivation, ActivateCommit
        <5>2. hooks'[h].pc # "activating"
          <6> DEFINE p == IF Replaces(h) THEN "retire" ELSE "credit"
          <6>1. hooks' = [hooks EXCEPT ![h].pc = p]
            BY <4>2, <5>1 DEF ActivateCommit
          <6>2. p # "activating"
            OBVIOUS
          <6> HIDE DEF p
          <6>3. hooks[h] \in Delivery /\ hooks[h].pc # "idle"
            BY <1>0, <3>1
          <6>4. QED
            BY <1>0, <6>1, <6>2, <6>3 DEF Delivery, Idle
        <5>3. QED
          BY <1>2, <5>2
      <4>3. QED
        BY <4>1, <4>2
    <3>3. Keeps(s)
      BY <3>1, <3>2, StepFollows DEF Followed, Opens, Closes
    <3>4. pay'[s] = "full"
      BY <3>1, PaymentLife
    <3>5. QED
      BY <2>1, <3>1, <3>3, <3>4 DEF Keeps, Pending
  <2>2. CASE hooks'[h] # hooks[h]
    <3>1. MovesTo(h)
      BY <2>2, HandlersMove
    <3>2. ActivateBegin(h) /\ hooks'[h].sid = s /\ Pending(s)
      BY <1>2, <3>1 DEF MovesTo
    <3>3. hooks[h].pc = "apply" /\ pay[s] = "full" /\ sessions[s].kind = "SUBSCRIPTION"
          /\ s \notin Locked /\ UNCHANGED <<sessions, pay>>
      BY <3>2 DEF ActivateBegin, dbVars
    <3>4. s \in Sids
      BY <1>0, <3>3 DEF Delivery, Idle
    <3>5. QED
      BY <3>2, <3>3, <3>4 DEF Pending
  <2>3. QED
    BY <2>1, <2>2
<1>3. ASSUME NEW h \in Handlers, hooks'[h].pc \in {"retire", "credit"}
      PROVE  sessions'[hooks'[h].sid].status = "COMPLETED" /\ pay'[hooks'[h].sid] = "full"
  <2> DEFINE s == hooks[h].sid
  <2>1. CASE hooks'[h].sid = s /\ s \in Sids /\ hooks[h].pc \in {"retire", "credit"}
    <3>1. sessions[s].status = "COMPLETED" /\ pay[s] = "full"
      BY <1>0, <2>1 DEF HandlersFit
    <3>2. QED
      BY <2>1, <3>1, SessionLife, PaymentLife DEF Final
  <2>2. CASE hooks'[h].sid = s /\ s \in Sids /\ Completes(s)
    <3>1. sessions'[s].status = "COMPLETED" /\ pay[s] = "full"
      BY <1>1, <2>2 DEF Completes
    <3>2. QED
      BY <2>2, <3>1, PaymentLife
  <2>3. hooks'[h] = hooks[h] \/ MovesTo(h)
    BY HandlersMove
  <2>4. CASE hooks'[h] = hooks[h]
    BY <1>3, <1>a, <2>1, <2>4
  <2>5. ASSUME ApplyTopUp(h) \/ ActivateCommit(h) PROVE s \in Sids
    BY <2>5, FlipEffect
  <2>6. CASE MovesTo(h)
    BY <1>3, <1>a, <2>1, <2>2, <2>5, <2>6 DEF MovesTo
  <2>7. QED
    BY <2>3, <2>4, <2>6
<1>4. HandlersFit'
  BY <1>2, <1>3 DEF HandlersFit, Pending
<1>5. ASSUME NEW g \in Handlers, NEW h \in Handlers,
             hooks'[g].pc = "activating", hooks'[h].pc = "activating",
             hooks'[g].sid = hooks'[h].sid, g # h
      PROVE  FALSE
  <2>1. hooks'[g].sid = hooks[g].sid /\ hooks'[h].sid = hooks[h].sid
    BY <1>2, <1>5
  <2>2. CASE hooks'[g] = hooks[g] /\ hooks'[h] = hooks[h]
    BY <1>0, <1>5, <2>2 DEF OneActivation
  <2>3. CASE hooks'[g] # hooks[g]
    <3>1. hooks[g].sid \notin Locked /\ hooks'[h] = hooks[h]
      BY <1>2, <1>5, <2>3, HandlersMove
    <3>2. QED
      BY <1>5, <2>1, <3>1, LockedSession
  <2>4. CASE hooks'[h] # hooks[h]
    <3>1. hooks[h].sid \notin Locked /\ hooks'[g] = hooks[g]
      BY <1>2, <1>5, <2>4, HandlersMove
    <3>2. QED
      BY <1>5, <2>1, <3>1, LockedSession
  <2>5. QED
    BY <2>2, <2>3, <2>4
<1>6. QED
  BY <1>4, <1>5 DEF OneActivation

\* Credits are booked where none were, for a session that has been completed.
LEMMA CreditsStep ==
    ASSUME IInv, [Next]_vars
    PROVE  CreditedOnce' /\ CompletedIsPaid'
<1>0. credited \in [Sids -> Nat] /\ TypeOK /\ HandlersFit /\ CreditedOnce /\ CompletedIsPaid
  BY DEF IInv, TypeOK
<1>1. CompletedIsPaid'
  <2> SUFFICES ASSUME NEW s \in Sids, sessions'[s].status = "COMPLETED" PROVE pay'[s] = "full"
    BY DEF CompletedIsPaid
  <2>1. CASE sessions[s].status = "COMPLETED"
    BY <1>0, <2>1, PaymentLife DEF CompletedIsPaid
  <2>2. CASE sessions[s].status # "COMPLETED"
    <3>1. Keeps(s) \/ Opens(s) \/ Closes(s) \/ Completes(s)
      BY StepFollows DEF Followed
    <3>2. sessions[s].status = "CLOSED" => sessions'[s].status = "CLOSED"
      BY SessionLife DEF Final
    <3>3. ~Closes(s)
      <4> SUFFICES ASSUME Closes(s) PROVE FALSE
        OBVIOUS
      <4>1. sessions[s] \in Session /\ sessions[s].status # "NEW"
        BY <1>0 DEF TypeOK, Closes, Ends, Pending
      <4>2. sessions'[s].status = "CLOSED"
        <5>1. sessions'[s] = [sessions[s] EXCEPT !.status = "CLOSED"]
          BY DEF Closes, Ends
        <5>2. QED
          BY <4>1, <5>1, StatusChange DEF Statuses
      <4>3. QED
        BY <4>2
    <3>4. Completes(s)
      BY <2>2, <3>1, <3>3 DEF Keeps, Opens
    <3>5. QED
      BY <3>4, PaymentLife DEF Completes
  <2>3. QED
    BY <2>1, <2>2
<1>2. ASSUME NEW s \in Sids, credited'[s] > 0
      PROVE  credited'[s] = 1 /\ sessions'[s].status = "COMPLETED" /\ pay'[s] = "full"
  <2>1. \/ credited'[s] = credited[s]
        \/ \E h \in Handlers : hooks[h].pc = "credit" /\ hooks[h].sid = s
             /\ credited'[s] = Credited(s)
    <3>1. ASSUME NEW h \in Handlers, Credit(h) PROVE <2>1
      BY <1>0, <3>1 DEF Credit
    <3>2. CASE UNCHANGED credited
      BY <3>2
    <3>3. QED
      BY <3>1, <3>2 DEF Next, vars, dbVars, CallerStep, SessionStep, Handle, CreditFails,
         HandlerCrashes, ApplyFail, ApplyTopUp, ActivateBegin, ActivateCommit, Retire, Answer,
         Quote, Open, OpenTopUp, ProviderOpens, ProviderFails, CancelCheckout, ExpireStale,
         PageExpires, Pays, Deliver
  <2>2. credited'[s] = 1 /\ sessions[s].status = "COMPLETED" /\ pay[s] = "full"
    BY <1>0, <1>2, <2>1 DEF CreditedOnce, HandlersFit, Credited
  <2>3. QED
    BY <2>2, SessionLife, PaymentLife DEF Final
<1>3. QED
  BY <1>1, <1>2 DEF CreditedOnce

\* A subscription stops to be the current one by a commit, whose handler then
\* retires it, or which reads that it overwrote one.
LEMMA ChargesStep ==
    ASSUME IInv, [Next]_vars
    PROVE  NoDoubleCharge' /\ OfPlans(billing)'
<1>0. /\ TypeOK /\ HandlersFit /\ NoDoubleCharge /\ OfPlans(billing) /\ CompletedIsPaid
      /\ billing \subseteq Sids /\ billing' \subseteq Sids
      /\ hooks \in [Handlers -> Delivery]
  <2>1. (billing \subseteq Sids)'
    BY TypesStep DEF IInv
  <2>2. QED
    BY <2>1 DEF IInv, TypeOK
<1>1. ASSUME NEW s \in billing', s \notin billing
      PROVE  sessions[s].kind = "SUBSCRIPTION" /\ sessions[s].status \in {"PENDING", "CLOSED"}
             /\ UNCHANGED sessions
  <2>1. \E amount \in {"full", "short"} : Pays(s, amount) /\ billing' # billing
    <3>1. vars' # vars
      BY <1>1 DEF vars
    <3>2. ASSUME NEW c \in Callers, CallerStep(c) PROVE FALSE
      BY <1>1, <3>2 DEF CallerStep, Quote, Open, dbVars
    <3>3. ASSUME NEW h \in Handlers, Handle(h) \/ CreditFails(h) \/ HandlerCrashes(h)
          PROVE  FALSE
      BY <1>1, <3>3 DEF Handle, CreditFails, HandlerCrashes, ApplyFail, ApplyTopUp,
           ActivateBegin, ActivateCommit, Retire, Credit, Answer, dbVars
    <3>4. ASSUME NEW t \in Sids, SessionStep(t)
          PROVE  \E amount \in {"full", "short"} : Pays(t, amount)
      BY <1>1, <3>4 DEF SessionStep, OpenTopUp, ProviderOpens, ProviderFails,
           CancelCheckout, ExpireStale, PageExpires, Deliver, dbVars
    <3>5. PICK t \in Sids : \E amount \in {"full", "short"} : Pays(t, amount)
      BY <3>1, <3>2, <3>3, <3>4 DEF Next
    <3>6. PICK amount \in {"full", "short"} : Pays(t, amount)
      BY <3>5
    <3>7. t = s
      BY <1>1, <3>6 DEF Pays
    <3>8. billing' # billing
      BY <1>1
    <3>9. QED
      BY <3>6, <3>7, <3>8
  <2>2. pay[s] = "open" /\ sessions[s].kind = "SUBSCRIPTION" /\ UNCHANGED sessions
    BY <2>1 DEF Pays, dbVars
  <2>3. s \in Sids /\ sessions[s].status # "NEW" /\ sessions[s].status # "COMPLETED"
    BY <1>0, <2>2 DEF TypeOK, CompletedIsPaid
  <2>4. QED
    BY <1>0, <2>2, <2>3 DEF TypeOK, Session, Statuses
<1>2. ASSUME NEW s \in billing, s \in billing'
      PROVE  /\ s \in Sids /\ sessions[s].status # "NEW" /\ sessions[s].kind = "SUBSCRIPTION"
             /\ sessions'[s].status # "NEW" /\ sessions'[s].kind = "SUBSCRIPTION"
             /\ sessions'[s].ws = sessions[s].ws
  BY <1>0, <1>2, SessionLife DEF OfPlans
<1>3. lost \subseteq lost'
  <2>1. CASE UNCHANGED vars
    BY <2>1 DEF vars
  <2>2. ASSUME NEW c \in Callers, CallerStep(c) PROVE UNCHANGED lost
    BY <2>2 DEF CallerStep, Quote, Open
  <2>3. ASSUME NEW s \in Sids, SessionStep(s) PROVE UNCHANGED lost
    BY <2>3 DEF SessionStep, OpenTopUp, ProviderOpens, ProviderFails, CancelCheckout,
         ExpireStale, PageExpires, Pays, Deliver
  <2>4. ASSUME NEW h \in Handlers, Handle(h) \/ CreditFails(h) \/ HandlerCrashes(h)
        PROVE  lost \subseteq lost'
    BY <2>4 DEF Handle, CreditFails, HandlerCrashes, ApplyFail, ApplyTopUp, ActivateBegin,
         ActivateCommit, Retire, Credit, Answer
  <2>5. QED
    BY <2>1, <2>2, <2>3, <2>4 DEF Next
<1> DEFINE Excused(s) == \/ sub[sessions[s].ws].current = s
                         \/ sessions[s].status \in {"PENDING", "CLOSED"}
                         \/ \E h \in Handlers : hooks[h].pc = "retire" /\ hooks[h].seen = s
                         \/ \E why \in {"overwritten", "kept"} : <<why, s>> \in lost
\* What a commit does to the workspace's subscription.
<1>4. ASSUME NEW h \in Handlers, ActivateCommit(h)
      PROVE  LET n == hooks[h].sid
                 w == sessions[n].ws
             IN  /\ n \in Sids /\ w \in Workspaces
                 /\ sub'[w].current = n
                 /\ \A v \in Workspaces : v # w => sub'[v] = sub[v]
                 /\ sub[w].current \in {None, n} \/ <<"overwritten", sub[w].current>> \in lost'
                      \/ (hooks'[h].pc = "retire" /\ hooks'[h].seen = sub[w].current)
  <2> DEFINE n == hooks[h].sid
             w == sessions[n].ws
  <2>1. hooks[h].pc = "activating" /\ n \in Sids /\ Pending(n)
    BY <1>0, <1>4, FlipEffect DEF ActivateCommit, HandlersFit
  <2>2. w \in Workspaces
    BY <1>0, <2>1 DEF TypeOK, Session, Pending
  <2>3. sub' = [sub EXCEPT ![w] = [plan |-> sessions[n].plan, current |-> n]]
    BY <1>4 DEF ActivateCommit
  <2>4. sub'[w].current = n /\ \A v \in Workspaces : v # w => sub'[v] = sub[v]
    BY <1>0, <2>2, <2>3 DEF TypeOK
  <2>5. sub[w].current \in {None, n} \/ <<"overwritten", sub[w].current>> \in lost'
          \/ sub[w].current = hooks[h].seen
    BY <1>4 DEF ActivateCommit
  <2>6. ASSUME sub[w].current = hooks[h].seen, sub[w].current \notin {None, n}
        PROVE  hooks'[h].pc = "retire" /\ hooks'[h].seen = sub[w].current
    <3>1. hooks' = [hooks EXCEPT ![h].pc = "retire"]
      BY <1>4, <2>6 DEF ActivateCommit, Replaces
    <3>2. QED
      BY <1>0, <2>1, <2>6, <3>1 DEF Delivery, Idle
  <2>7. QED
    BY <2>1, <2>2, <2>4, <2>5, <2>6
<1>5. ASSUME ~\E h \in Handlers : ActivateCommit(h) PROVE UNCHANGED sub
  <2>1. CASE UNCHANGED vars
    BY <2>1 DEF vars, dbVars
  <2>2. ASSUME NEW c \in Callers, CallerStep(c) PROVE UNCHANGED sub
    BY <2>2 DEF CallerStep, Quote, Open, dbVars
  <2>3. ASSUME NEW s \in Sids, SessionStep(s) PROVE UNCHANGED sub
    BY <2>3 DEF SessionStep, OpenTopUp, ProviderOpens, ProviderFails, CancelCheckout,
         ExpireStale, PageExpires, Pays, Deliver, dbVars
  <2>4. ASSUME NEW h \in Handlers, Handle(h) \/ CreditFails(h) \/ HandlerCrashes(h)
        PROVE  UNCHANGED sub
    <3>1. ~ActivateCommit(h)
      BY <1>5
    <3>2. QED
      BY <2>4, <3>1 DEF Handle, CreditFails, HandlerCrashes, ApplyFail, ApplyTopUp,
         ActivateBegin, Retire, Credit, Answer, dbVars
  <2>5. QED
    BY <2>1, <2>2, <2>3, <2>4 DEF Next
<1>6. ASSUME NEW s \in billing, s \in billing', Excused(s) PROVE Excused(s)'
  <2>0. s # None /\ sessions[s].ws \in Workspaces
    <3>1. s \in Sids /\ sessions[s].status # "NEW"
      BY <1>2, <1>6
    <3>2. s # None
      BY <3>1, NoneAssumption DEF Sids
    <3>3. sessions[s] \in Session
      BY <1>0, <3>1 DEF TypeOK
    <3>4. QED
      BY <3>1, <3>2, <3>3 DEF Session
  <2>1. CASE sub[sessions[s].ws].current = s
    <3>1. CASE \E h \in Handlers : ActivateCommit(h)
      <4>1. PICK h \in Handlers : ActivateCommit(h)
        BY <3>1
      <4> DEFINE w == sessions[hooks[h].sid].ws
      <4>2. CASE sessions[s].ws # w
        BY <1>2, <1>4, <1>6, <2>0, <2>1, <4>1, <4>2
      <4>3. CASE sessions[s].ws = w
        <5>1. hooks[h].sid = s \/ <<"overwritten", s>> \in lost'
                \/ (hooks'[h].pc = "retire" /\ hooks'[h].seen = s)
          BY <1>4, <2>0, <2>1, <4>1, <4>3
        <5>2. hooks[h].sid = s => sub'[sessions'[s].ws].current = s
          <6>1. sessions'[s].ws = w
            BY <1>2, <1>6, <4>3
          <6>2. sub'[w].current = hooks[h].sid
            BY <1>4, <4>1
          <6>3. QED
            BY <6>1, <6>2
        <5>3. QED
          BY <5>1, <5>2
      <4>4. QED
        BY <4>2, <4>3
    <3>2. CASE ~\E h \in Handlers : ActivateCommit(h)
      BY <1>2, <1>5, <1>6, <2>1, <3>2
    <3>3. QED
      BY <3>1, <3>2
  <2>2. CASE sessions[s].status \in {"PENDING", "CLOSED"}
    <3>1. CASE sessions'[s].status \in {"PENDING", "CLOSED"}
      BY <3>1
    <3>2. CASE sessions'[s].status \notin {"PENDING", "CLOSED"}
      <4>1. sessions[s].status = "PENDING" /\ ~Keeps(s) /\ ~Opens(s)
        BY <1>2, <1>6, <2>2, <3>2, SessionLife DEF Final, Keeps, Opens
      <4>2. ~Closes(s)
        <5>1. sessions[s] \in Session /\ s \in Sids
          BY <1>0, <1>2, <1>6 DEF TypeOK
        <5>2. Closes(s) => sessions'[s] = [sessions[s] EXCEPT !.status = "CLOSED"]
          BY DEF Closes, Ends
        <5>3. [sessions[s] EXCEPT !.status = "CLOSED"].status = "CLOSED"
          BY <4>1, <5>1, StatusChange DEF Statuses
        <5>4. QED
          BY <3>2, <5>2, <5>3
      <4>3. Completes(s)
        BY <1>2, <1>6, <4>1, <4>2, StepFollows DEF Followed
      <4>4. PICK h \in Handlers : hooks[h].sid = s /\ (ApplyTopUp(h) \/ ActivateCommit(h))
        BY <4>3 DEF Completes
      <4>5. ActivateCommit(h)
        BY <1>2, <1>6, <4>4 DEF ApplyTopUp
      <4>6. QED
        BY <1>2, <1>4, <1>6, <4>4, <4>5
    <3>3. QED
      BY <3>1, <3>2
  <2>3. ASSUME NEW h \in Handlers, hooks[h].pc = "retire", hooks[h].seen = s
        PROVE  Excused(s)'
    <3>1. CASE hooks'[h] = hooks[h]
      BY <2>3, <3>1
    <3>2. CASE hooks'[h] # hooks[h]
      <4>1. Retire(h) \/ HandlerCrashes(h)
        <5>2. hooks[h] # Idle
          BY <2>3 DEF Idle
        <5>4. ASSUME NEW g \in Handlers, Handle(g) \/ CreditFails(g) \/ HandlerCrashes(g)
              PROVE  Retire(h) \/ HandlerCrashes(h)
          <6>1. g = h
            BY <1>0, <3>2, <5>4 DEF Handle, CreditFails, HandlerCrashes, ApplyFail, ApplyTopUp,
               ActivateBegin, ActivateCommit, Retire, Answer, Credit, Goto, Rest
          <6>2. QED
            BY <2>3, <5>4, <6>1 DEF Handle, CreditFails, ApplyFail, ApplyTopUp,
               ActivateBegin, ActivateCommit, Answer, Credit
        <5>5. ASSUME NEW g \in Handlers, NEW t \in Sids, Deliver(g, t) PROVE FALSE
          BY <1>0, <3>2, <5>2, <5>5 DEF Deliver, Goto
        <5>6. QED
          BY <3>2, <5>4, <5>5 DEF Next, vars, CallerStep, SessionStep, Quote, Open, OpenTopUp,
             ProviderOpens, ProviderFails, CancelCheckout, ExpireStale, PageExpires, Pays
      <4>2. <<"kept", s>> \in lost'
        BY <1>6, <2>3, <4>1 DEF Retire, HandlerCrashes
      <4>3. QED
        BY <4>2
    <3>3. QED
      BY <3>1, <3>2
  <2>4. CASE \E why \in {"overwritten", "kept"} : <<why, s>> \in lost
    BY <1>3, <2>4
  <2>5. QED
    BY <1>6, <2>1, <2>2, <2>3, <2>4
<1>7. OfPlans(billing)'
  <2>1. ASSUME NEW s \in billing'
        PROVE  sessions'[s].status # "NEW" /\ sessions'[s].kind = "SUBSCRIPTION"
    BY <1>1, <1>2, <2>1
  <2>2. QED
    BY <2>1 DEF OfPlans
<1>8. NoDoubleCharge'
  <2>1. ASSUME NEW s \in billing' PROVE Excused(s)'
    <3>1. CASE s \notin billing
      BY <1>1, <2>1, <3>1
    <3>2. CASE s \in billing
      <4>1. Excused(s)
        BY <1>0, <3>2 DEF NoDoubleCharge
      <4>2. QED
        BY <1>6, <2>1, <3>2, <4>1
    <3>3. QED
      BY <3>1, <3>2
  <2>2. QED
    BY <2>1 DEF NoDoubleCharge
<1>9. QED
  BY <1>7, <1>8

----------------------------------------------------------------------------
(* The theorems                                                            *)

\* No session, no request and no delivery: the invariant holds.
LEMMA Initially == Init => IInv
<1> SUFFICES ASSUME Init PROVE IInv
  OBVIOUS
<1>1. \A s \in Sids : /\ sessions[s].status = "NEW" /\ slots[s] = Slot("NONE", None)
                      /\ credited[s] = 0 /\ pay[s] = "none"
  BY DEF Init
<1>2. \A h \in Handlers : hooks[h] = Idle /\ hooks[h].pc = "idle"
  BY DEF Init, Idle
<1>3. Locked = {} /\ Used = {} /\ \A u : UsedBy(u) = {}
  BY <1>1, <1>2 DEF Locked, Used, UsedBy, Slot
<1>4. TypeOK
  <2>1. /\ [status |-> "NEW"] \in Session /\ Slot("NONE", None) \in Slots
        /\ Idle \in Request /\ Idle \in Delivery
    BY DEF Session, Slots, Slot, Request, Delivery
  <2>2. QED
    BY <1>1, <1>3, <2>1, LimitsAssumption DEF Init, TypeOK, Payments, Slot
<1>5. SlotsAccounted
  <2>1. Cardinality(Used) = 0 /\ \A u : Cardinality(UsedBy(u)) = 0
    BY <1>3, FS_EmptySet
  <2>2. redeemed = 0 /\ MaxRedemptions \in Nat /\ PerUserLimit \in Nat
    BY LimitsAssumption DEF Init
  <2>3. QED
    BY <2>1, <2>2 DEF SlotsAccounted
<1>6. TakenInOrder /\ CompletedIsPaid /\ SlotFollowsCheckout /\ SlotsOfPlans
  BY <1>1 DEF TakenInOrder, CompletedIsPaid, SlotFollowsCheckout, SlotsOfPlans, OfPlans, Slot
<1>7. HandlersFit /\ OneActivation
  BY <1>2 DEF HandlersFit, OneActivation
<1>8. CreditedOnce /\ NoDoubleCharge /\ OfPlans(billing)
  BY <1>1 DEF Init, CreditedOnce, NoDoubleCharge, OfPlans
<1>9. QED
  BY <1>4, <1>5, <1>6, <1>7, <1>8 DEF IInv

\* Every step preserves the invariant.
LEMMA Inductive == IInv /\ [Next]_vars => IInv'
<1> SUFFICES ASSUME IInv, [Next]_vars PROVE IInv'
  OBVIOUS
<1>1. HandlersFit' /\ OneActivation'
  BY HandlersFitStep
<1>2. SlotsAccounted' /\ redeemed' \in Nat
  BY SlotsAccountedStep
<1>3. TypeOK'
  <2>1. Typed
    BY StepFollows
  <2>2. \A s \in Sids : sessions'[s].status = "NEW" => slots'[s].status = "NONE" /\ pay'[s] = "none"
    BY PaymentLife
  <2>3. (\A s \in Locked : Pending(s))'
    BY <1>1 DEF HandlersFit, Locked
  <2>4. TypeOK
    BY DEF IInv
  <2>5. QED
    BY <1>2, <2>1, <2>2, <2>3, <2>4, TypesStep DEF TypeOK, Typed
<1>4. TakenInOrder' /\ SlotFollowsCheckout' /\ SlotsOfPlans'
  BY SlotsFollow
<1>5. CreditedOnce' /\ CompletedIsPaid'
  BY CreditsStep
<1>6. NoDoubleCharge' /\ OfPlans(billing)'
  BY ChargesStep
<1>7. QED
  BY <1>1, <1>2, <1>3, <1>4, <1>5, <1>6 DEF IInv

LEMMA Invariance == Spec => []IInv
BY Initially, Inductive, PTL DEF Spec

\* Type correctness, with the state of what has no session yet and of what an
\* activation works on.
THEOREM TypeCorrect == Spec => []TypeOK
<1>1. IInv => TypeOK
  BY DEF IInv
<1>2. QED
  BY <1>1, Invariance, PTL

\* The coupon's counter counts the slots that are held, and neither its limit
\* nor a user's is passed, for any number of requests, webhooks and sessions
\* that reserve and return slots at once (PromotionService).
THEOREM CouponIsAccounted == Spec => []SlotsAccounted
<1>1. IInv => SlotsAccounted
  BY DEF IInv
<1>2. QED
  BY <1>1, Invariance, PTL

\* A slot is reserved exactly while its checkout is open, and applied exactly
\* when it was completed.
THEOREM SlotsFollowCheckouts == Spec => []SlotFollowsCheckout
<1>1. IInv => SlotFollowsCheckout
  BY DEF IInv
<1>2. QED
  BY <1>1, Invariance, PTL

\* However often and by however many handlers its event is processed, a
\* checkout is credited once at most, and only after a full payment.
THEOREM CreditsAreBookedOnce == Spec => []CreditedOnce
<1>1. IInv => CreditedOnce
  BY DEF IInv
<1>2. QED
  BY <1>1, Invariance, PTL

\* A provider subscription that charges is current, unapplied, about to be
\* cancelled, or recorded as left over: no other interleaving of requests and
\* handlers charges a customer for a plan that was replaced.
THEOREM NobodyIsChargedTwice == Spec => []NoDoubleCharge
<1>1. IInv => NoDoubleCharge
  BY DEF IInv
<1>2. QED
  BY <1>1, Invariance, PTL

\* No step changes the outcome of a checkout that was completed or closed.
THEOREM OutcomesAreFinal == Spec => OutcomeFinal
<1>1. IInv /\ [Next]_vars =>
        [\A s \in Sids : sessions[s].status \in Final =>
             sessions'[s].status = sessions[s].status]_vars
  BY SessionLife
<1>2. QED
  BY <1>1, Invariance, PTL DEF Spec, OutcomeFinal
=============================================================================
