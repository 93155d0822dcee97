-------------------------- MODULE SubscriptionProofs -------------------------
(***************************************************************************)
(* What holds of Subscription for any number of events, periods, plan      *)
(* changes, faults and handlers.                                           *)
(***************************************************************************)
EXTENDS Subscription, SequenceTheorems, TLAPS

----------------------------------------------------------------------------
(* The inductive invariant                                                 *)

\* The events are the history of the subscription at the provider: the last
\* one says what it is now, periods only grow, and nothing follows its end.
History ==
    /\ Len(events) >= 1
    /\ Last.period = provider.period
    /\ Last.status = provider.status
    /\ Last.cancel = provider.cancel
    /\ \A i \in DOMAIN events :
         /\ events[i].period >= 1
         /\ events[i].kind = "paid" => events[i].status = "ACTIVE"
         /\ events[i].kind = "failed" => events[i].status = "PAST_DUE"
         /\ events[i].kind = "deleted" <=> events[i].status = "ended"
         /\ events[i].status = "ended" => i = Len(events)
    /\ \A i, j \in DOMAIN events : i <= j => /\ events[i].period <= events[j].period
                                             /\ events[i].at <= events[j].at

\* What was past due is still to be paid, or was paid later.
Owed ==
    /\ provider.status = "PAST_DUE" => provider.unpaid
    /\ \A i \in DOMAIN events : events[i].status = "PAST_DUE" =>
         provider.unpaid \/ \E j \in DOMAIN events : j > i /\ events[j].kind = "paid"

\* Until the checkout is completed the provider only says again what it has,
\* and nobody finds the row.
Fresh ==
    /\ provider.status = "ACTIVE" /\ provider.period = 1
    /\ ~provider.unpaid /\ ~provider.cancel
    /\ row.plan = "free" /\ row.status = "ACTIVE" /\ row.eventAt = 0
    /\ row.scheduled = None /\ ~row.cancelAtEnd
    /\ upto = 0 /\ user = Idle /\ sweep.pc = "idle"

Known ==
    /\ ~row.known => Fresh
    /\ \A h \in Handlers :
         /\ handlers[h].pc = "read" =>
              /\ handlers[h].sub.known => row.known
              /\ events[handlers[h].event].kind = "paid" => handlers[h].sub.known
         /\ handlers[h].pc \in {"plan", "switch"} => row.known

\* The provider has done what a plan change asked of it, and not undone it.
Asked ==
    user.pc = "write" => /\ user.request = "free" => provider.cancel
                         /\ user.request = None => ~provider.cancel

\* A known workspace is only free because its subscription ended, and then it
\* stays free: nothing is scheduled.
Freed ==
    /\ row.plan = "free" => row.scheduled = None
    /\ row.known /\ row.plan = "free" => provider.status = "ended"

\* The row has only moved on from what a handler read; an event that did not
\* find the row yet is one that the completed checkout accounts for.
Reads ==
    \A h \in Handlers : handlers[h].pc = "read" =>
        /\ handlers[h].sub.eventAt <= row.eventAt
        /\ handlers[h].sub.period <= row.period
        /\ handlers[h].sub.known /\ ~handlers[h].sub.bound => row.plan = "free"
        /\ row.known /\ ~handlers[h].sub.known => handlers[h].event <= upto

\* The second the row keeps divides the events it accounts for from the rest,
\* but for those of that second.
Seconds ==
    \A i \in DOMAIN events : /\ i <= upto => events[i].at <= row.eventAt
                             /\ i > upto => events[i].at >= row.eventAt

\* An event whose effect on the row, if it has any, is written.
Handled(e) ==
    e \in done \/ \E h \in Handlers : /\ handlers[h].pc \in {"plan", "switch", "answer"}
                                      /\ handlers[h].event = e

\* A paid row is what the newest of the handled events says.
Applied ==
    row.plan # "free" =>
        /\ upto > 0 /\ row.status = events[upto].status
        /\ \A e \in DOMAIN events : Handled(e) => e <= upto
        /\ upto = Len(events) /\ Last.kind = "updated" => row.cancelAtEnd = provider.cancel

\* Its period too, except that invoice.payment_failed does not bring it along.
InPeriod ==
    IF upto = 0 THEN row.period <= 1
    ELSE /\ row.period <= events[upto].period
         /\ events[upto].kind \in {"paid", "updated"} => row.period = events[upto].period

\* A scheduled end is not due before the provider ends the subscription - or
\* it is just being withdrawn, and a handler that has read it acts too late.
NotDue ==
    /\ row.scheduled = "free" =>
         \/ provider.cancel /\ row.due >= provider.period
         \/ user.pc = "write" /\ user.request = None
    /\ \A h \in Handlers : handlers[h].pc = "switch" /\ handlers[h].plan = "free" =>
         handlers[h].due < provider.period

Swept == sweep.pc = "cancelled" => provider.status = "ended"

\* Row and provider, as long as reads and writes did not overlap.
Agrees ==
    ~excused => Freed /\ Reads /\ Seconds /\ Applied /\ InPeriod /\ NotDue /\ Swept

IInv == TypeOK /\ History /\ Owed /\ Known /\ Asked /\ Agrees

----------------------------------------------------------------------------
(* Lemmas about the operators of the model                                 *)

\* Where a handler is tells what it holds.
LEMMA Holds ==
    ASSUME TypeOK, NEW h \in Handlers
    PROVE  /\ handlers[h].pc # "idle" =>
                handlers[h] \in Delivery /\ handlers[h].event \in DOMAIN events
           /\ handlers[h].pc = "read" => handlers[h].sub \in View
           /\ handlers[h].pc = "switch" =>
                handlers[h].plan \in {"free", "lower"} /\ handlers[h].due \in Nat
<1>1. handlers[h] \in {Idle} \cup Delivery
  BY DEF TypeOK
<1>2. CASE handlers[h] = Idle
  BY <1>2 DEF Idle
<1>3. CASE handlers[h] \in Delivery /\ handlers[h] # Idle
  BY <1>3 DEF Delivery, TypeOK
<1>4. QED
  BY <1>1, <1>2, <1>3

\* A handler goes on to what it holds next.
LEMMA Goes ==
    ASSUME TypeOK, NEW h \in Handlers, NEW r \in {Idle} \cup Delivery, Go(h, r)
    PROVE  /\ handlers' \in [Handlers -> {Idle} \cup Delivery]
           /\ handlers'[h] = r
           /\ \A g \in Handlers : g # h => handlers'[g] = handlers[g]
BY DEF TypeOK, Go

LEMMA EventFields ==
    ASSUME NEW kind \in {"paid", "failed", "updated", "deleted"}, NEW p \in Provider,
           NEW at \in Nat
    PROVE  /\ Event(kind, p, at) \in EventType
           /\ Event(kind, p, at).kind = kind /\ Event(kind, p, at).period = p.period
           /\ Event(kind, p, at).status = p.status /\ Event(kind, p, at).cancel = p.cancel
           /\ Event(kind, p, at).at = at
BY DEF Event, EventType, Provider

\* The newest event, and the second that the next one is not before.
LEMMA Newest ==
    ASSUME TypeOK, History
    PROVE  /\ Len(events) \in DOMAIN events /\ Len(events) \in Nat
           /\ DOMAIN events = 1 .. Len(events)
           /\ \A i \in DOMAIN events : events[i].at \in Nat /\ events[i].period \in Nat
           /\ Last \in EventType /\ row.eventAt \in Nat
           /\ Second \in Nat /\ Second >= row.eventAt
           /\ \A i \in DOMAIN events : events[i].at <= Second
<1>1. /\ events \in Seq(EventType) /\ Len(events) \in Nat /\ DOMAIN events = 1 .. Len(events)
      /\ Len(events) >= 1 /\ row.eventAt \in Nat
  BY DEF TypeOK, History, Row
<1>2. \A i \in DOMAIN events : events[i] \in EventType
  BY <1>1
<1>3. \A i \in DOMAIN events : events[i].at \in Nat /\ events[i].period \in Nat
  BY <1>2 DEF EventType
<1>4. Last \in EventType /\ Last.at \in Nat /\ \A i \in DOMAIN events : events[i].at <= Last.at
  BY <1>1, <1>2, <1>3 DEF History, Last
<1>5. Second \in Nat /\ Second >= row.eventAt /\ Second >= Last.at
  BY <1>1, <1>4 DEF Second
<1>6. QED
  BY <1>1, <1>3, <1>4, <1>5

\* The provider changes and adds an event that says so.
LEMMA TurnsTo ==
    ASSUME TypeOK, History, NEW kind \in {"paid", "failed", "updated", "deleted"},
           NEW p \in Provider, Turns(kind, p)
    PROVE  /\ ~excused /\ provider' = p
           /\ events' \in Seq(EventType) /\ Len(events') = Len(events) + 1
           /\ DOMAIN events' = DOMAIN events \cup {Len(events')}
           /\ \A i \in DOMAIN events : events'[i] = events[i] /\ i < Len(events')
           /\ events'[Len(events')].kind = kind
           /\ events'[Len(events')].period = p.period
           /\ events'[Len(events')].status = p.status
           /\ events'[Len(events')].cancel = p.cancel
           /\ events'[Len(events')].at \in Nat
           /\ events'[Len(events')].at >= row.eventAt
           /\ \A i \in DOMAIN events : events[i].at <= events'[Len(events')].at
<1>1. /\ Second \in Nat /\ row.eventAt \in Nat /\ Second >= row.eventAt
      /\ \A i \in DOMAIN events : events[i].at \in Nat /\ events[i].at <= Second
  BY Newest
<1>2. PICK at \in {Second, Second + 1} :
        /\ ~excused /\ provider' = p /\ events' = Append(events, Event(kind, p, at))
  BY DEF Turns, Open
<1>3. at \in Nat /\ at >= row.eventAt /\ \A i \in DOMAIN events : events[i].at <= at
  BY <1>1
<1> DEFINE e == Event(kind, p, at)
<1>4. /\ e \in EventType /\ e.kind = kind /\ e.period = p.period
      /\ e.status = p.status /\ e.cancel = p.cancel /\ e.at = at
  BY <1>3, EventFields
<1> HIDE DEF e
<1>5. events \in Seq(EventType) /\ Len(events) \in Nat /\ DOMAIN events = 1 .. Len(events)
  BY DEF TypeOK
<1>6. /\ events' \in Seq(EventType) /\ Len(events') = Len(events) + 1
      /\ \A i \in 1 .. Len(events) : events'[i] = events[i]
      /\ events'[Len(events) + 1] = e
  BY <1>2, <1>4, <1>5, AppendProperties DEF e
<1>7. DOMAIN events' = 1 .. (Len(events) + 1)
  BY <1>6
<1>8. QED
  BY <1>2, <1>3, <1>4, <1>5, <1>6, <1>7

\* Such a change keeps the history, if it is one the provider makes ...
LEMMA TurnKeepsHistory ==
    ASSUME TypeOK, History, Owed,
           NEW kind \in {"paid", "failed", "updated", "deleted"},
           NEW p \in Provider, Turns(kind, p),
           provider.status # "ended", p.period >= provider.period,
           kind = "paid" => p.status = "ACTIVE",
           kind = "failed" => p.status = "PAST_DUE",
           kind = "deleted" <=> p.status = "ended",
           p.status = "PAST_DUE" => p.unpaid,
           provider.unpaid /\ ~p.unpaid => kind = "paid"
    PROVE  History' /\ Owed'
<1> DEFINE n == Len(events)
           m == Len(events')
<1>1. /\ provider' = p /\ m = n + 1
      /\ DOMAIN events' = DOMAIN events \cup {m}
      /\ \A i \in DOMAIN events : events'[i] = events[i] /\ i < m
      /\ events'[m].kind = kind /\ events'[m].period = p.period
      /\ events'[m].status = p.status /\ events'[m].cancel = p.cancel
      /\ events'[m].at \in Nat /\ \A i \in DOMAIN events : events[i].at <= events'[m].at
      /\ events' \in Seq(EventType)
  BY TurnsTo
<1>2. /\ n \in DOMAIN events /\ n \in Nat /\ DOMAIN events \subseteq Nat
      /\ \A i \in DOMAIN events : events[i].period \in Nat
  <2>1. events \in Seq(EventType) /\ n \in Nat /\ DOMAIN events = 1 .. n
    BY DEF TypeOK
  <2>2. \A i \in DOMAIN events : events[i] \in EventType
    BY <2>1
  <2>3. QED
    BY <2>1, <2>2 DEF History, EventType
<1>3. p.period \in Nat /\ provider.period \in Nat
  BY DEF TypeOK, Provider
<1> HIDE DEF m
<1>4. \A i \in DOMAIN events : events[i].period <= provider.period /\ events[i].status # "ended"
  BY <1>2, <1>3 DEF History, Last
<1>5. provider.period >= 1
  BY <1>2, <1>3 DEF History, Last
<1>6. \A i \in DOMAIN events' :
         /\ events'[i].period >= 1
         /\ events'[i].kind = "paid" => events'[i].status = "ACTIVE"
         /\ events'[i].kind = "failed" => events'[i].status = "PAST_DUE"
         /\ events'[i].kind = "deleted" <=> events'[i].status = "ended"
         /\ events'[i].status = "ended" => i = m
  <2> SUFFICES ASSUME NEW i \in DOMAIN events'
               PROVE  /\ events'[i].period >= 1
                      /\ events'[i].kind = "paid" => events'[i].status = "ACTIVE"
                      /\ events'[i].kind = "failed" => events'[i].status = "PAST_DUE"
                      /\ events'[i].kind = "deleted" <=> events'[i].status = "ended"
                      /\ events'[i].status = "ended" => i = m
    OBVIOUS
  <2>1. CASE i = m
    BY <1>1, <1>3, <1>5, <2>1
  <2>2. CASE i \in DOMAIN events
    BY <1>1, <1>4, <2>2 DEF History
  <2>3. QED
    BY <1>1, <2>1, <2>2
<1>7. \A i, j \in DOMAIN events' : i <= j => /\ events'[i].period <= events'[j].period
                                            /\ events'[i].at <= events'[j].at
  <2> SUFFICES ASSUME NEW i \in DOMAIN events', NEW j \in DOMAIN events', i <= j
               PROVE  events'[i].period <= events'[j].period /\ events'[i].at <= events'[j].at
    OBVIOUS
  <2>1. CASE i \in DOMAIN events /\ j \in DOMAIN events
    BY <1>1, <2>1 DEF History
  <2>2. CASE i \in DOMAIN events /\ j = m
    BY <1>1, <1>2, <1>3, <1>4, <2>2
  <2>3. CASE i = m
    <3>1. j = m
      BY <1>1, <1>2, <2>3
    <3>2. QED
      BY <1>1, <1>3, <2>3, <3>1
  <2>4. QED
    BY <1>1, <2>1, <2>2, <2>3
<1>8. History'
  BY <1>1, <1>2, <1>6, <1>7 DEF History, Last, m
<1>9. Owed'
  <2> SUFFICES ASSUME NEW i \in DOMAIN events', events'[i].status = "PAST_DUE", ~p.unpaid
               PROVE  \E j \in DOMAIN events' : j > i /\ events'[j].kind = "paid"
    BY <1>1 DEF Owed
  <2>1. i \in DOMAIN events
    BY <1>1
  <2>2. CASE provider.unpaid
    BY <1>1, <1>2, <2>1, <2>2
  <2>3. CASE ~provider.unpaid
    BY <1>1, <2>1, <2>3 DEF Owed
  <2>4. QED
    BY <2>2, <2>3
<1>10. QED
  BY <1>8, <1>9

\* ... and nothing from what the handlers have read ...
LEMMA TurnKeepsKnown ==
    ASSUME TypeOK, History, Known, NEW kind \in {"paid", "failed", "updated", "deleted"},
           NEW p \in Provider, Turns(kind, p), row' = row, handlers' = handlers,
           row.known \/ Fresh'
    PROVE  Known'
<1>1. \A i \in DOMAIN events : events'[i] = events[i]
  BY TurnsTo
<1>2. \A h \in Handlers : handlers[h].pc = "read" => handlers[h].event \in DOMAIN events
  BY Holds
<1>3. QED
  BY <1>1, <1>2 DEF Known

\* ... and takes nothing from what the row says of the events before it.
LEMMA TurnKeepsRow ==
    ASSUME IInv, NEW kind \in {"paid", "failed", "updated", "deleted"},
           NEW p \in Provider, Turns(kind, p), provider.status # "ended",
           p.period >= provider.period,
           row' = row, upto' = upto, done' = done, handlers' = handlers
    PROVE  /\ Freed' /\ Reads' /\ Seconds' /\ Applied' /\ InPeriod'
           /\ \A h \in Handlers : handlers'[h].pc = "switch" /\ handlers'[h].plan = "free" =>
                handlers'[h].due < provider'.period
<1> DEFINE m == Len(events')
<1>1. /\ ~excused /\ provider' = p /\ m = Len(events) + 1
      /\ DOMAIN events' = DOMAIN events \cup {m}
      /\ \A i \in DOMAIN events : events'[i] = events[i] /\ i < m
      /\ events'[m].at >= row.eventAt
  BY TurnsTo DEF IInv
<1>2. Freed /\ Reads /\ Seconds /\ Applied /\ InPeriod /\ NotDue
  BY <1>1 DEF IInv, Agrees
<1>3. /\ Len(events) \in Nat /\ DOMAIN events = 1 .. Len(events)
      /\ upto \in Nat /\ upto <= Len(events)
  BY DEF IInv, TypeOK
<1>4. Freed' /\ Reads' /\ Seconds'
  <2> HIDE DEF m
  <2>1. Freed' /\ Reads'
    BY <1>1, <1>2 DEF Freed, Reads
  <2>2. Seconds'
    BY <1>1, <1>2, <1>3 DEF Seconds
  <2>3. QED
    BY <2>1, <2>2
<1>5. Applied'
  <2>1. \A e : Handled(e)' <=> Handled(e)
    BY DEF Handled
  <2>2. \A e : Handled(e) => e \in DOMAIN events
    BY Holds DEF Handled, IInv, TypeOK
  <2>3. upto # m
    BY <1>1, <1>3
  <2> HIDE DEF m
  <2>4. upto > 0 => events'[upto] = events[upto]
    BY <1>1, <1>3
  <2>5. QED
    BY <1>2, <2>1, <2>2, <2>3, <2>4 DEF Applied, m
<1>6. InPeriod'
  BY <1>1, <1>2, <1>3 DEF InPeriod
<1>7. \A h \in Handlers : handlers[h].pc = "switch" /\ handlers[h].plan = "free" =>
         handlers[h].due < p.period
  <2>1. p.period \in Nat /\ provider.period \in Nat
    BY DEF IInv, TypeOK, Provider
  <2>2. \A h \in Handlers : handlers[h].pc = "switch" => handlers[h].due \in Nat
    BY Holds DEF IInv
  <2>3. QED
    BY <1>2, <2>1, <2>2 DEF NotDue
<1>8. QED
  BY <1>1, <1>4, <1>5, <1>6, <1>7

----------------------------------------------------------------------------
(* What the provider does                                                  *)

\* The parts of the invariant that such a step does not touch.
LEMMA TurnKeepsType ==
    ASSUME TypeOK, History, NEW kind \in {"paid", "failed", "updated", "deleted"},
           NEW p \in Provider, Turns(kind, p),
           row' = row, upto' = upto, done' = done, handlers' = handlers,
           user' \in {Idle} \cup [pc: {"write"}, request: Changes, period: Nat],
           sweep' \in [pc: {"idle", "listed", "cancelled"}],
           excused' \in BOOLEAN, excused => excused',
           requests' \in 0 .. MaxRequests, faults' \in 0 .. MaxFaults
    PROVE  TypeOK'
<1>1. /\ provider' \in Provider /\ events' \in Seq(EventType)
      /\ Len(events') = Len(events) + 1 /\ DOMAIN events \subseteq DOMAIN events'
  BY TurnsTo
<1>2. upto \in 0 .. Len(events) /\ Len(events) \in Nat
  BY DEF TypeOK
<1>3. QED
  BY <1>1, <1>2 DEF TypeOK

LEMMA RenewKeeps ==
    ASSUME IInv, Renew
    PROVE  IInv'
<1> DEFINE n == provider.period + 1
           p == [provider EXCEPT !.period = n, !.unpaid = TRUE]
<1>1. /\ row.known /\ provider.status = "ACTIVE" /\ ~provider.cancel /\ Turns("updated", p)
      /\ UNCHANGED <<done, row, upto, handlers, user, sweep, excused, requests, faults>>
  BY DEF Renew
<1>2. provider \in Provider /\ TypeOK /\ History
  BY DEF IInv, TypeOK
<1>3. /\ p \in Provider /\ p.period = provider.period + 1 /\ p.unpaid
      /\ p.status = "ACTIVE" /\ p.cancel = provider.cancel /\ provider.period \in Nat
  <2>1. provider.status = "ACTIVE" /\ provider.period \in Nat /\ n \in Nat
    BY <1>1, <1>2 DEF Provider
  <2> HIDE DEF n
  <2>2. /\ p \in Provider /\ p.period = n /\ p.unpaid = TRUE
        /\ p.status = provider.status /\ p.cancel = provider.cancel
    BY <1>2, <2>1 DEF Provider
  <2>3. QED
    BY <2>1, <2>2 DEF n
<1> HIDE DEF p
<1>4. provider' = p /\ ~excused
  BY <1>1, <1>2, <1>3, TurnsTo
<1>5. TypeOK'
  BY <1>1, <1>2, <1>3, TurnKeepsType DEF TypeOK
<1>6. History' /\ Owed'
  BY <1>1, <1>3, TurnKeepsHistory DEF IInv
<1>7. Known' /\ Asked'
  BY <1>1, <1>2, <1>3, <1>4, TurnKeepsKnown DEF IInv, Asked
<1>8. /\ Freed' /\ Reads' /\ Seconds' /\ Applied' /\ InPeriod'
      /\ \A h \in Handlers : handlers'[h].pc = "switch" /\ handlers'[h].plan = "free" =>
           handlers'[h].due < provider'.period
  BY <1>1, <1>3, TurnKeepsRow
<1>9. NotDue' /\ Swept'
  BY <1>1, <1>4, <1>8 DEF IInv, Agrees, NotDue, Swept
<1>10. QED
  BY <1>5, <1>6, <1>7, <1>8, <1>9 DEF IInv, Agrees

LEMMA ExpireKeeps ==
    ASSUME IInv, Expire
    PROVE  IInv'
<1> DEFINE p == [provider EXCEPT !.status = "ended"]
<1>1. /\ row.known /\ provider.status # "ended" /\ provider.cancel /\ Turns("deleted", p)
      /\ UNCHANGED <<done, row, upto, handlers, user, sweep, excused, requests, faults>>
  BY DEF Expire
<1>2. provider \in Provider /\ TypeOK /\ History
  BY DEF IInv, TypeOK
<1>3. /\ p \in Provider /\ p.period = provider.period /\ p.unpaid = provider.unpaid
      /\ p.status = "ended" /\ p.cancel = provider.cancel /\ provider.period \in Nat
  BY <1>1, <1>2 DEF Provider, Status
<1> HIDE DEF p
<1>4. provider' = p /\ ~excused
  BY <1>1, <1>2, <1>3, TurnsTo
<1>5. TypeOK'
  BY <1>1, <1>2, <1>3, TurnKeepsType DEF TypeOK
<1>6. History' /\ Owed'
  BY <1>1, <1>3, TurnKeepsHistory DEF IInv
<1>7. Known' /\ Asked'
  BY <1>1, <1>2, <1>3, <1>4, TurnKeepsKnown DEF IInv, Asked
<1>8. /\ Freed' /\ Reads' /\ Seconds' /\ Applied' /\ InPeriod'
      /\ \A h \in Handlers : handlers'[h].pc = "switch" /\ handlers'[h].plan = "free" =>
           handlers'[h].due < provider'.period
  BY <1>1, <1>3, TurnKeepsRow
<1>9. NotDue' /\ Swept'
  BY <1>1, <1>3, <1>4, <1>8 DEF IInv, Agrees, NotDue, Swept
<1>10. QED
  BY <1>5, <1>6, <1>7, <1>8, <1>9 DEF IInv, Agrees

LEMMA CollectKeeps ==
    ASSUME IInv, Collect
    PROVE  IInv'
<1>1. /\ provider.unpaid /\ provider.status # "ended"
      /\ UNCHANGED <<done, row, upto, handlers, user, sweep, excused, requests, faults>>
  BY DEF Collect
<1>2. provider \in Provider /\ TypeOK /\ History
  BY DEF IInv, TypeOK
<1>3. PICK kind \in {"paid", "failed"}, p \in Provider :
        /\ Turns(kind, p) /\ p.period = provider.period /\ p.cancel = provider.cancel
        /\ p.status = IF kind = "paid" THEN "ACTIVE" ELSE "PAST_DUE"
        /\ p.unpaid = (kind = "failed")
  <2>1. CASE Turns("paid", [provider EXCEPT !.unpaid = FALSE, !.status = "ACTIVE"])
    <3> DEFINE p == [provider EXCEPT !.unpaid = FALSE, !.status = "ACTIVE"]
    <3>1. /\ p \in Provider /\ p.period = provider.period /\ p.cancel = provider.cancel
          /\ p.status = "ACTIVE" /\ p.unpaid = FALSE
      BY <1>2 DEF Provider, Status
    <3> HIDE DEF p
    <3>2. QED
      BY <2>1, <3>1 DEF p
  <2>2. CASE Turns("failed", [provider EXCEPT !.status = "PAST_DUE"])
    <3> DEFINE p == [provider EXCEPT !.status = "PAST_DUE"]
    <3>1. /\ p \in Provider /\ p.period = provider.period /\ p.cancel = provider.cancel
          /\ p.status = "PAST_DUE" /\ p.unpaid = TRUE
      BY <1>1, <1>2 DEF Provider, Status
    <3> HIDE DEF p
    <3>2. QED
      BY <2>2, <3>1 DEF p
  <2>3. QED
    BY <2>1, <2>2 DEF Collect
<1>4. provider' = p /\ ~excused
  BY <1>2, <1>3, TurnsTo
<1>5. TypeOK'
  BY <1>1, <1>2, <1>3, TurnKeepsType DEF TypeOK
<1>6. p.period >= provider.period
  BY <1>2, <1>3 DEF Provider
<1>7. History' /\ Owed'
  BY <1>1, <1>3, <1>6, TurnKeepsHistory DEF IInv
<1>8. Known' /\ Asked'
  <2>1. row.known
    BY <1>1 DEF IInv, Known, Fresh
  <2>2. QED
    BY <1>1, <1>2, <1>3, <1>4, <2>1, TurnKeepsKnown DEF IInv, Asked
<1>9. /\ Freed' /\ Reads' /\ Seconds' /\ Applied' /\ InPeriod'
      /\ \A h \in Handlers : handlers'[h].pc = "switch" /\ handlers'[h].plan = "free" =>
           handlers'[h].due < provider'.period
  BY <1>1, <1>3, <1>6, TurnKeepsRow
<1>10. NotDue' /\ Swept'
  BY <1>1, <1>3, <1>4, <1>9 DEF IInv, Agrees, NotDue, Swept
<1>11. QED
  BY <1>5, <1>7, <1>8, <1>9, <1>10 DEF IInv, Agrees

LEMMA AnnounceKeeps ==
    ASSUME IInv, Announce
    PROVE  IInv'
<1>1. /\ provider.status # "ended" /\ Turns("updated", provider)
      /\ UNCHANGED <<done, row, upto, handlers, user, sweep, excused, requests, faults>>
  BY DEF Announce
<1>2. provider \in Provider /\ TypeOK /\ History /\ provider.period \in Nat
  BY DEF IInv, TypeOK, Provider
<1>3. provider' = provider /\ ~excused
  BY <1>1, <1>2, TurnsTo
<1>4. TypeOK'
  BY <1>1, <1>2, TurnKeepsType DEF TypeOK
<1>5. History' /\ Owed'
  BY <1>1, <1>2, TurnKeepsHistory DEF IInv, Owed
<1>6. Known' /\ Asked'
  <2>1. row.known \/ Fresh'
    BY <1>1, <1>3 DEF IInv, Known, Fresh
  <2>2. QED
    BY <1>1, <1>2, <1>3, <2>1, TurnKeepsKnown DEF IInv, Asked
<1>7. /\ Freed' /\ Reads' /\ Seconds' /\ Applied' /\ InPeriod'
      /\ \A h \in Handlers : handlers'[h].pc = "switch" /\ handlers'[h].plan = "free" =>
           handlers'[h].due < provider'.period
  BY <1>1, <1>2, TurnKeepsRow
<1>8. NotDue' /\ Swept'
  BY <1>1, <1>3, <1>7 DEF IInv, Agrees, NotDue, Swept
<1>9. QED
  BY <1>4, <1>5, <1>6, <1>7, <1>8 DEF IInv, Agrees

\* The checkout is completed: it accounts for all events so far.
LEMMA ActivateKeeps ==
    ASSUME IInv, Activate
    PROVE  IInv'
<1> DEFINE n == Len(events)
<1>1. TypeOK /\ History /\ Known /\ Fresh /\ row \in Row /\ ~row.known
  BY DEF IInv, Known, Activate, TypeOK
<1>2. /\ n \in DOMAIN events /\ n \in Nat /\ DOMAIN events = 1 .. n
      /\ \A i \in DOMAIN events : events[i].at \in Nat /\ events[i].period \in Nat
      /\ Last \in EventType
  BY <1>1, Newest
<1>3. Last.at \in Nat /\ \A i \in DOMAIN events : events[i].at <= Last.at
  BY <1>1, <1>2 DEF History, Last
<1>4. PICK at \in {Last.at, Last.at + 1} :
        row' = [row EXCEPT !.known = TRUE, !.bound = TRUE, !.plan = "paid", !.period = 1,
                           !.eventAt = at]
  BY DEF Activate
<1>5. /\ upto' = n
      /\ UNCHANGED <<provider, events, done, handlers, user, sweep, excused, requests, faults>>
  BY DEF Activate
<1>6. at \in Nat /\ \A i \in DOMAIN events : events[i].at <= at
  BY <1>2, <1>3
<1>7. /\ row' \in Row /\ row'.known = TRUE /\ row'.bound = TRUE /\ row'.plan = "paid"
      /\ row'.period = 1 /\ row'.eventAt = at /\ row'.status = row.status
      /\ row'.scheduled = row.scheduled /\ row'.cancelAtEnd = row.cancelAtEnd
  BY <1>1, <1>4, <1>6 DEF Row, Plans
<1>8. TypeOK'
  BY <1>1, <1>2, <1>5, <1>7 DEF TypeOK
<1>9. History' /\ Owed' /\ Known' /\ Asked'
  BY <1>1, <1>5, <1>7 DEF IInv, History, Last, Owed, Known, Asked
<1>10. ASSUME ~excused'
       PROVE  Freed' /\ Reads' /\ Seconds' /\ Applied' /\ InPeriod' /\ Swept' /\ NotDue'
  <2>1. Reads /\ InPeriod /\ NotDue
    BY <1>5, <1>10 DEF IInv, Agrees
  <2>2. Freed' /\ Swept'
    BY <1>1, <1>5, <1>7 DEF Freed, Swept, Fresh
  <2>3. Reads'
    <3>1. \A h \in Handlers : handlers[h].pc = "read" =>
            /\ handlers[h].sub \in View /\ handlers[h].event \in DOMAIN events
            /\ ~handlers[h].sub.known
      BY <1>1, Holds DEF Known
    <3>2. row.eventAt = 0 /\ row.period \in Nat /\ row.period <= 1
      BY <1>1, <2>1 DEF Fresh, InPeriod, Row
    <3> HIDE DEF n
    <3>3. QED
      BY <1>2, <1>5, <1>6, <1>7, <2>1, <3>1, <3>2 DEF Reads, View
  <2>4. Seconds'
    BY <1>2, <1>5, <1>6, <1>7 DEF Seconds
  <2>5. InPeriod'
    <3>1. Last.period = 1
      BY <1>1 DEF History, Fresh
    <3>2. QED
      BY <1>2, <1>5, <1>7, <3>1 DEF InPeriod, Last
  <2>6. NotDue'
    BY <1>1, <1>5, <1>7, <2>1, NoneAssumption DEF NotDue, Fresh
  <2>7. Applied'
    <3>1. \A e \in DOMAIN events : e <= n
      BY <1>2
    <3>2. Last.status = "ACTIVE"
      BY <1>1 DEF History, Fresh
    <3>3. row.status = "ACTIVE" /\ ~row.cancelAtEnd /\ ~provider.cancel
      BY <1>1 DEF Fresh
    <3>4. row'.cancelAtEnd = provider.cancel
      BY <1>1, <1>7, <3>3 DEF TypeOK, Provider, Row
    <3>5. QED
      BY <1>2, <1>5, <1>7, <3>1, <3>2, <3>3, <3>4 DEF Applied, Last
  <2>8. QED
    BY <2>2, <2>3, <2>4, <2>5, <2>6, <2>7
<1>11. QED
  BY <1>8, <1>9, <1>10 DEF IInv, Agrees

----------------------------------------------------------------------------
(* What people do                                                          *)

\* A plan change begins on a workspace that is known.
LEMMA AsksOfKnown ==
    ASSUME IInv, NEW request \in Changes, Ask(request)
    PROVE  /\ ~excused /\ row.known /\ user = Idle
           /\ user' = [pc |-> "write", request |-> request, period |-> row.period]
           /\ user' \in [pc: {"write"}, request: Changes, period: Nat]
           /\ requests' \in 0 .. MaxRequests
           /\ UNCHANGED <<done, row, upto, handlers, sweep, excused, faults>>
<1>1. requests' \in 0 .. MaxRequests
  BY BoundsAssumption DEF Ask, IInv, TypeOK
<1>2. row.known
  BY DEF Ask, IInv, Known, Fresh
<1>3. row.period \in Nat
  BY DEF IInv, TypeOK, Row
<1>4. QED
  BY <1>1, <1>2, <1>3 DEF Ask, Open

LEMMA AskCancelKeeps ==
    ASSUME IInv, AskCancel
    PROVE  IInv'
<1> DEFINE p == [provider EXCEPT !.cancel = TRUE]
<1>1. provider.status # "ended" /\ Turns("updated", p)
  BY DEF AskCancel
<1>2. /\ ~excused /\ row.known /\ user = Idle
      /\ user' = [pc |-> "write", request |-> "free", period |-> row.period]
      /\ user' \in [pc: {"write"}, request: Changes, period: Nat]
      /\ requests' \in 0 .. MaxRequests
      /\ UNCHANGED <<done, row, upto, handlers, sweep, excused, faults>>
  BY AsksOfKnown DEF AskCancel, Changes
<1>3. provider \in Provider /\ TypeOK /\ History
  BY DEF IInv, TypeOK
<1>4. /\ p \in Provider /\ p.period = provider.period /\ p.unpaid = provider.unpaid
      /\ p.status = provider.status /\ p.cancel = TRUE /\ provider.period \in Nat
  BY <1>3 DEF Provider
<1> HIDE DEF p
<1>5. provider' = p
  BY <1>1, <1>3, <1>4, TurnsTo
<1>6. TypeOK'
  BY <1>1, <1>2, <1>3, <1>4, TurnKeepsType DEF TypeOK
<1>7. History' /\ Owed'
  BY <1>1, <1>3, <1>4, TurnKeepsHistory DEF IInv, Owed
<1>8. Known' /\ Asked'
  BY <1>1, <1>2, <1>3, <1>4, <1>5, TurnKeepsKnown, NoneAssumption DEF IInv, Asked
<1>9. /\ Freed' /\ Reads' /\ Seconds' /\ Applied' /\ InPeriod'
      /\ \A h \in Handlers : handlers'[h].pc = "switch" /\ handlers'[h].plan = "free" =>
           handlers'[h].due < provider'.period
  BY <1>1, <1>2, <1>4, TurnKeepsRow
<1>10. NotDue' /\ Swept'
  BY <1>2, <1>4, <1>5, <1>9 DEF IInv, Agrees, NotDue, Swept, Idle
<1>11. QED
  BY <1>6, <1>7, <1>8, <1>9, <1>10 DEF IInv, Agrees

LEMMA AskReactivateKeeps ==
    ASSUME IInv, AskReactivate
    PROVE  IInv'
<1> DEFINE p == [provider EXCEPT !.cancel = FALSE]
<1>1. provider.status # "ended" /\ Turns("updated", p)
  BY DEF AskReactivate
<1>2. /\ ~excused /\ row.known /\ user = Idle
      /\ user' = [pc |-> "write", request |-> None, period |-> row.period]
      /\ user' \in [pc: {"write"}, request: Changes, period: Nat]
      /\ requests' \in 0 .. MaxRequests
      /\ UNCHANGED <<done, row, upto, handlers, sweep, excused, faults>>
  BY AsksOfKnown DEF AskReactivate, Changes
<1>3. provider \in Provider /\ TypeOK /\ History
  BY DEF IInv, TypeOK
<1>4. /\ p \in Provider /\ p.period = provider.period /\ p.unpaid = provider.unpaid
      /\ p.status = provider.status /\ p.cancel = FALSE /\ provider.period \in Nat
  BY <1>3 DEF Provider
<1> HIDE DEF p
<1>5. provider' = p
  BY <1>1, <1>3, <1>4, TurnsTo
<1>6. TypeOK'
  BY <1>1, <1>2, <1>3, <1>4, TurnKeepsType DEF TypeOK
<1>7. History' /\ Owed'
  BY <1>1, <1>3, <1>4, TurnKeepsHistory DEF IInv, Owed
<1>8. Known' /\ Asked'
  BY <1>1, <1>2, <1>3, <1>4, <1>5, TurnKeepsKnown, NoneAssumption DEF IInv, Asked
<1>9. /\ Freed' /\ Reads' /\ Seconds' /\ Applied' /\ InPeriod'
      /\ \A h \in Handlers : handlers'[h].pc = "switch" /\ handlers'[h].plan = "free" =>
           handlers'[h].due < provider'.period
  BY <1>1, <1>2, <1>4, TurnKeepsRow
<1>10. NotDue' /\ Swept'
  BY <1>2, <1>4, <1>5, <1>9 DEF IInv, Agrees, NotDue, Swept
<1>11. QED
  BY <1>6, <1>7, <1>8, <1>9, <1>10 DEF IInv, Agrees

LEMMA AskDowngradeKeeps ==
    ASSUME IInv, AskDowngrade
    PROVE  IInv'
<1>1. /\ row.known /\ user = Idle
      /\ user' = [pc |-> "write", request |-> "lower", period |-> row.period]
      /\ user' \in [pc: {"write"}, request: Changes, period: Nat]
      /\ requests' \in 0 .. MaxRequests
      /\ UNCHANGED <<done, row, upto, handlers, sweep, excused, faults>>
      /\ UNCHANGED <<provider, events>>
  BY AsksOfKnown DEF AskDowngrade, Changes
<1>2. TypeOK'
  BY <1>1 DEF IInv, TypeOK
<1>3. History' /\ Owed' /\ Known' /\ Asked'
  BY <1>1, NoneAssumption DEF IInv, History, Last, Owed, Known, Asked
<1>4. ASSUME ~excused' PROVE Freed' /\ Reads' /\ Seconds' /\ Applied' /\ InPeriod' /\ Swept' /\ NotDue'
  BY <1>1, <1>4 DEF IInv, Agrees, Freed, Reads, Seconds, Applied, Last, Handled, InPeriod, Swept, NotDue,
     Idle
<1>5. QED
  BY <1>2, <1>3, <1>4 DEF IInv, Agrees

LEMMA ScheduleKeeps ==
    ASSUME IInv, Schedule
    PROVE  IInv'
<1> DEFINE due == IF user.request = None THEN 0 ELSE user.period
           ends == IF user.request = "lower" THEN row.cancelAtEnd ELSE user.request = "free"
           r == [row EXCEPT !.scheduled = user.request, !.due = due, !.cancelAtEnd = ends]
<1>1. /\ user.pc = "write" /\ row' = r /\ user' = Idle
      /\ UNCHANGED <<provider, events, done, upto, handlers, sweep, requests, faults>>
      /\ excused' = (excused \/ (row.plan = "free" \/ row.period # user.period
                                   \/ provider.period # user.period))
  BY DEF Schedule, Excuse
<1>2. TypeOK /\ user \in [pc: {"write"}, request: Changes, period: Nat]
  BY <1>1 DEF IInv, TypeOK, Idle
<1>3. due \in Nat /\ ends \in BOOLEAN /\ user.request \in Changes
  BY <1>2 DEF TypeOK, Row
<1> HIDE DEF due, ends
<1>4. /\ r \in Row /\ r.known = row.known /\ r.bound = row.bound /\ r.plan = row.plan
      /\ r.period = row.period /\ r.status = row.status /\ r.eventAt = row.eventAt
      /\ r.scheduled = user.request /\ r.due = due /\ r.cancelAtEnd = ends
  BY <1>2, <1>3 DEF TypeOK, Row
<1> HIDE DEF r
<1>5. row.known
  BY <1>1 DEF IInv, Known, Fresh, Idle
<1>6. excused' \in BOOLEAN /\ (~excused' => ~excused)
  BY <1>1, <1>2 DEF TypeOK
<1>7. TypeOK'
  BY <1>1, <1>2, <1>4, <1>6 DEF TypeOK
<1>8. History' /\ Owed' /\ Known' /\ Asked'
  BY <1>1, <1>4, <1>5 DEF IInv, History, Last, Owed, Known, Asked, Idle
<1>9. ASSUME ~excused' PROVE Freed' /\ Reads' /\ Seconds' /\ Applied' /\ InPeriod' /\ Swept' /\ NotDue'
  <2>1. /\ ~excused /\ row.plan # "free" /\ provider.period = user.period
        /\ Freed /\ Reads /\ Seconds /\ Applied /\ InPeriod /\ Swept /\ NotDue
    BY <1>1, <1>6, <1>9 DEF IInv, Agrees
  <2>2. Freed' /\ Reads' /\ Seconds' /\ InPeriod' /\ Swept'
    BY <1>1, <1>4, <2>1 DEF Freed, Reads, Seconds, InPeriod, Swept
  <2>3. NotDue'
    <3>1. user.request = "free" => provider.cancel /\ due = provider.period
      BY <1>1, <2>1, NoneAssumption DEF IInv, Asked, due
    <3>2. provider.period \in Nat
      BY <1>2 DEF TypeOK, Provider
    <3>3. QED
      BY <1>1, <1>4, <2>1, <3>1, <3>2 DEF NotDue
  <2>4. Applied'
    <3>1. ends = IF user.request = "lower" THEN row.cancelAtEnd ELSE provider.cancel
      BY <1>1, <1>2, NoneAssumption DEF IInv, Asked, Changes, TypeOK, Provider, ends
    <3>2. \A e : Handled(e)' <=> Handled(e)
      BY <1>1 DEF Handled
    <3>3. QED
      BY <1>1, <1>4, <2>1, <3>1, <3>2 DEF Applied, Last
  <2>5. QED
    BY <2>2, <2>3, <2>4
<1>10. QED
  BY <1>7, <1>8, <1>9 DEF IInv, Agrees

LEMMA ScheduleFailsKeeps ==
    ASSUME IInv, ScheduleFails
    PROVE  IInv'
<1>1. /\ user # Idle /\ user' = Idle
      /\ excused' = (excused \/ user.request = None)
      /\ UNCHANGED <<provider, events, done, row, upto, handlers, sweep, requests, faults>>
  BY DEF ScheduleFails, Excuse
<1>2. TypeOK'
  BY <1>1 DEF IInv, TypeOK
<1>3. History' /\ Owed' /\ Known' /\ Asked'
  BY <1>1 DEF IInv, History, Last, Owed, Known, Fresh, Asked, Idle
<1>4. ASSUME ~excused' PROVE Freed' /\ Reads' /\ Seconds' /\ Applied' /\ InPeriod' /\ Swept' /\ NotDue'
  BY <1>1, <1>4 DEF IInv, Agrees, Freed, Reads, Seconds, Applied, Last, Handled, InPeriod, Swept, NotDue
<1>5. QED
  BY <1>2, <1>3, <1>4 DEF IInv, Agrees

----------------------------------------------------------------------------
(* The grace period                                                        *)

\* What downgradeToFree leaves of a row.
LEMMA FreeRow ==
    ASSUME NEW r \in Row
    PROVE  /\ Free(r) \in Row /\ Free(r).plan = "free" /\ Free(r).scheduled = None
           /\ Free(r).known = r.known /\ Free(r).period = r.period
           /\ Free(r).eventAt = r.eventAt
BY DEF Free, Row, Plans, Status, Changes

LEMMA SweepListsKeeps ==
    ASSUME IInv, SweepLists
    PROVE  IInv'
<1>1. /\ sweep' = [pc |-> "listed"] /\ row.plan # "free"
      /\ UNCHANGED <<provider, events, done, row, upto, handlers, user, excused, requests, faults>>
  BY DEF SweepLists, Overdue
<1>2. TypeOK'
  BY <1>1 DEF IInv, TypeOK
<1>3. History' /\ Owed' /\ Known' /\ Asked'
  BY <1>1 DEF IInv, History, Last, Owed, Known, Fresh, Asked
<1>4. ASSUME ~excused' PROVE Freed' /\ Reads' /\ Seconds' /\ Applied' /\ InPeriod' /\ Swept' /\ NotDue'
  BY <1>1, <1>4 DEF IInv, Agrees, Freed, Reads, Seconds, Applied, Last, Handled, InPeriod, Swept, NotDue
<1>5. QED
  BY <1>2, <1>3, <1>4 DEF IInv, Agrees

LEMMA SweepCancelsKeeps ==
    ASSUME IInv, SweepCancels
    PROVE  IInv'
<1> DEFINE p == [provider EXCEPT !.status = "ended"]
<1>1. /\ sweep.pc = "listed" /\ sweep' = [pc |-> "cancelled"]
      /\ UNCHANGED <<done, row, upto, handlers, user, requests>>
  BY DEF SweepCancels
<1>2. TypeOK /\ History /\ provider \in Provider /\ row.known
  BY <1>1 DEF IInv, TypeOK, Known, Fresh
<1>3. /\ p \in Provider /\ p.period = provider.period /\ p.unpaid = provider.unpaid
      /\ p.status = "ended" /\ p.cancel = provider.cancel /\ provider.period \in Nat
  BY <1>2 DEF Provider
<1> HIDE DEF p
<1>4. CASE /\ provider.status # "ended" /\ Turns("deleted", p)
           /\ Excuse(~Overdue) /\ UNCHANGED faults
  <2>1. provider' = p /\ ~excused
    BY <1>2, <1>3, <1>4, TurnsTo
  <2>2. excused' \in BOOLEAN
    BY <1>4 DEF Excuse
  <2>3. TypeOK'
    BY <1>1, <1>2, <1>3, <1>4, <2>1, <2>2, TurnKeepsType DEF TypeOK
  <2>4. History' /\ Owed'
    BY <1>3, <1>4, TurnKeepsHistory DEF IInv
  <2>5. Known' /\ Asked'
    BY <1>1, <1>2, <1>3, <1>4, <2>1, TurnKeepsKnown DEF IInv, Asked
  <2>6. /\ Freed' /\ Reads' /\ Seconds' /\ Applied' /\ InPeriod'
        /\ \A h \in Handlers : handlers'[h].pc = "switch" /\ handlers'[h].plan = "free" =>
             handlers'[h].due < provider'.period
    BY <1>1, <1>3, <1>4, TurnKeepsRow
  <2>7. NotDue' /\ Swept'
    BY <1>1, <1>3, <2>1, <2>6 DEF IInv, Agrees, NotDue, Swept
  <2>8. QED
    BY <2>3, <2>4, <2>5, <2>6, <2>7 DEF IInv, Agrees
<1>5. ASSUME UNCHANGED <<provider, events>>, excused' \in BOOLEAN, excused => excused',
             excused' \/ provider.status = "ended", faults' \in 0 .. MaxFaults
      PROVE  IInv'
  <2>1. TypeOK'
    BY <1>1, <1>2, <1>5 DEF TypeOK
  <2>2. History' /\ Owed' /\ Known' /\ Asked'
    BY <1>1, <1>2, <1>5 DEF IInv, History, Last, Owed, Known, Asked
  <2>3. ASSUME ~excused' PROVE Freed' /\ Reads' /\ Seconds' /\ Applied' /\ InPeriod' /\ Swept' /\ NotDue'
    BY <1>1, <1>5, <2>3 DEF IInv, Agrees, Freed, Reads, Seconds, Applied, Last, Handled, InPeriod,
       Swept, NotDue
  <2>4. QED
    BY <2>1, <2>2, <2>3 DEF IInv, Agrees
<1>6. CASE provider.status = "ended" /\ UNCHANGED <<provider, events, excused, faults>>
  BY <1>2, <1>5, <1>6 DEF TypeOK
<1>7. CASE Fault /\ excused' = TRUE /\ UNCHANGED <<provider, events>>
  <2>1. faults' \in 0 .. MaxFaults
    BY <1>2, <1>7, BoundsAssumption DEF Fault, TypeOK
  <2>2. QED
    BY <1>5, <1>7, <2>1
<1>8. QED
  BY <1>4, <1>6, <1>7 DEF SweepCancels, p

LEMMA SweepDropsKeeps ==
    ASSUME IInv, SweepDrops
    PROVE  IInv'
<1>1. /\ sweep.pc = "cancelled" /\ row' = Free(row) /\ sweep' = Idle
      /\ UNCHANGED <<provider, events, done, upto, handlers, user, excused, requests, faults>>
  BY DEF SweepDrops
<1>2. TypeOK /\ row.known
  BY <1>1 DEF IInv, Known, Fresh
<1>3. /\ row' \in Row /\ row'.plan = "free" /\ row'.scheduled = None
      /\ row'.known = row.known /\ row'.period = row.period /\ row'.eventAt = row.eventAt
  BY <1>1, <1>2, FreeRow DEF TypeOK
<1>4. TypeOK'
  BY <1>1, <1>2, <1>3 DEF TypeOK, Idle
<1>5. History' /\ Owed' /\ Known' /\ Asked'
  BY <1>1, <1>2, <1>3 DEF IInv, History, Last, Owed, Known, Asked
<1>6. ASSUME ~excused' PROVE Freed' /\ Reads' /\ Seconds' /\ Applied' /\ InPeriod' /\ Swept' /\ NotDue'
  <2>1. /\ ~excused /\ Swept /\ Reads /\ Seconds /\ InPeriod /\ NotDue
    BY <1>1, <1>6 DEF IInv, Agrees
  <2>2. Freed' /\ Reads' /\ Seconds' /\ Applied' /\ InPeriod'
    BY <1>1, <1>3, <2>1 DEF Freed, Reads, Seconds, Applied, InPeriod, Swept
  <2>3. Swept' /\ NotDue'
    BY <1>1, <1>3, <2>1, NoneAssumption DEF Swept, NotDue, Idle
  <2>4. QED
    BY <2>2, <2>3
<1>7. QED
  BY <1>4, <1>5, <1>6 DEF IInv, Agrees

----------------------------------------------------------------------------
(* Webhooks                                                                *)

LEMMA DeliverKeeps ==
    ASSUME IInv, NEW h \in Handlers, NEW e \in DOMAIN events, Deliver(h, e)
    PROVE  IInv'
<1> DEFINE v == [known |-> row.known, bound |-> row.bound, eventAt |-> row.eventAt,
                 period |-> row.period]
           r == [pc |-> "read", event |-> e, sub |-> v]
<1>1. /\ handlers[h] = Idle /\ e \notin done /\ Go(h, r)
      /\ events[e].kind = "paid" => row.known
      /\ UNCHANGED <<provider, events, done, row, upto, user, sweep, excused, requests, faults>>
  BY DEF Deliver, Found
<1>2. TypeOK /\ row \in Row /\ e \in Nat
  BY DEF IInv, TypeOK
<1>3. \A g \in Handlers : handlers[g].pc = "read" => handlers[g].event \in DOMAIN events
  BY <1>2, Holds
<1>4. /\ v \in View /\ v.known = row.known /\ v.bound = row.bound
      /\ v.eventAt = row.eventAt /\ v.period = row.period
  BY <1>2 DEF Row, View
<1> HIDE DEF v
<1>5. r \in Delivery /\ r.pc = "read" /\ r.event = e /\ r.sub = v
  BY <1>2, <1>4 DEF Delivery
<1> HIDE DEF r
<1>6. /\ handlers' \in [Handlers -> {Idle} \cup Delivery] /\ handlers'[h] = r
      /\ \A g \in Handlers : g # h => handlers'[g] = handlers[g]
  BY <1>1, <1>2, <1>5, Goes
<1>7. TypeOK'
  BY <1>1, <1>2, <1>5, <1>6 DEF TypeOK
<1>8. History' /\ Owed' /\ Asked'
  BY <1>1 DEF IInv, History, Last, Owed, Asked
<1>9. Known'
  BY <1>1, <1>4, <1>5, <1>6 DEF IInv, Known, Fresh
<1>10. ASSUME ~excused' PROVE Freed' /\ Reads' /\ Seconds' /\ Applied' /\ InPeriod' /\ Swept' /\ NotDue'
  <2>1. Freed /\ Reads /\ Seconds /\ Applied /\ InPeriod /\ Swept /\ NotDue /\ ~excused
    BY <1>1, <1>10 DEF IInv, Agrees
  <2>2. Freed' /\ Seconds' /\ InPeriod' /\ Swept'
    BY <1>1, <2>1 DEF Freed, Seconds, InPeriod, Swept
  <2>3. Reads'
    <3>1. row.eventAt \in Nat /\ row.period \in Nat
      BY <1>2 DEF Row
    <3>2. ~row.bound => row.plan = "free"
      BY <1>2, <2>1 DEF TypeOK
    <3>3. QED
      BY <1>1, <1>4, <1>5, <1>6, <2>1, <3>1, <3>2 DEF Reads
  <2>4. Applied'
    <3>1. \A j : Handled(j)' => Handled(j)
      BY <1>1, <1>5, <1>6 DEF Handled
    <3>2. QED
      BY <1>1, <2>1, <3>1 DEF Applied, Last
  <2>5. NotDue'
    BY <1>1, <1>5, <1>6, <2>1 DEF NotDue
  <2>6. QED
    BY <2>2, <2>3, <2>4, <2>5
<1>11. QED
  BY <1>7, <1>8, <1>9, <1>10 DEF IInv, Agrees

\* A handler that has not begun to answer, or is through, leaves the row.
LEMMA MovesOn ==
    ASSUME IInv, NEW h \in Handlers, handlers[h].pc # "idle",
           NEW r \in {Idle} \cup Delivery, Go(h, r), r.pc # "read",
           r # Idle => r.event = handlers[h].event,
           UNCHANGED <<provider, events, row, upto, user, sweep, excused, requests>>,
           faults' \in 0 .. MaxFaults,
           done' = done \/ done' = done \cup {handlers[h].event},
           done' # done => Handled(handlers[h].event),
           r # Idle => \/ Handled(handlers[h].event)
                       \/ ~excused => row.plan = "free" \/ handlers[h].event <= upto,
           r.pc \in {"plan", "switch"} => row.known,
           r.pc = "switch" /\ r.plan = "free" /\ ~excused => r.due < provider.period
    PROVE  IInv'
<1>1. TypeOK /\ handlers[h].event \in DOMAIN events
  BY Holds DEF IInv
<1>2. /\ handlers' \in [Handlers -> {Idle} \cup Delivery] /\ handlers'[h] = r
      /\ \A g \in Handlers : g # h => handlers'[g] = handlers[g]
  BY <1>1, Goes
<1>3. TypeOK'
  BY <1>1, <1>2 DEF TypeOK
<1>4. History' /\ Owed' /\ Asked' /\ Known'
  BY <1>1, <1>2 DEF IInv, History, Last, Owed, Asked, Known, Fresh
<1>5. ASSUME ~excused' PROVE Freed' /\ Reads' /\ Seconds' /\ Applied' /\ InPeriod' /\ Swept' /\ NotDue'
  <2>1. Freed /\ Reads /\ Seconds /\ Applied /\ InPeriod /\ Swept /\ NotDue /\ ~excused
    BY <1>5 DEF IInv, Agrees
  <2>2. Freed' /\ Reads' /\ Seconds' /\ InPeriod' /\ Swept'
    BY <1>2, <2>1 DEF Freed, Reads, Seconds, InPeriod, Swept
  <2>3. NotDue'
    BY <1>2, <2>1 DEF NotDue
  <2>4. Applied'
    <3>1. ASSUME NEW j \in DOMAIN events, Handled(j)', row.plan # "free"
          PROVE  j <= upto
      <4>1. CASE Handled(j)
        BY <2>1, <3>1, <4>1 DEF Applied
      <4>2. CASE ~Handled(j)
        <5>1. j = handlers[h].event /\ r # Idle
          BY <1>2, <3>1, <4>2 DEF Handled, Idle
        <5>2. QED
          BY <2>1, <3>1, <4>2, <5>1
      <4>3. QED
        BY <4>1, <4>2
    <3>2. QED
      BY <2>1, <3>1 DEF Applied, Last
  <2>5. QED
    BY <2>2, <2>3, <2>4
<1>6. QED
  BY <1>3, <1>4, <1>5 DEF IInv, Agrees

LEMMA AnswerKeeps ==
    ASSUME IInv, NEW h \in Handlers, Answer(h)
    PROVE  IInv'
<1>1. /\ handlers[h].pc = "answer" /\ Go(h, Idle) /\ done' = done \cup {handlers[h].event}
      /\ UNCHANGED <<provider, events, row, upto, user, sweep, excused, requests, faults>>
  BY DEF Answer
<1>2. Handled(handlers[h].event)
  BY <1>1 DEF Handled
<1>3. Idle.pc = "idle" /\ faults \in 0 .. MaxFaults
  BY DEF Idle, IInv, TypeOK
<1>4. QED
  BY <1>1, <1>2, <1>3, MovesOn

LEMMA HandlerFailsKeeps ==
    ASSUME IInv, NEW h \in Handlers, HandlerFails(h)
    PROVE  IInv'
<1>1. /\ handlers[h].pc \in {"plan", "switch", "answer"} /\ Go(h, Idle)
      /\ faults < MaxFaults /\ faults' = faults + 1
      /\ UNCHANGED <<provider, events, done, row, upto, user, sweep, excused, requests>>
  BY DEF HandlerFails, Fault
<1>2. Idle.pc = "idle"
  BY DEF Idle
<1>3. faults' \in 0 .. MaxFaults
  BY <1>1, BoundsAssumption DEF IInv, TypeOK
<1>4. QED
  BY <1>1, <1>2, <1>3, MovesOn

LEMMA PlanReadKeeps ==
    ASSUME IInv, NEW h \in Handlers, PlanRead(h)
    PROVE  IInv'
<1> DEFINE e == handlers[h].event
           a == [pc |-> "answer", event |-> e]
           b == [pc |-> "switch", event |-> e, plan |-> row.scheduled, due |-> row.due]
<1>1. /\ handlers[h].pc = "plan"
      /\ Go(h, IF row.scheduled = None \/ row.due >= provider.period THEN a ELSE b)
      /\ UNCHANGED <<provider, events, done, row, upto, user, sweep, excused, requests, faults>>
  BY DEF PlanRead
<1>2. TypeOK /\ e \in Nat /\ Handled(e) /\ faults \in 0 .. MaxFaults /\ row.known
  BY <1>1, Holds DEF IInv, TypeOK, Handled, Known
<1>3. row.scheduled \in Changes /\ row.due \in Nat /\ provider.period \in Nat
  BY <1>2 DEF TypeOK, Row, Provider
<1> HIDE DEF e
<1>4. CASE row.scheduled = None \/ row.due >= provider.period
  <2>1. a \in Delivery /\ a.pc = "answer" /\ a.event = e
    BY <1>2 DEF Delivery
  <2> HIDE DEF a
  <2>2. QED
    BY <1>1, <1>2, <1>4, <2>1, MovesOn DEF e
<1>5. CASE row.scheduled # None /\ row.due < provider.period
  <2>1. /\ b \in Delivery /\ b.pc = "switch" /\ b.event = e /\ b.due = row.due
    BY <1>2, <1>3, <1>5 DEF Delivery, Changes
  <2>2. Go(h, b)
    BY <1>1, <1>3, <1>5
  <2> HIDE DEF b
  <2>3. QED
    BY <1>1, <1>2, <1>5, <2>1, <2>2, MovesOn DEF e
<1>6. QED
  BY <1>3, <1>4, <1>5

\* A paid row accounts for what is handled.
LEMMA HandledIsOld ==
    ASSUME Applied, row.plan # "free", NEW e \in DOMAIN events, Handled(e)
    PROVE  e <= upto
BY DEF Applied

\* An event older than what a handler has read is accounted for.
LEMMA StaleIsOld ==
    ASSUME IInv, ~excused, NEW h \in Handlers, handlers[h].pc = "read",
           NEW e, e = handlers[h].event, Stale(e, handlers[h].sub)
    PROVE  e <= upto
<1>1. /\ handlers[h].sub \in View /\ e \in DOMAIN events /\ upto \in Nat /\ row.eventAt \in Nat
      /\ handlers[h].sub.eventAt <= row.eventAt
  BY Holds, Newest DEF IInv, TypeOK, Agrees, Reads
<1>2. events[e].at \in Nat /\ handlers[h].sub.eventAt \in Nat /\ e \in Nat
  BY <1>1, Newest DEF IInv, View
<1>3. events[e].at < row.eventAt
  BY <1>1, <1>2 DEF Stale
<1>4. e > upto => events[e].at >= row.eventAt
  BY <1>1 DEF IInv, Agrees, Seconds
<1>5. QED
  BY <1>1, <1>2, <1>3, <1>4

\* An event that is neither stale nor overtaken since it was read, also not in
\* its second, is newer than all that the row has seen, and its period is not
\* behind.
LEMMA InOrder ==
    ASSUME IInv, ~excused, NEW h \in Handlers, handlers[h].pc = "read",
           NEW e, e = handlers[h].event, ~Stale(e, handlers[h].sub),
           ~Late(e, handlers[h].sub), ~Tied(e)
    PROVE  /\ upto <= e /\ row.eventAt <= events[e].at /\ row.period <= events[e].period
           /\ (IF events[e].period > handlers[h].sub.period THEN events[e].period
               ELSE row.period) = events[e].period
<1> DEFINE sub == handlers[h].sub
<1>1. /\ TypeOK /\ History /\ sub \in View /\ e \in DOMAIN events
      /\ sub.eventAt <= row.eventAt /\ sub.period <= row.period
  BY Holds DEF IInv, Agrees, Reads
<1>2. /\ e \in 1 .. Len(events) /\ Len(events) \in Nat
      /\ upto \in 0 .. Len(events) /\ row.period \in Nat /\ row.eventAt \in Nat
      /\ sub.eventAt \in Nat /\ sub.period \in Nat
      /\ DOMAIN events = 1 .. Len(events)
  BY <1>1 DEF TypeOK, Row, View
<1>3. \A i \in DOMAIN events : events[i].period \in Nat /\ events[i].at \in Nat
  BY <1>1, Newest
<1> HIDE DEF sub
<1>4. upto <= e /\ row.eventAt <= events[e].at
  <2>1. events[e].at >= row.eventAt
    BY <1>1, <1>2, <1>3 DEF Stale, Late, sub
  <2>2. e < upto => events[e].at <= row.eventAt
    BY <1>1, <1>2 DEF IInv, Agrees, Seconds
  <2>3. QED
    BY <1>1, <1>2, <1>3, <2>1, <2>2 DEF Tied
<1>5. row.period <= events[e].period
  <2>1. CASE upto = 0
    BY <1>1, <1>2, <1>3, <2>1 DEF IInv, Agrees, InPeriod, History
  <2>2. CASE upto > 0
    <3>1. upto \in DOMAIN events
      BY <1>2, <2>2
    <3>2. events[upto].period <= events[e].period
      BY <1>1, <1>4, <3>1 DEF History
    <3>3. row.period <= events[upto].period
      BY <2>2 DEF IInv, Agrees, InPeriod
    <3>4. QED
      BY <1>1, <1>2, <1>3, <3>1, <3>2, <3>3
  <2>3. QED
    BY <1>2, <2>1, <2>2
<1>6. QED
  BY <1>1, <1>2, <1>3, <1>4, <1>5 DEF sub

\* What the write of an event in order has to do.
LEMMA WriteInOrder ==
    ASSUME IInv, ~excused, ~excused', NEW h \in Handlers, handlers[h].pc = "read",
           NEW e, e = handlers[h].event, upto <= e, row.eventAt <= events[e].at,
           row.period <= row'.period,
           NEW r \in Delivery, r.pc \in {"plan", "answer"}, r.event = e, Go(h, r),
           UNCHANGED <<provider, events, done, user, sweep>>,
           row' \in Row, row'.known = row.known, row'.eventAt = events[e].at, upto' = e,
           row'.period <= events[e].period,
           events[e].kind \in {"paid", "updated"} => row'.period = events[e].period,
           row.plan = "free" => row'.plan = "free",
           row'.plan = "free" => row'.scheduled = None /\ provider.status = "ended",
           row'.plan # "free" =>
             /\ row'.status = events[e].status
             /\ row'.scheduled = row.scheduled /\ row'.due = row.due
             /\ events[e].kind = "updated" => row'.cancelAtEnd = events[e].cancel
    PROVE  Agrees'
<1>1. /\ Freed /\ Reads /\ Seconds /\ Applied /\ InPeriod /\ Swept /\ NotDue
      /\ TypeOK /\ History
  BY DEF IInv, Agrees
<1>2. /\ handlers'[h] = r /\ \A g \in Handlers : g # h => handlers'[g] = handlers[g]
  BY <1>1, Goes
<1>3. /\ e \in DOMAIN events /\ e \in Nat /\ e > 0 /\ upto \in Nat /\ upto <= Len(events)
      /\ Len(events) \in Nat /\ row.period \in Nat /\ row'.period \in Nat
      /\ row.eventAt \in Nat /\ DOMAIN events = 1 .. Len(events)
  BY <1>1, Holds DEF TypeOK, Row
<1>4. \A i \in DOMAIN events : events[i].at \in Nat
  BY <1>1, Newest
<1>5. Freed' /\ InPeriod' /\ Swept'
  BY <1>1, <1>3 DEF Freed, InPeriod, Swept
<1>6. Reads'
  <2>1. \A g \in Handlers : handlers[g].pc = "read" =>
          handlers[g].sub \in View /\ handlers[g].event \in Nat
    BY <1>1, Holds DEF TypeOK
  <2>2. events[e].at \in Nat
    BY <1>3, <1>4
  <2> SUFFICES ASSUME NEW g \in Handlers, handlers'[g].pc = "read"
               PROVE  /\ handlers'[g].sub.eventAt <= row'.eventAt
                      /\ handlers'[g].sub.period <= row'.period
                      /\ handlers'[g].sub.known /\ ~handlers'[g].sub.bound =>
                           row'.plan = "free"
                      /\ row'.known /\ ~handlers'[g].sub.known => handlers'[g].event <= upto'
    BY DEF Reads
  <2>3. handlers'[g] = handlers[g] /\ handlers[g].pc = "read"
    BY <1>2
  <2>4. /\ handlers[g].sub.eventAt <= row.eventAt /\ handlers[g].sub.period <= row.period
        /\ handlers[g].sub.known /\ ~handlers[g].sub.bound => row.plan = "free"
        /\ row.known /\ ~handlers[g].sub.known => handlers[g].event <= upto
    BY <1>1, <2>3 DEF Reads
  <2>5. handlers[g].sub.eventAt \in Nat /\ handlers[g].sub.period \in Nat
    BY <2>1, <2>3 DEF View
  <2>6. /\ handlers[g].sub.eventAt <= events[e].at /\ handlers[g].sub.period <= row'.period
    BY <1>3, <2>2, <2>4, <2>5
  <2>7. row.known /\ ~handlers[g].sub.known => handlers[g].event <= e
    BY <1>3, <2>1, <2>3, <2>4
  <2>8. QED
    BY <2>3, <2>4, <2>6, <2>7
<1>7. Seconds'
  BY <1>1, <1>3, <1>4 DEF Seconds, History
<1>8. NotDue'
  BY <1>1, <1>2, NoneAssumption DEF NotDue
<1>9. Applied'
  <2> SUFFICES ASSUME row'.plan # "free" PROVE Applied'
    BY DEF Applied
  <2>1. ASSUME NEW j \in DOMAIN events, Handled(j)' PROVE j <= e
    <3>1. CASE Handled(j)
      <4>1. j <= upto /\ j \in Nat
        BY <1>1, <1>3, <2>1, <3>1, HandledIsOld
      <4>2. QED
        BY <1>3, <4>1
    <3>2. CASE ~Handled(j)
      <4>1. j = e
        BY <1>2, <2>1, <3>2 DEF Handled
      <4>2. QED
        BY <1>3, <4>1
    <3>3. QED
      BY <3>1, <3>2
  <2>2. e = Len(events) => events[e].cancel = provider.cancel
    BY <1>1 DEF History, Last
  <2>3. QED
    BY <1>3, <2>1, <2>2 DEF Applied, Last
<1>10. QED
  BY <1>5, <1>6, <1>7, <1>8, <1>9 DEF Agrees

\* Type and history are kept by any such write, in order or not.
LEMMA WriteKeepsRest ==
    ASSUME IInv, NEW h \in Handlers, handlers[h].pc # "idle",
           NEW r \in Delivery, r.pc # "read", r.event = handlers[h].event, Go(h, r),
           UNCHANGED <<provider, events, done, user, sweep, requests, faults>>,
           row.known, row' \in Row, row'.known = row.known, upto' \in 0 .. Len(events),
           excused' \in BOOLEAN, row'.plan # "free" /\ ~excused' => row'.bound
    PROVE  TypeOK' /\ History' /\ Owed' /\ Known' /\ Asked'
<1>1. TypeOK /\ handlers[h].event \in DOMAIN events
  BY Holds DEF IInv
<1>2. /\ handlers' \in [Handlers -> {Idle} \cup Delivery] /\ handlers'[h] = r
      /\ \A g \in Handlers : g # h => handlers'[g] = handlers[g]
  BY <1>1, Goes
<1>3. TypeOK'
  BY <1>1, <1>2 DEF TypeOK
<1>4. History' /\ Owed' /\ Asked' /\ Known'
  BY <1>1, <1>2 DEF IInv, History, Last, Owed, Asked, Known
<1>5. QED
  BY <1>3, <1>4

\* What the handlers write.
LEMMA PaidRow ==
    ASSUME TypeOK, NEW e \in DOMAIN events, NEW sub \in View
    PROVE  /\ Paid(row, e, sub) \in Row /\ Paid(row, e, sub).eventAt = events[e].at
           /\ Paid(row, e, sub).status = "ACTIVE"
           /\ Paid(row, e, sub).period = IF events[e].period > sub.period
                                         THEN events[e].period ELSE row.period
           /\ \A f \in {"known", "bound", "plan", "cancelAtEnd", "scheduled", "due"} :
                Paid(row, e, sub)[f] = row[f]
<1> DEFINE q == IF events[e].period > sub.period THEN events[e].period ELSE row.period
           s == events[e].at
<1>1. row \in Row /\ events[e] \in EventType
  BY DEF TypeOK
<1>2. q \in Nat /\ s \in Nat
  BY <1>1 DEF Row, EventType
<1>3. Paid(row, e, sub) = [row EXCEPT !.status = "ACTIVE", !.eventAt = s, !.period = q]
  BY DEF Paid
<1> HIDE DEF q, s
<1>4. /\ Paid(row, e, sub) \in Row /\ Paid(row, e, sub).eventAt = s
      /\ Paid(row, e, sub).status = "ACTIVE" /\ Paid(row, e, sub).period = q
      /\ \A f \in {"known", "bound", "plan", "cancelAtEnd", "scheduled", "due"} :
           Paid(row, e, sub)[f] = row[f]
  BY <1>1, <1>2, <1>3 DEF Row, Status
<1>5. QED
  BY <1>4 DEF q, s

LEMMA UpdatedRow ==
    ASSUME TypeOK, History, NEW e \in DOMAIN events, NEW sub \in View,
           events[e].kind # "paid"
    PROVE  LET w == Updated(row, e, sub) IN
           /\ w \in Row /\ w.eventAt = events[e].at /\ w.known = row.known
           /\ events[e].kind = "failed" =>
                /\ w.status = events[e].status
                /\ \A f \in {"bound", "plan", "period", "cancelAtEnd", "scheduled", "due"} :
                     w[f] = row[f]
           /\ events[e].kind = "updated" =>
                /\ w.status = events[e].status /\ w.bound = TRUE
                /\ w.cancelAtEnd = events[e].cancel
                /\ w.period = IF events[e].period > sub.period
                              THEN events[e].period ELSE row.period
                /\ \A f \in {"plan", "scheduled", "due"} : w[f] = row[f]
           /\ events[e].kind = "deleted" =>
                w.plan = "free" /\ w.scheduled = None /\ w.period = row.period
<1> DEFINE q == IF events[e].period > sub.period THEN events[e].period ELSE row.period
           k == events[e].kind
           s == events[e].status
           c == events[e].cancel
           at == events[e].at
<1>1. row \in Row /\ events[e] \in EventType
  BY DEF TypeOK
<1>2. q \in Nat /\ at \in Nat /\ c \in BOOLEAN /\ k \in {"failed", "updated", "deleted"}
  BY <1>1 DEF Row, EventType
<1>3. /\ k = "failed" => s = "PAST_DUE"
      /\ k = "updated" => s \in Status
  BY <1>1 DEF History, EventType
<1>4. Updated(row, e, sub) =
        CASE k = "failed" -> [row EXCEPT !.status = "PAST_DUE", !.eventAt = at]
          [] k = "updated" -> [row EXCEPT !.status = s, !.cancelAtEnd = c, !.eventAt = at,
                                          !.bound = TRUE, !.period = q]
          [] k = "deleted" -> [Free(row) EXCEPT !.eventAt = at]
  BY DEF Updated
<1> HIDE DEF q, k, s, c, at
<1>5. CASE k = "failed"
  <2>1. Updated(row, e, sub) = [row EXCEPT !.status = "PAST_DUE", !.eventAt = at]
    BY <1>4, <1>5
  <2>2. k # "updated" /\ k # "deleted" /\ s = "PAST_DUE"
    BY <1>3, <1>5
  <2>3. LET w == Updated(row, e, sub) IN
        /\ w \in Row /\ w.eventAt = at /\ w.known = row.known /\ w.status = "PAST_DUE"
        /\ \A f \in {"bound", "plan", "period", "cancelAtEnd", "scheduled", "due"} :
             w[f] = row[f]
    BY <1>1, <1>2, <2>1 DEF Row, Status
  <2>4. QED
    BY <2>2, <2>3 DEF k, s, at
<1>6. CASE k = "updated"
  <2>1. Updated(row, e, sub) = [row EXCEPT !.status = s, !.cancelAtEnd = c, !.eventAt = at,
                                           !.bound = TRUE, !.period = q]
    BY <1>4, <1>6
  <2>2. LET w == Updated(row, e, sub) IN
        /\ w \in Row /\ w.eventAt = at /\ w.known = row.known /\ w.status = s /\ w.bound = TRUE
        /\ w.cancelAtEnd = c /\ w.period = q
        /\ \A f \in {"plan", "scheduled", "due"} : w[f] = row[f]
    BY <1>1, <1>2, <1>3, <1>6, <2>1 DEF Row
  <2>3. QED
    BY <1>6, <2>2 DEF k, s, c, q, at
<1>7. CASE k = "deleted"
  <2>1. /\ Free(row) \in Row /\ Free(row).plan = "free" /\ Free(row).scheduled = None
        /\ Free(row).known = row.known /\ Free(row).period = row.period
    BY <1>1, FreeRow
  <2>2. Updated(row, e, sub) = [Free(row) EXCEPT !.eventAt = at]
    BY <1>4, <1>7
  <2>3. LET w == Updated(row, e, sub) IN
        /\ w \in Row /\ w.eventAt = at /\ w.known = row.known /\ w.plan = "free"
        /\ w.scheduled = None /\ w.period = row.period
    BY <1>1, <1>2, <2>1, <2>2 DEF Row
  <2>4. QED
    BY <1>7, <2>3 DEF k, at
<1>8. QED
  BY <1>2, <1>5, <1>6, <1>7

LEMMA InvoicePaidKeeps ==
    ASSUME IInv, NEW h \in Handlers, InvoicePaid(h)
    PROVE  IInv'
<1> DEFINE e == handlers[h].event
           sub == handlers[h].sub
           a == [pc |-> "answer", event |-> e]
           b == [pc |-> "plan", event |-> e]
<1>1. /\ handlers[h].pc = "read" /\ events[e].kind = "paid"
      /\ UNCHANGED <<provider, events, done, user, sweep, requests, faults>>
  BY DEF InvoicePaid
<1>2. /\ TypeOK /\ sub \in View /\ e \in DOMAIN events /\ e \in Nat
      /\ faults \in 0 .. MaxFaults /\ excused \in BOOLEAN /\ row.known
  BY <1>1, Holds DEF IInv, TypeOK, Known
<1>3. /\ a \in Delivery /\ a.pc = "answer" /\ a.event = e
      /\ b \in Delivery /\ b.pc = "plan" /\ b.event = e
  BY <1>2 DEF Delivery
<1> HIDE DEF a, b
<1>4. CASE Stale(e, sub)
  <2>1. Go(h, a) /\ UNCHANGED <<row, upto, excused>>
    BY <1>4 DEF InvoicePaid, a
  <2>2. ~excused => e <= upto
    BY <1>1, <1>4, StaleIsOld
  <2>3. QED
    BY <1>1, <1>2, <1>3, <2>1, <2>2, MovesOn
<1>5. CASE ~Stale(e, sub)
  <2>1. /\ row' = Paid(row, e, sub) /\ upto' = e
        /\ excused' = (excused \/ (Late(e, sub) \/ Tied(e)))
        /\ Go(h, a) \/ Go(h, b)
    BY <1>5 DEF InvoicePaid, Writes, Excuse, a, b
  <2>2. PICK r \in Delivery : r.pc \in {"plan", "answer"} /\ r.event = e /\ Go(h, r)
    BY <1>3, <2>1
  <2>3. /\ row' \in Row /\ row'.eventAt = events[e].at /\ row'.status = "ACTIVE"
        /\ row'.period = IF events[e].period > sub.period
                         THEN events[e].period ELSE row.period
        /\ row'.known = row.known /\ row'.bound = row.bound /\ row'.plan = row.plan
        /\ row'.cancelAtEnd = row.cancelAtEnd /\ row'.scheduled = row.scheduled
        /\ row'.due = row.due
    BY <1>2, <2>1, PaidRow
  <2> HIDE DEF e, sub
  <2>4. excused' \in BOOLEAN /\ (~excused' => ~excused /\ ~Late(e, sub) /\ ~Tied(e))
    BY <1>2, <2>1
  <2>5. row'.plan # "free" /\ ~excused' => row'.bound
    BY <1>2, <2>3, <2>4 DEF TypeOK
  <2>6. upto' \in 0 .. Len(events)
    BY <1>2, <2>1 DEF TypeOK
  <2>7. TypeOK' /\ History' /\ Owed' /\ Known' /\ Asked'
    BY <1>1, <1>2, <2>2, <2>3, <2>4, <2>5, <2>6, WriteKeepsRest DEF e
  <2>8. ASSUME ~excused' PROVE Agrees'
    <3>1. /\ upto <= e /\ row.eventAt <= events[e].at /\ row.period <= events[e].period
          /\ row'.period = events[e].period
      BY <1>1, <1>5, <2>3, <2>4, <2>8, InOrder DEF e, sub
    <3>2. row.plan = "free" => row.scheduled = None /\ provider.status = "ended"
      BY <1>2, <2>4, <2>8 DEF IInv, Agrees, Freed
    <3>3. events[e].status = "ACTIVE"
      BY <1>1, <1>2 DEF IInv, History
    <3>4. events[e].period \in Nat
      <4>1. events[e] \in EventType
        BY <1>2 DEF TypeOK
      <4>2. QED
        BY <4>1 DEF EventType
    <3>5. row'.period <= events[e].period
      BY <3>1, <3>4
    <3>6. QED
      BY <1>1, <2>1, <2>2, <2>3, <2>4, <2>8, <3>1, <3>2, <3>3, <3>5, WriteInOrder DEF e
  <2>9. QED
    BY <2>7, <2>8 DEF IInv, Agrees
<1>6. QED
  BY <1>4, <1>5

LEMMA ChangeKeeps ==
    ASSUME IInv, NEW h \in Handlers, Change(h)
    PROVE  IInv'
<1> DEFINE e == handlers[h].event
           sub == handlers[h].sub
           a == [pc |-> "answer", event |-> e]
<1>1. /\ handlers[h].pc = "read" /\ events[e].kind # "paid" /\ Go(h, a)
      /\ UNCHANGED <<provider, events, done, user, sweep, requests, faults>>
  BY DEF Change
<1>2. /\ TypeOK /\ sub \in View /\ e \in DOMAIN events /\ e \in Nat
      /\ faults \in 0 .. MaxFaults /\ excused \in BOOLEAN
  BY <1>1, Holds DEF IInv, TypeOK
<1>3. a \in Delivery /\ a.pc = "answer" /\ a.event = e
  BY <1>2 DEF Delivery
<1> HIDE DEF a
<1>4. CASE Ignores(e, sub)
  <2>1. UNCHANGED <<row, upto, excused>>
    BY <1>4 DEF Change
  <2>2. ~excused => row.plan = "free" \/ e <= upto
    <3> SUFFICES ASSUME ~excused, row.plan # "free" PROVE e <= upto
      OBVIOUS
    <3>1. row.known /\ Reads
      BY DEF IInv, Agrees, Known, Fresh
    <3>2. CASE ~sub.known
      BY <1>1, <3>1, <3>2 DEF Reads
    <3>3. CASE sub.known
      <4>1. sub.bound
        BY <1>1, <3>1, <3>3 DEF Reads
      <4>2. Stale(e, sub)
        BY <1>4, <3>3, <4>1 DEF Ignores, Found
      <4>3. QED
        BY <1>1, <4>2, StaleIsOld
    <3>4. QED
      BY <3>2, <3>3
  <2>3. QED
    BY <1>1, <1>2, <1>3, <2>1, <2>2, MovesOn
<1>5. CASE ~Ignores(e, sub)
  <2>1. /\ row' = Updated(row, e, sub) /\ upto' = e /\ row.known
        /\ excused' = (excused \/ (Late(e, sub) \/ Tied(e)))
    BY <1>1, <1>5 DEF Change, Writes, Excuse, Ignores, Found, IInv, Known
  <2>2. /\ row' \in Row /\ row'.eventAt = events[e].at /\ row'.known = row.known
        /\ events[e].kind = "failed" =>
             /\ row'.status = events[e].status /\ row'.bound = row.bound
             /\ row'.plan = row.plan /\ row'.period = row.period
             /\ row'.scheduled = row.scheduled /\ row'.due = row.due
        /\ events[e].kind = "updated" =>
             /\ row'.status = events[e].status /\ row'.bound = TRUE
             /\ row'.cancelAtEnd = events[e].cancel
             /\ row'.period = IF events[e].period > sub.period
                              THEN events[e].period ELSE row.period
             /\ row'.plan = row.plan /\ row'.scheduled = row.scheduled /\ row'.due = row.due
        /\ events[e].kind = "deleted" =>
             row'.plan = "free" /\ row'.scheduled = None /\ row'.period = row.period
    <3>1. History /\ events[e].kind # "paid"
      BY <1>1 DEF IInv
    <3> HIDE DEF e, sub
    <3> DEFINE w == Updated(row, e, sub)
    <3>2. /\ w \in Row /\ w.eventAt = events[e].at /\ w.known = row.known
          /\ events[e].kind = "failed" =>
               /\ w.status = events[e].status
               /\ \A f \in {"bound", "plan", "period", "cancelAtEnd", "scheduled", "due"} :
                    w[f] = row[f]
          /\ events[e].kind = "updated" =>
               /\ w.status = events[e].status /\ w.bound = TRUE
               /\ w.cancelAtEnd = events[e].cancel
               /\ w.period = IF events[e].period > sub.period
                             THEN events[e].period ELSE row.period
               /\ \A f \in {"plan", "scheduled", "due"} : w[f] = row[f]
          /\ events[e].kind = "deleted" =>
               w.plan = "free" /\ w.scheduled = None /\ w.period = row.period
      BY <1>2, <3>1, UpdatedRow
    <3>3. row' = w
      BY <2>1
    <3> HIDE DEF w
    <3>4. QED
      BY <3>2, <3>3
  <2>3. events[e].kind \in {"failed", "updated", "deleted"} /\ events[e].period \in Nat
    <3>1. events[e] \in EventType
      BY <1>2 DEF TypeOK
    <3>2. QED
      BY <1>1, <3>1 DEF EventType
  <2> HIDE DEF e, sub
  <2>4. excused' \in BOOLEAN /\ (~excused' => ~excused /\ ~Late(e, sub) /\ ~Tied(e))
    BY <1>2, <2>1
  <2>5. row'.plan # "free" /\ ~excused' => row'.bound
    BY <1>2, <2>2, <2>3, <2>4 DEF TypeOK
  <2>6. upto' \in 0 .. Len(events)
    BY <1>2, <2>1 DEF TypeOK
  <2>7. TypeOK' /\ History' /\ Owed' /\ Known' /\ Asked'
    BY <1>1, <1>3, <2>1, <2>2, <2>4, <2>5, <2>6, WriteKeepsRest DEF e
  <2>8. ASSUME ~excused' PROVE Agrees'
    <3>1. /\ upto <= e /\ row.eventAt <= events[e].at /\ row.period <= events[e].period
          /\ events[e].kind = "updated" => row'.period = events[e].period
      BY <1>1, <1>5, <2>2, <2>4, <2>8, InOrder DEF Ignores, e, sub
    <3>2. row.plan = "free" => row.scheduled = None /\ provider.status = "ended"
      BY <2>1, <2>4, <2>8 DEF IInv, Agrees, Freed
    <3>3. events[e].kind = "deleted" => provider.status = "ended"
      BY <1>2 DEF IInv, History, Last
    <3>4. row.period \in Nat
      BY <1>2 DEF TypeOK, Row
    <3>5. /\ row.period <= row'.period /\ row'.period <= events[e].period
          /\ row.plan = "free" => row'.plan = "free"
          /\ row'.plan = "free" => row'.scheduled = None /\ provider.status = "ended"
      BY <2>2, <2>3, <3>1, <3>2, <3>3, <3>4
    <3>6. row'.plan # "free" =>
             /\ row'.status = events[e].status
             /\ row'.scheduled = row.scheduled /\ row'.due = row.due
             /\ events[e].kind = "updated" => row'.cancelAtEnd = events[e].cancel
      BY <2>2, <2>3
    <3>7. events[e].kind \in {"paid", "updated"} => row'.period = events[e].period
      BY <1>1, <3>1
    <3>8. QED
      BY <1>1, <1>3, <2>1, <2>2, <2>4, <2>8, <3>1, <3>5, <3>6, <3>7, WriteInOrder DEF e
  <2>9. QED
    BY <2>7, <2>8 DEF IInv, Agrees
<1>6. QED
  BY <1>4, <1>5

\* A scheduled plan that is applied in time is the one that was read, and it
\* is not the end of the subscription: that is left to the provider.
LEMMA AppliesLower ==
    ASSUME IInv, NEW h \in Handlers, PlanWrite(h), ~excused'
    PROVE  /\ ~excused /\ handlers[h].plan = "lower" /\ row.scheduled = "lower"
           /\ row.cancelAtEnd = FALSE /\ user = Idle /\ row.plan # "free"
<1>1. handlers[h].pc = "switch"
  BY DEF PlanWrite
<1>2. excused' = (excused \/ (\/ row.scheduled # handlers[h].plan
                              \/ row.due # handlers[h].due
                              \/ row.cancelAtEnd \/ user # Idle))
  BY DEF PlanWrite, Excuse
<1>3. /\ TypeOK /\ handlers[h].plan \in {"free", "lower"} /\ handlers[h].due \in Nat
      /\ row.cancelAtEnd \in BOOLEAN /\ provider.period \in Nat
  BY <1>1, Holds DEF IInv, TypeOK, Row, Provider
<1>4. /\ ~excused /\ row.scheduled = handlers[h].plan /\ row.due = handlers[h].due
      /\ ~row.cancelAtEnd /\ user = Idle
  BY <1>2
<1>5. Freed /\ NotDue
  BY <1>4 DEF IInv, Agrees
<1>6. handlers[h].plan # "free"
  BY <1>1, <1>3, <1>4, <1>5 DEF NotDue, Idle
<1>7. row.plan # "free"
  BY <1>3, <1>4, <1>5, <1>6, NoneAssumption DEF Freed
<1>8. QED
  BY <1>3, <1>4, <1>6, <1>7

LEMMA PlanWriteKeeps ==
    ASSUME IInv, NEW h \in Handlers, PlanWrite(h)
    PROVE  IInv'
<1> DEFINE e == handlers[h].event
           a == [pc |-> "answer", event |-> e]
           w == [row EXCEPT !.plan = "lower", !.scheduled = None, !.due = 0,
                            !.cancelAtEnd = FALSE]
<1>1. /\ handlers[h].pc = "switch" /\ Go(h, a) /\ excused' \in BOOLEAN
      /\ row' = IF handlers[h].plan = "free" THEN Free(row)
                ELSE [row EXCEPT !.plan = handlers[h].plan, !.scheduled = None, !.due = 0,
                                 !.cancelAtEnd = FALSE]
      /\ UNCHANGED <<provider, events, done, upto, user, sweep, requests, faults>>
  BY DEF PlanWrite, Excuse
<1>2. /\ TypeOK /\ e \in DOMAIN events /\ e \in Nat /\ row \in Row
      /\ handlers[h].plan \in {"free", "lower"} /\ row.known /\ upto \in 0 .. Len(events)
  BY <1>1, Holds DEF IInv, TypeOK, Known
<1>3. a \in Delivery /\ a.pc = "answer" /\ a.event = e
  BY <1>2 DEF Delivery
<1> HIDE DEF a, e
<1>4. /\ w \in Row /\ w.plan = "lower" /\ w.scheduled = None /\ w.cancelAtEnd = FALSE
      /\ w.known = row.known /\ w.bound = row.bound /\ w.status = row.status
      /\ w.period = row.period /\ w.eventAt = row.eventAt
  BY <1>2 DEF Row, Plans, Changes
<1>5. handlers[h].plan = "lower" => row' = w
  BY <1>1
<1> HIDE DEF w
<1>6. row' \in Row /\ row'.known = row.known /\ row'.eventAt = row.eventAt
  BY <1>1, <1>2, <1>4, <1>5, FreeRow
<1>7. ~excused' => /\ ~excused /\ row' = w /\ row.scheduled = "lower"
                   /\ row.cancelAtEnd = FALSE /\ row.plan # "free"
  BY <1>5, AppliesLower
<1>8. row'.plan # "free" /\ ~excused' => row'.bound
  BY <1>2, <1>4, <1>7 DEF TypeOK
<1>9. TypeOK' /\ History' /\ Owed' /\ Known' /\ Asked'
  BY <1>1, <1>2, <1>3, <1>6, <1>8, WriteKeepsRest DEF e
<1>10. ASSUME ~excused' PROVE Agrees'
  <2>1. Freed /\ Reads /\ Seconds /\ Applied /\ InPeriod /\ Swept /\ NotDue
    BY <1>7, <1>10 DEF IInv, Agrees
  <2>2. row' = w /\ row.plan # "free"
    BY <1>7, <1>10
  <2>3. /\ handlers'[h] = a /\ \A g \in Handlers : g # h => handlers'[g] = handlers[g]
    BY <1>1, <1>2, <1>3, Goes
  <2>4. Freed' /\ Reads' /\ Seconds' /\ InPeriod' /\ Swept'
    BY <1>1, <1>3, <1>4, <2>1, <2>2, <2>3 DEF Freed, Reads, Seconds, InPeriod, Swept
  <2>5. NotDue'
    BY <1>1, <1>3, <1>4, <2>1, <2>2, <2>3, NoneAssumption DEF NotDue
  <2>6. \A j : Handled(j)' => Handled(j)
    BY <1>1, <1>3, <2>3 DEF Handled, e
  <2>7. row'.cancelAtEnd = row.cancelAtEnd
    BY <1>4, <1>7, <1>10
  <2>8. Applied'
    <3>1. row'.status = row.status /\ upto' = upto /\ events' = events /\ provider' = provider
      BY <1>1, <1>4, <2>2
    <3>2. /\ upto > 0 /\ row.status = events[upto].status
          /\ \A j \in DOMAIN events : Handled(j) => j <= upto
          /\ upto = Len(events) /\ Last.kind = "updated" => row.cancelAtEnd = provider.cancel
      BY <2>1, <2>2 DEF Applied
    <3>3. \A j \in DOMAIN events' : Handled(j)' => j <= upto'
      BY <2>6, <3>1, <3>2
    <3>4. QED
      BY <2>7, <3>1, <3>2, <3>3 DEF Applied, Last
  <2>9. QED
    BY <2>4, <2>5, <2>8 DEF Agrees
<1>11. QED
  BY <1>9, <1>10 DEF IInv, Agrees

----------------------------------------------------------------------------
(* The theorems                                                            *)

LEMMA Initially == Init => IInv
<1> SUFFICES ASSUME Init PROVE IInv
  OBVIOUS
<1> DEFINE q == [provider EXCEPT !.status = "INCOMPLETE"]
<1>1. /\ provider \in Provider /\ provider.status = "ACTIVE" /\ provider.period = 1
      /\ provider.unpaid = FALSE /\ provider.cancel = FALSE
      /\ q \in Provider /\ q.status = "INCOMPLETE" /\ q.period = 1 /\ q.cancel = FALSE
  BY DEF Init, Provider, Status
<1> HIDE DEF q
<1>2. PICK at \in {1, 2} :
        events \in {<<Event("paid", provider, 1)>>,
                   <<Event("updated", q, 1), Event("paid", provider, at)>>}
  BY DEF Init, q
<1> DEFINE c == Event("updated", q, 1)
           e(s) == Event("paid", provider, s)
<1>3. /\ c \in EventType /\ c.kind = "updated" /\ c.period = 1 /\ c.status = "INCOMPLETE"
      /\ c.cancel = FALSE /\ c.at = 1
  BY <1>1, EventFields
<1>4. \A s \in {1, 2} : /\ e(s) \in EventType /\ e(s).kind = "paid" /\ e(s).period = 1
                        /\ e(s).status = "ACTIVE" /\ e(s).cancel = FALSE /\ e(s).at = s
  BY <1>1, EventFields
<1>5. PICK s \in {1, 2} : events = <<e(s)>> \/ events = <<c, e(s)>>
  BY <1>2
<1> DEFINE d == e(s)
<1>6. /\ d \in EventType /\ d.kind = "paid" /\ d.period = 1 /\ d.status = "ACTIVE"
      /\ d.cancel = FALSE /\ d.at \in Nat /\ d.at >= 1
  BY <1>4
<1>7. events = <<d>> \/ events = <<c, d>>
  BY <1>5
<1> HIDE DEF c, d, e
<1>8. /\ row \in Row /\ row.known = FALSE /\ row.plan = "free" /\ row.status = "ACTIVE"
      /\ row.eventAt = 0 /\ row.period = 0 /\ row.scheduled = None
      /\ row.cancelAtEnd = FALSE /\ upto = 0
  BY DEF Init, Row, Plans, Status, Changes
<1>9. /\ done = {} /\ user = Idle /\ sweep = Idle /\ excused = FALSE
      /\ requests = 0 /\ faults = 0 /\ handlers = [h \in Handlers |-> Idle]
  BY DEF Init
<1>10. Idle.pc = "idle" /\ Idle \in [pc: {"idle", "listed", "cancelled"}]
  BY DEF Idle
<1>11. /\ events \in Seq(EventType) /\ Len(events) \in Nat /\ Len(events) >= 1
       /\ DOMAIN events = 1 .. Len(events) /\ Last = d
       /\ \A i \in DOMAIN events : events[i] \in EventType /\ events[i] \in {c, d}
       /\ \A i, j \in DOMAIN events : i <= j => events[i] = events[j] \/ events[i] = c
  <2>1. CASE events = <<d>>
    <3>1. Len(events) = 1 /\ events[1] = d /\ events \in Seq(EventType)
      BY <1>6, <2>1
    <3>2. QED
      BY <1>6, <3>1 DEF Last
  <2>2. CASE events = <<c, d>>
    <3>1. Len(events) = 2 /\ events[1] = c /\ events[2] = d /\ events \in Seq(EventType)
      BY <1>3, <1>6, <2>2
    <3>2. QED
      BY <1>3, <1>6, <3>1 DEF Last
  <2>3. QED
    BY <1>7, <2>1, <2>2
<1>12. TypeOK
  <2>1. /\ upto \in 0 .. Len(events) /\ (row.plan # "free" /\ ~excused => row.bound)
        /\ done \subseteq DOMAIN events
    BY <1>8, <1>9, <1>11
  <2>2. /\ handlers \in [Handlers -> {Idle} \cup Delivery]
        /\ \A h \in Handlers : handlers[h] = Idle
    BY <1>9
  <2>3. requests \in 0 .. MaxRequests /\ faults \in 0 .. MaxFaults
    BY <1>9, BoundsAssumption
  <2>4. QED
    BY <1>1, <1>8, <1>9, <1>10, <1>11, <2>1, <2>2, <2>3 DEF TypeOK
<1>13. History /\ Owed
  <2>1. \A i \in DOMAIN events :
           /\ events[i].period = 1 /\ events[i].at \in Nat
           /\ \/ events[i].kind = "paid" /\ events[i].status = "ACTIVE"
              \/ events[i].kind = "updated" /\ events[i].status = "INCOMPLETE"
    BY <1>3, <1>6, <1>11
  <2>2. \A i, j \in DOMAIN events : i <= j => events[i].at <= events[j].at
    BY <1>3, <1>6, <1>11
  <2>3. /\ Last.period = provider.period /\ Last.status = provider.status
        /\ Last.cancel = provider.cancel
    BY <1>1, <1>6, <1>11
  <2>4. \A i \in DOMAIN events :
           /\ events[i].period >= 1
           /\ events[i].kind = "paid" => events[i].status = "ACTIVE"
           /\ events[i].kind = "failed" => events[i].status = "PAST_DUE"
           /\ events[i].kind = "deleted" <=> events[i].status = "ended"
           /\ events[i].status = "ended" => i = Len(events)
           /\ events[i].status # "PAST_DUE"
    BY <2>1
  <2>5. \A i, j \in DOMAIN events : i <= j => /\ events[i].period <= events[j].period
                                             /\ events[i].at <= events[j].at
    BY <2>1, <2>2
  <2>6. QED
    BY <1>1, <1>11, <2>3, <2>4, <2>5 DEF History, Owed
<1>14. Known /\ Asked
  BY <1>1, <1>8, <1>9, <1>10 DEF Known, Fresh, Asked
<1>15. Freed /\ Reads /\ Applied /\ InPeriod
  BY <1>8, <1>9, <1>10 DEF Freed, Reads, Applied, InPeriod
<1>16. Seconds
  BY <1>3, <1>6, <1>8, <1>11 DEF Seconds
<1>17. NotDue /\ Swept
  BY <1>8, <1>9, <1>10, NoneAssumption DEF NotDue, Swept
<1>18. QED
  BY <1>12, <1>13, <1>14, <1>15, <1>16, <1>17 DEF IInv, Agrees

LEMMA Inductive == IInv /\ [Next]_vars => IInv'
<1> SUFFICES ASSUME IInv, [Next]_vars PROVE IInv'
  OBVIOUS
<1>1. CASE Renew \/ Expire \/ Collect \/ Announce \/ Activate
  BY <1>1, RenewKeeps, ExpireKeeps, CollectKeeps, AnnounceKeeps, ActivateKeeps
<1>2. ASSUME NEW h \in Handlers, HandlerStep(h) \/ HandlerFails(h)
      PROVE  IInv'
  BY <1>2, DeliverKeeps, InvoicePaidKeeps, ChangeKeeps, PlanReadKeeps, PlanWriteKeeps,
     AnswerKeeps, HandlerFailsKeeps DEF HandlerStep
<1>3. CASE AskCancel \/ AskReactivate \/ AskDowngrade \/ Schedule \/ ScheduleFails
  BY <1>3, AskCancelKeeps, AskReactivateKeeps, AskDowngradeKeeps, ScheduleKeeps,
     ScheduleFailsKeeps
<1>4. CASE SweepLists \/ SweepCancels \/ SweepDrops
  BY <1>4, SweepListsKeeps, SweepCancelsKeeps, SweepDropsKeeps
<1>5. CASE UNCHANGED vars
  <2>1. TypeOK' /\ History' /\ Owed' /\ Known' /\ Asked'
    BY <1>5 DEF vars, IInv, TypeOK, History, Last, Owed, Known, Fresh, Asked
  <2>2. Agrees'
    BY <1>5 DEF vars, IInv, Agrees, Freed, Reads, Seconds, Applied, Handled, Last, InPeriod, NotDue, Swept
  <2>3. QED
    BY <2>1, <2>2 DEF IInv
<1>6. QED
  BY <1>1, <1>2, <1>3, <1>4, <1>5 DEF Next

LEMMA Invariance == Spec => []IInv
<1>1. QED
  BY Initially, Inductive, PTL DEF Spec

\* Type correctness; with it, a paid plan is bound to a subscription at the
\* provider unless a read and a write overlapped.
THEOREM TypeCorrect == Spec => []TypeOK
<1>1. IInv => TypeOK
  BY DEF IInv
<1>2. QED
  BY <1>1, Invariance, PTL

\* Once every event is answered the row agrees with the provider, for any
\* number of events and repetitions and any order of those of different seconds
\* - not where two of one second are written out of order, a read and a write
\* overlap or a cancellation fails.
THEOREM RowFollowsProvider == Spec => []FollowsProvider
<1>1. ASSUME IInv PROVE FollowsProvider
  <2> SUFFICES ASSUME Quiet, ~excused
               PROVE  IF provider.status = "ended" THEN row.plan = "free"
                      ELSE /\ row.plan # "free"
                           /\ row.status = provider.status
                           /\ Last.kind # "failed" => row.period = provider.period
                           /\ Last.kind = "updated" => row.cancelAtEnd = provider.cancel
    BY DEF FollowsProvider, Last
  <2>1. TypeOK /\ History /\ Freed /\ Applied /\ InPeriod /\ row.known
    BY <1>1 DEF IInv, Agrees, Quiet
  <2>2. /\ upto \in Nat /\ upto <= Len(events) /\ row.status \in Status
        /\ Len(events) \in Nat /\ DOMAIN events = 1 .. Len(events) /\ Len(events) >= 1
    BY <2>1 DEF TypeOK, Row, History
  <2>3. Last.kind \in {"paid", "failed", "updated", "deleted"}
    <3>1. Last \in EventType
      BY <2>1, <2>2 DEF Last, TypeOK
    <3>2. QED
      BY <3>1 DEF EventType
  <2>4. ASSUME row.plan # "free" PROVE upto = Len(events)
    <3>1. Handled(Len(events)) /\ Len(events) \in DOMAIN events
      BY <2>2 DEF Quiet, Handled
    <3>2. Len(events) <= upto
      BY <2>1, <2>4, <3>1, HandledIsOld
    <3>3. upto \in Nat /\ Len(events) \in Nat /\ upto <= Len(events)
      BY <2>2
    <3>4. QED
      BY <3>2, <3>3
  <2>5. row.plan # "free" => row.status = Last.status
    BY <2>1, <2>2, <2>4 DEF Applied, Last
  <2>6. CASE provider.status = "ended"
    BY <2>1, <2>2, <2>5, <2>6 DEF History, Status
  <2>7. CASE provider.status # "ended"
    <3>1. row.plan # "free"
      BY <2>1, <2>7 DEF Freed
    <3>2. Last.kind # "deleted"
      BY <2>1, <2>2, <2>7 DEF History, Last
    <3>3. upto = Len(events) /\ row.status = provider.status
      BY <2>1, <2>4, <2>5, <3>1 DEF History
    <3>4. Last.kind # "failed" => row.period = provider.period
      BY <2>1, <2>2, <2>3, <3>2, <3>3 DEF InPeriod, History, Last
    <3>5. Last.kind = "updated" => row.cancelAtEnd = provider.cancel
      BY <2>1, <3>1, <3>3 DEF Applied
    <3>6. QED
      BY <2>7, <3>1, <3>3, <3>4, <3>5
  <2>8. QED
    BY <2>6, <2>7
<1>2. QED
  BY <1>1, Invariance, PTL

\* Whatever drops a row has the provider's end of the subscription behind it.
LEMMA DropFollowsEnd ==
    ASSUME IInv, [Next]_vars, row.plan # "free", row'.plan = "free", ~excused'
    PROVE  provider.status = "ended"
<1>1. IInv' /\ row.known /\ TypeOK /\ excused \in BOOLEAN
  BY Inductive DEF IInv, TypeOK, Known, Fresh
<1>2. CASE Renew \/ Expire \/ Collect \/ Announce \/ AskCancel \/ AskReactivate \/ AskDowngrade
  BY <1>2 DEF Renew, Expire, Collect, Announce, AskCancel, AskReactivate, AskDowngrade, Ask
<1>3. CASE Activate
  BY <1>1, <1>3 DEF Activate
<1>4. ASSUME NEW h \in Handlers,
             InvoicePaid(h) \/ Change(h) \/ PlanWrite(h)
      PROVE  provider.status = "ended"
  <2>1. row'.known
    <3>1. CASE InvoicePaid(h) \/ Change(h)
      <4>1. row' # row => upto' = handlers[h].event /\ handlers[h].pc = "read"
        BY <3>1 DEF InvoicePaid, Change, Writes
      <4>2. row' # row
        OBVIOUS
      <4>3. handlers[h].event \in DOMAIN events /\ upto' = handlers[h].event
        BY <1>1, <4>1, <4>2, Holds
      <4>4. upto' # 0
        BY <1>1, <4>3 DEF TypeOK
      <4>5. QED
        BY <1>1, <4>4 DEF IInv, Known, Fresh
    <3>2. CASE PlanWrite(h)
      BY <1>1, <3>2, FreeRow DEF PlanWrite, TypeOK, Row
    <3>3. QED
      BY <1>4, <3>1, <3>2
  <2>2. provider' = provider
    BY <1>4 DEF InvoicePaid, Change, PlanWrite
  <2>3. QED
    BY <1>1, <2>1, <2>2 DEF IInv, Agrees, Freed
<1>5. ASSUME NEW h \in Handlers, NEW x \in DOMAIN events,
             Deliver(h, x) \/ PlanRead(h) \/ Answer(h) \/ HandlerFails(h)
      PROVE  FALSE
  BY <1>5 DEF Deliver, PlanRead, Answer, HandlerFails
<1>6. CASE Schedule
  BY <1>1, <1>6 DEF Schedule, TypeOK, Row
<1>7. CASE ScheduleFails \/ SweepLists \/ SweepCancels
  BY <1>7 DEF ScheduleFails, SweepLists, SweepCancels
<1>8. CASE SweepDrops
  BY <1>1, <1>8 DEF SweepDrops, IInv, Agrees, Swept
<1>9. CASE UNCHANGED vars
  BY <1>9 DEF vars
<1>10. DOMAIN events # {}
  BY DEF IInv, TypeOK, History
<1>11. QED
  BY <1>2, <1>3, <1>4, <1>5, <1>6, <1>7, <1>8, <1>9, <1>10 DEF Next, HandlerStep

\* What the grace period finds past due is not paid, or the event that says
\* it is paid is not answered yet.
LEMMA OverdueIsUnpaid ==
    ASSUME IInv, ~excused, Overdue
    PROVE  provider.unpaid \/ \E e \in DOMAIN events \ done : events[e].kind = "paid"
<1>1. /\ TypeOK /\ Applied /\ row.plan # "free" /\ row.status = "PAST_DUE"
      /\ upto \in Nat /\ upto <= Len(events)
      /\ Len(events) \in Nat /\ DOMAIN events = 1 .. Len(events)
  BY DEF IInv, Agrees, Overdue, TypeOK
<1>2. upto \in DOMAIN events /\ events[upto].status = "PAST_DUE"
  <2>1. upto > 0 /\ row.status = events[upto].status
    BY <1>1 DEF Applied
  <2>2. QED
    BY <1>1, <2>1
<1>3. SUFFICES ASSUME NEW j \in DOMAIN events, j > upto, events[j].kind = "paid"
               PROVE  j \notin done
  BY <1>2 DEF IInv, Owed
<1>4. ~Handled(j)
  BY <1>1, <1>3, HandledIsOld
<1>5. QED
  BY <1>4 DEF Handled

\* Whatever ends the subscription has a cancellation, or a missing or an
\* unanswered payment, behind it.
LEMMA EndIsDue ==
    ASSUME IInv, [Next]_vars, provider.status # "ended", provider'.status = "ended", ~excused'
    PROVE  \/ provider.cancel
           \/ provider.unpaid
           \/ \E e \in DOMAIN events \ done : events[e].kind = "paid"
<1>1. provider \in Provider /\ TypeOK
  BY DEF IInv, TypeOK
<1>2. CASE Expire
  BY <1>2 DEF Expire
<1>3. CASE Renew
  <2>1. provider' = [provider EXCEPT !.period = @ + 1, !.unpaid = TRUE]
    BY <1>3 DEF Renew, Turns
  <2>2. provider'.status = provider.status
    BY <1>1, <2>1 DEF Provider
  <2>3. QED
    BY <2>2
<1>4. CASE Collect
  BY <1>1, <1>4 DEF Collect, Turns, Provider
<1>5. CASE AskCancel \/ AskReactivate
  <2>1. PICK c \in BOOLEAN : provider' = [provider EXCEPT !.cancel = c]
    BY <1>5 DEF AskCancel, AskReactivate, Turns
  <2>2. provider'.status = provider.status
    BY <1>1, <2>1 DEF Provider
  <2>3. QED
    BY <2>2
<1>6. CASE SweepCancels
  <2>1. Turns("deleted", [provider EXCEPT !.status = "ended"]) /\ Excuse(~Overdue)
    BY <1>6 DEF SweepCancels
  <2>2. ~excused /\ Overdue
    BY <2>1 DEF Turns, Open, Excuse
  <2>3. QED
    BY <2>2, OverdueIsUnpaid
<1>7. CASE \/ Announce \/ Activate \/ AskDowngrade \/ Schedule \/ ScheduleFails
           \/ SweepLists \/ SweepDrops \/ UNCHANGED vars
  BY <1>7 DEF Announce, Turns, Activate, AskDowngrade, Schedule, ScheduleFails, SweepLists,
     SweepDrops, vars
<1>8. ASSUME NEW h \in Handlers, HandlerStep(h) \/ HandlerFails(h)
      PROVE  FALSE
  BY <1>8 DEF HandlerStep, HandlerFails, Deliver, InvoicePaid, Change, PlanRead, PlanWrite,
     Answer
<1>9. QED
  BY <1>2, <1>3, <1>4, <1>5, <1>6, <1>7, <1>8 DEF Next

\* A workspace that pays keeps its plan: no interleaving of webhooks, plan
\* changes and the grace period drops it, whatever their number.
THEOREM OnlyTheUnpaidAreDropped == Spec => OnlyUnpaidIsDropped
<1> DEFINE Justified ==
             /\ row.plan # "free" /\ row'.plan = "free" /\ ~excused' =>
                  provider.status = "ended"
             /\ provider.status # "ended" /\ provider'.status = "ended" /\ ~excused' =>
                  \/ provider.cancel
                  \/ provider.unpaid
                  \/ \E e \in DOMAIN events \ done : events[e].kind = "paid"
<1>1. IInv /\ [Next]_vars => [Justified]_vars
  BY DropFollowsEnd, EndIsDue
<1>2. QED
  BY <1>1, Invariance, PTL DEF Spec, OnlyUnpaidIsDropped

=============================================================================
