# TLA+ models of the concurrent core of onetab-ai

Formal models of the parts of this repository where things happen concurrently
and fail independently: reliable delivery of a user's events from the API nodes
to browser tabs, the connection of a tab, its queue of actions taken offline
and its catch-up after a gap; one run of a workflow with its approvals and
controls; and billing, from a checkout to the end of a subscription. TLC checks every
module on small instances; TLAPS proves what the `...Proofs` modules state, for
all values of the constants.
`PROJECT.json` lists the runs, maps every definition to its source lines and
names the hazards; this file says how it all fits together.

Paths below are relative to the repository (`libs/...` is `src/libs/...` in
`PROJECT.json`).

## 1. Inventory

The repository is a monorepo: a NestJS API that runs as several nodes with a
shared Redis and a Postgres database, browser and native applications, and
shared libraries. Most of the API is request handlers over the database. State
that several actors change concurrently is in these components:

| component | source | state | operations |
|---|---|---|---|
| Pending delivery store | `libs/api/realtime/src/lib/pending-delivery.service.ts` | one hash per user in the cache (id -> payload, attempts, due time, expiry), a status record per delivery | `enqueue`, `collectDue` (finalizes what expired or ran out), `recordAttempt`, `ack` |
| Realtime gateway | `libs/api/realtime/src/lib/realtime-gateway.service.ts`, `realtime.controller.ts` | per node and in memory: connections, connections per user and per workspace, users with pending deliveries, the sweep's flag | register, unregister, evict, deliver, broadcast, flush, sweep |
| Cache service | `libs/api/cache/src/lib/cache.service.ts` | Redis, or a map per node | atomic hash operations, pub/sub, locks |
| Realtime client | `libs/shared/realtime/src/lib/realtime-client.ts` | per tab: connection state, EventSource, generation, timers, queued acks | connect, disconnect, reconnect, handle a frame, ack |
| Event bus | `libs/shared/realtime/src/lib/realtime-event-bus.ts` | per tab: handlers, the last 500 ids | emit with de-duplication |
| Offline queue | `libs/shared/sync/src/lib/offline-queue.ts` | per workspace: a list in localStorage, a mirror per tab | enqueue, replay |
| Background sync | `libs/shared/sync/src/lib/background-sync-manager.ts`, `sync-leader.ts`, `sync-catchup.ts` | per tab: workspace, leadership, a catch-up in flight; shared by tabs: the cursor | reconcile, replay, switch workspace |
| Sync API | `libs/api/sync/src/lib/sync.service.ts` | none (reads the database) | the digest of changes since a time |
| Workflow engine | `libs/api/automations/src/lib/workflow-engine.service.ts` | run rows: status, resume point; drivers in memory | start, walk, pause, resume, cancel, finish |
| Approvals | `libs/api/ai/src/lib/approvals.service.ts` | approval requests | request, decide |
| Checkout, coupons, credits | `checkout.service.ts`, `promotion.service.ts`, `credit.service.ts` in `libs/api/workspace/src/lib/billing/` | checkout sessions, coupon redemptions and their counter, credit transactions, the workspace's subscription | create, cancel, expire, complete, credit |
| Subscription lifecycle | `billing-webhook.service.ts`, `billing.service.ts`, `billing-lifecycle.service.ts` in the same directory | the subscription row, the processed events | the provider's events, scheduled changes, cancel, reactivate, grace period |
| Presence | `libs/api/realtime/src/lib/presence.service.ts` | connections per user | connect, disconnect, heartbeat, sweep |
| Calls | `libs/api/work-tools/src/lib/calls.service.ts` | one live call per conversation | start, join, end |

How they interact: a domain event makes a notification, which calls the
gateway's `deliverToUser` on some node. That node parks the event in the store,
pushes it to its own connections and publishes it; the other nodes push it to
theirs. Each node that saw the event tracks the user and retries from a timer.
A new connection gets everything still pending flushed to it. The tab runs its
handlers, then posts an ack to any node, which deletes the entry. When the
stream drops, the client reconnects; when it connects, background sync catches
up from its cursor and replays the offline queue. A workflow run is a task in
the memory of one node that shares the run's row with requests on any node; a
run that waits for a person ends, and the decision starts a new driver. A
payment provider takes the money of a checkout and calls back, in any order and
until it is answered; each callback reads rows and writes them later.

What is hard here is that nothing is under a lock. Every `await` of a node is a
point where other requests and timers of the node run; the nodes share only
the cache and the database; localStorage is shared by tabs that each keep a copy. The hazards this
creates are in `PROJECT.json` (40 of them, each at its line), with the
properties that would catch them. In short:

* **Store**: snapshots are used after an await (to delete, to count), the cap is
  checked and used in two steps, and three ways of removing an entry race.
* **Gateway**: a flush races an announcement; tracking is decided on stale
  reads; pub/sub messages get lost; nodes crash; acks are lost or late.
* **Client**: a ticket arrives after the client moved on; `reconnect` depends on
  states that other handlers set; timers and browser events come in any order.
* **Queue**: the list is held across an await; a crash comes between the
  server's commit and the save; tabs do not see each other's writes.
* **Sync**: the digest's time, the events on the stream, a pending batch and the
  client's own clock all move one cursor; a workspace switch drops the batch.
* **Workflow**: pause, resume, cancel and decide read the run's row and write it
  without looking again, while a driver walks; a resume point and the pending
  branches of an approval have to hold whatever was not started.
* **Billing**: payment, expiry, cancellation and supersession of a checkout race
  for its outcome and its coupon; the credit follows in a second transaction;
  events of a subscription overtake each other and their handlers overlap.

## 2. Modules

| module | models | extends |
|---|---|---|
| `PendingDelivery` | the store, for one recipient | |
| `RealtimeClient` | one tab's connection state machine | |
| `ReliableDelivery` | gateway nodes, store, pub/sub, tab with its acks | `PendingDelivery` |
| `DeliverThenDelete` | what reliable delivery promises, abstractly | |
| `OfflineQueue` | the queue in several tabs of a browser, and the server | |
| `SyncCatchup` | the catch-up of one tab, its connection, batch and cursor, the server's digest | |
| `WorkflowRun` | one run: drivers, approvals, controls | |
| `Checkout` | checkout sessions with coupons and credits, activation, webhooks | |
| `Subscription` | a paid subscription: provider, its events, plan changes, grace period | |
| `MC...` | symmetry, the graph of a run, constraints | the module they instantiate |
| `PendingDeliveryProofs`, `RealtimeClientProofs`, `SyncCatchupProofs`, `WorkflowRunProofs`, `CheckoutProofs`, `SubscriptionProofs`, `OfflineQueueProofs` | theorems (section 4) | the module they are about |
| `ReliableDeliveryProofs` | theorems about the composition | `ReliableDelivery`, `PendingDeliveryProofs` |

### PendingDelivery

One action is one round trip to the cache; between two of them everything else
may happen. `call[c]` is the stack of a method call: where it is, and what it
learnt before its last await (`snap`, the result of `hashGetAll`; `at`, its
`now`). So `enqueue` is `EnqueueLen` (size check), `EnqueueReject` or
`EnqueueStore`, `EnqueueStatus`; `collectDue` is `CollectRead`, then
`FinalizeDel` and `FinalizeStatus` per entry, then `CollectReturn`;
`recordAttempt` is `AttemptBegin` (the caller passes one of the entries it got)
and `AttemptSet`; `ack` is `AckBegin`, `AckDel`, `AckStatus`. `Tick` and
`KeyExpire` are time and the cache's own TTL. A payload is the number of the
emission that made it. The order in which `collectDue` visits entries is left
open (a hash has none); `retryDelayMs` may return anything its jitter allows.

### ReliableDelivery

Composes the store with everything that calls it. `task[c]` says what a store
call is for (deliver, count, flush, sweep, ack) and which node runs it; a
gateway handler and the store step it is glued to (there is no await between
them) are one action. `reg`, `wire`, `tracked`, `orphan` are the gateway's maps
(`orphan` marks a retry pass whose `Set` of connections was replaced in the
map); `bus` is pub/sub; `tab` is the client with its ack queue. A crash of a
node takes its maps and calls; a reload of the tab takes its queue of acks. A
tab reconnects at will, to any of `Edges`, while the server may still hold its
old connection; `reg[n]` is the set of the user's connections at a node, and the
order in which they came, which says who is over the cap, is that in which the
tab used them (`tab.used`). What may go wrong in a run is named by `Faults` and
counted by `MaxFaults`. A stalled connection (`Backlogged`) is evicted when a
frame is pushed to it. Time stands still: expiry is the store's own matter.

Three histories say what the properties except: `missed` has the announcements
that got lost, `overtaken` the entries that were there when a retry pass which
had read the store before them stopped tracking the user; `pushed` is what was
written to which connection.

One node's replies from the cache arrive in order in the program; the model
lets them interleave freely, which only adds behaviours.

### DeliverThenDelete

Stored, tried, handled, deleted: an entry is deleted only when a client handled
it or its tries are used up, and is handled only if it was stored. No calls, no
connections. `ReliableDelivery` implements it with `stored <- Pending`,
`tries <- recorded`, `MaxTries <- MaxAttempts`.

### RealtimeClient

A handler of the class runs to completion, so it is one action; the methods it
calls are functions on `World` (the object, its live EventSources, whether a
ticket was requested), composed in the order of the calls. `generation` guards
what an answered ticket request may do. A failed ticket, a stream error and a
browser event each cost one of `MaxFaults`.

### OfflineQueue

`storage` is the localStorage key, `memory[t]` the mirror of a tab, `held[t]`
the list a replay keeps across the executor's await. The server applies a
request or not, independently of what the tab hears. Closing a tab loses its
mirror and its lock; leadership goes to a tab that waits for the lock. The filter
of `enqueue` removes one action or none (`Without`): no list has two of a key.

### SyncCatchup

A change is a committed row; it reaches the tab as an event (`wire`, `batch`)
or in a digest, and its kind says by which of the two it may (`via`). A digest
reads six tables for rows that still exist: deletions, comments, invitations,
integrations or settings are never in one; a meeting has no event. `known` is
what the tab invalidated queries for. `Stamp` and `Read` are the two halves of
`getChanges`, `CatchupEnds` is `applyDigest` with both writes of the cursor,
`Reconcile` the start of a catch-up, which does nothing while one is in flight,
and starts ten minutes ago - here, at any time - when there is no cursor (`Since`).
`Flush` is the batcher's timer, `AgentEvent` the events with a timer of their
own: both call `markSynced`. `Resume` is the triggers by visibility, leadership
or hand.

The connection is that of `RealtimeClient`, cut down to what a gap depends on:
the client's `state`, and its `stream` from the ticket to the open EventSource.
`Switch` is `setWorkspace` of the manager and of the client, which closes the
stream only when connected or connecting, and whose `connect` then opens none
(`Reconnect`); in any other state the stream of the old workspace stays. Which
workspace it was opened for is not in the model because no event depends on it:
the gateway writes the broadcast of a workspace to every connection of its
members (`realtime-gateway.service.ts:444-459`), its map of connections per
workspace is kept and never used, and the tab drops what is not of the workspace it shows.

### WorkflowRun

`drivers[d]` is the local state of `runGraph` (queue, done, activated, the batch
that runs) and where it is among its awaits; or the handler of a decision.
`Boundary` picks the next batch, looks at the run's status and starts the batch
or leaves, `Mark` is `rememberResumePoint`, `AskApproval` and `Branches` an
approval step, `Finish` is `finishRun`. `people[p]` is a control between its read
and its write. A step follows all its edges. `excused` is the set of ways in
which calls overlapped that the code does not handle (section 5): `"stale"`,
`"early"`, `"twice"` (a request decided by two people), `"noPoint"`, `"crash"`.
The graph is any finite acyclic one.

### Checkout

A request is `Quote` (its reads) and `Open` (its transaction); a webhook delivery
`Deliver`, `Apply...`, `Credit`, `Answer`, with `ActivateBegin`, `ActivateCommit`
and `Retire` for a plan: the transaction reads the subscription without a lock,
so another activation may commit between. `Locked` is the row lock of the flip.
`pay[s]` and `billing` are the provider: its page, and the subscriptions that
charge. `lost` records follow-ups that a crash or an error skipped.

### Subscription

`provider` is the truth, `events` what it tells, in order of creation; a handler
reads the row when it begins (`sub`) and writes it in a later action. An event
carries the second it was created in (`at`), the same as the event's before it
or a later one, and `Stale` compares these, as `isStale` does; `upto` is the number of
the newest event the row accounts for, so that an older one of the same second
can be told (`Tied`). `Announce` is a second update that follows a payment.
`Init` has the first payment, with or without the event of the subscription's
creation before it, which the program reads as an update too
(`stripe.provider.ts:314`). The activation is `Checkout`'s; it leaves the time of
the completed checkout in the row. `Stale`, `Found`, `Ignores` are the guards of
the handlers, `PlanRead` and `PlanWrite` are `applyScheduledPlan`, `Ask...` and
`Schedule` the two halves of a plan change, the `Sweep...` actions
`enforcePastDueGrace`. A switch of plan keeps what `PlanRead` read (`plan`,
`due`), as the write does not look again; `excused` records a write that the row
has moved away from, or one that an event of the same second had overtaken.

## 3. Runs

"pass" runs finish without an error; every property of theirs is also broken by
a mutated form of some definition (`PROJECT.json`, "mutants"). "violation" runs
show where the code does not do what a comment says (section 5).

| run | checks | question |
|---|---|---|
| `store_races` | TypeOK, AttemptsBounded, CapOvershootBounded, LeavesOnlyWhenDone, OutcomeFinal, NeverResurrected | calls, two at a time, race for one entry while time passes: does it leave only acked, expired or exhausted, does one call decide the outcome, does a late attempt bring it back or pass the maximum? How far do two enqueues together pass the cap? |
| `delivery_gap` | NoGap | two nodes, a crash or a lost message: does an entry fall between flush and live push? |
| `delivery_stranded` | NeverStranded | an id that is emitted again, connections that are evicted or fail to register and come back: is every stored entry left to a sweep? |
| `delivery_full` | AllTypeOK, DeliversThenDeletes | does it all implement `DeliverThenDelete`, with a full store, ghosts of old connections, stalls, reloads and lost acks? |
| `delivery_retry` | RetriedUntilSettled | is an entry of a connected tab settled in the end, whatever becomes of its acks? |
| `client` | TypeOK, NoOrphanStream, DisconnectedMeansClosed, LossRecovers | is a stream ever leaked or doubled, or alive after a disconnect? Does a lost one come back through failures, sign-outs and offline periods? |
| `queue_one_tab` | TypeOK, KeptUnlessMidReplay, InOrder, DrainsUnlessMidReplay | what may one tab's queue lose, does it keep its order, is every action settled in the end? |
| `sync` | TypeOK, NothingMissed, ComesToRest | a connected and quiet tab: does it lack a change, after a loss, a stall, an offline period, a failed catch-up and visits to another workspace in any state of the connection? Does it come to rest? |
| `workflow` | TypeOK, CompletedMeansAllRan, OneDriver, WaitingIsAnswerable, JoinsRunLast, OutcomeFinal, Settles | pauses, resumes, cancels and decisions beside the driver: is a completed run complete, driven once, its outcome final, a waiting run answerable, a join last? |
| `checkout` | TypeOK, SlotsAccounted, SlotFollowsCheckout, CreditedOnce, NoDoubleCharge, OutcomeFinal, PaidIsHonoured | two checkouts with one coupon, racing webhooks: slots accounted for, credits booked once, nobody charged twice, payments honoured? |
| `subscription` | TypeOK, FollowsProvider, OnlyUnpaidIsDropped, AllAnswered | events of different seconds in any order, and all of them repeatedly: does the row end up as the provider's, does a paying workspace keep its plan, is each event answered? |
| `subscription_downgrade` | ScheduleApplied (violated) | is a scheduled downgrade applied once it is due? |

**Bounds.** Every bound is a constant and is used in a guard.

* `Ids`, `Callers`: entries do not influence each other except through the cap.
  `store_races` has three ids, a cap of one and the constraint `OneInDepth`: one id is
  emitted again and again while time passes, or several once each, before any is
  tried. Three ids and two calls are two enqueues between the size check and the
  store together, the cap passed, and a third that is refused. Two calls at a time
  are what a race for an entry takes: one entry is removed or updated once, by one
  of them. (It was checked once with one id, three calls and one emission.)
* `MaxEmits`: 2 in `store_races` and `delivery_stranded`, so that an id is emitted
  again while calls work on its first emission; 1 in the other composed runs. The
  theorems of section 4 hold for any number, but for the implementation of
  `DeliverThenDelete`, which is about ids emitted once (as the abstract module
  is; the gateway makes a new id for an event that brings none).
* `MaxNow`: 3, with a TTL of 1, gives entries that are fresh, expired and kept
  past the key's TTL, of both emissions. The composed runs keep time still
  (`MaxNow = 0`, delays 0 where retries must happen): expiry is the store's own
  matter, checked there, and a standing clock with zero delay makes every entry
  due, the worst case for the retries.
* `MaxAttempts`: 1 or 2, so that runs reach exhaustion; 2 where an entry has to
  survive its first push for the question to arise.
* `Nodes`, `Conns`: two nodes where messages between them matter; two
  connections so that there is a reconnect, or an old one can linger beside the
  new. With `MaxConnsPerUser = 1` both the cap and eviction occur. Old ones that
  linger while an id is emitted again make `delivery_stranded` three times as
  large (checked once, with `Faults = {"leave"}`).
* `MaxFaults`: each fault kind occurs, and two or more of them in sequence.
* `MaxGen`: 20 connection attempts are more than six faults can cause.
* `MaxActions = 3`, `MaxQueue = 2`: the queue overflows; three keys, one of them
  without executor; two crashes (`MaxClosed`).

* `sync`: two workspaces, two changes, one fault and two visits: a change can
  be missed on the stream, wait in the batch, and lie in a digest at once, around
  a switch there and back, in any state of the connection. A change is of a kind
  that both ways tell of, or only an event; one that only a digest tells of is
  committed like one made while there is no stream, and is left to the theorem,
  which has any `Kinds`.
* `workflow`: the graph `start -> {join, long, ask1}, long -> ask2 -> join` has an
  approval beside a branch, and a join with a direct and a long way into it. Four
  controls are pause, resume and two decisions, or two pauses and their resumes
  (checked once with five as well); four approval requests, so that a step may
  ask twice; one failing step or crash.
* `checkout`: two sessions, by two users with one slot between them, two requests
  and two webhook deliveries at a time, one fault: each pair of supersession,
  payment, expiry and cancellation meets on one session. A plan may be bought that
  is the current one already (for another interval, or when it ends or is past due).
* `subscription`: four events over two periods, two handlers at a time: a renewal
  with its failed and its later payment, or with a cancellation that is due, and the
  events around the activation. The constraint `OneExtra` leaves one of a plan
  change, a fault and a pair of events in one second to a run; two of them at once
  are left to the theorems. After an excused overlap only what has begun goes on
  (`Open`), as no property but `AllAnswered` says anything from there on.

The constraints cut off states the bounds alone would reach; a liveness property is
then only checked of the behaviours that stay inside (`AllAnswered` under
`OneExtra`, which a behaviour leaves only by a second extra).

Deadlock is checked where the system cannot stop (the queue) and off elsewhere:
with its bounds used up, a store, a connection or a run has nothing left to do.

**Fairness.** Only the runs of liveness properties use it.

* `RealtimeClient`: an armed timer fires; a ticket request and an opening stream
  are not answered by failure for ever (failures are bounded by `MaxFaults`).
  Nothing is assumed of the user or the browser's events.
* `ReliableDelivery`: started promises resolve (`Work`), messages that are not
  lost arrive, the tab reads its stream and notices when it is closed. The sweep
  and the scheduled flush get strong fairness, because the only thing that keeps
  disabling them is that all `Callers` of the model are busy, which is a bound of
  the model and not of a node. The ack post gets none: `RetriedUntilSettled`
  holds for a tab that never acks.
* `OfflineQueue`: promises settle, a free lock is granted, the browser comes
  back online, and the stream connects again and again (strong fairness of
  `Trigger`: going offline may disable it in between).
* `SyncCatchup`: requests are answered or fail, events arrive, timers fire (one
  weak fairness for all of them). Nothing is assumed of people or the connection.
* `WorkflowRun`: a driver or a decision's handler goes on while its process lives.
  People need not do anything.
* `Checkout`: the provider delivers an event again until it is answered, a handler
  that does not die runs to its end. A customer need not pay.
* `Subscription`: the same, jointly for the handlers. The provider need not create
  events, and the sweep need not run.

**Restricted claims.** Some properties are weaker than one would like, because
the code does not keep the stronger form (section 5 says how it fails):

* `LeavesOnlyWhenDone` and `OutcomeFinal` are about ids emitted once: a stale
  finalizer can delete the fresh entry of a re-emission.
* `KeptUnlessMidReplay` and `DrainsUnlessMidReplay` except actions taken during
  the await of a replay, and are about one tab: the leader
  does not read what other tabs write.
* `NoGap` excepts announcements that got lost (by pub/sub, or with the node that
  was to make them). `RetriedUntilSettled` and `NeverStranded` except those and
  the entries that a retry pass with an older read overtook: it stops tracking
  the user. They are checked on one node; `NeverStranded` is proved for any
  number.
* `LossRecovers` excuses the events in which `reconnect` closes a stream that
  nothing opens again.
* `NothingMissed` is about the changes that both an event and a digest tell of: what
  only events tell of is missed in a gap, what only digests tell of waits for the next
  one. It excepts failed catch-ups, the changes that `markSynced` put behind the
  cursor unseen and those before the ten minutes of a first catch-up (`skipped`), and
  is about one tab. It says nothing of a tab that is left without a stream.
* The properties of `WorkflowRun` hold until calls overlap in a way the code does
  not handle, which `excused` records with its kind: a control or a decision's
  handler that writes on a read gone stale, a decision before the run waits, a
  resume without a resume point while a driver is at work or after it ended
  badly, a crash. A request that two people decide is excused for
  `CompletedMeansAllRan` and `JoinsRunLast` only: it may lose branches, while one
  driver, an answerable wait and a final outcome survive it.
* `NoDoubleCharge` and `PaidIsHonoured` except what `lost` records (a crash or an
  error between a commit and what follows it, two activations at once) and
  checkouts that were closed before they were paid.
* `FollowsProvider` excepts two events of one second that are written out of order:
  the provider's times are whole seconds (`stripe.provider.ts:264`) and `isStale` is
  a strict `<` (`billing-webhook.service.ts:108-109`), so that the one that is written
  last wins. It and `OnlyUnpaidIsDropped` except overlaps of one handler's
  read and write with another's, a cancellation that failed, and a reactivation
  whose write failed or had not come when an invoice applied the schedule; the
  period and the cancellation flag are only claimed when the newest event carries
  them. That the grace period ends an unpaid subscription is claimed up to
  payments whose event is on the way.
* That an action is applied once is not claimed: replay is at-least-once.

## 4. Proofs

TLAPS checks the theorems of eight modules, for every value of the constants: any
number of nodes, sessions, handlers, calls, events, tabs, faults, any acyclic graph. Each
module defines the inductive invariant first (`IInv`, or a named part of it per
theorem), then lemmas about the operators and what one step does, one lemma per
action or property, and the theorems at the end. Each invariant was first
checked by TLC, on instances a little larger than the runs where they are small.

The assumptions are those the modules state about their constants: bounds are
natural numbers, `None` is none of the values beside it, there is at least one
workspace (`SyncCatchup`), one driver (`WorkflowRun`), one call
(`PendingDelivery`), and the graph of a run is finite and acyclic, in the form
that every set of steps has one that comes after none of the others.

**`PendingDeliveryProofs`**

* `TypeCorrect`: `TypeOK` is inductive because it includes `WellFormed`: a call
  past the point where it chose an entry has that entry in its snapshot.
* `LateAttemptNeverResurrects`: `NeverResurrected`, from `OnlyStoreFills`, which
  goes through the actions that write the hash.
* `AttemptsStayBounded`: the bound alone is not inductive, because `recordAttempt`
  writes the caller's copy plus one. `HeldLive` says that whatever a call may still
  record an attempt for was live in its snapshot.
* `CapOvershootIsBounded`: `CapInv` counts the entries and the calls between the
  size check and the store together: passing the check establishes it, storing
  trades one for the other, everything else only shrinks the sum.
* `OutcomesAreFinal`: of a delivery emitted once there is at most one of its
  entry, a call that settles it, and its outcome (`Token`): whoever wins the
  delete carries the token to the status.
* `NothingLeavesEarly`: `LeavesOnlyWhenDone`. A finalizer deletes by its snapshot,
  the cache by the key's time. `Copies` ties every copy a call holds to the stored
  entry (same creation, no more attempts than were recorded, no store to come),
  `Over` says what a finalizer has to do was over in its snapshot, and `Clock`
  that the key outlives its entries.

**`ReliableDeliveryProofs`**: all safety properties of the composition, on the
store's proofs. A step of the gateway is a step of the store for one call
(`Uses`), leaves the store alone, or makes it forget calls and results of calls
(`StoreUses`); forgetting keeps the store's invariants, so that they, and what
they imply, hold of the composition too.

* `AllTypeCorrect`: `AllTypeOK`, which with `Fits` (a task's kind says where its
  call is) and `Registry` (a connection is at one node, a flush at its
  connection's) is what the rest stands on.
* `CapOvershootUnderGateway`, `StorePromisesUnderGateway`: what the store promises
  when anyone may call it at any time (`CapOvershootBounded`, `LeavesOnlyWhenDone`,
  `NeverResurrected`, `OutcomeFinal`) it keeps with the calls the gateway makes.
* `NoGapBetweenFlushAndPushes`, `NobodyIsStranded`: `NoGap` and `NeverStranded`
  are one invariant, `Minded`. For each stored entry and each registered
  connection someone will push the entry (`Covered`), and the node tracks the
  user or something is under way that makes it (`Watched`): a call that is to
  announce it, a message, a scheduled flush, or a flush that read the entry. One
  lemma per action hands the duty on (`NetStays`, `CallStays`). The two cannot be
  proved apart: a flush tracks the user only because it collected something.
* `ImplementsDeliverThenDelete`: with `MaxEmits = 1`, every behaviour of the
  composition is one of `DeliverThenDelete`. `OnlySent` says that nothing - no
  call, message, frame, handled event or queued ack - knows of an entry before it
  was stored, and that acks are of handled events. `StepMapped` maps
  `EnqueueStore` to `Store`, `AttemptSet` to `Try`, a deletion that finds the entry
  to `Delete` and `Handle` to `Handle`; every other step stutters.

**`RealtimeClientProofs`**: `NoStreamIsLeaked`, `DisconnectedIsClosed`. The
handlers are compositions of functions on a world, so the invariant is stated for
a client in the middle of a handler (`Sound`), every method is shown to keep it,
and the handlers follow. `AloneWhileFetching` is what `generation` is for: while
the ticket of the current generation is fetched there is no stream.

**`SyncCatchupProofs`**: `NothingIsMissed`, for any kinds of change. Of what both
ways tell of, everything behind a cursor is known or skipped (`BehindCursor`), a
catch-up loses nothing between the time it starts from, the digest's time and its
answer (`CatchupIsComplete`), and what the tab lacks is on its way (`OnItsWay`): on
the stream that is open, in the batch, in the catch-up in flight, or behind the
opening of a stream, which starts one.

**`OfflineQueueProofs`**: `ReplaysOldestFirst` holds in every tab, however many
there are: a list is in the order of its ids whoever saved it (`Sound`), so what a
tab queues while it waits is younger than the head it sent (`From`). The operations
on lists have a lemma each. `OneTabLosesNothingElse` has the hypothesis `OneTab`:
with two, the leader saves its mirror over what the other queued (section 5). Its
invariant `Kept` says that the mirror is the storage, and that while a pass waits
the storage has nothing but what the pass holds and what was taken since.

**`WorkflowRunProofs`**: `OneDriverAtATime`, `WaitingCanBeAnswered`,
`NothingIsLeftOut` (`CompletedMeansAllRan`), `OutcomesStand`. A run is in one
place: a driver, an open request, the handler of its decision, or a resume point
(`OneEngaged`, `OneToken`); and whatever has not run comes after what lies there
(`NothingLost`, with `Covers`: every set closed under successors that holds the
work holds all that has not run). Acyclicity says that all comes after the start
steps, and that no step is an ancestor of its own. `JoinsComeLast` (`JoinsRunLast`)
has an invariant of its own, `JoinsDone`: once a join has run, whatever the run
holds, wherever that is, is apart from the join's ancestors. They are a closed
set, so that what comes after steps that are apart is apart too; and a join
starts only when the driver that starts it, the one place where the run is, has
nothing left of them. `Ancestors` is stated as the least closed set that holds a
step's sources; a recursion over paths would need an induction that the
installed provers cannot do.

**`CheckoutProofs`**: `CouponIsAccounted`, `SlotsFollowCheckouts`,
`CreditsAreBookedOnce`, `NobodyIsChargedTwice`, `OutcomesAreFinal`. What makes
them inductive is the row lock (`OneActivation`) and that a handler is where its
session's status and payment let it be (`HandlersFit`).

**`SubscriptionProofs`**: `RowFollowsProvider`, `OnlyTheUnpaidAreDropped`. The
events are the provider's history (`History`, `Owed`) and their times do not
decrease (`Seconds`); the row's time is that of event `upto` or lies between it
and the next, so a write that is neither stale nor tied is of a newer event, and
a paid row is what the newest event it accounts for says (`Applied`,
`InPeriod`); a handler's read is older than the row (`Reads`), a scheduled end
is not due before the provider ends the subscription (`NotDue`), and a row is
only free after that (`Freed`).

**What the proofs found.** Three attempts failed because the property was false
beyond the bounds of its run; the models and properties were corrected, and TLC
confirms them with larger bounds.

* `WorkflowRun`: a request decided by two people was not excused. The second
  decision's resume may overtake the wait of the first; a step then has two open
  requests and the branches go to the wrong one.
* `Subscription`, with five events: after a reactivation whose write fails, the
  FREE plan is applied while the provider goes on charging; and the grace period
  may cancel at the provider after the payment and before its event.

* `ReliableDelivery`, with a second delivery: a retry pass reads an empty store,
  the delivery is stored, announced and pushed, and the pass then stops tracking
  the user (`realtime-gateway.service.ts:632-636`). Nothing retries the entry until
  another delivery or connection comes. The run had one delivery per id and node
  and could not see it; `overtaken` now records it, and the run emits twice.

**Model-checked only.** Liveness under fairness and `ENABLED` are beyond TLAPS
here: `LossRecovers`, `RetriedUntilSettled`, `DrainsUnlessMidReplay`, `PaidIsHonoured`,
`Settles`, `ComesToRest` and `AllAnswered` are TLC's alone. Every invariant and
action property of a passing run is proved. That the composition implements
`DeliverThenDelete` is proved for ids emitted once and with the composition's
standing clock: with time, expiry deletes what nobody handled, which
`LeavesOnlyWhenDone` allows and the abstract module leaves out.

## 5. Where the code and its words differ

One difference has a violation run, whose counterexample is an execution of the
code: `subscription_downgrade`. A scheduled downgrade is applied by
`invoice.paid` only if that event itself advances the period
(`billing-webhook.service.ts:196`), but `customer.subscription.updated` advances
it too (line 240) and comes first when a subscription renews. The comment at
line 288 says "Applies a scheduled downgrade once its effective date has
arrived", and `billing.service.ts:517` "Schedules a move to a lower plan at the
end of the current period".

Others showed up while the models were written. They are why some properties are
restricted, and the modules' actions contain them; no run is kept for them.

| the code | the words |
|---|---|
| re-emitting a stored id into a full queue marks it failed | "`failed/queue_full` for new entries" (`REALTIME_DELIVERY_AUDIT.md:32`) |
| a stale finalizer deletes the fresh entry of a re-emission | it stays until acked, expired or exhausted (`pending-delivery.service.ts:9-11`) |
| two pushes recorded from one snapshot count once | "Times it has been pushed to a live connection." (`pending-delivery.service.ts:31`) |
| a lost pub/sub message ends retries on the user's node | "is retried ... while the user is connected" (`realtime-gateway.service.ts:488`) |
| after a heartbeat timeout, `reconnect` closes the stream and opens none | "connection timeout recovery" (`realtime-client.ts:28`) |
| a switch while reconnecting keeps the old scope | "Dynamic workspace subscription scoping" (`realtime-client.ts:29`) |
| becoming visible while the stream opens closes it for good | "Automatic reconnection" (`realtime-client.ts:27`) |
| a crash between the server's commit and the save replays an applied action | "does not replay already-applied actions" (`offline-queue.ts:148-149`) |
| the replay saves the list it held across the await, over what was enqueued meanwhile | "instead of the action silently vanishing" (`offline-queue.ts:82`) |
| a retry pass untracks the user on a stale read, and a delivery that was announced and pushed meanwhile is not retried | "if it never lands the server simply re-delivers" (`realtime-client.ts:284-285`) |
| a switch while connected closes the stream; `connect` returns, as the state is still connected | "re-establishes stream with new workspace scope" (`realtime-client.ts:120`) |
| a catch-up or a flush has moved the cursor past what a dropped batch held | "Safe to drop: the cursor only advances on flush" (`background-sync-manager.ts:176-177`) |
| a digest reads six tables, for rows that still exist: deletions, comments, invitations, integrations and settings are in none | "What changed in this workspace since `since`" (`sync.service.ts:19`) |
| of two events of one second the one that is written last wins | "True when this event is older than state already applied (out-of-order delivery)." (`billing-webhook.service.ts:107`), "lets handlers ignore stale, out-of-order deliveries" (`payment-provider.ts:46`) |
| two open checkouts of a workspace, when two requests list the open ones before either inserts | "One open checkout per workspace" (`checkout.service.ts:212`) |
| a shared step that is no merge runs again after a pause | "Each step runs once per run" (`workflow-engine.service.ts:1143`) |
| the leader never re-reads the storage | "followers just enqueue and let the leader drain" (`offline-queue.ts:64`) |

Weaknesses that contradict no words, found in the same way:

* Sync: `markSynced` writes the client's time, so that changes committed after
  the digest was read, or still on the stream when it breaks, lie before the
  cursor; a reconcile is dropped while another is in flight; the tabs of a
  browser share a cursor but not what they know; after a failed catch-up the next
  event moves the cursor over the gap; a first catch-up, without a cursor, looks back
  ten minutes, however long ago the tab read what it shows.
* Workflow: `resumeRun`, `cancelRun` and `resumeAfterApproval` write the status
  without a condition, over a newer one; two people who decide one request both
  resume the run, in turn or over each other: a step may then ask again while its
  first request is open, and `rememberPendingBranches` writes the branches to the
  first pending one of the step that it finds (`workflow-engine.service.ts:1535`),
  whichever driver asked; a decision that comes before the run waits is lost, or misses
  the pending branches; a resume without a resume point sets a run COMPLETED
  that is still driven or failed; a crash leaves a run RUNNING for ever.
* Checkout: a top-up whose handler dies between the flip and the credit, or
  whose credit fails, is never credited, as the retry finds the session
  completed; of two activations at once the first one's provider subscription
  goes on charging, also when a handler dies before `cancelNow`; a payment for a
  checkout that was cancelled or superseded is ignored while the provider
  charges; a retry of a coupon checkout is refused while the abandoned one holds
  the user's slot.
* Subscription: an `invoice.payment_failed` that overtakes an update takes away
  the update's period; overlapping handlers move `providerEventAt` backwards; a
  crash between the period's update and `applyScheduledPlan` loses the schedule,
  and its write after a drop revives a paid plan; the grace period's sweep works
  on a list, drops a workspace that has just paid, drops it although the
  provider's cancellation failed, and leaves no `providerEventAt` against late
  events; it cancels at the provider a subscription whose payment is made and
  whose event is on the way; a reactivation resumes at the provider first, and
  when its write then fails (or an invoice comes in between), the FREE plan stays
  scheduled and the next paid invoice applies it, while the provider charges on.

## 6. Not modelled

`PROJECT.json` lists every component with its reason. Inside the modelled ones:
workspace broadcasts (best effort, with a database read and a replay buffer),
the node-wide connection cap, heartbeats, presence, the in-memory fallback of
the cache, status-record TTLs, clock differences between nodes, and the ack
endpoint's validation. Client reconnect delays are unbounded waits. Of sync: the
other tabs of a browser, polling, the fallback without the endpoint, replay by
`lastEventId`, clock skew and changes of one millisecond, the cap per category
and the clamp to seven days (both widen the refresh), the render between a
change of the client's state and the manager's. Of workflows: what steps do,
routing and error edges, loops, limits (one way to fail; also the one on how
often a join is put off: after 500 times it runs all the same,
`workflow-engine.service.ts:1169-1170`), schedules. Of billing: prices, quotes,
trials, refunds, invoices, reminders, spending of credits, idempotency keys.

Most of the rest of the repository is request handlers over the database, user
interfaces, types and wrappers of external services. They have no concurrency of
their own and no state that a model of a few variables would say something of.

## 7. Plan

Written, in the order of importance: the store, its composition with gateway and
tab, the client, the offline queue, first proofs; then checkout, the workflow
run, catch-up, the subscription.

Proved since: all safety properties of all modules, and that `ReliableDelivery`
implements `DeliverThenDelete`.

Next, prove that with ids emitted again and with time: `DeliverThenDelete` would
have to say what a second emission and an expiry do.

Then, model:

1. `CallSession` and `Presence`: one live call per conversation; a user is
   offline only when no connection is left. (`settle` sets the status before it
   is written: after a write that fails the next one finds no change, so it
   neither writes nor broadcasts, while a comment says "the next tick retries",
   `presence.service.ts:337`.)
2. `SyncCatchup` for two tabs that share a cursor.
3. Workspace broadcast and replay in `ReliableDelivery`'s gateway, with the
   in-memory cache fallback.
