---------------------------- MODULE OfflineQueue ----------------------------
(***************************************************************************)
(* The queue of actions a user takes while offline, for one workspace      *)
(* (libs/shared/sync/src/lib/offline-queue.ts), as the tabs of one browser *)
(* use it (background-sync-manager.ts, sync-leader.ts).                    *)
(*                                                                         *)
(* localStorage is shared by the tabs; each tab's queue mirrors it in      *)
(* memory and reads it only once. Between two awaits a tab runs            *)
(* undisturbed; tabs interleave with each other at every step, the storage *)
(* accesses of a replay pass included. Only the executor's request is      *)
(* awaited, and the server may apply it without the tab hearing of it.     *)
(*                                                                         *)
(* Payloads, the onChange display counters, unavailable storage and the    *)
(* switch between workspaces are left out.                                 *)
(***************************************************************************)
EXTENDS Naturals, Sequences, SequencesExt

CONSTANTS
    Tabs,
    None,
    Keys,         \* dedupeKeys
    Unknown,      \* those whose kind has no executor any more
    MaxAttempts,  \* MAX_ATTEMPTS
    MaxQueue,     \* MAX_QUEUE
    MaxActions,   \* bound: actions the user takes
    MaxClosed     \* bound: tabs closed or crashed

ASSUME BoundsAssumption ==
    /\ MaxAttempts \in Nat \ {0} /\ MaxQueue \in Nat \ {0}
    /\ MaxActions \in Nat /\ MaxClosed \in Nat
ASSUME KeysAssumption == Unknown \subseteq Keys

VARIABLES
    storage,   \* the workspace's key in localStorage
    memory,    \* per tab, the mirror; None before the first load
    pc,        \* per tab, where its replay is
    held,      \* per tab, the list its replay took before the await
    leader,    \* the tab that holds the lock
    online,
    actions,   \* how many actions were enqueued: the next id
    closed,    \* tabs closed so far
    applied,   \* history: how often the server applied each action
    dropped,   \* history: ids reported to onDropped
    replaced,  \* history: ids superseded by their key, or pushed out
    midReplay  \* history: ids enqueued while that tab awaited an executor

vars == <<storage, memory, pc, held, leader, online, actions, closed,
          applied, dropped, replaced, midReplay>>

Action == [id: 1 .. MaxActions, key: Keys, attempts: 0 .. MaxAttempts]

ASSUME NoneAssumption == None \notin Tabs /\ None \notin Seq(Action)

IdsIn(list) == {list[k].id : k \in DOMAIN list}

Load(t) == IF memory[t] = None THEN storage ELSE memory[t]

Save(t, list) ==
    /\ memory' = [memory EXCEPT ![t] = list]
    /\ storage' = list

Goto(t, where) == pc' = [pc EXCEPT ![t] = where]
Awaiting(t) == pc[t] \in {"sent", "applied"}

\* replayQueue: only the leader, online, and one replay at a time.
Kick(t, isLeader, isOnline) ==
    Goto(t, IF isLeader /\ isOnline /\ pc[t] = "idle" THEN "replay" ELSE pc[t])

----------------------------------------------------------------------------
(* enqueue, and enqueueOfflineAction around it                             *)

\* The list without the action of a key: there is one at most (TypeOK), so
\* the filter removes it or nothing.
Without(list, key) ==
    LET same == {k \in DOMAIN list : list[k].key = key}
    IN  IF same = {} THEN list ELSE RemoveAt(list, CHOOSE k \in same : TRUE)

\* Last write wins: the newer action of a key goes to the end of the queue.
PlacedFirst(list, a) == <<a>> \o Without(list, a.key)
Placed(list, a) == Append(Without(list, a.key), a)

\* The oldest goes when the queue overflows.
BoundedLate(list) == IF Len(list) > MaxQueue + 1 THEN Tail(list) ELSE list
Bounded(list) == IF Len(list) > MaxQueue THEN Tail(list) ELSE list

Enqueue(t, k) ==
    LET a    == [id |-> actions + 1, key |-> k, attempts |-> 0]
        list == Bounded(Placed(Load(t), a))
    IN  /\ pc[t] # "replay"
        /\ actions < MaxActions
        /\ actions' = a.id
        /\ Save(t, list)
        /\ replaced' = replaced \cup (IdsIn(Load(t)) \ IdsIn(list))
        /\ midReplay' = IF Awaiting(t) THEN midReplay \cup {a.id} ELSE midReplay
        /\ Kick(t, leader = t, online)
        /\ UNCHANGED <<held, leader, online, closed, applied, dropped>>

----------------------------------------------------------------------------
(* replay: one turn of its loop                                            *)

ReplayDone(t) ==
    /\ pc[t] = "replay"
    /\ Load(t) = <<>>
    /\ memory' = [memory EXCEPT ![t] = Load(t)]
    /\ Goto(t, "idle")
    /\ UNCHANGED <<storage, held, leader, online, actions, closed, applied,
                   dropped, replaced, midReplay>>

ReplayUnknown(t) ==
    /\ pc[t] = "replay"
    /\ Load(t) # <<>>
    /\ Head(Load(t)).key \in Unknown
    /\ Save(t, Tail(Load(t)))
    /\ dropped' = dropped \cup {Head(Load(t)).id}
    /\ UNCHANGED <<pc, held, leader, online, actions, closed, applied,
                   replaced, midReplay>>

\* The executor's request goes out; the list stays with this pass.
ReplaySend(t) ==
    /\ pc[t] = "replay"
    /\ Load(t) # <<>>
    /\ Head(Load(t)).key \notin Unknown
    /\ memory' = [memory EXCEPT ![t] = Load(t)]
    /\ held' = [held EXCEPT ![t] = Load(t)]
    /\ Goto(t, "sent")
    /\ UNCHANGED <<storage, leader, online, actions, closed, applied, dropped,
                   replaced, midReplay>>

\* The server does what the request asks for.
ServerApplies(t) ==
    /\ pc[t] = "sent"
    /\ applied' = [applied EXCEPT ![Head(held[t]).id] = @ + 1]
    /\ Goto(t, "applied")
    /\ UNCHANGED <<storage, memory, held, leader, online, actions, closed,
                   dropped, replaced, midReplay>>

ReplaySucceeds(t) ==
    /\ pc[t] = "applied"
    /\ Save(t, Tail(held[t]))
    /\ held' = [held EXCEPT ![t] = <<>>]
    /\ Goto(t, "replay")
    /\ UNCHANGED <<leader, online, actions, closed, applied, dropped,
                   replaced, midReplay>>

\* A terminal error, or a transient one too many: the action is dropped.
DropHead(t) ==
    /\ Save(t, Tail(held[t]))
    /\ dropped' = dropped \cup {Head(held[t]).id}
    /\ Goto(t, "replay")

ReplayRejected(t) ==
    /\ pc[t] = "sent"
    /\ DropHead(t)
    /\ held' = [held EXCEPT ![t] = <<>>]
    /\ UNCHANGED <<leader, online, actions, closed, applied, replaced,
                   midReplay>>

TriedUncounted(a) == a
Tried(a) == [a EXCEPT !.attempts = @ + 1]
ForgetHead(list) == Tail(list)
KeepHead(list) == <<Tried(Head(list))>> \o Tail(list)

\* No answer, a timeout, a 5xx: the request may have been applied or not.
ReplayFails(t) ==
    /\ Awaiting(t)
    /\ IF Tried(Head(held[t])).attempts >= MaxAttempts
       THEN DropHead(t)
       ELSE /\ Save(t, KeepHead(held[t]))
            /\ Goto(t, "idle")
            /\ UNCHANGED dropped
    /\ held' = [held EXCEPT ![t] = <<>>]
    /\ UNCHANGED <<leader, online, actions, closed, applied, replaced,
                   midReplay>>

----------------------------------------------------------------------------
(* BackgroundSyncManager and SyncLeader                                    *)

\* The stream connected, or the workspace was entered: replayQueue.
Trigger(t) ==
    /\ leader = t /\ online
    /\ pc[t] = "idle"
    /\ Kick(t, TRUE, TRUE)
    /\ UNCHANGED <<storage, memory, held, leader, online, actions, closed,
                   applied, dropped, replaced, midReplay>>

BecomeLeader(t) ==
    /\ leader = None
    /\ pc[t] = "idle"
    /\ leader' = t
    /\ Kick(t, TRUE, online)
    /\ UNCHANGED <<storage, memory, held, online, actions, closed, applied,
                   dropped, replaced, midReplay>>

GoOffline ==
    /\ online
    /\ online' = FALSE
    /\ UNCHANGED <<storage, memory, pc, held, leader, actions, closed,
                   applied, dropped, replaced, midReplay>>

\* Every tab hears of it, the leader replays.
GoOnline ==
    /\ ~online
    /\ online' = TRUE
    /\ pc' = [t \in Tabs |-> IF leader = t /\ pc[t] = "idle" THEN "replay"
                             ELSE pc[t]]
    /\ UNCHANGED <<storage, memory, held, leader, actions, closed, applied,
                   dropped, replaced, midReplay>>

\* The tab is closed or crashes, and is opened again: the lock and the
\* mirror are gone, the storage stays.
Close(t) ==
    /\ closed < MaxClosed
    /\ closed' = closed + 1
    /\ memory' = [memory EXCEPT ![t] = None]
    /\ held' = [held EXCEPT ![t] = <<>>]
    /\ Goto(t, "idle")
    /\ leader' = IF leader = t THEN None ELSE leader
    /\ UNCHANGED <<storage, online, actions, applied, dropped, replaced,
                   midReplay>>

----------------------------------------------------------------------------
Init ==
    /\ storage = <<>>
    /\ memory = [t \in Tabs |-> None]
    /\ pc = [t \in Tabs |-> "idle"]
    /\ held = [t \in Tabs |-> <<>>]
    /\ leader = None
    /\ online \in BOOLEAN
    /\ actions = 0 /\ closed = 0
    /\ applied = [i \in 1 .. MaxActions |-> 0]
    /\ dropped = {} /\ replaced = {} /\ midReplay = {}

Replay(t) ==
    \/ ReplayDone(t) \/ ReplayUnknown(t) \/ ReplaySend(t)
    \/ ReplaySucceeds(t) \/ ReplayRejected(t) \/ ReplayFails(t)

Next ==
    \/ \E t \in Tabs : \/ \E k \in Keys : Enqueue(t, k)
                       \/ Replay(t) \/ ServerApplies(t)
                       \/ Trigger(t) \/ BecomeLeader(t) \/ Close(t)
    \/ GoOffline \/ GoOnline

Spec == Init /\ [][Next]_vars

\* Promises settle, a free lock is granted, and the browser is online and
\* its stream connects again and again.
Fairness ==
    /\ \A t \in Tabs : WF_vars(Replay(t)) /\ SF_vars(Trigger(t))
    /\ WF_vars(\E t \in Tabs : BecomeLeader(t))
    /\ WF_vars(GoOnline)

FairSpec == Spec /\ Fairness

----------------------------------------------------------------------------
(* Properties                                                              *)

\* Type invariant; the queue is bounded, nothing is queued twice under one
\* key, and an awaiting pass holds the action it sent.
TypeOK ==
    /\ storage \in Seq(Action)
    /\ \A t \in Tabs : memory[t] = None \/ memory[t] \in Seq(Action)
    /\ pc \in [Tabs -> {"idle", "replay", "sent", "applied"}]
    /\ held \in [Tabs -> Seq(Action)]
    /\ leader \in Tabs \cup {None} /\ online \in BOOLEAN
    /\ actions \in 0 .. MaxActions /\ closed \in 0 .. MaxClosed
    /\ applied \in [1 .. MaxActions -> Nat]
    /\ dropped \cup replaced \cup midReplay \subseteq 1 .. actions
    /\ Len(storage) <= MaxQueue
    /\ \A j, k \in DOMAIN storage : storage[j].key = storage[k].key => j = k
    /\ \A t \in Tabs : Awaiting(t) => held[t] # <<>>

Settled(i) == applied[i] > 0 \/ i \in dropped \cup replaced
Vanished(i) == i \notin IdsIn(storage) /\ ~Settled(i)

\* In one tab, whatever fails and whenever it crashes, an action that is
\* neither applied nor reported as dropped nor superseded (or pushed out of a
\* full queue) is still in the storage; except one taken while the replay
\* awaited an executor.
KeptUnlessMidReplay == \A i \in 1 .. actions : Vanished(i) => i \in midReplay

\* "Replay is strictly in order": the action whose request is out is older
\* than every other action the pass took and every action queued since, in
\* every order of actions, failures and reconnects.
InOrder ==
    \A t \in Tabs : Awaiting(t) =>
        \A i \in IdsIn(held[t]) \cup IdsIn(memory[t]) : i >= Head(held[t]).id

\* In one tab every action is applied, reported or superseded in the end,
\* however it fails; except those taken while the replay awaited.
DrainsUnlessMidReplay ==
    \A i \in 1 .. MaxActions :
        (actions >= i) ~> (Settled(i) \/ i \in midReplay)
=============================================================================
