-------------------------- MODULE ReliableDelivery --------------------------
(***************************************************************************)
(* Reliable delivery to one user, end to end: the gateway of every API     *)
(* node (libs/api/realtime/src/lib/realtime-gateway.service.ts), the       *)
(* stream and ack endpoints (realtime.controller.ts) and the user's tab    *)
(* (libs/shared/realtime/src/lib/realtime-client.ts), composed with the    *)
(* pending store of PendingDelivery that they all use.                     *)
(*                                                                         *)
(* A method call of the store belongs to a task of the gateway: what the   *)
(* gateway does before, between and after the store's round trips happens  *)
(* here, in the same action as the round trip it is glued to. Between two  *)
(* awaits a node runs undisturbed, nodes and the tab interleave freely.    *)
(*                                                                         *)
(* Left out: workspace broadcasts and their replay, presence, framing,     *)
(* authentication, and maxConnections (a refused tab stays offline).       *)
(***************************************************************************)
EXTENDS PendingDelivery, Sequences

CONSTANTS
    Nodes,           \* API nodes
    Senders,         \* those whose code calls deliverToUser
    Edges,           \* those the tab's stream may be routed to
    Conns,           \* bound: the connections the tab may ever open
    MaxConnsPerUser, \* limits.maxConnectionsPerUser
    MaxAckFailures,  \* the tab drops acks that failed more often in a row
    Faults,          \* what may go wrong, among FaultKinds
    MaxFaults        \* bound: how many, together ("stall" is not counted)

\* A published message is lost, a node faults, an ack is not answered, the
\* tab or the network ends a connection, a connection stalls.
FaultKinds == {"publish", "crash", "ack", "leave", "stall"}

ASSUME LimitsAssumption ==
    MaxConnsPerUser \in Nat \ {0} /\ MaxAckFailures \in Nat /\ MaxFaults \in Nat
ASSUME NodesAssumption == Senders \subseteq Nodes /\ Edges \subseteq Nodes
ASSUME FaultsAssumption == Faults \subseteq FaultKinds
ASSUME NoneIsNoConn == None \notin Conns /\ None \notin Nodes

VARIABLES
    reg,      \* per node, userClientMap: the user's connections
    wire,     \* per connection, frames written and not read by the tab
    tracked,  \* nodes whose usersWithPending has the user
    orphan,   \* retry passes whose clientIds Set has left userClientMap
    bus,      \* published messages on their way: <<node, id>>
    counting, \* recordAttemptById calls not begun: <<node, id>>
    flushes,  \* connections whose flush is scheduled
    task,     \* what each call in flight is for
    tab,      \* the tab: its connection, its queued acks, failures in a row
    faults,   \* faults spent
    handled,  \* history: ids some handler of the tab processed
    pushed,   \* history: <<connection, id>> written to the connection
    missed,   \* history: <<node, id>> announcements that got lost
    overtaken \* history: <<node, id>> pushed, and then untracked by a retry
              \* pass that had read the store before

exceptions == <<missed, overtaken>>
network == <<reg, wire, tracked, orphan, bus, counting, flushes, pushed,
             exceptions>>
gateway == <<network, faults>>
client == <<tab, handled>>
allVars == <<vars, gateway, task, client>>

NoTask == [kind |-> "none", node |-> None, conn |-> None, id |-> None,
           ids |-> {}, some |-> FALSE]
Unheard == [NoTask EXCEPT !.kind = "unheard"]
NewTask(c, t) == task' = [task EXCEPT ![c] = t]
EndTask(c) == NewTask(c, NoTask)
Doing(c, kind) == At(c, "collected") /\ task[c].kind = kind

Fault(kind) == kind \in Faults /\ faults < MaxFaults /\ faults' = faults + 1

Registered == UNION {reg[n] : n \in Nodes}

\* The connections the tab opened, and which of some it opened first.
Used == {tab.used[k] : k \in DOMAIN tab.used}
First(conns) ==
    {q \in conns : \A j, k \in DOMAIN tab.used :
        tab.used[k] = q /\ j < k => tab.used[j] \notin conns}

----------------------------------------------------------------------------
(* pushToClient, unregisterClient and dropClient                           *)

\* Retry passes whose Set the map forgets when it gets empty.
Orphaned(n, gone) ==
    IF reg[n] # {} /\ reg[n] \subseteq gone
    THEN {c \in Callers : task[c].kind = "sweep" /\ task[c].node = n}
    ELSE {}

\* A node that lost the user's last connection stops tracking the user.
StillTracked(n, gone) ==
    IF reg[n] \subseteq gone THEN tracked \ {n} ELSE tracked

\* Connections of rs with a backlog: those may count as stalled.
Backlogged(rs) == {r \in rs : "stall" \in Faults /\ wire[r] # <<>>}

\* Frames for the connections of rs; the stalled ones are unregistered and
\* their sockets destroyed with what was not read.
Push(n, rs, i, stalled) ==
    /\ reg' = [reg EXCEPT ![n] = @ \ stalled]
    /\ orphan' = orphan \cup Orphaned(n, stalled)
    /\ wire' = [r \in Conns |-> IF r \in stalled THEN <<>>
                                ELSE IF r \in rs THEN Append(wire[r], i)
                                ELSE wire[r]]
    /\ pushed' = pushed \cup ((rs \ stalled) \X {i})

Unregister(n, gone) == Push(n, {}, None, gone) /\ tracked' = StillTracked(n, gone)

----------------------------------------------------------------------------
(* deliverToUser                                                           *)

Deliver(c, n, i) ==
    /\ n \in Senders
    /\ EnqueueLen(c, i)
    /\ NewTask(c, [NoTask EXCEPT !.kind = "deliver", !.node = n])
    /\ UNCHANGED <<gateway, client>>

DeliverStore(c) ==
    /\ EnqueueStore(c) \/ EnqueueStatus(c)
    /\ UNCHANGED <<gateway, task, client>>

DeliverRejected(c) ==
    /\ EnqueueReject(c)
    /\ EndTask(c)
    /\ UNCHANGED <<gateway, client>>

\* dispatchLocalUserBroadcast: push to every local connection, remember the
\* user for the retry sweep, count the attempt in the background.
Dispatch(n, i) ==
    IF reg[n] = {}
    THEN UNCHANGED <<reg, wire, tracked, orphan, counting, pushed>>
    ELSE \E stalled \in SUBSET Backlogged(reg[n]) :
           /\ Push(n, reg[n], i, stalled)
           /\ tracked' = tracked \cup {n}
           /\ counting' = IF reg[n] = stalled THEN counting
                          ELSE counting \cup {<<n, i>>}

\* broadcastToUser, after the entry is stored: here and, by pub/sub, on the
\* other nodes.
Broadcast(c) ==
    /\ At(c, "stored")
    /\ Dispatch(task[c].node, call[c].id)
    /\ bus' = bus \cup ((Nodes \ {task[c].node}) \X {call[c].id})
    /\ Done(c)
    /\ EndTask(c)
    /\ UNCHANGED <<flushes, faults, exceptions, client>>

Receive(n, i) ==
    /\ <<n, i>> \in bus
    /\ bus' = bus \ {<<n, i>>}
    /\ Dispatch(n, i)
    /\ UNCHANGED <<vars, flushes, faults, exceptions, task, client>>

Lose(n, i) ==
    /\ Fault("publish")
    /\ <<n, i>> \in bus
    /\ bus' = bus \ {<<n, i>>}
    /\ missed' = missed \cup {<<n, i>>}
    /\ UNCHANGED <<vars, reg, wire, tracked, orphan, counting, flushes,
                   pushed, overtaken, task, client>>

----------------------------------------------------------------------------
(* What recordAttemptById, flushPendingToClient and retryUser share        *)

Finalize(c) ==
    /\ (\E i \in Ids : FinalizeDel(c, i)) \/ FinalizeStatus(c)
    /\ UNCHANGED <<gateway, task, client>>

\* collectDue returned. A retry pass that found nothing live stops tracking
\* the user; a flush remembers whether anything was due.
UntrackIfEmpty(c) ==
    IF task[c].kind = "sweep" /\ Remaining(c) = {}
    THEN tracked \ {task[c].node} ELSE tracked

Collected(c) ==
    /\ CollectReturn(c)
    /\ tracked' = UntrackIfEmpty(c)
    /\ overtaken' = overtaken \cup
           {b \in (tracked \ tracked') \X Pending :
               \E r \in reg[b[1]] : <<r, b[2]>> \in pushed}
    /\ NewTask(c, [task[c] EXCEPT !.some = Due(c) # {}])
    /\ UNCHANGED <<reg, wire, orphan, bus, counting, flushes, faults,
                   pushed, missed, client>>

\* The due entry that comes next: oldest first.
Oldest(c) == {i \in Due(c) : \A j \in Due(c) :
                  call[c].snap[i].createdAt <= call[c].snap[j].createdAt}

\* The entry was not sent: the loop goes on to the next one.
Skip(c, i) ==
    /\ Become(c, [call[c] EXCEPT !.snap = [@ EXCEPT ![i] = None]])
    /\ UNCHANGED <<hash, keyTtl, status, emits, recorded, now>>

Record(c) == AttemptSet(c) /\ UNCHANGED <<gateway, task, client>>

----------------------------------------------------------------------------
(* recordAttemptById                                                       *)

CountBegin(c, n, i) ==
    /\ <<n, i>> \in counting
    /\ counting' = counting \ {<<n, i>>}
    /\ CollectRead(c, TRUE)
    /\ NewTask(c, [NoTask EXCEPT !.kind = "count", !.node = n, !.id = i])
    /\ UNCHANGED <<reg, wire, tracked, orphan, bus, flushes, faults, pushed,
                   exceptions, client>>

CountFound(c) ==
    /\ Doing(c, "count")
    /\ AttemptBegin(c, task[c].id)
    /\ UNCHANGED <<gateway, task, client>>

CountEnd(c) ==
    /\ Doing(c, "count")
    /\ task[c].id \notin Due(c)
    /\ Done(c)
    /\ EndTask(c)
    /\ UNCHANGED <<gateway, client>>

----------------------------------------------------------------------------
(* flushPendingToClient                                                    *)

NodeOf(r) == CHOOSE n \in Nodes : r \in reg[n]

\* includeNotDue: the backoff of another connection's attempts is no reason
\* to hold an entry back from a fresh one.
FlushDueOnly == FALSE
FlushAll == TRUE

\* The user's entries are read, if the connection is still there; a flush
\* of one that went does nothing.
FlushBegin(c, r) ==
    /\ r \in flushes \cap Registered
    /\ flushes' = flushes \ {r}
    /\ CollectRead(c, FlushAll)
    /\ NewTask(c, [NoTask EXCEPT !.kind = "flush", !.node = NodeOf(r),
                                 !.conn = r])
    /\ UNCHANGED <<reg, wire, tracked, orphan, bus, counting, faults,
                   pushed, exceptions, client>>

FlushPush(c, i) ==
    LET n == task[c].node
        r == task[c].conn
    IN  /\ Doing(c, "flush")
        /\ i \in Oldest(c)
        /\ r \in reg[n]
        /\ \E stalled \in SUBSET Backlogged({r}) :
             /\ Push(n, {r}, i, stalled)
             /\ tracked' = StillTracked(n, stalled)
             /\ IF stalled = {} THEN AttemptBegin(c, i) ELSE Skip(c, i)
        /\ UNCHANGED <<bus, counting, flushes, faults, exceptions, task, client>>

\* There was something to send: the sweep takes over.
TrackNever(c, n) == tracked
TrackFlushed(c, n) ==
    IF task[c].some /\ reg[n] # {} THEN tracked \cup {n} ELSE tracked

\* Nothing left to send, or the connection closed meanwhile.
FlushEnd(c) ==
    /\ Doing(c, "flush")
    /\ Due(c) = {} \/ task[c].conn \notin reg[task[c].node]
    /\ tracked' = TrackFlushed(c, task[c].node)
    /\ Done(c)
    /\ EndTask(c)
    /\ UNCHANGED <<reg, wire, orphan, bus, counting, flushes, faults, pushed,
                   exceptions, client>>

----------------------------------------------------------------------------
(* sweepPendingDeliveries, retryUser                                       *)

SweepInFlight(n) == \E c \in Callers : task[c].kind = "sweep" /\ task[c].node = n

SweepBegin(c, n) ==
    /\ n \in tracked
    /\ reg[n] # {}
    /\ ~SweepInFlight(n)
    /\ CollectRead(c, FALSE)
    /\ NewTask(c, [NoTask EXCEPT !.kind = "sweep", !.node = n])
    /\ UNCHANGED <<gateway, client>>

SweepNobody(n) ==
    /\ n \in tracked
    /\ reg[n] = {}
    /\ ~SweepInFlight(n)
    /\ tracked' = tracked \ {n}
    /\ UNCHANGED <<vars, reg, wire, orphan, bus, counting, flushes, faults,
                   pushed, exceptions, task, client>>

\* clientIds is the Set the pass started with: what was added to it since is
\* reached, a Set made after it was forgotten is not.
SweepPush(c, i) ==
    LET n == task[c].node
        rs == IF c \in orphan THEN {} ELSE reg[n]
    IN  /\ Doing(c, "sweep")
        /\ i \in Oldest(c)
        /\ \E stalled \in SUBSET Backlogged(rs) :
             /\ Push(n, rs, i, stalled)
             /\ tracked' = IF stalled = {} THEN tracked
                           ELSE StillTracked(n, stalled)
             /\ IF rs = stalled THEN Skip(c, i) ELSE AttemptBegin(c, i)
        /\ UNCHANGED <<bus, counting, flushes, faults, exceptions, task, client>>

SweepEnd(c) ==
    /\ Doing(c, "sweep")
    /\ Due(c) = {}
    /\ Done(c)
    /\ EndTask(c)
    /\ orphan' = orphan \ {c}
    /\ UNCHANGED <<reg, wire, tracked, bus, counting, flushes, faults,
                   pushed, exceptions, client>>

----------------------------------------------------------------------------
(* Connections                                                             *)

\* The per-user cap. Registrations come one by one, so the cap is never
\* exceeded by more than the new one.
OverCapLate(conns) == Cardinality(conns) > MaxConnsPerUser + 1
OverCap(conns) == Cardinality(conns) > MaxConnsPerUser

\* The tab's stream is accepted by node n; over the cap the oldest of the
\* user's connections goes. The flush follows a little later.
Connect(r, n) ==
    /\ tab.conn = None
    /\ n \in Edges
    /\ r \in Conns \ Used
    /\ LET all == reg[n] \cup {r}
       IN  IF OverCap(all)
           THEN \E old \in First(reg[n]) :
                  /\ reg' = [reg EXCEPT ![n] = all \ {old}]
                  /\ wire' = [wire EXCEPT ![old] = <<>>]
           ELSE /\ reg' = [reg EXCEPT ![n] = all]
                /\ UNCHANGED wire
    /\ flushes' = flushes \cup {r}
    /\ tab' = [tab EXCEPT !.conn = r, !.used = Append(@, r)]
    /\ UNCHANGED <<vars, tracked, orphan, bus, counting, faults, pushed,
                   exceptions, task, handled>>

\* The server notices that the tab went away; or recordConnection fails
\* before the stream is served.
Close(n, r) ==
    /\ r \in reg[n]
    /\ r # tab.conn \/ r \in flushes
    /\ Unregister(n, {r})
    /\ UNCHANGED <<vars, bus, counting, flushes, faults, exceptions, task, client>>

\* The tab notices that the server dropped its connection.
Disconnected ==
    /\ tab.conn # None
    /\ tab.conn \notin Registered
    /\ tab' = [tab EXCEPT !.conn = None]
    /\ UNCHANGED <<vars, gateway, task, handled>>

\* The network or the tab itself ends the connection; a reload also forgets
\* the queued acks. The server does not know yet.
Leave(reload) ==
    /\ tab.conn # None
    /\ tab' = IF reload THEN [conn |-> None, used |-> tab.used, acks |-> {},
                              failures |-> 0]
                        ELSE [tab EXCEPT !.conn = None]
    /\ task' = [c \in Callers |-> IF reload /\ task[c].kind = "ack"
                                  THEN Unheard ELSE task[c]]
    /\ Fault("leave")
    /\ UNCHANGED <<vars, network, handled>>

Crash(n) ==
    LET dead == {c \in Callers : task[c].node = n}
    IN  /\ Fault("crash")
        /\ call' = [c \in Callers |-> IF c \in dead THEN Idle ELSE call[c]]
        /\ task' = [c \in Callers |-> IF c \in dead THEN NoTask ELSE task[c]]
        /\ missed' = missed \cup (Nodes \X {call[c].id : c \in
                         {d \in dead : task[d].kind = "deliver"}})
                            \cup {b \in bus : b[1] = n}
        /\ bus' = {b \in bus : b[1] # n}
        /\ counting' = {b \in counting : b[1] # n}
        /\ reg' = [reg EXCEPT ![n] = {}]
        /\ wire' = [r \in Conns |-> IF r \in reg[n] THEN <<>> ELSE wire[r]]
        /\ tracked' = tracked \ {n}
        /\ flushes' = flushes \ reg[n]
        /\ orphan' = orphan \ dead
        /\ UNCHANGED <<hash, keyTtl, status, emits, recorded, now, pushed,
                       overtaken, client>>

----------------------------------------------------------------------------
(* The tab: handleIncomingRaw, queueAck, flushAcks                         *)

\* The handlers run, then the id is queued.
Handle ==
    /\ tab.conn # None
    /\ wire[tab.conn] # <<>>
    /\ LET i == Head(wire[tab.conn])
       IN  /\ handled' = handled \cup {i}
           /\ tab' = [tab EXCEPT !.acks = @ \cup {i}]
    /\ wire' = [wire EXCEPT ![tab.conn] = Tail(@)]
    /\ UNCHANGED <<vars, reg, tracked, orphan, bus, counting, flushes,
                   faults, pushed, exceptions, task>>

\* POST /realtime/ack reaches a node.
PostAcks(c) ==
    /\ tab.acks # {}
    /\ AckBegin(c, tab.acks)
    /\ tab' = [tab EXCEPT !.acks = {}]
    /\ NewTask(c, [NoTask EXCEPT !.kind = "ack", !.ids = tab.acks])
    /\ UNCHANGED <<gateway, handled>>

AckStep(c) ==
    /\ Ack(c)
    /\ UNCHANGED <<gateway, task, client>>

AckReply(c) ==
    /\ At(c, "ack")
    /\ Done(c)
    /\ EndTask(c)
    /\ tab' = IF task[c].kind = "ack" THEN [tab EXCEPT !.failures = 0] ELSE tab
    /\ UNCHANGED <<gateway, handled>>

\* The tab gets an error for its post: the request was lost, or the server
\* goes on with it and nobody hears. The ids are queued again, up to a limit.
Requeued(ids) ==
    LET f    == IF tab.failures > MaxAckFailures THEN tab.failures
                ELSE tab.failures + 1  \* counting on makes no difference
        acks == IF f <= MaxAckFailures THEN tab.acks \cup ids ELSE tab.acks
    IN  [tab EXCEPT !.acks = acks, !.failures = IF acks = {} THEN 0 ELSE f]

AckFails(c, lost) ==
    /\ task[c].kind = "ack"
    /\ tab' = Requeued(task[c].ids)
    /\ IF lost
       THEN /\ At(c, "ack") /\ call[c].todo = task[c].ids
            /\ Become(c, Idle)
            /\ UNCHANGED <<hash, keyTtl, status, emits, recorded, now>>
            /\ EndTask(c)
       ELSE /\ UNCHANGED vars
            /\ NewTask(c, Unheard)
    /\ Fault("ack")
    /\ UNCHANGED <<network, handled>>

----------------------------------------------------------------------------
AllInit ==
    /\ Init
    /\ reg = [n \in Nodes |-> {}]
    /\ wire = [r \in Conns |-> <<>>]
    /\ tracked = {} /\ orphan = {} /\ bus = {} /\ counting = {}
    /\ flushes = {} /\ faults = 0
    /\ pushed = {} /\ missed = {} /\ overtaken = {}
    /\ task = [c \in Callers |-> NoTask]
    /\ tab = [conn |-> None, used |-> <<>>, acks |-> {}, failures |-> 0]
    /\ handled = {}

Work(c) ==
    \/ DeliverStore(c) \/ DeliverRejected(c) \/ Broadcast(c)
    \/ Finalize(c) \/ Collected(c) \/ Record(c)
    \/ CountFound(c) \/ CountEnd(c)
    \/ \E i \in Ids : FlushPush(c, i) \/ SweepPush(c, i)
    \/ FlushEnd(c) \/ SweepEnd(c)
    \/ AckStep(c) \/ AckReply(c)

Timers(c) ==
    \/ \E n \in Nodes, i \in Ids : CountBegin(c, n, i)
    \/ \E r \in Conns : FlushBegin(c, r)
    \/ \E n \in Nodes : SweepBegin(c, n)

AllNext ==
    \/ \E c \in Callers :
         \/ \E n \in Nodes, i \in Ids : Deliver(c, n, i)
         \/ Work(c) \/ Timers(c) \/ PostAcks(c)
         \/ \E lost \in BOOLEAN : AckFails(c, lost)
    \/ \E n \in Nodes, i \in Ids : Receive(n, i) \/ Lose(n, i)
    \/ \E r \in Conns, n \in Nodes : Connect(r, n) \/ Close(n, r)
    \/ \E n \in Nodes : SweepNobody(n) \/ Crash(n)
    \/ Disconnected \/ Handle \/ \E reload \in BOOLEAN : Leave(reload)

AllSpec == AllInit /\ [][AllNext]_allVars

\* Promises resolve, timers fire and messages arrive (when pub/sub loses
\* none); the tab reads its stream. The sweep's timer gets strong fairness:
\* that all Callers are busy is a bound of the model, not of a node. Nothing
\* is assumed of the tab's acks.
Fairness ==
    /\ \A c \in Callers : WF_allVars(Work(c))
    /\ \A n \in Nodes : SF_allVars(\E c \in Callers : SweepBegin(c, n))
    /\ \A r \in Conns : SF_allVars(\E c \in Callers : FlushBegin(c, r))
    /\ WF_allVars(\E n \in Nodes, i \in Ids : Receive(n, i))
    /\ WF_allVars(Disconnected)
    /\ WF_allVars(Handle)

AllFairSpec == AllSpec /\ Fairness

----------------------------------------------------------------------------
(* Properties                                                              *)

Kinds == {"none", "deliver", "count", "flush", "sweep", "ack", "unheard"}

\* Type invariant: of the gateway, the tab and the tasks; and a connection
\* is registered once, a call is a task's and a task's call is in flight.
AllTypeOK ==
    /\ reg \in [Nodes -> SUBSET Used] /\ wire \in [Conns -> Seq(Ids)]
    /\ tracked \subseteq Nodes /\ orphan \subseteq Callers
    /\ bus \cup counting \cup missed \cup overtaken \subseteq Nodes \X Ids
    /\ flushes \subseteq Used /\ faults \in 0 .. MaxFaults
    /\ task \in [Callers -> [kind: Kinds, node: Nodes \cup {None},
                             conn: Conns \cup {None}, id: Ids \cup {None},
                             ids: SUBSET Ids, some: BOOLEAN]]
    /\ tab \in [conn: Used \cup {None}, used: Seq(Conns),
                acks: SUBSET Ids, failures: 0 .. (MaxAckFailures + 1)]
    /\ handled \subseteq Ids /\ pushed \subseteq Conns \X Ids
    /\ \A c \in Callers : At(c, "idle") <=> task[c] = NoTask
    /\ \A n \in Nodes : Cardinality(reg[n]) <= MaxConnsPerUser
    /\ \A n, m \in Nodes : n # m => reg[n] \cap reg[m] = {}

\* On its way to connection r of node n: an announcement, or r's flush.
OnItsWay(n, r, i) ==
    \/ \E c \in Callers : task[c].kind = "deliver" /\ call[c].id = i
    \/ <<n, i>> \in bus
    \/ r \in flushes
    \/ \E c \in Callers : task[c].kind = "flush" /\ task[c].conn = r
                          /\ call[c].snap[i] # None

\* No gap between the flush and the live pushes: every stored entry was
\* written to every registered connection or is on its way there, however the
\* store, the announcement, pub/sub and the registration interleave; unless
\* an announcement got lost.
NoGap ==
    \A n \in Nodes, i \in Pending : \A r \in reg[n] :
        <<r, i>> \in pushed \/ OnItsWay(n, r, i) \/ <<n, i>> \in missed

\* Nothing is under way in the gateway: no call, message or flush.
Quiet ==
    /\ \A c \in Callers : At(c, "idle")
    /\ bus = {} /\ flushes \cap Registered = {}

\* A stored entry is never left behind: when everything is quiet, every node
\* the user is connected to tracks the user, so its next sweep retries the
\* entry or gives it up; unless the entry's announcement got lost, or a retry
\* pass that had read the store before it untracked the user.
NeverStranded ==
    \A n \in Nodes, i \in Pending :
        Quiet /\ reg[n] # {} /\ <<n, i>> \notin missed \cup overtaken
          => n \in tracked

\* A stored entry is retried until the tab acked it or its attempts are used
\* up, however often acks get lost, as long as the tab is connected; with the
\* exceptions of NeverStranded.
RetriedUntilSettled ==
    \A i \in Ids : (hash[i] # None) ~>
        \/ hash[i] = None \/ tab.conn = None
        \/ \E n \in Nodes : <<n, i>> \in missed \cup overtaken

\* What deliver-then-delete promises of it all (the module states it).
Promise == INSTANCE DeliverThenDelete WITH
    stored <- Pending, tries <- recorded, MaxTries <- MaxAttempts
DeliversThenDeletes == Promise!Spec
=============================================================================
