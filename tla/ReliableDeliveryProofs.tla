----------------------- MODULE ReliableDeliveryProofs -----------------------
(***************************************************************************)
(* What holds of ReliableDelivery for any number of nodes, calls,          *)
(* connections, deliveries and faults. The store's own invariants are      *)
(* those of PendingDeliveryProofs.                                         *)
(***************************************************************************)
EXTENDS ReliableDelivery, PendingDeliveryProofs, SequenceTheorems

----------------------------------------------------------------------------
(* The invariants                                                          *)

Delivering == {"reject", "store", "announce", "stored"}
Reading == {"finalize", "settle", "collected", "attempt"}
Acking == {"ack", "delivered"}

\* What a task is for tells where its call is; the tasks of the gateway have
\* a node, and a flush reads all entries.
Fits(c) ==
    LET k == task[c].kind
        p == call[c].pc
    IN  /\ k = "none" => task[c] = NoTask /\ p = "idle"
        /\ k = "deliver" => p \in Delivering /\ task[c].node \in Nodes
        /\ k \in {"count", "flush", "sweep"} => p \in Reading /\ task[c].node \in Nodes
        /\ k \in {"ack", "unheard"} => p \in Acking
        /\ k = "flush" => task[c].conn \in Used /\ call[c].all
        /\ p \in {"collected", "attempt"} => call[c].todo = {}
        /\ p = "stored" => call[c].id \in Ids

TaskType == [kind: Kinds, node: Nodes \cup {None}, conn: Conns \cup {None},
             id: Ids \cup {None}, ids: SUBSET Ids, some: BOOLEAN]
TabType == [conn: Conns \cup {None}, used: Seq(Conns), acks: SUBSET Ids,
            failures: 0 .. (MaxAckFailures + 1)]

\* The gateway, the tab and the tasks hold values of their kinds.
Kept ==
    /\ tracked \subseteq Nodes /\ orphan \subseteq Callers
    /\ bus \cup counting \cup missed \cup overtaken \subseteq Nodes \X Ids
    /\ faults \in 0 .. MaxFaults
    /\ task \in [Callers -> TaskType] /\ tab \in TabType
    /\ handled \subseteq Ids /\ pushed \subseteq Conns \X Ids
    /\ wire \in [Conns -> Seq(Ids)]

\* A connection is registered at one node, which is that of its flush, and
\* no node has too many of them.
Registry ==
    /\ reg \in [Nodes -> SUBSET Used]
    /\ flushes \subseteq Used /\ tab.conn \in Used \cup {None}
    /\ \A n \in Nodes : IsFiniteSet(reg[n]) /\ Cardinality(reg[n]) <= MaxConnsPerUser
    /\ \A n, m \in Nodes : n # m => reg[n] \cap reg[m] = {}
    /\ \A c \in Callers, n \in Nodes :
         task[c].kind = "flush" /\ task[c].conn \in reg[n] => task[c].node = n

\* A call has entry i and will hand it on: it is live, or to be removed.
Carries(c, i) ==
    /\ call[c].snap[i] # None
    /\ i \in call[c].todo \/ Live(call[c].snap[i], call[c].at)

\* A call announces entry i; an announcement is under way to node n.
Handing(c, i) == call[c].pc \in {"store", "announce", "stored"} /\ call[c].id = i
Announced(n, i) == <<n, i>> \in bus \/ \E c \in Callers : Handing(c, i)

\* A flush of connection r will push entry i; one knows it had something.
FlushOf(c, r) == task[c].kind = "flush" /\ task[c].conn = r
Flushing(c, r, i) == FlushOf(c, r) /\ Carries(c, i)
Flushed(c, r) == FlushOf(c, r) /\ task[c].some

\* What a flush records as an attempt was written to its connection, and a
\* flush that collected something knows that it did.
FlushFits(c) ==
    task[c].kind = "flush" =>
        /\ call[c].pc = "attempt" => <<task[c].conn, call[c].id>> \in pushed
        /\ call[c].pc \in {"finalize", "settle"} => task[c].some = FALSE
        /\ \A i \in Ids : call[c].pc \in {"collected", "attempt"} /\ call[c].snap[i] # None
                           => task[c].some

\* NoGap, of one entry and one connection; a flush that read the store
\* before the entry was in it does not count.
Covered(n, i, r) ==
    \/ <<r, i>> \in pushed \/ Announced(n, i) \/ r \in flushes
    \/ \E c \in Callers : Flushing(c, r, i)
    \/ <<n, i>> \in missed

\* NeverStranded, of one entry and one connection: the node tracks the user
\* or something is under way that will make it.
Watched(n, i, r) ==
    \/ n \in tracked \/ Announced(n, i) \/ r \in flushes
    \/ \E c \in Callers : Flushing(c, r, i) \/ Flushed(c, r)
    \/ <<n, i>> \in missed \cup overtaken

Attended(n, i, r) == Covered(n, i, r) /\ Watched(n, i, r)
Minded ==
    /\ \A c \in Callers : FlushFits(c)
    /\ \A n \in Nodes, i \in Pending : \A r \in reg[n] : Attended(n, i, r)

\* Entry i was stored: it is pending, handled or given up; or it was not.
Sent(i) == i \in Pending \cup handled \/ recorded[i] >= MaxAttempts
Fresh(i) == recorded[i] = 0 /\ i \notin handled

\* The frames written to a connection that the tab has not read.
Frames(r) == {wire[r][k] : k \in DOMAIN wire[r]}

\* A call that has not stored its entry yet is the first to, others know
\* only of what was stored; and only what was handled is acked.
CallSent(c) ==
    /\ call[c].pc = "store" => Fresh(call[c].id)
    /\ call[c].pc \in {"announce", "stored"} => Sent(call[c].id)
    /\ \A i \in Ids : call[c].snap[i] # None => Sent(i)
    /\ call[c].pc \in Acking => call[c].todo \subseteq handled

\* Likewise of the tab and its posts.
AcksHandled == tab.acks \subseteq handled /\ \A c \in Callers : task[c].ids \subseteq handled

\* Likewise of what is on its way to the tab.
NetSent ==
    \A i \in Ids : /\ \A r \in Conns : i \in Frames(r) => Sent(i)
                   /\ \A n \in Nodes : <<n, i>> \in bus => Sent(i)

\* Nothing knows of an entry before it is stored. For ids emitted once.
OnlySent ==
    /\ now = 0
    /\ \A i \in Ids : emits[i] <= 1 /\ (emits[i] = 0 => Fresh(i))
    /\ \A c \in Callers : CallSent(c)
    /\ AcksHandled /\ NetSent

----------------------------------------------------------------------------
(* The store under the gateway                                             *)

\* The store's invariants.
StoreInv == TypeOK /\ Token /\ Clock /\ Copies /\ Over /\ CapInv

\* The call drops an entry it collected.
Skips(c) ==
    \E i \in Ids : /\ call[c].pc = "collected"
                   /\ call'[c] = [call[c] EXCEPT !.snap = [@ EXCEPT ![i] = None]]

\* The gateway forgets calls, or entries of calls: nothing the store does.
Forgets ==
    /\ UNCHANGED <<hash, keyTtl, status, emits, recorded, now>>
    /\ DOMAIN call' = Callers /\ call' = [c \in Callers |-> call'[c]]
    /\ \A c \in Callers : call'[c] \in {call[c], Idle} \/ Skips(c)

LEMMA SkipsRecord ==
    ASSUME TypeOK, NEW c \in Callers, Skips(c)
    PROVE  /\ call'[c] \in CallType /\ WellFormed(call'[c])
           /\ call[c].pc = "collected" /\ call'[c].pc = "collected"
           /\ call'[c].id = call[c].id /\ call'[c].at = call[c].at
           /\ call'[c].all = call[c].all /\ call'[c].todo = call[c].todo
           /\ \A i \in Ids : call'[c].snap[i] \in {None, call[c].snap[i]}
<1>1. PICK i \in Ids : call'[c] = [call[c] EXCEPT !.snap = [@ EXCEPT ![i] = None]]
  BY DEF Skips
<1> DEFINE s == [call[c].snap EXCEPT ![i] = None]
           r == [call[c] EXCEPT !.snap = s]
<1>2. call[c] \in CallType /\ call[c].pc = "collected" /\ WellFormed(call[c])
  BY DEF TypeOK, Skips
<1>3. /\ s \in [Ids -> Entry \cup {None}]
      /\ \A j \in Ids : s[j] \in {None, call[c].snap[j]}
  BY <1>2 DEF CallType
<1> HIDE DEF s
<1>4. /\ r \in CallType /\ r.pc = "collected" /\ r.id = call[c].id
      /\ r.at = call[c].at /\ r.all = call[c].all /\ r.todo = call[c].todo
      /\ r.snap = s
  BY <1>2, <1>3 DEF CallType
<1>5. call'[c] = r
  BY <1>1 DEF s
<1> HIDE DEF r
<1>6. WellFormed(r)
  BY <1>4 DEF WellFormed
<1>7. QED
  BY <1>2, <1>3, <1>4, <1>5, <1>6

LEMMA ForgetsKeepsStore ==
    ASSUME StoreInv, Forgets PROVE StoreInv'
<1> USE DEF StoreInv
<1>1. ASSUME NEW c \in Callers
      PROVE  /\ call'[c] \in CallType /\ WellFormed(call'[c])
             /\ call'[c].pc \in {"idle", "collected", call[c].pc}
             /\ call'[c].at \in {0, call[c].at}
             /\ \A i \in Ids : call'[c].snap[i] \in {None, call[c].snap[i]}
             /\ call'[c] = call[c] \/ call'[c].pc \in {"idle", "collected"}
  <2>1. CASE call'[c] = call[c]
    BY <2>1 DEF TypeOK
  <2>2. CASE call'[c] = Idle
    BY <2>2, IdleType DEF Idle, Empty
  <2>3. CASE Skips(c)
    BY <2>3, SkipsRecord
  <2>4. QED
    BY <2>1, <2>2, <2>3 DEF Forgets
<1>2. TypeOK'
  <2>1. call' \in [Callers -> CallType]
    BY <1>1 DEF Forgets
  <2>2. QED
    BY <1>1, <2>1 DEF Forgets, TypeOK
<1>3. Clock'
  <2>1. \A c \in Callers : call[c].at \in Nat
    BY DEF TypeOK, CallType
  <2>2. QED
    BY <1>1, <2>1 DEF Clock, Forgets, TypeOK
<1>4. Token'
  <2>1. \A c \in Callers, i \in Ids : Settling(c, i)' => Settling(c, i)
    BY <1>1 DEF Settling
  <2>2. QED
    BY <2>1, TokenStays DEF Forgets, Token
<1>5. Copies'
  <2>1. \A c \in Callers, i \in Ids :
          /\ call'[c].snap[i] \in {None, call[c].snap[i]}
          /\ call'[c].pc = "store" /\ call'[c].id = i =>
               call[c].pc = "store" /\ call[c].id = i
    BY <1>1
  <2>2. QED
    BY <2>1, CopiesStay DEF Forgets, Copies
<1>6. Over'
  BY <1>1 DEF Over
<1>7. CapInv'
  <2>1. Storing' \subseteq Storing /\ Pending' = Pending
    BY <1>1 DEF Storing, Forgets, Pending
  <2>2. /\ Cardinality(Storing') \in Nat
        /\ Cardinality(Storing') <= Cardinality(Storing)
    BY <2>1, CapSetsFinite, FS_Subset, FS_CardinalityType
  <2>3. QED
    BY <2>1, <2>2, CapSetsFinite, ConfigAssumption DEF CapInv
<1>8. QED
  BY <1>2, <1>3, <1>4, <1>5, <1>6, <1>7

LEMMA NextKeepsStore ==
    ASSUME StoreInv, [Next]_vars PROVE StoreInv'
BY TypeKept, TokenKept, ClockKept, CopiesKept, OverKept, CapKept
   DEF StoreInv, Token, Copies

LEMMA SkipForgets ==
    ASSUME TypeOK, NEW c \in Callers, NEW i \in Ids, Skip(c, i), call[c].pc = "collected"
    PROVE  Forgets /\ Skips(c) /\ Others(c)
<1> DEFINE r == [call[c] EXCEPT !.snap = [@ EXCEPT ![i] = None]]
<1>1. call' = [call EXCEPT ![c] = r]
  BY DEF Skip, Become
<1>2. Skips(c)
  BY <1>1 DEF Skips, TypeOK
<1> HIDE DEF r
<1>3. Others(c) /\ DOMAIN call' = Callers /\ call' = [k \in Callers |-> call'[k]]
  BY <1>1 DEF Others, TypeOK
<1>4. UNCHANGED <<hash, keyTtl, status, emits, recorded, now>>
  BY DEF Skip
<1>5. QED
  BY <1>2, <1>3, <1>4 DEF Forgets, Others

\* The steps of the store that gateway and tab take.
Uses(c) ==
    \/ \E i \in Ids : EnqueueLen(c, i)
    \/ \E all \in BOOLEAN : CollectRead(c, all)
    \/ AckBegin(c, tab.acks)
    \/ Enqueue(c) \/ Collect(c) \/ Ack(c) \/ Done(c)

\* To the store, whatever gateway and tab do is one of its steps, or
\* nothing, or that calls or entries of calls are forgotten.
LEMMA StoreUses ==
    ASSUME TypeOK, AllNext
    PROVE  (\E c \in Callers : Uses(c)) \/ UNCHANGED vars \/ Forgets
<1>1. ASSUME NEW c \in Callers, NEW n \in Nodes, NEW i \in Ids, Deliver(c, n, i)
      PROVE  Uses(c)
  BY <1>1 DEF Deliver, Uses
<1>2. ASSUME NEW c \in Callers, Work(c) PROVE Uses(c) \/ Forgets
  <2>1. CASE DeliverStore(c) \/ DeliverRejected(c)
    BY <2>1 DEF DeliverStore, DeliverRejected, Uses, Enqueue
  <2>2. CASE Broadcast(c) \/ CountEnd(c) \/ FlushEnd(c) \/ SweepEnd(c) \/ AckReply(c)
    BY <2>2 DEF Broadcast, CountEnd, FlushEnd, SweepEnd, AckReply, Uses
  <2>3. CASE Finalize(c) \/ Collected(c) \/ Record(c)
    BY <2>3 DEF Finalize, Collected, Record, Uses, Collect
  <2>4. CASE CountFound(c)
    <3>1. task[c].id \in Ids
      BY <2>4 DEF CountFound, AttemptBegin, Due
    <3>2. QED
      BY <2>4, <3>1 DEF CountFound, Uses, Collect
  <2>5. ASSUME NEW i \in Ids, FlushPush(c, i) \/ SweepPush(c, i) PROVE Uses(c) \/ Forgets
    <3>1. AttemptBegin(c, i) \/ Skip(c, i)
      BY <2>5 DEF FlushPush, SweepPush
    <3>2. call[c].pc = "collected"
      BY <2>5 DEF FlushPush, SweepPush, Doing, At
    <3>3. QED
      BY <3>1, <3>2, SkipForgets DEF Uses, Collect
  <2>6. CASE AckStep(c)
    BY <2>6 DEF AckStep, Uses
  <2>7. QED
    BY <1>2, <2>1, <2>2, <2>3, <2>4, <2>5, <2>6 DEF Work
<1>3. ASSUME NEW c \in Callers, Timers(c) PROVE Uses(c)
  BY <1>3 DEF Timers, CountBegin, FlushBegin, SweepBegin, FlushAll, Uses
<1>4. ASSUME NEW c \in Callers, PostAcks(c) PROVE Uses(c)
  BY <1>4 DEF PostAcks, Uses
<1>5. ASSUME NEW c \in Callers, NEW lost \in BOOLEAN, AckFails(c, lost)
      PROVE  UNCHANGED vars \/ Forgets
  <2>1. CASE ~lost
    BY <1>5, <2>1 DEF AckFails
  <2>2. CASE lost
    BY <1>5, <2>2, BecomeAt DEF AckFails, Become, Forgets, TypeOK
  <2>3. QED
    BY <2>1, <2>2
<1>6. ASSUME NEW n \in Nodes, Crash(n) PROVE Forgets
  BY <1>6 DEF Crash, Forgets
<1>7. ASSUME NEW n \in Nodes, NEW i \in Ids, Receive(n, i) \/ Lose(n, i)
      PROVE  UNCHANGED vars
  BY <1>7 DEF Receive, Lose
<1>8. ASSUME NEW n \in Nodes, NEW r \in Conns, Connect(r, n) \/ Close(n, r) \/ SweepNobody(n)
      PROVE  UNCHANGED vars
  BY <1>8 DEF Connect, Close, SweepNobody
<1>9. ASSUME NEW n \in Nodes, SweepNobody(n) PROVE UNCHANGED vars
  BY <1>9 DEF SweepNobody
<1>10. ASSUME NEW reload \in BOOLEAN, Disconnected \/ Handle \/ Leave(reload)
       PROVE  UNCHANGED vars
  BY <1>10 DEF Disconnected, Handle, Leave
<1>11. QED
  BY <1>1, <1>2, <1>3, <1>4, <1>5, <1>6, <1>7, <1>8, <1>9, <1>10 DEF AllNext

LEMMA StoreSteps ==
    ASSUME TypeOK, Kept, AllNext PROVE Next \/ UNCHANGED vars \/ Forgets
<1>1. tab.acks \in SUBSET Ids
  BY DEF Kept, TabType
<1>2. QED
  BY <1>1, StoreUses DEF Uses, Next, Begin

----------------------------------------------------------------------------
(* What the pieces of the gateway's steps do                               *)

LEMMA TaskStep ==
    ASSUME Kept, NEW c \in Callers, NEW t, NewTask(c, t)
    PROVE  /\ \A k \in Callers : task'[k] = IF k = c THEN t ELSE task[k]
           /\ t \in TaskType => task' \in [Callers -> TaskType]
BY DEF Kept, NewTask

LEMMA NoTaskType == NoTask \in TaskType /\ Unheard \in TaskType
BY DEF NoTask, Unheard, TaskType, Kinds

\* The tab's connections are connections; a new one joins them.
LEMMA UsedConns ==
    ASSUME Kept
    PROVE  /\ Used \subseteq Conns
           /\ \A r \in Conns : tab'.used = Append(tab.used, r) =>
                Used' = Used \cup {r} /\ tab'.used \in Seq(Conns)
           /\ tab'.used = tab.used => Used' = Used
<1>1. tab.used \in Seq(Conns)
  BY DEF Kept, TabType
<1>2. ASSUME NEW r \in Conns, tab'.used = Append(tab.used, r)
      PROVE  Used' = Used \cup {r} /\ tab'.used \in Seq(Conns)
  <2> DEFINE u == tab.used
             v == Append(u, r)
  <2>1. /\ v \in Seq(Conns) /\ Len(v) = Len(u) + 1 /\ v[Len(u) + 1] = r
        /\ \A k \in 1 .. Len(u) : v[k] = u[k]
        /\ Len(u) \in Nat /\ DOMAIN u = 1 .. Len(u) /\ DOMAIN v = 1 .. Len(v)
    BY <1>1, AppendProperties
  <2> HIDE DEF u, v
  <2>2. {v[k] : k \in DOMAIN v} = {u[k] : k \in DOMAIN u} \cup {r}
    <3>1. \A k \in DOMAIN v : v[k] \in {u[j] : j \in DOMAIN u} \cup {r}
      BY <2>1
    <3>2. \A k \in DOMAIN u : k \in DOMAIN v /\ v[k] = u[k]
      BY <2>1
    <3>3. Len(u) + 1 \in DOMAIN v
      BY <2>1
    <3>4. QED
      BY <2>1, <3>1, <3>2, <3>3
  <2>3. QED
    BY <1>2, <2>1, <2>2 DEF Used, u, v
<1>3. Used \subseteq Conns
  <2> DEFINE u == tab.used
  <2>1. \A k \in DOMAIN u : u[k] \in Conns
    BY <1>1
  <2>2. QED
    BY <2>1 DEF Used
<1>4. tab'.used = tab.used => Used' = Used
  BY DEF Used
<1>5. QED
  BY <1>2, <1>3, <1>4

\* A push writes the frame to connections, or drops what was written.
LEMMA PushFrames ==
    ASSUME Kept, NEW n, NEW rs, NEW i, rs = {} \/ i \in Ids, NEW stalled, Push(n, rs, i, stalled)
    PROVE  /\ wire' \in [Conns -> Seq(Ids)]
           /\ \A r \in Conns : Frames(r)' \subseteq Frames(r) \cup {i}
<1>1. ASSUME NEW r \in Conns
      PROVE  /\ wire'[r] \in Seq(Ids)
             /\ Frames(r)' \subseteq Frames(r) \cup {i}
  <2> DEFINE w == wire[r]
  <2>1. w \in Seq(Ids) /\ wire'[r] = IF r \in stalled THEN <<>>
                                     ELSE IF r \in rs THEN Append(w, i) ELSE w
    BY DEF Push, Kept
  <2>2. Frames(r)' = {wire'[r][k] : k \in DOMAIN wire'[r]} /\ Frames(r) = {w[k] : k \in DOMAIN w}
    BY DEF Frames
  <2>3. CASE r \in stalled
    BY <2>1, <2>2, <2>3
  <2>4. CASE r \notin stalled /\ r \notin rs
    BY <2>1, <2>2, <2>4
  <2>5. CASE r \notin stalled /\ r \in rs
    <3> DEFINE v == Append(w, i)
    <3>1. i \in Ids
      BY <2>5
    <3>2. /\ v \in Seq(Ids) /\ Len(v) = Len(w) + 1 /\ v[Len(w) + 1] = i
          /\ \A k \in 1 .. Len(w) : v[k] = w[k]
          /\ Len(w) \in Nat /\ DOMAIN w = 1 .. Len(w) /\ DOMAIN v = 1 .. Len(v)
      BY <2>1, <3>1, AppendProperties
    <3>3. wire'[r] = v
      BY <2>1, <2>5
    <3> HIDE DEF w, v
    <3>4. {v[k] : k \in DOMAIN v} \subseteq {w[k] : k \in DOMAIN w} \cup {i}
      BY <3>2
    <3>5. QED
      BY <2>2, <2>5, <3>2, <3>3, <3>4
  <2>6. QED
    BY <2>3, <2>4, <2>5
<1>2. wire' \in [Conns -> Seq(Ids)]
  BY <1>1 DEF Push
<1>3. QED
  BY <1>1, <1>2

\* Frames are written, and connections unregistered, at one node.
LEMMA PushStep ==
    ASSUME Kept, NEW n \in Nodes, NEW rs \in SUBSET Conns, NEW i, rs = {} \/ i \in Ids,
           reg \in [Nodes -> SUBSET Used], NEW stalled, Push(n, rs, i, stalled)
    PROVE  /\ reg' \in [Nodes -> SUBSET Used]
           /\ \A m \in Nodes : reg'[m] = IF m = n THEN reg[n] \ stalled ELSE reg[m]
           /\ orphan' \subseteq Callers /\ wire' \in [Conns -> Seq(Ids)]
           /\ pushed' \subseteq Conns \X Ids /\ pushed \subseteq pushed'
           /\ \A r \in rs \ stalled : <<r, i>> \in pushed'
<1>1. reg' = [reg EXCEPT ![n] = @ \ stalled]
  BY DEF Push
<1>2. /\ reg' \in [Nodes -> SUBSET Used]
      /\ \A m \in Nodes : reg'[m] = IF m = n THEN reg[n] \ stalled ELSE reg[m]
  BY <1>1
<1>3. orphan' \subseteq Callers
  BY DEF Push, Orphaned, Kept
<1>4. /\ pushed' \subseteq Conns \X Ids /\ pushed \subseteq pushed'
      /\ \A r \in rs \ stalled : <<r, i>> \in pushed'
  BY DEF Push, Kept
<1>5. wire' \in [Conns -> Seq(Ids)]
  BY PushFrames
<1>6. QED
  BY <1>2, <1>3, <1>4, <1>5

\* After a local dispatch every connection left has the frame, and the node
\* tracks the user if one is left.
LEMMA DispatchStep ==
    ASSUME Kept, NEW n \in Nodes, NEW i \in Ids, reg \in [Nodes -> SUBSET Used], Dispatch(n, i)
    PROVE  /\ reg' \in [Nodes -> SUBSET Used]
           /\ \A m \in Nodes : reg'[m] \subseteq reg[m]
           /\ orphan' \subseteq Callers /\ wire' \in [Conns -> Seq(Ids)]
           /\ pushed' \subseteq Conns \X Ids /\ pushed \subseteq pushed'
           /\ tracked \subseteq tracked' /\ tracked' \subseteq Nodes
           /\ counting' \subseteq Nodes \X Ids
           /\ \A r \in reg'[n] : <<r, i>> \in pushed' /\ n \in tracked'
           /\ \A r \in Conns : Frames(r)' \subseteq Frames(r) \cup {i}
<1>1. CASE reg[n] = {}
  BY <1>1 DEF Dispatch, Kept, Frames
<1>2. CASE reg[n] # {}
  <2>1. PICK stalled \in SUBSET Backlogged(reg[n]) :
          /\ Push(n, reg[n], i, stalled)
          /\ tracked' = tracked \cup {n}
          /\ counting' = IF reg[n] = stalled THEN counting ELSE counting \cup {<<n, i>>}
    BY <1>2 DEF Dispatch
  <2>2. reg[n] \in SUBSET Conns
    BY UsedConns
  <2>3. /\ tracked \subseteq tracked' /\ tracked' \subseteq Nodes /\ n \in tracked'
        /\ counting' \subseteq Nodes \X Ids
    BY <2>1 DEF Kept
  <2>4. /\ reg' \in [Nodes -> SUBSET Used]
        /\ \A m \in Nodes : reg'[m] = IF m = n THEN reg[n] \ stalled ELSE reg[m]
        /\ orphan' \subseteq Callers /\ wire' \in [Conns -> Seq(Ids)]
        /\ pushed' \subseteq Conns \X Ids /\ pushed \subseteq pushed'
        /\ \A r \in reg[n] \ stalled : <<r, i>> \in pushed'
        /\ \A r \in Conns : Frames(r)' \subseteq Frames(r) \cup {i}
    <3> DEFINE rs == reg[n]
    <3>1. rs \in SUBSET Conns /\ (rs = {} \/ i \in Ids) /\ Push(n, rs, i, stalled)
      BY <2>1, <2>2
    <3> HIDE DEF rs
    <3>2. /\ reg' \in [Nodes -> SUBSET Used]
          /\ \A m \in Nodes : reg'[m] = IF m = n THEN reg[n] \ stalled ELSE reg[m]
          /\ orphan' \subseteq Callers /\ wire' \in [Conns -> Seq(Ids)]
          /\ pushed' \subseteq Conns \X Ids /\ pushed \subseteq pushed'
          /\ \A r \in rs \ stalled : <<r, i>> \in pushed'
      BY <3>1, PushStep
    <3>3. \A r \in Conns : Frames(r)' \subseteq Frames(r) \cup {i}
      BY <3>1, PushFrames
    <3>4. QED
      BY <3>2, <3>3 DEF rs
  <2>5. /\ \A m \in Nodes : reg'[m] \subseteq reg[m]
        /\ \A r \in reg'[n] : <<r, i>> \in pushed' /\ n \in tracked'
    BY <2>3, <2>4
  <2>6. QED
    BY <2>3, <2>4, <2>5
<1>3. QED
  BY <1>1, <1>2

----------------------------------------------------------------------------
(* Type correctness                                                        *)

\* The calls and tasks, the tab and the rest of the gateway hold values of
\* their kinds, and the tasks fit their calls.
Tidy == TypeOK /\ Kept /\ Registry /\ \A c \in Callers : Fits(c)

\* Who is at a step of the store is a task of the kind that takes it.
LEMMA TaskOf ==
    ASSUME Tidy, NEW c \in Callers
    PROVE  /\ task[c] \in TaskType /\ call[c] \in CallType
           /\ call[c].pc = "idle" <=> task[c].kind = "none"
           /\ call[c].pc = "idle" => task[c] = NoTask
           /\ call[c].pc \in Delivering => task[c].kind = "deliver" /\ task[c].node \in Nodes
           /\ call[c].pc \in Reading => task[c].kind \in {"count", "flush", "sweep"}
           /\ call[c].pc \in Acking => task[c].kind \in {"ack", "unheard"}
           /\ call[c].pc \in Delivering => call[c].id \in Ids
<1>1. task[c] \in TaskType /\ call[c] \in CallType /\ Fits(c) /\ WellFormed(call[c])
  BY DEF Tidy, TypeOK, Kept
<1>2. /\ task[c].kind \in Kinds
      /\ call[c].pc \in {"idle"} \cup Delivering \cup Reading \cup Acking
  BY <1>1 DEF TaskType, CallType, Delivering, Reading, Acking
<1>3. QED
  BY <1>1, <1>2 DEF Fits, WellFormed, Kinds, Delivering, Reading, Acking

LEMMA KeptKept ==
    ASSUME Tidy, [AllNext]_allVars PROVE Kept'
<1> USE DEF Tidy
<1>0. /\ task \in [Callers -> TaskType] /\ tab \in TabType /\ Used \subseteq Conns
      /\ reg \in [Nodes -> SUBSET Used] /\ hash \in [Ids -> Entry \cup {None}]
      /\ call \in [Callers -> CallType]
  BY UsedConns DEF Kept, Registry, TypeOK
<1>1. ASSUME NEW c \in Callers, NEW n \in Nodes, NEW i \in Ids, Deliver(c, n, i) PROVE Kept'
  <2>1. [NoTask EXCEPT !.kind = "deliver", !.node = n] \in TaskType
    BY DEF NoTask, TaskType, Kinds
  <2>2. QED
    BY <1>1, <2>1, TaskStep DEF Deliver, Kept, gateway, network, exceptions, client
<1>2. ASSUME NEW c \in Callers, DeliverStore(c) \/ Finalize(c) \/ Record(c) \/ CountFound(c)
                                \/ AckStep(c)
      PROVE  Kept'
  BY <1>2 DEF DeliverStore, Finalize, Record, CountFound, AckStep, Kept, gateway, network,
     exceptions, client
<1>3. ASSUME NEW c \in Callers, DeliverRejected(c) \/ CountEnd(c) PROVE Kept'
  BY <1>3, TaskStep, NoTaskType DEF DeliverRejected, CountEnd, EndTask, Kept, gateway, network,
     exceptions, client
<1>4. ASSUME NEW c \in Callers, Broadcast(c) PROVE Kept'
  <2>1. call[c].id \in Ids /\ task[c].node \in Nodes
    BY <1>4, TaskOf DEF Broadcast, At, Delivering
  <2>2. /\ orphan' \subseteq Callers /\ wire' \in [Conns -> Seq(Ids)]
        /\ pushed' \subseteq Conns \X Ids /\ tracked' \subseteq Nodes
        /\ counting' \subseteq Nodes \X Ids
    BY <1>0, <1>4, <2>1, DispatchStep DEF Broadcast
  <2>3. task' \in [Callers -> TaskType]
    BY <1>4, TaskStep, NoTaskType DEF Broadcast, EndTask
  <2>4. bus' \subseteq Nodes \X Ids
    BY <1>4, <2>1 DEF Broadcast, Kept
  <2>5. UNCHANGED <<faults, missed, overtaken, tab, handled>>
    BY <1>4 DEF Broadcast, exceptions, client
  <2>6. QED
    BY <2>2, <2>3, <2>4, <2>5 DEF Kept
<1>5. ASSUME NEW n \in Nodes, NEW i \in Ids, Receive(n, i) PROVE Kept'
  <2>2. /\ orphan' \subseteq Callers /\ wire' \in [Conns -> Seq(Ids)]
        /\ pushed' \subseteq Conns \X Ids /\ tracked' \subseteq Nodes
        /\ counting' \subseteq Nodes \X Ids
    BY <1>0, <1>5, DispatchStep DEF Receive
  <2>3. QED
    BY <1>5, <2>2 DEF Kept, Receive, exceptions, client
<1>6. ASSUME NEW n \in Nodes, NEW i \in Ids, Lose(n, i) PROVE Kept'
  <2>1. faults' \in 0 .. MaxFaults
    BY <1>6, LimitsAssumption DEF Lose, Fault, Kept
  <2>2. bus' \cup missed' \subseteq Nodes \X Ids
    BY <1>6 DEF Lose, Kept
  <2>3. QED
    BY <1>6, <2>1, <2>2 DEF Lose, Kept, client
<1>7. ASSUME NEW c \in Callers, Collected(c) PROVE Kept'
  <2>1. [task[c] EXCEPT !.some = Due(c) # {}] \in TaskType
    BY <1>0 DEF TaskType
  <2>2. task' \in [Callers -> TaskType]
    BY <1>7, <2>1, TaskStep DEF Collected
  <2>3. tracked' \subseteq Nodes
    BY <1>7 DEF Collected, UntrackIfEmpty, Kept
  <2>4. overtaken' \subseteq Nodes \X Ids
    BY <1>7 DEF Collected, Pending, Kept
  <2>5. QED
    BY <1>7, <2>2, <2>3, <2>4 DEF Collected, Kept, client
<1>8. ASSUME NEW c \in Callers, NEW n \in Nodes, NEW i \in Ids, CountBegin(c, n, i) PROVE Kept'
  <2>1. [NoTask EXCEPT !.kind = "count", !.node = n, !.id = i] \in TaskType
    BY DEF NoTask, TaskType, Kinds
  <2>2. QED
    BY <1>8, <2>1, TaskStep DEF CountBegin, Kept, exceptions, client
<1>9. ASSUME NEW c \in Callers, NEW r \in Conns, FlushBegin(c, r) PROVE Kept'
  <2>1. NodeOf(r) \in Nodes
    BY <1>9 DEF FlushBegin, NodeOf, Registered
  <2>2. [NoTask EXCEPT !.kind = "flush", !.node = NodeOf(r), !.conn = r] \in TaskType
    BY <2>1 DEF NoTask, TaskType, Kinds
  <2>3. QED
    BY <1>9, <2>2, TaskStep DEF FlushBegin, Kept, exceptions, client
<1>10. ASSUME NEW c \in Callers, NEW n \in Nodes, SweepBegin(c, n) PROVE Kept'
  <2>1. [NoTask EXCEPT !.kind = "sweep", !.node = n] \in TaskType
    BY DEF NoTask, TaskType, Kinds
  <2>2. QED
    BY <1>10, <2>1, TaskStep DEF SweepBegin, Kept, gateway, network, exceptions, client
<1>11. ASSUME NEW c \in Callers, NEW i \in Ids, FlushPush(c, i) \/ SweepPush(c, i) PROVE Kept'
  <2> DEFINE n == task[c].node
  <2>1. n \in Nodes /\ task[c] \in TaskType
    BY <1>11, TaskOf DEF FlushPush, SweepPush, Doing, At, Fits, Reading
  <2>2. PICK rs, stalled :
          /\ rs \in SUBSET Conns
          /\ Push(n, rs, i, stalled) /\ tracked' \in {tracked, StillTracked(n, stalled)}
    <3>1. CASE FlushPush(c, i)
      <4>1. {task[c].conn} \in SUBSET Conns
        BY <1>0, <2>1, <3>1 DEF FlushPush
      <4>2. QED
        BY <3>1, <4>1 DEF FlushPush
    <3>2. CASE SweepPush(c, i)
      <4> DEFINE rs == IF c \in orphan THEN {} ELSE reg[n]
      <4>1. rs \in SUBSET Conns
        BY <1>0, <2>1
      <4>2. PICK stalled \in SUBSET Backlogged(rs) :
              /\ Push(n, rs, i, stalled)
              /\ tracked' = IF stalled = {} THEN tracked ELSE StillTracked(n, stalled)
        BY <3>2 DEF SweepPush
      <4>3. QED
        BY <4>1, <4>2
    <3>3. QED
      BY <1>11, <3>1, <3>2
  <2>3. /\ orphan' \subseteq Callers /\ wire' \in [Conns -> Seq(Ids)]
        /\ pushed' \subseteq Conns \X Ids
    BY <1>0, <2>1, <2>2, PushStep
  <2>4. tracked' \subseteq Nodes
    BY <2>2 DEF StillTracked, Kept
  <2>5. UNCHANGED <<bus, counting, faults, missed, overtaken, task, tab, handled>>
    BY <1>11 DEF FlushPush, SweepPush, exceptions, client
  <2>6. QED
    BY <2>3, <2>4, <2>5 DEF Kept
<1>12. ASSUME NEW c \in Callers, FlushEnd(c) \/ SweepEnd(c) PROVE Kept'
  <2>1. task' \in [Callers -> TaskType]
    BY <1>12, TaskStep, NoTaskType DEF FlushEnd, SweepEnd, EndTask
  <2>2. task[c].node \in Nodes
    BY <1>12, TaskOf DEF FlushEnd, SweepEnd, Doing, At, Fits, Reading
  <2>3. tracked' \subseteq Nodes /\ orphan' \subseteq Callers
    BY <1>12, <2>2 DEF FlushEnd, SweepEnd, TrackFlushed, Kept
  <2>4. QED
    BY <1>12, <2>1, <2>3 DEF FlushEnd, SweepEnd, Kept, exceptions, client
<1>13. ASSUME NEW n \in Nodes, SweepNobody(n) PROVE Kept'
  BY <1>13 DEF SweepNobody, Kept, exceptions, client
<1>14. ASSUME NEW r \in Conns, NEW n \in Nodes, Connect(r, n) PROVE Kept'
  <2>1. wire' \in [Conns -> Seq(Ids)]
    <3>1. CASE wire' = wire
      BY <3>1 DEF Kept
    <3>2. CASE \E old \in First(reg[n]) : wire' = [wire EXCEPT ![old] = <<>>]
      <4>1. PICK old \in First(reg[n]) : wire' = [wire EXCEPT ![old] = <<>>]
        BY <3>2
      <4>2. <<>> \in Seq(Ids)
        OBVIOUS
      <4>3. QED
        BY <4>1, <4>2 DEF Kept
    <3>3. QED
      BY <1>14, <3>1, <3>2 DEF Connect
  <2>2. tab' \in TabType
    <3> DEFINE u == Append(tab.used, r)
    <3>1. u \in Seq(Conns)
      BY <1>0, AppendProperties DEF TabType
    <3>2. tab' = [tab EXCEPT !.conn = r, !.used = u]
      BY <1>14 DEF Connect
    <3> HIDE DEF u
    <3>3. QED
      BY <1>0, <3>1, <3>2 DEF TabType
  <2>3. QED
    BY <1>14, <2>1, <2>2 DEF Connect, Kept, exceptions
<1>15. ASSUME NEW r \in Conns, NEW n \in Nodes, Close(n, r) PROVE Kept'
  <2>1. /\ orphan' \subseteq Callers /\ wire' \in [Conns -> Seq(Ids)]
        /\ pushed' \subseteq Conns \X Ids
    BY <1>0, <1>15, PushStep DEF Close, Unregister
  <2>2. tracked' \subseteq Nodes
    BY <1>15 DEF Close, Unregister, StillTracked, Kept
  <2>3. QED
    BY <1>15, <2>1, <2>2 DEF Close, Kept, exceptions, client
<1>16. CASE Disconnected
  <2>1. tab' \in TabType
    BY <1>0, <1>16 DEF Disconnected, TabType
  <2>2. QED
    BY <1>16, <2>1 DEF Disconnected, Kept, gateway, network, exceptions
<1>17. ASSUME NEW reload \in BOOLEAN, Leave(reload) PROVE Kept'
  <2>1. faults' \in 0 .. MaxFaults
    BY <1>17, LimitsAssumption DEF Leave, Fault, Kept
  <2>2. task' \in [Callers -> TaskType]
    BY <1>0, <1>17, NoTaskType DEF Leave
  <2>3. tab' \in TabType
    <3>1. tab' \in {[conn |-> None, used |-> tab.used, acks |-> {}, failures |-> 0],
                    [tab EXCEPT !.conn = None]}
      BY <1>17 DEF Leave
    <3>2. QED
      BY <1>0, <3>1, LimitsAssumption DEF TabType
  <2>4. QED
    BY <1>17, <2>1, <2>2, <2>3 DEF Leave, Kept, network, exceptions
<1>18. ASSUME NEW n \in Nodes, Crash(n) PROVE Kept'
  <2> DEFINE dead == {c \in Callers : task[c].node = n}
  <2>1. faults' \in 0 .. MaxFaults
    BY <1>18, LimitsAssumption DEF Crash, Fault, Kept
  <2>2. task' \in [Callers -> TaskType]
    BY <1>0, <1>18, NoTaskType DEF Crash
  <2>3. missed' \subseteq Nodes \X Ids
    <3>1. \A d \in dead : task[d].kind = "deliver" => call[d].id \in Ids
      BY TaskOf DEF Fits
    <3>2. QED
      BY <1>18, <3>1 DEF Crash, Kept
  <2>4. /\ bus' \subseteq Nodes \X Ids /\ counting' \subseteq Nodes \X Ids
        /\ tracked' \subseteq Nodes /\ orphan' \subseteq Callers
        /\ wire' \in [Conns -> Seq(Ids)]
    BY <1>18 DEF Crash, Kept
  <2>5. QED
    BY <1>18, <2>1, <2>2, <2>3, <2>4 DEF Crash, Kept, client
<1>19. CASE Handle
  <2> DEFINE w == wire[tab.conn]
             i == Head(w)
  <2>1. w \in Seq(Ids) /\ w # <<>>
    <3>1. tab.conn \in Conns
      BY <1>0, <1>19 DEF Handle, TabType
    <3>2. QED
      BY <1>19, <3>1 DEF Handle, Kept
  <2>2. Head(w) \in Ids /\ Tail(w) \in Seq(Ids)
    BY <2>1, HeadTailProperties
  <2>3. /\ handled' = handled \cup {i} /\ tab' = [tab EXCEPT !.acks = @ \cup {i}]
        /\ wire' = [wire EXCEPT ![tab.conn] = Tail(w)]
    BY <1>19 DEF Handle
  <2> HIDE DEF w, i
  <2>4. i \in Ids /\ wire' \in [Conns -> Seq(Ids)]
    BY <2>2, <2>3 DEF i, Kept
  <2>5. tab' \in TabType
    BY <1>0, <2>3, <2>4 DEF TabType
  <2>6. QED
    BY <1>19, <2>3, <2>4, <2>5 DEF Handle, Kept, exceptions
<1>20. ASSUME NEW c \in Callers, PostAcks(c) PROVE Kept'
  <2>1. tab' \in TabType
    BY <1>0, <1>20 DEF PostAcks, TabType
  <2>2. [NoTask EXCEPT !.kind = "ack", !.ids = tab.acks] \in TaskType
    BY <1>0 DEF NoTask, TaskType, Kinds, TabType
  <2>3. QED
    BY <1>20, <2>1, <2>2, TaskStep DEF PostAcks, Kept, gateway, network, exceptions
<1>21. ASSUME NEW c \in Callers, AckReply(c) PROVE Kept'
  <2>1. tab' \in TabType
    BY <1>0, <1>21, LimitsAssumption DEF AckReply, TabType
  <2>2. QED
    BY <1>21, <2>1, TaskStep, NoTaskType DEF AckReply, EndTask, Kept, gateway, network, exceptions
<1>22. ASSUME NEW c \in Callers, NEW lost \in BOOLEAN, AckFails(c, lost) PROVE Kept'
  <2>1. Requeued(task[c].ids) \in TabType
    <3> DEFINE f == IF tab.failures > MaxAckFailures THEN tab.failures ELSE tab.failures + 1
               acks == IF f <= MaxAckFailures THEN tab.acks \cup task[c].ids ELSE tab.acks
               g == IF acks = {} THEN 0 ELSE f
    <3>1. acks \in SUBSET Ids /\ g \in 0 .. (MaxAckFailures + 1)
      BY <1>0, LimitsAssumption DEF TabType, TaskType
    <3>2. Requeued(task[c].ids) = [tab EXCEPT !.acks = acks, !.failures = g]
      BY DEF Requeued
    <3> HIDE DEF acks, g
    <3>3. QED
      BY <1>0, <3>1, <3>2 DEF TabType
  <2>2. task' \in [Callers -> TaskType]
    BY <1>22, TaskStep, NoTaskType DEF AckFails, EndTask
  <2>3. faults' \in 0 .. MaxFaults
    BY <1>22, LimitsAssumption DEF AckFails, Fault, Kept
  <2>4. QED
    BY <1>22, <2>1, <2>2, <2>3 DEF AckFails, Kept, network, exceptions
<1>23. CASE UNCHANGED allVars
  BY <1>23 DEF allVars, gateway, network, exceptions, client, Kept
<1>24. QED
  BY <1>1, <1>2, <1>3, <1>4, <1>5, <1>6, <1>7, <1>8, <1>9, <1>10, <1>11, <1>12, <1>13, <1>14,
     <1>15, <1>16, <1>17, <1>18, <1>19, <1>20, <1>21, <1>22, <1>23 DEF AllNext, Work, Timers

\* A step that registers nothing and starts no flush keeps the registry.
SameTab == tab'.conn \in {tab.conn, None} /\ tab'.used = tab.used
NoNewFlush ==
    \A c \in Callers : task'[c].kind = "flush" =>
        task[c].kind = "flush" /\ task'[c].conn = task[c].conn /\ task'[c].node = task[c].node
FewerConns == reg' \in [Nodes -> SUBSET Used] /\ \A n \in Nodes : reg'[n] \subseteq reg[n]

LEMMA RegistryStays ==
    ASSUME Kept, Registry, SameTab, NoNewFlush, FewerConns, flushes' \subseteq flushes
    PROVE  Registry'
<1>1. Used' = Used
  BY UsedConns DEF SameTab
<1>2. ASSUME NEW n \in Nodes
      PROVE  IsFiniteSet(reg'[n]) /\ Cardinality(reg'[n]) <= MaxConnsPerUser
  <2>1. IsFiniteSet(reg[n]) /\ Cardinality(reg[n]) <= MaxConnsPerUser /\ reg'[n] \subseteq reg[n]
    BY DEF Registry, FewerConns
  <2>2. /\ IsFiniteSet(reg'[n]) /\ Cardinality(reg'[n]) \in Nat /\ Cardinality(reg[n]) \in Nat
        /\ Cardinality(reg'[n]) <= Cardinality(reg[n])
    BY <2>1, FS_Subset, FS_CardinalityType
  <2>3. QED
    BY <2>1, <2>2, LimitsAssumption
<1>3. \A n, m \in Nodes : n # m => reg'[n] \cap reg'[m] = {}
  BY DEF Registry, FewerConns
<1>4. ASSUME NEW c \in Callers, NEW n \in Nodes, task'[c].kind = "flush", task'[c].conn \in reg'[n]
      PROVE  task'[c].node = n
  BY <1>4 DEF Registry, FewerConns, NoNewFlush
<1>5. QED
  BY <1>1, <1>2, <1>3, <1>4 DEF Registry, SameTab, FewerConns

LEMMA NewTaskNoFlush ==
    ASSUME Kept, NEW c \in Callers, NEW t, NewTask(c, t),
           t.kind = "flush" => /\ task[c].kind = "flush"
                               /\ t.conn = task[c].conn /\ t.node = task[c].node
    PROVE  NoNewFlush
BY TaskStep DEF NoNewFlush

LEMMA RegistryKept ==
    ASSUME Tidy, [AllNext]_allVars PROVE Registry'
<1> USE DEF Tidy
<1>0. /\ task \in [Callers -> TaskType] /\ tab \in TabType /\ Used \subseteq Conns
      /\ reg \in [Nodes -> SUBSET Used]
  BY UsedConns DEF Kept, Registry
<1>1. ASSUME UNCHANGED tab PROVE SameTab
  BY <1>1 DEF SameTab
<1>2. ASSUME UNCHANGED task PROVE NoNewFlush
  BY <1>2 DEF NoNewFlush
<1>3. ASSUME UNCHANGED reg PROVE FewerConns
  BY <1>0, <1>3 DEF FewerConns
<1>4. ASSUME NEW c \in Callers, NEW n \in Nodes, NEW i \in Ids, Deliver(c, n, i)
      PROVE  Registry'
  <2>1. NoNewFlush
    BY <1>4, NewTaskNoFlush DEF Deliver, NoTask
  <2>2. QED
    BY <1>1, <1>3, <1>4, <2>1, RegistryStays DEF Deliver, gateway, network, client
<1>5. ASSUME NEW c \in Callers, DeliverStore(c) \/ Finalize(c) \/ Record(c) \/ CountFound(c)
                                \/ AckStep(c)
      PROVE  Registry'
  BY <1>1, <1>2, <1>3, <1>5, RegistryStays DEF DeliverStore, Finalize, Record, CountFound, AckStep,
     gateway, network, client
<1>6. ASSUME NEW c \in Callers, EndTask(c) PROVE NoNewFlush
  BY <1>6, NewTaskNoFlush DEF EndTask, NoTask
<1>7. ASSUME NEW c \in Callers, DeliverRejected(c) \/ CountEnd(c) \/ FlushEnd(c) \/ SweepEnd(c)
      PROVE  Registry'
  BY <1>1, <1>3, <1>6, <1>7, RegistryStays DEF DeliverRejected, CountEnd, FlushEnd, SweepEnd, gateway,
     network, client
<1>8. ASSUME NEW n \in Nodes, NEW i \in Ids, Dispatch(n, i) PROVE FewerConns
  BY <1>0, <1>8, DispatchStep DEF FewerConns
<1>9. ASSUME NEW c \in Callers, Broadcast(c) PROVE Registry'
  <2>1. call[c].id \in Ids /\ task[c].node \in Nodes
    BY <1>9, TaskOf DEF Broadcast, At, Delivering
  <2>2. QED
    BY <1>1, <1>6, <1>8, <1>9, <2>1, RegistryStays DEF Broadcast, client
<1>10. ASSUME NEW n \in Nodes, NEW i \in Ids, Receive(n, i) \/ Lose(n, i) PROVE Registry'
  BY <1>1, <1>2, <1>3, <1>8, <1>10, RegistryStays DEF Receive, Lose, client
<1>11. ASSUME NEW c \in Callers, Collected(c) PROVE Registry'
  <2> DEFINE t == [task[c] EXCEPT !.some = Due(c) # {}]
  <2>1. t.kind = task[c].kind /\ t.conn = task[c].conn /\ t.node = task[c].node
    BY <1>0 DEF TaskType
  <2>2. NewTask(c, t)
    BY <1>11 DEF Collected
  <2> HIDE DEF t
  <2>3. NoNewFlush
    BY <2>1, <2>2, NewTaskNoFlush
  <2>4. QED
    BY <1>1, <1>3, <1>11, <2>3, RegistryStays DEF Collected, client
<1>12. ASSUME NEW c \in Callers, NEW n \in Nodes, NEW i \in Ids, CountBegin(c, n, i)
       PROVE  Registry'
  <2>1. NoNewFlush
    BY <1>12, NewTaskNoFlush DEF CountBegin, NoTask
  <2>2. QED
    BY <1>1, <1>3, <1>12, <2>1, RegistryStays DEF CountBegin, client
<1>13. ASSUME NEW c \in Callers, NEW r \in Conns, FlushBegin(c, r) PROVE Registry'
  <2> DEFINE t == [NoTask EXCEPT !.kind = "flush", !.node = NodeOf(r), !.conn = r]
  <2>1. t.conn = r /\ t.node = NodeOf(r)
    BY DEF NoTask
  <2>2. NewTask(c, t) /\ r \in flushes /\ flushes' \subseteq flushes
        /\ UNCHANGED <<reg, tab>>
    BY <1>13 DEF FlushBegin, client
  <2>3. NodeOf(r) \in Nodes /\ r \in reg[NodeOf(r)]
    BY <1>13 DEF FlushBegin, NodeOf, Registered
  <2> HIDE DEF t
  <2>4. \A k \in Callers : task'[k] = IF k = c THEN t ELSE task[k]
    BY <2>2, TaskStep
  <2>5. ASSUME NEW k \in Callers, NEW n \in Nodes, task'[k].kind = "flush", task'[k].conn \in reg'[n]
        PROVE  task'[k].node = n
    <3>1. CASE k = c
      BY <2>1, <2>2, <2>3, <2>4, <2>5, <3>1 DEF Registry
    <3>2. CASE k # c
      BY <2>2, <2>4, <2>5, <3>2 DEF Registry
    <3>3. QED
      BY <3>1, <3>2
  <2>6. Used' = Used
    BY <2>2 DEF Used
  <2>7. QED
    BY <2>2, <2>5, <2>6 DEF Registry
<1>14. ASSUME NEW c \in Callers, NEW n \in Nodes, SweepBegin(c, n) PROVE Registry'
  <2>1. NoNewFlush
    BY <1>14, NewTaskNoFlush DEF SweepBegin, NoTask
  <2>2. QED
    BY <1>1, <1>3, <1>14, <2>1, RegistryStays DEF SweepBegin, gateway, network, client
<1>15. ASSUME NEW n \in Nodes, NEW rs, NEW i, NEW stalled, Push(n, rs, i, stalled) PROVE FewerConns
  <2>1. reg' = [reg EXCEPT ![n] = @ \ stalled]
    BY <1>15 DEF Push
  <2>2. QED
    BY <1>0, <2>1 DEF FewerConns
<1>16. ASSUME NEW c \in Callers, NEW i \in Ids, FlushPush(c, i) \/ SweepPush(c, i) PROVE Registry'
  <2>1. task[c].node \in Nodes
    BY <1>16, TaskOf DEF FlushPush, SweepPush, Doing, At, Fits, Reading
  <2>2. FewerConns
    BY <1>15, <1>16, <2>1 DEF FlushPush, SweepPush
  <2>3. QED
    BY <1>1, <1>2, <1>16, <2>2, RegistryStays DEF FlushPush, SweepPush, client
<1>17. ASSUME NEW n \in Nodes, SweepNobody(n) \/ \E r \in Conns : Close(n, r) PROVE Registry'
  BY <1>1, <1>2, <1>3, <1>15, <1>17, RegistryStays DEF SweepNobody, Close, Unregister, client
<1>18. ASSUME NEW r \in Conns, NEW n \in Nodes, Connect(r, n) PROVE Registry'
  <2> DEFINE all == reg[n] \cup {r}
  <2>1. r \notin Used /\ IsFiniteSet(reg[n]) /\ Cardinality(reg[n]) <= MaxConnsPerUser
    BY <1>18 DEF Connect, Registry
  <2>2. /\ IsFiniteSet(all) /\ Cardinality(all) = Cardinality(reg[n]) + 1
        /\ Cardinality(reg[n]) \in Nat
    BY <1>0, <2>1, FS_AddElement, FS_CardinalityType
  <2>3. PICK conns \in SUBSET all :
          /\ reg' = [reg EXCEPT ![n] = conns]
          /\ IsFiniteSet(conns) /\ Cardinality(conns) <= MaxConnsPerUser
    <3>1. CASE OverCap(all)
      <4>1. PICK old \in First(reg[n]) : reg' = [reg EXCEPT ![n] = all \ {old}]
        BY <1>18, <3>1 DEF Connect
      <4>2. old \in all
        BY <4>1 DEF First
      <4> DEFINE rest == all \ {old}
      <4>3. IsFiniteSet(rest) /\ Cardinality(rest) = Cardinality(all) - 1
        BY <2>2, <4>2, FS_RemoveElement
      <4>4. rest \in SUBSET all /\ reg' = [reg EXCEPT ![n] = rest]
        BY <4>1
      <4> HIDE DEF all, rest
      <4>5. Cardinality(rest) <= MaxConnsPerUser
        BY <2>1, <2>2, <4>3, LimitsAssumption
      <4>6. QED
        BY <4>3, <4>4, <4>5
    <3>2. CASE ~OverCap(all)
      <4>1. reg' = [reg EXCEPT ![n] = all]
        BY <1>18, <3>2 DEF Connect
      <4> HIDE DEF all
      <4>2. Cardinality(all) <= MaxConnsPerUser
        BY <2>2, <3>2, LimitsAssumption DEF OverCap
      <4>3. QED
        BY <2>2, <4>1, <4>2
    <3>3. QED
      BY <3>1, <3>2
  <2>4. tab'.conn = r /\ tab'.used = Append(tab.used, r)
    BY <1>0, <1>18 DEF Connect, TabType
  <2>5. Used' = Used \cup {r}
    BY <2>4, UsedConns
  <2>6. flushes' = flushes \cup {r} /\ task' = task
    BY <1>18 DEF Connect
  <2>7. \A m \in Nodes : /\ reg'[m] \subseteq reg[m] \cup {r}
                         /\ m # n => reg'[m] = reg[m]
    BY <1>0, <2>3
  <2>8. \A m \in Nodes : IsFiniteSet(reg'[m]) /\ Cardinality(reg'[m]) <= MaxConnsPerUser
    BY <1>0, <2>3 DEF Registry
  <2>9. \A m, k \in Nodes : m # k => reg'[m] \cap reg'[k] = {}
    BY <1>0, <2>1, <2>7 DEF Registry
  <2>10. ASSUME NEW c \in Callers, NEW m \in Nodes, task[c].kind = "flush",
                task[c].conn \in reg'[m]
         PROVE  task[c].node = m
    <3>1. task[c].conn \in Used
      BY <2>10 DEF Fits
    <3>2. QED
      BY <2>1, <2>7, <2>10, <3>1 DEF Registry
  <2>11. reg' \in [Nodes -> SUBSET Used']
    BY <1>0, <2>3, <2>5
  <2>12. QED
    BY <2>4, <2>5, <2>6, <2>8, <2>9, <2>10, <2>11 DEF Registry
<1>19. CASE Disconnected
  <2>1. SameTab
    BY <1>0, <1>19 DEF Disconnected, SameTab, TabType
  <2>2. QED
    BY <1>2, <1>3, <1>19, <2>1, RegistryStays DEF Disconnected, gateway, network
<1>20. ASSUME NEW reload \in BOOLEAN, Leave(reload) PROVE Registry'
  <2>1. SameTab
    <3>1. tab' \in {[conn |-> None, used |-> tab.used, acks |-> {}, failures |-> 0],
                    [tab EXCEPT !.conn = None]}
      BY <1>20 DEF Leave
    <3>2. QED
      BY <1>0, <3>1 DEF SameTab, TabType
  <2>2. NoNewFlush
    BY <1>20 DEF Leave, NoNewFlush, Unheard, NoTask
  <2>3. QED
    BY <1>3, <1>20, <2>1, <2>2, RegistryStays DEF Leave, network
<1>21. ASSUME NEW n \in Nodes, Crash(n) PROVE Registry'
  <2>1. NoNewFlush
    BY <1>21 DEF Crash, NoNewFlush, NoTask
  <2>2. FewerConns /\ flushes' \subseteq flushes
    BY <1>0, <1>21 DEF Crash, FewerConns
  <2>3. QED
    BY <1>1, <1>21, <2>1, <2>2, RegistryStays DEF Crash, client
<1>22. CASE Handle
  <2>1. SameTab
    BY <1>0, <1>22 DEF Handle, SameTab, TabType
  <2>2. QED
    BY <1>2, <1>3, <1>22, <2>1, RegistryStays DEF Handle
<1>23. ASSUME NEW c \in Callers, PostAcks(c) PROVE Registry'
  <2>1. SameTab
    BY <1>0, <1>23 DEF PostAcks, SameTab, TabType
  <2>2. NoNewFlush
    BY <1>23, NewTaskNoFlush DEF PostAcks, NoTask
  <2>3. QED
    BY <1>3, <1>23, <2>1, <2>2, RegistryStays DEF PostAcks, gateway, network
<1>24. ASSUME NEW c \in Callers, AckReply(c) PROVE Registry'
  <2>1. SameTab
    BY <1>0, <1>24 DEF AckReply, SameTab, TabType
  <2>2. QED
    BY <1>3, <1>6, <1>24, <2>1, RegistryStays DEF AckReply, gateway, network
<1>25. ASSUME NEW c \in Callers, NEW lost \in BOOLEAN, AckFails(c, lost) PROVE Registry'
  <2>1. SameTab
    BY <1>0, <1>25 DEF AckFails, Requeued, SameTab, TabType
  <2>2. NoNewFlush
    BY <1>6, <1>25, NewTaskNoFlush DEF AckFails, Unheard, NoTask
  <2>3. QED
    BY <1>3, <1>25, <2>1, <2>2, RegistryStays DEF AckFails, network
<1>26. CASE UNCHANGED allVars
  BY <1>1, <1>2, <1>3, <1>26, RegistryStays DEF allVars, gateway, network, client
<1>27. QED
  BY <1>4, <1>5, <1>7, <1>9, <1>10, <1>11, <1>12, <1>13, <1>14, <1>16, <1>17, <1>18, <1>19, <1>20,
     <1>21, <1>22, <1>23, <1>24, <1>25, <1>26 DEF AllNext, Work, Timers

\* What the steps of a call leave as it is.
LEMMA ReadAll ==
    ASSUME TypeOK, NEW c \in Callers, NEW all \in BOOLEAN, CollectRead(c, all)
    PROVE  call'[c].all = all /\ call[c].pc = "idle"
<1> DEFINE todo == {i \in Pending : ~Live(hash[i], now)}
           r == [Idle EXCEPT !.pc = "finalize", !.at = now, !.all = all, !.snap = hash,
                             !.todo = todo]
<1>1. Become(c, r) /\ At(c, "idle")
  BY DEF CollectRead
<1> HIDE DEF todo
<1>2. r.all = all
  BY DEF Idle
<1> HIDE DEF r
<1>3. QED
  BY <1>1, <1>2, BecomeAt DEF At, TypeOK

LEMMA AnnounceId ==
    ASSUME TypeOK, NEW c \in Callers, EnqueueStore(c) \/ EnqueueStatus(c)
    PROVE  call'[c].id = call[c].id /\ call[c].id \in Ids
<1>1. call[c] \in CallType /\ WellFormed(call[c]) /\ call[c].pc \in {"store", "announce"}
  BY DEF TypeOK, EnqueueStore, EnqueueStatus, At
<1>2. PICK r \in {[call[c] EXCEPT !.pc = "announce", !.at = 0], [call[c] EXCEPT !.pc = "stored"]} :
        Become(c, r)
  BY DEF EnqueueStore, EnqueueStatus
<1>3. r.id = call[c].id
  BY <1>1 DEF CallType
<1>4. QED
  BY <1>1, <1>2, <1>3, BecomeAt DEF TypeOK, WellFormed

LEMMA CollectStays ==
    ASSUME TypeOK, NEW c \in Callers,
           \/ \E i \in Ids : FinalizeDel(c, i) \/ AttemptBegin(c, i)
           \/ FinalizeStatus(c) \/ CollectReturn(c) \/ AttemptSet(c)
    PROVE  /\ call'[c].all = call[c].all /\ call[c].pc \in Reading /\ call'[c].pc \in Reading
           /\ call'[c].pc \in {"collected", "attempt"} =>
                /\ call'[c].todo = call[c].todo
                /\ call[c].pc = "finalize" => call[c].todo = {}
           /\ Others(c)
<1>0. call[c] \in CallType /\ call \in [Callers -> CallType]
  BY DEF TypeOK
<1> DEFINE Kept2(r) == /\ r.all = call[c].all /\ r.pc \in Reading
                       /\ r.pc \in {"collected", "attempt"} =>
                            /\ r.todo = call[c].todo
                            /\ call[c].pc = "finalize" => call[c].todo = {}
<1>1. ASSUME NEW r, Become(c, r), Kept2(r), call[c].pc \in Reading
      PROVE  /\ Kept2(call'[c]) /\ call[c].pc \in Reading /\ Others(c)
  <2>1. call'[c] = r /\ Others(c)
    BY <1>0, <1>1, BecomeAt DEF Others
  <2>2. QED
    BY <1>1, <2>1
<1>2. ASSUME NEW i \in Ids, FinalizeDel(c, i)
      PROVE  Kept2(call'[c]) /\ call[c].pc \in Reading /\ Others(c)
  <2> DEFINE p == IF Stored(i) THEN "settle" ELSE "finalize"
             k == IF Stored(i) THEN i ELSE None
             r == [call[c] EXCEPT !.pc = p, !.id = k, !.todo = @ \ {i}]
  <2>1. Become(c, r) /\ call[c].pc = "finalize" /\ p \in {"settle", "finalize"}
    BY <1>2 DEF FinalizeDel, At
  <2> HIDE DEF p, k
  <2>2. r.all = call[c].all /\ r.pc = p
    BY <1>0 DEF CallType
  <2> HIDE DEF r
  <2>3. QED
    BY <1>1, <2>1, <2>2 DEF Reading
<1>3. ASSUME NEW i \in Ids, AttemptBegin(c, i)
      PROVE  Kept2(call'[c]) /\ call[c].pc \in Reading /\ Others(c)
  <2> DEFINE r == [call[c] EXCEPT !.pc = "attempt", !.id = i]
  <2>1. Become(c, r) /\ call[c].pc = "collected"
    BY <1>3 DEF AttemptBegin, At
  <2>2. r.all = call[c].all /\ r.pc = "attempt" /\ r.todo = call[c].todo
    BY <1>0 DEF CallType
  <2> HIDE DEF r
  <2>3. QED
    BY <1>1, <2>1, <2>2 DEF Reading
<1>4. ASSUME FinalizeStatus(c)
      PROVE  Kept2(call'[c]) /\ call[c].pc \in Reading /\ Others(c)
  <2> DEFINE r == [call[c] EXCEPT !.pc = "finalize", !.id = None]
  <2>1. Become(c, r) /\ call[c].pc = "settle"
    BY <1>4 DEF FinalizeStatus, At
  <2>2. r.all = call[c].all /\ r.pc = "finalize"
    BY <1>0 DEF CallType
  <2> HIDE DEF r
  <2>3. QED
    BY <1>1, <2>1, <2>2 DEF Reading
<1>5. ASSUME CollectReturn(c)
      PROVE  Kept2(call'[c]) /\ call[c].pc \in Reading /\ Others(c)
  <2> DEFINE s == [i \in Ids |-> IF i \in Due(c) THEN call[c].snap[i] ELSE None]
             r == [call[c] EXCEPT !.pc = "collected", !.snap = s]
  <2>1. Become(c, r) /\ call[c].pc = "finalize" /\ call[c].todo = {}
    BY <1>5 DEF CollectReturn, At
  <2> HIDE DEF s
  <2>2. r.all = call[c].all /\ r.pc = "collected" /\ r.todo = call[c].todo
    BY <1>0 DEF CallType
  <2> HIDE DEF r
  <2>3. QED
    BY <1>1, <2>1, <2>2 DEF Reading
<1>6. ASSUME AttemptSet(c)
      PROVE  Kept2(call'[c]) /\ call[c].pc \in Reading /\ Others(c)
  <2> DEFINE s == [call[c].snap EXCEPT ![call[c].id] = None]
             r == [call[c] EXCEPT !.pc = "collected", !.id = None, !.snap = s]
  <2>1. Become(c, r) /\ call[c].pc = "attempt"
    BY <1>6 DEF AttemptSet, At
  <2> HIDE DEF s
  <2>2. r.all = call[c].all /\ r.pc = "collected" /\ r.todo = call[c].todo
    BY <1>0 DEF CallType
  <2> HIDE DEF r
  <2>3. QED
    BY <1>1, <2>1, <2>2 DEF Reading
<1>7. QED
  BY <1>2, <1>3, <1>4, <1>5, <1>6

\* A step of one call, or none, leaves the others as they fit.
LEMMA FitsStays ==
    ASSUME Kept, NEW c \in Callers, Others(c), Fits(c)', \A k \in Callers : Fits(k),
           \A k \in Callers : k # c => task'[k] = task[k], Used \subseteq Used'
    PROVE  \A k \in Callers : Fits(k)'
BY DEF Fits, Others

LEMMA FitsKept ==
    ASSUME Tidy, [AllNext]_allVars PROVE \A c \in Callers : Fits(c)'
<1> USE DEF Tidy
<1> DEFINE Goal == \A c \in Callers : Fits(c)'
<1>0. /\ task \in [Callers -> TaskType] /\ call \in [Callers -> CallType]
      /\ \A c \in Callers : call[c] \in CallType /\ task[c] \in TaskType
  BY DEF Kept, TypeOK
<1>1. ASSUME UNCHANGED tab PROVE Used' = Used
  BY <1>1 DEF Used
<1>2. ASSUME UNCHANGED <<call, task>>, Used \subseteq Used' PROVE Goal
  BY <1>2 DEF Fits
<1>3. ASSUME NEW c \in Callers, NEW t, NewTask(c, t), Others(c), Fits(c)', Used \subseteq Used'
      PROVE  Goal
  <2>1. \A k \in Callers : k # c => task'[k] = task[k]
    BY <1>3, TaskStep
  <2>2. QED
    BY <1>3, <2>1, FitsStays
<1>4. ASSUME NEW c \in Callers, UNCHANGED task, Others(c), Fits(c)', Used \subseteq Used'
      PROVE  Goal
  BY <1>4, FitsStays
<1>5. ASSUME NEW c \in Callers, EndTask(c), Others(c), call'[c].pc = "idle", Used \subseteq Used'
      PROVE  Goal
  <2>1. task'[c] = NoTask
    BY <1>5, TaskStep DEF EndTask
  <2>2. Fits(c)'
    BY <1>5, <2>1 DEF Fits, NoTask
  <2>3. QED
    BY <1>3, <1>5, <2>2 DEF EndTask
<1>6. ASSUME NEW c \in Callers, Done(c) \/ EnqueueReject(c)
      PROVE  Others(c) /\ call'[c].pc = "idle"
  BY <1>6, IdleStep
<1>7. ASSUME NEW c \in Callers, NEW n \in Nodes, NEW i \in Ids, Deliver(c, n, i) PROVE Goal
  <2> DEFINE t == [NoTask EXCEPT !.kind = "deliver", !.node = n]
  <2>1. t.kind = "deliver" /\ t.node = n
    BY DEF NoTask
  <2>2. NewTask(c, t) /\ EnqueueLen(c, i) /\ UNCHANGED tab
    BY <1>7 DEF Deliver, client
  <2> HIDE DEF t
  <2>3. task'[c] = t
    BY <2>2, TaskStep
  <2>4. call'[c].pc \in {"reject", "store"} /\ Others(c)
    BY <2>2, LenStep
  <2>5. Fits(c)'
    BY <2>1, <2>3, <2>4 DEF Fits, Delivering
  <2>6. QED
    BY <1>1, <1>3, <2>2, <2>4, <2>5
<1>8. ASSUME NEW c \in Callers, DeliverStore(c) PROVE Goal
  <2>1. /\ call[c].pc \in Delivering /\ call'[c].pc \in {"announce", "stored"} /\ Others(c)
        /\ call'[c].id \in Ids
    BY <1>8, StoreStep, AnnounceStep, AnnounceId DEF DeliverStore, Delivering
  <2>2. task[c].kind = "deliver" /\ task[c].node \in Nodes /\ UNCHANGED <<task, tab>>
    BY <1>8, <2>1, TaskOf DEF DeliverStore, client
  <2>3. Fits(c)'
    BY <2>1, <2>2 DEF Fits, Delivering
  <2>4. QED
    BY <1>1, <1>4, <2>1, <2>2, <2>3
<1>9. ASSUME NEW c \in Callers, DeliverRejected(c) \/ CountEnd(c) \/ FlushEnd(c) \/ SweepEnd(c)
                                \/ Broadcast(c)
      PROVE  Goal
  BY <1>1, <1>5, <1>6, <1>9 DEF DeliverRejected, CountEnd, FlushEnd, SweepEnd, Broadcast, client
<1>10. ASSUME NEW c \in Callers, UNCHANGED <<task, tab>>,
              \/ \E i \in Ids : FinalizeDel(c, i) \/ AttemptBegin(c, i)
              \/ FinalizeStatus(c) \/ AttemptSet(c)
       PROVE  Goal
  <2>1. /\ call'[c].all = call[c].all /\ call[c].pc \in Reading /\ call'[c].pc \in Reading
        /\ call'[c].pc \in {"collected", "attempt"} =>
             /\ call'[c].todo = call[c].todo
             /\ call[c].pc = "finalize" => call[c].todo = {}
        /\ Others(c)
    BY <1>10, CollectStays
  <2>2. call'[c].pc \in {"collected", "attempt"} => call[c].pc \in {"collected", "attempt"}
    <3>1. call'[c].pc \in {"finalize", "settle"} \/ call[c].pc \in {"collected", "attempt"}
      BY <1>10, DelStep, StatusStep, AttemptStep DEF AttemptBegin, At, FinalizeDel, FinalizeStatus
    <3>2. QED
      BY <3>1
  <2>3. Fits(c)'
    BY <1>1, <1>10, <2>1, <2>2, TaskOf DEF Fits, Reading, Delivering, Acking, Kinds, TaskType
  <2>4. QED
    BY <1>1, <1>4, <1>10, <2>1, <2>3
<1>11. ASSUME NEW c \in Callers, Finalize(c) \/ Record(c) \/ CountFound(c) PROVE Goal
  <2>1. CASE CountFound(c)
    <3>1. task[c].id \in Ids
      BY <2>1 DEF CountFound, AttemptBegin, Due
    <3>2. QED
      BY <1>10, <2>1, <3>1 DEF CountFound, client
  <2>2. QED
    BY <1>10, <1>11, <2>1 DEF Finalize, Record, client
<1>12. ASSUME NEW c \in Callers, NEW i \in Ids, FlushPush(c, i) \/ SweepPush(c, i) PROVE Goal
  <2>1. UNCHANGED <<task, tab>> /\ call[c].pc = "collected"
    BY <1>12 DEF FlushPush, SweepPush, Doing, At, client
  <2>2. CASE AttemptBegin(c, i)
    BY <1>10, <2>1, <2>2
  <2>3. CASE Skip(c, i)
    <3>1. /\ call'[c].pc = "collected" /\ call'[c].all = call[c].all
          /\ call'[c].todo = call[c].todo /\ Others(c)
      BY <2>1, <2>3, SkipForgets, SkipsRecord
    <3>2. Fits(c)'
      BY <1>1, <2>1, <3>1 DEF Fits
    <3>3. QED
      BY <1>1, <1>4, <2>1, <3>1, <3>2
  <2>4. QED
    BY <1>12, <2>2, <2>3 DEF FlushPush, SweepPush
<1>13. ASSUME NEW c \in Callers, Collected(c) PROVE Goal
  <2> DEFINE some == Due(c) # {}
             t == [task[c] EXCEPT !.some = some]
  <2>1. CollectReturn(c) /\ NewTask(c, t) /\ UNCHANGED tab
    BY <1>13 DEF Collected, client
  <2> HIDE DEF some
  <2>2. t.kind = task[c].kind /\ t.conn = task[c].conn /\ t.node = task[c].node
    BY <1>0 DEF TaskType
  <2> HIDE DEF t
  <2>3. task'[c] = t
    BY <2>1, TaskStep
  <2>4. /\ call'[c].all = call[c].all /\ call[c].pc \in Reading /\ call'[c].pc = "collected"
        /\ call'[c].todo = call[c].todo /\ call[c].todo = {} /\ Others(c)
    BY <2>1, CollectStays, ReturnStep
  <2>5. Fits(c)'
    BY <1>1, <2>1, <2>2, <2>3, <2>4, TaskOf DEF Fits, Reading
  <2>6. QED
    BY <1>1, <1>3, <2>1, <2>4, <2>5
<1>14. ASSUME NEW c \in Callers, NEW all \in BOOLEAN, CollectRead(c, all), UNCHANGED tab,
              NEW t, NewTask(c, t), t.kind \in {"count", "flush", "sweep"}, t.node \in Nodes,
              t.kind = "flush" => t.conn \in Used /\ all
       PROVE  Goal
  <2>1. task'[c] = t
    BY <1>14, TaskStep
  <2>2. call'[c].pc = "finalize" /\ call'[c].all = all /\ Others(c)
    BY <1>14, ReadStep, ReadAll
  <2>3. Fits(c)'
    BY <1>1, <1>14, <2>1, <2>2 DEF Fits, Reading
  <2>4. QED
    BY <1>1, <1>3, <1>14, <2>2, <2>3
<1>15. ASSUME NEW c \in Callers, NEW n \in Nodes, NEW i \in Ids, CountBegin(c, n, i) PROVE Goal
  <2> DEFINE t == [NoTask EXCEPT !.kind = "count", !.node = n, !.id = i]
  <2>1. t.kind = "count" /\ t.node = n
    BY DEF NoTask
  <2>2. NewTask(c, t) /\ CollectRead(c, TRUE) /\ UNCHANGED tab
    BY <1>15 DEF CountBegin, client
  <2> HIDE DEF t
  <2>3. QED
    BY <1>14, <2>1, <2>2
<1>16. ASSUME NEW c \in Callers, NEW r \in Conns, FlushBegin(c, r) PROVE Goal
  <2> DEFINE t == [NoTask EXCEPT !.kind = "flush", !.node = NodeOf(r), !.conn = r]
  <2>1. t.kind = "flush" /\ t.node = NodeOf(r) /\ t.conn = r
    BY DEF NoTask
  <2>2. NewTask(c, t) /\ CollectRead(c, TRUE) /\ UNCHANGED tab /\ r \in flushes
    BY <1>16 DEF FlushBegin, FlushAll, client
  <2>3. NodeOf(r) \in Nodes /\ r \in Used
    BY <1>16, <2>2 DEF FlushBegin, NodeOf, Registered, Registry
  <2> HIDE DEF t
  <2>4. QED
    BY <1>14, <2>1, <2>2, <2>3
<1>17. ASSUME NEW c \in Callers, NEW n \in Nodes, SweepBegin(c, n) PROVE Goal
  <2> DEFINE t == [NoTask EXCEPT !.kind = "sweep", !.node = n]
  <2>1. t.kind = "sweep" /\ t.node = n
    BY DEF NoTask
  <2>2. NewTask(c, t) /\ CollectRead(c, FALSE) /\ UNCHANGED tab
    BY <1>17 DEF SweepBegin, client
  <2> HIDE DEF t
  <2>3. QED
    BY <1>14, <2>1, <2>2
<1>18. ASSUME NEW c \in Callers, PostAcks(c) PROVE Goal
  <2> DEFINE t == [NoTask EXCEPT !.kind = "ack", !.ids = tab.acks]
  <2>1. t.kind = "ack"
    BY DEF NoTask
  <2>2. NewTask(c, t) /\ AckBegin(c, tab.acks) /\ tab' = [tab EXCEPT !.acks = {}]
    BY <1>18 DEF PostAcks
  <2>3. tab.acks \in SUBSET Ids /\ tab'.used = tab.used
    BY <2>2 DEF Kept, TabType
  <2> HIDE DEF t
  <2>4. task'[c] = t /\ call'[c].pc = "ack" /\ Others(c)
    BY <2>2, <2>3, TaskStep, AckBeginStep
  <2>5. Fits(c)'
    BY <2>1, <2>4 DEF Fits, Acking
  <2>6. QED
    BY <1>3, <2>2, <2>3, <2>4, <2>5, UsedConns
<1>19. ASSUME NEW c \in Callers, AckStep(c) PROVE Goal
  <2>1. call[c].pc \in Acking /\ call'[c].pc \in Acking /\ Others(c)
    <3>1. CASE AckStatus(c)
      BY <3>1, StatusStep DEF AckStatus, At, Acking
    <3>2. ASSUME NEW i \in Ids, AckDel(c, i)
          PROVE  call[c].pc \in Acking /\ call'[c].pc \in Acking /\ Others(c)
      <4>1. call[c].pc = "ack"
        BY <3>2 DEF AckDel, At
      <4>2. QED
        BY <3>2, <4>1, DelStep DEF Acking
    <3>3. QED
      BY <1>19, <3>1, <3>2 DEF AckStep, Ack
  <2>2. UNCHANGED <<task, tab>>
    BY <1>19 DEF AckStep, client
  <2>3. Fits(c)'
    BY <2>1, <2>2, TaskOf DEF Fits, Acking
  <2>4. QED
    BY <1>1, <1>4, <2>1, <2>2, <2>3
<1>20. ASSUME NEW c \in Callers, AckReply(c) PROVE Goal
  <2>1. tab'.used = tab.used
    BY <1>20 DEF AckReply, Kept, TabType
  <2>2. QED
    BY <1>5, <1>6, <1>20, <2>1, UsedConns DEF AckReply
<1>21. ASSUME NEW c \in Callers, NEW lost \in BOOLEAN, AckFails(c, lost) PROVE Goal
  <2>1. tab'.used = tab.used
    BY <1>21 DEF AckFails, Requeued, Kept, TabType
  <2>2. CASE lost
    <3>1. call'[c].pc = "idle" /\ Others(c) /\ EndTask(c)
      BY <1>0, <1>21, <2>2, BecomeAt DEF AckFails, Idle, Others
    <3>2. QED
      BY <1>5, <2>1, <3>1, UsedConns
  <2>3. CASE ~lost
    <3>1. call' = call /\ NewTask(c, Unheard) /\ task[c].kind = "ack"
      BY <1>21, <2>3 DEF AckFails, vars
    <3>2. task'[c] = Unheard
      BY <3>1, TaskStep
    <3>3. Fits(c)'
      BY <3>1, <3>2 DEF Fits, Unheard, NoTask
    <3>4. QED
      BY <1>3, <2>1, <3>1, <3>3, UsedConns DEF Others
  <2>4. QED
    BY <2>2, <2>3
<1>22. ASSUME NEW reload \in BOOLEAN, Leave(reload) PROVE Goal
  <2>1. tab'.used = tab.used
    <3>1. tab' \in {[conn |-> None, used |-> tab.used, acks |-> {}, failures |-> 0],
                    [tab EXCEPT !.conn = None]}
      BY <1>22 DEF Leave
    <3>2. QED
      BY <3>1 DEF Kept, TabType
  <2>2. Used' = Used /\ call' = call
    BY <1>22, <2>1, UsedConns DEF Leave, vars
  <2>3. \A k \in Callers : task'[k] = task[k] \/ (task[k].kind = "ack" /\ task'[k] = Unheard)
    BY <1>22 DEF Leave
  <2>4. ASSUME NEW k \in Callers PROVE Fits(k)'
    <3>1. CASE task'[k] = task[k]
      BY <2>2, <3>1 DEF Fits
    <3>2. CASE task[k].kind = "ack" /\ task'[k] = Unheard
      <4>1. call[k].pc \in Acking /\ Unheard.kind = "unheard"
        BY <3>2 DEF Fits, Unheard, NoTask
      <4>2. QED
        BY <2>2, <3>2, <4>1 DEF Fits, Acking
    <3>3. QED
      BY <2>3, <3>1, <3>2
  <2>5. QED
    BY <2>4
<1>23. ASSUME NEW n \in Nodes, Crash(n) PROVE Goal
  <2>1. \A k \in Callers : \/ call'[k] = Idle /\ task'[k] = NoTask
                           \/ call'[k] = call[k] /\ task'[k] = task[k]
    BY <1>23 DEF Crash
  <2>2. UNCHANGED tab
    BY <1>23 DEF Crash, client
  <2>3. ASSUME NEW k \in Callers PROVE Fits(k)'
    <3>1. CASE call'[k] = Idle /\ task'[k] = NoTask
      BY <3>1 DEF Fits, NoTask, Idle
    <3>2. CASE call'[k] = call[k] /\ task'[k] = task[k]
      BY <1>1, <2>2, <3>2 DEF Fits
    <3>3. QED
      BY <2>1, <3>1, <3>2
  <2>4. QED
    BY <2>3
<1>24. ASSUME UNCHANGED <<vars, task>>, tab'.used = tab.used PROVE Goal
  BY <1>2, <1>24, UsedConns DEF vars
<1>25. ASSUME NEW n \in Nodes,
              \/ \E i \in Ids : Receive(n, i) \/ Lose(n, i)
              \/ \E r \in Conns : Close(n, r)
              \/ SweepNobody(n)
       PROVE  Goal
  BY <1>24, <1>25 DEF Receive, Lose, Close, SweepNobody, client
<1>26. ASSUME NEW n \in Nodes, NEW r \in Conns, Connect(r, n) PROVE Goal
  <2>1. tab'.used = Append(tab.used, r)
    BY <1>26 DEF Connect, Kept, TabType
  <2>2. UNCHANGED <<call, task>>
    BY <1>26 DEF Connect, vars
  <2>3. QED
    BY <1>2, <2>1, <2>2, UsedConns
<1>27. CASE Disconnected \/ Handle
  <2>1. tab'.used = tab.used
    BY <1>27 DEF Disconnected, Handle, Kept, TabType
  <2>2. QED
    BY <1>24, <1>27, <2>1 DEF Disconnected, Handle
<1>28. CASE UNCHANGED allVars
  BY <1>24, <1>28 DEF allVars, client
<1>29. QED
  BY <1>7, <1>8, <1>9, <1>11, <1>12, <1>13, <1>15, <1>16, <1>17, <1>18, <1>19, <1>20, <1>21, <1>22,
     <1>23, <1>25, <1>26, <1>27, <1>28 DEF AllNext, Work, Timers

\* The inductive invariant of the gateway over the store.
Inv == StoreInv /\ Tidy

LEMMA InvKept == Inv /\ [AllNext]_allVars => Inv'
<1> SUFFICES ASSUME Inv, [AllNext]_allVars PROVE Inv'
  OBVIOUS
<1>1. StoreInv'
  <2>1. Next \/ UNCHANGED vars \/ Forgets
    BY StoreSteps DEF Inv, Tidy, allVars
  <2>2. QED
    BY <2>1, NextKeepsStore, ForgetsKeepsStore DEF Inv
<1>2. QED
  BY <1>1, KeptKept, RegistryKept, FitsKept DEF Inv, Tidy, StoreInv

LEMMA InvInit == AllInit => Inv
<1> SUFFICES ASSUME AllInit PROVE Inv
  OBVIOUS
<1>1. Init
  BY DEF AllInit
<1>2. StoreInv
  <2>1. TypeOK
    BY <1>1, IdleType DEF Init, TypeOK, Empty, Terminal
  <2>2. Token /\ Clock /\ Copies /\ Over
    BY <1>1, NoneAssumption, ConfigAssumption
       DEF Init, Token, TokenAt, Settling, Clock, Copies, CopiesAt, Over, Idle, Empty, Terminal
  <2>3. CapInv
    <3>1. Pending = {} /\ Storing = {}
      BY <1>1 DEF Init, Pending, Empty, Storing, Idle
    <3>2. Cardinality(Callers) # 0
      BY CallersAssumption, FS_EmptySet
    <3>3. QED
      BY <3>1, <3>2, CapSetsFinite, FS_EmptySet, ConfigAssumption DEF CapInv
  <2>4. QED
    BY <2>1, <2>2, <2>3 DEF StoreInv
<1>3. Kept
  <2>1. <<>> \in Seq(Conns) /\ <<>> \in Seq(Ids)
    OBVIOUS
  <2>2. tab \in TabType
    BY <2>1, LimitsAssumption DEF AllInit, TabType
  <2>3. QED
    BY <2>1, <2>2, NoTaskType, LimitsAssumption DEF AllInit, Kept
<1>4. Used = {}
  BY DEF AllInit, Used
<1>5. Registry
  BY <1>4, FS_EmptySet, LimitsAssumption DEF AllInit, Registry, NoTask
<1>6. \A c \in Callers : Fits(c)
  BY <1>1 DEF AllInit, Init, Fits, NoTask, Idle
<1>7. QED
  BY <1>2, <1>3, <1>5, <1>6 DEF Inv, Tidy, StoreInv

\* AllTypeOK: for any number of nodes, calls and faults the gateway, the tab
\* and the tasks are well typed, no node has more connections than the cap,
\* none is registered twice, and who has a task has a call in flight.
THEOREM AllTypeCorrect == AllSpec => []AllTypeOK
<1>1. Inv => AllTypeOK
  <2> SUFFICES ASSUME Inv PROVE AllTypeOK
    OBVIOUS
  <2>1. ASSUME NEW c \in Callers PROVE At(c, "idle") <=> task[c] = NoTask
    <3>1. /\ call[c].pc = "idle" <=> task[c].kind = "none"
          /\ call[c].pc = "idle" => task[c] = NoTask
      BY TaskOf DEF Inv
    <3>2. NoTask.kind = "none"
      BY DEF NoTask
    <3>3. QED
      BY <3>1, <3>2 DEF At
  <2>2. tab \in [conn: Used \cup {None}, used: Seq(Conns), acks: SUBSET Ids,
                failures: 0 .. (MaxAckFailures + 1)]
    BY DEF Inv, Tidy, Kept, Registry, TabType
  <2>3. QED
    BY <2>1, <2>2 DEF Inv, Tidy, Kept, Registry, AllTypeOK, TaskType
<1>2. QED
  BY <1>1, InvInit, InvKept, PTL DEF AllSpec

\* CapOvershootBounded, under the gateway: whatever nodes, tab and faults do
\* around the store, the queue grows past its cap by at most the calls that
\* were between the size check and the store.
THEOREM CapOvershootUnderGateway == AllSpec => []CapOvershootBounded
<1>1. Inv => CapOvershootBounded
  BY CapSetsFinite, ConfigAssumption DEF Inv, StoreInv, CapInv, CapOvershootBounded
<1>2. QED
  BY <1>1, InvInit, InvKept, PTL DEF AllSpec

\* What the store promises it keeps under the gateway, whatever nodes, tab
\* and faults do around it: a late attempt never brings an entry back
\* (NeverResurrected), an entry leaves only acked, over or out of attempts
\* (LeavesOnlyWhenDone), and an outcome once written stands (OutcomeFinal).
THEOREM StorePromisesUnderGateway ==
    AllSpec => NeverResurrected /\ LeavesOnlyWhenDone /\ OutcomeFinal
<1> DEFINE Resurrected == \A i \in Ids : hash[i] = None /\ hash'[i] # None =>
             \E c \in Callers : /\ call[c].pc = "store" /\ call[c].id = i
                                /\ call'[c].pc = "announce"
           Left == \A i \in Ids : hash[i] # None /\ hash'[i] = None /\ emits[i] = 1 =>
             \/ \E c \in Callers : call[c].pc = "ack" /\ i \in call[c].todo
                                    /\ call'[c].pc = "delivered"
             \/ now >= hash[i].createdAt + Ttl
             \/ recorded[i] >= MaxAttempts
           Final == \A i \in Ids : status[i] \in Terminal /\ status'[i] # status[i]
                                     /\ emits[i] = 1 =>
             \E c \in Callers : call[c].pc = "announce" /\ call[c].id = i
<1>1. ASSUME Inv, [AllNext]_allVars PROVE [Resurrected /\ Left /\ Final]_vars
  <2>1. CASE Next
    <3>1. Resurrected
      BY <1>1, <2>1, OnlyStoreFills DEF Inv, StoreInv
    <3>2. Left
      BY <1>1, <2>1, RemovalJustified DEF Inv, StoreInv
    <3>3. Final
      BY <1>1, <2>1, OutcomeStands DEF Inv, StoreInv
    <3>4. QED
      BY <3>1, <3>2, <3>3
  <2>2. CASE UNCHANGED vars
    BY <2>2
  <2>3. CASE Forgets
    BY <2>3 DEF Forgets
  <2>4. QED
    BY <1>1, <2>1, <2>2, <2>3, StoreSteps DEF Inv, Tidy, allVars
<1>2. [Resurrected /\ Left /\ Final]_vars => [Resurrected]_vars /\ [Left]_vars /\ [Final]_vars
  OBVIOUS
<1> HIDE DEF Resurrected, Left, Final
<1>3. AllSpec => [][Resurrected]_vars /\ [][Left]_vars /\ [][Final]_vars
  BY <1>1, <1>2, InvInit, InvKept, PTL DEF AllSpec
<1>4. QED
  BY <1>3 DEF NeverResurrected, LeavesOnlyWhenDone, OutcomeFinal, Resurrected, Left, Final

----------------------------------------------------------------------------
(* No gap, and nobody stranded                                             *)

\* The entry was written to the connection by a node that tracks the user.
Served(n, i, r) == <<r, i>> \in pushed /\ n \in tracked

\* What a call does for connection r of node n and entry i it goes on doing,
\* or it hands it on.
CallStays(c, n, i, r) ==
    /\ Handing(c, i) => Announced(n, i)' \/ Served(n, i, r)' \/ <<n, i>> \in missed'
    /\ Flushing(c, r, i) => Flushing(c, r, i)' \/ (<<r, i>> \in pushed' /\ Flushed(c, r)')
    /\ Flushed(c, r) => Flushed(c, r)' \/ n \in tracked'

\* Likewise the messages, the scheduled flushes and the tracking.
NetStays(n, i, r) ==
    /\ <<r, i>> \in pushed => <<r, i>> \in pushed'
    /\ <<n, i>> \in missed => <<n, i>> \in missed'
    /\ <<n, i>> \in overtaken => <<n, i>> \in overtaken'
    /\ <<n, i>> \in bus => <<n, i>> \in bus' \/ Served(n, i, r)' \/ <<n, i>> \in missed'
    /\ r \in flushes => r \in flushes' \/ \E c \in Callers : Flushing(c, r, i)'
    /\ n \in tracked => \/ n \in tracked'
                        \/ <<r, i>> \in pushed => <<n, i>> \in overtaken'

LEMMA AttendedStays ==
    ASSUME NEW n \in Nodes, NEW i \in Ids, NEW r \in Conns, Attended(n, i, r), NetStays(n, i, r),
           \A c \in Callers : CallStays(c, n, i, r)
    PROVE  Attended(n, i, r)'
<1>1. Announced(n, i) => Announced(n, i)' \/ Served(n, i, r)' \/ <<n, i>> \in missed'
  BY DEF Announced, NetStays, CallStays
<1>2. ASSUME NEW c \in Callers, Flushing(c, r, i) PROVE Attended(n, i, r)'
  BY <1>2 DEF CallStays, Attended, Covered, Watched
<1>3. Covered(n, i, r)'
  BY <1>1, <1>2 DEF Attended, Covered, NetStays, Served
<1>4. Watched(n, i, r)'
  <2>1. CASE n \in tracked
    <3>1. CASE n \in tracked'
      BY <3>1 DEF Watched
    <3>2. CASE n \notin tracked'
      BY <1>1, <1>2, <2>1, <3>2 DEF Attended, Covered, Watched, NetStays, Served
    <3>3. QED
      BY <3>1, <3>2
  <2>2. CASE r \in flushes
    BY <2>2 DEF NetStays, Watched
  <2>3. CASE Announced(n, i) \/ <<n, i>> \in missed \cup overtaken
    BY <1>1, <2>3 DEF NetStays, Watched, Served
  <2>4. ASSUME NEW c \in Callers, Flushing(c, r, i) \/ Flushed(c, r)
        PROVE  Watched(n, i, r)'
    BY <1>2, <2>4 DEF CallStays, Watched, Attended
  <2>5. QED
    BY <2>1, <2>2, <2>3, <2>4 DEF Attended, Watched
<1>5. QED
  BY <1>3, <1>4 DEF Attended

\* A call that is left alone goes on; so does one that neither delivers nor
\* flushes, whatever it does.
LEMMA LeftAlone ==
    ASSUME NEW c \in Callers, call'[c] = call[c], task'[c] = task[c]
    PROVE  /\ \A n, i, r : CallStays(c, n, i, r)
           /\ FlushFits(c) /\ pushed \subseteq pushed' => FlushFits(c)'
<1>1. ASSUME NEW n, NEW i, NEW r PROVE CallStays(c, n, i, r)
  <2>1. Handing(c, i) => Announced(n, i)'
    BY DEF Announced, Handing
  <2>2. Flushing(c, r, i) => Flushing(c, r, i)'
    BY DEF Flushing, FlushOf, Carries
  <2>3. Flushed(c, r) => Flushed(c, r)'
    BY DEF Flushed, FlushOf
  <2>4. QED
    BY <2>1, <2>2, <2>3 DEF CallStays
<1>2. \A n, i, r : CallStays(c, n, i, r)
  BY <1>1
<1>3. FlushFits(c) /\ pushed \subseteq pushed' => FlushFits(c)'
  BY DEF FlushFits
<1>4. QED
  BY <1>2, <1>3

LEMMA Bystander ==
    ASSUME Inv, NEW c \in Callers, task[c].kind \notin {"deliver", "flush"}
    PROVE  \A n, i, r : CallStays(c, n, i, r)
<1>1. call[c].pc \notin Delivering
  BY TaskOf DEF Inv
<1>2. QED
  BY <1>1 DEF CallStays, Handing, Flushing, Flushed, FlushOf, Delivering

\* Of a step that is one call's: what has to be shown of that call.
LEMMA MindedByCall ==
    ASSUME Inv, Minded, NEW c \in Callers, Others(c),
           \A k \in Callers : k # c => task'[k] = task[k],
           FewerConns, Pending' \subseteq Pending, pushed \subseteq pushed', FlushFits(c)',
           \A n \in Nodes, i \in Pending' : \A r \in reg'[n] :
               NetStays(n, i, r) /\ CallStays(c, n, i, r)
    PROVE  Minded'
<1>1. Used \subseteq Conns
  BY UsedConns DEF Inv, Tidy
<1>2. ASSUME NEW k \in Callers PROVE FlushFits(k)'
  BY LeftAlone DEF Others, Minded
<1>3. ASSUME NEW n \in Nodes, NEW i \in Pending', NEW r \in reg'[n]
      PROVE  Attended(n, i, r)'
  <2>1. i \in Ids /\ i \in Pending /\ r \in reg[n] /\ r \in Conns
    BY <1>1 DEF FewerConns, Pending
  <2>2. Attended(n, i, r)
    BY <2>1 DEF Minded
  <2>3. \A k \in Callers : CallStays(k, n, i, r)
    BY LeftAlone DEF Others
  <2>4. QED
    BY <2>1, <2>2, <2>3, AttendedStays
<1>4. QED
  BY <1>2, <1>3 DEF Minded

\* What a flush that reads, finalizes, returns and records keeps of its copies.
LEMMA ReturnSnap ==
    ASSUME TypeOK, NEW c \in Callers, CollectReturn(c)
    PROVE  /\ \A i \in Ids : call'[c].snap[i] = IF i \in Due(c) THEN call[c].snap[i] ELSE None
           /\ call[c].todo = {}
<1> DEFINE s == [i \in Ids |-> IF i \in Due(c) THEN call[c].snap[i] ELSE None]
           r == [call[c] EXCEPT !.pc = "collected", !.snap = s]
<1>1. Become(c, r) /\ call[c] \in CallType /\ call[c].todo = {}
  BY DEF CollectReturn, TypeOK
<1>2. \A i \in Ids : s[i] = IF i \in Due(c) THEN call[c].snap[i] ELSE None
  OBVIOUS
<1> HIDE DEF s
<1>3. r.snap = s
  BY <1>1 DEF CallType
<1> HIDE DEF r
<1>4. QED
  BY <1>1, <1>2, <1>3, BecomeAt DEF TypeOK

\* In a step that is one call's, of a call that is no flush and announces
\* nothing, only what the gateway keeps can matter.
LEMMA MindedByOther ==
    ASSUME Inv, Minded, NEW c \in Callers, Others(c), NEW t, NewTask(c, t),
           task[c].kind \notin {"deliver", "flush"}, t.kind # "flush", FewerConns,
           Pending' \subseteq Pending, pushed \subseteq pushed',
           \A n \in Nodes, i \in Pending' : \A r \in reg'[n] : NetStays(n, i, r)
    PROVE  Minded'
<1>1. \A k \in Callers : task'[k] = IF k = c THEN t ELSE task[k]
  BY TaskStep DEF Inv, Tidy
<1>2. FlushFits(c)'
  BY <1>1 DEF FlushFits
<1>3. QED
  BY <1>1, <1>2, Bystander, MindedByCall

\* Nothing the properties look at changes in the gateway.
LEMMA NetUnchanged ==
    ASSUME UNCHANGED <<bus, flushes, pushed, missed, overtaken, tracked>>
    PROVE  \A n, i, r : NetStays(n, i, r)
BY DEF NetStays

LEMMA SameReg ==
    ASSUME Inv, UNCHANGED reg PROVE FewerConns
BY DEF Inv, Tidy, Registry, FewerConns

\* What a delivery does.
LEMMA MindedDeliver ==
    ASSUME Inv, Minded, NEW c \in Callers,
           \/ \E n \in Nodes, i \in Ids : Deliver(c, n, i)
           \/ DeliverStore(c) \/ DeliverRejected(c) \/ Broadcast(c)
    PROVE  Minded'
<1> USE DEF Inv, Tidy
<1>1. ASSUME NEW n \in Nodes, NEW i \in Ids, Deliver(c, n, i) PROVE Minded'
  <2> DEFINE t == [NoTask EXCEPT !.kind = "deliver", !.node = n]
  <2>1. NewTask(c, t) /\ t.kind # "flush" /\ EnqueueLen(c, i)
    BY <1>1 DEF Deliver, NoTask
  <2> HIDE DEF t
  <2>2. task[c].kind = "none" /\ Others(c) /\ UNCHANGED hash
    BY <2>1, TaskOf, LenStep DEF EnqueueLen, At
  <2>3. UNCHANGED <<reg, bus, flushes, pushed, missed, overtaken, tracked>>
    BY <1>1 DEF Deliver, gateway, network, exceptions
  <2>4. QED
    BY <2>1, <2>2, <2>3, MindedByOther, NetUnchanged, SameReg DEF Pending
<1>2. CASE DeliverStore(c)
  <2> DEFINE j == call[c].id
  <2>1. /\ call[c].pc \in Delivering /\ call'[c].pc \in {"announce", "stored"} /\ Others(c)
        /\ call'[c].id = j /\ j \in Ids
    BY <1>2, StoreStep, AnnounceStep, AnnounceId DEF DeliverStore, Delivering
  <2>2. UNCHANGED <<reg, bus, flushes, pushed, missed, overtaken, tracked, task>>
    BY <1>2 DEF DeliverStore, gateway, network, exceptions
  <2>3. task[c].kind = "deliver"
    BY <2>1, TaskOf
  <2>5. \A k \in Callers : FlushFits(k)'
    <3>1. FlushFits(c)'
      BY <2>2, <2>3 DEF FlushFits
    <3>2. QED
      BY <2>1, <2>2, <3>1, LeftAlone DEF Others, Minded
  <2>6. ASSUME NEW n \in Nodes, NEW i \in Pending', NEW r \in reg'[n]
        PROVE  Attended(n, i, r)'
    <3>1. CASE i = j
      <4>1. Announced(n, i)'
        BY <2>1, <3>1 DEF Announced, Handing
      <4>2. QED
        BY <4>1 DEF Attended, Covered, Watched
    <3>2. CASE i # j
      <4>1. i \in Pending
        <5>1. hash' = hash \/ \E e : hash' = [hash EXCEPT ![j] = e]
          BY <1>2 DEF DeliverStore, EnqueueStore, EnqueueStatus
        <5>2. QED
          BY <3>2, <5>1 DEF Pending, StoreInv, TypeOK
      <4>2. r \in reg[n] /\ r \in Conns
        BY <2>2, UsedConns DEF Registry
      <4>3. CallStays(c, n, i, r)
        BY <2>3, <3>2 DEF CallStays, Handing, Flushing, Flushed, FlushOf
      <4>4. \A k \in Callers : CallStays(k, n, i, r)
        BY <2>1, <2>2, <4>3, LeftAlone DEF Others
      <4>5. Attended(n, i, r) /\ i \in Ids
        BY <4>1, <4>2 DEF Minded, Pending
      <4>6. QED
        BY <2>2, <4>2, <4>4, <4>5, NetUnchanged, AttendedStays
    <3>3. QED
      BY <3>1, <3>2
  <2>7. QED
    BY <2>5, <2>6 DEF Minded
<1>3. CASE DeliverRejected(c)
  <2>1. EnqueueReject(c) /\ NewTask(c, NoTask)
    BY <1>3 DEF DeliverRejected, EndTask
  <2>2. Others(c) /\ UNCHANGED hash /\ call[c].pc = "reject"
    BY <2>1, IdleStep DEF EnqueueReject, At
  <2>3. UNCHANGED <<reg, bus, flushes, pushed, missed, overtaken, tracked>>
    BY <1>3 DEF DeliverRejected, gateway, network, exceptions
  <2>4. task'[c] = NoTask /\ \A k \in Callers : k # c => task'[k] = task[k]
    BY <2>1, TaskStep
  <2>5. FlushFits(c)'
    BY <2>4 DEF FlushFits, NoTask
  <2>6. \A n, i, r : CallStays(c, n, i, r)
    BY <2>2, TaskOf DEF CallStays, Handing, Flushing, Flushed, FlushOf, Delivering
  <2>7. QED
    BY <2>2, <2>3, <2>4, <2>5, <2>6, MindedByCall, NetUnchanged, SameReg DEF Pending
<1>4. CASE Broadcast(c)
  <2> DEFINE j == call[c].id
             m == task[c].node
  <2>1. j \in Ids /\ m \in Nodes /\ task[c].kind = "deliver" /\ call[c].pc = "stored"
    BY <1>4, TaskOf DEF Broadcast, At, Delivering
  <2>2. Dispatch(m, j) /\ Done(c) /\ NewTask(c, NoTask)
    BY <1>4 DEF Broadcast, EndTask
  <2>3. Others(c) /\ UNCHANGED hash
    BY <2>2, IdleStep DEF Done
  <2>4. task'[c] = NoTask /\ \A k \in Callers : k # c => task'[k] = task[k]
    BY <2>2, TaskStep
  <2>5. FlushFits(c)'
    BY <2>4 DEF FlushFits, NoTask
  <2>6. /\ reg' \in [Nodes -> SUBSET Used] /\ \A n \in Nodes : reg'[n] \subseteq reg[n]
        /\ pushed \subseteq pushed' /\ tracked \subseteq tracked'
        /\ \A r \in reg'[m] : <<r, j>> \in pushed' /\ m \in tracked'
    BY <2>1, <2>2, DispatchStep DEF Registry
  <2>7. bus' = bus \cup ((Nodes \ {m}) \X {j}) /\ UNCHANGED <<flushes, missed, overtaken>>
    BY <1>4 DEF Broadcast, exceptions
  <2>8. ASSUME NEW n \in Nodes, NEW i \in Pending', NEW r \in reg'[n]
        PROVE  NetStays(n, i, r) /\ CallStays(c, n, i, r)
    <3>1. NetStays(n, i, r)
      BY <2>6, <2>7 DEF NetStays
    <3>2. Handing(c, i) => Announced(n, i)' \/ Served(n, i, r)'
      BY <2>6, <2>7 DEF Handing, Announced, Served
    <3>3. CallStays(c, n, i, r)
      BY <2>1, <3>2 DEF CallStays, Flushing, Flushed, FlushOf
    <3>4. QED
      BY <3>1, <3>3
  <2>9. QED
    BY <2>3, <2>4, <2>5, <2>6, <2>8, MindedByCall DEF FewerConns, Pending
<1>5. QED
  BY <1>1, <1>2, <1>3, <1>4

\* What a call that collects does of its own, as the task it is for.
LEMMA MindedCollect ==
    ASSUME Inv, Minded, NEW c \in Callers,
           Finalize(c) \/ Record(c) \/ CountFound(c) \/ Collected(c)
    PROVE  Minded'
<1> USE DEF Inv, Tidy
<1>0. call[c] \in CallType /\ task[c] \in TaskType /\ FlushFits(c) /\ Fits(c)
  BY DEF StoreInv, TypeOK, Kept, Minded
<1>1. CASE Finalize(c)
  <2>1. PICK i0 \in Ids \cup {None} :
          \/ FinalizeDel(c, i0) /\ i0 \in Ids
          \/ FinalizeStatus(c)
    BY <1>1 DEF Finalize
  <2>2. UNCHANGED <<reg, bus, flushes, pushed, missed, overtaken, tracked, task>>
    BY <1>1 DEF Finalize, gateway, network, exceptions
  <2>3. /\ call'[c].pc \in {"finalize", "settle"} /\ call[c].pc \in {"finalize", "settle"}
        /\ call'[c].snap = call[c].snap /\ call'[c].at = call[c].at /\ Others(c)
        /\ call[c].todo \subseteq call'[c].todo \cup {i0}
        /\ Pending' \subseteq Pending /\ (i0 \notin Pending' \/ call[c].todo = call'[c].todo)
    <3>1. CASE FinalizeDel(c, i0) /\ i0 \in Ids
      <4>1. call[c].pc = "finalize"
        BY <3>1 DEF FinalizeDel, At
      <4>2. /\ call'[c].pc \in {"finalize", "settle"} /\ call'[c].snap = call[c].snap
            /\ call'[c].at = call[c].at /\ Others(c) /\ call'[c].todo = call[c].todo \ {i0}
            /\ hash' = [hash EXCEPT ![i0] = None]
        BY <3>1, <4>1, DelStep
      <4>3. Pending' \subseteq Pending /\ i0 \notin Pending'
        BY <4>2 DEF Pending, StoreInv, TypeOK
      <4>4. QED
        BY <4>1, <4>2, <4>3
    <3>2. CASE FinalizeStatus(c)
      <4>1. call[c].pc = "settle" /\ UNCHANGED hash
        BY <3>2 DEF FinalizeStatus, At
      <4>2. QED
        BY <3>2, <4>1, StatusStep DEF Pending
    <3>3. QED
      BY <2>1, <3>1, <3>2
  <2>4. FlushFits(c)'
    BY <2>2, <2>3, <1>0 DEF FlushFits
  <2>5. ASSUME NEW n \in Nodes, NEW i \in Pending', NEW r \in reg'[n] PROVE CallStays(c, n, i, r)
    <3>1. Flushing(c, r, i) => Flushing(c, r, i)'
      BY <2>2, <2>3, <2>5 DEF Flushing, FlushOf, Carries
    <3>2. Flushed(c, r) => Flushed(c, r)'
      BY <2>2 DEF Flushed, FlushOf
    <3>3. ~Handing(c, i)
      BY <2>3 DEF Handing
    <3>4. QED
      BY <3>1, <3>2, <3>3 DEF CallStays
  <2>6. QED
    BY <2>2, <2>3, <2>4, <2>5, MindedByCall, NetUnchanged, SameReg
<1>2. CASE Record(c)
  <2> DEFINE j == call[c].id
  <2>1. UNCHANGED <<reg, bus, flushes, pushed, missed, overtaken, tracked, task>>
    BY <1>2 DEF Record, gateway, network, exceptions
  <2>2. AttemptSet(c)
    BY <1>2 DEF Record
  <2>3. /\ j \in Ids /\ call[c].pc = "attempt" /\ call[c].snap[j] \in Entry
        /\ call'[c].pc = "collected" /\ call'[c].at = call[c].at
        /\ \A k \in Ids : call'[c].snap[k] = IF k = j THEN None ELSE call[c].snap[k]
        /\ Others(c)
        /\ IF hash[j] = None THEN hash' = hash ELSE \E e : hash' = [hash EXCEPT ![j] = e]
    BY <2>2, AttemptStep DEF StoreInv
  <2>4. call'[c].todo = call[c].todo
    BY <2>2, <2>3, CollectStays DEF StoreInv
  <2>5. Pending' \subseteq Pending
    BY <2>3 DEF Pending, StoreInv, TypeOK
  <2>6. FlushFits(c)'
    BY <1>0, <2>1, <2>3 DEF FlushFits
  <2>7. ASSUME NEW n \in Nodes, NEW i \in Pending', NEW r \in reg'[n] PROVE CallStays(c, n, i, r)
    <3>1. Flushing(c, r, i) => Flushing(c, r, i)' \/ (<<r, i>> \in pushed' /\ Flushed(c, r)')
      <4>1. i \in Ids
        BY DEF Pending
      <4>2. CASE i = j
        <5>1. FlushOf(c, r) => <<r, i>> \in pushed /\ task[c].some
          BY <1>0, <2>3, <4>2, NoneAssumption DEF FlushOf, FlushFits
        <5>2. QED
          BY <2>1, <5>1 DEF Flushing, Flushed, FlushOf
      <4>3. CASE i # j
        BY <2>1, <2>3, <2>4, <4>1, <4>3 DEF Flushing, FlushOf, Carries
      <4>4. QED
        BY <4>2, <4>3
    <3>2. Flushed(c, r) => Flushed(c, r)'
      BY <2>1 DEF Flushed, FlushOf
    <3>3. ~Handing(c, i)
      BY <2>3 DEF Handing
    <3>4. QED
      BY <3>1, <3>2, <3>3 DEF CallStays
  <2>8. QED
    BY <2>1, <2>3, <2>5, <2>6, <2>7, MindedByCall, NetUnchanged, SameReg
<1>3. CASE CountFound(c)
  <2>1. /\ UNCHANGED <<reg, bus, flushes, pushed, missed, overtaken, tracked, task, hash>>
        /\ task[c].kind = "count" /\ AttemptBegin(c, task[c].id) /\ task[c].id \in Ids
    BY <1>3 DEF CountFound, Doing, AttemptBegin, Due, gateway, network, exceptions
  <2>2. Others(c)
    BY <2>1, BeginAttemptStep DEF StoreInv
  <2>3. FlushFits(c)'
    BY <2>1 DEF FlushFits
  <2>4. QED
    BY <2>1, <2>2, <2>3, Bystander, MindedByCall, NetUnchanged, SameReg DEF Pending
<1>4. CASE Collected(c)
  <2> DEFINE some == Due(c) # {}
             t == [task[c] EXCEPT !.some = some]
  <2>1. CollectReturn(c) /\ NewTask(c, t)
    BY <1>4 DEF Collected
  <2> HIDE DEF some
  <2>2. /\ t.kind = task[c].kind /\ t.conn = task[c].conn /\ t.node = task[c].node
        /\ t.some = some
    BY <1>0 DEF TaskType
  <2> HIDE DEF t
  <2>3. task'[c] = t /\ \A k \in Callers : k # c => task'[k] = task[k]
    BY <2>1, TaskStep
  <2>4. /\ call'[c].pc = "collected" /\ call[c].pc = "finalize" /\ call'[c].at = call[c].at
        /\ \A i \in Ids : call'[c].snap[i] = IF i \in Due(c) THEN call[c].snap[i] ELSE None
        /\ call[c].todo = {} /\ Others(c) /\ UNCHANGED hash
    BY <2>1, ReturnStep, ReturnSnap DEF CollectReturn, StoreInv
  <2>5. UNCHANGED <<reg, bus, flushes, pushed, missed>>
    BY <1>4 DEF Collected
  <2>6. FlushFits(c)'
    BY <2>2, <2>3, <2>4 DEF FlushFits, some
  <2>7. ASSUME NEW n \in Nodes, NEW i \in Pending', NEW r \in reg'[n]
        PROVE  NetStays(n, i, r) /\ CallStays(c, n, i, r)
    <3>1. Flushing(c, r, i) => Flushing(c, r, i)'
      <4>1. SUFFICES ASSUME Flushing(c, r, i) PROVE Flushing(c, r, i)'
        OBVIOUS
      <4>2. /\ task[c].kind = "flush" /\ task[c].conn = r /\ call[c].snap[i] # None
            /\ Live(call[c].snap[i], call[c].at) /\ call[c].all /\ i \in Ids
        BY <1>0, <2>4, <4>1 DEF Flushing, FlushOf, Carries, Fits, Pending
      <4>3. i \in Due(c)
        BY <4>2 DEF Due
      <4>4. QED
        BY <2>2, <2>3, <2>4, <4>2, <4>3 DEF Flushing, FlushOf, Carries
    <3>2. ~Flushed(c, r) /\ ~Handing(c, i)
      BY <1>0, <2>4 DEF Flushed, FlushOf, FlushFits, Handing
    <3>3. CallStays(c, n, i, r)
      BY <3>1, <3>2 DEF CallStays
    <3>4. n \in tracked /\ n \notin tracked' /\ <<r, i>> \in pushed => <<n, i>> \in overtaken'
      <4>1. i \in Pending /\ r \in reg[n]
        BY <2>4, <2>5 DEF Pending
      <4>2. QED
        BY <1>4, <4>1 DEF Collected
    <3>5. <<n, i>> \in overtaken => <<n, i>> \in overtaken'
      BY <1>4 DEF Collected
    <3>6. QED
      BY <2>5, <3>3, <3>4, <3>5 DEF NetStays
  <2>8. QED
    BY <2>3, <2>4, <2>5, <2>6, <2>7, MindedByCall, SameReg DEF Pending
<1>5. QED
  BY <1>1, <1>2, <1>3, <1>4

LEMMA MindedBegin ==
    ASSUME Inv, Minded, NEW c \in Callers, Timers(c)
    PROVE  Minded'
<1> USE DEF Inv, Tidy
<1>1. ASSUME NEW all \in BOOLEAN, CollectRead(c, all)
      PROVE  task[c].kind = "none" /\ Others(c) /\ UNCHANGED hash
  BY <1>1, TaskOf, ReadStep, ReadAll DEF CollectRead, StoreInv
<1>2. ASSUME NEW n \in Nodes, NEW i \in Ids, CountBegin(c, n, i) PROVE Minded'
  <2> DEFINE t == [NoTask EXCEPT !.kind = "count", !.node = n, !.id = i]
  <2>1. NewTask(c, t) /\ t.kind # "flush" /\ CollectRead(c, TRUE)
    BY <1>2 DEF CountBegin, NoTask
  <2> HIDE DEF t
  <2>2. UNCHANGED <<reg, bus, flushes, pushed, missed, overtaken, tracked>>
    BY <1>2 DEF CountBegin, exceptions
  <2>3. QED
    BY <1>1, <2>1, <2>2, MindedByOther, NetUnchanged, SameReg DEF Pending
<1>3. ASSUME NEW n \in Nodes, SweepBegin(c, n) PROVE Minded'
  <2> DEFINE t == [NoTask EXCEPT !.kind = "sweep", !.node = n]
  <2>1. NewTask(c, t) /\ t.kind # "flush" /\ CollectRead(c, FALSE)
    BY <1>3 DEF SweepBegin, NoTask
  <2> HIDE DEF t
  <2>2. UNCHANGED <<reg, bus, flushes, pushed, missed, overtaken, tracked>>
    BY <1>3 DEF SweepBegin, gateway, network, exceptions
  <2>3. QED
    BY <1>1, <2>1, <2>2, MindedByOther, NetUnchanged, SameReg DEF Pending
<1>4. ASSUME NEW f \in Conns, FlushBegin(c, f) PROVE Minded'
  <2> DEFINE t == [NoTask EXCEPT !.kind = "flush", !.node = NodeOf(f), !.conn = f]
  <2>1. t.kind = "flush" /\ t.conn = f /\ t.some = FALSE
    BY DEF NoTask
  <2>2. NewTask(c, t) /\ CollectRead(c, TRUE) /\ flushes' = flushes \ {f}
    BY <1>4 DEF FlushBegin, FlushAll
  <2> HIDE DEF t
  <2>3. UNCHANGED <<reg, bus, pushed, missed, overtaken, tracked>>
    BY <1>4 DEF FlushBegin, exceptions
  <2>4. task'[c] = t /\ \A k \in Callers : k # c => task'[k] = task[k]
    BY <2>2, TaskStep
  <2>5. task[c].kind = "none" /\ Others(c) /\ UNCHANGED hash
    BY <1>1, <2>2
  <2>6. /\ call'[c].pc = "finalize" /\ call'[c].at = now /\ call'[c].snap = hash
        /\ call'[c].todo = {i \in Pending : ~Live(hash[i], now)}
    BY <2>2, ReadStep DEF StoreInv
  <2>7. FlushFits(c)'
    BY <2>1, <2>4, <2>6 DEF FlushFits
  <2>8. ASSUME NEW n \in Nodes, NEW i \in Pending', NEW r \in reg'[n] PROVE NetStays(n, i, r)
    <3>1. r = f => Flushing(c, r, i)'
      <4>1. i \in Pending
        BY <2>5 DEF Pending
      <4>2. Carries(c, i)'
        BY <2>6, <4>1 DEF Carries, Pending
      <4>3. QED
        BY <2>1, <2>4, <4>2 DEF Flushing, FlushOf
    <3>2. r \in flushes => r \in flushes' \/ \E k \in Callers : Flushing(k, r, i)'
      BY <2>2, <3>1
    <3>3. QED
      BY <2>3, <3>2 DEF NetStays
  <2>9. \A n, i, r : CallStays(c, n, i, r)
    BY <2>5, Bystander
  <2>10. QED
    BY <2>3, <2>4, <2>5, <2>7, <2>8, <2>9, MindedByCall, SameReg DEF Pending
<1>5. QED
  BY <1>2, <1>3, <1>4 DEF Timers

LEMMA MindedPush ==
    ASSUME Inv, Minded, NEW c \in Callers, NEW i0 \in Ids, FlushPush(c, i0) \/ SweepPush(c, i0)
    PROVE  Minded'
<1> USE DEF Inv, Tidy
<1> DEFINE m == task[c].node
           f == task[c].conn
<1>0. /\ call[c] \in CallType /\ FlushFits(c) /\ call[c].pc = "collected" /\ m \in Nodes
      /\ task[c].kind \in {"flush", "sweep"}
  BY TaskOf DEF StoreInv, TypeOK, Minded, FlushPush, SweepPush, Doing, At, Fits, Reading
<1>1. UNCHANGED <<bus, flushes, missed, overtaken, task>>
  BY DEF FlushPush, SweepPush, exceptions
<1>2. PICK rs, stalled :
        /\ rs \in SUBSET Conns
        /\ Push(m, rs, i0, stalled) /\ stalled \subseteq rs
        /\ tracked' = tracked \/ tracked' = StillTracked(m, stalled)
        /\ task[c].kind = "flush" => rs = {f}
        /\ IF rs = stalled THEN Skip(c, i0) ELSE AttemptBegin(c, i0)
  <2>1. CASE FlushPush(c, i0)
    <3>1. /\ f \in reg[m]
          /\ \E stalled \in SUBSET Backlogged({f}) :
               /\ Push(m, {f}, i0, stalled)
               /\ tracked' = StillTracked(m, stalled)
               /\ IF stalled = {} THEN AttemptBegin(c, i0) ELSE Skip(c, i0)
      BY <2>1 DEF FlushPush
    <3>2. {f} \in SUBSET Conns
      BY <1>0, <3>1, UsedConns DEF Registry
    <3>3. PICK stalled \in SUBSET Backlogged({f}) :
            /\ Push(m, {f}, i0, stalled)
            /\ tracked' = StillTracked(m, stalled)
            /\ IF stalled = {} THEN AttemptBegin(c, i0) ELSE Skip(c, i0)
      BY <3>1
    <3>4. stalled = {} \/ stalled = {f}
      BY DEF Backlogged
    <3>5. QED
      BY <3>2, <3>3, <3>4
  <2>2. CASE SweepPush(c, i0)
    <3> DEFINE rs == IF c \in orphan THEN {} ELSE reg[m]
    <3>1. rs \in SUBSET Conns
      BY <1>0, UsedConns DEF Registry
    <3>2. PICK stalled \in SUBSET Backlogged(rs) :
            /\ Push(m, rs, i0, stalled)
            /\ tracked' = IF stalled = {} THEN tracked ELSE StillTracked(m, stalled)
            /\ IF rs = stalled THEN Skip(c, i0) ELSE AttemptBegin(c, i0)
      BY <2>2 DEF SweepPush
    <3>3. task[c].kind = "sweep"
      BY <2>2 DEF SweepPush, Doing
    <3> HIDE DEF rs
    <3>4. stalled \subseteq rs /\ (tracked' = tracked \/ tracked' = StillTracked(m, stalled))
      BY <3>2 DEF Backlogged
    <3>5. QED
      BY <3>1, <3>2, <3>3, <3>4
  <2>3. QED
    BY <2>1, <2>2
<1>3. /\ reg' \in [Nodes -> SUBSET Used]
      /\ \A n \in Nodes : reg'[n] = IF n = m THEN reg[m] \ stalled ELSE reg[n]
      /\ pushed \subseteq pushed' /\ \A r \in rs \ stalled : <<r, i0>> \in pushed'
  <2>1. /\ Kept /\ reg \in [Nodes -> SUBSET Used] /\ m \in Nodes
        /\ rs \in SUBSET Conns /\ (rs = {} \/ i0 \in Ids) /\ Push(m, rs, i0, stalled)
    BY <1>0, <1>2 DEF Registry
  <2> HIDE DEF m
  <2>2. /\ reg' \in [Nodes -> SUBSET Used]
        /\ \A n \in Nodes : reg'[n] = IF n = m THEN reg[m] \ stalled ELSE reg[n]
    BY <2>1 DEF Push
  <2>3. pushed \subseteq pushed' /\ \A r \in rs \ stalled : <<r, i0>> \in pushed'
    BY <2>1 DEF Push
  <2>4. QED
    BY <2>2, <2>3
<1>4. FewerConns
  BY <1>3 DEF FewerConns
<1>5. ASSUME NEW n \in Nodes, NEW r \in reg'[n], n \in tracked PROVE n \in tracked'
  BY <1>2, <1>3, <1>5 DEF StillTracked
<1>6. /\ Others(c) /\ UNCHANGED hash /\ call'[c].pc \in {"collected", "attempt"}
      /\ \A i \in Ids : call'[c].snap[i] \in {None, call[c].snap[i]}
  <2>1. CASE Skip(c, i0)
    BY <1>0, <2>1, SkipForgets, SkipsRecord DEF Skip, StoreInv
  <2>2. CASE AttemptBegin(c, i0)
    BY <2>2, BeginAttemptStep DEF AttemptBegin, StoreInv
  <2>3. QED
    BY <1>2, <2>1, <2>2
<1>7. FlushFits(c)'
  <2>1. ASSUME task[c].kind = "flush", call'[c].pc = "attempt"
        PROVE  <<f, call'[c].id>> \in pushed'
    <3>1. rs = {f} /\ AttemptBegin(c, i0)
      <4>1. Skip(c, i0) => call'[c].pc = "collected"
        BY <1>0, SkipForgets, SkipsRecord DEF StoreInv
      <4>2. QED
        BY <1>2, <2>1, <4>1
    <3>2. rs # stalled
      <4>1. call'[c].pc # "collected"
        BY <2>1
      <4>2. Skip(c, i0) => call'[c].pc = "collected"
        BY <1>0, SkipForgets, SkipsRecord DEF StoreInv
      <4>3. QED
        BY <1>2, <4>1, <4>2
    <3>3. call'[c].id = i0
      BY <3>1, BeginAttemptStep DEF StoreInv
    <3>4. QED
      BY <1>2, <1>3, <3>1, <3>2, <3>3
  <2>2. QED
    BY <1>0, <1>1, <1>6, <2>1 DEF FlushFits
<1>8. ASSUME NEW n \in Nodes, NEW i \in Pending', NEW r \in reg'[n]
      PROVE  NetStays(n, i, r) /\ CallStays(c, n, i, r)
  <2>1. NetStays(n, i, r)
    BY <1>1, <1>3, <1>5 DEF NetStays
  <2>2. Flushing(c, r, i) => Flushing(c, r, i)'
    <3>1. SUFFICES ASSUME Flushing(c, r, i) PROVE Flushing(c, r, i)'
      OBVIOUS
    <3>2. task[c].kind = "flush" /\ f = r /\ rs = {f} /\ Carries(c, i)
      BY <1>2, <3>1 DEF Flushing, FlushOf
    <3>3. r \notin stalled
      <4>1. r \in reg[n]
        BY <1>3
      <4>2. n = m
        BY <3>2, <4>1 DEF Registry
      <4>3. QED
        BY <1>3, <4>2
    <3>4. AttemptBegin(c, i0)
      BY <1>2, <3>2, <3>3
    <3>5. /\ call'[c].at = call[c].at /\ call'[c].snap = call[c].snap
          /\ call'[c].todo = call[c].todo
      BY <1>0, <1>6, <3>4, BeginAttemptStep, CollectStays DEF StoreInv
    <3>6. QED
      BY <1>1, <3>2, <3>5 DEF Flushing, FlushOf, Carries
  <2>3. Flushed(c, r) => Flushed(c, r)'
    BY <1>1 DEF Flushed, FlushOf
  <2>4. ~Handing(c, i)
    BY <1>0 DEF Handing
  <2>5. QED
    BY <2>1, <2>2, <2>3, <2>4 DEF CallStays
<1>9. QED
  BY <1>1, <1>3, <1>4, <1>6, <1>7, <1>8, MindedByCall DEF Pending

LEMMA MindedEnd ==
    ASSUME Inv, Minded, NEW c \in Callers, CountEnd(c) \/ FlushEnd(c) \/ SweepEnd(c)
    PROVE  Minded'
<1> USE DEF Inv, Tidy
<1>1. /\ call[c] \in CallType /\ Fits(c) /\ call[c].pc = "collected"
      /\ task[c].kind \in {"count", "flush", "sweep"}
      /\ Done(c) /\ NewTask(c, NoTask) /\ NoTask.kind = "none"
      /\ UNCHANGED <<reg, bus, flushes, pushed, missed, overtaken>>
  BY DEF StoreInv, TypeOK, CountEnd, FlushEnd, SweepEnd, Doing, At, EndTask, NoTask, gateway,
     network, exceptions
<1>2. Others(c) /\ UNCHANGED hash
  BY <1>1, IdleStep DEF Done, StoreInv
<1>3. CASE CountEnd(c) \/ SweepEnd(c)
  <2>1. UNCHANGED tracked /\ task[c].kind # "flush" /\ task[c].kind # "deliver"
    BY <1>3 DEF CountEnd, SweepEnd, Doing, gateway, network
  <2>2. QED
    BY <1>1, <1>2, <2>1, MindedByOther, NetUnchanged, SameReg DEF Pending
<1>4. CASE FlushEnd(c)
  <2> DEFINE m == task[c].node
             f == task[c].conn
  <2>1. /\ task[c].kind = "flush" /\ (Due(c) = {} \/ f \notin reg[m])
        /\ tracked' = IF task[c].some /\ reg[m] # {} THEN tracked \cup {m} ELSE tracked
    BY <1>4 DEF FlushEnd, Doing, TrackFlushed
  <2>2. task'[c] = NoTask /\ \A k \in Callers : k # c => task'[k] = task[k]
    BY <1>1, TaskStep
  <2>3. FlushFits(c)'
    BY <1>1, <2>2 DEF FlushFits
  <2>4. ASSUME NEW n \in Nodes, NEW i \in Pending', NEW r \in reg'[n]
        PROVE  NetStays(n, i, r) /\ CallStays(c, n, i, r)
    <3>1. r \in reg[n] /\ i \in Ids
      BY <1>1 DEF Pending
    <3>2. FlushOf(c, r) => f = r /\ m = n
      BY <3>1 DEF FlushOf, Registry
    <3>3. ~Flushing(c, r, i)
      <4>1. SUFFICES ASSUME Flushing(c, r, i) PROVE FALSE
        OBVIOUS
      <4>2. i \in Due(c)
        BY <1>1, <3>1, <4>1 DEF Flushing, FlushOf, Carries, Fits, Due
      <4>3. QED
        BY <2>1, <3>1, <3>2, <4>1, <4>2 DEF Flushing
    <3>4. Flushed(c, r) => n \in tracked'
      BY <2>1, <3>1, <3>2 DEF Flushed
    <3>5. ~Handing(c, i)
      BY <1>1 DEF Handing
    <3>6. NetStays(n, i, r)
      BY <1>1, <2>1 DEF NetStays
    <3>7. QED
      BY <3>3, <3>4, <3>5, <3>6 DEF CallStays
  <2>5. QED
    BY <1>1, <1>2, <2>2, <2>3, <2>4, MindedByCall, SameReg DEF Pending
<1>5. QED
  BY <1>3, <1>4

\* What the acks, the connections and the other nodes do.
LEMMA MindedAck ==
    ASSUME Inv, Minded, NEW c \in Callers,
           \/ PostAcks(c) \/ AckStep(c) \/ AckReply(c)
           \/ \E lost \in BOOLEAN : AckFails(c, lost)
    PROVE  Minded'
<1> USE DEF Inv, Tidy
<1>0. UNCHANGED <<reg, bus, flushes, pushed, missed, overtaken, tracked>>
  BY DEF PostAcks, AckStep, AckReply, AckFails, gateway, network, exceptions
<1>1. ASSUME task[c].kind \notin {"deliver", "flush"}, Others(c), Pending' \subseteq Pending,
             \A k \in Callers : k # c => task'[k] = task[k], task'[c].kind # "flush"
      PROVE  Minded'
  <2>1. FlushFits(c)'
    BY <1>1 DEF FlushFits
  <2>2. QED
    BY <1>0, <1>1, <2>1, Bystander, MindedByCall, NetUnchanged, SameReg
<1>2. CASE PostAcks(c)
  <2> DEFINE t == [NoTask EXCEPT !.kind = "ack", !.ids = tab.acks]
  <2>1. NewTask(c, t) /\ AckBegin(c, tab.acks) /\ tab.acks \in SUBSET Ids /\ t.kind = "ack"
    BY <1>2 DEF PostAcks, Kept, TabType, NoTask
  <2> HIDE DEF t
  <2>2. task'[c].kind = "ack" /\ \A k \in Callers : k # c => task'[k] = task[k]
    BY <2>1, TaskStep
  <2>3. Others(c) /\ UNCHANGED hash /\ task[c].kind = "none"
    BY <2>1, AckBeginStep, TaskOf DEF AckBegin, At
  <2>4. QED
    BY <1>1, <2>2, <2>3 DEF Pending
<1>3. CASE AckStep(c)
  <2>1. UNCHANGED task
    BY <1>3 DEF AckStep
  <2>2. call[c].pc \in Acking /\ Others(c) /\ Pending' \subseteq Pending
    <3>1. CASE AckStatus(c)
      BY <3>1, StatusStep DEF AckStatus, At, Acking, Pending
    <3>2. ASSUME NEW i \in Ids, AckDel(c, i)
          PROVE  call[c].pc \in Acking /\ Others(c) /\ Pending' \subseteq Pending
      <4>1. call[c].pc = "ack" /\ hash \in [Ids -> Entry \cup {None}]
        BY <3>2 DEF AckDel, At, StoreInv, TypeOK
      <4>2. QED
        BY <3>2, <4>1, DelStep DEF Acking, Pending
    <3>3. QED
      BY <1>3, <3>1, <3>2 DEF AckStep, Ack
  <2>3. task[c].kind \in {"ack", "unheard"}
    BY <2>2, TaskOf
  <2>4. QED
    BY <1>1, <2>1, <2>2, <2>3
<1>4. CASE AckReply(c)
  <2>1. NewTask(c, NoTask) /\ Done(c) /\ call[c].pc = "ack" /\ NoTask.kind = "none"
    BY <1>4 DEF AckReply, EndTask, At, NoTask
  <2>2. task'[c].kind = "none" /\ \A k \in Callers : k # c => task'[k] = task[k]
    BY <2>1, TaskStep
  <2>3. Others(c) /\ UNCHANGED hash /\ task[c].kind \in {"ack", "unheard"}
    BY <2>1, IdleStep, TaskOf DEF Done, Acking
  <2>4. QED
    BY <1>1, <2>2, <2>3 DEF Pending
<1>5. ASSUME NEW lost \in BOOLEAN, AckFails(c, lost) PROVE Minded'
  <2>1. task[c].kind = "ack" /\ \E t \in {NoTask, Unheard} : NewTask(c, t)
    BY <1>5 DEF AckFails, EndTask
  <2>2. task'[c].kind # "flush" /\ \A k \in Callers : k # c => task'[k] = task[k]
    BY <2>1, TaskStep DEF NoTask, Unheard
  <2>3. Others(c) /\ UNCHANGED hash
    <3>1. CASE lost
      <4>1. Become(c, Idle) /\ UNCHANGED hash
        BY <1>5, <3>1 DEF AckFails
      <4>2. QED
        BY <4>1, BecomeAt DEF Others, StoreInv, TypeOK
    <3>2. CASE ~lost
      BY <1>5, <3>2 DEF AckFails, vars, Others
    <3>3. QED
      BY <3>1, <3>2
  <2>4. QED
    BY <1>1, <2>1, <2>2, <2>3 DEF Pending
<1>6. QED
  BY <1>2, <1>3, <1>4, <1>5

\* A step that is no call's.
LEMMA MindedByNet ==
    ASSUME Inv, Minded, UNCHANGED <<hash, call>>, FewerConns, pushed \subseteq pushed',
           \A k \in Callers : task'[k] = task[k]
                              \/ (task[k].kind = "ack" /\ task'[k] = Unheard),
           \A n \in Nodes, i \in Pending : \A r \in reg'[n] : NetStays(n, i, r)
    PROVE  Minded'
<1>0. Used \subseteq Conns /\ Pending' = Pending /\ Unheard.kind = "unheard"
  BY UsedConns DEF Inv, Tidy, Pending, Unheard, NoTask
<1>1. ASSUME NEW k \in Callers
      PROVE  FlushFits(k)' /\ \A n, i, r : CallStays(k, n, i, r)
  <2>1. CASE task'[k] = task[k]
    BY <2>1, LeftAlone DEF Minded
  <2>2. CASE task[k].kind = "ack" /\ task'[k] = Unheard
    BY <1>0, <2>2, Bystander DEF FlushFits
  <2>3. QED
    BY <2>1, <2>2
<1>2. ASSUME NEW n \in Nodes, NEW i \in Pending, NEW r \in reg'[n] PROVE Attended(n, i, r)'
  <2>1. i \in Ids /\ r \in reg[n] /\ r \in Conns
    BY <1>0 DEF FewerConns, Pending
  <2>2. QED
    BY <1>1, <2>1, AttendedStays DEF Minded
<1>3. QED
  BY <1>0, <1>1, <1>2 DEF Minded

LEMMA MindedNodes ==
    ASSUME Inv, Minded, NEW n0 \in Nodes,
           \/ \E i \in Ids : Receive(n0, i) \/ Lose(n0, i)
           \/ \E r \in Conns : Close(n0, r)
           \/ SweepNobody(n0)
    PROVE  Minded'
<1> USE DEF Inv, Tidy
<1>1. ASSUME NEW i0 \in Ids, Receive(n0, i0) PROVE Minded'
  <2>1. /\ UNCHANGED <<hash, call, flushes, missed, overtaken, task>> /\ Dispatch(n0, i0)
        /\ bus' = bus \ {<<n0, i0>>}
    BY <1>1 DEF Receive, vars, exceptions
  <2>2. /\ reg' \in [Nodes -> SUBSET Used] /\ \A n \in Nodes : reg'[n] \subseteq reg[n]
        /\ pushed \subseteq pushed' /\ tracked \subseteq tracked'
        /\ \A r \in reg'[n0] : <<r, i0>> \in pushed' /\ n0 \in tracked'
    BY <2>1, DispatchStep DEF Registry
  <2>3. ASSUME NEW n \in Nodes, NEW i \in Pending, NEW r \in reg'[n] PROVE NetStays(n, i, r)
    BY <2>1, <2>2 DEF NetStays, Served
  <2>4. QED
    BY <2>1, <2>2, <2>3, MindedByNet DEF FewerConns
<1>2. ASSUME NEW i0 \in Ids, Lose(n0, i0) PROVE Minded'
  <2>1. /\ UNCHANGED <<hash, call, flushes, overtaken, task, reg, pushed, tracked>>
        /\ bus' = bus \ {<<n0, i0>>} /\ missed' = missed \cup {<<n0, i0>>}
    BY <1>2 DEF Lose, vars
  <2>2. \A n, i, r : NetStays(n, i, r)
    BY <2>1 DEF NetStays
  <2>3. QED
    BY <2>1, <2>2, MindedByNet, SameReg
<1>3. ASSUME NEW r0 \in Conns, Close(n0, r0) PROVE Minded'
  <2>1. /\ UNCHANGED <<hash, call, flushes, missed, overtaken, task, bus>>
        /\ Push(n0, {}, None, {r0}) /\ tracked' = StillTracked(n0, {r0})
    BY <1>3 DEF Close, Unregister, vars, exceptions
  <2>2. /\ reg' = [reg EXCEPT ![n0] = @ \ {r0}] /\ pushed' = pushed
    BY <2>1 DEF Push
  <2>3. \A n \in Nodes : reg'[n] = IF n = n0 THEN reg[n0] \ {r0} ELSE reg[n]
    BY <2>2 DEF Registry
  <2>4. ASSUME NEW n \in Nodes, NEW i \in Pending, NEW r \in reg'[n] PROVE NetStays(n, i, r)
    BY <2>1, <2>2, <2>3 DEF NetStays, StillTracked
  <2>5. FewerConns
    BY <2>2 DEF FewerConns, Registry
  <2>6. QED
    BY <2>1, <2>2, <2>4, <2>5, MindedByNet
<1>4. CASE SweepNobody(n0)
  <2>1. /\ UNCHANGED <<hash, call, flushes, missed, overtaken, task, bus, reg, pushed>>
        /\ tracked' = tracked \ {n0} /\ reg[n0] = {}
    BY <1>4 DEF SweepNobody, vars, exceptions
  <2>2. ASSUME NEW n \in Nodes, NEW i \in Pending, NEW r \in reg'[n] PROVE NetStays(n, i, r)
    BY <2>1 DEF NetStays
  <2>3. QED
    BY <2>1, <2>2, MindedByNet, SameReg
<1>5. QED
  BY <1>1, <1>2, <1>3, <1>4

LEMMA MindedTab ==
    ASSUME Inv, Minded,
           Disconnected \/ Handle \/ (\E reload \in BOOLEAN : Leave(reload)) \/ UNCHANGED allVars
    PROVE  Minded'
<1>1. UNCHANGED <<hash, call, flushes, missed, overtaken, bus, reg, pushed, tracked>>
  BY DEF Disconnected, Handle, Leave, allVars, vars, gateway, network, exceptions
<1>2. \A k \in Callers : task'[k] = task[k] \/ (task[k].kind = "ack" /\ task'[k] = Unheard)
  BY DEF Disconnected, Handle, Leave, allVars
<1>3. QED
  BY <1>1, <1>2, NetUnchanged, SameReg, MindedByNet

LEMMA MindedConnect ==
    ASSUME Inv, Minded, NEW r0 \in Conns, NEW n0 \in Nodes, Connect(r0, n0)
    PROVE  Minded'
<1> USE DEF Inv, Tidy
<1>1. /\ UNCHANGED <<hash, call, missed, overtaken, bus, pushed, tracked, task>>
      /\ flushes' = flushes \cup {r0} /\ Pending' = Pending
  BY DEF Connect, vars, exceptions, Pending
<1>2. \A n \in Nodes : reg'[n] \subseteq reg[n] \cup {r0}
  <2>1. \E conns \in SUBSET (reg[n0] \cup {r0}) : reg' = [reg EXCEPT ![n0] = conns]
    <3>1. CASE OverCap(reg[n0] \cup {r0})
      BY <3>1 DEF Connect
    <3>2. CASE ~OverCap(reg[n0] \cup {r0})
      BY <3>2 DEF Connect
    <3>3. QED
      BY <3>1, <3>2
  <2>2. QED
    BY <2>1 DEF Registry
<1>3. \A k \in Callers : FlushFits(k)' /\ \A n, i, r : CallStays(k, n, i, r)
  BY <1>1, LeftAlone DEF Minded
<1>4. ASSUME NEW n \in Nodes, NEW i \in Pending, NEW r \in reg'[n] PROVE Attended(n, i, r)'
  <2>1. CASE r = r0
    BY <1>1, <2>1 DEF Attended, Covered, Watched
  <2>2. CASE r # r0
    <3>1. r \in reg[n] /\ r \in Conns /\ i \in Ids
      BY <1>2, <2>2, UsedConns DEF Registry, Pending
    <3>2. NetStays(n, i, r)
      BY <1>1 DEF NetStays
    <3>3. QED
      BY <1>3, <3>1, <3>2, AttendedStays DEF Minded
  <2>3. QED
    BY <2>1, <2>2
<1>5. QED
  BY <1>1, <1>3, <1>4 DEF Minded

LEMMA MindedCrash ==
    ASSUME Inv, Minded, NEW n0 \in Nodes, Crash(n0) PROVE Minded'
<1> USE DEF Inv, Tidy
<1> DEFINE dead == {c \in Callers : task[c].node = n0}
<1>1. /\ \A k \in Callers : call'[k] = IF k \in dead THEN Idle ELSE call[k]
      /\ \A k \in Callers : task'[k] = IF k \in dead THEN NoTask ELSE task[k]
      /\ missed' = missed \cup (Nodes \X {call[c].id : c \in {d \in dead : task[d].kind = "deliver"}})
                         \cup {b \in bus : b[1] = n0}
      /\ bus' = {b \in bus : b[1] # n0} /\ tracked' = tracked \ {n0}
      /\ reg' = [reg EXCEPT ![n0] = {}] /\ flushes' = flushes \ reg[n0]
      /\ UNCHANGED <<hash, pushed, overtaken>>
  BY DEF Crash
<1>2. Pending' = Pending /\ \A n \in Nodes : reg'[n] = IF n = n0 THEN {} ELSE reg[n]
  BY <1>1 DEF Pending, Registry
<1>3. ASSUME NEW k \in Callers PROVE FlushFits(k)'
  <2>1. CASE k \in dead
    BY <1>1, <2>1 DEF FlushFits, NoTask
  <2>2. CASE k \notin dead
    BY <1>1, <2>2, LeftAlone DEF Minded
  <2>3. QED
    BY <2>1, <2>2
<1>4. ASSUME NEW n \in Nodes, NEW i \in Pending, NEW r \in reg'[n] PROVE Attended(n, i, r)'
  <2>1. n # n0 /\ r \in reg[n] /\ r \in Conns /\ i \in Ids /\ r \notin reg[n0]
    BY <1>2, UsedConns DEF Registry, Pending
  <2>2. NetStays(n, i, r)
    <3>1. <<n, i>> \in bus => <<n, i>> \in bus'
      BY <1>1, <2>1
    <3>2. QED
      BY <1>1, <2>1, <3>1 DEF NetStays
  <2>3. ASSUME NEW k \in Callers PROVE CallStays(k, n, i, r)
    <3>1. CASE k \in dead
      <4>1. Handing(k, i) => <<n, i>> \in missed'
        <5>1. SUFFICES ASSUME Handing(k, i) PROVE <<n, i>> \in missed'
          OBVIOUS
        <5>2. task[k].kind = "deliver" /\ call[k].id = i
          BY <5>1, TaskOf DEF Handing, Delivering
        <5>3. QED
          BY <1>1, <3>1, <5>2
      <4>2. ~FlushOf(k, r)
        BY <2>1, <3>1 DEF FlushOf, Registry
      <4>3. QED
        BY <4>1, <4>2 DEF CallStays, Flushing, Flushed
    <3>2. CASE k \notin dead
      BY <1>1, <3>2, LeftAlone
    <3>3. QED
      BY <3>1, <3>2
  <2>4. QED
    BY <2>1, <2>2, <2>3, AttendedStays DEF Minded
<1>5. QED
  BY <1>2, <1>3, <1>4 DEF Minded

LEMMA MindedKept == Inv /\ Minded /\ [AllNext]_allVars => Minded'
BY MindedDeliver, MindedCollect, MindedBegin, MindedPush, MindedEnd, MindedAck, MindedNodes,
   MindedTab, MindedConnect, MindedCrash DEF AllNext, Work

LEMMA MindedInit == AllInit => Minded
<1> SUFFICES ASSUME AllInit PROVE Minded
  OBVIOUS
<1>1. \A c \in Callers : FlushFits(c)
  BY DEF AllInit, FlushFits, NoTask
<1>2. QED
  BY <1>1 DEF AllInit, Minded

\* NoGap: for any number of nodes, connections, deliveries and faults, and
\* any order of the store, the announcement, pub/sub and the registration, a
\* stored entry was written to every registered connection or is on its way
\* there, unless an announcement got lost.
THEOREM NoGapBetweenFlushAndPushes == AllSpec => []NoGap
<1>1. Inv /\ Minded => NoGap
  <2> SUFFICES ASSUME Inv, Minded, NEW n \in Nodes, NEW i \in Pending, NEW r \in reg[n]
               PROVE  <<r, i>> \in pushed \/ OnItsWay(n, r, i) \/ <<n, i>> \in missed
    BY DEF NoGap
  <2>1. Covered(n, i, r)
    BY DEF Minded, Attended
  <2>2. ASSUME NEW c \in Callers, Handing(c, i)
        PROVE  task[c].kind = "deliver" /\ call[c].id = i
    BY <2>2, TaskOf DEF Inv, Handing, Delivering
  <2>3. QED
    BY <2>1, <2>2 DEF Covered, Announced, Flushing, FlushOf, Carries, OnItsWay
<1>2. QED
  BY <1>1, InvInit, InvKept, MindedInit, MindedKept, PTL DEF AllSpec

\* NeverStranded: for any number of nodes, connections, deliveries and
\* faults, when the gateway is quiet every node the user is connected to
\* tracks the user as long as an entry is stored, but for lost announcements
\* and retry passes that had read the store before the entry was in it.
THEOREM NobodyIsStranded == AllSpec => []NeverStranded
<1>1. Inv /\ Minded => NeverStranded
  <2> SUFFICES ASSUME Inv, Minded, NEW n \in Nodes, NEW i \in Pending, Quiet, reg[n] # {},
                      <<n, i>> \notin missed \cup overtaken
               PROVE  n \in tracked
    BY DEF NeverStranded
  <2>1. PICK r \in reg[n] : TRUE
    OBVIOUS
  <2>2. Watched(n, i, r) /\ r \in Registered
    BY <2>1 DEF Minded, Attended, Registered
  <2>3. ASSUME NEW c \in Callers PROVE ~Handing(c, i) /\ task[c].kind = "none"
    BY TaskOf DEF Inv, Quiet, At, Handing
  <2>4. QED
    BY <2>2, <2>3 DEF Watched, Announced, Flushing, Flushed, FlushOf, Quiet
<1>2. QED
  BY <1>1, InvInit, InvKept, MindedInit, MindedKept, PTL DEF AllSpec

----------------------------------------------------------------------------
(* The abstract specification                                              *)

\* The tab handles what was written to its connection, and nothing happens
\* to the store meanwhile.
LEMMA HandledStep ==
    ASSUME Kept, AllNext, NetSent
    PROVE  \/ handled' = handled
           \/ /\ Handle /\ UNCHANGED vars
              /\ \E i \in Ids : Sent(i) /\ handled' = handled \cup {i}
<1>1. CASE Handle
  <2> DEFINE w == wire[tab.conn]
  <2>1. tab.conn \in Conns /\ w \in Seq(Ids) /\ w # <<>>
    <3>1. tab.conn \in Conns
      BY <1>1 DEF Handle, Kept, TabType
    <3>2. QED
      BY <1>1, <3>1 DEF Handle, Kept
  <2>2. Head(w) \in Ids /\ Head(w) = w[1] /\ 1 \in DOMAIN w
    <3> HIDE DEF w
    <3>1. QED
      BY <2>1
  <2>3. Sent(Head(w))
    BY <2>1, <2>2 DEF NetSent, Frames
  <2>4. QED
    BY <1>1, <2>2, <2>3 DEF Handle
<1>2. CASE ~Handle
  <2>1. ASSUME NEW c \in Callers, Work(c) PROVE handled' = handled
    BY <2>1 DEF Work, DeliverStore, DeliverRejected, Broadcast, Finalize, Collected, Record,
       CountFound, CountEnd, FlushPush, SweepPush, FlushEnd, SweepEnd, AckStep, AckReply, client
  <2>2. ASSUME NEW c \in Callers, Timers(c) PROVE handled' = handled
    BY <2>2 DEF Timers, CountBegin, FlushBegin, SweepBegin, client
  <2>3. QED
    BY <1>2, <2>1, <2>2 DEF AllNext, Deliver, PostAcks, AckFails, Receive, Lose, Connect, Close,
       SweepNobody, Crash, Disconnected, Leave, client
<1>3. QED
  BY <1>1, <1>2

\* Attempts are counted of stored entries, and anew when one is stored.
LEMMA RecordedStep ==
    ASSUME TypeOK, Next, NEW i \in Ids, recorded'[i] # recorded[i]
    PROVE  hash'[i] # None
<1>1. ASSUME NEW c \in Callers, EnqueueStore(c) PROVE hash'[i] # None
  <2> DEFINE e == [data |-> call[c].data, createdAt |-> call[c].at,
                   attempts |-> 0, nextAttemptAt |-> call[c].at]
  <2>1. e \in Entry
    BY DEF Entry, TypeOK, CallType
  <2>2. hash' = [hash EXCEPT ![call[c].id] = e] /\ recorded' = [recorded EXCEPT ![call[c].id] = 0]
    BY <1>1 DEF EnqueueStore
  <2> HIDE DEF e
  <2>3. QED
    BY <2>1, <2>2, NoneAssumption DEF TypeOK
<1>2. ASSUME NEW c \in Callers, AttemptSet(c) PROVE hash'[i] # None
  BY <1>2, AttemptStep, NoneAssumption DEF TypeOK
<1>3. ASSUME NEW c \in Callers,
             \/ Begin(c) \/ EnqueueReject(c) \/ EnqueueStatus(c) \/ Done(c)
             \/ FinalizeStatus(c) \/ CollectReturn(c) \/ AckStatus(c)
             \/ \E j \in Ids : AttemptBegin(c, j) \/ FinalizeDel(c, j) \/ AckDel(c, j)
      PROVE  FALSE
  BY <1>3 DEF Begin, EnqueueLen, CollectRead, AckBegin, EnqueueReject, EnqueueStatus, Done,
     FinalizeStatus, CollectReturn, AckStatus, AttemptBegin, FinalizeDel, AckDel
<1>4. QED
  BY <1>1, <1>2, <1>3 DEF Next, Enqueue, Collect, Ack, Tick, KeyExpire

\* The gateway's steps take no time, and only a new delivery is an emission.
LEMMA UsesStep ==
    ASSUME TypeOK, NEW c \in Callers, Uses(c)
    PROVE  /\ now' = now
           /\ \A i \in Ids : emits'[i] # emits[i] =>
                EnqueueLen(c, i) /\ emits[i] < MaxEmits /\ emits'[i] = emits[i] + 1
<1>1. CASE \E i \in Ids : EnqueueLen(c, i)
  BY <1>1 DEF EnqueueLen, TypeOK
<1>2. CASE ~\E i \in Ids : EnqueueLen(c, i)
  BY <1>2 DEF Uses, CollectRead, AckBegin, Enqueue, EnqueueReject, EnqueueStore, EnqueueStatus,
     Collect, FinalizeDel, FinalizeStatus, CollectReturn, AttemptBegin, AttemptSet,
     Ack, AckDel, AckStatus, Done
<1>3. QED
  BY <1>1, <1>2

\* What was sent stays so, what was not is not handled.
LEMMA SentKept ==
    ASSUME Inv, OnlySent, AllNext, NEW i \in Ids
    PROVE  /\ Sent(i) => Sent(i)'
           /\ Fresh(i) /\ hash[i] = None /\ hash'[i] = None => Fresh(i)'
           /\ handled \subseteq handled'
<1>1. /\ handled \subseteq handled'
      /\ i \in handled' => i \in handled \/ Sent(i)
  BY HandledStep DEF Inv, Tidy, OnlySent
<1>2. hash'[i] = None /\ recorded'[i] # recorded[i] => FALSE
  <2>1. Next \/ UNCHANGED recorded
    BY StoreSteps DEF Inv, Tidy, Forgets, vars
  <2>2. QED
    BY <2>1, RecordedStep DEF Inv, StoreInv
<1>3. recorded[i] \in Nat /\ MaxAttempts \in Nat \ {0} /\ (i \in Pending' <=> hash'[i] # None)
  BY ConfigAssumption DEF Inv, StoreInv, TypeOK, Pending
<1>4. ASSUME Sent(i), ~Sent(i)' PROVE FALSE
  <2>1. i \notin handled /\ hash'[i] = None /\ recorded[i] < MaxAttempts
    BY <1>1, <1>2, <1>3, <1>4 DEF Sent
  <2>2. hash[i] # None
    BY <1>4, <2>1, <1>3 DEF Sent, Pending
  <2>3. emits[i] = 1
    BY <2>2 DEF OnlySent, Inv, StoreInv, Token, TokenAt, TypeOK
  <2>4. Next
    BY <2>1, <2>2, StoreSteps DEF Inv, Tidy, Forgets, vars
  <2>5. \/ \E c \in Callers : call[c].pc = "ack" /\ i \in call[c].todo
        \/ now >= hash[i].createdAt + Ttl
    BY <1>3, <2>1, <2>2, <2>3, <2>4, RemovalJustified DEF Inv, StoreInv
  <2>6. hash[i].createdAt \in Nat /\ Ttl \in Nat \ {0} /\ now = 0
    BY <2>2, ConfigAssumption DEF Inv, StoreInv, TypeOK, Entry, OnlySent
  <2>7. QED
    BY <2>1, <2>5, <2>6 DEF OnlySent, CallSent, Acking
<1>5. ASSUME Fresh(i), hash[i] = None, hash'[i] = None PROVE Fresh(i)'
  BY <1>1, <1>2, <1>3, <1>5 DEF Fresh, Sent, Pending
<1>6. QED
  BY <1>1, <1>4, <1>5

\* A call that learns of no entry by the step.
LEMMA CallSentStays ==
    ASSUME Inv, Inv', OnlySent, AllNext, NEW k \in Callers,
           call'[k].pc = "store" => call[k].pc = "store" /\ call[k].id = call'[k].id,
           call'[k].pc \in {"announce", "stored"} =>
               \/ hash'[call'[k].id] # None
               \/ call[k].pc \in {"announce", "stored"} /\ call[k].id = call'[k].id,
           \A i \in Ids : call'[k].snap[i] \in {None, call[k].snap[i]},
           call'[k].pc \in Acking => call[k].pc \in Acking /\ call'[k].todo \subseteq call[k].todo
    PROVE  CallSent(k)'
<1>1. CallSent(k) /\ handled \subseteq handled'
  BY HandledStep DEF OnlySent, Inv, Tidy
<1>2. call'[k].pc \in {"store", "announce", "stored"} => call'[k].id \in Ids
  BY DEF Inv, Tidy, TypeOK, WellFormed, Fits
<1>3. ASSUME call'[k].pc = "store" PROVE Fresh(call[k].id)'
  <2>0. PICK i \in Ids : i = call[k].id
    BY <1>2, <1>3
  <2>1. call[k].id = i /\ call'[k].id = i /\ Fresh(i) /\ call[k].pc = "store"
    BY <1>1, <1>3, <2>0 DEF CallSent
  <2>2. hash[i] = None
    BY <2>1 DEF Inv, StoreInv, Token, TokenAt, Settling, OnlySent
  <2>3. hash'[i] = None
    <3>1. emits[i] \in {0, 1} /\ emits'[i] \in Nat
      BY <2>1 DEF Inv, StoreInv, TypeOK, OnlySent
    <3>2. CopiesAt(i) /\ TokenAt(i)
      BY <2>1 DEF Inv, StoreInv, Copies, Token
    <3>3. SUFFICES ASSUME hash'[i] # None PROVE FALSE
      OBVIOUS
    <3>4. Next
      BY <2>2, <3>3, StoreSteps DEF Inv, Tidy, Forgets, vars
    <3>5. PICK c \in Callers : call[c].pc = "store" /\ call[c].id = i /\ call'[c].pc = "announce"
      BY <2>1, <2>2, <3>3, <3>4, OnlyStoreFills DEF Inv, StoreInv
    <3>6. c = k
      BY <2>1, <3>2, <3>5 DEF TokenAt, Settling, OnlySent
    <3>7. QED
      BY <1>3, <3>5, <3>6
  <2>4. Fresh(i)'
    BY <2>1, <2>2, <2>3, SentKept
  <2>5. QED
    BY <2>1, <2>4 DEF Fresh
<1>4. ASSUME call'[k].pc \in {"announce", "stored"} PROVE Sent(call[k].id)'
  <2>1. CASE hash'[call'[k].id] # None
    BY <1>2, <1>4, <2>1 DEF Sent, Pending
  <2>2. CASE call[k].pc \in {"announce", "stored"} /\ call[k].id = call'[k].id
    <3>1. PICK i \in Ids : i = call[k].id
      BY <1>2, <1>4, <2>2
    <3>2. Sent(i)
      BY <1>1, <2>2, <3>1 DEF CallSent
    <3>3. Sent(i)'
      BY <3>2, SentKept
    <3>4. QED
      BY <2>2, <3>1, <3>3 DEF Sent
  <2>3. QED
    BY <1>4, <2>1, <2>2
<1>5. ASSUME NEW i \in Ids, call'[k].snap[i] # None PROVE Sent(i)'
  BY <1>1, <1>5, SentKept DEF CallSent
<1>6. call'[k].pc \in Acking => call'[k].todo \subseteq handled'
  BY <1>1 DEF CallSent
<1>7. QED
  BY <1>3, <1>4, <1>5, <1>6 DEF CallSent

LEMMA CallSentKept ==
    ASSUME Inv, Inv', OnlySent, AllNext, MaxEmits = 1, NEW k \in Callers
    PROVE  CallSent(k)'
<1>0. TypeOK /\ handled \subseteq handled' /\ tab.acks \in SUBSET Ids
  BY HandledStep DEF Inv, Tidy, OnlySent, Kept, TabType
<1>1. CASE call'[k] = call[k]
  BY <1>1, CallSentStays
<1>2. ASSUME NEW c \in Callers, Uses(c), k = c PROVE CallSent(k)'
  <2>1. ASSUME NEW i \in Ids, EnqueueLen(c, i) PROVE CallSent(c)'
    <3>1. emits[i] = 0 /\ hash' = hash
      BY <2>1 DEF EnqueueLen, Inv, StoreInv, TypeOK
    <3>2. Fresh(i) /\ hash[i] = None
      BY <3>1 DEF OnlySent, Inv, StoreInv, Token, TokenAt
    <3>3. Fresh(i)'
      BY <3>1, <3>2, SentKept
    <3>4. call'[c].pc \in {"reject", "store"} /\ call'[c].id = i /\ call'[c].snap = Empty
      BY <1>0, <2>1, LenStep
    <3>5. QED
      BY <3>3, <3>4 DEF CallSent, Fresh, Empty, Acking
  <2>2. ASSUME NEW all \in BOOLEAN, CollectRead(c, all) PROVE CallSent(c)'
    <3>1. call'[c].pc = "finalize" /\ call'[c].snap = hash
      BY <1>0, <2>2, ReadStep
    <3>2. \A i \in Ids : hash[i] # None => Sent(i)'
      BY SentKept DEF Sent, Pending
    <3>3. QED
      BY <3>1, <3>2 DEF CallSent, Acking
  <2>3. ASSUME AckBegin(c, tab.acks) PROVE CallSent(c)'
    <3>1. call'[c].pc = "ack" /\ call'[c].snap = Empty /\ call'[c].todo = tab.acks
      BY <1>0, <2>3, AckBeginStep
    <3>2. QED
      BY <1>0, <3>1 DEF CallSent, Empty, OnlySent, AcksHandled
  <2>4. ASSUME EnqueueStore(c) PROVE CallSent(c)'
    <3> DEFINE e == [data |-> call[c].data, createdAt |-> call[c].at,
                     attempts |-> 0, nextAttemptAt |-> call[c].at]
    <3>1. e \in Entry
      BY <1>0 DEF Entry, TypeOK, CallType
    <3>2. hash' = [hash EXCEPT ![call[c].id] = e]
      BY <2>4 DEF EnqueueStore
    <3>3. /\ call'[c].pc = "announce" /\ call'[c].snap = call[c].snap
          /\ call'[c].id = call[c].id /\ call[c].id \in Ids
      BY <1>0, <2>4, StoreStep, AnnounceId
    <3> HIDE DEF e
    <3>4. hash'[call'[c].id] # None
      BY <1>0, <3>1, <3>2, <3>3, NoneAssumption DEF TypeOK
    <3>5. QED
      BY <3>3, <3>4, CallSentStays DEF Acking
  <2>5. ASSUME EnqueueStatus(c) PROVE CallSent(c)'
    <3>1. /\ call[c].pc = "announce" /\ call'[c].pc = "stored"
          /\ call'[c].snap = call[c].snap /\ call'[c].id = call[c].id
      BY <1>0, <2>5, AnnounceStep, AnnounceId
    <3>2. QED
      BY <3>1, CallSentStays DEF Acking
  <2>6. ASSUME EnqueueReject(c) \/ Done(c) PROVE CallSent(c)'
    <3>1. call'[c].pc = "idle" /\ call'[c].snap = Empty
      BY <1>0, <2>6, IdleStep
    <3>2. QED
      BY <3>1 DEF CallSent, Empty, Acking
  <2>7. ASSUME NEW i \in Ids, FinalizeDel(c, i) \/ AckDel(c, i) PROVE CallSent(c)'
    <3>1. /\ call'[c].pc \notin {"store", "announce", "stored"}
          /\ call'[c].snap = call[c].snap /\ call'[c].todo \subseteq call[c].todo
          /\ call'[c].pc \in Acking => call[c].pc \in Acking
      BY <1>0, <2>7, DelStep DEF Acking
    <3>2. QED
      BY <3>1, CallSentStays
  <2>8. ASSUME FinalizeStatus(c) \/ AckStatus(c) PROVE CallSent(c)'
    <3>1. /\ call'[c].pc \notin {"store", "announce", "stored"}
          /\ call'[c].snap = call[c].snap /\ call'[c].todo = call[c].todo
          /\ call'[c].pc \in Acking => call[c].pc \in Acking
      BY <1>0, <2>8, StatusStep DEF Acking
    <3>2. QED
      BY <3>1, CallSentStays
  <2>9. ASSUME CollectReturn(c) \/ AttemptSet(c) \/ \E i \in Ids : AttemptBegin(c, i)
        PROVE  CallSent(c)'
    <3>1. /\ call'[c].pc \in {"collected", "attempt"}
          /\ \A i \in Ids : call'[c].snap[i] \in {None, call[c].snap[i]}
      BY <1>0, <2>9, ReturnStep, AttemptStep, BeginAttemptStep
    <3>2. QED
      BY <3>1, CallSentStays DEF Acking
  <2>10. QED
    BY <1>2, <2>1, <2>2, <2>3, <2>4, <2>5, <2>6, <2>7, <2>8, <2>9 DEF Uses, Enqueue, Collect, Ack
<1>3. ASSUME NEW c \in Callers, Uses(c), k # c PROVE call'[k] = call[k]
  BY <1>0, <1>3, LenStep, ReadStep, AckBeginStep, IdleStep, StoreStep, AnnounceStep, DelStep,
     StatusStep, ReturnStep, BeginAttemptStep, AttemptStep DEF Uses, Enqueue, Collect, Ack, Others
<1>4. CASE Forgets
  <2>1. CASE call'[k] = Idle
    BY <2>1 DEF CallSent, Idle, Empty, Acking
  <2>2. CASE Skips(k)
    BY <1>0, <2>2, SkipsRecord, CallSentStays DEF Acking
  <2>3. QED
    BY <1>1, <1>4, <2>1, <2>2 DEF Forgets
<1>5. CASE UNCHANGED vars
  BY <1>1, <1>5 DEF vars
<1>6. QED
  BY <1>0, <1>1, <1>2, <1>3, <1>4, <1>5, StoreUses

\* What a step puts on the wire or the bus was sent before.
LEMMA NetSentBy ==
    ASSUME Inv, OnlySent, AllNext, NEW S \in SUBSET Ids, \A i \in S : Sent(i),
           \A r \in Conns : Frames(r)' \subseteq Frames(r) \cup S,
           bus' \subseteq bus \cup (Nodes \X S)
    PROVE  NetSent'
<1>1. ASSUME NEW i \in Ids, NEW r \in Conns, i \in Frames(r)' PROVE Sent(i)'
  <2>1. i \in Frames(r) \/ i \in S
    BY <1>1
  <2>2. Sent(i)
    BY <2>1 DEF OnlySent, NetSent
  <2>3. QED
    BY <2>2, SentKept
<1>2. ASSUME NEW i \in Ids, NEW n \in Nodes, <<n, i>> \in bus' PROVE Sent(i)'
  <2>1. <<n, i>> \in bus \/ i \in S
    BY <1>2
  <2>2. Sent(i)
    BY <2>1 DEF OnlySent, NetSent
  <2>3. QED
    BY <2>2, SentKept
<1>3. QED
  BY <1>1, <1>2 DEF NetSent

\* A step that writes nothing to any connection.
LEMMA NoNewFrames ==
    ASSUME \A r \in Conns : wire'[r] \in {wire[r], <<>>}
    PROVE  \A r \in Conns : Frames(r)' \subseteq Frames(r)
<1> SUFFICES ASSUME NEW r \in Conns PROVE Frames(r)' \subseteq Frames(r)
  OBVIOUS
<1>1. CASE wire'[r] = wire[r]
  BY <1>1 DEF Frames
<1>2. CASE wire'[r] = <<>>
  <2>1. DOMAIN wire'[r] = {}
    BY <1>2
  <2>2. QED
    BY <2>1 DEF Frames
<1>3. QED
  BY <1>1, <1>2

LEMMA NetSentKept ==
    ASSUME Inv, OnlySent, AllNext PROVE NetSent'
<1> USE DEF Inv, Tidy
<1>0. /\ reg \in [Nodes -> SUBSET Used] /\ Used \subseteq Conns /\ wire \in [Conns -> Seq(Ids)]
      /\ bus \subseteq Nodes \X Ids
  BY UsedConns DEF Registry, Kept
<1>1. ASSUME \A r \in Conns : Frames(r)' \subseteq Frames(r), bus' \subseteq bus PROVE NetSent'
  <2> DEFINE S == {}
  <2>1. /\ S \in SUBSET Ids /\ \A i \in S : Sent(i)
        /\ \A r \in Conns : Frames(r)' \subseteq Frames(r) \cup S
        /\ bus' \subseteq bus \cup (Nodes \X S)
    BY <1>1
  <2> HIDE DEF S
  <2>2. QED
    BY <2>1, NetSentBy
<1>2. ASSUME \A r \in Conns : wire'[r] \in {wire[r], <<>>}, bus' \subseteq bus
      PROVE  NetSent'
  BY <1>1, <1>2, NoNewFrames
<1>3. ASSUME NEW c \in Callers, Broadcast(c) PROVE NetSent'
  <2>1. PICK i \in Ids : i = call[c].id
    BY <1>3, TaskOf DEF Broadcast, At, Delivering
  <2>2. Sent(i) /\ task[c].node \in Nodes /\ Dispatch(task[c].node, i)
    BY <1>3, <2>1, TaskOf DEF Broadcast, At, Delivering, OnlySent, CallSent
  <2>3. \A r \in Conns : Frames(r)' \subseteq Frames(r) \cup {i}
    BY <1>0, <2>2, DispatchStep
  <2>4. bus' \subseteq bus \cup (Nodes \X {i})
    BY <1>3, <2>1 DEF Broadcast
  <2>5. QED
    BY <2>2, <2>3, <2>4, NetSentBy
<1>4. ASSUME NEW n \in Nodes, NEW i \in Ids, Receive(n, i) PROVE NetSent'
  <2>1. Sent(i) /\ bus' \subseteq bus
    BY <1>4 DEF Receive, OnlySent, NetSent
  <2>2. \A r \in Conns : Frames(r)' \subseteq Frames(r) \cup {i}
    BY <1>0, <1>4, DispatchStep DEF Receive
  <2>3. QED
    BY <2>1, <2>2, NetSentBy
<1>5. ASSUME NEW c \in Callers, NEW i \in Ids, FlushPush(c, i) \/ SweepPush(c, i) PROVE NetSent'
  <2> DEFINE n == task[c].node
  <2>1. n \in Nodes /\ task[c] \in TaskType
    BY <1>5, TaskOf DEF FlushPush, SweepPush, Doing, At, Fits, Reading
  <2>2. PICK rs, stalled : rs \in SUBSET Conns /\ Push(n, rs, i, stalled)
    <3>1. CASE FlushPush(c, i)
      <4>1. {task[c].conn} \in SUBSET Conns
        BY <1>0, <2>1, <3>1 DEF FlushPush
      <4>2. QED
        BY <3>1, <4>1 DEF FlushPush
    <3>2. CASE SweepPush(c, i)
      <4> DEFINE rs == IF c \in orphan THEN {} ELSE reg[n]
      <4>1. rs \in SUBSET Conns
        BY <1>0, <2>1
      <4>2. PICK stalled \in SUBSET Backlogged(rs) : Push(n, rs, i, stalled)
        BY <3>2 DEF SweepPush
      <4>3. QED
        BY <4>1, <4>2
    <3>3. QED
      BY <1>5, <3>1, <3>2
  <2>3. \A r \in Conns : Frames(r)' \subseteq Frames(r) \cup {i}
    BY <2>2, PushFrames
  <2>4. Sent(i) /\ bus' \subseteq bus
    BY <1>5 DEF FlushPush, SweepPush, Oldest, Due, OnlySent, CallSent
  <2>5. QED
    BY <2>3, <2>4, NetSentBy
<1>6. ASSUME NEW r \in Conns, NEW n \in Nodes, Close(n, r) PROVE NetSent'
  BY <1>2, <1>6 DEF Close, Unregister, Push
<1>7. ASSUME NEW r \in Conns, NEW n \in Nodes, Connect(r, n) PROVE NetSent'
  <2>1. wire' = wire \/ \E old \in Conns : wire' = [wire EXCEPT ![old] = <<>>]
    BY <1>0, <1>7 DEF Connect, First
  <2>2. QED
    BY <1>0, <1>2, <1>7, <2>1 DEF Connect
<1>8. ASSUME NEW n \in Nodes, Crash(n) PROVE NetSent'
  BY <1>2, <1>8 DEF Crash
<1>9. CASE Handle
  <2> DEFINE w == wire[tab.conn]
             v == Tail(w)
  <2>1. tab.conn \in Conns /\ w \in Seq(Ids) /\ w # <<>>
    <3>1. tab.conn \in Conns
      BY <1>9 DEF Handle, Kept, TabType
    <3>2. QED
      BY <1>0, <1>9, <3>1 DEF Handle
  <2>2. /\ Len(v) = Len(w) - 1 /\ \A k \in 1 .. Len(v) : v[k] = w[k + 1]
        /\ DOMAIN v = 1 .. Len(v) /\ DOMAIN w = 1 .. Len(w) /\ Len(w) \in Nat
    <3> HIDE DEF w
    <3>1. QED
      BY <2>1, HeadTailProperties
  <2>3. wire' = [wire EXCEPT ![tab.conn] = v] /\ bus' = bus
    BY <1>9 DEF Handle
  <2> HIDE DEF v
  <2>4. ASSUME NEW r \in Conns PROVE Frames(r)' \subseteq Frames(r)
    <3>1. CASE r = tab.conn
      <4>1. wire'[r] = v /\ wire[r] = w
        BY <1>0, <2>3, <3>1
      <4> HIDE DEF w
      <4>2. {v[k] : k \in DOMAIN v} \subseteq {w[k] : k \in DOMAIN w}
        BY <2>2
      <4>3. QED
        BY <4>1, <4>2 DEF Frames
    <3>2. CASE r # tab.conn
      <4>1. wire'[r] = wire[r]
        BY <1>0, <2>3, <3>2
      <4>2. QED
        BY <4>1 DEF Frames
    <3>3. QED
      BY <3>1, <3>2
  <2>5. bus' \subseteq bus
    BY <2>3
  <2>6. QED
    BY <1>1, <2>4, <2>5
<1>10. ASSUME NEW c \in Callers,
             \/ DeliverStore(c) \/ DeliverRejected(c) \/ Finalize(c) \/ Collected(c) \/ Record(c)
             \/ CountFound(c) \/ CountEnd(c) \/ FlushEnd(c) \/ SweepEnd(c) \/ AckStep(c)
             \/ AckReply(c) \/ PostAcks(c) \/ Timers(c)
      PROVE  NetSent'
  <2>1. wire' = wire /\ bus' = bus
    BY <1>10 DEF DeliverStore, DeliverRejected, Finalize, Collected, Record, CountFound, CountEnd,
       FlushEnd, SweepEnd, AckStep, AckReply, PostAcks, Timers, CountBegin, FlushBegin, SweepBegin,
       gateway, network
  <2>2. QED
    BY <1>2, <2>1
<1>11. ASSUME \/ \E c \in Callers, n \in Nodes, i \in Ids : Deliver(c, n, i)
              \/ \E c \in Callers, lost \in BOOLEAN : AckFails(c, lost)
              \/ \E n \in Nodes, i \in Ids : Lose(n, i)
              \/ \E n \in Nodes : SweepNobody(n)
              \/ Disconnected \/ \E reload \in BOOLEAN : Leave(reload)
       PROVE  NetSent'
  <2>1. wire' = wire /\ bus' \subseteq bus
    BY <1>11 DEF Deliver, AckFails, Lose, SweepNobody, Disconnected, Leave, gateway, network
  <2>2. QED
    BY <1>2, <2>1
<1>12. QED
  BY <1>3, <1>4, <1>5, <1>6, <1>7, <1>8, <1>9, <1>10, <1>11 DEF AllNext, Work

LEMMA AcksHandledKept ==
    ASSUME Inv, OnlySent, AllNext PROVE AcksHandled'
<1>0. /\ tab \in TabType /\ task \in [Callers -> TaskType] /\ handled \subseteq handled'
      /\ tab.acks \subseteq handled /\ \A c \in Callers : task[c].ids \subseteq handled
  BY HandledStep DEF Inv, Tidy, Kept, OnlySent, AcksHandled
<1>1. ASSUME tab'.acks \subseteq handled', \A c \in Callers : task'[c].ids \subseteq handled'
      PROVE  AcksHandled'
  BY <1>1 DEF AcksHandled
<1>2. ASSUME NEW c \in Callers, NEW t, NewTask(c, t), t.ids \subseteq handled',
             tab'.acks \subseteq handled'
      PROVE  AcksHandled'
  BY <1>0, <1>1, <1>2 DEF NewTask
<1>3. NoTask.ids = {} /\ Unheard.ids = {}
  BY DEF NoTask, Unheard
<1>4. ASSUME NEW c \in Callers,
             \/ DeliverStore(c) \/ Finalize(c) \/ Record(c) \/ CountFound(c) \/ AckStep(c)
             \/ \E i \in Ids : FlushPush(c, i) \/ SweepPush(c, i)
      PROVE  AcksHandled'
  <2>1. task' = task /\ tab' = tab
    BY <1>4 DEF DeliverStore, Finalize, Record, CountFound, AckStep, FlushPush, SweepPush, client
  <2>2. QED
    BY <1>0, <1>1, <2>1
<1>5. ASSUME NEW c \in Callers,
             DeliverRejected(c) \/ Broadcast(c) \/ CountEnd(c) \/ FlushEnd(c) \/ SweepEnd(c)
      PROVE  AcksHandled'
  <2>1. NewTask(c, NoTask) /\ tab' = tab
    BY <1>5 DEF DeliverRejected, Broadcast, CountEnd, FlushEnd, SweepEnd, EndTask, client
  <2>2. QED
    BY <1>0, <1>2, <1>3, <2>1
<1>6. ASSUME NEW c \in Callers, Collected(c) PROVE AcksHandled'
  <2> DEFINE t == [task[c] EXCEPT !.some = Due(c) # {}]
  <2>1. NewTask(c, t) /\ tab' = tab
    BY <1>6 DEF Collected, client
  <2>2. t.ids = task[c].ids
    BY <1>0 DEF TaskType
  <2> HIDE DEF t
  <2>3. QED
    BY <1>0, <1>2, <2>1, <2>2
<1>7. ASSUME NEW c \in Callers, NEW n \in Nodes, NEW i \in Ids, Deliver(c, n, i)
      PROVE  AcksHandled'
  <2> DEFINE t == [NoTask EXCEPT !.kind = "deliver", !.node = n]
  <2>1. NewTask(c, t) /\ tab' = tab
    BY <1>7 DEF Deliver, client
  <2>2. t.ids = {}
    BY DEF NoTask
  <2> HIDE DEF t
  <2>3. QED
    BY <1>0, <1>2, <2>1, <2>2
<1>8. ASSUME NEW c \in Callers, Timers(c) PROVE AcksHandled'
  <2>1. ASSUME NEW n \in Nodes, NEW i \in Ids, CountBegin(c, n, i) PROVE AcksHandled'
    <3> DEFINE t == [NoTask EXCEPT !.kind = "count", !.node = n, !.id = i]
    <3>1. NewTask(c, t) /\ tab' = tab
      BY <2>1 DEF CountBegin, client
    <3>2. t.ids = {}
      BY DEF NoTask
    <3> HIDE DEF t
    <3>3. QED
      BY <1>0, <1>2, <3>1, <3>2
  <2>2. ASSUME NEW r \in Conns, FlushBegin(c, r) PROVE AcksHandled'
    <3> DEFINE t == [NoTask EXCEPT !.kind = "flush", !.node = NodeOf(r), !.conn = r]
    <3>1. NewTask(c, t) /\ tab' = tab
      BY <2>2 DEF FlushBegin, client
    <3>2. t.ids = {}
      BY DEF NoTask
    <3> HIDE DEF t
    <3>3. QED
      BY <1>0, <1>2, <3>1, <3>2
  <2>3. ASSUME NEW n \in Nodes, SweepBegin(c, n) PROVE AcksHandled'
    <3> DEFINE t == [NoTask EXCEPT !.kind = "sweep", !.node = n]
    <3>1. NewTask(c, t) /\ tab' = tab
      BY <2>3 DEF SweepBegin, client
    <3>2. t.ids = {}
      BY DEF NoTask
    <3> HIDE DEF t
    <3>3. QED
      BY <1>0, <1>2, <3>1, <3>2
  <2>4. QED
    BY <1>8, <2>1, <2>2, <2>3 DEF Timers
<1>9. ASSUME NEW c \in Callers, PostAcks(c) PROVE AcksHandled'
  <2> DEFINE t == [NoTask EXCEPT !.kind = "ack", !.ids = tab.acks]
  <2>1. NewTask(c, t) /\ tab' = [tab EXCEPT !.acks = {}]
    BY <1>9 DEF PostAcks
  <2>2. t.ids = tab.acks
    BY DEF NoTask
  <2>3. tab'.acks = {}
    BY <1>0, <2>1 DEF TabType
  <2> HIDE DEF t
  <2>4. QED
    BY <1>0, <1>2, <2>1, <2>2, <2>3
<1>10. ASSUME NEW c \in Callers, AckReply(c) PROVE AcksHandled'
  <2>1. NewTask(c, NoTask) /\ tab' \in {tab, [tab EXCEPT !.failures = 0]}
    BY <1>10 DEF AckReply, EndTask
  <2>2. tab'.acks = tab.acks
    BY <1>0, <2>1 DEF TabType
  <2>3. QED
    BY <1>0, <1>2, <1>3, <2>1, <2>2
<1>11. ASSUME NEW c \in Callers, NEW lost \in BOOLEAN, AckFails(c, lost) PROVE AcksHandled'
  <2>1. NewTask(c, NoTask) \/ NewTask(c, Unheard)
    BY <1>11 DEF AckFails, EndTask
  <2> DEFINE f == IF tab.failures > MaxAckFailures THEN tab.failures ELSE tab.failures + 1
             acks == IF f <= MaxAckFailures THEN tab.acks \cup task[c].ids ELSE tab.acks
             g == IF acks = {} THEN 0 ELSE f
  <2>2. acks \subseteq tab.acks \cup task[c].ids /\ tab' = [tab EXCEPT !.acks = acks, !.failures = g]
    BY <1>11 DEF AckFails, Requeued
  <2> HIDE DEF acks, g
  <2>3. tab'.acks = acks
    BY <1>0, <2>2 DEF TabType
  <2>4. QED
    BY <1>0, <1>2, <1>3, <2>1, <2>2, <2>3
<1>12. ASSUME \/ \E n \in Nodes, i \in Ids : Receive(n, i) \/ Lose(n, i)
              \/ \E r \in Conns, n \in Nodes : Close(n, r)
              \/ \E n \in Nodes : SweepNobody(n)
       PROVE  AcksHandled'
  <2>1. task' = task /\ tab' = tab
    BY <1>12 DEF Receive, Lose, Close, SweepNobody, client
  <2>2. QED
    BY <1>0, <1>1, <2>1
<1>13. ASSUME NEW r \in Conns, NEW n \in Nodes, Connect(r, n) PROVE AcksHandled'
  <2>1. task' = task /\ tab' = [tab EXCEPT !.conn = r, !.used = Append(@, r)]
    BY <1>13 DEF Connect
  <2>2. tab'.acks = tab.acks
    BY <1>0, <2>1 DEF TabType
  <2>3. QED
    BY <1>0, <1>1, <2>1, <2>2
<1>14. ASSUME NEW n \in Nodes, Crash(n) PROVE AcksHandled'
  <2>1. tab' = tab /\ \A c \in Callers : task'[c] \in {NoTask, task[c]}
    BY <1>14 DEF Crash, client
  <2>2. QED
    BY <1>0, <1>1, <1>3, <2>1
<1>15. CASE Disconnected
  <2>1. task' = task /\ tab' = [tab EXCEPT !.conn = None]
    BY <1>15 DEF Disconnected
  <2>2. tab'.acks = tab.acks
    BY <1>0, <2>1 DEF TabType
  <2>3. QED
    BY <1>0, <1>1, <2>1, <2>2
<1>16. CASE Handle
  <2> DEFINE i == Head(wire[tab.conn])
  <2>1. task' = task /\ handled' = handled \cup {i} /\ tab' = [tab EXCEPT !.acks = @ \cup {i}]
    BY <1>16 DEF Handle
  <2> HIDE DEF i
  <2>2. tab'.acks = tab.acks \cup {i}
    BY <1>0, <2>1 DEF TabType
  <2>3. QED
    BY <1>0, <1>1, <2>1, <2>2
<1>17. ASSUME NEW reload \in BOOLEAN, Leave(reload) PROVE AcksHandled'
  <2>1. /\ \A c \in Callers : task'[c] \in {Unheard, task[c]}
        /\ tab' \in {[conn |-> None, used |-> tab.used, acks |-> {}, failures |-> 0],
                     [tab EXCEPT !.conn = None]}
    BY <1>17 DEF Leave
  <2>2. tab'.acks \subseteq tab.acks
    BY <1>0, <2>1 DEF TabType
  <2>3. QED
    BY <1>0, <1>1, <1>3, <2>1, <2>2
<1>18. QED
  BY <1>4, <1>5, <1>6, <1>7, <1>8, <1>9, <1>10, <1>11, <1>12, <1>13, <1>14, <1>15, <1>16, <1>17
     DEF AllNext, Work

LEMMA OnlySentKept ==
    ASSUME Inv, Inv', OnlySent, MaxEmits = 1, [AllNext]_allVars PROVE OnlySent'
<1>1. CASE AllNext
  <2>1. CASE \E c \in Callers : Uses(c)
    <3>1. PICK c \in Callers : Uses(c)
      BY <2>1
    <3>2. now' = 0 /\ \A i \in Ids : emits[i] \in {0, 1} /\ emits'[i] \in {emits[i], 1}
      BY <3>1, UsesStep DEF Inv, StoreInv, TypeOK, OnlySent
    <3>3. ASSUME NEW i \in Ids, emits'[i] = 0 PROVE Fresh(i)'
      <4>1. emits[i] = 0 /\ hash'[i] = None
        BY <3>2, <3>3 DEF Inv, StoreInv, Token, TokenAt
      <4>2. hash[i] = None /\ Fresh(i)
        BY <4>1 DEF Inv, StoreInv, Token, TokenAt, OnlySent
      <4>3. QED
        BY <1>1, <4>1, <4>2, SentKept
    <3>4. QED
      BY <1>1, <3>2, <3>3, CallSentKept, AcksHandledKept, NetSentKept DEF OnlySent
  <2>2. CASE UNCHANGED vars \/ Forgets
    <3>1. now' = now /\ emits' = emits /\ hash' = hash
      BY <2>2 DEF vars, Forgets
    <3>2. ASSUME NEW i \in Ids, emits[i] = 0 PROVE Fresh(i)'
      <4>1. hash[i] = None /\ Fresh(i)
        BY <3>2 DEF Inv, StoreInv, Token, TokenAt, OnlySent
      <4>2. QED
        BY <1>1, <3>1, <4>1, SentKept
    <3>3. QED
      BY <1>1, <3>1, <3>2, CallSentKept, AcksHandledKept, NetSentKept DEF OnlySent
  <2>3. QED
    BY <1>1, <2>1, <2>2, StoreUses DEF Inv, StoreInv
<1>2. CASE UNCHANGED allVars
  BY <1>2 DEF allVars, vars, gateway, network, client, OnlySent, CallSent, AcksHandled, NetSent,
     Fresh, Sent, Pending, Frames
<1>3. QED
  BY <1>1, <1>2

LEMMA OnlySentInit == AllInit => OnlySent
<1> SUFFICES ASSUME AllInit PROVE OnlySent
  OBVIOUS
<1>1. now = 0 /\ \A i \in Ids : emits[i] <= 1 /\ (emits[i] = 0 => Fresh(i))
  BY DEF AllInit, Init, Fresh
<1>2. \A c \in Callers : CallSent(c)
  BY DEF AllInit, Init, CallSent, Idle, Empty, Acking
<1>3. AcksHandled
  BY DEF AllInit, AcksHandled, NoTask
<1>4. \A r \in Conns : Frames(r) = {}
  <2>1. \A r \in Conns : wire[r] = <<>>
    BY DEF AllInit
  <2>2. QED
    BY <2>1 DEF Frames
<1>5. NetSent
  BY <1>4 DEF AllInit, NetSent
<1>6. QED
  BY <1>1, <1>2, <1>3, <1>5 DEF OnlySent

\* Every step is one of the abstract specification's or changes nothing it
\* knows of: the store step of enqueue is Store, a recorded attempt Try, a
\* delete that was won Delete, and what the tab handles Handle.
LEMMA StepMapped ==
    ASSUME Inv, OnlySent, MaxEmits = 1, [AllNext]_allVars
    PROVE  [Promise!Next]_(Promise!vars)
<1> USE DEF Promise!vars
<1>0. /\ TypeOK /\ hash \in [Ids -> Entry \cup {None}] /\ recorded \in [Ids -> Nat]
      /\ MaxAttempts \in Nat \ {0}
  BY ConfigAssumption DEF Inv, StoreInv, TypeOK
<1>1. CASE UNCHANGED vars /\ handled' = handled
  BY <1>1 DEF vars, Pending
<1>2. CASE Forgets /\ handled' = handled
  BY <1>2 DEF Forgets, Pending
<1>3. ASSUME NEW i \in Ids, Sent(i), handled' = handled \cup {i}, UNCHANGED vars
      PROVE  [Promise!Next]_(Promise!vars)
  <2>1. UNCHANGED <<Pending, recorded>>
    BY <1>3 DEF vars, Pending
  <2>2. CASE i \in handled
    BY <1>3, <2>1, <2>2
  <2>3. CASE i \notin handled
    <3>1. Promise!Handle(i)
      BY <1>3, <2>1, <2>3 DEF Promise!Handle, Promise!UsedUp, Sent
    <3>2. QED
      BY <3>1 DEF Promise!Next
  <2>4. QED
    BY <2>2, <2>3
<1>4. ASSUME NEW c \in Callers, Uses(c), handled' = handled, AllNext
      PROVE  [Promise!Next]_(Promise!vars)
  <2>1. CASE EnqueueStore(c)
    <3> DEFINE i == call[c].id
               e == [data |-> call[c].data, createdAt |-> call[c].at,
                     attempts |-> 0, nextAttemptAt |-> call[c].at]
    <3>1. e \in Entry
      BY <1>0 DEF Entry, TypeOK, CallType
    <3>2. hash' = [hash EXCEPT ![i] = e] /\ recorded' = [recorded EXCEPT ![i] = 0]
      BY <2>1 DEF EnqueueStore
    <3>3. i \in Ids /\ call[c].pc = "store" /\ Fresh(i)
      BY <1>0, <2>1, StoreStep DEF OnlySent, CallSent
    <3>4. hash[i] = None
      BY <3>3 DEF Inv, StoreInv, Token, TokenAt, Settling, OnlySent
    <3> HIDE DEF i, e
    <3>5. Pending' = Pending \cup {i} /\ recorded' = recorded
      BY <1>0, <3>1, <3>2, <3>3, NoneAssumption DEF Pending, Fresh
    <3>6. Promise!Store(i)
      BY <1>4, <3>3, <3>4, <3>5 DEF Promise!Store, Fresh, Pending
    <3>7. QED
      BY <3>3, <3>6 DEF Promise!Next
  <2>2. CASE AttemptSet(c)
    <3>1. PICK i \in Ids : i = call[c].id
      BY <1>0, <2>2, AttemptStep
    <3>2. CASE hash[i] = None
      <4>1. UNCHANGED <<hash, recorded>>
        BY <1>0, <2>2, <3>1, <3>2, AttemptStep
      <4>2. QED
        BY <1>4, <4>1 DEF Pending
    <3>3. CASE hash[i] # None
      <4>1. PICK e \in Entry : /\ hash' = [hash EXCEPT ![i] = e]
                               /\ recorded' = [recorded EXCEPT ![i] = @ + 1]
        BY <1>0, <2>2, <3>1, <3>3, AttemptStep
      <4>2. Pending' = Pending
        BY <1>0, <3>3, <4>1, NoneAssumption DEF Pending
      <4>3. Promise!Try(i)
        BY <1>4, <3>3, <4>1, <4>2 DEF Promise!Try, Pending
      <4>4. QED
        BY <4>3 DEF Promise!Next
    <3>4. QED
      BY <3>2, <3>3
  <2>3. ASSUME NEW i \in Ids, FinalizeDel(c, i) \/ AckDel(c, i)
        PROVE  [Promise!Next]_(Promise!vars)
    <3>1. hash' = [hash EXCEPT ![i] = None] /\ recorded' = recorded
      BY <1>0, <2>3, DelStep
    <3>2. CASE hash[i] = None
      <4>1. hash' = hash
        BY <1>0, <3>1, <3>2
      <4>2. QED
        BY <1>4, <3>1, <4>1 DEF Pending
    <3>3. CASE hash[i] # None
      <4>1. Pending' = Pending \ {i}
        BY <1>0, <3>1 DEF Pending
      <4>2. i \in handled \/ recorded[i] >= MaxAttempts
        <5>1. Sent(i)'
          BY <1>4, <3>3, SentKept DEF Sent, Pending
        <5>2. QED
          BY <1>4, <3>1, <4>1, <5>1 DEF Sent
      <4>3. Promise!Delete(i)
        BY <1>4, <3>1, <3>3, <4>1, <4>2 DEF Promise!Delete, Promise!UsedUp, Pending
      <4>4. QED
        BY <4>3 DEF Promise!Next
    <3>4. QED
      BY <3>2, <3>3
  <2>4. ASSUME \/ \E i \in Ids : EnqueueLen(c, i) \/ AttemptBegin(c, i)
               \/ \E all \in BOOLEAN : CollectRead(c, all)
               \/ AckBegin(c, tab.acks)
               \/ EnqueueReject(c) \/ EnqueueStatus(c) \/ FinalizeStatus(c) \/ CollectReturn(c)
               \/ AckStatus(c) \/ Done(c)
        PROVE  [Promise!Next]_(Promise!vars)
    <3>1. UNCHANGED <<hash, recorded>>
      BY <2>4 DEF EnqueueLen, AttemptBegin, CollectRead, AckBegin, EnqueueReject, EnqueueStatus,
         FinalizeStatus, CollectReturn, AckStatus, Done
    <3>2. QED
      BY <1>4, <3>1 DEF Pending
  <2>5. QED
    BY <1>4, <2>1, <2>2, <2>3, <2>4 DEF Uses, Enqueue, Collect, Ack
<1>5. CASE AllNext
  <2>1. CASE handled' = handled
    BY <1>0, <1>1, <1>2, <1>4, <1>5, <2>1, StoreUses
  <2>2. CASE handled' # handled
    BY <1>3, <1>5, <2>2, HandledStep DEF Inv, Tidy, OnlySent
  <2>3. QED
    BY <2>1, <2>2
<1>6. CASE UNCHANGED allVars
  BY <1>1, <1>6 DEF allVars, client
<1>7. QED
  BY <1>5, <1>6

\* Deliver-then-delete: with any number of nodes, calls, connections and
\* faults, what gateway, store and tab do together is what the header of
\* pending-delivery.service.ts promises: an event is stored once, tried,
\* handled, and deleted only when it was handled or its tries are used up.
\* Of events emitted once.
THEOREM ImplementsDeliverThenDelete ==
    ASSUME MaxEmits = 1 PROVE AllSpec => DeliversThenDeletes
<1>1. AllInit => Promise!Init
  BY DEF AllInit, Init, Empty, Pending, Promise!Init
<1>2. Inv /\ OnlySent /\ [AllNext]_allVars => [Promise!Next]_(Promise!vars)
  BY StepMapped
<1>3. Inv /\ Inv' /\ OnlySent /\ [AllNext]_allVars => OnlySent'
  BY OnlySentKept
<1>4. QED
  BY <1>1, <1>2, <1>3, InvInit, InvKept, OnlySentInit, PTL
     DEF AllSpec, DeliversThenDeletes, Promise!Spec
=============================================================================
