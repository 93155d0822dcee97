-------------------------- MODULE PendingDelivery --------------------------
(***************************************************************************)
(* The deliver-then-delete store of one recipient                          *)
(* (libs/api/realtime/src/lib/pending-delivery.service.ts).                *)
(*                                                                         *)
(* Every API node runs the same service against one shared hash per user,  *)
(* so its methods interleave with each other at every `await`: a round     *)
(* trip to the cache is one action here, and what a method learnt before   *)
(* an await (a size, a snapshot of the hash) is kept in its call record    *)
(* and may be stale when it is used.                                       *)
(*                                                                         *)
(* The service keeps nothing across users, so one recipient is modelled.   *)
(* Payloads are reduced to `data`, the number of the emission that made    *)
(* them; logging and the TTL of the status records are left out.           *)
(***************************************************************************)
EXTENDS Integers, FiniteSets

CONSTANTS
    Ids,          \* delivery ids addressed to the recipient
    Callers,      \* method calls that may be in flight at once, on any node
    None,         \* an absent hash field
    MaxPending,   \* config.maxPendingPerUser
    MaxAttempts,  \* config.maxAttempts
    Ttl,          \* config.ttlMs
    StatusTtl,    \* config.statusTtlMs
    RetryBase,    \* config.retryBaseMs
    RetryMax,     \* config.retryMaxMs
    MaxEmits,     \* bound: how often one id is emitted (1 = never re-emitted)
    MaxNow        \* bound: the clock stops here

Entry == [data: Nat, createdAt: Nat, attempts: Nat, nextAttemptAt: Nat]

ASSUME ConfigAssumption ==
    /\ MaxPending \in Nat \ {0} /\ MaxAttempts \in Nat \ {0}
    /\ Ttl \in Nat \ {0} /\ StatusTtl \in Nat \ {0}
    /\ RetryBase \in Nat /\ RetryMax \in Nat
    /\ MaxEmits \in Nat /\ MaxNow \in Nat
ASSUME NoneAssumption == None \notin Entry /\ None \notin Ids
ASSUME CallersAssumption == IsFiniteSet(Callers) /\ Callers # {}
ASSUME IdsAssumption == IsFiniteSet(Ids)

VARIABLES
    hash,      \* the hash rt:pending:<user>: id -> entry, or None
    keyTtl,    \* when the cache drops the whole hash (PEXPIRE)
    status,    \* rt:delivery:<id>, the status record
    call,      \* the state of each method call in flight
    emits,     \* how often each id was emitted; numbers the payloads
    recorded,  \* history: attempts recorded since the id was last stored
    now        \* Date.now()

vars == <<hash, keyTtl, status, call, emits, recorded, now>>

Terminal == {"delivered", "expired", "failed"}

----------------------------------------------------------------------------
(* Helpers                                                                 *)

Pending == {i \in Ids : hash[i] # None}

\* The size check of enqueue.
FullOffByOne == Cardinality(Pending) > MaxPending
Full == Cardinality(Pending) >= MaxPending

\* The hash has the field: what decides a hashDel ("won") and an
\* onlyIfExists hashSet.
StoredUnchecked(i) == TRUE
Stored(i) == hash[i] # None

Expired(e, t) == t >= e.createdAt + Ttl
ExhaustedLate(e) == e.attempts > MaxAttempts
ExhaustedEarly(e) == e.attempts >= MaxAttempts - 1
Exhausted(e) == e.attempts >= MaxAttempts
Live(e, t) == ~Expired(e, t) /\ ~Exhausted(e)

\* What retryDelayMs may return: bounded exponential backoff, +-20% jitter.
RetryDelays(attempts) ==
    LET raw == RetryBase * 2 ^ (IF attempts > 1 THEN attempts - 1 ELSE 0)
        exp == IF raw < RetryMax THEN raw ELSE RetryMax
    IN  {d \in 0 .. (2 * RetryMax) : 5 * d >= 4 * exp /\ 5 * d <= 6 * exp}

\* When an entry is due again after an attempt made at t.
ScheduleBackwards(t, d) == t - d
Schedule(t, d) == t + d

\* The entries of a finished collectDue that its caller has not used yet.
Due(c) == {i \in Ids : /\ call[c].snap[i] # None
                       /\ Live(call[c].snap[i], call[c].at)
                       /\ \/ call[c].all
                          \/ call[c].snap[i].nextAttemptAt <= call[c].at}

Remaining(c) == {i \in Ids : /\ call[c].snap[i] # None
                             /\ Live(call[c].snap[i], call[c].at)}

Empty == [i \in Ids |-> None]

Idle == [pc |-> "idle", id |-> None, data |-> 0, at |-> 0,
         all |-> FALSE, snap |-> Empty, todo |-> {}]

Become(c, r) == call' = [call EXCEPT ![c] = r]
At(c, pc) == call[c].pc = pc

\* writeStatus
WriteStatus(i, s) == status' = [status EXCEPT ![i] = s]

----------------------------------------------------------------------------
(* enqueue                                                                 *)

\* The size check. The caller's `now` is taken with it.
EnqueueLen(c, i) ==
    /\ At(c, "idle")
    /\ emits[i] < MaxEmits
    /\ emits' = [emits EXCEPT ![i] = @ + 1]
    /\ Become(c, [Idle EXCEPT
                    !.pc = IF Full
                           THEN "reject" ELSE "store",
                    !.id = i, !.data = emits[i] + 1, !.at = now])
    /\ UNCHANGED <<hash, keyTtl, status, recorded, now>>

\* Queue full: nothing is stored, the status record says why.
EnqueueReject(c) ==
    /\ At(c, "reject")
    /\ WriteStatus(call[c].id, "failed")
    /\ Become(c, Idle)
    /\ UNCHANGED <<hash, keyTtl, emits, recorded, now>>

EnqueueStore(c) ==
    /\ At(c, "store")
    /\ hash' = [hash EXCEPT ![call[c].id] =
                  [data |-> call[c].data, createdAt |-> call[c].at,
                   attempts |-> 0, nextAttemptAt |-> call[c].at]]
    /\ keyTtl' = now + Ttl + StatusTtl
    /\ recorded' = [recorded EXCEPT ![call[c].id] = 0]
    /\ Become(c, [call[c] EXCEPT !.pc = "announce", !.at = 0])
    /\ UNCHANGED <<status, emits, now>>

EnqueueStatus(c) ==
    /\ At(c, "announce")
    /\ WriteStatus(call[c].id, "pending")
    /\ Become(c, [call[c] EXCEPT !.pc = "stored"])
    /\ UNCHANGED <<hash, keyTtl, emits, recorded, now>>

----------------------------------------------------------------------------
(* collectDue, with finalize                                               *)

\* hashGetAll: the snapshot everything below works from.
CollectRead(c, all) ==
    /\ At(c, "idle")
    /\ Become(c, [Idle EXCEPT
                    !.pc = "finalize", !.at = now, !.all = all, !.snap = hash,
                    !.todo = {i \in Pending : ~Live(hash[i], now)}])
    /\ UNCHANGED <<hash, keyTtl, status, emits, recorded, now>>

\* finalize's hashDel. Only the call that removed the field goes on to
\* write a status; a field somebody else removed is skipped.
FinalizeDel(c, i) ==
    /\ At(c, "finalize")
    /\ i \in call[c].todo
    /\ hash' = [hash EXCEPT ![i] = None]
    /\ Become(c, [call[c] EXCEPT
                    !.pc = IF Stored(i) THEN "settle" ELSE "finalize",
                    !.id = IF Stored(i) THEN i ELSE None, !.todo = @ \ {i}])
    /\ UNCHANGED <<keyTtl, status, emits, recorded, now>>

FinalizeStatus(c) ==
    /\ At(c, "settle")
    /\ WriteStatus(call[c].id,
                   IF Expired(call[c].snap[call[c].id], call[c].at)
                   THEN "expired" ELSE "failed")
    /\ Become(c, [call[c] EXCEPT !.pc = "finalize", !.id = None])
    /\ UNCHANGED <<hash, keyTtl, emits, recorded, now>>

\* The loop is over: the caller holds the due entries.
CollectReturn(c) ==
    /\ At(c, "finalize")
    /\ call[c].todo = {}
    /\ Become(c, [call[c] EXCEPT !.pc = "collected",
                                 !.snap = [i \in Ids |-> IF i \in Due(c)
                                                         THEN @[i] ELSE None]])
    /\ UNCHANGED <<hash, keyTtl, status, emits, recorded, now>>

----------------------------------------------------------------------------
(* recordAttempt                                                           *)

\* The caller pushed the due entry i and calls recordAttempt with it.
AttemptBegin(c, i) ==
    /\ At(c, "collected")
    /\ i \in Due(c)
    /\ Become(c, [call[c] EXCEPT !.pc = "attempt", !.id = i])
    /\ UNCHANGED <<hash, keyTtl, status, emits, recorded, now>>

Attempted(e, next) ==
    [e EXCEPT !.attempts = @ + 1, !.nextAttemptAt = next]

\* hashSet with onlyIfExists: the caller's copy of the entry, one attempt
\* on, replaces whatever is stored, unless nothing is.
AttemptSet(c) ==
    LET i == call[c].id
        e == call[c].snap[i]
        \* the retry sweep passes the `now` it collected with
        t == IF call[c].all THEN now ELSE call[c].at
    IN  /\ At(c, "attempt")
        /\ IF Stored(i)
           THEN /\ \E d \in RetryDelays(e.attempts + 1) :
                     hash' = [hash EXCEPT ![i] = Attempted(e, Schedule(t, d))]
                /\ recorded' = [recorded EXCEPT ![i] = @ + 1]
           ELSE UNCHANGED <<hash, recorded>>
        /\ Become(c, [call[c] EXCEPT !.pc = "collected", !.id = None,
                                     !.snap = [@ EXCEPT ![i] = None]])
        /\ UNCHANGED <<keyTtl, status, emits, now>>

----------------------------------------------------------------------------
(* ack                                                                     *)

AckBegin(c, ids) ==
    /\ At(c, "idle")
    /\ ids # {}
    /\ Become(c, [Idle EXCEPT !.pc = "ack", !.todo = ids])
    /\ UNCHANGED <<hash, keyTtl, status, emits, recorded, now>>

AckDel(c, i) ==
    /\ At(c, "ack")
    /\ i \in call[c].todo
    /\ hash' = [hash EXCEPT ![i] = None]
    /\ Become(c, [call[c] EXCEPT
                    !.pc = IF Stored(i) THEN "delivered" ELSE "ack",
                    !.id = IF Stored(i) THEN i ELSE None, !.todo = @ \ {i}])
    /\ UNCHANGED <<keyTtl, status, emits, recorded, now>>

AckStatus(c) ==
    /\ At(c, "delivered")
    /\ WriteStatus(call[c].id, "delivered")
    /\ Become(c, [call[c] EXCEPT !.pc = "ack", !.id = None])
    /\ UNCHANGED <<hash, keyTtl, emits, recorded, now>>

----------------------------------------------------------------------------
(* A method returned to its caller, which does nothing more with it: the   *)
(* due entries it did not push are simply forgotten.                       *)
Done(c) ==
    /\ \/ At(c, "stored") \/ At(c, "collected")
       \/ At(c, "ack") /\ call[c].todo = {}
    /\ Become(c, Idle)
    /\ UNCHANGED <<hash, keyTtl, status, emits, recorded, now>>

(* The environment: time, and the cache's own expiry of the hash.          *)
Tick ==
    /\ now < MaxNow
    /\ now' = now + 1
    /\ UNCHANGED <<hash, keyTtl, status, call, emits, recorded>>

KeyExpire ==
    /\ Pending # {}
    /\ now >= keyTtl
    /\ hash' = Empty
    /\ UNCHANGED <<keyTtl, status, call, emits, recorded, now>>

----------------------------------------------------------------------------
Init ==
    /\ hash = Empty
    /\ keyTtl = 0
    /\ status = [i \in Ids |-> "none"]
    /\ call = [c \in Callers |-> Idle]
    /\ emits = [i \in Ids |-> 0]
    /\ recorded = [i \in Ids |-> 0]
    /\ now = 0

Enqueue(c) == EnqueueReject(c) \/ EnqueueStore(c) \/ EnqueueStatus(c)
Collect(c) ==
    \/ \E i \in Ids : FinalizeDel(c, i) \/ AttemptBegin(c, i)
    \/ FinalizeStatus(c) \/ CollectReturn(c) \/ AttemptSet(c)
Ack(c) == (\E i \in Ids : AckDel(c, i)) \/ AckStatus(c)

Begin(c) ==
    \/ \E i \in Ids : EnqueueLen(c, i)
    \/ \E all \in BOOLEAN : CollectRead(c, all)
    \/ \E ids \in SUBSET Ids : AckBegin(c, ids)

Next ==
    \/ \E c \in Callers :
         Begin(c) \/ Enqueue(c) \/ Collect(c) \/ Ack(c) \/ Done(c)
    \/ Tick
    \/ KeyExpire

Spec == Init /\ [][Next]_vars

----------------------------------------------------------------------------
(* Properties                                                              *)

CallType ==
    [pc: {"idle", "reject", "store", "announce", "stored", "finalize",
          "settle", "collected", "attempt", "ack", "delivered"},
     id: Ids \cup {None}, data: Nat, at: Nat, all: BOOLEAN,
     snap: [Ids -> Entry \cup {None}], todo: SUBSET Ids]

\* A call past the point where it picked an id, or an entry, has one.
WellFormed(r) ==
    /\ r.pc \in {"reject", "store", "announce", "settle", "attempt",
                 "delivered"} => r.id \in Ids
    /\ r.pc \in {"settle", "attempt"} => r.snap[r.id] # None
    /\ r.pc \in {"finalize", "settle"} => \A i \in r.todo : r.snap[i] # None

\* Type invariant: every field of the store, of the status records and of
\* the calls in flight holds a value of its kind.
TypeOK ==
    /\ hash \in [Ids -> Entry \cup {None}]
    /\ keyTtl \in Nat
    /\ status \in [Ids -> Terminal \cup {"none", "pending"}]
    /\ call \in [Callers -> CallType]
    /\ emits \in [Ids -> Nat]
    /\ recorded \in [Ids -> Nat]
    /\ now \in Nat
    /\ \A c \in Callers : WellFormed(call[c])

\* An entry never carries more attempts than the configured maximum: the
\* check is made on a snapshot, the increment on another call's copy, and
\* still no order of the two gets past the bound
\* (collectDue's max_attempts branch, recordAttempt).
AttemptsBounded ==
    \A i \in Ids : hash[i] # None => hash[i].attempts <= MaxAttempts

\* enqueue checks the cap and stores in two round trips, so concurrent
\* calls can overshoot maxPendingPerUser; the overshoot is bounded by the
\* calls that can be between the two at once.
CapOvershootBounded ==
    Cardinality(Pending) <= MaxPending - 1 + Cardinality(Callers)

\* "A late attempt record never brings back an acked entry": a field of the
\* hash comes into being only by the store step of an enqueue of that id,
\* whatever attempts were in flight when it was removed.
NeverResurrected ==
    [][\A i \in Ids : hash[i] = None /\ hash'[i] # None =>
         \E c \in Callers : /\ call[c].pc = "store" /\ call[c].id = i
                            /\ call'[c].pc = "announce"]_vars

\* An entry leaves the store only because its recipient acked it, because
\* its deadline passed, or because MaxAttempts pushes were recorded for it
\* since it was stored; neither a stale snapshot nor the TTL of the whole
\* hash removes it earlier. (As long as the id was not emitted again: a
\* finalizer with a snapshot of the first emission deletes the second.)
LeavesOnlyWhenDone ==
    [][\A i \in Ids : hash[i] # None /\ hash'[i] = None /\ emits[i] = 1 =>
         \/ \E c \in Callers : call[c].pc = "ack" /\ i \in call[c].todo
                                /\ call'[c].pc = "delivered"
         \/ now >= hash[i].createdAt + Ttl
         \/ recorded[i] >= MaxAttempts]_vars

\* A recorded outcome is final: of the acks, expiries and give-ups racing
\* for an entry one wins the delete and only that one writes a status, so a
\* terminal status is changed by nothing but the enqueue of that id.
\* (As long as the id was not emitted again.)
OutcomeFinal ==
    [][\A i \in Ids : status[i] \in Terminal /\ status'[i] # status[i]
                         /\ emits[i] = 1 =>
         \E c \in Callers : call[c].pc = "announce" /\ call[c].id = i]_vars
=============================================================================
