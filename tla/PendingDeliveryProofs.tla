----------------------- MODULE PendingDeliveryProofs -----------------------
(***************************************************************************)
(* What holds of PendingDelivery for every number of ids and calls in      *)
(* flight and every configuration.                                         *)
(***************************************************************************)
EXTENDS PendingDelivery, FiniteSetTheorems, TLAPS

----------------------------------------------------------------------------
(* Lemmas about the operators of the model                                 *)

\* The backoff is a natural number, whatever the attempt count.
LEMMA RetryDelaysNat ==
    ASSUME NEW n \in Nat, NEW d \in RetryDelays(n) PROVE d \in Nat
BY ConfigAssumption DEF RetryDelays

\* Recording an attempt gives an entry with one attempt more and the same
\* payload and creation time.
LEMMA AttemptedEntry ==
    ASSUME NEW e \in Entry, NEW t \in Nat
    PROVE  /\ Attempted(e, t) \in Entry
           /\ Attempted(e, t).attempts = e.attempts + 1
           /\ Attempted(e, t).createdAt = e.createdAt
           /\ Attempted(e, t).data = e.data
<1> DEFINE n == e.attempts + 1
<1>1. n \in Nat
  BY DEF Entry
<1> HIDE DEF n
<1>2. [e EXCEPT !.attempts = n, !.nextAttemptAt = t] \in Entry
  BY <1>1 DEF Entry
<1>3. /\ [e EXCEPT !.attempts = n, !.nextAttemptAt = t].attempts = n
      /\ [e EXCEPT !.attempts = n, !.nextAttemptAt = t].createdAt = e.createdAt
      /\ [e EXCEPT !.attempts = n, !.nextAttemptAt = t].data = e.data
  BY DEF Entry
<1>4. QED
  BY <1>2, <1>3 DEF Attempted, n

\* An idle call, and a step that replaces one call record by another
\* well-formed one, keep the calls well-typed.
LEMMA IdleType == Idle \in CallType /\ WellFormed(Idle)
BY DEF Idle, CallType, Empty, WellFormed

LEMMA BecomeType ==
    ASSUME call \in [Callers -> CallType],
           \A k \in Callers : WellFormed(call[k]),
           NEW c \in Callers, NEW r \in CallType, WellFormed(r), Become(c, r)
    PROVE  /\ call' \in [Callers -> CallType]
           /\ \A k \in Callers : WellFormed(call'[k])
<1>1. \A k \in Callers : call'[k] = IF k = c THEN r ELSE call[k]
  BY DEF Become
<1>2. call' \in [Callers -> CallType]
  BY DEF Become
<1>3. QED
  BY <1>1, <1>2

----------------------------------------------------------------------------
(* Type correctness                                                        *)

\* Every step of the store keeps the types.
LEMMA TypeKept == TypeOK /\ [Next]_vars => TypeOK'
<1> SUFFICES ASSUME TypeOK, [Next]_vars PROVE TypeOK'
  OBVIOUS
<1>1. ASSUME NEW c \in Callers, NEW i \in Ids, EnqueueLen(c, i)
      PROVE TypeOK'
  <2> DEFINE n == emits[i] + 1
             p == IF Full THEN "reject" ELSE "store"
             r == [Idle EXCEPT !.pc = p, !.id = i, !.data = n, !.at = now]
  <2>1. n \in Nat /\ now \in Nat
    BY DEF TypeOK
  <2>2. p \in {"reject", "store"}
    OBVIOUS
  <2> HIDE DEF n, p
  <2>3. r \in CallType /\ WellFormed(r)
    BY <2>1, <2>2 DEF Idle, CallType, Empty, WellFormed
  <2>4. Become(c, r)
    BY <1>1 DEF EnqueueLen, n, p
  <2>5. emits' \in [Ids -> Nat]
    BY <1>1, <2>1 DEF EnqueueLen, TypeOK, n
  <2> HIDE DEF r
  <2>6. QED
    BY <1>1, <2>3, <2>4, <2>5, BecomeType DEF EnqueueLen, TypeOK
<1>2. ASSUME NEW c \in Callers, NEW all \in BOOLEAN, CollectRead(c, all)
      PROVE TypeOK'
  <2> DEFINE todo == {i \in Pending : ~Live(hash[i], now)}
             r == [Idle EXCEPT !.pc = "finalize", !.at = now, !.all = all,
                               !.snap = hash, !.todo = todo]
  <2>1. todo \in SUBSET Ids
    BY DEF Pending
  <2> HIDE DEF todo
  <2>2. r \in CallType /\ WellFormed(r)
    <3>1. \A i \in todo : hash[i] # None
      BY DEF todo, Pending
    <3>2. QED
      BY <2>1, <3>1 DEF TypeOK, Idle, CallType, Empty, WellFormed
  <2>3. Become(c, r)
    BY <1>2 DEF CollectRead, todo
  <2> HIDE DEF r
  <2>4. QED
    BY <1>2, <2>2, <2>3, BecomeType DEF CollectRead, TypeOK
<1>3. ASSUME NEW c \in Callers, NEW ids \in SUBSET Ids, AckBegin(c, ids)
      PROVE TypeOK'
  <2> DEFINE r == [Idle EXCEPT !.pc = "ack", !.todo = ids]
  <2>1. r \in CallType /\ WellFormed(r)
    BY DEF Idle, CallType, Empty, WellFormed
  <2>2. Become(c, r)
    BY <1>3 DEF AckBegin
  <2> HIDE DEF r
  <2>3. QED
    BY <1>3, <2>1, <2>2, BecomeType DEF AckBegin, TypeOK
<1>4. ASSUME NEW c \in Callers, EnqueueReject(c) PROVE TypeOK'
  <2>1. status' \in [Ids -> Terminal \cup {"none", "pending"}]
    BY <1>4 DEF EnqueueReject, WriteStatus, Terminal, TypeOK
  <2>2. QED
    BY <1>4, <2>1, IdleType, BecomeType DEF EnqueueReject, TypeOK
<1>5. ASSUME NEW c \in Callers, EnqueueStore(c) PROVE TypeOK'
  <2> DEFINE r == [call[c] EXCEPT !.pc = "announce", !.at = 0]
             e == [data |-> call[c].data, createdAt |-> call[c].at,
                   attempts |-> 0, nextAttemptAt |-> call[c].at]
  <2>1. call[c] \in CallType /\ WellFormed(call[c]) /\ call[c].pc = "store"
    BY <1>5 DEF EnqueueStore, At, TypeOK
  <2>2. r \in CallType /\ WellFormed(r)
    BY <2>1 DEF CallType, WellFormed
  <2>3. e \in Entry
    BY <2>1 DEF CallType, Entry
  <2>4. Become(c, r) /\ hash' = [hash EXCEPT ![call[c].id] = e]
    BY <1>5 DEF EnqueueStore
  <2> HIDE DEF r, e
  <2>5. hash' \in [Ids -> Entry \cup {None}]
    <3>1. hash \in [Ids -> Entry \cup {None}]
      BY DEF TypeOK
    <3>2. QED
      BY <2>3, <2>4, <3>1
  <2>6. keyTtl' \in Nat /\ recorded' \in [Ids -> Nat]
    <3>1. keyTtl' = now + Ttl + StatusTtl
      BY <1>5 DEF EnqueueStore
    <3>2. keyTtl' \in Nat
      BY <3>1, ConfigAssumption DEF TypeOK
    <3>3. recorded' = [recorded EXCEPT ![call[c].id] = 0]
      BY <1>5 DEF EnqueueStore
    <3>4. recorded' \in [Ids -> Nat]
      BY <3>3 DEF TypeOK
    <3>5. QED
      BY <3>2, <3>4
  <2>7. QED
    BY <1>5, <2>2, <2>4, <2>5, <2>6, BecomeType DEF EnqueueStore, TypeOK
<1>6. ASSUME NEW c \in Callers, EnqueueStatus(c) PROVE TypeOK'
  <2> DEFINE r == [call[c] EXCEPT !.pc = "stored"]
  <2>1. r \in CallType /\ WellFormed(r)
    BY <1>6 DEF TypeOK, CallType, WellFormed
  <2>2. Become(c, r)
    BY <1>6 DEF EnqueueStatus
  <2>3. status' \in [Ids -> Terminal \cup {"none", "pending"}]
    BY <1>6 DEF EnqueueStatus, WriteStatus, TypeOK
  <2> HIDE DEF r
  <2>4. QED
    BY <1>6, <2>1, <2>2, <2>3, BecomeType DEF EnqueueStatus, TypeOK
<1>7. ASSUME NEW c \in Callers, NEW i \in Ids, FinalizeDel(c, i)
      PROVE TypeOK'
  <2> DEFINE won == Stored(i)
             p == IF won THEN "settle" ELSE "finalize"
             k == IF won THEN i ELSE None
             r == [call[c] EXCEPT !.pc = p, !.id = k, !.todo = @ \ {i}]
  <2>1. /\ call[c] \in CallType /\ WellFormed(call[c])
        /\ call[c].pc = "finalize" /\ i \in call[c].todo
    BY <1>7 DEF FinalizeDel, At, TypeOK
  <2>2. /\ p \in {"settle", "finalize"} /\ k \in Ids \cup {None}
        /\ p = "settle" => k = i
    OBVIOUS
  <2>3. Become(c, r) /\ hash' = [hash EXCEPT ![i] = None]
    BY <1>7 DEF FinalizeDel
  <2> HIDE DEF p, k
  <2>4. r \in CallType /\ WellFormed(r)
    BY <2>1, <2>2 DEF CallType, WellFormed
  <2>5. hash' \in [Ids -> Entry \cup {None}]
    BY <2>3 DEF TypeOK
  <2> HIDE DEF r
  <2>6. QED
    BY <1>7, <2>3, <2>4, <2>5, BecomeType DEF FinalizeDel, TypeOK
<1>8. ASSUME NEW c \in Callers, NEW i \in Ids, AttemptBegin(c, i)
      PROVE TypeOK'
  <2> DEFINE r == [call[c] EXCEPT !.pc = "attempt", !.id = i]
  <2>1. call[c] \in CallType /\ call[c].snap[i] # None
    BY <1>8 DEF AttemptBegin, Due, TypeOK
  <2>2. r \in CallType /\ WellFormed(r)
    BY <2>1 DEF CallType, WellFormed
  <2>3. Become(c, r)
    BY <1>8 DEF AttemptBegin
  <2> HIDE DEF r
  <2>4. QED
    BY <1>8, <2>2, <2>3, BecomeType DEF AttemptBegin, TypeOK
<1>9. ASSUME NEW c \in Callers, FinalizeStatus(c) PROVE TypeOK'
  <2> DEFINE r == [call[c] EXCEPT !.pc = "finalize", !.id = None]
  <2>1. /\ call[c] \in CallType /\ WellFormed(call[c])
        /\ call[c].pc = "settle"
    BY <1>9 DEF FinalizeStatus, At, TypeOK
  <2>2. r \in CallType /\ WellFormed(r)
    BY <2>1 DEF CallType, WellFormed
  <2>3. Become(c, r)
    BY <1>9 DEF FinalizeStatus
  <2>4. status' \in [Ids -> Terminal \cup {"none", "pending"}]
    BY <1>9 DEF FinalizeStatus, WriteStatus, Terminal, TypeOK
  <2> HIDE DEF r
  <2>5. QED
    BY <1>9, <2>2, <2>3, <2>4, BecomeType DEF FinalizeStatus, TypeOK
<1>10. ASSUME NEW c \in Callers, CollectReturn(c) PROVE TypeOK'
  <2> DEFINE due == [i \in Ids |-> IF i \in Due(c) THEN call[c].snap[i]
                                                  ELSE None]
             r == [call[c] EXCEPT !.pc = "collected", !.snap = due]
  <2>1. call[c] \in CallType
    BY DEF TypeOK
  <2>2. due \in [Ids -> Entry \cup {None}]
    BY <2>1 DEF CallType
  <2>3. Become(c, r)
    BY <1>10 DEF CollectReturn
  <2> HIDE DEF due
  <2>4. r \in CallType /\ WellFormed(r)
    BY <2>1, <2>2 DEF CallType, WellFormed
  <2> HIDE DEF r
  <2>5. QED
    BY <1>10, <2>3, <2>4, BecomeType DEF CollectReturn, TypeOK
<1>11. ASSUME NEW c \in Callers, AttemptSet(c) PROVE TypeOK'
  <2> DEFINE i == call[c].id
             s == [call[c].snap EXCEPT ![i] = None]
             r == [call[c] EXCEPT !.pc = "collected", !.id = None,
                                  !.snap = s]
  <2>1. /\ call[c] \in CallType /\ WellFormed(call[c])
        /\ call[c].pc = "attempt" /\ i \in Ids /\ call[c].snap[i] \in Entry
    <3>1. /\ call[c] \in CallType /\ WellFormed(call[c])
          /\ call[c].pc = "attempt"
      BY <1>11 DEF AttemptSet, At, TypeOK
    <3>2. QED
      BY <3>1 DEF WellFormed, CallType
  <2>2. s \in [Ids -> Entry \cup {None}]
    BY <2>1 DEF CallType
  <2>3. Become(c, r)
    BY <1>11 DEF AttemptSet
  <2>4. /\ hash' \in [Ids -> Entry \cup {None}]
        /\ recorded' \in [Ids -> Nat]
    <3>1. CASE Stored(i)
      <4> DEFINE t == IF call[c].all THEN now ELSE call[c].at
      <4>1. PICK d \in RetryDelays(call[c].snap[i].attempts + 1) :
              hash' = [hash EXCEPT
                         ![i] = Attempted(call[c].snap[i], Schedule(t, d))]
        BY <1>11, <3>1 DEF AttemptSet
      <4>2. call[c].snap[i].attempts + 1 \in Nat
        BY <2>1 DEF Entry
      <4>3. Schedule(t, d) \in Nat
        BY <2>1, <4>2, RetryDelaysNat DEF Schedule, TypeOK, CallType
      <4>4. Attempted(call[c].snap[i], Schedule(t, d)) \in Entry
        BY <2>1, <4>3, AttemptedEntry
      <4>5. QED
        BY <1>11, <2>1, <3>1, <4>1, <4>4 DEF AttemptSet, TypeOK
    <3>2. CASE ~Stored(i)
      BY <1>11, <3>2 DEF AttemptSet, TypeOK
    <3>3. QED
      BY <3>1, <3>2
  <2> HIDE DEF s
  <2>5. r \in CallType /\ WellFormed(r)
    BY <2>1, <2>2 DEF CallType, WellFormed
  <2> HIDE DEF r, i
  <2>6. QED
    BY <1>11, <2>3, <2>4, <2>5, BecomeType DEF AttemptSet, TypeOK
<1>12. ASSUME NEW c \in Callers, NEW i \in Ids, AckDel(c, i)
       PROVE TypeOK'
  <2> DEFINE won == Stored(i)
             p == IF won THEN "delivered" ELSE "ack"
             k == IF won THEN i ELSE None
             r == [call[c] EXCEPT !.pc = p, !.id = k, !.todo = @ \ {i}]
  <2>1. call[c] \in CallType
    BY DEF TypeOK
  <2>2. /\ p \in {"delivered", "ack"} /\ k \in Ids \cup {None}
        /\ p = "delivered" => k = i
    OBVIOUS
  <2>3. Become(c, r) /\ hash' = [hash EXCEPT ![i] = None]
    BY <1>12 DEF AckDel
  <2> HIDE DEF p, k
  <2>4. r \in CallType /\ WellFormed(r)
    BY <2>1, <2>2 DEF CallType, WellFormed
  <2>5. hash' \in [Ids -> Entry \cup {None}]
    BY <2>3 DEF TypeOK
  <2> HIDE DEF r
  <2>6. QED
    BY <1>12, <2>3, <2>4, <2>5, BecomeType DEF AckDel, TypeOK
<1>13. ASSUME NEW c \in Callers, AckStatus(c) PROVE TypeOK'
  <2> DEFINE r == [call[c] EXCEPT !.pc = "ack", !.id = None]
  <2>a. call[c] \in CallType
    BY DEF TypeOK
  <2>b. r.pc = "ack" /\ r \in CallType
    BY <2>a DEF CallType
  <2> HIDE DEF r
  <2>1. r \in CallType /\ WellFormed(r)
    BY <2>b DEF WellFormed
  <2>2. Become(c, r)
    BY <1>13 DEF AckStatus, r
  <2>3. status' \in [Ids -> Terminal \cup {"none", "pending"}]
    BY <1>13 DEF AckStatus, WriteStatus, Terminal, TypeOK
  <2> HIDE DEF r
  <2>4. QED
    BY <1>13, <2>1, <2>2, <2>3, BecomeType DEF AckStatus, TypeOK
<1>14. ASSUME NEW c \in Callers, Done(c) PROVE TypeOK'
  BY <1>14, IdleType, BecomeType DEF Done, TypeOK
<1>15. CASE Tick
  BY <1>15 DEF Tick, TypeOK
<1>16. CASE KeyExpire
  BY <1>16 DEF KeyExpire, Empty, TypeOK
<1>17. CASE UNCHANGED vars
  BY <1>17 DEF vars, TypeOK
<1>18. QED
  BY <1>1, <1>2, <1>3, <1>4, <1>5, <1>6, <1>7, <1>8, <1>9, <1>10, <1>11,
     <1>12, <1>13, <1>14, <1>15, <1>16, <1>17
     DEF Next, Begin, Enqueue, Collect, Ack

\* Type correctness of every store operation, interleaved in any order.
THEOREM TypeCorrect == Spec => []TypeOK
<1>1. Init => TypeOK
  BY IdleType DEF Init, TypeOK, Empty, Terminal
<1>2. TypeOK /\ [Next]_vars => TypeOK'
  BY TypeKept
<1>3. QED
  BY <1>1, <1>2, PTL DEF Spec

----------------------------------------------------------------------------
(* Entries are never resurrected                                           *)

\* What a call record becomes in a step of its call.
LEMMA BecomeAt ==
    ASSUME call \in [Callers -> CallType], NEW c \in Callers, NEW r,
           Become(c, r)
    PROVE  \A k \in Callers : call'[k] = IF k = c THEN r ELSE call[k]
BY DEF Become

\* Only enqueue's store step fills an empty field of the hash.
LEMMA OnlyStoreFills ==
    ASSUME TypeOK, Next, NEW i \in Ids, hash[i] = None, hash'[i] # None
    PROVE  \E c \in Callers : /\ EnqueueStore(c)
                              /\ call[c].pc = "store" /\ call[c].id = i
                              /\ call'[c].pc = "announce"
<1> USE DEF TypeOK
<1>1. ASSUME NEW c \in Callers, Begin(c) PROVE FALSE
  BY <1>1 DEF Begin, EnqueueLen, CollectRead, AckBegin
<1>2. ASSUME NEW c \in Callers, EnqueueStore(c)
      PROVE  /\ call[c].pc = "store" /\ call[c].id = i
             /\ call'[c].pc = "announce"
  <2>1. call[c].pc = "store" /\ call[c].id = i
    BY <1>2 DEF EnqueueStore, At
  <2>2. call[c] \in CallType
    OBVIOUS
  <2>3. [call[c] EXCEPT !.pc = "announce", !.at = 0].pc = "announce"
    BY <2>2 DEF CallType
  <2>4. call'[c] = [call[c] EXCEPT !.pc = "announce", !.at = 0]
    BY <1>2 DEF EnqueueStore, Become
  <2>5. QED
    BY <2>1, <2>3, <2>4
<1>3. ASSUME NEW c \in Callers, EnqueueReject(c) \/ EnqueueStatus(c)
      PROVE  FALSE
  BY <1>3 DEF EnqueueReject, EnqueueStatus
<1>4. ASSUME NEW c \in Callers, NEW k \in Ids,
             FinalizeDel(c, k) \/ AckDel(c, k)
      PROVE  FALSE
  <2>1. hash' = [hash EXCEPT ![k] = None]
    BY <1>4 DEF FinalizeDel, AckDel
  <2>2. QED
    BY <2>1
<1>5. ASSUME NEW c \in Callers, NEW k \in Ids, AttemptBegin(c, k)
      PROVE  FALSE
  BY <1>5 DEF AttemptBegin
<1>6. ASSUME NEW c \in Callers, AttemptSet(c) PROVE FALSE
  <2>1. CASE Stored(call[c].id)
    <3>1. call[c].id # i
      BY <2>1 DEF Stored
    <3>2. PICK e : hash' = [hash EXCEPT ![call[c].id] = e]
      BY <1>6, <2>1 DEF AttemptSet
    <3>3. QED
      BY <3>1, <3>2
  <2>2. CASE ~Stored(call[c].id)
    BY <1>6, <2>2 DEF AttemptSet
  <2>3. QED
    BY <2>1, <2>2
<1>7. ASSUME NEW c \in Callers,
             FinalizeStatus(c) \/ CollectReturn(c) \/ AckStatus(c) \/ Done(c)
      PROVE  FALSE
  BY <1>7 DEF FinalizeStatus, CollectReturn, AckStatus, Done
<1>8. CASE Tick
  BY <1>8 DEF Tick
<1>9. CASE KeyExpire
  BY <1>9 DEF KeyExpire, Empty
<1>10. QED
  BY <1>1, <1>2, <1>3, <1>4, <1>5, <1>6, <1>7, <1>8, <1>9
     DEF Next, Enqueue, Collect, Ack

\* The late attempt record of a delivery that was acked, expired or given up
\* meanwhile writes nothing.
THEOREM LateAttemptNeverResurrects == Spec => NeverResurrected
<1>1. TypeOK /\ [Next]_vars =>
        [\A i \in Ids : hash[i] = None /\ hash'[i] # None =>
           \E c \in Callers : /\ call[c].pc = "store" /\ call[c].id = i
                              /\ call'[c].pc = "announce"]_vars
  BY OnlyStoreFills
<1>2. QED
  BY <1>1, TypeCorrect, PTL DEF Spec, NeverResurrected

----------------------------------------------------------------------------
(* The attempt bound                                                       *)

\* A call past its collectDue only holds entries that have an attempt left:
\* that is why the increment of a stale copy stays within the bound.
HeldLive ==
    \A c \in Callers : call[c].pc \in {"collected", "attempt"} =>
      \A i \in Ids : call[c].snap[i] # None =>
        call[c].snap[i].attempts < MaxAttempts

AttemptsInv == AttemptsBounded /\ HeldLive

\* A call that moves to a record outside the two points HeldLive is about
\* keeps HeldLive.
LEMMA HeldLiveElsewhere ==
    ASSUME TypeOK, HeldLive, NEW c \in Callers, NEW r, Become(c, r),
           r.pc \notin {"collected", "attempt"}
    PROVE  HeldLive'
BY BecomeAt DEF HeldLive, TypeOK

\* No interleaving of recordings, re-emissions and give-ups pushes the
\* attempt count of a stored entry past the configured maximum.
THEOREM AttemptsStayBounded == Spec => []AttemptsBounded
<1>1. Init => AttemptsInv
  BY DEF Init, AttemptsInv, AttemptsBounded, HeldLive, Idle, Empty
<1>2. TypeOK /\ TypeOK' /\ AttemptsInv /\ [Next]_vars => AttemptsInv'
  <2> SUFFICES ASSUME TypeOK, TypeOK', AttemptsInv, [Next]_vars
               PROVE  AttemptsInv'
    OBVIOUS
  <2> USE DEF AttemptsInv
  <2>1. ASSUME NEW c \in Callers, Begin(c) PROVE AttemptsInv'
    <3>1. hash' = hash
      BY <2>1 DEF Begin, EnqueueLen, CollectRead, AckBegin
    <3>2. PICK r : Become(c, r) /\ r.pc \notin {"collected", "attempt"}
      <4>1. ASSUME NEW i \in Ids, EnqueueLen(c, i)
            PROVE  \E r : Become(c, r) /\ r.pc \notin {"collected", "attempt"}
        <5> DEFINE n == emits[i] + 1
                   p == IF Full THEN "reject" ELSE "store"
                   r == [Idle EXCEPT !.pc = p, !.id = i, !.data = n, !.at = now]
        <5>1. Become(c, r)
          BY <4>1 DEF EnqueueLen
        <5>2. p \in {"reject", "store"}
          OBVIOUS
        <5> HIDE DEF p, n
        <5>3. r.pc = p
          BY DEF Idle
        <5> HIDE DEF r
        <5>4. QED
          BY <5>1, <5>2, <5>3
      <4>2. ASSUME NEW all \in BOOLEAN, CollectRead(c, all)
            PROVE  \E r : Become(c, r) /\ r.pc \notin {"collected", "attempt"}
        <5> DEFINE todo == {i \in Pending : ~Live(hash[i], now)}
                   r == [Idle EXCEPT !.pc = "finalize", !.at = now, !.all = all,
                                     !.snap = hash, !.todo = todo]
        <5>1. Become(c, r)
          BY <4>2 DEF CollectRead
        <5> HIDE DEF todo
        <5>2. r.pc = "finalize"
          BY DEF Idle
        <5> HIDE DEF r
        <5>3. QED
          BY <5>1, <5>2
      <4>3. ASSUME NEW ids \in SUBSET Ids, AckBegin(c, ids)
            PROVE  \E r : Become(c, r) /\ r.pc \notin {"collected", "attempt"}
        <5> DEFINE r == [Idle EXCEPT !.pc = "ack", !.todo = ids]
        <5>1. Become(c, r)
          BY <4>3 DEF AckBegin
        <5>2. r.pc = "ack"
          BY DEF Idle
        <5> HIDE DEF r
        <5>3. QED
          BY <5>1, <5>2
      <4>4. QED
        BY <2>1, <4>1, <4>2, <4>3 DEF Begin
    <3>3. HeldLive'
      BY <3>2, HeldLiveElsewhere
    <3>4. QED
      BY <3>1, <3>3 DEF AttemptsBounded
  <2>2. ASSUME NEW c \in Callers, EnqueueStore(c) PROVE AttemptsInv'
    <3> DEFINE r == [call[c] EXCEPT !.pc = "announce", !.at = 0]
               e == [data |-> call[c].data, createdAt |-> call[c].at,
                     attempts |-> 0, nextAttemptAt |-> call[c].at]
    <3>1. Become(c, r) /\ r.pc = "announce"
      BY <2>2 DEF EnqueueStore, TypeOK, CallType
    <3>2. HeldLive'
      BY <3>1, HeldLiveElsewhere
    <3>3. hash' = [hash EXCEPT ![call[c].id] = e] /\ e.attempts = 0
      BY <2>2 DEF EnqueueStore
    <3> HIDE DEF e
    <3>4. \A i \in Ids : hash'[i] = hash[i] \/ hash'[i] = e
      BY <3>3 DEF TypeOK
    <3>5. AttemptsBounded'
      BY <3>3, <3>4, ConfigAssumption DEF AttemptsBounded
    <3>6. QED
      BY <3>2, <3>5
  <2>3. ASSUME NEW c \in Callers,
               EnqueueReject(c) \/ EnqueueStatus(c) \/ AckStatus(c) \/ Done(c)
                 \/ FinalizeStatus(c)
        PROVE  AttemptsInv'
    <3>1. hash' = hash
      BY <2>3 DEF EnqueueReject, EnqueueStatus, AckStatus, Done, FinalizeStatus
    <3>2. PICK r : Become(c, r) /\ r.pc \notin {"collected", "attempt"}
      <4>1. CASE EnqueueReject(c) \/ Done(c)
        BY <4>1 DEF EnqueueReject, Done, Idle
      <4>2. CASE EnqueueStatus(c)
        <5>1. [call[c] EXCEPT !.pc = "stored"].pc = "stored"
          BY DEF TypeOK, CallType
        <5>2. QED
          BY <4>2, <5>1 DEF EnqueueStatus
      <4>3. CASE AckStatus(c)
        <5>1. [call[c] EXCEPT !.pc = "ack", !.id = None].pc = "ack"
          BY DEF TypeOK, CallType
        <5>2. QED
          BY <4>3, <5>1 DEF AckStatus
      <4>4. CASE FinalizeStatus(c)
        <5>1. [call[c] EXCEPT !.pc = "finalize", !.id = None].pc = "finalize"
          BY DEF TypeOK, CallType
        <5>2. QED
          BY <4>4, <5>1 DEF FinalizeStatus
      <4>5. QED
        BY <2>3, <4>1, <4>2, <4>3, <4>4
    <3>3. HeldLive'
      BY <3>2, HeldLiveElsewhere
    <3>4. QED
      BY <3>1, <3>3 DEF AttemptsBounded
  <2>4. ASSUME NEW c \in Callers, NEW k \in Ids,
               FinalizeDel(c, k) \/ AckDel(c, k)
        PROVE  AttemptsInv'
    <3>1. hash' = [hash EXCEPT ![k] = None]
      BY <2>4 DEF FinalizeDel, AckDel
    <3>2. AttemptsBounded'
      BY <3>1 DEF AttemptsBounded, TypeOK
    <3>3. PICK r : Become(c, r) /\ r.pc \notin {"collected", "attempt"}
      <4> DEFINE p1 == IF Stored(k) THEN "settle" ELSE "finalize"
                 p2 == IF Stored(k) THEN "delivered" ELSE "ack"
                 id == IF Stored(k) THEN k ELSE None
                 r(p) == [call[c] EXCEPT !.pc = p, !.id = id, !.todo = @ \ {k}]
      <4>1. Become(c, r(p1)) \/ Become(c, r(p2))
        BY <2>4 DEF FinalizeDel, AckDel
      <4>2. {p1, p2} \cap {"collected", "attempt"} = {}
        OBVIOUS
      <4> HIDE DEF p1, p2, id
      <4>3. \A p : r(p).pc = p
        BY DEF TypeOK, CallType
      <4> HIDE DEF r
      <4>4. QED
        BY <4>1, <4>2, <4>3
    <3>4. QED
      BY <3>2, <3>3, HeldLiveElsewhere
  <2>5. ASSUME NEW c \in Callers, NEW k \in Ids, AttemptBegin(c, k)
        PROVE  AttemptsInv'
    <3> DEFINE r == [call[c] EXCEPT !.pc = "attempt", !.id = k]
    <3>1. call[c].pc = "collected" /\ r.snap = call[c].snap
      BY <2>5 DEF AttemptBegin, At, TypeOK, CallType
    <3>2. Become(c, r) /\ hash' = hash
      BY <2>5 DEF AttemptBegin
    <3> HIDE DEF r
    <3>3. HeldLive'
      BY <3>1, <3>2, BecomeAt DEF HeldLive, TypeOK
    <3>4. QED
      BY <3>2, <3>3 DEF AttemptsBounded
  <2>6. ASSUME NEW c \in Callers, CollectReturn(c) PROVE AttemptsInv'
    <3> DEFINE due == [i \in Ids |-> IF i \in Due(c) THEN call[c].snap[i]
                                                    ELSE None]
               r == [call[c] EXCEPT !.pc = "collected", !.snap = due]
    <3>1. \A i \in Ids : due[i] # None => due[i].attempts < MaxAttempts
      <4> SUFFICES ASSUME NEW i \in Ids, i \in Due(c)
                   PROVE  call[c].snap[i].attempts < MaxAttempts
        OBVIOUS
      <4>1. call[c].snap[i] \in Entry /\ ~Exhausted(call[c].snap[i])
        BY DEF Due, Live, TypeOK, CallType
      <4>2. QED
        BY <4>1, ConfigAssumption DEF Exhausted, Entry
    <3>2. Become(c, r) /\ hash' = hash
      BY <2>6 DEF CollectReturn
    <3> HIDE DEF due
    <3>3. r.snap = due
      BY DEF TypeOK, CallType
    <3> HIDE DEF r
    <3>4. HeldLive'
      BY <3>1, <3>2, <3>3, BecomeAt DEF HeldLive, TypeOK
    <3>5. QED
      BY <3>2, <3>4 DEF AttemptsBounded
  <2>7. ASSUME NEW c \in Callers, AttemptSet(c) PROVE AttemptsInv'
    <3> DEFINE i == call[c].id
               s == [call[c].snap EXCEPT ![i] = None]
               r == [call[c] EXCEPT !.pc = "collected", !.id = None,
                                    !.snap = s]
    <3>1. /\ call[c] \in CallType /\ i \in Ids /\ call[c].pc = "attempt"
          /\ call[c].snap[i] \in Entry
          /\ call[c].snap[i].attempts < MaxAttempts
      <4>1. call[c] \in CallType /\ WellFormed(call[c]) /\ call[c].pc = "attempt"
        BY <2>7 DEF AttemptSet, At, TypeOK
      <4>2. i \in Ids /\ call[c].snap[i] \in Entry
        BY <4>1 DEF WellFormed, CallType
      <4>3. QED
        BY <4>1, <4>2, NoneAssumption DEF HeldLive
    <3>2. Become(c, r)
      BY <2>7 DEF AttemptSet
    <3>3. HeldLive'
      <4>1. r.snap = s
        BY <3>1 DEF CallType
      <4>2. \A k \in Ids : s[k] # None => call[c].snap[k] # None /\ s[k] = call[c].snap[k]
        BY <3>1 DEF CallType
      <4> HIDE DEF s, r
      <4>3. QED
        BY <3>1, <3>2, <4>1, <4>2, BecomeAt DEF HeldLive, TypeOK
    <3>4. AttemptsBounded'
      <4>1. CASE Stored(i)
        <5> DEFINE t == IF call[c].all THEN now ELSE call[c].at
        <5>1. PICK d \in RetryDelays(call[c].snap[i].attempts + 1) :
                hash' = [hash EXCEPT
                           ![i] = Attempted(call[c].snap[i], Schedule(t, d))]
          BY <2>7, <4>1 DEF AttemptSet
        <5>2. call[c].snap[i].attempts + 1 \in Nat
          BY <3>1 DEF Entry
        <5>3. Schedule(t, d) \in Nat
          BY <3>1, <5>2, RetryDelaysNat DEF Schedule, TypeOK, CallType
        <5> DEFINE e == Attempted(call[c].snap[i], Schedule(t, d))
        <5>4. e.attempts = call[c].snap[i].attempts + 1
          BY <3>1, <5>3, AttemptedEntry
        <5>5. e.attempts <= MaxAttempts
          BY <3>1, <5>2, <5>4, ConfigAssumption DEF Entry
        <5>6. \A k \in Ids : hash'[k] = hash[k] \/ hash'[k] = e
          BY <5>1 DEF TypeOK
        <5> HIDE DEF e
        <5>7. QED
          BY <5>5, <5>6 DEF AttemptsBounded
      <4>2. CASE ~Stored(i)
        BY <2>7, <4>2 DEF AttemptSet, AttemptsBounded
      <4>3. QED
        BY <4>1, <4>2
    <3>5. QED
      BY <3>3, <3>4
  <2>8. CASE Tick
    BY <2>8 DEF Tick, AttemptsBounded, HeldLive
  <2>9. CASE KeyExpire
    BY <2>9 DEF KeyExpire, Empty, AttemptsBounded, HeldLive
  <2>10. CASE UNCHANGED vars
    BY <2>10 DEF vars, AttemptsBounded, HeldLive
  <2>11. QED
    BY <2>1, <2>2, <2>3, <2>4, <2>5, <2>6, <2>7, <2>8, <2>9, <2>10
       DEF Next, Enqueue, Collect, Ack
<1>3. QED
  BY <1>1, <1>2, TypeCorrect, PTL DEF Spec, AttemptsInv

----------------------------------------------------------------------------
(* The queue cap                                                           *)

\* The calls that passed the size check and have not stored yet.
Storing == {c \in Callers : call[c].pc = "store"}

\* Each of them may still add an entry. Passing the check re-establishes the
\* bound, storing trades one of them for one entry, and all else shrinks it.
CapInv ==
    Cardinality(Pending) + Cardinality(Storing)
      <= MaxPending - 1 + Cardinality(Callers)

LEMMA CapSetsFinite ==
    /\ IsFiniteSet(Pending) /\ Cardinality(Pending) \in Nat
    /\ IsFiniteSet(Storing) /\ Cardinality(Storing) \in Nat
    /\ Cardinality(Callers) \in Nat
    /\ Cardinality(Storing) <= Cardinality(Callers)
<1>1. Pending \subseteq Ids /\ Storing \subseteq Callers
  BY DEF Pending, Storing
<1>2. QED
  BY <1>1, IdsAssumption, CallersAssumption, FS_Subset, FS_CardinalityType

\* Only the size check makes a call ready to store.
LEMMA OnlyLenStores ==
    ASSUME TypeOK, Next, NEW k \in Callers,
           call[k].pc # "store", call'[k].pc = "store"
    PROVE  \E i \in Ids : EnqueueLen(k, i)
<1> USE DEF TypeOK
<1>0. \A c \in Callers : \A r : Become(c, r) /\ r.pc # "store" => FALSE
  BY BecomeAt
<1>1. ASSUME NEW c \in Callers, NEW i \in Ids, EnqueueLen(c, i) PROVE c = k
  <2> DEFINE r == [Idle EXCEPT !.pc = IF Full THEN "reject" ELSE "store",
                               !.id = i, !.data = emits[i] + 1, !.at = now]
  <2>1. Become(c, r)
    BY <1>1 DEF EnqueueLen
  <2> HIDE DEF r
  <2>2. QED
    BY <2>1, BecomeAt
<1>2. ASSUME NEW c \in Callers, NEW all \in BOOLEAN, CollectRead(c, all)
      PROVE FALSE
  <2> DEFINE todo == {i \in Pending : ~Live(hash[i], now)}
             r == [Idle EXCEPT !.pc = "finalize", !.at = now, !.all = all,
                               !.snap = hash, !.todo = todo]
  <2>1. Become(c, r)
    BY <1>2 DEF CollectRead
  <2> HIDE DEF todo
  <2>2. r.pc # "store"
    BY DEF Idle
  <2> HIDE DEF r
  <2>3. QED
    BY <1>0, <2>1, <2>2
<1>3. ASSUME NEW c \in Callers, NEW ids \in SUBSET Ids, AckBegin(c, ids)
      PROVE FALSE
  <2> DEFINE r == [Idle EXCEPT !.pc = "ack", !.todo = ids]
  <2>1. Become(c, r) /\ r.pc # "store"
    BY <1>3 DEF AckBegin, Idle
  <2> HIDE DEF r
  <2>2. QED
    BY <1>0, <2>1
<1>4. ASSUME NEW c \in Callers, EnqueueReject(c) \/ Done(c) PROVE FALSE
  BY <1>0, <1>4 DEF EnqueueReject, Done, Idle
<1>5. ASSUME NEW c \in Callers, EnqueueStore(c) PROVE FALSE
  <2> DEFINE r == [call[c] EXCEPT !.pc = "announce", !.at = 0]
  <2>1. Become(c, r) /\ r.pc # "store"
    BY <1>5 DEF EnqueueStore, CallType
  <2> HIDE DEF r
  <2>2. QED
    BY <1>0, <2>1
<1>6. ASSUME NEW c \in Callers, EnqueueStatus(c) PROVE FALSE
  <2> DEFINE r == [call[c] EXCEPT !.pc = "stored"]
  <2>1. Become(c, r) /\ r.pc # "store"
    BY <1>6 DEF EnqueueStatus, CallType
  <2> HIDE DEF r
  <2>2. QED
    BY <1>0, <2>1
<1>7. ASSUME NEW c \in Callers, NEW i \in Ids, FinalizeDel(c, i) \/ AckDel(c, i)
      PROVE FALSE
  <2> DEFINE p1 == IF Stored(i) THEN "settle" ELSE "finalize"
             p2 == IF Stored(i) THEN "delivered" ELSE "ack"
             id == IF Stored(i) THEN i ELSE None
             r(p) == [call[c] EXCEPT !.pc = p, !.id = id, !.todo = @ \ {i}]
  <2>1. Become(c, r(p1)) \/ Become(c, r(p2))
    BY <1>7 DEF FinalizeDel, AckDel
  <2>2. p1 # "store" /\ p2 # "store"
    OBVIOUS
  <2> HIDE DEF p1, p2, id
  <2>3. \A p : r(p).pc = p
    BY DEF CallType
  <2> HIDE DEF r
  <2>4. QED
    BY <1>0, <2>1, <2>2, <2>3
<1>8. ASSUME NEW c \in Callers, FinalizeStatus(c) PROVE FALSE
  <2> DEFINE r == [call[c] EXCEPT !.pc = "finalize", !.id = None]
  <2>1. Become(c, r) /\ r.pc # "store"
    BY <1>8 DEF FinalizeStatus, CallType
  <2> HIDE DEF r
  <2>2. QED
    BY <1>0, <2>1
<1>9. ASSUME NEW c \in Callers, CollectReturn(c) PROVE FALSE
  <2> DEFINE due == [i \in Ids |-> IF i \in Due(c) THEN call[c].snap[i]
                                                  ELSE None]
             r == [call[c] EXCEPT !.pc = "collected", !.snap = due]
  <2>1. Become(c, r)
    BY <1>9 DEF CollectReturn
  <2> HIDE DEF due
  <2>2. r.pc # "store"
    BY DEF CallType
  <2> HIDE DEF r
  <2>3. QED
    BY <1>0, <2>1, <2>2
<1>10. ASSUME NEW c \in Callers, NEW i \in Ids, AttemptBegin(c, i) PROVE FALSE
  <2> DEFINE r == [call[c] EXCEPT !.pc = "attempt", !.id = i]
  <2>1. Become(c, r) /\ r.pc # "store"
    BY <1>10 DEF AttemptBegin, CallType
  <2> HIDE DEF r
  <2>2. QED
    BY <1>0, <2>1
<1>11. ASSUME NEW c \in Callers, AttemptSet(c) PROVE FALSE
  <2> DEFINE s == [call[c].snap EXCEPT ![call[c].id] = None]
             r == [call[c] EXCEPT !.pc = "collected", !.id = None, !.snap = s]
  <2>1. Become(c, r)
    BY <1>11 DEF AttemptSet
  <2> HIDE DEF s
  <2>2. r.pc # "store"
    BY DEF CallType
  <2> HIDE DEF r
  <2>3. QED
    BY <1>0, <2>1, <2>2
<1>12. ASSUME NEW c \in Callers, AckStatus(c) PROVE FALSE
  <2> DEFINE r == [call[c] EXCEPT !.pc = "ack", !.id = None]
  <2>1. Become(c, r) /\ r.pc # "store"
    BY <1>12 DEF AckStatus, CallType
  <2> HIDE DEF r
  <2>2. QED
    BY <1>0, <2>1
<1>13. ~Tick /\ ~KeyExpire
  BY DEF Tick, KeyExpire
<1>14. QED
  BY <1>1, <1>2, <1>3, <1>4, <1>5, <1>6, <1>7, <1>8, <1>9, <1>10, <1>11,
     <1>12, <1>13 DEF Next, Begin, Enqueue, Collect, Ack

\* Every step of the store keeps the sum within the bound.
LEMMA CapKept == TypeOK /\ CapInv /\ [Next]_vars => CapInv'
<1> SUFFICES ASSUME TypeOK, CapInv, Next PROVE CapInv'
  BY DEF CapInv, Pending, Storing, vars
<1>0. /\ IsFiniteSet(Pending') /\ Cardinality(Pending') \in Nat
      /\ IsFiniteSet(Storing') /\ Cardinality(Storing') \in Nat
      /\ Cardinality(Storing') <= Cardinality(Callers)
  <2>1. Pending' \subseteq Ids /\ Storing' \subseteq Callers
    BY DEF Pending, Storing
  <2>2. QED
    BY <2>1, IdsAssumption, CallersAssumption, FS_Subset, FS_CardinalityType
<1>1. CASE \E c \in Callers, i \in Ids : EnqueueLen(c, i) /\ ~Full
  <2>1. Pending' = Pending
    BY <1>1 DEF EnqueueLen, Pending
  <2>2. Cardinality(Pending) <= MaxPending - 1
    BY <1>1, CapSetsFinite, ConfigAssumption DEF Full
  <2>3. QED
    BY <1>0, <2>1, <2>2, CapSetsFinite, ConfigAssumption DEF CapInv
<1>2. CASE \E c \in Callers : EnqueueStore(c)
  <2>1. PICK c \in Callers : EnqueueStore(c)
    BY <1>2
  <2> DEFINE r == [call[c] EXCEPT !.pc = "announce", !.at = 0]
  <2>2. Become(c, r) /\ r.pc = "announce"
    BY <2>1 DEF EnqueueStore, TypeOK, CallType
  <2> HIDE DEF r
  <2>3. c \in Storing /\ Storing' = Storing \ {c}
    BY <2>1, <2>2, BecomeAt DEF EnqueueStore, At, Storing, TypeOK
  <2>4. Cardinality(Storing') = Cardinality(Storing) - 1
    BY <2>3, CapSetsFinite, FS_RemoveElement
  <2>5. PICK e : hash' = [hash EXCEPT ![call[c].id] = e]
    BY <2>1 DEF EnqueueStore
  <2>6. Pending' \subseteq Pending \cup {call[c].id}
    BY <2>5 DEF Pending, TypeOK
  <2>7. Cardinality(Pending') <= Cardinality(Pending) + 1
    <3> DEFINE P == Pending
               x == call[c].id
    <3>0. IsFiniteSet(P) /\ Cardinality(P) \in Nat /\ Pending' \subseteq P \cup {x}
      BY <2>6, CapSetsFinite
    <3> HIDE DEF P, x
    <3>1. /\ IsFiniteSet(P \cup {x})
          /\ Cardinality(P \cup {x}) =
               IF x \in P THEN Cardinality(P) ELSE Cardinality(P) + 1
      BY <3>0, FS_AddElement
    <3>2. Cardinality(Pending') <= Cardinality(P \cup {x})
      BY <3>0, <3>1, FS_Subset
    <3>3. Cardinality(Pending') <= Cardinality(P) + 1
      BY <1>0, <3>0, <3>1, <3>2
    <3>4. QED
      BY <3>3 DEF P
  <2>8. QED
    BY <1>0, <2>4, <2>7, CapSetsFinite, ConfigAssumption DEF CapInv
<1>3. CASE /\ ~\E c \in Callers : EnqueueStore(c)
           /\ ~\E c \in Callers, i \in Ids : EnqueueLen(c, i) /\ ~Full
  <2>1. Pending' \subseteq Pending
    BY <1>3, OnlyStoreFills DEF Pending
  <2>2. Storing' \subseteq Storing
    <3> SUFFICES ASSUME NEW k \in Callers, call'[k].pc = "store",
                        call[k].pc # "store"
                 PROVE  FALSE
      BY DEF Storing
    <3>1. PICK i \in Ids : EnqueueLen(k, i)
      BY OnlyLenStores
    <3> DEFINE n == emits[i] + 1
               p == IF Full THEN "reject" ELSE "store"
               r == [Idle EXCEPT !.pc = p, !.id = i, !.data = n, !.at = now]
    <3>2. Become(k, r)
      BY <3>1 DEF EnqueueLen
    <3>3. p = "reject"
      BY <1>3, <3>1
    <3> HIDE DEF p, n
    <3>4. r.pc = "reject"
      BY <3>3 DEF Idle
    <3> HIDE DEF r
    <3>5. QED
      BY <3>2, <3>4, BecomeAt DEF TypeOK
  <2>3. /\ Cardinality(Pending') <= Cardinality(Pending)
        /\ Cardinality(Storing') <= Cardinality(Storing)
    BY <2>1, <2>2, CapSetsFinite, FS_Subset
  <2>4. QED
    BY <1>0, <2>3, CapSetsFinite, ConfigAssumption DEF CapInv
<1>4. QED
  BY <1>1, <1>2, <1>3

\* However many enqueues race between the size check and the store, the
\* queue exceeds its configured cap by less than the number of calls.
THEOREM CapOvershootIsBounded == Spec => []CapOvershootBounded
<1>1. Init => CapInv
  <2> SUFFICES ASSUME Init PROVE CapInv
    OBVIOUS
  <2>1. Pending = {} /\ Storing = {}
    BY DEF Init, Pending, Storing, Idle, Empty
  <2>2. Cardinality(Callers) # 0
    BY CallersAssumption, FS_EmptySet
  <2>3. QED
    BY <2>1, <2>2, CapSetsFinite, FS_EmptySet, ConfigAssumption DEF CapInv
<1>2. TypeOK /\ CapInv /\ [Next]_vars => CapInv'
  BY CapKept
<1>3. CapInv => CapOvershootBounded
  BY CapSetsFinite, ConfigAssumption DEF CapInv, CapOvershootBounded
<1>4. QED
  BY <1>1, <1>2, <1>3, TypeCorrect, PTL DEF Spec

----------------------------------------------------------------------------
(* What each step does to its call                                         *)

Others(c) == \A k \in Callers : k # c => call'[k] = call[k]

LEMMA LenStep ==
    ASSUME TypeOK, NEW c \in Callers, NEW i \in Ids, EnqueueLen(c, i)
    PROVE  /\ call'[c].pc \in {"reject", "store"} /\ call'[c].id = i /\ call'[c].at = now
           /\ call'[c].snap = Empty /\ call'[c].todo = {} /\ Others(c)
<1> DEFINE n == emits[i] + 1
           p == IF Full THEN "reject" ELSE "store"
           r == [Idle EXCEPT !.pc = p, !.id = i, !.data = n, !.at = now]
<1>1. call'[c] = r /\ Others(c)
  BY BecomeAt DEF EnqueueLen, TypeOK, Others
<1>2. p \in {"reject", "store"}
  OBVIOUS
<1> HIDE DEF n, p
<1>3. r.pc = p /\ r.id = i /\ r.at = now /\ r.snap = Empty /\ r.todo = {}
  BY DEF Idle
<1> HIDE DEF r
<1>4. QED
  BY <1>1, <1>2, <1>3

LEMMA ReadStep ==
    ASSUME TypeOK, NEW c \in Callers, NEW all \in BOOLEAN, CollectRead(c, all)
    PROVE  /\ call'[c].pc = "finalize" /\ call'[c].id = None /\ call'[c].at = now
           /\ call'[c].snap = hash /\ Others(c)
           /\ call'[c].todo = {i \in Pending : ~Live(hash[i], now)}
<1> DEFINE todo == {i \in Pending : ~Live(hash[i], now)}
           r == [Idle EXCEPT !.pc = "finalize", !.at = now, !.all = all,
                             !.snap = hash, !.todo = todo]
<1>1. call'[c] = r /\ Others(c)
  BY BecomeAt DEF CollectRead, TypeOK, Others
<1> HIDE DEF todo
<1>2. /\ r.pc = "finalize" /\ r.id = None /\ r.at = now /\ r.snap = hash /\ r.todo = todo
  BY DEF Idle
<1> HIDE DEF r
<1>3. QED
  BY <1>1, <1>2 DEF todo

LEMMA AckBeginStep ==
    ASSUME TypeOK, NEW c \in Callers, NEW ids \in SUBSET Ids, AckBegin(c, ids)
    PROVE  /\ call'[c].pc = "ack" /\ call'[c].id = None /\ call'[c].at = 0
           /\ call'[c].snap = Empty /\ call'[c].todo = ids /\ Others(c)
<1> DEFINE r == [Idle EXCEPT !.pc = "ack", !.todo = ids]
<1>1. call'[c] = r /\ Others(c)
  BY BecomeAt DEF AckBegin, TypeOK, Others
<1>2. r.pc = "ack" /\ r.id = None /\ r.at = 0 /\ r.snap = Empty /\ r.todo = ids
  BY DEF Idle
<1> HIDE DEF r
<1>3. QED
  BY <1>1, <1>2

\* A call that is over is idle again.
LEMMA IdleStep ==
    ASSUME TypeOK, NEW c \in Callers, EnqueueReject(c) \/ Done(c)
    PROVE  /\ call'[c].pc = "idle" /\ call'[c].id = None /\ call'[c].at = 0
           /\ call'[c].snap = Empty /\ Others(c)
<1>1. call'[c] = Idle /\ Others(c)
  BY BecomeAt DEF EnqueueReject, Done, TypeOK, Others
<1>2. QED
  BY <1>1 DEF Idle

LEMMA StoreStep ==
    ASSUME TypeOK, NEW c \in Callers, EnqueueStore(c)
    PROVE  /\ call[c].pc = "store" /\ call[c].id \in Ids
           /\ call'[c].pc = "announce" /\ call'[c].at = 0
           /\ call'[c].snap = call[c].snap /\ Others(c)
<1> DEFINE r == [call[c] EXCEPT !.pc = "announce", !.at = 0]
<1>1. /\ call[c] \in CallType /\ WellFormed(call[c]) /\ call[c].pc = "store"
  BY DEF EnqueueStore, At, TypeOK
<1>2. call'[c] = r /\ Others(c)
  BY BecomeAt DEF EnqueueStore, TypeOK, Others
<1>3. r.pc = "announce" /\ r.at = 0 /\ r.snap = call[c].snap
  BY <1>1 DEF CallType
<1> HIDE DEF r
<1>4. QED
  BY <1>1, <1>2, <1>3 DEF WellFormed

LEMMA AnnounceStep ==
    ASSUME TypeOK, NEW c \in Callers, EnqueueStatus(c)
    PROVE  /\ call[c].pc = "announce" /\ call'[c].pc = "stored" /\ call'[c].at = call[c].at
           /\ call'[c].snap = call[c].snap /\ Others(c)
<1> DEFINE r == [call[c] EXCEPT !.pc = "stored"]
<1>1. call[c] \in CallType /\ call[c].pc = "announce"
  BY DEF EnqueueStatus, At, TypeOK
<1>2. call'[c] = r /\ Others(c)
  BY BecomeAt DEF EnqueueStatus, TypeOK, Others
<1>3. r.pc = "stored" /\ r.at = call[c].at /\ r.snap = call[c].snap
  BY <1>1 DEF CallType
<1> HIDE DEF r
<1>4. QED
  BY <1>1, <1>2, <1>3

\* A delete is won by the call that finds the field.
LEMMA DelStep ==
    ASSUME TypeOK, NEW c \in Callers, NEW i \in Ids, FinalizeDel(c, i) \/ AckDel(c, i)
    PROVE  /\ call[c].pc \in {"finalize", "ack"} /\ i \in call[c].todo
           /\ call'[c].pc = IF hash[i] = None THEN call[c].pc
                            ELSE IF call[c].pc = "finalize" THEN "settle" ELSE "delivered"
           /\ call'[c].id = IF hash[i] = None THEN None ELSE i
           /\ call'[c].todo = call[c].todo \ {i}
           /\ call'[c].at = call[c].at /\ call'[c].snap = call[c].snap /\ Others(c)
           /\ hash' = [hash EXCEPT ![i] = None]
           /\ UNCHANGED <<keyTtl, status, emits, recorded, now>>
<1> DEFINE p == IF hash[i] = None THEN call[c].pc
                ELSE IF call[c].pc = "finalize" THEN "settle" ELSE "delivered"
           k == IF hash[i] = None THEN None ELSE i
           r == [call[c] EXCEPT !.pc = p, !.id = k, !.todo = @ \ {i}]
<1>1. /\ call[c] \in CallType /\ call[c].pc \in {"finalize", "ack"} /\ i \in call[c].todo
      /\ hash' = [hash EXCEPT ![i] = None]
      /\ UNCHANGED <<keyTtl, status, emits, recorded, now>>
  BY DEF FinalizeDel, AckDel, At, TypeOK
<1>2. Become(c, r)
  <2>1. CASE FinalizeDel(c, i)
    BY <2>1 DEF FinalizeDel, Stored, At
  <2>2. CASE AckDel(c, i)
    BY <2>2 DEF AckDel, Stored, At
  <2>3. QED
    BY <2>1, <2>2
<1>3. call'[c] = r /\ Others(c)
  BY <1>2, BecomeAt DEF TypeOK, Others
<1> HIDE DEF p, k
<1>4. /\ r.pc = p /\ r.id = k /\ r.todo = call[c].todo \ {i}
      /\ r.at = call[c].at /\ r.snap = call[c].snap
  BY <1>1 DEF CallType
<1> HIDE DEF r
<1>5. QED
  BY <1>1, <1>3, <1>4 DEF p, k

LEMMA StatusStep ==
    ASSUME TypeOK, NEW c \in Callers, FinalizeStatus(c) \/ AckStatus(c)
    PROVE  /\ call[c].pc \in {"settle", "delivered"} /\ call[c].id \in Ids
           /\ call'[c].pc = IF call[c].pc = "settle" THEN "finalize" ELSE "ack"
           /\ call'[c].id = None /\ call'[c].todo = call[c].todo
           /\ call'[c].at = call[c].at /\ call'[c].snap = call[c].snap /\ Others(c)
           /\ \E s \in Terminal : status' = [status EXCEPT ![call[c].id] = s]
           /\ UNCHANGED <<hash, keyTtl, emits, recorded, now>>
<1> DEFINE p == IF call[c].pc = "settle" THEN "finalize" ELSE "ack"
           r == [call[c] EXCEPT !.pc = p, !.id = None]
<1>1. /\ call[c] \in CallType /\ call[c].pc \in {"settle", "delivered"}
      /\ WellFormed(call[c]) /\ UNCHANGED <<hash, keyTtl, emits, recorded, now>>
  BY DEF FinalizeStatus, AckStatus, At, TypeOK
<1>2. Become(c, r)
  BY DEF FinalizeStatus, AckStatus, At
<1>3. call'[c] = r /\ Others(c)
  BY <1>2, BecomeAt DEF TypeOK, Others
<1>4. \E s \in Terminal : status' = [status EXCEPT ![call[c].id] = s]
  BY DEF FinalizeStatus, AckStatus, WriteStatus, Terminal
<1> HIDE DEF p
<1>5. /\ r.pc = p /\ r.id = None /\ r.todo = call[c].todo
      /\ r.at = call[c].at /\ r.snap = call[c].snap
  BY <1>1 DEF CallType
<1> HIDE DEF r
<1>6. QED
  BY <1>1, <1>3, <1>4, <1>5 DEF p, WellFormed

\* The caller keeps some of what it collected.
LEMMA ReturnStep ==
    ASSUME TypeOK, NEW c \in Callers, CollectReturn(c)
    PROVE  /\ call'[c].pc = "collected" /\ call'[c].id = call[c].id
           /\ call'[c].at = call[c].at /\ Others(c) /\ call[c].pc = "finalize"
           /\ \A i \in Ids : call'[c].snap[i] \in {None, call[c].snap[i]}
<1> DEFINE due == [i \in Ids |-> IF i \in Due(c) THEN call[c].snap[i] ELSE None]
           r == [call[c] EXCEPT !.pc = "collected", !.snap = due]
<1>1. call[c] \in CallType /\ call[c].pc = "finalize"
  BY DEF CollectReturn, At, TypeOK
<1>2. call'[c] = r /\ Others(c)
  BY BecomeAt DEF CollectReturn, TypeOK, Others
<1>3. \A i \in Ids : due[i] \in {None, call[c].snap[i]}
  OBVIOUS
<1> HIDE DEF due
<1>4. r.pc = "collected" /\ r.id = call[c].id /\ r.at = call[c].at /\ r.snap = due
  BY <1>1 DEF CallType
<1> HIDE DEF r
<1>5. QED
  BY <1>1, <1>2, <1>3, <1>4

LEMMA BeginAttemptStep ==
    ASSUME TypeOK, NEW c \in Callers, NEW i \in Ids, AttemptBegin(c, i)
    PROVE  /\ call'[c].pc = "attempt" /\ call'[c].id = i /\ call'[c].at = call[c].at
           /\ call'[c].snap = call[c].snap /\ Others(c)
<1> DEFINE r == [call[c] EXCEPT !.pc = "attempt", !.id = i]
<1>1. call[c] \in CallType
  BY DEF TypeOK
<1>2. call'[c] = r /\ Others(c)
  BY BecomeAt DEF AttemptBegin, TypeOK, Others
<1>3. r.pc = "attempt" /\ r.id = i /\ r.at = call[c].at /\ r.snap = call[c].snap
  BY <1>1 DEF CallType
<1> HIDE DEF r
<1>4. QED
  BY <1>2, <1>3

\* Only what is stored is replaced, by the caller's copy with an attempt more.
LEMMA AttemptStep ==
    ASSUME TypeOK, NEW c \in Callers, AttemptSet(c)
    PROVE  LET i == call[c].id IN
           /\ i \in Ids /\ call[c].pc = "attempt" /\ call[c].snap[i] \in Entry
           /\ call'[c].pc = "collected" /\ call'[c].id = None /\ call'[c].at = call[c].at
           /\ \A k \in Ids : call'[c].snap[k] = IF k = i THEN None ELSE call[c].snap[k]
           /\ Others(c) /\ UNCHANGED <<keyTtl, status, emits, now>>
           /\ IF hash[i] = None THEN UNCHANGED <<hash, recorded>>
              ELSE \E e \in Entry :
                     /\ e.attempts = call[c].snap[i].attempts + 1
                     /\ e.createdAt = call[c].snap[i].createdAt
                     /\ hash' = [hash EXCEPT ![i] = e]
                     /\ recorded' = [recorded EXCEPT ![i] = @ + 1]
<1> DEFINE i == call[c].id
           s == [call[c].snap EXCEPT ![i] = None]
           r == [call[c] EXCEPT !.pc = "collected", !.id = None, !.snap = s]
           t == IF call[c].all THEN now ELSE call[c].at
<1>1. /\ call[c] \in CallType /\ WellFormed(call[c]) /\ call[c].pc = "attempt"
      /\ UNCHANGED <<keyTtl, status, emits, now>>
  BY DEF AttemptSet, At, TypeOK
<1>2. i \in Ids /\ call[c].snap[i] \in Entry
  BY <1>1 DEF WellFormed, CallType
<1>3. call'[c] = r /\ Others(c)
  BY BecomeAt DEF AttemptSet, TypeOK, Others
<1>4. \A k \in Ids : s[k] = IF k = i THEN None ELSE call[c].snap[k]
  BY <1>1 DEF CallType
<1> HIDE DEF s
<1>5. r.pc = "collected" /\ r.id = None /\ r.at = call[c].at /\ r.snap = s
  BY <1>1 DEF CallType
<1> HIDE DEF r
<1>6. CASE hash[i] # None
  <2>1. PICK d \in RetryDelays(call[c].snap[i].attempts + 1) :
          /\ hash' = [hash EXCEPT ![i] = Attempted(call[c].snap[i], Schedule(t, d))]
          /\ recorded' = [recorded EXCEPT ![i] = @ + 1]
    BY <1>6 DEF AttemptSet, Stored
  <2>2. call[c].snap[i].attempts + 1 \in Nat
    BY <1>2 DEF Entry
  <2>3. Schedule(t, d) \in Nat
    BY <1>1, <2>2, RetryDelaysNat DEF Schedule, TypeOK, CallType
  <2> DEFINE e == Attempted(call[c].snap[i], Schedule(t, d))
  <2>4. /\ e \in Entry /\ e.attempts = call[c].snap[i].attempts + 1
        /\ e.createdAt = call[c].snap[i].createdAt
    BY <1>2, <2>3, AttemptedEntry
  <2> HIDE DEF e
  <2>5. QED
    BY <1>1, <1>2, <1>3, <1>4, <1>5, <1>6, <2>1, <2>4 DEF e
<1>7. CASE hash[i] = None
  <2>1. UNCHANGED <<hash, recorded>>
    BY <1>7 DEF AttemptSet, Stored
  <2>2. QED
    BY <1>1, <1>2, <1>3, <1>4, <1>5, <1>7, <2>1
<1>8. QED
  BY <1>6, <1>7

----------------------------------------------------------------------------
(* One call decides the outcome                                            *)

\* A call that will write, or decide, the outcome of a delivery.
Settling(c, i) ==
    call[c].id = i /\ call[c].pc \in {"reject", "store", "settle", "delivered"}

\* Of a delivery that was emitted once there is one of three things at most:
\* its entry, a call that settles it, its outcome.
TokenAt(i) ==
    emits[i] <= 1 =>
        /\ hash[i] # None \/ status[i] \in Terminal => \A c \in Callers : ~Settling(c, i)
        /\ hash[i] # None => status[i] \notin Terminal
        /\ \A c, k \in Callers : Settling(c, i) /\ Settling(k, i) => c = k
        /\ emits[i] = 0 => /\ hash[i] = None /\ status[i] \notin Terminal
                           /\ \A c \in Callers : ~Settling(c, i)

Token == \A i \in Ids : TokenAt(i)

\* A step that adds none of the three keeps that.
LEMMA TokenStays ==
    ASSUME NEW i \in Ids, TokenAt(i), emits'[i] = emits[i],
           hash'[i] # None => hash[i] # None,
           status'[i] \in Terminal => status[i] \in Terminal,
           \A c \in Callers : Settling(c, i)' => Settling(c, i)
    PROVE  TokenAt(i)'
BY DEF TokenAt

LEMMA TokenKept ==
    ASSUME TypeOK, Token, [Next]_vars, NEW i \in Ids
    PROVE  TokenAt(i)'
<1>1. /\ TokenAt(i) /\ i # None
      /\ hash \in [Ids -> Entry \cup {None}] /\ emits \in [Ids -> Nat]
      /\ status \in [Ids -> Terminal \cup {"none", "pending"}]
  BY NoneAssumption DEF Token, TypeOK
<1>2. ASSUME NEW c \in Callers, NEW j \in Ids, EnqueueLen(c, j) PROVE TokenAt(i)'
  <2>1. /\ call'[c].pc \in {"reject", "store"} /\ call'[c].id = j /\ Others(c)
        /\ emits' = [emits EXCEPT ![j] = @ + 1] /\ UNCHANGED <<hash, status>>
    BY <1>2, LenStep DEF EnqueueLen
  <2>2. CASE i # j
    BY <1>1, <2>1, <2>2, TokenStays DEF Settling, Others
  <2>3. CASE i = j
    <3>1. emits'[i] = emits[i] + 1 /\ emits[i] \in Nat
      BY <1>1, <2>1, <2>3
    <3>2. SUFFICES ASSUME emits[i] = 0 PROVE TokenAt(i)'
      BY <3>1 DEF TokenAt
    <3>3. /\ hash'[i] = None /\ status'[i] \notin Terminal
          /\ \A k \in Callers : Settling(k, i)' => k = c
      BY <1>1, <2>1, <3>2 DEF TokenAt, Settling, Others
    <3>4. QED
      BY <3>1, <3>2, <3>3 DEF TokenAt
  <2>4. QED
    BY <2>2, <2>3
<1>3. ASSUME NEW c \in Callers, EnqueueReject(c) PROVE TokenAt(i)'
  <2>1. /\ call'[c].id = None /\ Others(c) /\ call[c].pc = "reject"
        /\ status' = [status EXCEPT ![call[c].id] = "failed"] /\ UNCHANGED <<hash, emits>>
    BY <1>3, IdleStep DEF EnqueueReject, WriteStatus, At
  <2>2. \A k \in Callers : Settling(k, i)' => Settling(k, i) /\ k # c
    BY <1>1, <2>1 DEF Settling, Others
  <2>3. CASE call[c].id # i
    BY <1>1, <2>1, <2>2, <2>3, TokenStays
  <2>4. CASE call[c].id = i
    BY <1>1, <2>1, <2>2, <2>4 DEF TokenAt, Settling
  <2>5. QED
    BY <2>3, <2>4
<1>4. ASSUME NEW c \in Callers, EnqueueStore(c) PROVE TokenAt(i)'
  <2>1. /\ call[c].pc = "store" /\ call[c].id \in Ids /\ call'[c].pc = "announce" /\ Others(c)
        /\ \E e : hash' = [hash EXCEPT ![call[c].id] = e]
        /\ UNCHANGED <<status, emits>>
    BY <1>4, StoreStep DEF EnqueueStore
  <2>2. \A k \in Callers : Settling(k, i)' => Settling(k, i) /\ k # c
    BY <2>1 DEF Settling, Others
  <2>3. CASE call[c].id # i
    BY <1>1, <2>1, <2>2, <2>3, TokenStays
  <2>4. CASE call[c].id = i
    BY <1>1, <2>1, <2>2, <2>4 DEF TokenAt, Settling
  <2>5. QED
    BY <2>3, <2>4
<1>5. ASSUME NEW c \in Callers, EnqueueStatus(c) PROVE TokenAt(i)'
  <2>1. /\ call'[c].pc = "stored" /\ Others(c) /\ UNCHANGED <<hash, emits>>
        /\ status' = [status EXCEPT ![call[c].id] = "pending"]
    BY <1>5, AnnounceStep DEF EnqueueStatus, WriteStatus
  <2>2. status'[i] \in Terminal => status[i] \in Terminal
    BY <1>1, <2>1 DEF Terminal
  <2>3. QED
    BY <1>1, <2>1, <2>2, TokenStays DEF Settling, Others
<1>6. ASSUME NEW c \in Callers, NEW j \in Ids, FinalizeDel(c, j) \/ AckDel(c, j)
      PROVE  TokenAt(i)'
  <2>1. /\ call[c].pc \in {"finalize", "ack"} /\ Others(c)
        /\ call'[c].pc = IF hash[j] = None THEN call[c].pc
                         ELSE IF call[c].pc = "finalize" THEN "settle" ELSE "delivered"
        /\ call'[c].id = IF hash[j] = None THEN None ELSE j
        /\ hash' = [hash EXCEPT ![j] = None] /\ UNCHANGED <<status, emits>>
    BY <1>6, DelStep
  <2>2. CASE i # j \/ hash[j] = None
    BY <1>1, <2>1, <2>2, TokenStays DEF Settling, Others
  <2>3. CASE i = j /\ hash[i] # None
    <3>1. emits[i] <= 1 => /\ status[i] \notin Terminal /\ emits[i] # 0
                           /\ \A k \in Callers : ~Settling(k, i)
      BY <1>1, <2>3 DEF TokenAt
    <3>2. emits[i] <= 1 => \A k \in Callers : Settling(k, i)' => k = c
      BY <2>1, <3>1 DEF Settling, Others
    <3>3. hash'[i] = None
      BY <1>1, <2>1, <2>3
    <3>4. QED
      BY <2>1, <3>1, <3>2, <3>3 DEF TokenAt
  <2>4. QED
    BY <2>2, <2>3
<1>7. ASSUME NEW c \in Callers, FinalizeStatus(c) \/ AckStatus(c) PROVE TokenAt(i)'
  <2>1. /\ call[c].pc \in {"settle", "delivered"} /\ call[c].id \in Ids
        /\ call'[c].id = None /\ Others(c)
        /\ \E s \in Terminal : status' = [status EXCEPT ![call[c].id] = s]
        /\ UNCHANGED <<hash, emits>>
    BY <1>7, StatusStep
  <2>2. \A k \in Callers : Settling(k, i)' => Settling(k, i) /\ k # c
    BY <1>1, <2>1 DEF Settling, Others
  <2>3. CASE call[c].id # i
    BY <1>1, <2>1, <2>2, <2>3, TokenStays
  <2>4. CASE call[c].id = i
    BY <1>1, <2>1, <2>2, <2>4 DEF TokenAt, Settling
  <2>5. QED
    BY <2>3, <2>4
<1>8. ASSUME NEW c \in Callers,
             \/ \E all \in BOOLEAN : CollectRead(c, all)
             \/ \E ids \in SUBSET Ids : AckBegin(c, ids)
             \/ CollectReturn(c) \/ Done(c) \/ \E j \in Ids : AttemptBegin(c, j)
      PROVE  TokenAt(i)'
  <2>1. /\ call'[c].pc \in {"idle", "finalize", "ack", "collected", "attempt"} /\ Others(c)
    BY <1>8, ReadStep, AckBeginStep, ReturnStep, IdleStep, BeginAttemptStep
  <2>2. UNCHANGED <<hash, status, emits>>
    BY <1>8 DEF CollectRead, AckBegin, CollectReturn, Done, AttemptBegin
  <2>3. QED
    BY <1>1, <2>1, <2>2, TokenStays DEF Settling, Others
<1>9. ASSUME NEW c \in Callers, AttemptSet(c) PROVE TokenAt(i)'
  <2>1. /\ call'[c].pc = "collected" /\ Others(c) /\ UNCHANGED <<status, emits>>
        /\ call[c].id \in Ids
        /\ IF hash[call[c].id] = None THEN hash' = hash
           ELSE \E e \in Entry : hash' = [hash EXCEPT ![call[c].id] = e]
    BY <1>9, AttemptStep
  <2>2. hash'[i] # None => hash[i] # None
    BY <1>1, <2>1
  <2>3. QED
    BY <1>1, <2>1, <2>2, TokenStays DEF Settling, Others
<1>10. CASE Tick \/ UNCHANGED vars
  BY <1>1, <1>10, TokenStays DEF Tick, vars, Settling
<1>11. CASE KeyExpire
  <2>1. hash'[i] = None
    BY <1>11 DEF KeyExpire, Empty
  <2>2. QED
    BY <1>1, <1>11, <2>1, TokenStays DEF KeyExpire, Settling
<1>12. QED
  BY <1>2, <1>3, <1>4, <1>5, <1>6, <1>7, <1>8, <1>9, <1>10, <1>11
     DEF Next, Begin, Enqueue, Collect, Ack

\* A recorded outcome is changed only by an enqueue of that id.
LEMMA OutcomeStands ==
    ASSUME TypeOK, Token, Next, NEW i \in Ids,
           status[i] \in Terminal, status'[i] # status[i], emits[i] = 1
    PROVE  \E c \in Callers : call[c].pc = "announce" /\ call[c].id = i
<1>1. \A c \in Callers : ~Settling(c, i)
  BY DEF Token, TokenAt
<1>2. ASSUME NEW c \in Callers, FinalizeStatus(c) \/ AckStatus(c) PROVE FALSE
  <2>1. /\ call[c].pc \in {"settle", "delivered"}
        /\ \E s \in Terminal : status' = [status EXCEPT ![call[c].id] = s]
    BY <1>2, StatusStep
  <2>2. QED
    BY <1>1, <2>1 DEF Settling, TypeOK
<1>3. ASSUME NEW c \in Callers, EnqueueReject(c) PROVE FALSE
  BY <1>1, <1>3 DEF EnqueueReject, WriteStatus, At, Settling, TypeOK
<1>4. ASSUME NEW c \in Callers, EnqueueStatus(c)
      PROVE  call[c].pc = "announce" /\ call[c].id = i
  BY <1>4 DEF EnqueueStatus, WriteStatus, At, TypeOK
<1>5. ASSUME NEW c \in Callers,
             \/ Begin(c) \/ EnqueueStore(c) \/ CollectReturn(c) \/ AttemptSet(c) \/ Done(c)
             \/ \E j \in Ids : FinalizeDel(c, j) \/ AttemptBegin(c, j) \/ AckDel(c, j)
      PROVE  FALSE
  BY <1>5 DEF Begin, EnqueueLen, CollectRead, AckBegin, EnqueueStore, CollectReturn,
     AttemptSet, Done, FinalizeDel, AttemptBegin, AckDel
<1>6. ~Tick /\ ~KeyExpire
  BY DEF Tick, KeyExpire
<1>7. QED
  BY <1>2, <1>3, <1>4, <1>5, <1>6 DEF Next, Enqueue, Collect, Ack

\* For any number of calls that race for an entry, one of them decides its
\* outcome, and no other call writes over it.
THEOREM OutcomesAreFinal == Spec => OutcomeFinal
<1>1. Init => Token
  BY NoneAssumption DEF Init, Token, TokenAt, Settling, Idle, Empty, Terminal
<1>2. TypeOK /\ Token /\ [Next]_vars => Token'
  BY TokenKept DEF Token
<1>3. TypeOK /\ Token /\ [Next]_vars =>
        [\A i \in Ids : status[i] \in Terminal /\ status'[i] # status[i] /\ emits[i] = 1 =>
           \E c \in Callers : call[c].pc = "announce" /\ call[c].id = i]_vars
  BY OutcomeStands
<1>4. QED
  BY <1>1, <1>2, <1>3, TypeCorrect, PTL DEF Spec, OutcomeFinal

----------------------------------------------------------------------------
(* What leaves the store is done                                           *)

\* The hash lives as long as its entries, and no call is ahead of the clock.
Clock ==
    /\ keyTtl <= now + Ttl + StatusTtl
    /\ \A c \in Callers : call[c].at <= now

\* The copies that calls hold of a delivery emitted once are of the entry
\* that is stored, and have no more attempts than were recorded.
CopiesAt(i) ==
    emits[i] <= 1 =>
       /\ hash[i] # None => /\ hash[i].createdAt + Ttl <= keyTtl
                            /\ hash[i].attempts <= recorded[i]
       /\ \A c \in Callers : call[c].snap[i] # None =>
            /\ emits[i] = 1
            /\ \A k \in Callers : ~(call[k].pc = "store" /\ call[k].id = i)
            /\ call[c].snap[i].attempts <= recorded[i]
            /\ hash[i] # None => hash[i].createdAt = call[c].snap[i].createdAt

Copies == \A i \in Ids : CopiesAt(i)

\* A finalizer removes what was over in its snapshot.
Over ==
    \A c \in Callers : call[c].pc \in {"finalize", "settle"} =>
        \A i \in call[c].todo : ~Live(call[c].snap[i], call[c].at)

LEMMA ClockKept == TypeOK /\ Clock /\ [Next]_vars => Clock'
<1> SUFFICES ASSUME TypeOK, Clock, [Next]_vars PROVE Clock'
  OBVIOUS
<1>1. /\ now \in Nat /\ keyTtl \in Nat /\ Ttl \in Nat /\ StatusTtl \in Nat
      /\ \A c \in Callers : call[c].at \in Nat
  BY ConfigAssumption DEF TypeOK, CallType
<1>2. ASSUME NEW c \in Callers, Others(c), call'[c].at \in {0, now, call[c].at},
             now' = now, keyTtl' \in {keyTtl, now + Ttl + StatusTtl}
      PROVE  Clock'
  BY <1>1, <1>2 DEF Clock, Others
<1>3. ASSUME NEW c \in Callers, EnqueueStore(c) PROVE Clock'
  BY <1>2, <1>3, StoreStep DEF EnqueueStore
<1>4. ASSUME NEW c \in Callers, Begin(c) PROVE Clock'
  BY <1>2, <1>4, LenStep, ReadStep, AckBeginStep DEF Begin, EnqueueLen, CollectRead, AckBegin
<1>5. ASSUME NEW c \in Callers, EnqueueReject(c) \/ EnqueueStatus(c) \/ Done(c) PROVE Clock'
  BY <1>2, <1>5, IdleStep, AnnounceStep DEF EnqueueReject, EnqueueStatus, Done
<1>6. ASSUME NEW c \in Callers, Collect(c) \/ Ack(c) PROVE Clock'
  <2>1. /\ Others(c) /\ call'[c].at = call[c].at
    BY <1>6, DelStep, StatusStep, ReturnStep, BeginAttemptStep, AttemptStep DEF Collect, Ack
  <2>2. now' = now /\ keyTtl' = keyTtl
    BY <1>6 DEF Collect, Ack, FinalizeDel, FinalizeStatus, CollectReturn, AttemptBegin,
       AttemptSet, AckDel, AckStatus
  <2>3. QED
    BY <1>2, <2>1, <2>2
<1>7. CASE Tick
  BY <1>1, <1>7 DEF Tick, Clock
<1>8. CASE KeyExpire \/ UNCHANGED vars
  BY <1>8 DEF KeyExpire, vars, Clock
<1>9. QED
  BY <1>3, <1>4, <1>5, <1>6, <1>7, <1>8 DEF Next, Enqueue

LEMMA OverKept == TypeOK /\ Over /\ [Next]_vars => Over'
<1> SUFFICES ASSUME TypeOK, Over, [Next]_vars PROVE Over'
  OBVIOUS
<1>1. ASSUME NEW c \in Callers, Others(c),
             call'[c].pc \in {"finalize", "settle"} =>
               \A i \in call'[c].todo : ~Live(call'[c].snap[i], call'[c].at)
      PROVE  Over'
  BY <1>1 DEF Over, Others
<1>2. ASSUME NEW c \in Callers, NEW all \in BOOLEAN, CollectRead(c, all) PROVE Over'
  BY <1>1, <1>2, ReadStep
<1>3. ASSUME NEW c \in Callers, NEW i \in Ids, FinalizeDel(c, i) \/ AckDel(c, i) PROVE Over'
  <2>1. /\ call'[c].pc \in {"finalize", "settle"} => call[c].pc \in {"finalize", "settle"}
        /\ call'[c].todo \subseteq call[c].todo /\ Others(c)
        /\ call'[c].snap = call[c].snap /\ call'[c].at = call[c].at
    BY <1>3, DelStep
  <2>2. QED
    BY <1>1, <2>1 DEF Over
<1>4. ASSUME NEW c \in Callers, FinalizeStatus(c) \/ AckStatus(c) PROVE Over'
  <2>1. /\ call'[c].pc \in {"finalize", "settle"} => call[c].pc \in {"finalize", "settle"}
        /\ call'[c].todo = call[c].todo /\ Others(c)
        /\ call'[c].snap = call[c].snap /\ call'[c].at = call[c].at
    BY <1>4, StatusStep
  <2>2. QED
    BY <1>1, <2>1 DEF Over
<1>5. ASSUME NEW c \in Callers,
             \/ \E i \in Ids : EnqueueLen(c, i) \/ AttemptBegin(c, i)
             \/ \E ids \in SUBSET Ids : AckBegin(c, ids)
             \/ Enqueue(c) \/ CollectReturn(c) \/ AttemptSet(c) \/ Done(c)
      PROVE  Over'
  <2>1. Others(c) /\ call'[c].pc \notin {"finalize", "settle"}
    BY <1>5, LenStep, BeginAttemptStep, AckBeginStep, IdleStep, StoreStep, AnnounceStep,
       ReturnStep, AttemptStep DEF Enqueue
  <2>2. QED
    BY <1>1, <2>1
<1>6. CASE Tick \/ KeyExpire \/ UNCHANGED vars
  BY <1>6 DEF Tick, KeyExpire, vars, Over
<1>7. QED
  BY <1>2, <1>3, <1>4, <1>5, <1>6 DEF Next, Begin, Collect, Ack

\* A step that makes no copy, stores nothing and records nothing.
LEMMA CopiesStay ==
    ASSUME NEW i \in Ids, CopiesAt(i), emits'[i] = emits[i], recorded'[i] = recorded[i],
           keyTtl' = keyTtl, hash'[i] \in {None, hash[i]},
           \A c \in Callers : /\ call'[c].snap[i] \in {None, call[c].snap[i]}
                              /\ call'[c].pc = "store" /\ call'[c].id = i =>
                                   call[c].pc = "store" /\ call[c].id = i
    PROVE  CopiesAt(i)'
BY DEF CopiesAt

LEMMA CopiesKept ==
    ASSUME TypeOK, Token, Clock, Copies, [Next]_vars, NEW i \in Ids
    PROVE  CopiesAt(i)'
<1>1. /\ CopiesAt(i) /\ TokenAt(i) /\ i # None
      /\ hash \in [Ids -> Entry \cup {None}]
      /\ emits \in [Ids -> Nat] /\ recorded \in [Ids -> Nat]
      /\ \A c \in Callers : call[c].snap \in [Ids -> Entry \cup {None}]
      /\ now \in Nat /\ keyTtl \in Nat /\ Ttl \in Nat /\ StatusTtl \in Nat
  BY NoneAssumption, ConfigAssumption DEF Copies, Token, TypeOK, CallType
<1>2. ASSUME NEW c \in Callers, NEW j \in Ids, EnqueueLen(c, j) PROVE CopiesAt(i)'
  <2>1. /\ call'[c].id = j /\ call'[c].snap = Empty /\ Others(c)
        /\ emits' = [emits EXCEPT ![j] = @ + 1] /\ UNCHANGED <<hash, keyTtl, recorded>>
    BY <1>2, LenStep DEF EnqueueLen
  <2>2. call'[c].snap[i] = None
    BY <2>1 DEF Empty
  <2>3. CASE i # j
    <3>1. emits'[i] = emits[i]
      BY <1>1, <2>1, <2>3
    <3>2. QED
      BY <1>1, <2>1, <2>2, <2>3, <3>1, CopiesStay DEF Others
  <2>4. CASE i = j
    <3>1. emits'[i] = emits[i] + 1 /\ emits[i] \in Nat
      BY <1>1, <2>1, <2>4
    <3>2. SUFFICES ASSUME emits[i] = 0 PROVE CopiesAt(i)'
      BY <3>1 DEF CopiesAt
    <3>3. hash'[i] = None /\ \A k \in Callers : call'[k].snap[i] = None
      BY <1>1, <2>1, <2>2, <3>2 DEF TokenAt, CopiesAt, Others
    <3>4. QED
      BY <3>3 DEF CopiesAt
  <2>5. QED
    BY <2>3, <2>4
<1>3. ASSUME NEW c \in Callers, NEW all \in BOOLEAN, CollectRead(c, all) PROVE CopiesAt(i)'
  <2>1. /\ call'[c].pc = "finalize" /\ call'[c].snap = hash /\ Others(c)
        /\ UNCHANGED <<hash, keyTtl, emits, recorded>>
    BY <1>3, ReadStep DEF CollectRead
  <2>2. SUFFICES ASSUME emits[i] <= 1 PROVE CopiesAt(i)'
    BY <2>1 DEF CopiesAt
  <2>3. hash[i] # None => /\ emits[i] = 1 /\ hash[i].attempts <= recorded[i]
                          /\ \A k \in Callers : ~(call[k].pc = "store" /\ call[k].id = i)
    BY <1>1, <2>2 DEF TokenAt, Settling, CopiesAt
  <2>4. \A k \in Callers : call'[k].snap[i] # None =>
          \/ k = c /\ call'[k].snap[i] = hash[i] /\ hash[i] # None
          \/ call'[k].snap[i] = call[k].snap[i]
    BY <2>1 DEF Others
  <2>5. \A k \in Callers : ~(call[k].pc = "store" /\ call[k].id = i) =>
                           ~(call'[k].pc = "store" /\ call'[k].id = i)
    BY <2>1 DEF Others
  <2>6. QED
    BY <1>1, <2>1, <2>2, <2>3, <2>4, <2>5 DEF CopiesAt
<1>4. ASSUME NEW c \in Callers, EnqueueStore(c) PROVE CopiesAt(i)'
  <2> DEFINE j == call[c].id
             e == [data |-> call[c].data, createdAt |-> call[c].at,
                   attempts |-> 0, nextAttemptAt |-> call[c].at]
  <2>1. /\ call[c].pc = "store" /\ j \in Ids /\ call'[c].pc = "announce"
        /\ call'[c].snap = call[c].snap /\ Others(c)
        /\ hash' = [hash EXCEPT ![j] = e] /\ recorded' = [recorded EXCEPT ![j] = 0]
        /\ keyTtl' = now + Ttl + StatusTtl /\ emits' = emits
    BY <1>4, StoreStep DEF EnqueueStore
  <2>2. e.createdAt = call[c].at /\ e.attempts = 0
    OBVIOUS
  <2>3. keyTtl <= keyTtl' /\ call[c].at \in Nat /\ call[c].at + Ttl <= keyTtl'
    BY <1>1, <2>1 DEF Clock, TypeOK, CallType
  <2> HIDE DEF e
  <2>4. SUFFICES ASSUME emits[i] <= 1 PROVE CopiesAt(i)'
    BY <2>1 DEF CopiesAt
  <2>5. \A k \in Callers : call'[k].snap = call[k].snap
    BY <2>1 DEF Others
  <2>6. CASE i = j
    <3>1. \A k \in Callers : call'[k].snap[i] = None
      BY <1>1, <2>1, <2>4, <2>5, <2>6 DEF CopiesAt
    <3>2. hash'[i] = e /\ recorded'[i] = 0
      BY <1>1, <2>1, <2>6
    <3>3. QED
      BY <2>2, <2>3, <3>1, <3>2 DEF CopiesAt
  <2>7. CASE i # j
    <3>1. hash'[i] = hash[i] /\ recorded'[i] = recorded[i]
      BY <1>1, <2>1, <2>7
    <3>2. \A k \in Callers : ~(call[k].pc = "store" /\ call[k].id = i) =>
                             ~(call'[k].pc = "store" /\ call'[k].id = i)
      BY <2>1 DEF Others
    <3>3. hash[i] # None => hash[i].createdAt + Ttl \in Nat
      BY <1>1 DEF Entry
    <3>4. hash'[i] # None => /\ hash'[i].createdAt + Ttl <= keyTtl'
                             /\ hash'[i].attempts <= recorded'[i]
      <4>1. keyTtl' \in Nat
        BY <1>1, <2>1
      <4>2. QED
        BY <1>1, <2>3, <2>4, <3>1, <3>3, <4>1 DEF CopiesAt
    <3>5. QED
      BY <1>1, <2>1, <2>4, <2>5, <3>1, <3>2, <3>4 DEF CopiesAt
  <2>8. QED
    BY <2>6, <2>7
<1>5. ASSUME NEW c \in Callers, NEW j \in Ids, FinalizeDel(c, j) \/ AckDel(c, j)
      PROVE  CopiesAt(i)'
  <2>1. /\ call'[c].pc \in {"finalize", "ack", "settle", "delivered"}
        /\ call'[c].snap = call[c].snap /\ Others(c)
        /\ hash' = [hash EXCEPT ![j] = None] /\ UNCHANGED <<keyTtl, emits, recorded>>
    BY <1>5, DelStep
  <2>2. hash'[i] \in {None, hash[i]}
    BY <1>1, <2>1
  <2>3. QED
    BY <1>1, <2>1, <2>2, CopiesStay DEF Others
<1>6. ASSUME NEW c \in Callers,
             \/ EnqueueReject(c) \/ EnqueueStatus(c) \/ Done(c)
             \/ FinalizeStatus(c) \/ CollectReturn(c) \/ AckStatus(c)
             \/ \E j \in Ids : AttemptBegin(c, j)
             \/ \E ids \in SUBSET Ids : AckBegin(c, ids)
      PROVE  CopiesAt(i)'
  <2>1. /\ call'[c].pc # "store" /\ Others(c)
        /\ \A j \in Ids : call'[c].snap[j] \in {None, call[c].snap[j]}
    BY <1>6, IdleStep, AnnounceStep, StatusStep, ReturnStep, BeginAttemptStep, AckBeginStep
       DEF Empty
  <2>2. UNCHANGED <<hash, keyTtl, emits, recorded>>
    BY <1>6 DEF EnqueueReject, EnqueueStatus, Done, FinalizeStatus, CollectReturn, AckStatus,
       AttemptBegin, AckBegin
  <2>3. QED
    BY <1>1, <2>1, <2>2, CopiesStay DEF Others
<1>7. ASSUME NEW c \in Callers, AttemptSet(c) PROVE CopiesAt(i)'
  <2> DEFINE j == call[c].id
  <2>1. /\ j \in Ids /\ call[c].snap[j] \in Entry /\ call'[c].pc = "collected" /\ Others(c)
        /\ \A k \in Ids : call'[c].snap[k] \in {None, call[c].snap[k]}
        /\ UNCHANGED <<keyTtl, emits>>
    BY <1>7, AttemptStep
  <2>2. CASE hash[j] = None
    <3>1. UNCHANGED <<hash, recorded>>
      BY <1>7, <2>2, AttemptStep
    <3>2. QED
      BY <1>1, <2>1, <3>1, CopiesStay DEF Others
  <2>3. CASE hash[j] # None /\ i # j
    <3>1. hash'[i] = hash[i] /\ recorded'[i] = recorded[i]
      <4>1. \E e \in Entry : /\ hash' = [hash EXCEPT ![j] = e]
                             /\ recorded' = [recorded EXCEPT ![j] = @ + 1]
        BY <1>7, <2>3, AttemptStep
      <4>2. QED
        BY <1>1, <2>3, <4>1
    <3>2. QED
      BY <1>1, <2>1, <3>1, CopiesStay DEF Others
  <2>4. CASE hash[j] # None /\ i = j
    <3>1. PICK e \in Entry :
            /\ e.attempts = call[c].snap[i].attempts + 1
            /\ e.createdAt = call[c].snap[i].createdAt
            /\ hash' = [hash EXCEPT ![i] = e] /\ recorded' = [recorded EXCEPT ![i] = @ + 1]
      BY <1>7, <2>4, AttemptStep
    <3>2. hash'[i] = e /\ recorded'[i] = recorded[i] + 1 /\ recorded[i] \in Nat
      BY <1>1, <3>1
    <3>3. SUFFICES ASSUME emits[i] <= 1 PROVE CopiesAt(i)'
      BY <2>1 DEF CopiesAt
    <3>4. call[c].snap[i] # None /\ call[c].snap[i] \in Entry /\ hash[i] # None
      BY <2>1, <2>4, NoneAssumption
    <3>5. /\ e.createdAt = hash[i].createdAt /\ e.attempts <= recorded[i] + 1
      BY <1>1, <3>1, <3>2, <3>3, <3>4 DEF CopiesAt, Entry
    <3>6. hash'[i] # None => /\ hash'[i].createdAt + Ttl <= keyTtl'
                             /\ hash'[i].attempts <= recorded'[i]
      BY <1>1, <2>1, <3>2, <3>3, <3>4, <3>5 DEF CopiesAt
    <3>7. ASSUME NEW k \in Callers, call'[k].snap[i] # None
          PROVE  /\ emits'[i] = 1
                 /\ \A g \in Callers : ~(call'[g].pc = "store" /\ call'[g].id = i)
                 /\ call'[k].snap[i].attempts <= recorded'[i]
                 /\ hash'[i].createdAt = call'[k].snap[i].createdAt
      <4>1. call'[k].snap[i] = call[k].snap[i] /\ call[k].snap[i] # None
        BY <2>1, <3>7 DEF Others
      <4>2. /\ emits[i] = 1 /\ hash[i].createdAt = call[k].snap[i].createdAt
            /\ call[k].snap[i].attempts <= recorded[i]
            /\ \A g \in Callers : ~(call[g].pc = "store" /\ call[g].id = i)
        BY <1>1, <3>3, <3>4, <4>1 DEF CopiesAt
      <4>3. call[k].snap[i].attempts \in Nat
        BY <1>1, <4>1 DEF Entry
      <4>4. \A g \in Callers : ~(call'[g].pc = "store" /\ call'[g].id = i)
        BY <2>1, <4>2 DEF Others
      <4>5. QED
        BY <2>1, <3>2, <3>5, <4>1, <4>2, <4>3, <4>4
    <3>8. QED
      BY <3>6, <3>7 DEF CopiesAt
  <2>5. QED
    BY <2>2, <2>3, <2>4
<1>8. CASE Tick \/ UNCHANGED vars
  BY <1>1, <1>8, CopiesStay DEF Tick, vars
<1>9. CASE KeyExpire
  <2>1. hash'[i] = None
    BY <1>9 DEF KeyExpire, Empty
  <2>2. QED
    BY <1>1, <1>9, <2>1, CopiesStay DEF KeyExpire
<1>10. QED
  BY <1>2, <1>3, <1>4, <1>5, <1>6, <1>7, <1>8, <1>9 DEF Next, Begin, Enqueue, Collect, Ack

\* Only a delete, or the end of the whole hash, takes an entry out.
LEMMA OnlyDeleteRemoves ==
    ASSUME TypeOK, Next, NEW i \in Ids, hash[i] # None, hash'[i] = None
    PROVE  \/ \E c \in Callers : FinalizeDel(c, i) \/ AckDel(c, i)
           \/ KeyExpire
<1>1. hash \in [Ids -> Entry \cup {None}]
  BY DEF TypeOK
<1>2. ASSUME NEW c \in Callers, NEW j \in Ids, FinalizeDel(c, j) \/ AckDel(c, j)
      PROVE  i = j
  <2>1. hash' = [hash EXCEPT ![j] = None]
    BY <1>2, DelStep
  <2>2. QED
    BY <1>1, <2>1
<1>3. ASSUME NEW c \in Callers, EnqueueStore(c) PROVE FALSE
  <2> DEFINE e == [data |-> call[c].data, createdAt |-> call[c].at,
                   attempts |-> 0, nextAttemptAt |-> call[c].at]
  <2>1. e \in Entry
    BY DEF Entry, TypeOK, CallType
  <2>2. hash' = [hash EXCEPT ![call[c].id] = e]
    BY <1>3 DEF EnqueueStore
  <2> HIDE DEF e
  <2>3. QED
    BY <1>1, <2>1, <2>2, NoneAssumption
<1>4. ASSUME NEW c \in Callers, AttemptSet(c) PROVE FALSE
  <2>1. IF hash[call[c].id] = None THEN hash' = hash
        ELSE \E e \in Entry : hash' = [hash EXCEPT ![call[c].id] = e]
    BY <1>4, AttemptStep
  <2>2. QED
    BY <1>1, <2>1, NoneAssumption
<1>5. ASSUME NEW c \in Callers,
             \/ Begin(c) \/ EnqueueReject(c) \/ EnqueueStatus(c) \/ Done(c)
             \/ FinalizeStatus(c) \/ CollectReturn(c) \/ AckStatus(c)
             \/ \E j \in Ids : AttemptBegin(c, j)
      PROVE  FALSE
  BY <1>5 DEF Begin, EnqueueLen, CollectRead, AckBegin, EnqueueReject, EnqueueStatus, Done,
     FinalizeStatus, CollectReturn, AckStatus, AttemptBegin
<1>6. ~Tick
  BY DEF Tick
<1>7. QED
  BY <1>2, <1>3, <1>4, <1>5, <1>6 DEF Next, Enqueue, Collect, Ack

\* What removes an entry has a right to.
LEMMA RemovalJustified ==
    ASSUME TypeOK, Token, Clock, Copies, Over, Next, NEW i \in Ids,
           hash[i] # None, hash'[i] = None, emits[i] = 1
    PROVE  \/ \E c \in Callers : call[c].pc = "ack" /\ i \in call[c].todo
                                   /\ call'[c].pc = "delivered"
           \/ now >= hash[i].createdAt + Ttl
           \/ recorded[i] >= MaxAttempts
<1> DEFINE Justified ==
             \/ \E c \in Callers : call[c].pc = "ack" /\ i \in call[c].todo
                                    /\ call'[c].pc = "delivered"
             \/ now >= hash[i].createdAt + Ttl
             \/ recorded[i] >= MaxAttempts
<1>1. /\ hash[i] \in Entry /\ now \in Nat /\ keyTtl \in Nat /\ Ttl \in Nat
      /\ recorded[i] \in Nat /\ MaxAttempts \in Nat
  BY ConfigAssumption DEF TypeOK
<1>2. CASE KeyExpire
  BY <1>1, <1>2 DEF KeyExpire, Copies, CopiesAt, Entry
<1>3. ASSUME NEW c \in Callers, AckDel(c, i) PROVE Justified
  <2>1. call[c].pc = "ack" /\ i \in call[c].todo
    BY <1>3 DEF AckDel, At
  <2>2. call'[c].pc = "delivered"
    BY <1>3, <2>1, DelStep
  <2>3. QED
    BY <2>1, <2>2
<1>4. ASSUME NEW c \in Callers, FinalizeDel(c, i) PROVE Justified
  <2> DEFINE e == call[c].snap[i]
  <2>1. call[c].pc = "finalize" /\ i \in call[c].todo
    BY <1>4 DEF FinalizeDel, At
  <2>2. e # None /\ e \in Entry /\ call[c].at \in Nat /\ call[c].at <= now
    BY <2>1 DEF TypeOK, WellFormed, CallType, Clock
  <2>3. e.createdAt = hash[i].createdAt /\ e.attempts <= recorded[i]
    BY <2>2 DEF Copies, CopiesAt
  <2>4. ~Live(e, call[c].at)
    BY <2>1 DEF Over
  <2>5. call[c].at >= e.createdAt + Ttl \/ e.attempts >= MaxAttempts
    BY <2>4 DEF Live, Expired, Exhausted
  <2> HIDE DEF e
  <2>6. e.createdAt \in Nat /\ e.attempts \in Nat
    BY <2>2 DEF Entry
  <2>7. QED
    BY <1>1, <2>2, <2>3, <2>5, <2>6
<1>5. QED
  BY <1>2, <1>3, <1>4, OnlyDeleteRemoves

\* Whatever snapshot a call acts on, the entry it removes is acked, past its
\* deadline or out of attempts; and the hash does not expire before them.
THEOREM NothingLeavesEarly == Spec => LeavesOnlyWhenDone
<1> DEFINE Inv == Token /\ Clock /\ Copies /\ Over
<1>1. Init => Inv
  BY NoneAssumption, ConfigAssumption
     DEF Init, Token, TokenAt, Settling, Clock, Copies, CopiesAt, Over, Idle, Empty, Terminal
<1>2. TypeOK /\ Inv /\ [Next]_vars => Inv'
  BY TokenKept, ClockKept, CopiesKept, OverKept DEF Token, Copies
<1>3. TypeOK /\ Inv /\ [Next]_vars =>
        [\A i \in Ids : hash[i] # None /\ hash'[i] = None /\ emits[i] = 1 =>
           \/ \E c \in Callers : call[c].pc = "ack" /\ i \in call[c].todo
                                  /\ call'[c].pc = "delivered"
           \/ now >= hash[i].createdAt + Ttl
           \/ recorded[i] >= MaxAttempts]_vars
  BY RemovalJustified
<1>4. QED
  BY <1>1, <1>2, <1>3, TypeCorrect, PTL DEF Spec, LeavesOnlyWhenDone
=============================================================================
