------------------------- MODULE OfflineQueueProofs -------------------------
(***************************************************************************)
(* What OfflineQueue promises, for any number of tabs, keys and actions:   *)
(* its replay goes oldest first, in every tab; and a browser with one tab  *)
(* loses nothing but what was taken during an await.                       *)
(***************************************************************************)
EXTENDS OfflineQueue, SequenceTheorems, TLAPS

----------------------------------------------------------------------------
(* The lists: oldest first, one action per key, within the bound           *)

Oldest(list) == \A j, k \in DOMAIN list : j < k => list[j].id < list[k].id
OnePerKey(list) == \A j, k \in DOMAIN list : list[j].key = list[k].key => j = k

\* A list that was built while n actions had been taken.
Sound(list, n) ==
    /\ list \in Seq(Action)
    /\ Oldest(list) /\ OnePerKey(list)
    /\ Len(list) <= MaxQueue
    /\ \A k \in DOMAIN list : list[k].id <= n

\* No action of the list is older than the given one.
From(list, i) == \A k \in DOMAIN list : list[k].id >= i

----------------------------------------------------------------------------
(* What the operations on a list preserve                                  *)

\* Every element of a list is an action.
LEMMA Elements ==
    ASSUME NEW list \in Seq(Action)
    PROVE  /\ Len(list) \in Nat /\ DOMAIN list = 1 .. Len(list)
           /\ \A k \in 1 .. Len(list) : list[k] \in Action /\ list[k].id \in Nat
<1>1. /\ Len(list) \in Nat /\ DOMAIN list = 1 .. Len(list)
      /\ \A k \in 1 .. Len(list) : list[k] \in Action
  BY LenProperties, ElementOfSeq
<1>2. \A a \in Action : a.id \in Nat
  BY DEF Action
<1>3. QED
  BY <1>1, <1>2

LEMMA SoundLater ==
    ASSUME NEW n \in Nat, NEW m \in Nat, n <= m, NEW list, Sound(list, n)
    PROVE  Sound(list, m)
<1>1. \A k \in DOMAIN list : list[k].id \in Nat
  BY Elements DEF Sound
<1>2. QED
  BY <1>1 DEF Sound

LEMMA TailIsSound ==
    ASSUME NEW n \in Nat, NEW list, Sound(list, n), list # <<>>
    PROVE  /\ Sound(Tail(list), n)
           /\ Head(list) = list[1] /\ Head(list) \in Action /\ Head(list).id \in 1 .. n
           /\ From(list, Head(list).id)
           /\ IdsIn(list) = {Head(list).id} \cup IdsIn(Tail(list))
<1> DEFINE rest == Tail(list)
<1>1. /\ list \in Seq(Action) /\ Len(list) \in Nat /\ Len(list) >= 1
      /\ DOMAIN list = 1 .. Len(list)
      /\ \A k \in 1 .. Len(list) : list[k] \in Action /\ list[k].id \in Nat
  BY Elements, EmptySeq DEF Sound
<1>2. /\ rest \in Seq(Action) /\ Len(rest) = Len(list) - 1
      /\ DOMAIN rest = 1 .. (Len(list) - 1)
      /\ \A k \in 1 .. (Len(list) - 1) : rest[k] = list[k + 1]
  BY <1>1, HeadTailProperties, Elements
<1>3. Head(list) = list[1]
  BY <1>1
<1> HIDE DEF rest
<1>4. /\ \A j, k \in 1 .. Len(list) : j < k => list[j].id < list[k].id
      /\ \A j, k \in 1 .. Len(list) : list[j].key = list[k].key => j = k
      /\ Len(list) <= MaxQueue /\ MaxQueue \in Nat
      /\ \A k \in 1 .. Len(list) : list[k].id <= n
  BY <1>1, BoundsAssumption DEF Sound, Oldest, OnePerKey
<1>5. Sound(rest, n)
  <2>1. Oldest(rest)
    <3>1. ASSUME NEW j \in 1 .. (Len(list) - 1), NEW k \in 1 .. (Len(list) - 1), j < k
          PROVE  rest[j].id < rest[k].id
      <4>1. j + 1 \in 1 .. Len(list) /\ k + 1 \in 1 .. Len(list) /\ j + 1 < k + 1
        BY <1>1, <3>1
      <4>2. QED
        BY <1>2, <1>4, <4>1
    <3>2. QED
      BY <1>2, <3>1 DEF Oldest
  <2>2. OnePerKey(rest)
    <3>1. ASSUME NEW j \in 1 .. (Len(list) - 1), NEW k \in 1 .. (Len(list) - 1),
                 rest[j].key = rest[k].key
          PROVE  j = k
      <4>1. j + 1 \in 1 .. Len(list) /\ k + 1 \in 1 .. Len(list)
        BY <1>1
      <4>2. j + 1 = k + 1
        BY <1>2, <1>4, <3>1, <4>1
      <4>3. QED
        BY <4>2
    <3>2. QED
      BY <1>2, <3>1 DEF OnePerKey
  <2>3. \A k \in DOMAIN rest : rest[k].id <= n
    BY <1>1, <1>2, <1>4
  <2>4. QED
    BY <1>1, <1>2, <1>4, <2>1, <2>2, <2>3 DEF Sound
<1>6. list[1] \in Action /\ list[1].id \in 1 .. n
  BY <1>1, <1>4 DEF Action
<1>7. From(list, list[1].id)
  BY <1>1, <1>4 DEF From
<1>8. IdsIn(list) = {list[1].id} \cup IdsIn(rest)
  <2>1. \A k \in 1 .. Len(list) : k = 1 \/ (k - 1 \in 1 .. (Len(list) - 1) /\ rest[k - 1] = list[k])
    BY <1>1, <1>2
  <2>2. \A k \in 1 .. (Len(list) - 1) : k + 1 \in 1 .. Len(list) /\ rest[k] = list[k + 1]
    BY <1>1, <1>2
  <2>3. IdsIn(list) \subseteq {list[1].id} \cup IdsIn(rest)
    <3>1. ASSUME NEW k \in 1 .. Len(list), k # 1
          PROVE  list[k].id \in IdsIn(rest)
      <4>1. k - 1 \in DOMAIN rest /\ rest[k - 1] = list[k]
        BY <1>2, <2>1, <3>1
      <4>2. QED
        BY <4>1 DEF IdsIn
    <3>2. QED
      BY <1>1, <3>1 DEF IdsIn
  <2>4. IdsIn(rest) \subseteq IdsIn(list)
    <3>1. ASSUME NEW k \in DOMAIN rest PROVE rest[k].id \in IdsIn(list)
      <4>1. k + 1 \in DOMAIN list /\ rest[k] = list[k + 1]
        BY <1>1, <1>2, <2>2
      <4>2. QED
        BY <4>1 DEF IdsIn
    <3>2. QED
      BY <3>1 DEF IdsIn
  <2>5. list[1].id \in IdsIn(list)
    BY <1>1 DEF IdsIn
  <2>6. QED
    BY <2>3, <2>4, <2>5
<1>9. QED
  BY <1>3, <1>5, <1>6, <1>7, <1>8 DEF rest

\* Without the action of a key, the others are in their order.
LEMMA WithoutIsSound ==
    ASSUME NEW n \in Nat, NEW list, Sound(list, n), NEW key
    PROVE  LET left == Without(list, key)
           IN  /\ Sound(left, n)
               /\ \A k \in DOMAIN left : left[k].key # key
               /\ IdsIn(left) \subseteq IdsIn(list)
               /\ \A i : From(list, i) => From(left, i)
<1> DEFINE same == {k \in DOMAIN list : list[k].key = key}
           left == Without(list, key)
<1>1. /\ list \in Seq(Action) /\ Len(list) \in Nat
      /\ DOMAIN list = 1 .. Len(list)
      /\ \A k \in 1 .. Len(list) : list[k] \in Action /\ list[k].id \in Nat
  BY Elements DEF Sound
<1>2. CASE same = {}
  <2>1. left = list
    BY <1>2 DEF Without
  <2>2. QED
    BY <1>2, <2>1
<1>3. CASE same # {}
  <2> DEFINE m == CHOOSE k \in same : TRUE
             before == SubSeq(list, 1, m - 1)
             after == SubSeq(list, m + 1, Len(list))
  <2>1. left = before \o after
    BY <1>3 DEF Without, RemoveAt
  <2>2. m \in 1 .. Len(list) /\ list[m].key = key
    BY <1>1, <1>3
  <2> HIDE DEF m
  <2>3. /\ before \in Seq(Action) /\ Len(before) = m - 1
        /\ \A k \in 1 .. (m - 1) : before[k] = list[k]
    BY <1>1, <2>2, SubSeqProperties
  <2>4. /\ after \in Seq(Action) /\ Len(after) = Len(list) - m
        /\ \A k \in 1 .. (Len(list) - m) : after[k] = list[k + m]
    <3>1. /\ m + 1 \in Int /\ Len(list) \in Int
          /\ \A k \in (m + 1) .. Len(list) : list[k] \in Action
      BY <1>1, <2>2
    <3>2. /\ after \in Seq(Action)
          /\ Len(after) = IF m + 1 <= Len(list) THEN Len(list) - (m + 1) + 1 ELSE 0
          /\ \A k \in 1 .. (Len(list) - (m + 1) + 1) : after[k] = list[(m + 1) + k - 1]
      BY <3>1, SubSeqProperties
    <3> HIDE DEF after
    <3>3. Len(after) = Len(list) - m
      <4>1. CASE m + 1 <= Len(list)
        <5>1. Len(after) = Len(list) - (m + 1) + 1
          BY <3>2, <4>1
        <5>2. QED
          BY <1>1, <2>2, <5>1
      <4>2. CASE ~(m + 1 <= Len(list))
        <5>1. Len(after) = 0
          BY <3>2, <4>2
        <5>2. m = Len(list)
          BY <1>1, <2>2, <4>2
        <5>3. QED
          BY <1>1, <5>1, <5>2
      <4>3. QED
        BY <4>1, <4>2
    <3>4. ASSUME NEW k \in 1 .. (Len(list) - m) PROVE after[k] = list[k + m]
      <4>1. k \in 1 .. (Len(list) - (m + 1) + 1) /\ (m + 1) + k - 1 = k + m
        BY <1>1, <2>2
      <4>2. QED
        BY <3>2, <4>1
    <3>5. QED
      BY <3>2, <3>3, <3>4
  <2> HIDE DEF before, after
  <2> DEFINE at(k) == IF k < m THEN k ELSE k + 1
  <2>5. /\ left \in Seq(Action) /\ Len(left) = Len(list) - 1
        /\ \A k \in 1 .. (Len(list) - 1) : left[k] = list[at(k)]
    <3>1. /\ left \in Seq(Action) /\ Len(left) = (m - 1) + (Len(list) - m)
          /\ \A k \in 1 .. (m - 1) + (Len(list) - m) :
               left[k] = IF k <= m - 1 THEN before[k] ELSE after[k - (m - 1)]
      <4>1. /\ before \o after \in Seq(Action)
            /\ Len(before \o after) = Len(before) + Len(after)
            /\ \A k \in 1 .. Len(before) + Len(after) : (before \o after)[k] =
                 IF k <= Len(before) THEN before[k] ELSE after[k - Len(before)]
        BY <2>3, <2>4, ConcatProperties
      <4> HIDE DEF left
      <4>2. QED
        BY <2>1, <2>3, <2>4, <4>1
    <3> HIDE DEF left
    <3>2. ASSUME NEW k \in 1 .. (Len(list) - 1) PROVE left[k] = list[at(k)]
      <4>1. k \in 1 .. (m - 1) + (Len(list) - m)
        BY <1>1, <2>2
      <4>2. CASE k < m
        BY <1>1, <2>2, <2>3, <3>1, <4>1, <4>2
      <4>3. CASE ~(k < m)
        <5>1. k - (m - 1) \in 1 .. (Len(list) - m) /\ (k - (m - 1)) + m = k + 1 /\ ~(k <= m - 1)
          BY <1>1, <2>2, <4>3
        <5>2. QED
          BY <2>4, <3>1, <4>1, <4>3, <5>1
      <4>4. QED
        BY <4>2, <4>3
    <3>3. QED
      BY <1>1, <2>2, <3>1, <3>2
  <2> HIDE DEF left
  <2>6. DOMAIN left = 1 .. (Len(list) - 1)
    BY <2>5, LenProperties
  <2>7. ASSUME NEW k \in 1 .. (Len(list) - 1)
        PROVE  at(k) \in 1 .. Len(list) /\ at(k) # m /\ left[k] = list[at(k)]
    BY <1>1, <2>2, <2>5
  <2>8. \A j, k \in 1 .. (Len(list) - 1) : j < k => at(j) < at(k)
    BY <1>1, <2>2
  <2>9. \A j, k \in 1 .. (Len(list) - 1) : at(j) = at(k) => j = k
    BY <1>1, <2>2
  <2> HIDE DEF at
  <2>10. Oldest(left)
    <3>1. ASSUME NEW j \in 1 .. (Len(list) - 1), NEW k \in 1 .. (Len(list) - 1), j < k
          PROVE  left[j].id < left[k].id
      <4>1. at(j) \in DOMAIN list /\ at(k) \in DOMAIN list /\ at(j) < at(k)
        BY <1>1, <2>7, <2>8, <3>1
      <4>2. list[at(j)].id < list[at(k)].id
        BY <4>1 DEF Oldest, Sound
      <4>3. QED
        BY <2>7, <4>2
    <3>2. QED
      BY <2>6, <3>1 DEF Oldest
  <2>11. OnePerKey(left)
    <3>1. ASSUME NEW j \in 1 .. (Len(list) - 1), NEW k \in 1 .. (Len(list) - 1),
                 left[j].key = left[k].key
          PROVE  j = k
      <4>1. at(j) \in DOMAIN list /\ at(k) \in DOMAIN list /\ list[at(j)].key = list[at(k)].key
        BY <1>1, <2>7, <3>1
      <4>2. at(j) = at(k)
        BY <4>1 DEF OnePerKey, Sound
      <4>3. QED
        BY <2>9, <4>2
    <3>2. QED
      BY <2>6, <3>1 DEF OnePerKey
  <2>12. \A k \in DOMAIN left : left[k].id <= n /\ left[k].key # key
    <3>1. ASSUME NEW k \in 1 .. (Len(list) - 1) PROVE left[k].id <= n /\ left[k].key # key
      <4>1. at(k) \in DOMAIN list /\ m \in DOMAIN list /\ at(k) # m /\ left[k] = list[at(k)]
        BY <1>1, <2>2, <2>7
      <4>2. list[at(k)].id <= n /\ list[at(k)].key # list[m].key
        BY <4>1 DEF OnePerKey, Sound
      <4>3. QED
        BY <2>2, <4>1, <4>2
    <3>2. QED
      BY <2>6, <3>1
  <2>13. \A i : From(list, i) => From(left, i)
    BY <1>1, <2>6, <2>7 DEF From
  <2>14. Len(left) <= MaxQueue
    BY <1>1, <2>5, BoundsAssumption DEF Sound
  <2>15. IdsIn(left) \subseteq IdsIn(list)
    BY <1>1, <2>6, <2>7 DEF IdsIn
  <2>16. QED
    BY <2>5, <2>10, <2>11, <2>12, <2>13, <2>14, <2>15 DEF Sound, left
<1>4. QED
  BY <1>2, <1>3

\* A new action goes to the end; what a full queue pushes out for it is the
\* oldest.
LEMMA PlacedIsSound ==
    ASSUME NEW n \in Nat, NEW list, Sound(list, n), NEW a \in Action, a.id = n + 1
    PROVE  LET next == Bounded(Placed(list, a))
           IN  /\ Sound(next, n + 1) /\ n + 1 \in IdsIn(next)
               /\ IdsIn(next) \subseteq IdsIn(list) \cup {n + 1}
               /\ \A i \in Nat : i <= n + 1 /\ From(list, i) => From(next, i)
<1> DEFINE left == Without(list, a.key)
           p == Placed(list, a)
<1>1. /\ Sound(left, n)
      /\ \A k \in DOMAIN left : left[k].key # a.key
      /\ IdsIn(left) \subseteq IdsIn(list)
      /\ \A i : From(list, i) => From(left, i)
  BY WithoutIsSound
<1>2. p = Append(left, a)
  BY DEF Placed
<1> HIDE DEF left
<1>3. /\ left \in Seq(Action) /\ Len(left) \in Nat /\ DOMAIN left = 1 .. Len(left)
      /\ \A k \in 1 .. Len(left) : left[k] \in Action /\ left[k].id \in Nat
  BY <1>1, Elements DEF Sound
<1>4. /\ p \in Seq(Action) /\ Len(p) = Len(left) + 1
      /\ \A k \in 1 .. Len(left) : p[k] = left[k]
      /\ p[Len(left) + 1] = a
  BY <1>2, <1>3, AppendProperties
<1> HIDE DEF p
<1>5. DOMAIN p = 1 .. (Len(left) + 1) /\ MaxQueue \in Nat \ {0} /\ Len(left) <= MaxQueue
  BY <1>1, <1>4, LenProperties, BoundsAssumption DEF Sound
<1>6. /\ \A j, k \in 1 .. Len(left) : j < k => left[j].id < left[k].id
      /\ \A j, k \in 1 .. Len(left) : left[j].key = left[k].key => j = k
      /\ \A k \in 1 .. Len(left) : left[k].id <= n /\ left[k].key # a.key
  BY <1>1, <1>3 DEF Sound, Oldest, OnePerKey
<1>7. Oldest(p)
  BY <1>3, <1>4, <1>5, <1>6 DEF Oldest
<1>8. OnePerKey(p)
  BY <1>3, <1>4, <1>5, <1>6 DEF OnePerKey
<1>9. \A k \in DOMAIN p : p[k].id <= n + 1 /\ p[k].id \in Nat
  BY <1>3, <1>4, <1>5, <1>6
<1>10. ASSUME NEW i \in Nat, i <= n + 1, From(list, i) PROVE From(p, i)
  BY <1>1, <1>3, <1>4, <1>5, <1>10 DEF From
<1>a. IdsIn(p) \subseteq IdsIn(list) \cup {n + 1}
  <2>1. ASSUME NEW k \in DOMAIN p PROVE p[k].id \in IdsIn(left) \cup {n + 1}
    <3>1. CASE k = Len(left) + 1
      BY <1>2, <1>4, <3>1
    <3>2. CASE k # Len(left) + 1
      <4>1. k \in DOMAIN left /\ p[k] = left[k]
        BY <1>3, <1>4, <1>5, <3>2
      <4>2. QED
        BY <4>1 DEF IdsIn
    <3>3. QED
      BY <3>1, <3>2
  <2>2. IdsIn(p) \subseteq IdsIn(left) \cup {n + 1}
    BY <2>1 DEF IdsIn
  <2>3. QED
    BY <1>1, <2>2
<1>11. CASE Len(p) <= MaxQueue
  <2>1. Bounded(p) = p
    BY <1>3, <1>4, <1>5, <1>11 DEF Bounded
  <2>2. Sound(p, n + 1)
    BY <1>4, <1>7, <1>8, <1>9, <1>11 DEF Sound
  <2>3. n + 1 \in IdsIn(p)
    BY <1>3, <1>4, <1>5 DEF IdsIn
  <2>4. QED
    BY <1>10, <1>a, <2>1, <2>2, <2>3 DEF p
<1>12. CASE Len(p) > MaxQueue
  <2> DEFINE rest == Tail(p)
  <2>1. Bounded(p) = rest
    BY <1>12 DEF Bounded
  <2>2. /\ rest \in Seq(Action) /\ Len(rest) = Len(left)
        /\ \A k \in 1 .. Len(left) : rest[k] = p[k + 1]
    BY <1>3, <1>4, HeadTailProperties, EmptySeq
  <2> HIDE DEF rest
  <2>3. DOMAIN rest = 1 .. Len(left)
    BY <2>2, LenProperties
  <2>4. \A k \in 1 .. Len(left) : k + 1 \in DOMAIN p
    BY <1>3, <1>5
  <2>5. Oldest(rest)
    <3>1. ASSUME NEW j \in 1 .. Len(left), NEW k \in 1 .. Len(left), j < k
          PROVE  rest[j].id < rest[k].id
      <4>1. j + 1 \in DOMAIN p /\ k + 1 \in DOMAIN p /\ j + 1 < k + 1
        BY <1>3, <2>4, <3>1
      <4>2. p[j + 1].id < p[k + 1].id
        BY <1>7, <4>1 DEF Oldest
      <4>3. QED
        BY <2>2, <4>2
    <3>2. QED
      BY <2>3, <3>1 DEF Oldest
  <2>6. OnePerKey(rest)
    <3>1. ASSUME NEW j \in 1 .. Len(left), NEW k \in 1 .. Len(left), rest[j].key = rest[k].key
          PROVE  j = k
      <4>1. j + 1 \in DOMAIN p /\ k + 1 \in DOMAIN p /\ p[j + 1].key = p[k + 1].key
        BY <2>2, <2>4, <3>1
      <4>2. j + 1 = k + 1
        BY <1>8, <4>1 DEF OnePerKey
      <4>3. QED
        BY <1>3, <4>2
    <3>2. QED
      BY <2>3, <3>1 DEF OnePerKey
  <2>7. Sound(rest, n + 1)
    BY <1>5, <1>9, <2>2, <2>3, <2>4, <2>5, <2>6 DEF Sound
  <2>8. n + 1 \in IdsIn(rest)
    <3>1. Len(left) \in DOMAIN rest /\ rest[Len(left)] = a
      BY <1>3, <1>4, <1>5, <1>12, <2>2, <2>3
    <3>2. QED
      BY <3>1 DEF IdsIn
  <2>9. \A i : From(p, i) => From(rest, i)
    BY <2>2, <2>3, <2>4 DEF From
  <2>10. IdsIn(rest) \subseteq IdsIn(p)
    BY <2>2, <2>3, <2>4 DEF IdsIn
  <2>11. QED
    BY <1>10, <1>a, <2>1, <2>7, <2>8, <2>9, <2>10 DEF p
<1>13. QED
  BY <1>3, <1>4, <1>5, <1>11, <1>12

\* A failed head stays where it was.
LEMMA KeptHeadIsSound ==
    ASSUME NEW n \in Nat, NEW list, Sound(list, n), list # <<>>,
           Tried(Head(list)).attempts < MaxAttempts
    PROVE  Sound(KeepHead(list), n) /\ IdsIn(KeepHead(list)) = IdsIn(list)
<1> DEFINE h == Tried(Head(list))
           new == KeepHead(list)
<1>1. /\ list \in Seq(Action) /\ Len(list) \in Nat /\ Len(list) >= 1
      /\ DOMAIN list = 1 .. Len(list)
      /\ \A k \in 1 .. Len(list) : list[k] \in Action /\ list[k].id \in Nat
  BY Elements, EmptySeq DEF Sound
<1>2. h \in Action /\ h.id = list[1].id /\ h.key = list[1].key
  <2>1. Head(list) = list[1] /\ list[1] \in Action
    BY <1>1
  <2>2. list[1].attempts \in Nat /\ list[1].attempts + 1 < MaxAttempts /\ MaxAttempts \in Nat
    BY <2>1, BoundsAssumption DEF Tried, Action
  <2>3. h = [list[1] EXCEPT !.attempts = list[1].attempts + 1]
    BY <2>1 DEF Tried
  <2>4. list[1].attempts + 1 \in 0 .. MaxAttempts
    BY <2>2
  <2> HIDE DEF h
  <2>5. QED
    BY <2>1, <2>3, <2>4 DEF Action
<1> HIDE DEF h
<1>3. /\ Tail(list) \in Seq(Action) /\ Len(Tail(list)) = Len(list) - 1
      /\ \A k \in 1 .. (Len(list) - 1) : Tail(list)[k] = list[k + 1]
  BY <1>1, HeadTailProperties
<1>4. <<h>> \in Seq(Action) /\ Len(<<h>>) = 1 /\ <<h>>[1] = h
  BY <1>2
<1>5. new = <<h>> \o Tail(list)
  BY DEF KeepHead, h
<1>6. /\ new \in Seq(Action) /\ Len(new) = 1 + (Len(list) - 1)
      /\ \A k \in 1 .. 1 + (Len(list) - 1) :
           new[k] = IF k <= 1 THEN <<h>>[k] ELSE Tail(list)[k - 1]
  BY <1>3, <1>4, <1>5, ConcatProperties
<1> HIDE DEF new
<1>7. Len(new) = Len(list) /\ DOMAIN new = 1 .. Len(list)
  BY <1>1, <1>6, LenProperties
<1>8. \A k \in 1 .. Len(list) : new[k].id = list[k].id /\ new[k].key = list[k].key
  <2>1. ASSUME NEW k \in 1 .. Len(list), k # 1
        PROVE  new[k] = list[k]
    BY <1>1, <1>3, <1>6, <2>1
  <2>2. new[1] = h
    BY <1>1, <1>4, <1>6
  <2>3. QED
    BY <1>2, <2>1, <2>2
<1>9. Sound(new, n)
  BY <1>1, <1>6, <1>7, <1>8 DEF Sound, Oldest, OnePerKey
<1>10. IdsIn(new) = IdsIn(list)
  BY <1>1, <1>7, <1>8 DEF IdsIn
<1>11. QED
  BY <1>9, <1>10 DEF new

----------------------------------------------------------------------------
(* The invariant                                                           *)

\* What every tab holds is sound, and a tab that awaits works on a list
\* whose head is older than all its mirror has.
ListsSound ==
    /\ Sound(storage, actions)
    /\ \A t \in Tabs : memory[t] = None \/ Sound(memory[t], actions)
    /\ \A t \in Tabs : Sound(held[t], actions)
    /\ \A t \in Tabs : Awaiting(t) =>
         /\ held[t] # <<>>
         /\ Sound(memory[t], actions) /\ From(memory[t], held[t][1].id)

Lists ==
    /\ ListsSound
    /\ pc \in [Tabs -> {"idle", "replay", "sent", "applied"}]
    /\ memory = [t \in Tabs |-> memory[t]] /\ held = [t \in Tabs |-> held[t]]

Simple ==
    /\ leader \in Tabs \cup {None} /\ online \in BOOLEAN
    /\ actions \in 0 .. MaxActions /\ closed \in 0 .. MaxClosed
    /\ applied \in [1 .. MaxActions -> Nat]
    /\ dropped \cup replaced \cup midReplay \subseteq 1 .. actions

IInv == Simple /\ Lists


\* The ids of a list that was built while n actions had been taken.
LEMMA IdsBound ==
    ASSUME NEW n \in Nat, NEW list, Sound(list, n)
    PROVE  IdsIn(list) \subseteq 1 .. n
<1>1. \A k \in DOMAIN list : list[k].id \in 1 .. MaxActions /\ list[k].id <= n
  <2>1. \A a \in Action : a.id \in 1 .. MaxActions
    BY DEF Action
  <2>2. QED
    BY <2>1, Elements DEF Sound
<1>2. QED
  BY <1>1, BoundsAssumption DEF IdsIn

LEMMA NothingIsSound ==
    ASSUME NEW n \in Nat
    PROVE  Sound(<<>>, n) /\ ~Sound(None, n)
<1>1. <<>> \in Seq(Action) /\ Len(<<>>) = 0 /\ DOMAIN <<>> = {}
  BY EmptySeq
<1>2. QED
  BY <1>1, BoundsAssumption, NoneAssumption DEF Sound, Oldest, OnePerKey

\* A tab that loads gets a sound list, and the mirror it replays on while it
\* waits.
LEMMA LoadIsSound ==
    ASSUME IInv, NEW t \in Tabs
    PROVE  /\ actions \in Nat /\ Sound(Load(t), actions)
           /\ Awaiting(t) => Load(t) = memory[t]
<1>1. actions \in Nat
  BY BoundsAssumption DEF IInv, Simple
<1>2. QED
  BY <1>1, NothingIsSound DEF IInv, Lists, ListsSound, Load

\* A step after which the tab has the mirror m and the pass list h, and is
\* at p: it writes the mirror to the storage, or leaves that alone.
Lands(t, m, h, p) ==
    /\ memory' = [memory EXCEPT ![t] = m] /\ held' = [held EXCEPT ![t] = h]
    /\ pc' = [pc EXCEPT ![t] = p] /\ p \in {"idle", "replay", "sent", "applied"}
    /\ storage' = storage \/ (m # None /\ storage' = m)
    /\ actions' \in Nat /\ actions <= actions'
    /\ m = None \/ Sound(m, actions')
    /\ Sound(h, actions')
    /\ p \in {"sent", "applied"} => h # <<>> /\ Sound(m, actions') /\ From(m, h[1].id)

LEMMA TabStep ==
    ASSUME IInv, NEW t \in Tabs, NEW m, NEW h, NEW p, Lands(t, m, h, p)
    PROVE  Lists'
<1>1. /\ actions \in Nat /\ actions' \in Nat /\ actions <= actions'
      /\ \A list : Sound(list, actions) => Sound(list, actions')
  BY SoundLater, BoundsAssumption DEF IInv, Simple, Lands
<1>2. /\ memory'[t] = m /\ held'[t] = h /\ pc'[t] = p
      /\ \A x \in Tabs : x # t =>
           memory'[x] = memory[x] /\ held'[x] = held[x] /\ pc'[x] = pc[x]
  BY DEF IInv, Lists, Lands
<1>3. Sound(storage', actions')
  BY <1>1 DEF IInv, Lists, ListsSound, Lands
<1>4. ASSUME NEW x \in Tabs
      PROVE  /\ memory'[x] = None \/ Sound(memory'[x], actions')
             /\ Sound(held'[x], actions')
             /\ pc'[x] \in {"sent", "applied"} =>
                  /\ held'[x] # <<>>
                  /\ Sound(memory'[x], actions') /\ From(memory'[x], held'[x][1].id)
  <2>1. CASE x = t
    BY <1>2, <2>1 DEF Lands
  <2>2. CASE x # t
    BY <1>1, <1>2, <2>2 DEF IInv, Lists, ListsSound, Awaiting
  <2>3. QED
    BY <2>1, <2>2
<1>5. ListsSound'
  BY <1>3, <1>4 DEF ListsSound, Awaiting
<1>6. QED
  BY <1>5 DEF IInv, Lists, Lands

\* A step that touches no list.
LEMMA ListsStay ==
    ASSUME IInv, UNCHANGED <<storage, memory, held, actions>>,
           pc' \in [Tabs -> {"idle", "replay", "sent", "applied"}],
           \A x \in Tabs : pc'[x] \in {"sent", "applied"} => Awaiting(x)
    PROVE  Lists'
BY DEF IInv, Lists, ListsSound, Awaiting

\* With one tab the mirror is the storage. What a pass took out of it while
\* it waits, it still holds, but for what was queued since.
Kept ==
    /\ \A t \in Tabs : memory[t] \in {None, storage}
    /\ \A t \in Tabs : Awaiting(t) =>
         IdsIn(storage) \subseteq IdsIn(held[t]) \cup midReplay
    /\ \A t \in Tabs : pc[t] = "applied" => applied[Head(held[t]).id] > 0
    /\ \A i \in 1 .. actions : i \in IdsIn(storage) \/ Settled(i) \/ i \in midReplay

----------------------------------------------------------------------------
(* Every step keeps the lists sound                                        *)

LEMMA Initially == Init => IInv
<1>1. ASSUME Init PROVE IInv
  <2>1. Sound(<<>>, 0)
    BY NothingIsSound
  <2>2. Simple
    BY <1>1, BoundsAssumption DEF Init, Simple
  <2>3. Lists
    BY <1>1, <2>1 DEF Init, Lists, ListsSound, Awaiting
  <2>4. QED
    BY <2>2, <2>3 DEF IInv
<1>2. QED
  BY <1>1

LEMMA EnqueueKeeps ==
    ASSUME IInv, NEW t \in Tabs, NEW k \in Keys, Enqueue(t, k)
    PROVE  /\ IInv'
           /\ LET list == Bounded(Placed(Load(t), [id |-> actions + 1, key |-> k, attempts |-> 0]))
              IN  /\ Sound(list, actions + 1) /\ actions + 1 \in IdsIn(list)
                  /\ IdsIn(list) \subseteq IdsIn(Load(t)) \cup {actions + 1}
<1> DEFINE a == [id |-> actions + 1, key |-> k, attempts |-> 0]
           list == Bounded(Placed(Load(t), a))
           p == IF leader = t /\ online /\ pc[t] = "idle" THEN "replay" ELSE pc[t]
<1>1. /\ actions \in Nat /\ actions < MaxActions /\ MaxActions \in Nat /\ actions' = actions + 1
      /\ memory' = [memory EXCEPT ![t] = list] /\ storage' = list
      /\ pc' = [pc EXCEPT ![t] = p] /\ UNCHANGED held
      /\ replaced' = replaced \cup (IdsIn(Load(t)) \ IdsIn(list))
      /\ midReplay' \in {midReplay, midReplay \cup {actions + 1}}
      /\ UNCHANGED <<leader, online, closed, applied, dropped>>
  BY LoadIsSound, BoundsAssumption DEF Enqueue, Save, Kick, Goto
<1>2. a \in Action /\ a.id = actions + 1
  BY <1>1, BoundsAssumption DEF Action
<1> HIDE DEF a
<1>3. /\ Sound(list, actions + 1) /\ actions + 1 \in IdsIn(list)
      /\ IdsIn(list) \subseteq IdsIn(Load(t)) \cup {actions + 1}
      /\ \A i \in Nat : i <= actions + 1 /\ From(Load(t), i) => From(list, i)
  BY <1>1, <1>2, LoadIsSound, PlacedIsSound
<1> HIDE DEF list
<1>4. /\ pc[t] \in {"idle", "replay", "sent", "applied"}
      /\ p \in {"idle", "replay", "sent", "applied"}
      /\ p \in {"sent", "applied"} => Awaiting(t)
  BY DEF IInv, Lists, Simple, Awaiting
<1>5. Sound(held[t], actions + 1) /\ held' = [held EXCEPT ![t] = held[t]]
  <2>1. Sound(held[t], actions) /\ held = [x \in Tabs |-> held[x]]
    BY DEF IInv, Lists, ListsSound, Simple
  <2>2. Sound(held[t], actions + 1)
    BY <1>1, <2>1, SoundLater
  <2>3. held' = [held EXCEPT ![t] = held[t]]
    BY <1>1, <2>1
  <2>4. QED
    BY <2>2, <2>3
<1>6. ASSUME Awaiting(t) PROVE held[t] # <<>> /\ From(list, held[t][1].id)
  <2>1. held[t] # <<>> /\ Sound(held[t], actions) /\ From(Load(t), held[t][1].id)
    BY <1>6, LoadIsSound DEF IInv, Lists, ListsSound
  <2>2. held[t][1].id \in 1 .. actions
    BY <1>1, <2>1, TailIsSound
  <2>3. QED
    BY <1>1, <1>3, <2>1, <2>2
<1> HIDE DEF p
<1>7. Lists'
  <2>1. actions' \in Nat /\ actions <= actions' /\ Sound(list, actions') /\ Sound(held[t], actions')
    BY <1>1, <1>3, <1>5
  <2>2. list # None
    BY <1>1, <2>1, NothingIsSound
  <2>3. QED
    <3>1. Lands(t, list, held[t], p)
      BY <1>1, <1>4, <1>5, <1>6, <2>1, <2>2 DEF Lands
    <3>2. QED
      BY <3>1, TabStep
<1>8. Simple'
  <2>1. IdsIn(Load(t)) \subseteq 1 .. actions
    BY <1>1, LoadIsSound, IdsBound
  <2>2. (dropped \cup replaced \cup midReplay \subseteq 1 .. actions)'
    BY <1>1, <2>1 DEF IInv, Lists, Simple
  <2>3. actions' \in 0 .. MaxActions
    BY <1>1
  <2>4. QED
    BY <1>1, <1>7, <2>2, <2>3 DEF IInv, Lists, Simple
<1>9. QED
  BY <1>3, <1>7, <1>8 DEF IInv, list, a

\* What a tab that waits for its executor can put back, or take off.
LEMMA HeldIsSound ==
    ASSUME IInv, NEW t \in Tabs, Awaiting(t)
    PROVE  /\ actions \in Nat /\ held[t] # <<>> /\ Sound(held[t], actions)
           /\ Sound(Tail(held[t]), actions) /\ Head(held[t]).id \in 1 .. actions
           /\ IdsIn(held[t]) = {Head(held[t]).id} \cup IdsIn(Tail(held[t]))
           /\ From(memory[t], Head(held[t]).id)
           /\ Tail(held[t]) # None
<1>1. actions \in Nat /\ held[t] # <<>> /\ Sound(held[t], actions)
      /\ From(memory[t], held[t][1].id)
  BY BoundsAssumption DEF IInv, Lists, ListsSound, Simple
<1>2. QED
  BY <1>1, TailIsSound, NothingIsSound

\* A head that may be tried again is put back.
LEMMA KeepsHead ==
    ASSUME IInv, NEW t \in Tabs, Awaiting(t), ~(Tried(Head(held[t])).attempts >= MaxAttempts)
    PROVE  /\ Sound(KeepHead(held[t]), actions)
           /\ IdsIn(KeepHead(held[t])) = IdsIn(held[t])
<1>1. Head(held[t]) \in Action
  BY HeldIsSound, TailIsSound
<1>2. Tried(Head(held[t])).attempts \in Nat
  BY <1>1 DEF Tried, Action
<1>3. Tried(Head(held[t])).attempts < MaxAttempts
  BY <1>2, BoundsAssumption
<1>4. QED
  BY <1>3, HeldIsSound, KeptHeadIsSound

LEMMA ReplayKeeps ==
    ASSUME IInv, NEW t \in Tabs, Replay(t)
    PROVE  IInv'
<1>1. /\ actions \in Nat /\ Sound(Load(t), actions) /\ Sound(<<>>, actions)
      /\ Sound(held[t], actions) /\ held = [held EXCEPT ![t] = held[t]]
      /\ Load(t) # None
      /\ dropped \cup replaced \cup midReplay \subseteq 1 .. actions
  BY LoadIsSound, NothingIsSound DEF IInv, Lists, ListsSound, Simple
<1>2. CASE ReplayDone(t)
  <2>1. /\ memory' = [memory EXCEPT ![t] = Load(t)] /\ held' = [held EXCEPT ![t] = held[t]]
        /\ pc' = [pc EXCEPT ![t] = "idle"]
        /\ UNCHANGED <<storage, leader, online, actions, closed, applied, dropped,
                       replaced, midReplay>>
    BY <1>1, <1>2 DEF ReplayDone, Goto
  <2>2. Lands(t, Load(t), held[t], "idle")
    BY <1>1, <2>1 DEF Lands
  <2>3. Lists'
    BY <2>2, TabStep
  <2>4. QED
    BY <2>1, <2>3 DEF IInv, Simple
<1>3. CASE ReplayUnknown(t)
  <2> DEFINE rest == Tail(Load(t))
  <2>1. /\ Sound(rest, actions) /\ Head(Load(t)).id \in 1 .. actions /\ rest # None
    BY <1>1, <1>3, TailIsSound, NothingIsSound DEF ReplayUnknown
  <2>2. /\ memory' = [memory EXCEPT ![t] = rest] /\ storage' = rest
        /\ held' = [held EXCEPT ![t] = held[t]] /\ pc' = [pc EXCEPT ![t] = "replay"]
        /\ dropped' = dropped \cup {Head(Load(t)).id}
        /\ UNCHANGED <<leader, online, actions, closed, applied, replaced, midReplay>>
    <3>1. pc[t] = "replay" /\ pc = [pc EXCEPT ![t] = pc[t]]
      BY <1>3 DEF ReplayUnknown, IInv, Lists
    <3>2. pc = [pc EXCEPT ![t] = "replay"]
      BY <3>1
    <3>3. QED
      BY <1>1, <1>3, <3>2 DEF ReplayUnknown, Save
  <2> HIDE DEF rest
  <2>3. Lands(t, rest, held[t], "replay")
    BY <1>1, <2>1, <2>2 DEF Lands
  <2>4. Lists'
    BY <2>3, TabStep
  <2>5. dropped' \subseteq 1 .. actions
    BY <1>1, <2>1, <2>2
  <2>6. QED
    BY <1>1, <2>2, <2>4, <2>5 DEF IInv, Simple
<1>4. CASE ReplaySend(t)
  <2>1. /\ memory' = [memory EXCEPT ![t] = Load(t)] /\ held' = [held EXCEPT ![t] = Load(t)]
        /\ pc' = [pc EXCEPT ![t] = "sent"] /\ Load(t) # <<>>
        /\ UNCHANGED <<storage, leader, online, actions, closed, applied, dropped,
                       replaced, midReplay>>
    BY <1>4 DEF ReplaySend, Goto
  <2>2. From(Load(t), Load(t)[1].id)
    BY <1>1, <2>1, TailIsSound
  <2>3. Lands(t, Load(t), Load(t), "sent")
    BY <1>1, <2>1, <2>2 DEF Lands
  <2>4. Lists'
    BY <2>3, TabStep
  <2>5. QED
    BY <2>1, <2>4 DEF IInv, Simple
\* What the ends of a request have in common.
<1>5. ASSUME Awaiting(t), NEW new, Sound(new, actions), NEW p \in {"idle", "replay"},
             Save(t, new), held' = [held EXCEPT ![t] = <<>>], Goto(t, p),
             dropped' \in {dropped, dropped \cup {Head(held[t]).id}},
             UNCHANGED <<leader, online, actions, closed, applied, replaced, midReplay>>
      PROVE  IInv'
  <2>1. new # None /\ Head(held[t]).id \in 1 .. actions
    BY <1>1, <1>5, NothingIsSound, HeldIsSound
  <2>2. Lists'
    <3>1. Lands(t, new, <<>>, p)
      BY <1>1, <1>5, <2>1 DEF Save, Goto, Lands
    <3>2. QED
      BY <3>1, TabStep
  <2>3. dropped' \subseteq 1 .. actions
    BY <1>1, <1>5, <2>1
  <2>4. QED
    BY <1>1, <1>5, <2>2, <2>3 DEF IInv, Simple
<1>6. ASSUME Awaiting(t) PROVE Sound(Tail(held[t]), actions)
  BY <1>6, HeldIsSound
<1>7. CASE ReplaySucceeds(t)
  <2>1. Awaiting(t)
    BY <1>7 DEF ReplaySucceeds, Awaiting
  <2>2. /\ Save(t, Tail(held[t])) /\ held' = [held EXCEPT ![t] = <<>>] /\ Goto(t, "replay")
        /\ UNCHANGED <<leader, online, actions, closed, applied, dropped, replaced, midReplay>>
    BY <1>7 DEF ReplaySucceeds
  <2>3. QED
    BY <1>5, <1>6, <2>1, <2>2
<1>8. CASE ReplayRejected(t)
  <2>1. Awaiting(t)
    BY <1>8 DEF ReplayRejected, Awaiting
  <2>2. /\ Save(t, Tail(held[t])) /\ held' = [held EXCEPT ![t] = <<>>] /\ Goto(t, "replay")
        /\ dropped' = dropped \cup {Head(held[t]).id}
        /\ UNCHANGED <<leader, online, actions, closed, applied, replaced, midReplay>>
    BY <1>8 DEF ReplayRejected, DropHead
  <2>3. QED
    BY <1>5, <1>6, <2>1, <2>2
<1>9. CASE ReplayFails(t)
  <2>1. Awaiting(t) /\ held' = [held EXCEPT ![t] = <<>>]
        /\ UNCHANGED <<leader, online, actions, closed, applied, replaced, midReplay>>
    BY <1>9 DEF ReplayFails
  <2>2. CASE Tried(Head(held[t])).attempts >= MaxAttempts
    <3>1. Save(t, Tail(held[t])) /\ Goto(t, "replay")
          /\ dropped' = dropped \cup {Head(held[t]).id}
      BY <1>9, <2>2 DEF ReplayFails, DropHead
    <3>2. QED
      BY <1>5, <1>6, <2>1, <3>1
  <2>3. CASE ~(Tried(Head(held[t])).attempts >= MaxAttempts)
    <3>1. Save(t, KeepHead(held[t])) /\ Goto(t, "idle") /\ dropped' = dropped
      BY <1>9, <2>3 DEF ReplayFails
    <3>2. Sound(KeepHead(held[t]), actions)
      BY <2>1, <2>3, KeepsHead
    <3>3. QED
      BY <1>5, <2>1, <3>1, <3>2
  <2>4. QED
    BY <2>2, <2>3
<1>10. QED
  BY <1>2, <1>3, <1>4, <1>7, <1>8, <1>9 DEF Replay

LEMMA OtherKeeps ==
    ASSUME IInv, NEW t \in Tabs,
           ServerApplies(t) \/ Trigger(t) \/ BecomeLeader(t) \/ Close(t)
    PROVE  IInv'
<1>1. /\ actions \in Nat /\ Sound(<<>>, actions) /\ Sound(held[t], actions)
      /\ held = [held EXCEPT ![t] = held[t]] /\ memory = [memory EXCEPT ![t] = memory[t]]
  BY LoadIsSound, NothingIsSound DEF IInv, Lists, ListsSound, Simple
<1>2. CASE ServerApplies(t)
  <2>1. /\ pc[t] = "sent" /\ pc' = [pc EXCEPT ![t] = "applied"]
        /\ applied' = [applied EXCEPT ![Head(held[t]).id] = @ + 1]
        /\ UNCHANGED <<storage, memory, held, leader, online, actions, closed, dropped,
                       replaced, midReplay>>
    BY <1>2 DEF ServerApplies, Goto
  <2>2. Awaiting(t)
    BY <2>1 DEF Awaiting
  <2>3. /\ held[t] # <<>> /\ Sound(memory[t], actions) /\ From(memory[t], held[t][1].id)
    BY <2>2 DEF IInv, Lists, ListsSound
  <2>4. Lists'
    <3>1. memory' = [memory EXCEPT ![t] = memory[t]] /\ held' = [held EXCEPT ![t] = held[t]]
          /\ storage' = storage /\ actions' = actions
      BY <1>1, <2>1
    <3>2. Lands(t, memory[t], held[t], "applied")
      BY <1>1, <2>1, <2>3, <3>1 DEF Lands
    <3>3. QED
      BY <3>2, TabStep
  <2>5. applied' \in [1 .. MaxActions -> Nat]
    <3> DEFINE i == Head(held[t]).id
    <3>1. applied' = [applied EXCEPT ![i] = applied[i] + 1]
      BY <2>1
    <3>2. i \in 1 .. MaxActions /\ applied \in [1 .. MaxActions -> Nat]
      BY <2>2, HeldIsSound, BoundsAssumption DEF IInv, Simple
    <3> HIDE DEF i
    <3>3. QED
      BY <3>1, <3>2
  <2>6. QED
    BY <2>1, <2>4, <2>5 DEF IInv, Lists, Simple
<1>3. CASE Trigger(t) \/ BecomeLeader(t)
  <2>1. /\ \E p \in {"replay", pc[t]} : pc' = [pc EXCEPT ![t] = p]
        /\ leader' \in {leader, t}
        /\ UNCHANGED <<storage, memory, held, online, actions, closed, applied, dropped,
                       replaced, midReplay>>
    BY <1>3 DEF Trigger, BecomeLeader, Kick, Goto
  <2>2. /\ pc' \in [Tabs -> {"idle", "replay", "sent", "applied"}]
        /\ \A x \in Tabs : pc'[x] \in {"sent", "applied"} => Awaiting(x)
    BY <2>1 DEF IInv, Lists, Simple, Awaiting
  <2>3. QED
    BY <2>1, <2>2, ListsStay DEF IInv, Lists, Simple
<1>4. CASE Close(t)
  <2>1. /\ memory' = [memory EXCEPT ![t] = None] /\ held' = [held EXCEPT ![t] = <<>>]
        /\ pc' = [pc EXCEPT ![t] = "idle"] /\ closed' = closed + 1 /\ closed < MaxClosed
        /\ leader' \in {leader, None}
        /\ UNCHANGED <<storage, online, actions, applied, dropped, replaced, midReplay>>
    BY <1>4 DEF Close, Goto
  <2>2. Lists'
    <3>1. Lands(t, None, <<>>, "idle")
      BY <1>1, <2>1 DEF Lands
    <3>2. QED
      BY <3>1, TabStep
  <2>3. closed' \in 0 .. MaxClosed
    BY <2>1, BoundsAssumption DEF IInv, Lists, Simple
  <2>4. QED
    BY <2>1, <2>2, <2>3 DEF IInv, Lists, Simple
<1>5. QED
  BY <1>2, <1>3, <1>4

LEMMA Inductive == IInv /\ [Next]_vars => IInv'
<1> SUFFICES ASSUME IInv, [Next]_vars PROVE IInv'
  OBVIOUS
<1>1. ASSUME GoOffline \/ GoOnline \/ UNCHANGED vars PROVE IInv'
  <2>1. /\ online' \in BOOLEAN
        /\ UNCHANGED <<storage, memory, held, leader, actions, closed, applied, dropped,
                       replaced, midReplay>>
        /\ \/ UNCHANGED pc
           \/ pc' = [t \in Tabs |-> IF leader = t /\ pc[t] = "idle" THEN "replay" ELSE pc[t]]
    BY <1>1 DEF GoOffline, GoOnline, vars, IInv, Simple
  <2>2. /\ pc' \in [Tabs -> {"idle", "replay", "sent", "applied"}]
        /\ \A x \in Tabs : pc'[x] \in {"sent", "applied"} => Awaiting(x)
    BY <2>1 DEF IInv, Lists, Simple, Awaiting
  <2>3. QED
    BY <2>1, <2>2, ListsStay DEF IInv, Lists, Simple
<1>2. QED
  BY <1>1, EnqueueKeeps, ReplayKeeps, OtherKeeps DEF Next

LEMMA Invariance == Spec => []IInv
BY Initially, Inductive, PTL DEF Spec

----------------------------------------------------------------------------
(* One tab keeps what it was given                                         *)

OneTab == \A s, t \in Tabs : s = t

\* What is neither settled nor taken during an await is still in the storage
\* after a step which took from it only what it settled, or what was taken
\* during the await.
LEMMA StillThere ==
    ASSUME IInv, Kept, actions' = actions,
           applied' = applied \/ \E i \in DOMAIN applied :
                applied' = [applied EXCEPT ![i] = applied[i] + 1],
           dropped \subseteq dropped', replaced \subseteq replaced',
           midReplay \subseteq midReplay',
           \A i \in IdsIn(storage) : i \in IdsIn(storage') \/ Settled(i)' \/ i \in midReplay
    PROVE  \A i \in 1 .. actions' : i \in IdsIn(storage') \/ Settled(i)' \/ i \in midReplay'
<1>1. ASSUME NEW i \in 1 .. actions, Settled(i) PROVE Settled(i)'
  <2>1. i \in 1 .. MaxActions /\ applied \in [1 .. MaxActions -> Nat]
    BY BoundsAssumption DEF IInv, Simple
  <2>2. applied[i] > 0 => applied'[i] > 0
    <3>1. CASE applied' = applied
      BY <3>1
    <3>2. ASSUME NEW j \in DOMAIN applied, applied' = [applied EXCEPT ![j] = applied[j] + 1]
          PROVE  applied[i] > 0 => applied'[i] > 0
      <4>1. applied[i] \in Nat /\ applied'[i] = IF i = j THEN applied[i] + 1 ELSE applied[i]
        BY <2>1, <3>2
      <4>2. QED
        BY <4>1
    <3>3. QED
      BY <3>1, <3>2
  <2>3. QED
    BY <1>1, <2>2 DEF Settled
<1>2. QED
  BY <1>1 DEF Kept

LEMMA EnqueueKept ==
    ASSUME IInv, Kept, OneTab, NEW t \in Tabs, NEW k \in Keys, Enqueue(t, k)
    PROVE  Kept'
<1> DEFINE list == Bounded(Placed(Load(t), [id |-> actions + 1, key |-> k, attempts |-> 0]))
<1>1. /\ actions \in Nat /\ actions' = actions + 1
      /\ memory' = [memory EXCEPT ![t] = list] /\ storage' = list
      /\ replaced' = replaced \cup (IdsIn(Load(t)) \ IdsIn(list))
      /\ midReplay' = IF Awaiting(t) THEN midReplay \cup {actions + 1} ELSE midReplay
      /\ UNCHANGED <<held, applied, dropped>>
  BY LoadIsSound DEF Enqueue, Save
<1>2. /\ actions + 1 \in IdsIn(list)
      /\ IdsIn(list) \subseteq IdsIn(Load(t)) \cup {actions + 1}
  BY EnqueueKeeps
<1>3. pc'[t] \in {"sent", "applied"} => pc'[t] = pc[t]
  BY DEF Enqueue, Kick, Goto, IInv, Lists
<1>4. Load(t) = storage
  BY DEF Kept, Load
<1> HIDE DEF list
<1>5. memory'[t] = storage'
  BY <1>1 DEF IInv, Lists
<1>6. Awaiting(t)' => IdsIn(storage') \subseteq IdsIn(held'[t]) \cup midReplay'
  BY <1>1, <1>2, <1>3, <1>4 DEF Kept, Awaiting
<1>7. pc'[t] = "applied" => applied'[Head(held'[t]).id] > 0
  BY <1>1, <1>3 DEF Kept
<1>8. \A i \in 1 .. actions' : i \in IdsIn(storage') \/ Settled(i)' \/ i \in midReplay'
  <2> SUFFICES ASSUME NEW i \in 1 .. actions', i \notin IdsIn(storage')
               PROVE  Settled(i)' \/ i \in midReplay'
    OBVIOUS
  <2>1. i \in 1 .. actions
    BY <1>1, <1>2
  <2>2. CASE i \in IdsIn(storage)
    BY <1>1, <1>4, <2>2 DEF Settled
  <2>3. CASE i \notin IdsIn(storage)
    BY <1>1, <2>1, <2>3 DEF Kept, Settled
  <2>4. QED
    BY <2>2, <2>3
<1>9. QED
  BY <1>5, <1>6, <1>7, <1>8 DEF Kept, OneTab, Awaiting

LEMMA ReplayKept ==
    ASSUME IInv, Kept, OneTab, NEW t \in Tabs, Replay(t)
    PROVE  Kept'
<1> DEFINE Settles == \A i \in IdsIn(storage) :
                          i \in IdsIn(storage') \/ Settled(i)' \/ i \in midReplay
<1>1. actions \in Nat /\ actions' = actions /\ applied' = applied /\ replaced' = replaced
      /\ midReplay' = midReplay /\ dropped \subseteq dropped'
  BY LoadIsSound
     DEF Replay, ReplayDone, ReplayUnknown, ReplaySend, ReplaySucceeds, ReplayRejected,
         ReplayFails, DropHead
<1>2. /\ Load(t) = storage /\ memory[t] \in {None, storage}
      /\ memory = [x \in Tabs |-> memory[x]] /\ held = [x \in Tabs |-> held[x]]
      /\ pc = [x \in Tabs |-> pc[x]]
  BY DEF Kept, Load, IInv, Lists
\* Enough: the mirror, the pass that waits, and what left the storage.
<1>3. ASSUME memory'[t] \in {None, storage'}, Settles,
             pc'[t] = "applied" => FALSE,
             pc'[t] = "sent" => IdsIn(storage') \subseteq IdsIn(held'[t]) \cup midReplay
      PROVE  Kept'
  <2>1. \A i \in 1 .. actions' : i \in IdsIn(storage') \/ Settled(i)' \/ i \in midReplay'
    BY <1>1, <1>3, StillThere
  <2>2. QED
    BY <1>1, <1>3, <2>1 DEF Kept, OneTab, Awaiting
<1>4. CASE ReplayDone(t)
  BY <1>2, <1>3, <1>4 DEF ReplayDone, Goto
<1>5. CASE ReplayUnknown(t)
  <2>1. Sound(storage, actions) /\ storage # <<>>
    BY <1>2, <1>5, LoadIsSound DEF ReplayUnknown
  <2>2. IdsIn(storage) = {Head(storage).id} \cup IdsIn(Tail(storage))
    BY <1>1, <2>1, TailIsSound
  <2>3. /\ memory'[t] = storage' /\ storage' = Tail(storage) /\ pc'[t] = "replay"
        /\ Head(storage).id \in dropped'
    BY <1>2, <1>5 DEF ReplayUnknown, Save
  <2>4. Settles
    BY <2>2, <2>3 DEF Settled
  <2>5. QED
    BY <1>3, <2>3, <2>4
<1>6. CASE ReplaySend(t)
  BY <1>2, <1>3, <1>6 DEF ReplaySend, Goto
\* The ends of a request: all that the storage has beside the held list was
\* taken during the await.
<1>7. ASSUME Awaiting(t), NEW new, Save(t, new), NEW p \in {"idle", "replay"}, Goto(t, p),
             \A i \in IdsIn(held[t]) : i \in IdsIn(new) \/ Settled(i)'
      PROVE  Kept'
  <2>1. memory'[t] = new /\ storage' = new /\ pc'[t] = p
    BY <1>2, <1>7 DEF Save, Goto
  <2>2. IdsIn(storage) \subseteq IdsIn(held[t]) \cup midReplay
    BY <1>7 DEF Kept
  <2>3. Settles
    BY <1>7, <2>1, <2>2
  <2>4. QED
    BY <1>3, <2>1, <2>3
<1>8. Awaiting(t) => IdsIn(held[t]) = {Head(held[t]).id} \cup IdsIn(Tail(held[t]))
  BY HeldIsSound
<1>9. CASE ReplaySucceeds(t)
  <2>1. /\ Awaiting(t) /\ Save(t, Tail(held[t])) /\ Goto(t, "replay")
        /\ applied'[Head(held[t]).id] > 0
    BY <1>1, <1>9 DEF ReplaySucceeds, Kept, Awaiting
  <2>2. QED
    BY <1>7, <1>8, <2>1 DEF Settled
<1>10. ASSUME Awaiting(t), DropHead(t) PROVE Kept'
  <2>1. /\ Save(t, Tail(held[t])) /\ Goto(t, "replay") /\ Head(held[t]).id \in dropped'
    BY <1>10 DEF DropHead
  <2>2. QED
    BY <1>7, <1>8, <1>10, <2>1 DEF Settled
<1>11. CASE ReplayRejected(t)
  BY <1>10, <1>11 DEF ReplayRejected, Awaiting
<1>12. CASE ReplayFails(t)
  <2>1. Awaiting(t)
    BY <1>12 DEF ReplayFails
  <2>2. CASE Tried(Head(held[t])).attempts >= MaxAttempts
    BY <1>10, <1>12, <2>1, <2>2 DEF ReplayFails
  <2>3. CASE ~(Tried(Head(held[t])).attempts >= MaxAttempts)
    <3>1. Save(t, KeepHead(held[t])) /\ Goto(t, "idle")
      BY <1>12, <2>3 DEF ReplayFails
    <3>2. IdsIn(KeepHead(held[t])) = IdsIn(held[t])
      BY <2>1, <2>3, KeepsHead
    <3>3. QED
      BY <1>7, <2>1, <3>1, <3>2
  <2>4. QED
    BY <2>2, <2>3
<1>13. QED
  BY <1>4, <1>5, <1>6, <1>9, <1>11, <1>12 DEF Replay

LEMMA OtherKept ==
    ASSUME IInv, Kept, OneTab, NEW t \in Tabs,
           ServerApplies(t) \/ Trigger(t) \/ BecomeLeader(t) \/ Close(t)
    PROVE  Kept'
<1>1. /\ UNCHANGED <<storage, actions, dropped, replaced, midReplay>>
      /\ memory'[t] \in {memory[t], None}
  BY DEF ServerApplies, Trigger, BecomeLeader, Close, IInv, Lists
<1>2. CASE ServerApplies(t)
  <2> DEFINE i == Head(held[t]).id
  <2>1. pc[t] = "sent" /\ pc'[t] = "applied" /\ held' = held /\ Awaiting(t)
        /\ applied' = [applied EXCEPT ![i] = applied[i] + 1]
    BY <1>2 DEF ServerApplies, Goto, IInv, Lists, Awaiting
  <2>2. i \in DOMAIN applied /\ applied[i] \in Nat
    BY <2>1, HeldIsSound, BoundsAssumption DEF IInv, Simple
  <2>3. applied'[Head(held'[t]).id] > 0
    <3> HIDE DEF i
    <3>1. applied'[i] = applied[i] + 1
      BY <2>1, <2>2
    <3>2. applied'[i] > 0
      BY <2>2, <3>1
    <3>3. QED
      BY <2>1, <3>2 DEF i
  <2> HIDE DEF i
  <2>4. \A j \in 1 .. actions' : j \in IdsIn(storage') \/ Settled(j)' \/ j \in midReplay'
    BY <1>1, <2>1, <2>2, StillThere
  <2>5. QED
    BY <1>1, <2>1, <2>3, <2>4 DEF Kept, OneTab, Awaiting
<1>3. CASE Trigger(t) \/ BecomeLeader(t) \/ Close(t)
  <2>1. applied' = applied /\ \/ pc'[t] \in {"idle", "replay"}
                              \/ pc'[t] = pc[t] /\ held' = held
    BY <1>3 DEF Trigger, BecomeLeader, Close, Kick, Goto, IInv, Lists
  <2>2. \A j \in 1 .. actions' : j \in IdsIn(storage') \/ Settled(j)' \/ j \in midReplay'
    BY <1>1, <2>1, StillThere
  <2>3. QED
    BY <1>1, <2>1, <2>2 DEF Kept, OneTab, Awaiting
<1>4. QED
  BY <1>2, <1>3

LEMMA KeptStep == IInv /\ Kept /\ OneTab /\ [Next]_vars => Kept'
<1> SUFFICES ASSUME IInv, Kept, OneTab, [Next]_vars PROVE Kept'
  OBVIOUS
<1>1. ASSUME GoOffline \/ GoOnline \/ UNCHANGED vars PROVE Kept'
  <2>1. /\ UNCHANGED <<storage, memory, held, actions, applied, dropped, replaced, midReplay>>
        /\ \A t \in Tabs : pc'[t] = pc[t] \/ pc'[t] = "replay"
    BY <1>1 DEF GoOffline, GoOnline, vars
  <2>2. QED
    BY <2>1 DEF Kept, Awaiting, Settled
<1>2. QED
  BY <1>1, EnqueueKept, ReplayKept, OtherKept DEF Next

----------------------------------------------------------------------------
(* The theorems                                                            *)

\* Every list holds actions, within the bound of the queue, at most one for
\* a key, and a pass that waits has the action it sent (load, save, enqueue,
\* replay).
THEOREM TypeCorrect == Spec => []TypeOK
<1>1. IInv => TypeOK
  <2> SUFFICES ASSUME IInv PROVE TypeOK
    OBVIOUS
  <2>1. /\ storage \in Seq(Action) /\ OnePerKey(storage) /\ Len(storage) <= MaxQueue
        /\ \A t \in Tabs : memory[t] = None \/ memory[t] \in Seq(Action)
        /\ \A t \in Tabs : held[t] \in Seq(Action)
        /\ \A t \in Tabs : Awaiting(t) => held[t] # <<>>
    BY DEF IInv, Lists, ListsSound, Sound
  <2>2. held \in [Tabs -> Seq(Action)]
    BY <2>1 DEF IInv, Lists, Simple
  <2>3. QED
    BY <2>1, <2>2 DEF IInv, Lists, Simple, TypeOK, OnePerKey
<1>2. QED
  BY <1>1, Invariance, PTL

\* In every tab, however many there are, the request that is out belongs to
\* the oldest action of those the pass took and those queued since
\* (replay's loop, enqueue).
THEOREM ReplaysOldestFirst == Spec => []InOrder
<1>1. IInv => InOrder
  <2> SUFFICES ASSUME IInv, NEW t \in Tabs, Awaiting(t),
                      NEW i \in IdsIn(held[t]) \cup IdsIn(memory[t])
               PROVE  i >= Head(held[t]).id
    BY DEF InOrder
  <2>1. From(held[t], Head(held[t]).id) /\ From(memory[t], Head(held[t]).id)
    BY HeldIsSound, TailIsSound
  <2>2. QED
    BY <2>1 DEF From, IdsIn
<1>2. QED
  BY <1>1, Invariance, PTL

\* In a browser with one tab, an action that is neither applied, reported as
\* dropped nor superseded is in the storage, through every failure and
\* crash, unless it was taken while the replay awaited an executor
\* (enqueue, replay).
THEOREM OneTabLosesNothingElse ==
    ASSUME OneTab
    PROVE  Spec => []KeptUnlessMidReplay
<1>1. Init => Kept
  BY DEF Init, Kept, Awaiting
<1>2. IInv /\ Kept /\ [Next]_vars => Kept'
  BY KeptStep
<1>3. Kept => KeptUnlessMidReplay
  BY DEF Kept, KeptUnlessMidReplay, Vanished
<1>4. QED
  BY <1>1, <1>2, <1>3, Invariance, PTL DEF Spec
=============================================================================
