------------------------ MODULE RealtimeClientProofs ------------------------
(***************************************************************************)
(* What holds of RealtimeClient for any workspaces, any number of attempts *)
(* and faults, and whatever else may happen to the tab.                    *)
(***************************************************************************)
EXTENDS RealtimeClient, TLAPS

----------------------------------------------------------------------------
(* The inductive invariant                                                 *)

\* While the ticket of the current generation is fetched, there is no stream
\* that its answer could join.
AloneWhileFetching == cl.gen \in fetches => streams = {}

\* Nor does the client that awaits that answer report to be disconnected.
ConnectingWhileFetching ==
    cl.gen \in fetches /\ token = "first" => cl.state # "disconnected"

IInv == /\ TypeOK /\ NoOrphanStream /\ DisconnectedMeansClosed
        /\ AloneWhileFetching /\ ConnectingWhileFetching

----------------------------------------------------------------------------
(* What every method keeps                                                 *)

Worlds == [c: Client, es: SUBSET Streams, fetch: BOOLEAN]

\* Nothing is open or on its way.
Silent(w) == w.es = {} /\ ~w.fetch /\ w.c.gen \notin fetches

\* The invariant, of a client in the middle of a handler: the generation has
\* not gone back, and what was or will be fetched for it is alone.
Sound(w) ==
    /\ w \in Worlds
    /\ \A s \in w.es : s.gen = w.c.es /\ s.gen <= w.c.gen
    /\ w.c.es # None => w.es # {}
    /\ w.c.watchdog => w.c.es # None
    /\ w.c.gen >= cl.gen
    /\ w.fetch => w.es = {} /\ w.c.gen >= 1
    /\ w.c.gen \in fetches => w.es = {}
    /\ w.c.state = "disconnected" /\ token = "first" => Silent(w)

\* The world a handler starts from is sound.
LEMMA WorldIsSound == ASSUME IInv PROVE Sound(World)
<1>1. World \in Worlds
  BY DEF IInv, TypeOK, World, Worlds
<1>2. \A s \in streams : s.gen = cl.es /\ s.gen <= cl.gen
  BY DEF IInv, TypeOK, NoOrphanStream
<1>3. QED
  BY <1>1, <1>2 DEF World, Sound, Silent, IInv, TypeOK, AloneWhileFetching,
     ConnectingWhileFetching, DisconnectedMeansClosed, Client

\* Setting flags that the invariant is not about.
LEMMA FlagsAreFree ==
    ASSUME NEW w, Sound(w), NEW b \in BOOLEAN
    PROVE  /\ Sound([w EXCEPT !.c.timer = b])
           /\ Sound([w EXCEPT !.c.retrying = b])
           /\ Sound([w EXCEPT !.c.disposed = b])
           /\ Sound([w EXCEPT !.c.watchdog = FALSE])
           /\ \A v \in Workspaces : Sound([w EXCEPT !.c.ws = v])
<1>1. w \in Worlds
  BY DEF Sound
<1>2. Sound([w EXCEPT !.c.timer = b])
  BY <1>1 DEF Sound, Silent, Worlds, Client
<1>3. Sound([w EXCEPT !.c.retrying = b])
  BY <1>1 DEF Sound, Silent, Worlds, Client
<1>4. Sound([w EXCEPT !.c.disposed = b])
  BY <1>1 DEF Sound, Silent, Worlds, Client
<1>5. Sound([w EXCEPT !.c.watchdog = FALSE])
  BY <1>1 DEF Sound, Silent, Worlds, Client
<1>6. ASSUME NEW v \in Workspaces PROVE Sound([w EXCEPT !.c.ws = v])
  BY <1>1 DEF Sound, Silent, Worlds, Client
<1>7. QED
  BY <1>2, <1>3, <1>4, <1>5, <1>6

\* cleanupConnection closes every live EventSource, because each is the one
\* the client holds.
LEMMA CleanupCloses ==
    ASSUME NEW w, Sound(w)
    PROVE  /\ Sound(Cleanup(w)) /\ Cleanup(w).es = {} /\ Cleanup(w).c.state = w.c.state
           /\ Cleanup(w).fetch = w.fetch /\ Cleanup(w).c.gen = w.c.gen
<1>1. w \in Worlds /\ {s \in w.es : s.gen # w.c.es} = {}
  BY DEF Sound
<1>2. Cleanup(w) \in Worlds /\ Cleanup(w).es = {} /\ Cleanup(w).c.es = None
      /\ Cleanup(w).c.watchdog = FALSE /\ Cleanup(w).c.gen = w.c.gen
      /\ Cleanup(w).fetch = w.fetch /\ Cleanup(w).c.state = w.c.state
  BY <1>1 DEF Cleanup, Worlds, Client
<1>3. QED
  BY <1>2 DEF Sound, Silent

LEMMA SetStateSound ==
    ASSUME NEW w, Sound(w), NEW s \in States,
           s # "disconnected" \/ token # "first" \/ Silent(w)
    PROVE  Sound(SetState(w, s)) /\ SetState(w, s).es = w.es
<1>1. w \in Worlds
  BY DEF Sound
<1>2. SetState(w, s) \in Worlds /\ SetState(w, s).c = [w.c EXCEPT !.state = s]
      /\ SetState(w, s).es = w.es /\ SetState(w, s).fetch = w.fetch
  BY <1>1 DEF SetState, Worlds, Client
<1>3. QED
  BY <1>1, <1>2 DEF Sound, Silent, Worlds, Client

LEMMA AttemptSound ==
    ASSUME IInv, NEW w, Sound(w), w.es = {}, w.c.state # "disconnected"
    PROVE  Sound(Attempt(w))
<1>1. w \in Worlds /\ cl.gen \in Nat /\ w.c.gen \in Nat
  BY DEF Sound, Worlds, Client, IInv, TypeOK
<1>2. Attempt(w) \in Worlds /\ Attempt(w).es = {} /\ Attempt(w).c.es = w.c.es
      /\ Attempt(w).c.watchdog = w.c.watchdog /\ Attempt(w).c.gen = w.c.gen + 1
      /\ Attempt(w).c.state = w.c.state
  <2> DEFINE u == [w EXCEPT !.c.gen = w.c.gen + 1]
  <2>1. u \in Worlds /\ u.es = w.es /\ u.c.es = w.c.es /\ u.c.watchdog = w.c.watchdog
        /\ u.c.gen = w.c.gen + 1 /\ u.c.state = w.c.state
    BY <1>1 DEF Worlds, Client
  <2>2. Attempt(w) = [u EXCEPT !.fetch = TRUE]
    BY <1>1 DEF Attempt, Worlds
  <2> HIDE DEF u
  <2>3. QED
    BY <2>1, <2>2 DEF Worlds
<1>3. QED
  BY <1>1, <1>2 DEF Sound

LEMMA ConnectSound ==
    ASSUME IInv, NEW w, Sound(w)
    PROVE  Sound(ConnectOp(w))
<1> DEFINE v == Cleanup(SetState(w, IF w.c.retrying THEN "reconnecting" ELSE "connecting"))
<1>1. Sound(v) /\ v.es = {} /\ v.c.state # "disconnected"
  <2>1. ASSUME NEW s \in {"reconnecting", "connecting"}
        PROVE  /\ Sound(SetState(w, s)) /\ SetState(w, s).c.state = s
    <3>1. w \in Worlds /\ s \in States /\ s # "disconnected"
      BY DEF Sound, States
    <3>2. SetState(w, s).c.state = s
      BY <3>1 DEF SetState, Worlds, Client
    <3>3. QED
      BY <3>1, <3>2, SetStateSound
  <2>2. QED
    BY <2>1, CleanupCloses
<1>2. Sound(Attempt(v))
  BY <1>1, AttemptSound
<1>3. ~HasToken => Sound(SetState(w, "disconnected"))
  BY SetStateSound DEF HasToken, States
<1>4. QED
  BY <1>2, <1>3 DEF ConnectOp

LEMMA ReconnectSound ==
    ASSUME IInv, NEW w, Sound(w)
    PROVE  Sound(ReconnectOp(w))
BY CleanupCloses, ConnectSound DEF ReconnectOp

\* scheduleReconnect touches the state and the timer only.
LEMMA ScheduleFields ==
    ASSUME NEW w \in Worlds
    PROVE  LET v == ScheduleReconnect(w)
           IN  /\ v \in Worlds /\ v.es = w.es /\ v.fetch = w.fetch
               /\ v.c.gen = w.c.gen /\ v.c.es = w.c.es /\ v.c.watchdog = w.c.watchdog
<1> DEFINE v == SetState(w, "disconnected")
<1>1. v \in Worlds /\ v.es = w.es /\ v.fetch = w.fetch
      /\ v.c.gen = w.c.gen /\ v.c.es = w.c.es /\ v.c.watchdog = w.c.watchdog
  BY DEF States, SetState, Worlds, Client
<1>2. ScheduleReconnect(w) \in {w, [v EXCEPT !.c.timer = TRUE, !.c.retrying = TRUE],
                                [v EXCEPT !.c.timer = FALSE]}
  BY DEF ScheduleReconnect
<1> HIDE DEF v
<1> DEFINE Like(x) == /\ x \in Worlds /\ x.es = w.es /\ x.fetch = w.fetch
                      /\ x.c.gen = w.c.gen /\ x.c.es = w.c.es /\ x.c.watchdog = w.c.watchdog
<1>3. Like([v EXCEPT !.c.timer = TRUE, !.c.retrying = TRUE])
  BY <1>1 DEF Worlds, Client
<1>4. Like([v EXCEPT !.c.timer = FALSE])
  BY <1>1 DEF Worlds, Client
<1>5. Like(ScheduleReconnect(w))
  BY <1>2, <1>3, <1>4
<1>6. QED
  BY <1>5

LEMMA ScheduleSound ==
    ASSUME NEW w, Sound(w), Silent(w)
    PROVE  Sound(ScheduleReconnect(w))
BY ScheduleFields DEF Sound, Silent

LEMMA DisconnectSound ==
    ASSUME IInv, NEW w, Sound(w), ~w.fetch
    PROVE  Sound(DisconnectOp(w))
<1> DEFINE u == [w EXCEPT !.c.gen = @ + 1]
           v == [Cleanup(u) EXCEPT !.c.timer = FALSE]
<1>1. w \in Worlds /\ cl.gen \in Nat /\ w.c.gen \in Nat /\ fetches \subseteq 1 .. cl.gen
  BY DEF Sound, Worlds, Client, IInv, TypeOK
<1>2. u \in Worlds /\ u.es = w.es /\ u.c.es = w.c.es /\ u.c.watchdog = w.c.watchdog
      /\ u.c.gen = w.c.gen + 1 /\ u.c.state = w.c.state /\ u.fetch = w.fetch
  BY <1>1 DEF Worlds, Client
<1>3. Sound(u)
  <2>1. \A s \in w.es : s.gen <= w.c.gen + 1
    BY <1>1 DEF Sound, Worlds, Streams
  <2>2. u.c.gen \notin fetches
    BY <1>1, <1>2 DEF Sound
  <2>3. QED
    BY <1>1, <1>2, <2>1, <2>2 DEF Sound, Silent
<1> HIDE DEF u
<1>4. Sound(v) /\ Silent(v)
  <2> DEFINE x == Cleanup(u)
  <2>1. Sound(x) /\ Silent(x) /\ x \in Worlds
    BY <1>1, <1>2, <1>3, CleanupCloses DEF Silent, Sound
  <2> HIDE DEF x
  <2>2. Sound([x EXCEPT !.c.timer = FALSE]) /\ Silent([x EXCEPT !.c.timer = FALSE])
    BY <2>1, FlagsAreFree DEF Silent, Worlds, Client
  <2>3. QED
    BY <2>2 DEF x
<1>5. QED
  BY <1>4, SetStateSound DEF DisconnectOp, States, u

----------------------------------------------------------------------------
(* The steps                                                               *)

\* A handler that ends in a sound world leaves the invariant.
LEMMA CommitKeeps ==
    ASSUME IInv, NEW w, Sound(w), Commit(w), UNCHANGED token, faults' \in 0 .. MaxFaults
    PROVE  IInv'
<1>1. /\ w \in Worlds /\ w.c.gen \in Nat /\ cl.gen \in Nat /\ w.c.gen <= MaxGen
      /\ cl' = w.c /\ streams' = w.es
      /\ fetches' = IF w.fetch THEN fetches \cup {w.c.gen} ELSE fetches
      /\ fetches \subseteq 1 .. cl.gen
      /\ w.c \in Client /\ w.es \subseteq Streams
  BY DEF Sound, Commit, Worlds, Client, IInv, TypeOK
<1>2. fetches' \subseteq 1 .. w.c.gen
  <2> SUFFICES ASSUME NEW f \in fetches' PROVE f \in 1 .. w.c.gen
    OBVIOUS
  <2>1. w.c.gen >= cl.gen /\ (w.fetch => w.c.gen >= 1)
    BY DEF Sound
  <2>2. QED
    BY <1>1, <2>1
<1>3. TypeOK'
  BY <1>1, <1>2 DEF Sound, IInv, TypeOK
<1>4. /\ NoOrphanStream' /\ DisconnectedMeansClosed'
      /\ AloneWhileFetching' /\ ConnectingWhileFetching'
  BY <1>1 DEF Sound, Silent, NoOrphanStream, DisconnectedMeansClosed, AloneWhileFetching,
     ConnectingWhileFetching
<1>5. QED
  BY <1>3, <1>4 DEF IInv

LEMMA FaultIsCounted ==
    ASSUME IInv, Fault \/ UNCHANGED faults
    PROVE  faults' \in 0 .. MaxFaults
BY BoundsAssumption DEF Fault, IInv, TypeOK

\* What the browser, the provider and the timers do.
LEMMA HandlersKeep ==
    ASSUME IInv,
           \/ Dispose \/ \E w \in Workspaces : SetWorkspace(w)
           \/ \E s \in streams : StreamFails(s)
           \/ ReconnectTimerFires \/ WatchdogFires
           \/ Online \/ Offline \/ Visible
    PROVE  IInv'
<1>0. Sound(World) /\ World.c = cl /\ World.es = streams /\ ~World.fetch
  BY WorldIsSound DEF World
<1>1. CASE Dispose
  <2> DEFINE w == [World EXCEPT !.c.disposed = TRUE]
  <2>1. Sound(w)
    BY <1>0, FlagsAreFree
  <2> HIDE DEF w
  <2>2. Sound(DisconnectOp(w))
    BY <1>0, <2>1, DisconnectSound DEF w, World
  <2>3. Commit(DisconnectOp(w)) /\ UNCHANGED <<faults, token>>
    BY <1>1 DEF Dispose, NoFault, w
  <2>4. QED
    BY <2>2, <2>3, CommitKeeps, FaultIsCounted
<1>2. ASSUME NEW ws \in Workspaces, SetWorkspace(ws) PROVE IInv'
  <2> DEFINE v == [World EXCEPT !.c.ws = ws]
             w == IF cl.state \in {"connected", "connecting"} THEN ReconnectOp(v) ELSE v
  <2>1. Sound(v)
    BY <1>0, FlagsAreFree
  <2>2. Commit(w) /\ Fault /\ UNCHANGED token
    BY <1>2 DEF SetWorkspace, Event
  <2> HIDE DEF v
  <2>3. Sound(w)
    BY <2>1, ReconnectSound
  <2> HIDE DEF w
  <2>4. QED
    BY <2>2, <2>3, CommitKeeps, FaultIsCounted
<1>3. ASSUME NEW s \in streams, StreamFails(s) PROVE IInv'
  <2> DEFINE w == ScheduleReconnect(Cleanup(World))
  <2>1. Sound(w)
    BY <1>0, <1>3, CleanupCloses, ScheduleSound DEF Silent, IInv, AloneWhileFetching
  <2>2. Commit(w) /\ Fault /\ UNCHANGED token
    BY <1>3 DEF StreamFails
  <2> HIDE DEF w
  <2>3. QED
    BY <2>1, <2>2, CommitKeeps, FaultIsCounted
<1>4. CASE ReconnectTimerFires
  <2> DEFINE v == [World EXCEPT !.c.timer = FALSE]
  <2>1. Sound(v)
    BY <1>0, FlagsAreFree
  <2>2. Commit(ConnectOp(v)) /\ UNCHANGED <<token, faults>>
    BY <1>4 DEF ReconnectTimerFires, NoFault
  <2> HIDE DEF v
  <2>3. QED
    BY <2>1, <2>2, ConnectSound, CommitKeeps, FaultIsCounted
<1>5. CASE WatchdogFires
  <2> DEFINE v == [World EXCEPT !.c.watchdog = FALSE]
             w == IF cl.state = "connected" THEN ReconnectOp(v) ELSE v
  <2>1. Sound(v)
    BY <1>0, FlagsAreFree
  <2>2. Commit(w) /\ Fault /\ UNCHANGED token
    BY <1>5 DEF WatchdogFires, Event
  <2> HIDE DEF v
  <2>3. Sound(w)
    BY <2>1, ReconnectSound
  <2> HIDE DEF w
  <2>4. QED
    BY <2>2, <2>3, CommitKeeps, FaultIsCounted
<1>6. CASE Online
  <2> DEFINE v == [World EXCEPT !.c.retrying = FALSE]
  <2>1. Sound(v)
    BY <1>0, FlagsAreFree
  <2>2. Commit(ConnectOp(v)) /\ UNCHANGED <<token, faults>>
    BY <1>6 DEF Online, NoFault
  <2> HIDE DEF v
  <2>3. QED
    BY <2>1, <2>2, ConnectSound, CommitKeeps, FaultIsCounted
<1>7. CASE Offline
  <2>1. Commit(DisconnectOp(World)) /\ Fault /\ UNCHANGED token
    BY <1>7 DEF Offline, Event
  <2>2. QED
    BY <1>0, <2>1, DisconnectSound, CommitKeeps, FaultIsCounted
<1>8. CASE Visible
  <2>1. Commit(ReconnectOp(World)) /\ Fault /\ UNCHANGED token
    BY <1>8 DEF Visible, Event
  <2>2. QED
    BY <1>0, <2>1, ReconnectSound, CommitKeeps, FaultIsCounted
<1>9. QED
  BY <1>1, <1>2, <1>3, <1>4, <1>5, <1>6, <1>7, <1>8

\* An answer of the ticket server: the client has moved on, or it has no
\* stream that the new one would join.
LEMMA TicketsKeep ==
    ASSUME IInv, NEW g \in fetches, TicketFails(g) \/ TicketArrives(g)
    PROVE  IInv'
<1>0. /\ cl \in Client /\ cl.gen \in Nat /\ cl.gen <= MaxGen /\ g \in 1 .. cl.gen
      /\ fetches \subseteq 1 .. cl.gen /\ fetches' = fetches \ {g}
      /\ UNCHANGED token /\ faults' \in 0 .. MaxFaults
  BY FaultIsCounted DEF IInv, TypeOK, Client, TicketFails, TicketArrives, NoFault
<1>1. CASE UNCHANGED <<cl, streams>>
  BY <1>0, <1>1 DEF IInv, TypeOK, NoOrphanStream, DisconnectedMeansClosed, AloneWhileFetching,
     ConnectingWhileFetching
<1>2. CASE ~MovedOn(g) /\ TicketFails(g)
  <2>1. streams = {} /\ World.es = {} /\ World.c = cl
    BY <1>2 DEF MovedOn, IInv, AloneWhileFetching, World
  <2>2. /\ NoTicket \in Worlds /\ NoTicket.es = {} /\ NoTicket.c.gen = cl.gen
        /\ NoTicket.c.es = cl.es /\ NoTicket.c.watchdog = cl.watchdog
    BY <2>1, WorldIsSound, ScheduleFields DEF NoTicket, Sound
  <2>3. cl' = NoTicket.c /\ streams' = {}
    BY <1>2, <2>2 DEF TicketFails
  <2>4. cl' \in Client /\ cl'.gen = cl.gen /\ cl'.es = None /\ cl'.watchdog = FALSE
    BY <2>1, <2>2, <2>3 DEF Worlds, Client, IInv, TypeOK
  <2>5. QED
    BY <1>0, <1>2, <2>3, <2>4 DEF MovedOn, IInv, TypeOK, NoOrphanStream,
       DisconnectedMeansClosed, AloneWhileFetching, ConnectingWhileFetching
<1>3. CASE ~MovedOn(g) /\ TicketArrives(g)
  <2>1. streams = {} /\ g = cl.gen
    BY <1>3 DEF MovedOn, IInv, AloneWhileFetching
  <2> DEFINE s == [gen |-> g, ws |-> cl.ws, open |-> FALSE]
  <2>2. streams' = {s} /\ cl' = [cl EXCEPT !.es = g]
    BY <1>3, <2>1 DEF TicketArrives
  <2>3. /\ cl' \in Client /\ cl'.gen = g /\ cl'.es = g /\ cl'.state = cl.state
        /\ s \in Streams /\ s.gen = g
    BY <1>0, <2>1, <2>2 DEF Client, Streams
  <2> HIDE DEF s
  <2>4. TypeOK'
    BY <1>0, <2>1, <2>2, <2>3, NoneAssumption DEF IInv, TypeOK
  <2>5. NoOrphanStream' /\ AloneWhileFetching' /\ ConnectingWhileFetching'
    BY <1>0, <2>2, <2>3 DEF NoOrphanStream, AloneWhileFetching, ConnectingWhileFetching
  <2>6. DisconnectedMeansClosed'
    BY <1>0, <2>1, <2>3 DEF IInv, ConnectingWhileFetching, DisconnectedMeansClosed
  <2>7. QED
    BY <2>4, <2>5, <2>6 DEF IInv
<1>4. QED
  BY <1>1, <1>2, <1>3 DEF TicketFails, TicketArrives

LEMMA OpenKeeps ==
    ASSUME IInv, NEW s \in streams, OnOpen(s)
    PROVE  IInv'
<1> DEFINE t == [s EXCEPT !.open = TRUE]
<1>0. s \in Streams /\ s.gen = cl.es /\ s.gen <= cl.gen /\ cl \in Client
  BY DEF IInv, TypeOK, NoOrphanStream
<1>1. t \in Streams /\ t.gen = s.gen /\ s.gen # None
  <2>1. s.gen \in Nat
    BY <1>0, BoundsAssumption DEF Streams
  <2>2. t \in Streams /\ t.gen = s.gen
    BY <1>0 DEF Streams
  <2>3. QED
    BY <2>1, <2>2, NoneAssumption
<1>2. streams' = (streams \ {s}) \cup {t} /\ UNCHANGED <<fetches, token, faults>>
      /\ cl' = [cl EXCEPT !.retrying = FALSE, !.state = "connected", !.watchdog = TRUE]
  BY DEF OnOpen, NoFault
<1> HIDE DEF t
<1>3. cl' \in Client /\ cl'.gen = cl.gen /\ cl'.es = cl.es /\ cl'.state = "connected"
  BY <1>0, <1>2 DEF Client, States
<1>4. TypeOK' /\ NoOrphanStream'
  BY <1>0, <1>1, <1>2, <1>3 DEF IInv, TypeOK, NoOrphanStream
<1>5. DisconnectedMeansClosed' /\ AloneWhileFetching' /\ ConnectingWhileFetching'
  BY <1>2, <1>3 DEF IInv, DisconnectedMeansClosed, AloneWhileFetching, ConnectingWhileFetching
<1>6. QED
  BY <1>4, <1>5 DEF IInv

LEMMA TokenKeeps ==
    ASSUME IInv, TokenChanges
    PROVE  IInv'
<1>1. token' \in {"none", "later"} /\ UNCHANGED <<cl, fetches, streams>>
      /\ faults' \in 0 .. MaxFaults
  BY FaultIsCounted DEF TokenChanges, Event
<1>2. QED
  BY <1>1 DEF IInv, TypeOK, Tokens, NoOrphanStream, DisconnectedMeansClosed,
     AloneWhileFetching, ConnectingWhileFetching

----------------------------------------------------------------------------
(* The theorems                                                            *)

LEMMA Initially == Init => IInv
<1> SUFFICES ASSUME Init PROVE IInv
  OBVIOUS
<1>1. cl \in Client /\ cl.gen = 1 /\ cl.es = None /\ cl.watchdog = FALSE /\ cl.state = "connecting"
  BY DEF Init, Client, States
<1>2. QED
  BY <1>1, BoundsAssumption DEF Init, IInv, TypeOK, Tokens, NoOrphanStream,
     DisconnectedMeansClosed, AloneWhileFetching, ConnectingWhileFetching

LEMMA Inductive == IInv /\ [Next]_vars => IInv'
<1> SUFFICES ASSUME IInv, [Next]_vars PROVE IInv'
  OBVIOUS
<1>1. CASE UNCHANGED vars
  BY <1>1 DEF vars, IInv, TypeOK, NoOrphanStream, DisconnectedMeansClosed,
     AloneWhileFetching, ConnectingWhileFetching
<1>2. CASE Next
  BY <1>2, HandlersKeep, TicketsKeep, OpenKeeps, TokenKeeps DEF Next
<1>3. QED
  BY <1>1, <1>2

LEMMA Invariance == Spec => []IInv
BY Initially, Inductive, PTL DEF Spec

\* Type correctness; the EventSource the client holds is live, and the
\* watchdog is armed for none but that.
THEOREM TypeCorrect == Spec => []TypeOK
<1>1. IInv => TypeOK
  BY DEF IInv
<1>2. QED
  BY <1>1, Invariance, PTL

\* No EventSource is ever leaked and there are never two, in whatever order
\* ticket answers, reconnects, errors, switches and the disposal come, and
\* however often.
THEOREM NoStreamIsLeaked == Spec => []NoOrphanStream
<1>1. IInv => NoOrphanStream
  BY DEF IInv
<1>2. QED
  BY <1>1, Invariance, PTL

\* Until a sign-out, a client that reports to be disconnected has no live
\* EventSource, and none can arrive from a ticket that was still fetched.
THEOREM DisconnectedIsClosed == Spec => []DisconnectedMeansClosed
<1>1. IInv => DisconnectedMeansClosed
  BY DEF IInv
<1>2. QED
  BY <1>1, Invariance, PTL
=============================================================================
