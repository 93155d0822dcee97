--------------------------- MODULE RealtimeClient ---------------------------
(***************************************************************************)
(* The connection state machine of one browser tab                         *)
(* (libs/shared/realtime/src/lib/realtime-client.ts): one EventSource at a *)
(* time, a ticket fetched before each, a reconnect timer, a heartbeat      *)
(* watchdog and the browser's online/offline/visibility events.            *)
(*                                                                         *)
(* JavaScript runs a handler to completion, so a handler is one action;    *)
(* the methods it calls are functions from the client's state to its next  *)
(* state, composed in the order of the calls. What interleaves is what is  *)
(* asynchronous: the ticket request, the EventSource callbacks, timers and *)
(* browser events. Acks are modelled in ReliableDelivery; listeners,       *)
(* sibling-tab broadcast and the length of delays are left out.            *)
(***************************************************************************)
EXTENDS Naturals, FiniteSets

CONSTANTS
    Workspaces,  \* workspaces the tab may switch between
    None,        \* no EventSource
    Events,      \* what else may happen to the tab, among EventKinds
    MaxGen,      \* bound: connection attempts
    MaxFaults    \* bound: failed tickets, stream errors, token changes and
                 \* browser events, together

EventKinds == {"workspace", "watchdog", "visible", "offline", "token"}

ASSUME BoundsAssumption == MaxGen \in Nat \ {0} /\ MaxFaults \in Nat
ASSUME EventsAssumption == Events \subseteq EventKinds
ASSUME NoneAssumption == None \notin Nat

VARIABLES
    cl,       \* the RealtimeClient object
    fetches,  \* generations whose ticket request is in flight
    streams,  \* EventSources not closed yet: [gen, ws, open]
    token,    \* what getToken() returns, among Tokens
    faults    \* faults spent

vars == <<cl, fetches, streams, token, faults>>

\* The token the tab started with, none, or one obtained after a sign-out.
Tokens == {"first", "none", "later"}
HasToken == token # "none"

States == {"disconnected", "connecting", "reconnecting", "connected"}

----------------------------------------------------------------------------
(* Methods: from the pair of the client and the live EventSources to the   *)
(* next pair, and whether a ticket request was started.                    *)

World == [c |-> cl, es |-> streams, fetch |-> FALSE]

\* setState
SetState(w, s) == [w EXCEPT !.c.state = s]

\* cleanupConnection: drops the watchdog and closes the held EventSource.
CleanupKeepsHandle(w) ==
    [w EXCEPT !.c.watchdog = FALSE, !.es = {s \in @ : s.gen # w.c.es}]
Cleanup(w) ==
    [w EXCEPT !.c.watchdog = FALSE, !.c.es = None,
              !.es = {s \in @ : s.gen # w.c.es}]

\* The rest of connect, once there is a token: openStream's ticket request.
Attempt(w) == [w EXCEPT !.c.gen = @ + 1, !.fetch = TRUE]

\* connect: does nothing while connected or connecting.
ConnectOp(w) ==
    IF w.c.disposed \/ w.c.state \in {"connected", "connecting"} THEN w
    ELSE IF ~HasToken THEN SetState(w, "disconnected")
    ELSE Attempt(Cleanup(SetState(w, IF w.c.retrying THEN "reconnecting"
                                                     ELSE "connecting")))

ReconnectOp(w) == ConnectOp(Cleanup(w))

ScheduleReconnect(w) ==
    IF w.c.disposed THEN w
    ELSE LET v == SetState(w, "disconnected")
         IN  IF HasToken THEN [v EXCEPT !.c.timer = TRUE, !.c.retrying = TRUE]
                      ELSE [v EXCEPT !.c.timer = FALSE]

DisconnectKeepingGeneration(w) ==
    SetState([Cleanup(w) EXCEPT !.c.timer = FALSE], "disconnected")
DisconnectOp(w) ==
    LET v == Cleanup([w EXCEPT !.c.gen = @ + 1])
    IN  SetState([v EXCEPT !.c.timer = FALSE], "disconnected")

\* The handler computed w: it is the next state.
Commit(w) ==
    /\ w.c.gen <= MaxGen
    /\ cl' = w.c
    /\ streams' = w.es
    /\ fetches' = IF w.fetch THEN fetches \cup {w.c.gen} ELSE fetches

Fault == faults < MaxFaults /\ faults' = faults + 1
Event(e) == e \in Events /\ Fault
NoFault == UNCHANGED faults

----------------------------------------------------------------------------
(* What RealtimeProvider calls: a workspace switch and the disposal        *)

SetWorkspace(w) ==
    /\ w # cl.ws
    /\ Commit(LET v == [World EXCEPT !.c.ws = w]
              IN  IF cl.state \in {"connected", "connecting"}
                  THEN ReconnectOp(v) ELSE v)
    /\ Event("workspace")
    /\ UNCHANGED token

Dispose ==
    /\ ~cl.disposed
    /\ Commit(DisconnectOp([World EXCEPT !.c.disposed = TRUE]))
    /\ NoFault /\ UNCHANGED token

----------------------------------------------------------------------------
(* openStream: what follows the ticket request of generation g             *)

\* The client moved on while the ticket was fetched.
MovedOnIfDisposed(g) == cl.disposed
MovedOn(g) == cl.disposed \/ g # cl.gen

NoTicketGivesUp == World
NoTicket == ScheduleReconnect(World)

TicketFails(g) ==
    /\ g \in fetches
    /\ fetches' = fetches \ {g}
    /\ IF MovedOn(g)
       THEN UNCHANGED <<cl, streams>>
       ELSE cl' = NoTicket.c /\ streams' = NoTicket.es
    /\ Fault
    /\ UNCHANGED token

\* The stream's URL carries the workspace of this moment, not that of the
\* ticket request.
TicketArrives(g) ==
    /\ g \in fetches
    /\ fetches' = fetches \ {g}
    /\ IF MovedOn(g)
       THEN UNCHANGED <<cl, streams>>
       ELSE /\ streams' = streams \cup {[gen |-> g, ws |-> cl.ws, open |-> FALSE]}
            /\ cl' = [cl EXCEPT !.es = g]
    /\ NoFault /\ UNCHANGED token

----------------------------------------------------------------------------
(* EventSource callbacks: they come from a stream that is not closed. A    *)
(* frame re-arms the watchdog of an open stream, which is armed already,   *)
(* so it changes nothing here.                                             *)

OnOpen(s) ==
    /\ s \in streams
    /\ ~s.open
    /\ streams' = (streams \ {s}) \cup {[s EXCEPT !.open = TRUE]}
    /\ cl' = [cl EXCEPT !.retrying = FALSE, !.state = "connected",
                        !.watchdog = TRUE]
    /\ NoFault /\ UNCHANGED <<fetches, token>>

StreamFails(s) ==
    /\ s \in streams
    /\ Commit(ScheduleReconnect(Cleanup(World)))
    /\ Fault /\ UNCHANGED token

----------------------------------------------------------------------------
(* Timers                                                                  *)

ReconnectTimerFires ==
    /\ cl.timer
    /\ Commit(ConnectOp([World EXCEPT !.c.timer = FALSE]))
    /\ NoFault /\ UNCHANGED token

\* The watchdog is armed at the last frame, so when it fires the heartbeat
\* is overdue.
WatchdogFires ==
    /\ cl.watchdog
    /\ Commit(LET w == [World EXCEPT !.c.watchdog = FALSE]
              IN  IF cl.state = "connected" THEN ReconnectOp(w) ELSE w)
    /\ Event("watchdog")
    /\ UNCHANGED token

----------------------------------------------------------------------------
(* Browser events; the listeners stay registered after dispose             *)

Online ==
    /\ cl.state = "disconnected"
    /\ Commit(ConnectOp([World EXCEPT !.c.retrying = FALSE]))
    /\ NoFault /\ UNCHANGED token

Offline == Commit(DisconnectOp(World)) /\ Event("offline") /\ UNCHANGED token

\* The page becomes visible while disconnected, or with an overdue heartbeat.
Visible == Commit(ReconnectOp(World)) /\ Event("visible") /\ UNCHANGED token

TokenChanges ==
    /\ token' = IF HasToken THEN "none" ELSE "later"
    /\ Event("token")
    /\ UNCHANGED <<cl, fetches, streams>>

----------------------------------------------------------------------------
\* The state the constructor leaves: it connects. RealtimeProvider only
\* constructs a client when there is a token.
Init ==
    /\ token = "first"
    /\ \E w \in Workspaces :
         cl = [state |-> "connecting", ws |-> w, es |-> None, gen |-> 1,
               timer |-> FALSE, watchdog |-> FALSE, retrying |-> FALSE,
               disposed |-> FALSE]
    /\ fetches = {1}
    /\ streams = {}
    /\ faults = 0

Next ==
    \/ Dispose \/ \E w \in Workspaces : SetWorkspace(w)
    \/ \E g \in fetches : TicketFails(g) \/ TicketArrives(g)
    \/ \E s \in streams : OnOpen(s) \/ StreamFails(s)
    \/ ReconnectTimerFires \/ WatchdogFires
    \/ Online \/ Offline \/ Visible \/ TokenChanges

Spec == Init /\ [][Next]_vars

\* Timers fire, requests are answered and a stream that was opened either
\* opens or fails: nothing here waits for the user. An answer is not always
\* a failure.
Fairness ==
    /\ WF_vars(ReconnectTimerFires)
    /\ WF_vars(\E g \in fetches : TicketArrives(g))
    /\ WF_vars(\E s \in streams : OnOpen(s))

FairSpec == Spec /\ Fairness

----------------------------------------------------------------------------
(* Properties                                                              *)

Client == [state: States, ws: Workspaces, es: (1 .. MaxGen) \cup {None},
           gen: Nat, timer: BOOLEAN, watchdog: BOOLEAN,
           retrying: BOOLEAN, disposed: BOOLEAN]
Streams == [gen: 1 .. MaxGen, ws: Workspaces, open: BOOLEAN]

\* Type invariant; the EventSource the client holds is live, and the watchdog
\* is armed for none but that.
TypeOK ==
    /\ cl \in Client /\ cl.gen <= MaxGen
    /\ fetches \subseteq 1 .. cl.gen
    /\ streams \subseteq Streams /\ \A s \in streams : s.gen <= cl.gen
    /\ token \in Tokens
    /\ faults \in 0 .. MaxFaults
    /\ cl.es # None => \E s \in streams : s.gen = cl.es
    /\ cl.watchdog => cl.es # None

\* Every live EventSource is the one the client holds: whatever order ticket
\* answers, reconnects, errors and disposals come in, none is leaked with its
\* callbacks attached, and there are never two (openStream's generation
\* check, cleanupConnection).
NoOrphanStream == \A s \in streams : s.gen = cl.es

\* After disconnect(), dispose() or a stream error no EventSource is live,
\* not even one whose ticket was still being fetched. (Until a sign-out: a
\* reconnect timer that fires without a token reports disconnected and leaves
\* a stream that was opening alone.)
DisconnectedMeansClosed ==
    cl.state = "disconnected" /\ token = "first" => streams = {}

Streaming == \E s \in streams : s.open
GaveUp == ~HasToken \/ cl.disposed \/ (cl.state = "disconnected" /\ ~cl.timer)

\* reconnect() of a client that is connecting closes the EventSource, and the
\* connect() it calls returns early: an attempt with no stream and no ticket.
Cut == /\ cl.state \in {"connected", "connecting"}
       /\ cl.es = None
       /\ cl.gen \notin fetches

\* A stream lost to errors comes back on its own: from a scheduled reconnect
\* the tab gets to an open stream, however many tickets and streams fail and
\* whatever the browser reports on the way, unless it signs out, goes offline,
\* is disposed, or a reconnect() cuts the attempt.
LossRecovers ==
    (cl.state = "disconnected" /\ cl.timer) ~> (Streaming \/ GaveUp \/ Cut)
=============================================================================
