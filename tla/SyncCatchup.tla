----------------------------- MODULE SyncCatchup -----------------------------
(***************************************************************************)
(* How one tab stays current: BackgroundSyncManager and runCatchup         *)
(* (libs/shared/sync/src/lib/background-sync-manager.ts, sync-catchup.ts)  *)
(* against SyncService.getChanges (libs/api/sync), on the connection that  *)
(* RealtimeClient keeps (libs/shared/realtime/src/lib/realtime-client.ts). *)
(*                                                                         *)
(* A change reaches the tab as an event of its stream, through the batch   *)
(* of invalidations, or as part of the digest of a catch-up after a gap;   *)
(* many kinds of change take one of the two ways only. The gateway writes  *)
(* the events of all the user's workspaces to all the user's connections   *)
(* (realtime-gateway.service.ts:444-459), whichever workspace the stream   *)
(* was opened for, and the tab drops those of another than it shows.       *)
(*                                                                         *)
(* The tab `knows' a change when it has invalidated the queries it         *)
(* affects. Left out: other tabs, which share the cursors and the events,  *)
(* replay by lastEventId, the fallback without the endpoint, polling, the  *)
(* category cap and the seven-day clamp (both widen the refresh), the skew *)
(* between the two clocks, and the render between a change of the client's *)
(* state and the manager's. A change is visible from the time it carries   *)
(* on, and moves the clock, so no two have the same time.                  *)
(***************************************************************************)
EXTENDS Naturals

CONSTANTS
    Workspaces,
    None,        \* no cursor
    Kinds,       \* the kinds of change: sets of Ways
    MaxChanges,  \* bound: changes committed
    MaxFaults,   \* bound: lost streams, offline periods, failed requests
    MaxVisits    \* bound: switches of workspace and resumes of the tab

ASSUME NoneAssumption == None \notin Nat
ASSUME WorkspacesAssumption == Workspaces # {}
ASSUME BoundsAssumption == {MaxChanges, MaxFaults, MaxVisits} \subseteq Nat

VARIABLES
    changes,    \* committed changes: [ws, at, via]
    state,      \* the client's connection state
    stream,     \* its ticket, then its EventSource: see Streams
    retrying,   \* reconnectAttempts > 0
    wire,       \* changes whose events are on the stream
    workspace, online,
    batch,      \* changes waiting in the InvalidationBatcher
    known,      \* changes the tab has refreshed for
    cursor,     \* localStorage: the time a catch-up starts from, per workspace
    catchup,    \* the catch-up in flight
    failed,     \* history: the last catch-up failed
    skipped,    \* history: unknown changes put behind the cursor, of those
                \* that both ways tell of
    faults, visits

client == <<state, stream, retrying, wire>>
tab == <<workspace, online, batch, known, cursor, catchup>>
vars == <<changes, client, tab, failed, skipped, faults, visits>>

Streams == {"none", "ticket", "opening", "open"}

\* How the tab may learn of a change. A digest reads six tables for rows that
\* still exist: deletions, comments, invitations, integrations or settings are
\* never in one, nor is a change whose row is deleted soon. No event comes of
\* a change that publishes none, that the map has no case for (a meeting's),
\* or whose message pub/sub lost.
Ways == {"event", "digest"}
ASSUME KindsAssumption == Kinds \subseteq SUBSET Ways

Time == 0 .. MaxChanges
Changes == [ws: Workspaces, at: Time \ {0}, via: Kinds]
Idle == [pc |-> "idle"]
Fault == faults < MaxFaults /\ faults' = faults + 1
Visit == visits < MaxVisits /\ visits' = visits + 1
Of(w) == {c \in changes : c.ws = w}

\* The changes that an open stream as well as a digest tells of.
Covered(w) == {c \in Of(w) : c.via = Ways}

\* The time now: that of the last change.
Now == CHOOSE t \in Time : /\ \A c \in changes : c.at <= t
                           /\ t = 0 \/ \E c \in changes : c.at = t

----------------------------------------------------------------------------
(* The server                                                              *)

\* An open stream gets the event of a change, an opening one perhaps.
Emitted(c) ==
    IF "event" \notin c.via \/ stream \in {"none", "ticket"} THEN {wire}
    ELSE {wire \cup {c}} \cup (IF stream = "open" THEN {} ELSE {wire})

Commit(w, via) ==
    /\ Now < MaxChanges
    /\ LET c == [ws |-> w, at |-> Now + 1, via |-> via] IN
       /\ changes' = changes \cup {c}
       /\ wire' \in Emitted(c)
    /\ UNCHANGED <<state, stream, retrying, tab, failed, skipped, faults, visits>>

\* getChanges takes its time, then reads what is newer than `since'.
Stamp ==
    /\ catchup.pc = "asked"
    /\ catchup' = [pc |-> "stamped", ws |-> catchup.ws, since |-> catchup.since,
                   serverTime |-> Now]
    /\ UNCHANGED <<changes, client, workspace, online, batch, known, cursor,
                   failed, skipped, faults, visits>>

Read ==
    /\ catchup.pc = "stamped"
    /\ catchup' = [pc |-> "answered", ws |-> catchup.ws,
                   serverTime |-> catchup.serverTime,
                   changed |-> {c \in Of(catchup.ws) :
                               "digest" \in c.via /\ c.at > catchup.since}]
    /\ UNCHANGED <<changes, client, workspace, online, batch, known, cursor,
                   failed, skipped, faults, visits>>

----------------------------------------------------------------------------
(* reconcile                                                               *)

\* Without a cursor runCatchup starts ten minutes ago.
Since(w) == IF cursor[w] = None THEN 0 .. Now ELSE {cursor[w]}

\* reconcile starts a catch-up, unless one is in flight.
Reconcile(w, up) ==
    IF up /\ catchup = Idle
    THEN \E t \in Since(w) :
           /\ catchup' = [pc |-> "asked", ws |-> w, since |-> t]
           /\ skipped' = IF cursor[w] = None
                         THEN skipped \cup {c \in Covered(w) \ known : c.at <= t}
                         ELSE skipped
    ELSE UNCHANGED <<catchup, skipped>>

\* markSynced: the cursor of the current workspace is the client's time now,
\* whatever the tab knows by then.
MarkSynced(cur, nowKnown) ==
    /\ cursor' = [cur EXCEPT ![workspace] = Now]
    /\ skipped' = (skipped \ nowKnown) \cup
         {c \in Covered(workspace) \ nowKnown :
             cur[workspace] = None \/ c.at > cur[workspace]}

\* applyDigest, writeCursor, markSynced
FromClientClock(c) == Now
FromServer(c) == c.serverTime

CatchupEnds ==
    LET nowKnown == known \cup catchup.changed IN
    /\ catchup.pc = "answered"
    /\ known' = nowKnown
    /\ MarkSynced([cursor EXCEPT ![catchup.ws] = FromServer(catchup)], nowKnown)
    /\ catchup' = Idle
    /\ failed' = FALSE
    /\ UNCHANGED <<changes, client, workspace, online, batch, faults, visits>>

\* The request fails; the next trigger may start again.
StillInFlight == [pc |-> "stuck"]
NotInFlight == Idle

CatchupFails ==
    /\ catchup # Idle
    /\ catchup' = NotInFlight
    /\ failed' = TRUE
    /\ Fault
    /\ UNCHANGED <<changes, client, workspace, online, batch, known, cursor,
                   skipped, visits>>

----------------------------------------------------------------------------
(* Events                                                                  *)

\* onRealtimeEvent: events arrive in order; those of the workspace the tab
\* shows wait in the batch, the others are dropped.
Deliver ==
    /\ stream = "open"
    /\ \E c \in wire :
         /\ \A d \in wire : c.at <= d.at
         /\ wire' = wire \ {c}
         /\ batch' = IF c.ws = workspace THEN batch \cup {c} ELSE batch
    /\ UNCHANGED <<changes, state, stream, retrying, workspace, online, known, cursor,
                   catchup, failed, skipped, faults, visits>>

\* The batcher's timer fires.
Flush ==
    /\ batch # {}
    /\ known' = known \cup batch
    /\ batch' = {}
    /\ MarkSynced(cursor, known')
    /\ UNCHANGED <<changes, client, workspace, online, catchup, failed, faults, visits>>

\* The event of an agent or a run refreshes on a timer of its own.
AgentEvent ==
    /\ stream = "open"
    /\ batch = {}
    /\ MarkSynced(cursor, known)
    /\ UNCHANGED <<changes, client, workspace, online, batch, known, catchup,
                   failed, faults, visits>>

----------------------------------------------------------------------------
(* The client                                                              *)

\* connect, from a state in which it does not return at once.
AskTicket(again) ==
    /\ state' = IF again THEN "reconnecting" ELSE "connecting"
    /\ stream' = "ticket"

\* reconnect closes the stream; in two states its connect then opens none.
Reconnect ==
    /\ wire' = {}
    /\ IF state \in {"connected", "connecting"}
       THEN /\ stream' = IF stream = "ticket" THEN "ticket" ELSE "none"
            /\ UNCHANGED state
       ELSE AskTicket(retrying)
    /\ UNCHANGED retrying

\* The backoff timer fires; one left over from before may while reconnecting.
Connect ==
    /\ state \in {"disconnected", "reconnecting"}
    /\ AskTicket(retrying)
    /\ wire' = {}
    /\ UNCHANGED <<changes, retrying, tab, failed, skipped, faults, visits>>

TicketAnswered ==
    /\ stream = "ticket"
    /\ stream' = "opening"
    /\ UNCHANGED <<changes, state, retrying, wire, tab, failed, skipped, faults, visits>>

\* onopen, and setConnectionState: a gap may lie behind.
Opened ==
    /\ stream = "opening"
    /\ stream' = "open"
    /\ state' = "connected"
    /\ retrying' = FALSE
    /\ Reconcile(workspace, online)
    /\ UNCHANGED <<changes, wire, workspace, online, batch, known, cursor, failed,
                   faults, visits>>

\* No ticket, or onerror: what the stream carried is lost.
Lose ==
    /\ stream # "none"
    /\ stream' = "none"
    /\ state' = "disconnected"
    /\ retrying' = TRUE
    /\ wire' = {}
    /\ Fault
    /\ UNCHANGED <<changes, tab, failed, skipped, visits>>

\* The heartbeat watchdog fires.
Stall ==
    /\ stream = "open"
    /\ Reconnect
    /\ Fault
    /\ UNCHANGED <<changes, tab, failed, skipped, visits>>

----------------------------------------------------------------------------
(* The tab                                                                 *)

GoOffline ==
    /\ online
    /\ online' = FALSE
    /\ stream' = "none"
    /\ state' = "disconnected"
    /\ wire' = {}
    /\ Fault
    /\ UNCHANGED <<changes, retrying, workspace, batch, known, cursor, catchup, failed,
                   skipped, visits>>

GoOnline ==
    /\ ~online
    /\ online' = TRUE
    /\ IF state = "disconnected"
       THEN AskTicket(FALSE) /\ retrying' = FALSE
       ELSE UNCHANGED <<state, stream, retrying>>
    /\ Reconcile(workspace, TRUE)
    /\ UNCHANGED <<changes, wire, workspace, batch, known, cursor, failed, faults, visits>>

\* The tab becomes visible or the leader, is resumed, or is re-synced by hand.
\* Some of these make the client reconnect as well.
Resume ==
    /\ Visit
    /\ Reconnect \/ UNCHANGED client
    /\ Reconcile(workspace, online)
    /\ UNCHANGED <<changes, workspace, online, batch, known, cursor, failed, faults>>

\* setWorkspace of the manager drops the batch, that of the client closes the
\* stream in two of its states and leaves it alone in the others.
BatchKept == batch
BatchDropped == {}

Switch(w) ==
    /\ w # workspace
    /\ workspace' = w
    /\ batch' = BatchDropped
    /\ IF state \in {"connected", "connecting"} THEN Reconnect ELSE UNCHANGED client
    /\ Reconcile(w, online)
    /\ Visit
    /\ UNCHANGED <<changes, online, known, cursor, failed, faults>>

----------------------------------------------------------------------------
Init ==
    /\ changes = {}
    /\ state = "connecting"
    /\ stream = "ticket"
    /\ retrying = FALSE
    /\ wire = {}
    /\ workspace = CHOOSE w \in Workspaces : TRUE
    /\ online = TRUE
    /\ batch = {}
    /\ known = {}
    /\ cursor \in [Workspaces -> {None, 0}]
    /\ catchup = Idle
    /\ failed = FALSE
    /\ skipped = {}
    /\ faults = 0
    /\ visits = 0

Answer == Stamp \/ Read \/ CatchupEnds

Next ==
    \/ \E w \in Workspaces, via \in Kinds : Commit(w, via)
    \/ \E w \in Workspaces : Switch(w)
    \/ Answer \/ CatchupFails
    \/ Deliver \/ Flush \/ AgentEvent
    \/ Connect \/ TicketAnswered \/ Opened \/ Lose \/ Stall
    \/ GoOffline \/ GoOnline \/ Resume

Spec == Init /\ [][Next]_vars

\* A request is answered or fails, events arrive, timers fire.
Fairness == WF_vars(Answer \/ CatchupFails \/ Deliver \/ Flush)
FairSpec == Spec /\ Fairness

----------------------------------------------------------------------------
(* Properties                                                              *)

\* A catch-up: its request, the server between its two reads, its digest.
Catchup ==
    {Idle}
    \cup [pc: {"asked"}, ws: Workspaces, since: Time]
    \cup [pc: {"stamped"}, ws: Workspaces, since: Time, serverTime: Time]
    \cup [pc: {"answered"}, ws: Workspaces, serverTime: Time, changed: SUBSET Changes]

\* The client's states that go with each state of its stream.
ClientOK ==
    /\ stream \in Streams
    /\ stream = "none" => state \in {"disconnected", "connecting", "connected"}
    /\ stream \in {"ticket", "opening"} => state \in {"connecting", "reconnecting"}
    /\ stream = "open" => state = "connected"

\* Type invariant. The batch only holds changes of the current workspace, no
\* cursor is ahead of time, and the client's state fits its stream.
TypeOK ==
    /\ changes \subseteq Changes
    /\ known \cup skipped \cup wire \subseteq changes
    /\ batch \subseteq Of(workspace)
    /\ ClientOK
    /\ cursor \in [Workspaces -> Time \cup {None}]
    /\ \A w \in Workspaces : cursor[w] # None => cursor[w] <= Now
    /\ catchup \in Catchup
    /\ workspace \in Workspaces
    /\ {retrying, online, failed} \subseteq BOOLEAN
    /\ faults \in 0 .. MaxFaults /\ visits \in 0 .. MaxVisits

Connected == stream = "open" /\ online

\* Nothing is on its way to the tab and it is connected.
Settled == Connected /\ wire = {} /\ batch = {} /\ catchup = Idle

\* The tab lacks nothing once it is connected and quiet: a gap in the stream
\* - a loss, a stall, an offline period, a visit to another workspace - is
\* closed by the catch-up of the reconnect, the switch or the return online,
\* however these overlap, and whichever workspace the stream was opened for.
\* This is about changes that both ways tell of. Excepted are a catch-up that
\* failed, the changes that were ahead of the cursor, unseen, when markSynced
\* moved it past them (it writes the client's time, not the time the tab is
\* known to be current to), and those before a first catch-up's ten minutes.
NothingMissed ==
    Settled /\ ~failed => Covered(workspace) \subseteq known \cup skipped

\* When the changes pause, a tab that keeps its stream open becomes settled,
\* so that NothingMissed says something of it: the batch is flushed, and a
\* catch-up, failed or not, does not stay in flight and block the next ones.
ComesToRest == []<>(Settled \/ ~Connected)
=============================================================================
