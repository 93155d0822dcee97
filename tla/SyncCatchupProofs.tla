-------------------------- MODULE SyncCatchupProofs --------------------------
(***************************************************************************)
(* What holds of SyncCatchup for any workspaces and any number of changes, *)
(* faults and visits.                                                      *)
(***************************************************************************)
EXTENDS SyncCatchup, TLAPS

----------------------------------------------------------------------------
(* The inductive invariant                                                 *)

\* The clock shows the time of the last change.
IsNow(t) == /\ \A c \in changes : c.at <= t
            /\ t = 0 \/ \E c \in changes : c.at = t
ClockRuns == \E t \in Time : IsNow(t)

\* What the tab has refreshed for, or put behind it unseen.
Settles(c) == c \in known \cup skipped

\* Nothing that is behind a cursor is lacking: a catch-up may start there.
BehindCursor ==
    \A w \in Workspaces : \A c \in Covered(w) :
        cursor[w] # None /\ c.at <= cursor[w] => Settles(c)

\* A catch-up lacks nothing behind the time it starts from, and its answer
\* nothing behind the time it ends at, which is not in the future.
CatchupIsComplete ==
    /\ catchup.pc \in {"asked", "stamped"} =>
         /\ catchup.since <= Now
         /\ \A c \in Covered(catchup.ws) : c.at <= catchup.since => Settles(c)
    /\ catchup.pc \in {"stamped", "answered"} => catchup.serverTime <= Now
    /\ catchup.pc = "answered" =>
         /\ catchup.changed \subseteq Of(catchup.ws)
         /\ \A c \in Covered(catchup.ws) :
              c.at <= catchup.serverTime => Settles(c) \/ c \in catchup.changed

\* A change the tab lacks is on its way, or a catch-up is or has yet to start.
OnItsWay ==
    \A c \in Covered(workspace) :
        \/ Settles(c) \/ c \in wire \cup batch
        \/ catchup # Idle \/ ~Connected \/ failed

IInv == TypeOK /\ ClockRuns /\ BehindCursor /\ CatchupIsComplete /\ OnItsWay

----------------------------------------------------------------------------
(* The clock                                                               *)

\* Now is the time of the last change.
LEMMA NowIsLast ==
    ASSUME ClockRuns
    PROVE  /\ Now \in Time /\ Now \in Nat /\ MaxChanges \in Nat
           /\ \A c \in changes : c.at <= Now
           /\ Now = 0 \/ \E c \in changes : c.at = Now
<1>1. Now \in Time /\ IsNow(Now)
  BY DEF ClockRuns, IsNow, Now
<1>2. QED
  BY <1>1, BoundsAssumption DEF IsNow, Time

\* It stands still unless a change is committed, and then it moves by one.
LEMMA ClockStep ==
    ASSUME IInv, [Next]_vars
    PROVE  /\ ClockRuns' /\ Now' >= Now /\ Now' \in Nat /\ Now \in Nat
           /\ changes \subseteq changes' /\ changes' \subseteq Changes
           /\ \A c \in changes' \ changes : c.at > Now
           /\ changes' = changes => Now' = Now
<1>0. /\ Now \in Time /\ Now \in Nat /\ MaxChanges \in Nat
      /\ \A c \in changes : c.at <= Now
      /\ Now = 0 \/ \E c \in changes : c.at = Now
  BY NowIsLast DEF IInv
<1>1. CASE changes' = changes
  BY <1>0, <1>1 DEF IInv, TypeOK, ClockRuns, IsNow, Now
<1>2. ASSUME NEW w \in Workspaces, NEW via \in Kinds, Commit(w, via)
      PROVE  /\ ClockRuns' /\ changes \subseteq changes' /\ changes' \subseteq Changes
             /\ \A c \in changes' \ changes : c.at > Now
             /\ Now' >= Now /\ Now' \in Nat /\ changes' # changes
  <2> DEFINE c == [ws |-> w, at |-> Now + 1, via |-> via]
  <2>1. changes' = changes \cup {c} /\ Now < MaxChanges
    BY <1>2 DEF Commit
  <2>2. c \in Changes /\ Now + 1 \in Time /\ c.at = Now + 1
    BY <1>0, <2>1 DEF Changes, Time
  <2>3. c \notin changes
    BY <1>0, <2>2
  <2>4. (\A d \in changes' : d.at <= Now + 1) /\ \E d \in changes' : d.at = Now + 1
    <3>1. \A d \in changes : d.at \in Nat
      BY <1>0 DEF IInv, TypeOK, Changes, Time
    <3>2. QED
      BY <1>0, <2>1, <2>2, <3>1
  <2>5. ClockRuns'
    <3>1. \A t \in Time : t = Now + 1 => IsNow(t)'
      BY <2>4 DEF IsNow
    <3>2. QED
      BY <2>2, <3>1 DEF ClockRuns
  <2>6. Now' \in Nat /\ Now' >= Now + 1
    <3>1. Now' \in Nat /\ \A d \in changes' : d.at <= Now'
      <4>1. (Now \in Time)' /\ IsNow(Now)'
        BY <2>5 DEF ClockRuns, IsNow, Now
      <4>2. QED
        BY <1>0, <4>1 DEF IsNow, Time
    <3>2. QED
      BY <2>1, <2>2, <3>1
  <2>7. QED
    BY <1>0, <2>1, <2>2, <2>3, <2>5, <2>6 DEF IInv, TypeOK
<1>3. changes' = changes \/ \E w \in Workspaces, via \in Kinds : Commit(w, via)
  BY DEF Next, vars, Answer, Stamp, Read, CatchupEnds, CatchupFails, Deliver, Flush, AgentEvent,
     Connect, TicketAnswered, Opened, Lose, Stall, GoOffline, GoOnline, Resume, Switch
<1>4. QED
  BY <1>0, <1>1, <1>2, <1>3

----------------------------------------------------------------------------
(* Types                                                                   *)

\* The client: its state fits its stream.
LEMMA ClientStep ==
    ASSUME TypeOK, [Next]_vars
    PROVE  ClientOK' /\ retrying' \in BOOLEAN
<1>0. ClientOK /\ retrying \in BOOLEAN
  BY DEF TypeOK
<1>a. ASSUME UNCHANGED <<state, stream, retrying>> PROVE ClientOK' /\ retrying' \in BOOLEAN
  BY <1>0, <1>a DEF ClientOK
<1>b. ASSUME NEW again \in BOOLEAN, AskTicket(again) PROVE ClientOK'
  BY <1>b DEF AskTicket, ClientOK, Streams
<1>c. ASSUME Reconnect PROVE ClientOK' /\ retrying' \in BOOLEAN
  <2>1. CASE state \in {"connected", "connecting"}
    BY <1>0, <1>c, <2>1 DEF Reconnect, ClientOK, Streams
  <2>2. CASE state \notin {"connected", "connecting"}
    BY <1>0, <1>b, <1>c, <2>2 DEF Reconnect
  <2>3. QED
    BY <2>1, <2>2
<1>1. ASSUME NEW w \in Workspaces, NEW via \in Kinds, Commit(w, via)
      PROVE  ClientOK' /\ retrying' \in BOOLEAN
  BY <1>a, <1>1 DEF Commit
<1>2. CASE Stamp \/ Read \/ CatchupEnds \/ CatchupFails \/ Deliver \/ Flush \/ AgentEvent
  BY <1>a, <1>2 DEF Stamp, Read, CatchupEnds, CatchupFails, Deliver, Flush, AgentEvent, client
<1>3. CASE Connect
  BY <1>0, <1>b, <1>3 DEF Connect
<1>4. CASE TicketAnswered \/ Opened \/ Lose \/ GoOffline
  BY <1>0, <1>4 DEF TicketAnswered, Opened, Lose, GoOffline, ClientOK, Streams
<1>5. CASE Stall
  BY <1>c, <1>5 DEF Stall
<1>6. CASE GoOnline
  BY <1>a, <1>b, <1>6 DEF GoOnline
<1>7. CASE Resume
  BY <1>a, <1>c, <1>7 DEF Resume, client
<1>8. ASSUME NEW w \in Workspaces, Switch(w) PROVE ClientOK' /\ retrying' \in BOOLEAN
  BY <1>a, <1>c, <1>8 DEF Switch, client
<1>9. CASE UNCHANGED vars
  BY <1>a, <1>9 DEF vars, client
<1>10. QED
  BY <1>1, <1>2, <1>3, <1>4, <1>5, <1>6, <1>7, <1>8, <1>9 DEF Next, Answer

\* reconcile starts at most one catch-up, from the cursor; without one, it
\* puts what is older than its start behind.
LEMMA ReconcileDoes ==
    ASSUME TypeOK, Now \in Time, NEW w \in Workspaces, NEW up, Reconcile(w, up)
    PROVE  /\ catchup' \in Catchup
           /\ \/ catchup' = catchup
              \/ \E t \in Since(w) :
                   /\ catchup' = [pc |-> "asked", ws |-> w, since |-> t]
                   /\ cursor[w] = None =>
                        \A c \in Covered(w) : c.at <= t => c \in known \cup skipped'
           /\ up => catchup' # Idle
           /\ skipped \subseteq skipped' /\ skipped' \subseteq changes
<1>1. CASE up /\ catchup = Idle
  <2>1. PICK t \in Since(w) :
          /\ catchup' = [pc |-> "asked", ws |-> w, since |-> t]
          /\ skipped' = IF cursor[w] = None
                        THEN skipped \cup {c \in Covered(w) \ known : c.at <= t}
                        ELSE skipped
    BY <1>1 DEF Reconcile
  <2>2. t \in Time
    BY BoundsAssumption DEF Since, TypeOK, Time
  <2>3. catchup' \in Catchup
    BY <2>1, <2>2 DEF Catchup
  <2>4. skipped \subseteq skipped' /\ skipped' \subseteq changes
    BY <2>1 DEF TypeOK, Covered, Of
  <2>5. catchup' # Idle
    BY <2>1 DEF Idle
  <2>6. cursor[w] = None => \A c \in Covered(w) : c.at <= t => c \in known \cup skipped'
    BY <2>1
  <2>7. QED
    BY <2>1, <2>2, <2>3, <2>4, <2>5, <2>6
<1>2. CASE ~(up /\ catchup = Idle)
  BY <1>2 DEF Reconcile, TypeOK
<1>3. QED
  BY <1>1, <1>2

\* What a catch-up holds, stage by stage.
LEMMA CatchupHolds ==
    ASSUME TypeOK
    PROVE  /\ catchup # Idle => catchup.ws \in Workspaces
           /\ catchup.pc \in {"asked", "stamped"} => catchup.since \in Time
           /\ catchup.pc \in {"stamped", "answered"} => catchup.serverTime \in Time
           /\ catchup.pc = "answered" => catchup.changed \subseteq Changes
           /\ catchup.pc \in {"asked", "stamped", "answered"} => catchup # Idle
<1>1. CASE catchup = Idle
  BY <1>1 DEF Idle
<1>2. CASE catchup \in [pc: {"asked"}, ws: Workspaces, since: Time]
  BY <1>2 DEF Idle
<1>3. CASE catchup \in [pc: {"stamped"}, ws: Workspaces, since: Time, serverTime: Time]
  BY <1>3 DEF Idle
<1>4. CASE catchup \in [pc: {"answered"}, ws: Workspaces, serverTime: Time, changed: SUBSET Changes]
  BY <1>4 DEF Idle
<1>5. QED
  BY <1>1, <1>2, <1>3, <1>4 DEF TypeOK, Catchup

\* The cursors, and that none is ahead of time.
CursorsOK ==
    /\ cursor \in [Workspaces -> Time \cup {None}]
    /\ \A w \in Workspaces : cursor[w] # None => cursor[w] <= Now

LEMMA TypesStep ==
    ASSUME IInv, [Next]_vars
    PROVE  TypeOK'
<1>0. /\ TypeOK /\ Now' >= Now /\ Now' \in Nat /\ Now \in Nat /\ Now \in Time
      /\ (changes \subseteq changes' /\ changes' \subseteq Changes)
      /\ (\A w \in Workspaces :
            cursor[w] # None => cursor[w] \in Nat /\ cursor[w] <= Now /\ cursor[w] <= Now')
      /\ (ClientOK' /\ retrying' \in BOOLEAN)
  <2>1. TypeOK /\ Now' >= Now /\ Now' \in Nat /\ Now \in Nat /\ Now \in Time
        /\ changes \subseteq changes' /\ changes' \subseteq Changes
        /\ ClientOK' /\ retrying' \in BOOLEAN
    BY ClockStep, NowIsLast, ClientStep DEF IInv
  <2>2. QED
    BY <2>1, BoundsAssumption DEF TypeOK, Time
<1>a. Fault \/ UNCHANGED faults => faults' \in 0 .. MaxFaults
  BY <1>0, BoundsAssumption DEF Fault, TypeOK
<1>b. Visit \/ UNCHANGED visits => visits' \in 0 .. MaxVisits
  BY <1>0, BoundsAssumption DEF Visit, TypeOK
<1>c. ASSUME UNCHANGED cursor PROVE CursorsOK'
  BY <1>0, <1>c DEF CursorsOK, TypeOK
\* What is common: it remains to show the rest.
<1>d. ASSUME (known \cup skipped \cup wire \subseteq changes)', (batch \subseteq Of(workspace))',
             CursorsOK', catchup' \in Catchup, workspace' \in Workspaces,
             {online', failed'} \subseteq BOOLEAN,
             Fault \/ UNCHANGED faults, Visit \/ UNCHANGED visits
      PROVE  TypeOK'
  BY <1>0, <1>a, <1>b, <1>d DEF CursorsOK, TypeOK
\* Actions that leave the clock and the cursors alone.
<1>1. ASSUME NEW w \in Workspaces, NEW via \in Kinds, Commit(w, via) PROVE TypeOK'
  <2> DEFINE c == [ws |-> w, at |-> Now + 1, via |-> via]
  <2>1. /\ changes' = changes \cup {c} /\ wire' \in Emitted(c)
        /\ UNCHANGED <<state, stream, retrying, tab, failed, skipped, faults, visits>>
    BY <1>1 DEF Commit
  <2> HIDE DEF c
  <2>2. wire' \subseteq wire \cup {c}
    BY <2>1 DEF Emitted
  <2>3. QED
    BY <1>0, <1>c, <1>d, <2>1, <2>2 DEF TypeOK, Of, tab
<1>2. CASE Stamp
  <2>1. catchup \in [pc: {"asked"}, ws: Workspaces, since: Time]
    BY <1>0, <1>2 DEF Stamp, TypeOK, Catchup, Idle
  <2>2. catchup' \in Catchup
    BY <1>0, <1>2, <2>1 DEF Stamp, Catchup
  <2>3. QED
    BY <1>0, <1>2, <1>c, <1>d, <2>2 DEF Stamp, TypeOK, Of, client
<1>3. CASE Read
  <2>1. catchup \in [pc: {"stamped"}, ws: Workspaces, since: Time, serverTime: Time]
    BY <1>0, <1>3 DEF Read, TypeOK, Catchup, Idle
  <2>2. {c \in Of(catchup.ws) : "digest" \in c.via /\ c.at > catchup.since} \subseteq Changes
    BY <1>0 DEF TypeOK, Of
  <2>3. catchup' \in Catchup
    BY <1>3, <2>1, <2>2 DEF Read, Catchup
  <2>4. QED
    BY <1>0, <1>3, <1>c, <1>d, <2>3 DEF Read, TypeOK, Of, client
<1>4. CASE CatchupFails
  BY <1>0, <1>4, <1>c, <1>d DEF CatchupFails, NotInFlight, Catchup, TypeOK, Of, client
<1>5. CASE Deliver
  <2>1. PICK c \in wire : /\ wire' = wire \ {c}
                          /\ batch' = IF c.ws = workspace THEN batch \cup {c} ELSE batch
    BY <1>5 DEF Deliver
  <2>2. UNCHANGED <<changes, workspace, online, known, cursor, catchup,
                        failed, skipped, faults, visits>>
    BY <1>5 DEF Deliver
  <2>3. QED
    BY <1>0, <1>c, <1>d, <2>1, <2>2 DEF TypeOK, Of
<1>6. CASE Opened \/ GoOnline \/ Resume
  <2>1. /\ \E up : Reconcile(workspace, up)
        /\ UNCHANGED <<changes, workspace, batch, known, cursor, failed, faults>>
        /\ wire' \subseteq wire /\ online' \in BOOLEAN /\ (Visit \/ UNCHANGED visits)
    BY <1>0, <1>6 DEF Opened, GoOnline, Resume, Reconnect, client, TypeOK
  <2>2. catchup' \in Catchup /\ skipped' \subseteq changes
    BY <1>0, <2>1, ReconcileDoes DEF TypeOK
  <2>3. QED
    BY <1>0, <1>c, <1>d, <2>1, <2>2 DEF TypeOK, Of
<1>7. CASE Connect \/ TicketAnswered \/ Lose \/ Stall \/ GoOffline
  <2>1. /\ UNCHANGED <<changes, workspace, batch, known, cursor, catchup, failed, skipped, visits>>
        /\ wire' \subseteq wire /\ online' \in BOOLEAN /\ (Fault \/ UNCHANGED faults)
    BY <1>0, <1>7 DEF Connect, TicketAnswered, Lose, Stall, GoOffline, Reconnect, tab, TypeOK
  <2>2. QED
    BY <1>0, <1>c, <1>d, <2>1 DEF TypeOK, Of
<1>8. ASSUME NEW w \in Workspaces, Switch(w) PROVE TypeOK'
  <2>1. /\ Reconcile(w, online) /\ batch' = {} /\ workspace' = w /\ wire' \subseteq wire /\ Visit
        /\ UNCHANGED <<changes, online, known, cursor, failed, faults>>
    BY <1>8 DEF Switch, BatchDropped, Reconnect, client
  <2>2. catchup' \in Catchup /\ skipped' \subseteq changes
    BY <1>0, <2>1, ReconcileDoes
  <2>3. QED
    BY <1>0, <1>c, <1>d, <2>1, <2>2 DEF TypeOK, Of
\* Actions that mark the workspace as synced.
<1>e. ASSUME NEW cur \in [Workspaces -> Time \cup {None}], NEW K \in SUBSET changes,
             \A w \in Workspaces : cur[w] # None => cur[w] <= Now,
             MarkSynced(cur, K), UNCHANGED <<changes, workspace>>
      PROVE  CursorsOK' /\ skipped' \subseteq changes
  <2>1. cursor' = [cur EXCEPT ![workspace] = Now]
    BY <1>e DEF MarkSynced
  <2>2. Now' = Now
    BY <1>e, ClockStep
  <2>3. \A w \in Workspaces : cursor'[w] \in {cur[w], Now}
    BY <1>e, <2>1
  <2>4. cursor' \in [Workspaces -> Time \cup {None}]
    BY <1>0, <1>e, <2>1
  <2>5. skipped' \subseteq changes
    BY <1>0, <1>e DEF MarkSynced, TypeOK, Covered, Of
  <2>6. QED
    BY <1>0, <1>e, <2>2, <2>3, <2>4, <2>5 DEF CursorsOK
<1>9. CASE Flush
  <2> DEFINE K == known \cup batch
  <2>1. K \in SUBSET changes
    BY <1>0 DEF TypeOK, Of
  <2>2. /\ MarkSynced(cursor, K) /\ known' = K /\ batch' = {}
        /\ UNCHANGED <<changes, wire, workspace, online, catchup, failed, faults, visits>>
    BY <1>9 DEF Flush, client
  <2>3. cursor \in [Workspaces -> Time \cup {None}]
    BY <1>0 DEF TypeOK
  <2> HIDE DEF K
  <2>4. CursorsOK' /\ skipped' \subseteq changes
    BY <1>0, <1>e, <2>1, <2>2, <2>3
  <2>5. QED
    BY <1>0, <1>d, <2>1, <2>2, <2>4 DEF TypeOK, Of
<1>10. CASE AgentEvent
  <2>1. /\ MarkSynced(cursor, known)
        /\ UNCHANGED <<changes, wire, workspace, online, batch, known, catchup,
                       failed, faults, visits>>
    BY <1>10 DEF AgentEvent, client
  <2>2. cursor \in [Workspaces -> Time \cup {None}] /\ known \in SUBSET changes
    BY <1>0 DEF TypeOK
  <2>3. CursorsOK' /\ skipped' \subseteq changes
    BY <1>0, <1>e, <2>1, <2>2
  <2>4. QED
    BY <1>0, <1>d, <2>1, <2>3 DEF TypeOK, Of
<1>11. CASE CatchupEnds
  <2> DEFINE K == known \cup catchup.changed
             cur == [cursor EXCEPT ![catchup.ws] = FromServer(catchup)]
  <2>1. /\ MarkSynced(cur, K) /\ known' = K /\ catchup' = Idle /\ failed' = FALSE
        /\ UNCHANGED <<changes, wire, workspace, online, batch, faults, visits>>
        /\ catchup.pc = "answered"
    BY <1>11 DEF CatchupEnds, client
  <2>2. K \in SUBSET changes
    BY <1>0, <2>1 DEF IInv, CatchupIsComplete, TypeOK, Of
  <2>3. /\ cur \in [Workspaces -> Time \cup {None}]
        /\ \A w \in Workspaces : cur[w] # None => cur[w] <= Now
    BY <1>0, <2>1, CatchupHolds DEF IInv, CatchupIsComplete, TypeOK, FromServer
  <2> HIDE DEF K, cur
  <2>4. CursorsOK' /\ skipped' \subseteq changes
    BY <1>e, <2>1, <2>2, <2>3
  <2>5. QED
    BY <1>0, <1>d, <2>1, <2>2, <2>4 DEF TypeOK, Of, Catchup
<1>12. CASE UNCHANGED vars
  BY <1>0, <1>12, <1>c, <1>d DEF vars, tab, client, TypeOK, Of
<1>13. QED
  BY <1>1, <1>2, <1>3, <1>4, <1>5, <1>6, <1>7, <1>8, <1>9, <1>10, <1>11, <1>12
     DEF Next, Answer

----------------------------------------------------------------------------
(* What the tab lacks                                                      *)

\* markSynced leaves nothing of the current workspace outside of what is known
\* and what it puts behind the cursor, if nothing was lacking behind the old one.
LEMMA MarkSyncedSettles ==
    ASSUME TypeOK, NEW cur \in [Workspaces -> Time \cup {None}], NEW K, known \subseteq K,
           MarkSynced(cur, K), known' = K,
           \A c \in Covered(workspace) :
             cur[workspace] # None /\ c.at <= cur[workspace] => Settles(c) \/ c \in K
    PROVE  /\ \A c : Settles(c) => Settles(c)'
           /\ \A c \in Covered(workspace) : Settles(c)'
           /\ \A w \in Workspaces : w # workspace => cursor'[w] = cur[w]
<1>1. /\ cursor' = [cur EXCEPT ![workspace] = Now]
      /\ skipped' = (skipped \ K) \cup
           {c \in Covered(workspace) \ K : cur[workspace] = None \/ c.at > cur[workspace]}
  BY DEF MarkSynced
<1>2. ASSUME NEW c, Settles(c) PROVE Settles(c)'
  BY <1>1, <1>2 DEF Settles
<1>3. ASSUME NEW c \in Covered(workspace) PROVE Settles(c)'
  <2>1. c.at \in Nat /\ (cur[workspace] # None => cur[workspace] \in Nat)
    BY <1>3, BoundsAssumption DEF TypeOK, Covered, Of, Changes, Time
  <2>2. CASE c \in K
    BY <2>2 DEF Settles
  <2>3. CASE c \notin K /\ (cur[workspace] = None \/ c.at > cur[workspace])
    BY <1>1, <2>3 DEF Settles
  <2>4. CASE c \notin K /\ cur[workspace] # None /\ c.at <= cur[workspace]
    BY <1>2, <2>4
  <2>5. QED
    BY <2>1, <2>2, <2>3, <2>4
<1>4. QED
  BY <1>1, <1>2, <1>3

\* The steps that refresh: after them nothing of the current workspace is
\* lacking, and of the others nothing behind their cursors.
LEMMA MarksSettle ==
    ASSUME IInv, Flush \/ AgentEvent \/ CatchupEnds
    PROVE  /\ \A c : Settles(c) => Settles(c)'
           /\ UNCHANGED <<changes, workspace>>
           /\ \A c \in Covered(workspace) : Settles(c)'
           /\ \A w \in Workspaces : \A c \in Covered(w) :
                cursor'[w] # None /\ c.at <= cursor'[w] => w = workspace \/ Settles(c)'
           /\ catchup' \in {catchup, Idle}
<1>0. TypeOK /\ cursor \in [Workspaces -> Time \cup {None}] /\ workspace \in Workspaces
      /\ \A w \in Workspaces : \A c \in Covered(w) :
           cursor[w] # None /\ c.at <= cursor[w] => Settles(c)
  BY DEF IInv, TypeOK, BehindCursor
<1>1. CASE Flush \/ AgentEvent
  <2> DEFINE K == known'
  <2>1. known \subseteq K /\ MarkSynced(cursor, K) /\ UNCHANGED <<changes, workspace, catchup>>
    BY <1>1 DEF Flush, AgentEvent
  <2> HIDE DEF K
  <2>2. /\ \A c : Settles(c) => Settles(c)'
        /\ \A c \in Covered(workspace) : Settles(c)'
        /\ \A w \in Workspaces : w # workspace => cursor'[w] = cursor[w]
    BY <1>0, <2>1, MarkSyncedSettles DEF K
  <2>3. QED
    BY <1>0, <2>1, <2>2
<1>2. CASE CatchupEnds
  <2> DEFINE K == known'
             cur == [cursor EXCEPT ![catchup.ws] = catchup.serverTime]
  <2>1. /\ K = known \cup catchup.changed /\ MarkSynced(cur, K) /\ catchup' = Idle
        /\ UNCHANGED <<changes, workspace>> /\ catchup.pc = "answered"
    BY <1>2 DEF CatchupEnds, FromServer
  <2>2. /\ cur \in [Workspaces -> Time \cup {None}]
        /\ \A w \in Workspaces : \A c \in Covered(w) :
             cur[w] # None /\ c.at <= cur[w] => Settles(c) \/ c \in K
    <3>1. catchup.ws \in Workspaces /\ catchup.serverTime \in Time
      BY <1>0, <2>1, CatchupHolds
    <3>2. \A c \in Covered(catchup.ws) :
            c.at <= catchup.serverTime => Settles(c) \/ c \in catchup.changed
      BY <2>1 DEF IInv, CatchupIsComplete
    <3>3. \A w \in Workspaces :
            cur[w] = IF w = catchup.ws THEN catchup.serverTime ELSE cursor[w]
      BY <1>0, <3>1
    <3>4. QED
      BY <1>0, <2>1, <3>1, <3>2, <3>3
  <2> HIDE DEF K, cur
  <2>3. /\ \A c : Settles(c) => Settles(c)'
        /\ \A c \in Covered(workspace) : Settles(c)'
        /\ \A w \in Workspaces : w # workspace => cursor'[w] = cur[w]
    BY <1>0, <2>1, <2>2, MarkSyncedSettles DEF K
  <2>4. \A c \in K : Settles(c)'
    BY DEF Settles, K
  <2>5. QED
    BY <1>0, <2>1, <2>2, <2>3, <2>4
<1>3. QED
  BY <1>1, <1>2

\* Every other step leaves the cursors and what the tab knows alone.
LEMMA QuietSteps ==
    ASSUME TypeOK, [Next]_vars, ~(Flush \/ AgentEvent \/ CatchupEnds)
    PROVE  UNCHANGED <<known, cursor>> /\ \A c : Settles(c) => Settles(c)'
<1>1. UNCHANGED <<known, cursor>>
  BY DEF Next, vars, tab, Answer, Stamp, Read, CatchupFails, Deliver, Connect, TicketAnswered,
     Opened, Lose, Stall, GoOffline, GoOnline, Resume, Switch, Commit
<1>2. skipped' = skipped \/ \E w \in Workspaces : \E up : Reconcile(w, up)
  <2>1. workspace \in Workspaces
    BY DEF TypeOK
  <2>2. CASE Opened \/ GoOnline \/ Resume
    BY <2>1, <2>2 DEF Opened, GoOnline, Resume
  <2>3. CASE \E w \in Workspaces : Switch(w)
    BY <2>3 DEF Switch
  <2>4. CASE ~(Opened \/ GoOnline \/ Resume \/ \E w \in Workspaces : Switch(w))
    BY <2>4 DEF Next, vars, Answer, Stamp, Read, CatchupFails, Deliver, Connect, TicketAnswered,
       Lose, Stall, GoOffline, Commit
  <2>5. QED
    BY <2>2, <2>3, <2>4
<1>3. skipped \subseteq skipped'
  BY <1>2 DEF Reconcile
<1>4. QED
  BY <1>1, <1>3 DEF Settles

\* A change that a step commits is ahead of the clock.
LEMMA NewChangesAreAhead ==
    ASSUME IInv, [Next]_vars, NEW c \in changes'
    PROVE  c \in changes \/ (c.at > Now /\ c.at \in Nat /\ Now \in Nat)
BY ClockStep, BoundsAssumption DEF Changes, Time

LEMMA BehindCursorStep ==
    ASSUME IInv, [Next]_vars
    PROVE  BehindCursor'
<1> SUFFICES ASSUME NEW w \in Workspaces, NEW c \in Covered(w)',
                    cursor'[w] # None, c.at <= cursor'[w]
             PROVE  Settles(c)'
  BY DEF BehindCursor
<1>1. CASE Flush \/ AgentEvent \/ CatchupEnds
  BY <1>1, MarksSettle DEF Covered, Of
<1>2. CASE ~(Flush \/ AgentEvent \/ CatchupEnds)
  <2>1. cursor' = cursor /\ (Settles(c) => Settles(c)')
    BY <1>2, QuietSteps DEF IInv
  <2>2. cursor[w] \in Nat /\ cursor[w] <= Now
    BY <2>1, BoundsAssumption DEF IInv, TypeOK, Time
  <2>3. c \in Covered(w)
    <3>1. c \in changes' /\ c.ws = w /\ c.via = Ways /\ c.at <= cursor[w]
      BY <2>1 DEF Covered, Of
    <3>2. c \in changes
      BY <2>2, <3>1, NewChangesAreAhead
    <3>3. QED
      BY <3>1, <3>2 DEF Covered, Of
  <2>4. QED
    BY <2>1, <2>3 DEF IInv, BehindCursor
<1>3. QED
  BY <1>1, <1>2

LEMMA CatchupStep ==
    ASSUME IInv, [Next]_vars
    PROVE  CatchupIsComplete'
<1>0. /\ TypeOK /\ Now' \in Nat /\ Now \in Nat /\ Now' >= Now /\ CatchupIsComplete /\ BehindCursor
      /\ catchup \in Catchup /\ \A w \in Workspaces :
                                  cursor[w] # None => cursor[w] <= Now /\ cursor[w] \in Nat
      /\ Time \subseteq Nat
  BY ClockStep, BoundsAssumption DEF IInv, TypeOK, Time
<1>a. \A c : Settles(c) => Settles(c)'
  BY QuietSteps, MarksSettle DEF IInv
\* A change that is committed meanwhile is newer than both times.
<1>1. CASE catchup' = catchup
  <2>1. ASSUME catchup.pc \in {"asked", "stamped"}
        PROVE  /\ catchup.since <= Now'
               /\ \A c \in changes' : c.ws = catchup.ws /\ c.via = Ways /\ c.at <= catchup.since =>
                    Settles(c)'
    <3>1. catchup.since \in Nat /\ catchup.since <= Now
      BY <1>0, <2>1, CatchupHolds DEF CatchupIsComplete
    <3>2. ASSUME NEW c \in changes', c.ws = catchup.ws, c.via = Ways, c.at <= catchup.since
          PROVE  Settles(c)'
      <4>1. c \in Covered(catchup.ws)
        BY <3>1, <3>2, NewChangesAreAhead DEF Covered, Of
      <4>2. QED
        BY <1>0, <1>a, <2>1, <3>2, <4>1 DEF CatchupIsComplete
    <3>3. QED
      BY <1>0, <3>1, <3>2
  <2>2. ASSUME catchup.pc = "answered"
        PROVE  /\ \A c \in catchup.changed : c \in changes' /\ c.ws = catchup.ws
               /\ \A c \in changes' :
                    c.ws = catchup.ws /\ c.via = Ways /\ c.at <= catchup.serverTime =>
                      Settles(c)' \/ c \in catchup.changed
    <3>1. catchup.serverTime \in Nat /\ catchup.serverTime <= Now
      BY <1>0, <2>2, CatchupHolds DEF CatchupIsComplete
    <3>2. ASSUME NEW c \in changes', c.ws = catchup.ws, c.via = Ways,
                 c.at <= catchup.serverTime
          PROVE  Settles(c)' \/ c \in catchup.changed
      <4>1. c \in Covered(catchup.ws)
        BY <3>1, <3>2, NewChangesAreAhead DEF Covered, Of
      <4>2. QED
        BY <1>0, <1>a, <2>2, <3>2, <4>1 DEF CatchupIsComplete
    <3>3. changes \subseteq changes'
      BY ClockStep
    <3>4. QED
      BY <1>0, <2>2, <3>2, <3>3 DEF CatchupIsComplete, Of
  <2>3. catchup.pc \in {"stamped", "answered"} => catchup.serverTime <= Now'
    <3>1. catchup.pc \in {"stamped", "answered"} => catchup.serverTime \in Nat
      BY <1>0, CatchupHolds
    <3>2. QED
      BY <1>0, <3>1 DEF CatchupIsComplete
  <2>4. QED
    BY <1>1, <2>1, <2>2, <2>3 DEF CatchupIsComplete, Covered, Of
<1>2. CASE catchup' = Idle
  BY <1>2 DEF CatchupIsComplete, Idle
<1>3. ASSUME NEW w \in Workspaces, NEW t \in Since(w),
             catchup' = [pc |-> "asked", ws |-> w, since |-> t],
             cursor[w] = None => \A c \in Covered(w) : c.at <= t => c \in known \cup skipped',
             UNCHANGED <<changes, known>>
      PROVE  CatchupIsComplete'
  <2>1. t \in Nat /\ t <= Now /\ Now' = Now
    BY <1>0, <1>3, ClockStep DEF Since
  <2>2. \A c \in Covered(w) : c.at <= t => Settles(c)'
    <3>1. CASE cursor[w] = None
      BY <1>3, <3>1 DEF Settles
    <3>2. CASE cursor[w] # None
      BY <1>0, <1>a, <3>2 DEF Since, BehindCursor
    <3>3. QED
      BY <3>1, <3>2
  <2>3. QED
    BY <1>3, <2>1, <2>2 DEF CatchupIsComplete, Covered, Of
<1>4. CASE Stamp
  BY <1>0, <1>4, <1>a, ClockStep DEF Stamp, CatchupIsComplete, Covered, Of
<1>5. CASE Read
  <2>1. catchup.ws \in Workspaces /\ catchup.since \in Nat /\ catchup.serverTime \in Nat
    BY <1>0, <1>5, CatchupHolds DEF Read
  <2>2. \A c \in changes : c.at \in Nat
    BY <1>0, BoundsAssumption DEF TypeOK, Changes, Time
  <2>3. /\ catchup.pc = "stamped" /\ UNCHANGED changes /\ Now' = Now
        /\ catchup' = [pc |-> "answered", ws |-> catchup.ws, serverTime |-> catchup.serverTime,
                       changed |-> {c \in Of(catchup.ws) :
                                   "digest" \in c.via /\ c.at > catchup.since}]
    BY <1>5, ClockStep DEF Read
  <2>4. /\ catchup'.pc = "answered" /\ catchup'.ws = catchup.ws
        /\ catchup'.serverTime = catchup.serverTime
        /\ catchup'.changed = {c \in Of(catchup.ws) :
                                  "digest" \in c.via /\ c.at > catchup.since}
        /\ (Of(catchup.ws)' = {c \in changes : c.ws = catchup'.ws})
        /\ (Covered(catchup.ws)' = {c \in changes : c.ws = catchup'.ws /\ c.via = Ways})
    BY <2>3 DEF Covered, Of
  <2>5. \A c \in Covered(catchup.ws) : c.at <= catchup.since => Settles(c)'
    BY <1>0, <1>a, <2>3 DEF CatchupIsComplete
  <2>6. catchup'.serverTime <= Now'
    BY <1>0, <2>3, <2>4 DEF CatchupIsComplete
  <2>7. QED
    BY <2>1, <2>2, <2>3, <2>4, <2>5, <2>6 DEF CatchupIsComplete, Covered, Of, Ways
<1>6. \/ catchup' \in {catchup, Idle} \/ Stamp \/ Read \/ CatchupIsComplete'
  <2>1. ASSUME NEW w \in Workspaces, NEW up, Reconcile(w, up), UNCHANGED <<changes, known>>
        PROVE  catchup' = catchup \/ CatchupIsComplete'
    <3>1. Now \in Time
      BY NowIsLast DEF IInv
    <3>2. \/ catchup' = catchup
          \/ \E t \in Since(w) :
               /\ catchup' = [pc |-> "asked", ws |-> w, since |-> t]
               /\ cursor[w] = None =>
                    \A c \in Covered(w) : c.at <= t => c \in known \cup skipped'
      BY <1>0, <2>1, <3>1, ReconcileDoes
    <3>3. QED
      BY <1>3, <2>1, <3>2
  <2>2. workspace \in Workspaces
    BY <1>0 DEF TypeOK
  <2>3. CASE Opened \/ GoOnline \/ Resume
    BY <2>1, <2>2, <2>3 DEF Opened, GoOnline, Resume
  <2>4. ASSUME NEW w \in Workspaces, Switch(w) PROVE catchup' = catchup \/ CatchupIsComplete'
    BY <2>1, <2>4 DEF Switch
  <2>5. ASSUME NEW w \in Workspaces, NEW via \in Kinds, Commit(w, via) PROVE catchup' = catchup
    BY <2>5 DEF Commit, tab
  <2>6. CASE \/ CatchupEnds \/ CatchupFails \/ Deliver \/ Flush \/ AgentEvent
             \/ Connect \/ TicketAnswered \/ Lose \/ Stall \/ GoOffline
    BY <2>6 DEF CatchupEnds, CatchupFails, NotInFlight, Deliver, Flush, AgentEvent, Connect,
       TicketAnswered, Lose, Stall, GoOffline, tab
  <2>7. CASE UNCHANGED vars
    BY <2>7 DEF vars, tab
  <2>8. QED
    BY <2>3, <2>4, <2>5, <2>6, <2>7 DEF Next, Answer
<1>7. QED
  BY <1>1, <1>2, <1>4, <1>5, <1>6

LEMMA OnItsWayStep ==
    ASSUME IInv, [Next]_vars
    PROVE  OnItsWay'
<1> SUFFICES ASSUME NEW c \in Covered(workspace)',
                    ~Settles(c)', c \notin wire' \cup batch',
                    catchup' = Idle, stream' = "open", online', ~failed'
             PROVE  FALSE
  BY DEF OnItsWay, Connected
<1>0. TypeOK /\ workspace \in Workspaces /\ Now \in Time /\ online \in BOOLEAN
  BY NowIsLast DEF IInv, TypeOK
<1>1. CASE Flush \/ AgentEvent \/ CatchupEnds
  BY <1>1, MarksSettle DEF Covered, Of
<1>2. CASE ~(Flush \/ AgentEvent \/ CatchupEnds)
  <2>1. ~Settles(c)
    BY <1>0, <1>2, QuietSteps
  <2>a. ASSUME c \in changes, UNCHANGED <<workspace, stream, online, failed, catchup>>,
               c \notin wire \cup batch
        PROVE  FALSE
    BY <2>1, <2>a DEF IInv, OnItsWay, Connected, Covered, Of
  <2>2. ASSUME NEW w \in Workspaces, NEW via \in Kinds, Commit(w, via) PROVE FALSE
    <3> DEFINE d == [ws |-> w, at |-> Now + 1, via |-> via]
    <3>1. /\ UNCHANGED <<workspace, batch, catchup, stream, online, failed>>
          /\ changes' = changes \cup {d} /\ wire' \in Emitted(d) /\ d.via = via
      BY <2>2 DEF Commit, tab
    <3> HIDE DEF d
    <3>2. wire \subseteq wire' /\ (d.via = Ways => d \in wire')
      BY <3>1 DEF Emitted, Ways
    <3>3. QED
      BY <2>a, <3>1, <3>2 DEF Covered, Of
  <2>3. CASE Stamp \/ Read
    BY <2>3 DEF Stamp, Read, Idle
  <2>4. CASE CatchupFails
    BY <2>4 DEF CatchupFails
  <2>5. CASE Deliver
    <3>1. UNCHANGED <<changes, workspace, catchup, stream, online, failed>>
      BY <2>5 DEF Deliver
    <3>2. c \in changes /\ c.ws = workspace
      BY <3>1 DEF Covered, Of
    <3>3. c \notin wire \cup batch
      BY <2>5, <3>2 DEF Deliver
    <3>4. QED
      BY <2>a, <3>1, <3>2, <3>3
  <2>6. CASE Connect \/ TicketAnswered \/ Lose \/ Stall \/ GoOffline
    BY <2>6 DEF Connect, TicketAnswered, Lose, Stall, GoOffline, Reconnect, AskTicket
  <2>b. ASSUME NEW w \in Workspaces, Reconcile(w, TRUE) PROVE FALSE
    BY <1>0, <2>b, ReconcileDoes
  <2>7. CASE Opened \/ GoOnline
    BY <1>0, <2>b, <2>7 DEF Opened, GoOnline
  <2>8. CASE Resume
    BY <1>0, <2>b, <2>8 DEF Resume
  <2>9. ASSUME NEW w \in Workspaces, Switch(w) PROVE FALSE
    BY <1>0, <2>b, <2>9 DEF Switch
  <2>10. CASE UNCHANGED vars
    BY <2>a, <2>10 DEF vars, tab, client, Covered, Of
  <2>11. QED
    BY <1>2, <2>2, <2>3, <2>4, <2>5, <2>6, <2>7, <2>8, <2>9, <2>10 DEF Next, Answer
<1>3. QED
  BY <1>1, <1>2

----------------------------------------------------------------------------
(* The theorems                                                            *)

LEMMA Initially == Init => IInv
<1> SUFFICES ASSUME Init PROVE IInv
  OBVIOUS
<1>1. workspace \in Workspaces
  BY WorkspacesAssumption DEF Init
<1>2. changes = {} /\ \A w : Of(w) = {} /\ Covered(w) = {}
  BY DEF Init, Of, Covered
<1>3. ClockRuns
  BY <1>2, BoundsAssumption DEF ClockRuns, IsNow, Time
<1>4. Now \in Nat
  BY <1>3, NowIsLast
<1>5. TypeOK
  <2>1. /\ cursor \in [Workspaces -> Time \cup {None}]
        /\ \A w \in Workspaces : cursor[w] # None => cursor[w] <= Now
    BY <1>4, BoundsAssumption DEF Init, Time
  <2>2. {retrying, online, failed} \subseteq BOOLEAN /\ catchup \in Catchup /\ ClientOK
    BY DEF Init, Catchup, ClientOK, Streams
  <2>3. known \cup skipped \cup wire \subseteq changes /\ changes \subseteq Changes
        /\ batch \subseteq Of(workspace)
    BY <1>2 DEF Init
  <2>4. faults \in 0 .. MaxFaults /\ visits \in 0 .. MaxVisits
    BY BoundsAssumption DEF Init
  <2>5. QED
    BY <1>1, <2>1, <2>2, <2>3, <2>4 DEF TypeOK
<1>6. BehindCursor /\ CatchupIsComplete /\ OnItsWay
  BY <1>2 DEF Init, BehindCursor, CatchupIsComplete, OnItsWay, Idle
<1>7. QED
  BY <1>3, <1>5, <1>6 DEF IInv

LEMMA Inductive == IInv /\ [Next]_vars => IInv'
BY ClockStep, TypesStep, BehindCursorStep, CatchupStep, OnItsWayStep DEF IInv

LEMMA Invariance == Spec => []IInv
BY Initially, Inductive, PTL DEF Spec

\* Type correctness: the batch holds changes of the current workspace, no
\* cursor is ahead of time, and the client's state fits its stream.
THEOREM TypeCorrect == Spec => []TypeOK
<1>1. IInv => TypeOK
  BY DEF IInv
<1>2. QED
  BY <1>1, Invariance, PTL

\* A tab that is connected and quiet lacks no change of its workspace that
\* both ways tell of but what a failed catch-up, markSynced or the window of
\* a first catch-up excuses, for any kinds and any number of changes, losses,
\* stalls, offline periods, switches and workspaces.
THEOREM NothingIsMissed == Spec => []NothingMissed
<1>1. IInv => NothingMissed
  BY DEF IInv, OnItsWay, NothingMissed, Settled, Settles
<1>2. QED
  BY <1>1, Invariance, PTL
=============================================================================
