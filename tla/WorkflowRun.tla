----------------------------- MODULE WorkflowRun -----------------------------
(***************************************************************************)
(* One run of a workflow: WorkflowEngineService                            *)
(* (libs/api/automations/src/lib/workflow-engine.service.ts) and the       *)
(* decision of its approvals (libs/api/ai/src/lib/approvals.service.ts).   *)
(*                                                                         *)
(* A driver walks the graph (runGraph) and settles the run (finishRun). It *)
(* shares the run's row with the controls of people - pause, resume,       *)
(* cancel, decide an approval - each of which reads the row or the request *)
(* and writes later without looking again. An action is what one of them   *)
(* does between two awaits on the database.                                *)
(*                                                                         *)
(* A step takes all its edges: routing, error edges, loops, the context    *)
(* and the mirrored WorkflowExecution row are left out, and the limits of  *)
(* a run are one way for it to fail. Left out too is that a join that has  *)
(* been put off 500 times runs all the same.                               *)
(***************************************************************************)
EXTENDS Naturals, FiniteSets, Sequences

CONSTANTS
    Nodes, Edges,  \* the graph
    Joins,         \* MERGE steps
    Humans,        \* HUMAN_APPROVAL steps
    People,        \* control calls in flight at a time
    Drivers,       \* drivers and resuming handlers at a time
    None,          \* no resume point
    MaxControls,   \* bound: control calls
    MaxApprovals,  \* bound: approval requests
    MaxFaults      \* bound: failing steps and process crashes

ASSUME GraphAssumption ==
    /\ Edges \subseteq Nodes \X Nodes
    /\ Joins \cup Humans \subseteq Nodes
    /\ IsFiniteSet(Nodes)
ASSUME BoundsAssumption == {MaxControls, MaxApprovals, MaxFaults} \subseteq Nat
ASSUME NoneAssumption == \A S \in SUBSET Nodes : S # None
ASSUME DriversAssumption == Drivers # {}

VARIABLES
    status,     \* AIExecution.status
    resume,     \* stateJson.__resume.next, or None
    approvals,  \* ApprovalRequest rows: [step, state, pending]
    drivers,    \* per driver: runGraph and finishRun, or resumeAfterApproval
    people,     \* per person: a control call between its read and its write
    ran,        \* history: steps started
    last,       \* history: the outcome the last driver ended with
    excused,    \* history: what overlapped in a way the code does not handle
    controls, faults

row == <<status, resume, approvals>>
vars == <<row, drivers, people, ran, last, excused, controls, faults>>

Statuses == {"RUNNING", "PAUSED", "WAITING_APPROVAL", "COMPLETED", "FAILED", "CANCELLED"}
Settled == {"COMPLETED", "FAILED", "CANCELLED"}
Idle == [pc |-> "idle"]
Walking(d) == drivers[d].pc \in {"loop", "running", "mark", "branches"}
Active(d) == Walking(d) \/ drivers[d].pc = "finish"
Fault == faults < MaxFaults /\ faults' = faults + 1
Control == controls < MaxControls /\ controls' = controls + 1

----------------------------------------------------------------------------
(* The graph                                                               *)

Sources(n) == {x \in Nodes : <<x, n>> \in Edges}
Targets(S) == {x \in Nodes : \E n \in S : <<n, x>> \in Edges}

\* ancestorsOf: the least set with the sources of n and those of its members.
Closed(S) == \A x \in S : Sources(x) \subseteq S
Ancestors ==
    [n \in Nodes |-> {x \in Nodes : \A S \in SUBSET Nodes :
                          Sources(n) \subseteq S /\ Closed(S) => x \in S}]

\* No cycle: of any steps, one comes after none of the others.
ASSUME AcyclicAssumption ==
    \A S \in SUBSET Nodes : S # {} => \E n \in S : S \cap Sources(n) = {}

StartNodes == {n \in Nodes : Sources(n) = {}}

----------------------------------------------------------------------------
(* runGraph                                                                *)

Drive(starts) ==
    [pc |-> "loop", queue |-> starts, done |-> {}, activated |-> starts,
     batch |-> {}, out |-> "SUCCESS"]

\* What may run now: a join waits while a step that was started can still
\* lead into it.
ReadyDirect(d) ==
    {n \in d.queue \ d.done :
        n \in Joins => d.activated \cap Sources(n) \subseteq d.done \cup {n}}
Ready(d) ==
    {n \in d.queue \ d.done :
        n \in Joins => d.activated \cap Ancestors[n] \subseteq d.done \cup {n}}

\* Steps that wait for a person run alone, after the rest of the ready work.
BatchesTogether(d) == {Ready(d)}
Batches(d) ==
    IF Ready(d) \subseteq Humans THEN {{n} : n \in Ready(d)}
                                 ELSE {Ready(d) \ Humans}

\* A driver picks a batch out of its queue, starts it, is done with it, or
\* stops with an outcome.
Picked(r, b) == [r EXCEPT !.batch = b, !.queue = (@ \ r.done) \ b]
Started(r) == [r EXCEPT !.pc = "running", !.done = @ \cup r.batch]
Advanced(r) ==
    [r EXCEPT !.pc = "loop", !.batch = {}, !.queue = @ \cup Targets(r.batch),
              !.activated = @ \cup Targets(r.batch)]
Stopped(r, out, pc) == [r EXCEPT !.pc = pc, !.out = out]

\* The loop ends when nothing is left; otherwise it picks a batch and looks
\* whether someone stopped the run, before it starts the batch.
Boundary(d) ==
    LET r == drivers[d] IN
    /\ r.pc = "loop"
    /\ \/ /\ r.queue \subseteq r.done
          /\ drivers' = [drivers EXCEPT ![d].pc = "finish"]
          /\ UNCHANGED ran
       \/ \E b \in Batches(r) :
            IF status \in {"PAUSED", "CANCELLED"}
            THEN LET pc == IF status = "PAUSED" THEN "mark" ELSE "finish" IN
                 /\ drivers' = [drivers EXCEPT ![d] = Stopped(Picked(r, b), status, pc)]
                 /\ UNCHANGED ran
            ELSE /\ drivers' = [drivers EXCEPT ![d] = Started(Picked(r, b))]
                 /\ ran' = ran \cup b
    /\ UNCHANGED <<row, people, last, excused, controls, faults>>

\* rememberResumePoint
MarkBatchOnly(r) == r.batch
MarkAll(r) == r.batch \cup r.queue

Mark(d) ==
    /\ drivers[d].pc = "mark"
    /\ resume' = MarkAll(drivers[d])
    /\ drivers' = [drivers EXCEPT ![d].pc = "finish"]
    /\ UNCHANGED <<status, approvals, people, ran, last, excused, controls, faults>>

\* The batch of work ends well, and its successors are queued.
BatchEnds(d) ==
    LET r == drivers[d] IN
    /\ r.pc = "running"
    /\ r.batch \cap Humans = {}
    /\ drivers' = [drivers EXCEPT ![d] = Advanced(r)]
    /\ UNCHANGED <<row, people, ran, last, excused, controls, faults>>

\* A step fails, or the run passes one of its limits.
BatchFails(d) ==
    /\ drivers[d].pc = "running"
    /\ drivers' = [drivers EXCEPT ![d] = Stopped(@, "FAILED", "finish")]
    /\ Fault
    /\ UNCHANGED <<row, people, ran, last, excused, controls>>

\* An approval step opens a request and the walk stops there.
AskApproval(d) ==
    LET r == drivers[d] IN
    /\ r.pc = "running"
    /\ Len(approvals) < MaxApprovals
    /\ \E h \in r.batch \cap Humans :
         approvals' = Append(approvals, [step |-> h, state |-> "PENDING", pending |-> {}])
    /\ LET pc == IF r.queue \subseteq r.done THEN "finish" ELSE "branches" IN
       drivers' = [drivers EXCEPT ![d] = Stopped(r, "WAITING_APPROVAL", pc)]
    /\ UNCHANGED <<status, resume, people, ran, last, excused, controls, faults>>

\* rememberPendingBranches: onto the request of this step that is pending.
PendingForgotten(r) == {}
PendingOf(r) == r.queue \ r.done

Branches(d) ==
    LET r == drivers[d]
        open == {i \in DOMAIN approvals : approvals[i].step \in r.batch
                                          /\ approvals[i].state = "PENDING"}
    IN  /\ r.pc = "branches"
        /\ \/ /\ open = {}
              /\ UNCHANGED approvals
           \/ \E i \in open : approvals' = [approvals EXCEPT ![i].pending = PendingOf(r)]
        /\ drivers' = [drivers EXCEPT ![d].pc = "finish"]
        /\ UNCHANGED <<status, resume, people, ran, last, excused, controls, faults>>

\* finishRun settles a run that is still in flight.
MaySettleAny == TRUE
MaySettle == status \in {"RUNNING", "WAITING_APPROVAL"}

SettleOnlySuccess(out) ==
    IF out \in {"PAUSED", "CANCELLED", "FAILED"} \/ ~MaySettle THEN status
    ELSE IF out = "SUCCESS" THEN "COMPLETED" ELSE out
Settle(out) ==
    IF out \in {"PAUSED", "CANCELLED"} \/ ~MaySettle THEN status
    ELSE IF out = "SUCCESS" THEN "COMPLETED" ELSE out

Finish(d) ==
    /\ drivers[d].pc = "finish"
    /\ status' = Settle(drivers[d].out)
    /\ last' = drivers[d].out
    /\ drivers' = [drivers EXCEPT ![d] = Idle]
    /\ UNCHANGED <<resume, approvals, people, ran, excused, controls, faults>>

----------------------------------------------------------------------------
(* resumeAfterApproval, started by the event of a decision                 *)

\* It leaves a run alone that is not waiting.
RunWaits == status = "WAITING_APPROVAL"

ResumeRead(d) ==
    /\ drivers[d].pc = "decided"
    /\ drivers' = [drivers EXCEPT ![d] =
           IF RunWaits THEN [@ EXCEPT !.pc = "resuming"] ELSE Idle]
    /\ UNCHANGED <<row, people, ran, last, excused, controls, faults>>

\* The second write: rejected, the run fails; approved, it runs on from the
\* step's successors and the branches that were ready beside it, whatever
\* its status is by now.
ResumeWrite(d) ==
    LET r == drivers[d] IN
    /\ r.pc = "resuming"
    /\ IF r.decision = "REJECTED"
       THEN /\ drivers' = [drivers EXCEPT ![d] = Idle]
            /\ status' = Settle("FAILED")
            /\ last' = "FAILED"
            /\ UNCHANGED excused
       ELSE /\ drivers' = [drivers EXCEPT ![d] = Drive(Targets({r.step}) \cup r.pending)]
            /\ status' = "RUNNING"
            /\ excused' = IF RunWaits THEN excused ELSE excused \cup {"stale"}
            /\ UNCHANGED last
    /\ UNCHANGED <<resume, approvals, people, ran, controls, faults>>

----------------------------------------------------------------------------
(* Controls                                                                *)

\* pauseRun: its update is conditional on what it checked.
Pause ==
    /\ status = "RUNNING"
    /\ status' = "PAUSED"
    /\ Control
    /\ UNCHANGED <<resume, approvals, drivers, people, ran, last, excused, faults>>

\* The reads of resumeRun, cancelRun and ApprovalsService.decide.
ReadForResume(p) ==
    /\ status = "PAUSED"
    /\ people' = [people EXCEPT ![p] = [pc |-> "resume", next |-> resume]]
ReadForCancel(p) ==
    /\ status \notin Settled
    /\ people' = [people EXCEPT ![p] = [pc |-> "cancel"]]
ReadForDecision(p) ==
    \E i \in DOMAIN approvals :
        /\ approvals[i].state = "PENDING"
        /\ people' = [people EXCEPT ![p] = [pc |-> "decide", request |-> i]]

Begin(p) ==
    /\ people[p] = Idle
    /\ ReadForResume(p) \/ ReadForCancel(p) \/ ReadForDecision(p)
    /\ Control
    /\ UNCHANGED <<row, drivers, ran, last, excused, faults>>

Release(p) == people' = [people EXCEPT ![p] = Idle]

\* The resume point is used up.
PointKept(point) == point
PointAfter(point) == None

\* resumeRun's write: without a resume point there is nothing left to run.
\* It is excused when the driver has not stopped or did not end well.
ResumeRun(p, d) ==
    /\ people[p].pc = "resume"
    /\ drivers[d] = Idle
    /\ IF people[p].next = None
       THEN /\ status' = "COMPLETED"
            /\ excused' = excused
                 \cup (IF status = "PAUSED" THEN {} ELSE {"stale"})
                 \cup (IF last = "SUCCESS" /\ ~\E e \in Drivers : Active(e)
                       THEN {} ELSE {"noPoint"})
            /\ UNCHANGED <<resume, drivers>>
       ELSE /\ status' = "RUNNING"
            /\ resume' = PointAfter(resume)
            /\ drivers' = [drivers EXCEPT ![d] = Drive(people[p].next)]
            /\ excused' = IF status = "PAUSED" /\ resume = people[p].next
                          THEN excused ELSE excused \cup {"stale"}
    /\ Release(p)
    /\ UNCHANGED <<approvals, ran, last, controls, faults>>

\* cancelRun's transaction: the run and its pending requests.
CancelRun(p) ==
    /\ people[p].pc = "cancel"
    /\ status' = "CANCELLED"
    /\ approvals' = [i \in DOMAIN approvals |->
           [approvals[i] EXCEPT !.state = IF @ = "PENDING" THEN "CANCELLED" ELSE @]]
    /\ excused' = IF status \in Settled THEN excused \cup {"stale"} ELSE excused
    /\ Release(p)
    /\ UNCHANGED <<resume, drivers, ran, last, controls, faults>>

\* decide's write and its event, whatever the request's state is by now. It
\* is excused when the run is not waiting yet - the branches or the status of
\* the wait are still to be written - and when the request was decided since.
Decide(p, d, decision) ==
    LET i == people[p].request IN
    /\ people[p].pc = "decide"
    /\ drivers[d] = Idle
    /\ approvals' = [approvals EXCEPT ![i].state = decision]
    /\ drivers' = [drivers EXCEPT ![d] =
           [pc |-> "decided", decision |-> decision,
            step |-> approvals[i].step, pending |-> approvals[i].pending]]
    /\ excused' = excused
         \cup (IF status \in {"WAITING_APPROVAL", "CANCELLED"} THEN {} ELSE {"early"})
         \cup (IF approvals[i].state = "PENDING" \/ status = "CANCELLED"
               THEN {} ELSE {"twice"})
    /\ Release(p)
    /\ UNCHANGED <<status, resume, ran, last, controls, faults>>

\* The API process ends with its drivers and calls; nothing restarts a run.
Crash ==
    /\ \E d \in Drivers : drivers[d] # Idle
    /\ drivers' = [d \in Drivers |-> Idle]
    /\ people' = [p \in People |-> Idle]
    /\ excused' = excused \cup {"crash"}
    /\ Fault
    /\ UNCHANGED <<row, ran, last, controls>>

----------------------------------------------------------------------------
\* prepareRun
Init ==
    /\ status = "RUNNING"
    /\ resume = None
    /\ approvals = <<>>
    /\ LET d == CHOOSE d \in Drivers : TRUE IN
       drivers = [e \in Drivers |-> IF e = d THEN Drive(StartNodes) ELSE Idle]
    /\ people = [p \in People |-> Idle]
    /\ ran = {}
    /\ last = "SUCCESS"
    /\ excused = {}
    /\ controls = 0
    /\ faults = 0

DriverStep(d) ==
    \/ Boundary(d) \/ Mark(d) \/ BatchEnds(d) \/ AskApproval(d) \/ Branches(d)
    \/ Finish(d) \/ ResumeRead(d) \/ ResumeWrite(d)

PersonStep(p) ==
    \/ Begin(p) \/ CancelRun(p)
    \/ \E d \in Drivers : ResumeRun(p, d)
    \/ \E d \in Drivers, decision \in {"APPROVED", "REJECTED"} : Decide(p, d, decision)

Next ==
    \/ \E d \in Drivers : DriverStep(d) \/ BatchFails(d)
    \/ \E p \in People : PersonStep(p)
    \/ Pause \/ Crash

Spec == Init /\ [][Next]_vars

\* A driver goes on while its process lives; people need not do anything.
Fairness == \A d \in Drivers : WF_vars(DriverStep(d))
FairSpec == Spec /\ Fairness

----------------------------------------------------------------------------
(* Properties                                                              *)

\* What a driver and a person have at hand, and a request.
Outcomes == {"SUCCESS", "FAILED", "WAITING_APPROVAL", "PAUSED", "CANCELLED"}
Decisions == {"APPROVED", "REJECTED"}
Walk == [pc: {"loop", "running", "mark", "branches", "finish"}, queue: SUBSET Nodes,
         done: SUBSET Nodes, activated: SUBSET Nodes, batch: SUBSET Nodes, out: Outcomes]
Answer == [pc: {"decided", "resuming"}, decision: Decisions, step: Humans,
           pending: SUBSET Nodes]
Call == [pc: {"resume"}, next: (SUBSET Nodes) \cup {None}] \cup [pc: {"cancel"}]
           \cup [pc: {"decide"}, request: 1 .. Len(approvals)]
Request == [step: Humans, pending: SUBSET Nodes,
            state: Decisions \cup {"PENDING", "CANCELLED"}]

\* Type invariant; a driver has no work that was not activated, and asks for
\* one approval at a time.
TypeOK ==
    /\ status \in Statuses
    /\ resume = None \/ resume \subseteq Nodes
    /\ approvals \in Seq(Request)
    /\ drivers \in [Drivers -> {Idle} \cup Walk \cup Answer]
    /\ people \in [People -> {Idle} \cup Call]
    /\ \A d \in Drivers : Active(d) =>
         /\ drivers[d].queue \cup drivers[d].done \subseteq drivers[d].activated
         /\ drivers[d].batch \cap drivers[d].queue = {}
         /\ drivers[d].batch \cap Humans # {} => Cardinality(drivers[d].batch) = 1
    /\ ran \subseteq Nodes
    /\ last \in Outcomes

\* A run that reads COMPLETED ran every step and nothing drives it any more,
\* however often it was paused and resumed and whatever waited for a person
\* beside other branches (the resume point, the pending branches of an
\* approval). Excused are the overlaps the code does not handle.
CompletedMeansAllRan ==
    status = "COMPLETED" /\ excused = {} =>
        ran = Nodes /\ \A d \in Drivers : ~Walking(d)

\* One driver works on a run at a time: a second one would repeat its steps.
\* A request that two people decide does not start two.
OneDriver ==
    excused \subseteq {"twice"} => \A d, e \in Drivers : Walking(d) /\ Walking(e) => d = e

\* A run that waits for approval can get it: a request is open, or its
\* decision is being applied.
WaitingIsAnswerable ==
    status = "WAITING_APPROVAL" /\ excused \subseteq {"twice"} =>
        \/ \E i \in DOMAIN approvals : approvals[i].state = "PENDING"
        \/ \E d \in Drivers : drivers[d].pc \in {"decided", "resuming"}

\* A join runs last: once it has, none of the steps that lead into it starts
\* again, over pauses, approvals and resumes too (ancestorsOf, the deferral
\* of joins).
JoinsRunLast ==
    [][\A m \in Joins, d \in Drivers :
           /\ m \in ran
           /\ excused = {}
           /\ drivers[d].pc = "loop" /\ drivers'[d].pc = "running"
           => drivers'[d].batch \cap Ancestors[m] = {}]_vars

\* What a run ended with stands: no driver that is still working, no late
\* decision and no resume changes it, but for a call that read the run before
\* it ended (finishRun: `never overwrite one someone paused or cancelled`).
OutcomeFinal ==
    [][excused' \subseteq {"twice"} /\ status \in Settled => status' = status]_vars

\* A running run gets somewhere: it completes, fails, or stops for a person,
\* unless the process dies.
Settles == status = "RUNNING" ~> (status # "RUNNING" \/ "crash" \in excused)
=============================================================================
