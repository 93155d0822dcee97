-------------------------- MODULE WorkflowRunProofs --------------------------
(***************************************************************************)
(* What holds of WorkflowRun for every acyclic graph, any number of people *)
(* and drivers, and any number of controls, approvals and faults.          *)
(***************************************************************************)
EXTENDS WorkflowRun, TLAPS, FiniteSetTheorems, SequenceTheorems

----------------------------------------------------------------------------
(* Who works on the run                                                    *)

\* Runs in which nothing but a double decision is excused, and those that
\* are neither excused nor cancelled.
Lax == excused \subseteq {"twice"}
Live == excused = {} /\ status # "CANCELLED"

\* A driver that has work or an outcome that settles the run; one that has
\* asked for an approval; the handler of a decision.
Engaged(d) == Walking(d) \/ (drivers[d].pc = "finish" /\ drivers[d].out # "PAUSED")
Asked(d) == \/ drivers[d].pc = "branches"
            \/ (drivers[d].pc = "finish" /\ drivers[d].out = "WAITING_APPROVAL")
Answering(d) == drivers[d].pc \in {"decided", "resuming"}
Open == {i \in DOMAIN approvals : approvals[i].state = "PENDING"}

\* A driver's outcome, its batch and its queue go with where it is.
Fit(r) ==
    /\ r.pc \in {"loop", "running"} => r.out = "SUCCESS"
    /\ r.pc = "mark" => r.out = "PAUSED"
    /\ r.pc = "branches" => r.out = "WAITING_APPROVAL"
    /\ r.pc = "loop" => r.batch = {}
    /\ r.pc \in {"running", "branches"} => r.batch \subseteq r.done
    /\ r \in Walk => /\ r.queue \cup r.done \subseteq r.activated
                     /\ r.batch \cap r.queue = {}
                     /\ r.batch \cap Humans # {} => \E h \in Humans : r.batch = {h}
OutFits == \A d \in Drivers : Fit(drivers[d])

\* One driver at most is engaged, and none while the run waits or has a
\* resume point, which is what a second one would start from.
OneEngaged ==
    Lax => /\ \A d, e \in Drivers : Engaged(d) /\ Engaged(e) => d = e
           /\ status = "WAITING_APPROVAL" \/ resume # None => \A d \in Drivers : ~Engaged(d)
           /\ status = "WAITING_APPROVAL" => resume = None

\* A driver that has asked leaves a request that is open.
AskedIsOpen ==
    Lax /\ status \in {"RUNNING", "PAUSED", "WAITING_APPROVAL"} =>
        ((\E d \in Drivers : Asked(d)) => Open # {})

\* The run is at one place: a driver, an open request, the handler of its
\* decision or a resume point.
OneToken ==
    Live =>
        /\ \A i, j \in Open : i = j
        /\ Open # {} => /\ resume = None
                        /\ \A d \in Drivers : (Engaged(d) => Asked(d)) /\ ~Answering(d)
        /\ \A d, e \in Drivers : Answering(d) /\ Answering(e) => d = e
        /\ \A d \in Drivers : Answering(d) => status = "WAITING_APPROVAL"

----------------------------------------------------------------------------
(* What is left to run                                                     *)

\* What has not run is in Q or comes after it.
Covers(Q) ==
    \A T \in SUBSET Nodes : Q \subseteq T /\ Targets(T) \subseteq T => Nodes \ ran \subseteq T

\* A driver's work, and what it takes the queue to be without.
WorkCovers(d) ==
    LET r == drivers[d] IN
    /\ r.pc \in {"loop", "running", "branches"} =>
         /\ r.done \subseteq ran
         /\ Covers(r.queue \cup r.done)
         /\ Targets(r.done \ r.batch) \subseteq r.done \cup r.queue
    /\ r.pc = "mark" => Covers(r.batch \cup r.queue)
    /\ r.pc = "finish" /\ r.out = "SUCCESS" => ran = Nodes

\* So does the place where the run waits or is paused, which a request whose
\* branches are still to be written is not yet.
NothingLost ==
    Live =>
        /\ \A d \in Drivers : WorkCovers(d)
        /\ \A i \in Open :
             \/ \E d \in Drivers : drivers[d].pc = "branches"
             \/ Covers(Targets({approvals[i].step}) \cup approvals[i].pending)
        /\ \A i \in Open, d \in Drivers :
             drivers[d].pc = "branches" => approvals[i].step \in drivers[d].batch
        /\ \A d \in Drivers :
             Answering(d) => Covers(Targets({drivers[d].step}) \cup drivers[d].pending)
        /\ resume # None => Covers(resume)

\* What ended well ran everything.
EndedWell ==
    Live => /\ last = "SUCCESS" => ran = Nodes \/ \E d \in Drivers : Active(d)
            /\ status = "COMPLETED" => ran = Nodes /\ \A d \in Drivers : ~Walking(d)

IInv == /\ TypeOK /\ OutFits /\ OneEngaged /\ AskedIsOpen /\ WaitingIsAnswerable
        /\ OneToken /\ NothingLost /\ EndedWell

----------------------------------------------------------------------------
(* Graphs                                                                  *)

LEMMA TargetsOf ==
    /\ \A S : Targets(S) \subseteq Nodes
    /\ \A S, T : Targets(S \cup T) = Targets(S) \cup Targets(T)
    /\ \A S, T : S \subseteq T => Targets(S) \subseteq Targets(T)
    /\ Targets({}) = {}
BY DEF Targets

LEMMA TargetsSplit ==
    ASSUME NEW S, NEW T, NEW U, S \subseteq T \cup U
    PROVE  Targets(S) \subseteq Targets(T) \cup Targets(U)
BY DEF Targets

\* What covers still does when more has run, or with more to run.
LEMMA CoversGrows ==
    ASSUME NEW Q, NEW P, Covers(Q), Q \subseteq P, ran \subseteq ran'
    PROVE  Covers(P) /\ Covers(P)'
<1>1. Covers(P)
  BY DEF Covers
<1>2. \A T \in SUBSET Nodes : P \subseteq T /\ Targets(T) \subseteq T => Nodes \ ran' \subseteq T
  BY <1>1 DEF Covers
<1>3. QED
  BY <1>1, <1>2 DEF Covers

\* What has run can be taken out of what covers, for what comes after it.
LEMMA Peel ==
    ASSUME NEW Q, NEW D \in SUBSET Nodes, NEW P,
           Covers(Q \cup D), D \subseteq ran, Q \subseteq D \cup P, Targets(D) \subseteq D \cup P
    PROVE  Covers(P)
<1> SUFFICES ASSUME NEW T \in SUBSET Nodes, P \subseteq T, Targets(T) \subseteq T
             PROVE  Nodes \ ran \subseteq T
  BY DEF Covers
<1>1. Targets(T \cup D) \subseteq T \cup D
  BY TargetsOf
<1>2. Q \cup D \subseteq T \cup D /\ T \cup D \in SUBSET Nodes
  OBVIOUS
<1>3. Nodes \ ran \subseteq T \cup D
  BY <1>1, <1>2 DEF Covers
<1>4. QED
  BY <1>3

\* With nothing left that covers, all have run.
LEMMA AllRan ==
    ASSUME ran \subseteq Nodes, Covers({})
    PROVE  ran = Nodes
BY TargetsOf DEF Covers

\* All steps come after the start nodes, as there is no cycle.
LEMMA StartsCover ==
    ASSUME ran = {}
    PROVE  Covers(StartNodes)
<1> SUFFICES ASSUME NEW T \in SUBSET Nodes, StartNodes \subseteq T, Targets(T) \subseteq T,
                    Nodes \ T # {}
             PROVE  FALSE
  BY DEF Covers
<1>1. PICK n \in Nodes \ T : (Nodes \ T) \cap Sources(n) = {}
  <2>1. Nodes \ T \in SUBSET Nodes
    OBVIOUS
  <2>2. QED
    BY <2>1, AcyclicAssumption
<1>2. PICK x \in Nodes : <<x, n>> \in Edges
  BY <1>1 DEF StartNodes, Sources
<1>3. x \in T
  BY <1>1, <1>2 DEF Sources
<1>4. QED
  BY <1>1, <1>2, <1>3 DEF Targets

----------------------------------------------------------------------------
(* What a driver's step does                                               *)

LEMMA DriverTypes ==
    ASSUME TypeOK, NEW d \in Drivers
    PROVE  /\ Active(d) => drivers[d] \in Walk
           /\ Answering(d) => drivers[d] \in Answer
           /\ drivers[d] = Idle <=> ~Active(d) /\ ~Answering(d)
<1>1. drivers[d] \in {Idle} \cup Walk \cup Answer
  BY DEF TypeOK
<1>2. QED
  BY <1>1 DEF Active, Walking, Answering, Idle, Walk, Answer

\* The batch of a boundary is work, or one approval step.
LEMMA BatchOf ==
    ASSUME NEW r \in Walk, NEW b \in Batches(r)
    PROVE  /\ b \subseteq r.queue \ r.done
           /\ b \cap Humans # {} => \E h \in Humans : b = {h}
<1>1. Ready(r) \subseteq r.queue \ r.done
  BY DEF Ready
<1>2. QED
  BY <1>1 DEF Batches

\* The updates of a driver's record.
LEMMA PickedIs ==
    ASSUME NEW r \in Walk, NEW b \in SUBSET Nodes
    PROVE  /\ Picked(r, b) \in Walk
           /\ Picked(r, b).pc = r.pc /\ Picked(r, b).out = r.out
           /\ Picked(r, b).queue = (r.queue \ r.done) \ b
           /\ Picked(r, b).done = r.done /\ Picked(r, b).activated = r.activated
           /\ Picked(r, b).batch = b
BY DEF Walk, Picked

LEMMA StartedIs ==
    ASSUME NEW r \in Walk
    PROVE  /\ Started(r) \in Walk
           /\ Started(r).pc = "running" /\ Started(r).out = r.out
           /\ Started(r).queue = r.queue /\ Started(r).done = r.done \cup r.batch
           /\ Started(r).activated = r.activated /\ Started(r).batch = r.batch
BY DEF Walk, Started

LEMMA AdvancedIs ==
    ASSUME NEW r \in Walk
    PROVE  /\ Advanced(r) \in Walk
           /\ Advanced(r).pc = "loop" /\ Advanced(r).out = r.out /\ Advanced(r).batch = {}
           /\ Advanced(r).queue = r.queue \cup Targets(r.batch)
           /\ Advanced(r).done = r.done
           /\ Advanced(r).activated = r.activated \cup Targets(r.batch)
BY TargetsOf DEF Walk, Advanced

LEMMA StoppedIs ==
    ASSUME NEW r \in Walk, NEW out \in Outcomes, NEW pc \in {"mark", "branches", "finish"}
    PROVE  /\ Stopped(r, out, pc) \in Walk
           /\ Stopped(r, out, pc).pc = pc /\ Stopped(r, out, pc).out = out
           /\ Stopped(r, out, pc).queue = r.queue /\ Stopped(r, out, pc).done = r.done
           /\ Stopped(r, out, pc).activated = r.activated
           /\ Stopped(r, out, pc).batch = r.batch
BY DEF Walk, Stopped

LEMMA DriveIs ==
    ASSUME NEW S \in SUBSET Nodes
    PROVE  /\ Drive(S) \in Walk /\ Fit(Drive(S))
           /\ Drive(S).pc = "loop" /\ Drive(S).out = "SUCCESS" /\ Drive(S).queue = S
           /\ Drive(S).done = {} /\ Drive(S).batch = {}
BY DEF Walk, Drive, Fit, Outcomes

LEMMA BoundaryMoves ==
    ASSUME TypeOK, OutFits, NEW d \in Drivers, Boundary(d)
    PROVE  /\ drivers[d] \in Walk /\ drivers[d].pc = "loop"
           /\ \E n \in Walk :
                /\ drivers' = [drivers EXCEPT ![d] = n] /\ Fit(n)
                /\ \/ /\ drivers[d].queue \subseteq drivers[d].done
                      /\ n.pc = "finish" /\ n.out = "SUCCESS" /\ n.batch = {}
                      /\ n.queue = drivers[d].queue /\ n.done = drivers[d].done
                      /\ ran' = ran
                   \/ /\ n.batch \subseteq drivers[d].queue \ drivers[d].done
                      /\ n.queue = (drivers[d].queue \ drivers[d].done) \ n.batch
                      /\ \/ /\ n.done = drivers[d].done /\ ran' = ran
                            /\ \/ (n.pc = "mark" /\ n.out = "PAUSED")
                               \/ (n.pc = "finish" /\ n.out = "CANCELLED")
                         \/ /\ n.done = drivers[d].done \cup n.batch /\ ran' = ran \cup n.batch
                            /\ n.pc = "running" /\ n.out = "SUCCESS"
<1> DEFINE r == drivers[d]
<1>1. r \in Walk /\ r.pc = "loop" /\ r.out = "SUCCESS" /\ r.batch = {}
  BY DriverTypes DEF Boundary, Active, Walking, OutFits, Fit
<1>2. CASE r.queue \subseteq r.done /\ drivers' = [drivers EXCEPT ![d].pc = "finish"] /\ ran' = ran
  <2> DEFINE n == [r EXCEPT !.pc = "finish"]
  <2>1. n \in Walk /\ drivers' = [drivers EXCEPT ![d] = n]
    BY <1>1, <1>2 DEF Walk, TypeOK
  <2>2. /\ n.pc = "finish" /\ n.out = "SUCCESS" /\ n.batch = {} /\ n.queue = r.queue
        /\ n.done = r.done /\ n.activated = r.activated
    BY <1>1 DEF Walk
  <2>3. Fit(n)
    BY <1>1, <2>1, <2>2 DEF Fit, OutFits
  <2> HIDE DEF n
  <2>4. QED
    BY <1>1, <1>2, <2>1, <2>2, <2>3
<1>3. ASSUME NEW b \in Batches(r),
             IF status \in {"PAUSED", "CANCELLED"}
             THEN LET pc == IF status = "PAUSED" THEN "mark" ELSE "finish" IN
                  /\ drivers' = [drivers EXCEPT ![d] = Stopped(Picked(r, b), status, pc)]
                  /\ UNCHANGED ran
             ELSE /\ drivers' = [drivers EXCEPT ![d] = Started(Picked(r, b))]
                  /\ ran' = ran \cup b
      PROVE  \E n \in Walk :
                /\ drivers' = [drivers EXCEPT ![d] = n] /\ Fit(n)
                /\ n.batch \subseteq r.queue \ r.done
                /\ n.queue = (r.queue \ r.done) \ n.batch
                /\ \/ /\ n.done = r.done /\ ran' = ran
                      /\ \/ (n.pc = "mark" /\ n.out = "PAUSED")
                         \/ (n.pc = "finish" /\ n.out = "CANCELLED")
                   \/ /\ n.done = r.done \cup n.batch /\ ran' = ran \cup n.batch
                      /\ n.pc = "running" /\ n.out = "SUCCESS"
  <2> DEFINE s == Picked(r, b)
             pc == IF status = "PAUSED" THEN "mark" ELSE "finish"
  <2>1. /\ b \subseteq r.queue \ r.done
        /\ b \cap Humans # {} => \E h \in Humans : b = {h}
    BY <1>1, BatchOf
  <2>2. b \in SUBSET Nodes
    BY <1>1, <2>1 DEF Walk
  <2>3. /\ s \in Walk /\ s.pc = r.pc /\ s.queue = (r.queue \ r.done) \ b /\ s.done = r.done
        /\ s.activated = r.activated /\ s.batch = b /\ s.out = r.out
    BY <1>1, <2>2, PickedIs
  <2>0. r.queue \cup r.done \subseteq r.activated
    BY <1>1 DEF OutFits, Fit
  <2>4. CASE status \in {"PAUSED", "CANCELLED"}
    <3>1. drivers' = [drivers EXCEPT ![d] = Stopped(s, status, pc)] /\ ran' = ran
      BY <1>3, <2>4
    <3>2. /\ status \in Outcomes /\ pc \in {"mark", "branches", "finish"}
          /\ (pc = "mark" /\ status = "PAUSED") \/ (pc = "finish" /\ status = "CANCELLED")
      BY <2>4 DEF Outcomes
    <3> HIDE DEF pc, s
    <3> DEFINE n == Stopped(s, status, pc)
    <3>3. /\ n \in Walk /\ n.pc = pc /\ n.out = status /\ n.queue = s.queue
          /\ n.done = s.done /\ n.activated = s.activated /\ n.batch = s.batch
      BY <2>3, <3>2, StoppedIs
    <3>4. drivers' = [drivers EXCEPT ![d] = n]
      BY <3>1
    <3> HIDE DEF n
    <3>5. Fit(n)
      BY <2>0, <2>1, <2>3, <3>2, <3>3 DEF Fit
    <3>6. QED
      BY <2>1, <2>3, <3>1, <3>2, <3>3, <3>4, <3>5
  <2>5. CASE status \notin {"PAUSED", "CANCELLED"}
    <3> DEFINE n == Started(s)
    <3>1. drivers' = [drivers EXCEPT ![d] = n] /\ ran' = ran \cup b
      BY <1>3, <2>5
    <3>2. /\ n \in Walk /\ n.pc = "running" /\ n.out = r.out /\ n.queue = s.queue
          /\ n.done = s.done \cup s.batch /\ n.activated = s.activated /\ n.batch = s.batch
      BY <2>3, StartedIs
    <3> HIDE DEF n
    <3>3. Fit(n)
      BY <1>1, <2>0, <2>1, <2>3, <3>2 DEF Fit
    <3>4. QED
      BY <1>1, <2>1, <2>3, <3>1, <3>2, <3>3
  <2>6. QED
    BY <2>4, <2>5
<1>4. QED
  BY <1>1, <1>2, <1>3 DEF Boundary

LEMMA MarkMoves ==
    ASSUME TypeOK, OutFits, NEW d \in Drivers, Mark(d)
    PROVE  /\ drivers[d] \in Walk /\ drivers[d].pc = "mark"
           /\ resume' = drivers[d].batch \cup drivers[d].queue /\ resume' \in SUBSET Nodes
           /\ \E n \in Walk : /\ drivers' = [drivers EXCEPT ![d] = n] /\ Fit(n)
                               /\ n.pc = "finish" /\ n.out = "PAUSED"
<1> DEFINE r == drivers[d]
           n == [r EXCEPT !.pc = "finish"]
<1>1. r \in Walk /\ r.pc = "mark" /\ r.out = "PAUSED"
  BY DriverTypes DEF Mark, Active, Walking, OutFits, Fit
<1>2. n \in Walk /\ drivers' = [drivers EXCEPT ![d] = n]
  BY <1>1 DEF Walk, TypeOK, Mark
<1>3. /\ n.pc = "finish" /\ n.out = "PAUSED" /\ n.batch = r.batch /\ n.queue = r.queue
      /\ n.done = r.done /\ n.activated = r.activated
  BY <1>1 DEF Walk
<1> HIDE DEF n
<1>4. Fit(n)
  BY <1>1, <1>3 DEF Fit, OutFits
<1>5. resume' = r.batch \cup r.queue /\ resume' \in SUBSET Nodes
  BY <1>1 DEF Mark, MarkAll, Walk
<1>6. QED
  BY <1>1, <1>2, <1>3, <1>4, <1>5

LEMMA BatchEndsMoves ==
    ASSUME TypeOK, OutFits, NEW d \in Drivers, BatchEnds(d)
    PROVE  /\ drivers[d] \in Walk /\ drivers[d].pc = "running"
           /\ \E n \in Walk :
                /\ drivers' = [drivers EXCEPT ![d] = n] /\ Fit(n)
                /\ n.pc = "loop" /\ n.out = "SUCCESS" /\ n.batch = {}
                /\ n.queue = drivers[d].queue \cup Targets(drivers[d].batch)
                /\ n.done = drivers[d].done
<1> DEFINE r == drivers[d]
           n == Advanced(r)
<1>1. r \in Walk /\ r.pc = "running" /\ r.out = "SUCCESS"
  BY DriverTypes DEF BatchEnds, Active, Walking, OutFits, Fit
<1>2. drivers' = [drivers EXCEPT ![d] = n]
  BY DEF BatchEnds
<1>3. /\ n \in Walk /\ n.pc = "loop" /\ n.out = r.out /\ n.batch = {}
      /\ n.queue = r.queue \cup Targets(r.batch) /\ n.done = r.done
      /\ n.activated = r.activated \cup Targets(r.batch)
  BY <1>1, AdvancedIs
<1> HIDE DEF n
<1>4. Fit(n)
  BY <1>1, <1>3 DEF Fit, OutFits
<1>5. QED
  BY <1>1, <1>2, <1>3, <1>4

LEMMA BatchFailsMoves ==
    ASSUME TypeOK, OutFits, NEW d \in Drivers, BatchFails(d)
    PROVE  /\ drivers[d] \in Walk /\ drivers[d].pc = "running"
           /\ \E n \in Walk : /\ drivers' = [drivers EXCEPT ![d] = n] /\ Fit(n)
                               /\ n.pc = "finish" /\ n.out = "FAILED"
<1> DEFINE r == drivers[d]
           n == Stopped(r, "FAILED", "finish")
<1>1. r \in Walk /\ r.pc = "running"
  BY DriverTypes DEF BatchFails, Active, Walking
<1>2. drivers' = [drivers EXCEPT ![d] = n]
  BY DEF BatchFails, TypeOK
<1>3. /\ n \in Walk /\ n.pc = "finish" /\ n.out = "FAILED" /\ n.batch = r.batch
      /\ n.queue = r.queue /\ n.done = r.done /\ n.activated = r.activated
  BY <1>1, StoppedIs DEF Outcomes
<1> HIDE DEF n
<1>4. Fit(n)
  BY <1>1, <1>3 DEF Fit, OutFits
<1>5. QED
  BY <1>1, <1>2, <1>3, <1>4

LEMMA AskApprovalMoves ==
    ASSUME TypeOK, OutFits, NEW d \in Drivers, AskApproval(d)
    PROVE  /\ drivers[d] \in Walk /\ drivers[d].pc = "running"
           /\ \E n \in Walk :
                /\ drivers' = [drivers EXCEPT ![d] = n] /\ Fit(n)
                /\ \/ (n.pc = "finish" /\ drivers[d].queue \subseteq drivers[d].done)
                   \/ n.pc = "branches"
                /\ n.out = "WAITING_APPROVAL" /\ n.batch = drivers[d].batch
                /\ n.queue = drivers[d].queue /\ n.done = drivers[d].done
           /\ \E h \in Humans :
                /\ drivers[d].batch = {h}
                /\ approvals' = Append(approvals, [step |-> h, state |-> "PENDING", pending |-> {}])
<1> DEFINE r == drivers[d]
           pc == IF r.queue \subseteq r.done THEN "finish" ELSE "branches"
           n == Stopped(r, "WAITING_APPROVAL", pc)
<1>1. r \in Walk /\ r.pc = "running"
  BY DriverTypes DEF AskApproval, Active, Walking
<1>2. drivers' = [drivers EXCEPT ![d] = n]
  BY DEF AskApproval
<1>3. (pc = "finish" /\ r.queue \subseteq r.done) \/ pc = "branches"
  OBVIOUS
<1>4. PICK h \in r.batch \cap Humans :
        approvals' = Append(approvals, [step |-> h, state |-> "PENDING", pending |-> {}])
  BY DEF AskApproval
<1>5. r.batch = {h}
  BY <1>1, <1>4 DEF OutFits, Fit
<1> HIDE DEF pc
<1>6. /\ n \in Walk /\ n.pc = pc /\ n.out = "WAITING_APPROVAL" /\ n.batch = r.batch
      /\ n.queue = r.queue /\ n.done = r.done /\ n.activated = r.activated
  BY <1>1, <1>3, StoppedIs DEF Outcomes
<1> HIDE DEF n
<1>7. Fit(n)
  BY <1>1, <1>3, <1>6 DEF Fit, OutFits
<1>8. QED
  BY <1>1, <1>2, <1>3, <1>4, <1>5, <1>6, <1>7

LEMMA BranchesMoves ==
    ASSUME TypeOK, OutFits, NEW d \in Drivers, Branches(d)
    PROVE  /\ drivers[d] \in Walk /\ drivers[d].pc = "branches"
           /\ \E n \in Walk : /\ drivers' = [drivers EXCEPT ![d] = n] /\ Fit(n)
                               /\ n.pc = "finish" /\ n.out = "WAITING_APPROVAL"
<1> DEFINE r == drivers[d]
           n == [r EXCEPT !.pc = "finish"]
<1>1. r \in Walk /\ r.pc = "branches" /\ r.out = "WAITING_APPROVAL"
  BY DriverTypes DEF Branches, Active, Walking, OutFits, Fit
<1>2. n \in Walk /\ drivers' = [drivers EXCEPT ![d] = n]
  BY <1>1 DEF Walk, TypeOK, Branches
<1>3. /\ n.pc = "finish" /\ n.out = "WAITING_APPROVAL" /\ n.batch = r.batch
      /\ n.queue = r.queue /\ n.done = r.done /\ n.activated = r.activated
  BY <1>1 DEF Walk
<1> HIDE DEF n
<1>4. Fit(n)
  BY <1>1, <1>3 DEF Fit, OutFits
<1>5. QED
  BY <1>1, <1>2, <1>3, <1>4

\* A driver's step moves no other driver.
LEMMA OneMoves ==
    ASSUME TypeOK, NEW d \in Drivers, NEW n, drivers' = [drivers EXCEPT ![d] = n]
    PROVE  /\ drivers'[d] = n
           /\ \A e \in Drivers \ {d} :
                /\ drivers'[e] = drivers[e]
                /\ Walking(e)' <=> Walking(e)
                /\ Active(e)' <=> Active(e)
                /\ Engaged(e)' <=> Engaged(e)
                /\ Asked(e)' <=> Asked(e)
                /\ Answering(e)' <=> Answering(e)
BY DEF TypeOK, Walking, Active, Engaged, Asked, Answering

LEMMA DriversStep ==
    ASSUME TypeOK, OutFits, NEW d \in Drivers, NEW n \in {Idle} \cup Walk \cup Answer, Fit(n),
           drivers' = [drivers EXCEPT ![d] = n]
    PROVE  drivers' \in [Drivers -> {Idle} \cup Walk \cup Answer] /\ OutFits'
<1>1. drivers' \in [Drivers -> {Idle} \cup Walk \cup Answer]
  BY DEF TypeOK
<1>2. \A e \in Drivers : Fit(drivers'[e])
  BY DEF TypeOK, OutFits
<1>3. QED
  BY <1>1, <1>2 DEF OutFits

LEMMA FitIdle == Fit(Idle) /\ \A a \in Answer : Fit(a)
BY DEF Fit, Idle, Walk, Answer

----------------------------------------------------------------------------
(* What becomes of the requests                                            *)

LEMMA RequestTypes ==
    ASSUME TypeOK
    PROVE  /\ DOMAIN approvals = 1 .. Len(approvals) /\ Len(approvals) \in Nat
           /\ Open \subseteq DOMAIN approvals
           /\ \A i \in DOMAIN approvals : approvals[i] \in Request
BY LenProperties, ElementOfSeq DEF TypeOK, Open

LEMMA AskedRequest ==
    ASSUME TypeOK, NEW h \in Humans,
           approvals' = Append(approvals, [step |-> h, state |-> "PENDING", pending |-> {}])
    PROVE  /\ approvals' \in Seq(Request) /\ Len(approvals') = Len(approvals) + 1
           /\ \A i \in DOMAIN approvals : approvals'[i] = approvals[i]
           /\ Len(approvals) + 1 \notin DOMAIN approvals
           /\ approvals'[Len(approvals) + 1] = [step |-> h, state |-> "PENDING", pending |-> {}]
           /\ Open' = Open \cup {Len(approvals) + 1}
<1> DEFINE q == [step |-> h, state |-> "PENDING", pending |-> {}]
<1>1. q \in Request /\ q.state = "PENDING"
  BY DEF Request
<1> HIDE DEF q
<1>2. /\ approvals' \in Seq(Request) /\ Len(approvals') = Len(approvals) + 1
      /\ \A i \in DOMAIN approvals : approvals'[i] = approvals[i]
      /\ approvals'[Len(approvals) + 1] = q
  BY <1>1, RequestTypes DEF q, TypeOK
<1>3. DOMAIN approvals' = DOMAIN approvals \cup {Len(approvals) + 1}
  BY <1>2, RequestTypes, LenProperties
<1>4. Len(approvals) + 1 \notin DOMAIN approvals
  BY RequestTypes
<1>5. Open' = Open \cup {Len(approvals) + 1}
  BY <1>1, <1>2, <1>3 DEF Open
<1>6. QED
  BY <1>2, <1>4, <1>5 DEF q

LEMMA ChangedRequest ==
    ASSUME TypeOK, NEW i \in DOMAIN approvals, NEW q \in Request,
           approvals' = [approvals EXCEPT ![i] = q]
    PROVE  /\ approvals' \in Seq(Request) /\ Len(approvals') = Len(approvals)
           /\ DOMAIN approvals' = DOMAIN approvals
           /\ approvals'[i] = q
           /\ \A j \in DOMAIN approvals \ {i} : approvals'[j] = approvals[j]
           /\ Open' = (Open \ {i}) \cup (IF q.state = "PENDING" THEN {i} ELSE {})
<1>1. /\ approvals' \in Seq(Request) /\ Len(approvals') = Len(approvals)
      /\ \A j \in 1 .. Len(approvals) : approvals'[j] = IF j = i THEN q ELSE approvals[j]
  BY RequestTypes, ExceptSeq DEF TypeOK
<1>2. DOMAIN approvals' = DOMAIN approvals
  OBVIOUS
<1>3. QED
  BY <1>1, <1>2, RequestTypes DEF Open

LEMMA CancelledRequests ==
    ASSUME TypeOK,
           approvals' = [i \in DOMAIN approvals |->
               [approvals[i] EXCEPT !.state = IF @ = "PENDING" THEN "CANCELLED" ELSE @]]
    PROVE  /\ approvals' \in Seq(Request) /\ Len(approvals') = Len(approvals)
           /\ Open' = {}
<1> DEFINE s(i) == IF approvals[i].state = "PENDING" THEN "CANCELLED" ELSE approvals[i].state
<1>1. \A i \in DOMAIN approvals : approvals[i] \in Request /\ s(i) \in Decisions \cup {"CANCELLED"}
  BY RequestTypes DEF Request
<1>2. \A i \in DOMAIN approvals : approvals'[i] = [approvals[i] EXCEPT !.state = s(i)]
  OBVIOUS
<1> HIDE DEF s
<1>3. \A i \in DOMAIN approvals : approvals'[i] \in Request /\ approvals'[i].state # "PENDING"
  BY <1>1, <1>2 DEF Request, Decisions
<1>4. DOMAIN approvals' = DOMAIN approvals
  OBVIOUS
<1>5. approvals' \in Seq(Request) /\ Len(approvals') = Len(approvals)
  <2>1. approvals' \in [1 .. Len(approvals) -> Request]
    BY <1>3, RequestTypes
  <2>2. approvals' \in Seq(Request)
    BY <2>1, RequestTypes, SeqDef
  <2>3. QED
    BY <1>4, <2>2, RequestTypes, LenProperties
<1>6. QED
  BY <1>3, <1>4, <1>5 DEF Open

\* The decision of a request and of what it was about.
LEMMA DecideMoves ==
    ASSUME TypeOK, NEW p \in People, NEW d \in Drivers, NEW decision \in Decisions,
           Decide(p, d, decision)
    PROVE  LET i == people[p].request IN
           /\ i \in DOMAIN approvals /\ drivers[d] = Idle
           /\ approvals' \in Seq(Request) /\ Len(approvals') = Len(approvals)
           /\ Open' = Open \ {i}
           /\ \A j \in DOMAIN approvals :
                approvals'[j].step = approvals[j].step /\ approvals'[j].pending = approvals[j].pending
           /\ \E n \in Answer :
                /\ drivers' = [drivers EXCEPT ![d] = n] /\ n.pc = "decided"
                /\ n.step = approvals[i].step /\ n.pending = approvals[i].pending
           /\ people' = [people EXCEPT ![p] = Idle]
<1> DEFINE i == people[p].request
           n == [pc |-> "decided", decision |-> decision,
                 step |-> approvals[i].step, pending |-> approvals[i].pending]
           q == [approvals[i] EXCEPT !.state = decision]
<1>1. /\ people[p].pc = "decide" /\ drivers[d] = Idle
      /\ approvals' = [approvals EXCEPT ![i].state = decision]
      /\ drivers' = [drivers EXCEPT ![d] = n]
      /\ people' = [people EXCEPT ![p] = Idle]
  BY DEF Decide, Release
<1>2. i \in 1 .. Len(approvals)
  BY <1>1 DEF TypeOK, Call, Idle
<1> HIDE DEF i
<1>3. i \in DOMAIN approvals /\ approvals[i] \in Request
  BY <1>2, RequestTypes
<1>4. /\ q \in Request /\ q.step = approvals[i].step /\ q.pending = approvals[i].pending
      /\ q.state # "PENDING"
  BY <1>3 DEF Request, Decisions
<1>5. n \in Answer /\ n.pc = "decided" /\ n.step = approvals[i].step
      /\ n.pending = approvals[i].pending
  BY <1>3 DEF Answer, Request
<1>6. approvals' = [approvals EXCEPT ![i] = q]
  BY <1>1
<1> HIDE DEF q, n
<1>7. /\ approvals' \in Seq(Request) /\ Len(approvals') = Len(approvals)
      /\ approvals'[i] = q
      /\ \A j \in DOMAIN approvals \ {i} : approvals'[j] = approvals[j]
      /\ Open' = Open \ {i}
  BY <1>3, <1>4, <1>6, ChangedRequest
<1>8. QED
  BY <1>1, <1>3, <1>4, <1>5, <1>7 DEF i

LEMMA BranchesRequest ==
    ASSUME TypeOK, OutFits, NEW d \in Drivers, Branches(d)
    PROVE  /\ approvals' \in Seq(Request) /\ Len(approvals') = Len(approvals)
           /\ DOMAIN approvals' = DOMAIN approvals /\ Open' = Open
           /\ \A i \in DOMAIN approvals : approvals'[i].step = approvals[i].step
           /\ \/ /\ approvals' = approvals
                 /\ \A i \in Open : approvals[i].step \notin drivers[d].batch
              \/ \E i \in Open : /\ approvals[i].step \in drivers[d].batch
                                 /\ approvals'[i].pending = drivers[d].queue \ drivers[d].done
<1> DEFINE P == drivers[d].queue \ drivers[d].done
           open == {i \in DOMAIN approvals : approvals[i].step \in drivers[d].batch
                                             /\ approvals[i].state = "PENDING"}
<1>1. CASE open = {} /\ UNCHANGED approvals
  BY <1>1 DEF Open, TypeOK
<1>2. ASSUME NEW i \in open, approvals' = [approvals EXCEPT ![i].pending = P]
      PROVE  /\ approvals' \in Seq(Request) /\ Len(approvals') = Len(approvals)
             /\ DOMAIN approvals' = DOMAIN approvals /\ Open' = Open
             /\ \A j \in DOMAIN approvals : approvals'[j].step = approvals[j].step
             /\ i \in Open /\ approvals[i].step \in drivers[d].batch
             /\ approvals'[i].pending = P
  <2> DEFINE q == [approvals[i] EXCEPT !.pending = P]
  <2>1. i \in DOMAIN approvals /\ approvals[i] \in Request /\ i \in Open
    BY RequestTypes DEF Open
  <2>2. P \in SUBSET Nodes
    BY BranchesMoves DEF Walk
  <2>3. q \in Request /\ q.step = approvals[i].step /\ q.pending = P /\ q.state = "PENDING"
    BY <2>1, <2>2 DEF Request
  <2>4. approvals' = [approvals EXCEPT ![i] = q]
    BY <1>2
  <2> HIDE DEF q, P
  <2>5. /\ approvals' \in Seq(Request) /\ Len(approvals') = Len(approvals)
        /\ DOMAIN approvals' = DOMAIN approvals
        /\ approvals'[i] = q
        /\ \A j \in DOMAIN approvals \ {i} : approvals'[j] = approvals[j]
        /\ Open' = (Open \ {i}) \cup (IF q.state = "PENDING" THEN {i} ELSE {})
    BY <2>1, <2>3, <2>4, ChangedRequest
  <2>6. QED
    BY <2>1, <2>3, <2>5
<1>3. \/ open = {} /\ UNCHANGED approvals
     \/ \E i \in open : approvals' = [approvals EXCEPT ![i].pending = P]
  BY DEF Branches, PendingOf
<1>4. QED
  BY <1>1, <1>2, <1>3

LEMMA ResumeMoves ==
    ASSUME TypeOK, OutFits, NEW d \in Drivers
    PROVE  /\ ResumeRead(d) =>
                /\ drivers[d] \in Answer /\ drivers[d].pc = "decided"
                /\ \E n \in {Idle} \cup Answer :
                     /\ drivers' = [drivers EXCEPT ![d] = n] /\ Fit(n)
                     /\ IF RunWaits
                        THEN /\ n.pc = "resuming" /\ n.step = drivers[d].step
                             /\ n.pending = drivers[d].pending
                        ELSE n = Idle
           /\ ResumeWrite(d) =>
                /\ drivers[d] \in Answer /\ drivers[d].pc = "resuming"
                /\ \/ /\ drivers' = [drivers EXCEPT ![d] = Idle]
                      /\ status' = Settle("FAILED") /\ last' = "FAILED" /\ excused' = excused
                   \/ \E S \in SUBSET Nodes :
                        /\ S = Targets({drivers[d].step}) \cup drivers[d].pending
                        /\ drivers' = [drivers EXCEPT ![d] = Drive(S)]
                        /\ status' = "RUNNING" /\ last' = last
                        /\ excused' = IF RunWaits THEN excused ELSE excused \cup {"stale"}
<1> DEFINE r == drivers[d]
<1>1. ASSUME ResumeRead(d)
      PROVE  /\ r \in Answer /\ r.pc = "decided"
             /\ \E n \in {Idle} \cup Answer :
                     /\ drivers' = [drivers EXCEPT ![d] = n] /\ Fit(n)
                     /\ IF RunWaits
                        THEN /\ n.pc = "resuming" /\ n.step = r.step /\ n.pending = r.pending
                        ELSE n = Idle
  <2>1. r \in Answer /\ r.pc = "decided"
    BY <1>1, DriverTypes DEF ResumeRead, Answering
  <2> DEFINE m == [r EXCEPT !.pc = "resuming"]
  <2>2. m \in Answer /\ m.pc = "resuming" /\ m.step = r.step /\ m.pending = r.pending
    BY <2>1 DEF Answer
  <2>3. drivers' = IF RunWaits THEN [drivers EXCEPT ![d] = m] ELSE [drivers EXCEPT ![d] = Idle]
    BY <1>1 DEF ResumeRead
  <2> HIDE DEF m
  <2>4. CASE RunWaits
    BY <2>1, <2>2, <2>3, <2>4, FitIdle
  <2>5. CASE ~RunWaits
    BY <2>1, <2>3, <2>5, FitIdle
  <2>6. QED
    BY <2>4, <2>5
<1>2. ASSUME ResumeWrite(d)
      PROVE  /\ r \in Answer /\ r.pc = "resuming"
             /\ \/ /\ drivers' = [drivers EXCEPT ![d] = Idle]
                   /\ status' = Settle("FAILED") /\ last' = "FAILED" /\ excused' = excused
                \/ \E S \in SUBSET Nodes :
                        /\ S = Targets({r.step}) \cup r.pending
                        /\ drivers' = [drivers EXCEPT ![d] = Drive(S)]
                        /\ status' = "RUNNING" /\ last' = last
                        /\ excused' = IF RunWaits THEN excused ELSE excused \cup {"stale"}
  <2>1. r \in Answer /\ r.pc = "resuming"
    BY <1>2, DriverTypes DEF ResumeWrite, Answering
  <2>2. Targets({r.step}) \cup r.pending \in SUBSET Nodes
    BY <2>1, TargetsOf DEF Answer
  <2>3. QED
    BY <1>2, <2>1, <2>2 DEF ResumeWrite
<1>3. QED
  BY <1>1, <1>2

LEMMA ResumeRunMoves ==
    ASSUME TypeOK, NEW p \in People, NEW d \in Drivers, ResumeRun(p, d)
    PROVE  /\ drivers[d] = Idle
           /\ people' = [people EXCEPT ![p] = Idle]
           /\ \/ /\ status' = "COMPLETED" /\ drivers' = drivers /\ resume' = resume
                 /\ excused' = {} => /\ status = "PAUSED" /\ last = "SUCCESS"
                                     /\ \A e \in Drivers : ~Active(e)
                 /\ excused' \subseteq {"twice"} => status = "PAUSED" /\ excused' = excused
              \/ \E S \in SUBSET Nodes :
                   /\ status' = "RUNNING" /\ resume' = None
                   /\ drivers' = [drivers EXCEPT ![d] = Drive(S)]
                   /\ excused' \subseteq {"twice"} =>
                        status = "PAUSED" /\ resume = S /\ resume # None /\ excused' = excused
           /\ excused \subseteq excused'
<1>1. CASE people[p].next = None
  BY <1>1 DEF ResumeRun, Release
<1>2. CASE people[p].next # None
  <2>1. people[p].next \in SUBSET Nodes
    <3>1. people[p] \in {Idle} \cup Call /\ people[p].pc = "resume"
      BY DEF ResumeRun, TypeOK
    <3>2. people[p] \in [pc: {"resume"}, next: (SUBSET Nodes) \cup {None}]
      BY <3>1 DEF Call, Idle
    <3>3. people[p].next \in (SUBSET Nodes) \cup {None}
      BY <3>2
    <3>4. QED
      BY <1>2, <3>3, Zenon
  <2>2. QED
    BY <1>2, <2>1, NoneAssumption DEF ResumeRun, Release, PointAfter
<1>3. QED
  BY <1>1, <1>2

----------------------------------------------------------------------------
(* What every step shares                                                  *)

LEMMA TypesStep ==
    ASSUME status' \in Statuses, resume' = None \/ resume' \subseteq Nodes,
           approvals' \in Seq(Request), drivers' \in [Drivers -> {Idle} \cup Walk \cup Answer],
           (people \in [People -> {Idle} \cup Call])', ran' \subseteq Nodes, last' \in Outcomes,
           OutFits'
    PROVE  TypeOK'
<1>1. ASSUME NEW d \in Drivers, Active(d)'
      PROVE  /\ drivers'[d].queue \cup drivers'[d].done \subseteq drivers'[d].activated
             /\ drivers'[d].batch \cap drivers'[d].queue = {}
             /\ drivers'[d].batch \cap Humans # {} => Cardinality(drivers'[d].batch) = 1
  <2>1. drivers'[d] \in Walk
    BY <1>1 DEF Active, Walking, Idle, Answer
  <2>2. /\ drivers'[d].queue \cup drivers'[d].done \subseteq drivers'[d].activated
        /\ drivers'[d].batch \cap drivers'[d].queue = {}
        /\ drivers'[d].batch \cap Humans # {} => \E h \in Humans : drivers'[d].batch = {h}
    BY <2>1 DEF OutFits, Fit
  <2>3. QED
    BY <2>2, FS_Singleton
<1>2. QED
  BY <1>1 DEF TypeOK

\* The calls stay what they are while there are as many requests or more.
LEMMA PeopleStep ==
    ASSUME TypeOK, Len(approvals') = Len(approvals) \/ Len(approvals') = Len(approvals) + 1,
           \/ people' = people
           \/ \E p \in People : people' = [people EXCEPT ![p] = Idle]
    PROVE  (people \in [People -> {Idle} \cup Call])'
<1>1. 1 .. Len(approvals) \subseteq 1 .. Len(approvals')
  BY RequestTypes
<1>2. Call \subseteq Call'
  BY <1>1 DEF Call
<1>3. people' \in [People -> {Idle} \cup Call]
  BY DEF TypeOK
<1>4. QED
  BY <1>2, <1>3

LEMMA Answerable ==
    /\ WaitingIsAnswerable <=>
         (status = "WAITING_APPROVAL" /\ Lax => Open # {} \/ \E d \in Drivers : Answering(d))
    /\ WaitingIsAnswerable' <=>
         (status' = "WAITING_APPROVAL" /\ Lax' => Open' # {} \/ \E d \in Drivers : Answering(d)')
BY DEF WaitingIsAnswerable, Lax, Open, Answering

LEMMA Kinds ==
    ASSUME NEW d \in Drivers
    PROVE  /\ Live => Lax
           /\ Asked(d) => Engaged(d) /\ ~Answering(d)
           /\ Walking(d) => Engaged(d)
           /\ Engaged(d) => Active(d) /\ ~Answering(d)
BY DEF Live, Lax, Asked, Engaged, Walking, Active, Answering

\* Where the run is, by driver.
LEMMA Token ==
    ASSUME IInv, Live, NEW d \in Drivers
    PROVE  /\ Engaged(d) => /\ resume = None /\ status # "WAITING_APPROVAL"
                            /\ \A e \in Drivers : ~Answering(e) /\ (Engaged(e) => e = d)
           /\ Engaged(d) /\ ~Asked(d) => Open = {}
           /\ Answering(d) => /\ resume = None /\ status = "WAITING_APPROVAL" /\ Open = {}
                              /\ \A e \in Drivers : ~Engaged(e) /\ (Answering(e) => e = d)
BY Kinds DEF IInv, OneEngaged, OneToken

\* A driver's work stays what is left when more has run.
LEMMA WorkStays ==
    ASSUME NEW e \in Drivers, drivers'[e] = drivers[e], ran \subseteq ran', ran' \subseteq Nodes,
           WorkCovers(e)
    PROVE  WorkCovers(e)'
<1> DEFINE r == drivers[e]
<1>1. CASE r.pc \in {"loop", "running", "branches"}
  <2>1. Covers(r.queue \cup r.done)'
    BY <1>1, CoversGrows DEF WorkCovers
  <2>2. QED
    BY <1>1, <2>1 DEF WorkCovers
<1>2. CASE r.pc = "mark"
  <2>1. Covers(r.batch \cup r.queue)'
    BY <1>2, CoversGrows DEF WorkCovers
  <2>2. QED
    BY <1>2, <2>1 DEF WorkCovers
<1>3. CASE r.pc \notin {"loop", "running", "branches", "mark"}
  BY <1>3 DEF WorkCovers
<1>4. QED
  BY <1>1, <1>2, <1>3

\* The steps of a driver at its work.
LEMMA WorkStep ==
    ASSUME IInv, NEW d \in Drivers, drivers[d].pc \in {"loop", "running"},
           NEW n \in Walk, Fit(n), drivers' = [drivers EXCEPT ![d] = n], ~Asked(d)',
           ran \subseteq ran', ran' \subseteq Nodes, Live => WorkCovers(d)',
           UNCHANGED <<status, resume, approvals, people, last, excused>>
    PROVE  IInv'
<1>1. TypeOK /\ OutFits
  BY DEF IInv
<1>2. /\ drivers'[d] = n
      /\ \A e \in Drivers \ {d} :
                /\ drivers'[e] = drivers[e]
                /\ Walking(e)' <=> Walking(e)
                /\ Active(e)' <=> Active(e)
                /\ Engaged(e)' <=> Engaged(e)
                /\ Asked(e)' <=> Asked(e)
                /\ Answering(e)' <=> Answering(e)
  BY <1>1, OneMoves
<1>3. /\ Walking(d) /\ Engaged(d) /\ ~Asked(d) /\ ~Answering(d) /\ Active(d)
      /\ Active(d)' /\ ~Answering(d)' /\ n.pc # "branches"
  <2>1. Walking(d) /\ Engaged(d) /\ ~Asked(d) /\ ~Answering(d) /\ Active(d)
    BY DEF Walking, Engaged, Asked, Answering, Active
  <2>2. n.pc \in {"loop", "running", "mark", "branches", "finish"} /\ n.pc # "branches"
    BY <1>2 DEF Walk, Asked
  <2>3. Active(d)' /\ ~Answering(d)'
    BY <1>2, <2>2 DEF Active, Walking, Answering
  <2>4. QED
    BY <2>1, <2>2, <2>3
<1>4. Open' = Open /\ Lax' = Lax /\ Live' = Live
  BY DEF Open, Lax, Live
<1>5. TypeOK' /\ OutFits'
  <2>1. drivers' \in [Drivers -> {Idle} \cup Walk \cup Answer] /\ OutFits'
    BY <1>1, DriversStep
  <2>2. (people \in [People -> {Idle} \cup Call])'
    BY <1>1, PeopleStep
  <2>3. QED
    BY <1>1, <2>1, <2>2, TypesStep DEF TypeOK
<1>6. OneEngaged'
  BY <1>2, <1>3, <1>4 DEF IInv, OneEngaged
<1>7. AskedIsOpen'
  BY <1>2, <1>4 DEF IInv, AskedIsOpen
<1>8. WaitingIsAnswerable'
  <2>1. status = "WAITING_APPROVAL" /\ Lax => Open # {} \/ \E e \in Drivers : Answering(e)
    BY Answerable DEF IInv
  <2>2. status' = "WAITING_APPROVAL" /\ Lax' => Open' # {} \/ \E e \in Drivers : Answering(e)'
    BY <1>2, <1>3, <1>4, <2>1
  <2>3. QED
    BY <2>2, Answerable
<1>9. OneToken'
  BY <1>2, <1>3, <1>4, Token DEF IInv, OneToken
<1>10. NothingLost'
  <2> SUFFICES ASSUME Live PROVE NothingLost'
    BY <1>4 DEF NothingLost
  <2>1. Open = {} /\ resume = None /\ \A e \in Drivers : ~Answering(e)
    BY <1>3, Token
  <2>2. \A e \in Drivers : WorkCovers(e)'
    BY <1>2, WorkStays DEF IInv, NothingLost
  <2>3. QED
    BY <1>2, <1>3, <1>4, <2>1, <2>2 DEF NothingLost
<1>11. EndedWell'
  BY <1>2, <1>3, <1>4 DEF IInv, EndedWell
<1>12. QED
  BY <1>5, <1>6, <1>7, <1>8, <1>9, <1>10, <1>11 DEF IInv

----------------------------------------------------------------------------
(* The driver at work                                                      *)

LEMMA BoundaryKeeps ==
    ASSUME IInv, NEW d \in Drivers, Boundary(d)
    PROVE  IInv'
<1> DEFINE r == drivers[d]
<1>1. TypeOK /\ OutFits
  BY DEF IInv
<1>2. r \in Walk /\ r.pc = "loop" /\ r.batch = {}
  BY <1>1, BoundaryMoves DEF OutFits, Fit
<1>3. PICK n \in Walk :
        /\ drivers' = [drivers EXCEPT ![d] = n] /\ Fit(n)
        /\ \/ /\ r.queue \subseteq r.done
              /\ n.pc = "finish" /\ n.out = "SUCCESS" /\ n.batch = {}
              /\ n.queue = r.queue /\ n.done = r.done
              /\ ran' = ran
           \/ /\ n.batch \subseteq r.queue \ r.done
              /\ n.queue = (r.queue \ r.done) \ n.batch
              /\ \/ /\ n.done = r.done /\ ran' = ran
                    /\ \/ (n.pc = "mark" /\ n.out = "PAUSED")
                       \/ (n.pc = "finish" /\ n.out = "CANCELLED")
                 \/ /\ n.done = r.done \cup n.batch /\ ran' = ran \cup n.batch
                    /\ n.pc = "running" /\ n.out = "SUCCESS"
  BY <1>1, BoundaryMoves
<1>4. /\ r.queue \in SUBSET Nodes /\ r.done \in SUBSET Nodes /\ n.batch \in SUBSET Nodes
  BY <1>2 DEF Walk
<1>5. ran \subseteq ran' /\ ran' \subseteq Nodes
  <2>1. ran' = ran \/ ran' = ran \cup n.batch
    BY <1>3
  <2>2. ran \subseteq Nodes
    BY <1>1 DEF TypeOK
  <2>3. QED
    BY <1>4, <2>1, <2>2
<1>6. drivers'[d] = n /\ ~Asked(d)'
  BY <1>1, <1>3, OneMoves DEF Asked
<1>7. ASSUME Live PROVE WorkCovers(d)'
  <2>1. /\ r.done \subseteq ran /\ Covers(r.queue \cup r.done)
        /\ Targets(r.done) \subseteq r.done \cup r.queue
    <3>1. WorkCovers(d) /\ r.done \ r.batch = r.done
      BY <1>2, <1>7 DEF IInv, NothingLost
    <3>2. QED
      BY <1>2, <3>1 DEF WorkCovers
  <2>2. CASE n.pc = "finish" /\ n.out = "SUCCESS"
    <3>1. Covers({})
      BY <1>3, <1>4, <2>1, <2>2, Peel
    <3>2. ran' = Nodes
      BY <1>1, <1>3, <2>2, <3>1, AllRan DEF TypeOK
    <3>3. QED
      BY <1>6, <2>2, <3>2 DEF WorkCovers
  <2>3. CASE n.pc = "mark"
    <3>1. n.batch \cup n.queue = r.queue \ r.done
      BY <1>3, <2>3
    <3>2. Covers(r.queue \ r.done)
      BY <1>4, <2>1, Peel
    <3>3. Covers(n.batch \cup n.queue)'
      BY <1>5, <3>1, <3>2, CoversGrows
    <3>4. QED
      BY <1>6, <2>3, <3>3 DEF WorkCovers
  <2>4. CASE n.pc = "running"
    <3>1. r.queue \cup r.done \subseteq n.queue \cup n.done
      BY <1>3, <2>4
    <3>2. Covers(n.queue \cup n.done)'
      BY <1>5, <2>1, <3>1, CoversGrows
    <3>3. Targets(n.done \ n.batch) \subseteq n.done \cup n.queue
      <4>1. n.done \ n.batch \subseteq r.done
        BY <1>3, <2>4
      <4>2. Targets(n.done \ n.batch) \subseteq Targets(r.done)
        BY <4>1, TargetsOf
      <4>3. QED
        BY <2>1, <3>1, <4>2
    <3>4. n.done \subseteq ran'
      BY <1>3, <2>1, <2>4
    <3>5. QED
      BY <1>6, <2>4, <3>2, <3>3, <3>4 DEF WorkCovers
  <2>5. CASE n.pc = "finish" /\ n.out # "SUCCESS"
    BY <1>6, <2>5 DEF WorkCovers
  <2>6. QED
    BY <1>3, <2>2, <2>3, <2>4, <2>5
<1>8. UNCHANGED <<status, resume, approvals, people, last, excused>>
  BY DEF Boundary, row
<1>9. QED
  BY <1>2, <1>3, <1>5, <1>6, <1>7, <1>8, WorkStep

LEMMA BatchEndsKeeps ==
    ASSUME IInv, NEW d \in Drivers, BatchEnds(d)
    PROVE  IInv'
<1> DEFINE r == drivers[d]
<1>1. TypeOK /\ OutFits
  BY DEF IInv
<1>2. r \in Walk /\ r.pc = "running"
  BY <1>1, BatchEndsMoves
<1>3. PICK n \in Walk :
        /\ drivers' = [drivers EXCEPT ![d] = n] /\ Fit(n)
        /\ n.pc = "loop" /\ n.out = "SUCCESS" /\ n.batch = {}
        /\ n.queue = r.queue \cup Targets(r.batch)
        /\ n.done = r.done
  BY <1>1, BatchEndsMoves
<1>4. UNCHANGED <<status, resume, approvals, people, last, excused, ran>>
  BY DEF BatchEnds, row
<1>5. drivers'[d] = n /\ ~Asked(d)' /\ ran \subseteq ran' /\ ran' \subseteq Nodes
  BY <1>1, <1>3, <1>4, OneMoves DEF Asked, TypeOK
<1>6. ASSUME Live PROVE WorkCovers(d)'
  <2>1. /\ r.done \subseteq ran /\ Covers(r.queue \cup r.done)
        /\ Targets(r.done \ r.batch) \subseteq r.done \cup r.queue
    BY <1>2, <1>6 DEF IInv, NothingLost, WorkCovers
  <2>2. Covers(n.queue \cup n.done)'
    <3>1. r.queue \cup r.done \subseteq n.queue \cup n.done
      BY <1>3
    <3>2. QED
      BY <1>5, <2>1, <3>1, CoversGrows
  <2>3. Targets(n.done \ n.batch) \subseteq n.done \cup n.queue
    <3>1. n.done \ n.batch \subseteq (r.done \ r.batch) \cup r.batch
      BY <1>3
    <3>2. Targets(n.done \ n.batch) \subseteq Targets(r.done \ r.batch) \cup Targets(r.batch)
      BY <3>1, TargetsSplit
    <3>3. QED
      BY <1>3, <2>1, <3>2
  <2>4. QED
    BY <1>3, <1>4, <1>5, <2>1, <2>2, <2>3 DEF WorkCovers
<1>7. QED
  BY <1>2, <1>3, <1>4, <1>5, <1>6, WorkStep

LEMMA BatchFailsKeeps ==
    ASSUME IInv, NEW d \in Drivers, BatchFails(d)
    PROVE  IInv'
<1>1. TypeOK /\ OutFits
  BY DEF IInv
<1>2. drivers[d].pc = "running"
  BY <1>1, BatchFailsMoves
<1>3. PICK n \in Walk : /\ drivers' = [drivers EXCEPT ![d] = n] /\ Fit(n)
                        /\ n.pc = "finish" /\ n.out = "FAILED"
  BY <1>1, BatchFailsMoves
<1>4. UNCHANGED <<status, resume, approvals, people, last, excused, ran>>
  BY DEF BatchFails, row
<1>5. drivers'[d] = n /\ ~Asked(d)' /\ ran \subseteq ran' /\ ran' \subseteq Nodes /\ WorkCovers(d)'
  BY <1>1, <1>3, <1>4, OneMoves DEF Asked, TypeOK, WorkCovers
<1>6. QED
  BY <1>2, <1>3, <1>4, <1>5, WorkStep

\* The driver leaves its work as the resume point.
LEMMA MarkKeeps ==
    ASSUME IInv, NEW d \in Drivers, Mark(d)
    PROVE  IInv'
<1> DEFINE r == drivers[d]
<1>1. TypeOK /\ OutFits
  BY DEF IInv
<1>2. /\ r \in Walk /\ r.pc = "mark"
      /\ resume' = r.batch \cup r.queue /\ resume' \in SUBSET Nodes
  BY <1>1, MarkMoves
<1>3. PICK n \in Walk : /\ drivers' = [drivers EXCEPT ![d] = n] /\ Fit(n)
                        /\ n.pc = "finish" /\ n.out = "PAUSED"
  BY <1>1, MarkMoves
<1>4. UNCHANGED <<status, approvals, people, last, excused, ran>>
  BY DEF Mark
<1>5. /\ drivers'[d] = n
      /\ \A e \in Drivers \ {d} :
                /\ drivers'[e] = drivers[e]
                /\ Walking(e)' <=> Walking(e)
                /\ Active(e)' <=> Active(e)
                /\ Engaged(e)' <=> Engaged(e)
                /\ Asked(e)' <=> Asked(e)
                /\ Answering(e)' <=> Answering(e)
  BY <1>1, <1>3, OneMoves
<1>6. /\ Walking(d) /\ Engaged(d) /\ ~Asked(d) /\ ~Answering(d)
      /\ Active(d)' /\ ~Walking(d)' /\ ~Engaged(d)' /\ ~Asked(d)' /\ ~Answering(d)'
  BY <1>2, <1>3, <1>5 DEF Walking, Engaged, Asked, Answering, Active
<1>7. Open' = Open /\ Lax' = Lax /\ Live' = Live
  BY <1>4 DEF Open, Lax, Live
<1>8. TypeOK' /\ OutFits'
  <2>1. drivers' \in [Drivers -> {Idle} \cup Walk \cup Answer] /\ OutFits'
    BY <1>1, <1>3, DriversStep
  <2>2. (people \in [People -> {Idle} \cup Call])'
    BY <1>1, <1>4, PeopleStep
  <2>3. resume' = None \/ resume' \subseteq Nodes
    BY <1>2
  <2>4. QED
    BY <1>1, <1>4, <2>1, <2>2, <2>3, TypesStep DEF TypeOK
<1>9. OneEngaged'
  <2> SUFFICES ASSUME Lax PROVE OneEngaged'
    BY <1>7 DEF OneEngaged
  <2>1. /\ \A e \in Drivers : Engaged(e) => e = d
        /\ status # "WAITING_APPROVAL"
    BY <1>6 DEF IInv, OneEngaged
  <2>2. \A e \in Drivers : ~Engaged(e)'
    BY <1>5, <1>6, <2>1
  <2>3. QED
    BY <1>4, <2>1, <2>2 DEF OneEngaged
<1>10. AskedIsOpen' /\ WaitingIsAnswerable'
  <2>1. AskedIsOpen'
    BY <1>4, <1>5, <1>6, <1>7 DEF IInv, AskedIsOpen
  <2>2. status = "WAITING_APPROVAL" /\ Lax => Open # {} \/ \E e \in Drivers : Answering(e)
    BY Answerable DEF IInv
  <2>3. WaitingIsAnswerable'
    BY <1>4, <1>5, <1>6, <1>7, <2>2, Answerable
  <2>4. QED
    BY <2>1, <2>3
<1>11. OneToken' /\ NothingLost'
  <2> SUFFICES ASSUME Live PROVE OneToken' /\ NothingLost'
    BY <1>7 DEF OneToken, NothingLost
  <2>1. Open = {} /\ \A e \in Drivers : ~Answering(e)
    BY <1>6, Token
  <2>2. \A e \in Drivers : ~Answering(e)'
    BY <1>5, <1>6, <2>1
  <2>3. OneToken'
    BY <1>7, <2>1, <2>2 DEF OneToken
  <2>4. Covers(resume)'
    <3>1. PICK Q : Q = r.batch \cup r.queue
      OBVIOUS
    <3>2. Covers(Q)
      BY <1>2, <3>1 DEF IInv, NothingLost, WorkCovers
    <3>3. Covers(Q)'
      BY <1>4, <3>2, CoversGrows
    <3>4. resume' = Q
      BY <1>2, <3>1
    <3>5. QED
      BY <3>3, <3>4 DEF Covers
  <2>5. \A e \in Drivers : WorkCovers(e)'
    <3>1. WorkCovers(d)'
      BY <1>3, <1>5 DEF WorkCovers
    <3>2. ASSUME NEW e \in Drivers \ {d} PROVE WorkCovers(e)'
      BY <1>1, <1>4, <1>5, WorkStays DEF IInv, NothingLost, TypeOK
    <3>3. QED
      BY <3>1, <3>2
  <2>6. QED
    BY <1>7, <2>1, <2>2, <2>3, <2>4, <2>5 DEF NothingLost
<1>12. EndedWell'
  BY <1>4, <1>5, <1>6, <1>7 DEF IInv, EndedWell
<1>13. QED
  BY <1>8, <1>9, <1>10, <1>11, <1>12 DEF IInv

\* It asks for an approval, which is then the only one open.
LEMMA AskApprovalKeeps ==
    ASSUME IInv, NEW d \in Drivers, AskApproval(d)
    PROVE  IInv'
<1> DEFINE r == drivers[d]
<1>0. PICK k : k = Len(approvals) + 1
  OBVIOUS
<1>1. TypeOK /\ OutFits
  BY DEF IInv
<1>2. r \in Walk /\ r.pc = "running"
  BY <1>1, AskApprovalMoves
<1>3. PICK n \in Walk :
        /\ drivers' = [drivers EXCEPT ![d] = n] /\ Fit(n)
        /\ (n.pc = "finish" /\ r.queue \subseteq r.done) \/ n.pc = "branches"
        /\ n.out = "WAITING_APPROVAL" /\ n.batch = r.batch
        /\ n.queue = r.queue /\ n.done = r.done
  BY <1>1, AskApprovalMoves
<1>4. UNCHANGED <<status, resume, people, last, excused, ran>>
  BY DEF AskApproval
<1>5. PICK h \in Humans :
        /\ r.batch = {h}
        /\ approvals' = Append(approvals, [step |-> h, state |-> "PENDING", pending |-> {}])
  BY <1>1, AskApprovalMoves
<1>6. /\ drivers'[d] = n
      /\ \A e \in Drivers \ {d} :
                /\ drivers'[e] = drivers[e]
                /\ Walking(e)' <=> Walking(e)
                /\ Active(e)' <=> Active(e)
                /\ Engaged(e)' <=> Engaged(e)
                /\ Asked(e)' <=> Asked(e)
                /\ Answering(e)' <=> Answering(e)
  BY <1>1, <1>3, OneMoves
<1>7. /\ Walking(d) /\ Engaged(d) /\ ~Asked(d) /\ Active(d)
      /\ Active(d)' /\ Engaged(d)' /\ Asked(d)' /\ ~Answering(d)'
  BY <1>2, <1>3, <1>6 DEF Walking, Engaged, Asked, Answering, Active
<1>8. /\ approvals' \in Seq(Request) /\ Len(approvals') = Len(approvals) + 1
      /\ approvals'[k] = [step |-> h, state |-> "PENDING", pending |-> {}]
      /\ Open' = Open \cup {k}
  BY <1>0, <1>1, <1>5, AskedRequest
<1>9. Lax' = Lax /\ Live' = Live /\ Open' # {}
  BY <1>4, <1>8 DEF Lax, Live
<1>10. TypeOK' /\ OutFits'
  <2>1. drivers' \in [Drivers -> {Idle} \cup Walk \cup Answer] /\ OutFits'
    BY <1>1, <1>3, DriversStep
  <2>2. (people \in [People -> {Idle} \cup Call])'
    BY <1>1, <1>4, <1>8, PeopleStep
  <2>3. QED
    BY <1>1, <1>4, <1>8, <2>1, <2>2, TypesStep DEF TypeOK
<1>11. OneEngaged'
  BY <1>4, <1>6, <1>7, <1>9 DEF IInv, OneEngaged
<1>12. AskedIsOpen' /\ WaitingIsAnswerable'
  BY <1>9, Answerable DEF AskedIsOpen
<1>13. OneToken' /\ NothingLost'
  <2> SUFFICES ASSUME Live PROVE OneToken' /\ NothingLost'
    BY <1>9 DEF OneToken, NothingLost
  <2>1. /\ Open = {} /\ resume = None
        /\ \A e \in Drivers : ~Answering(e) /\ (Engaged(e) => e = d)
    BY <1>7, Token
  <2>2. Open' = {k} /\ \A e \in Drivers : ~Answering(e)' /\ (Engaged(e)' => e = d)
    BY <1>6, <1>7, <1>8, <2>1
  <2>3. OneToken'
    BY <1>4, <1>7, <2>1, <2>2 DEF OneToken
  <2>4. /\ r.done \subseteq ran /\ Covers(r.queue \cup r.done)
        /\ Targets(r.done \ {h}) \subseteq r.done \cup r.queue
    BY <1>2, <1>5 DEF IInv, NothingLost, WorkCovers
  <2>5. \A e \in Drivers : WorkCovers(e)'
    <3>1. WorkCovers(d)'
      <4>1. Covers(n.queue \cup n.done)'
        BY <1>3, <1>4, <2>4, CoversGrows
      <4>2. QED
        BY <1>3, <1>4, <1>5, <1>6, <2>4, <4>1 DEF WorkCovers
    <3>2. ASSUME NEW e \in Drivers \ {d} PROVE WorkCovers(e)'
      BY <1>1, <1>4, <1>6, WorkStays DEF IInv, NothingLost, TypeOK
    <3>3. QED
      BY <3>1, <3>2
  <2>6. /\ \/ \E e \in Drivers : drivers'[e].pc = "branches"
           \/ Covers(Targets({approvals[k].step}) \cup approvals[k].pending)'
    <3>1. CASE n.pc = "branches"
      BY <1>6, <3>1
    <3>2. CASE r.queue \subseteq r.done
      <4>1. Targets(r.done) \subseteq Targets(r.done \ {h}) \cup Targets({h})
        <5>1. r.done \subseteq (r.done \ {h}) \cup {h}
          OBVIOUS
        <5>2. QED
          BY <5>1, TargetsSplit
      <4>2. Targets(r.done) \subseteq r.done \cup Targets({h})
        BY <2>4, <3>2, <4>1
      <4>3. Covers(Targets({h}))
        <5>1. r.done \in SUBSET Nodes
          BY <1>2 DEF Walk
        <5>2. QED
          BY <2>4, <3>2, <4>2, <5>1, Peel
      <4>4. Targets({approvals'[k].step}) \cup approvals'[k].pending = Targets({h})
        BY <1>8
      <4>5. QED
        BY <1>4, <4>3, <4>4 DEF Covers
    <3>3. QED
      BY <1>3, <3>1, <3>2
  <2>7. \A e \in Drivers : drivers'[e].pc = "branches" => approvals'[k].step \in drivers'[e].batch
    <3>1. \A e \in Drivers : drivers'[e].pc = "branches" => Engaged(e)'
      BY DEF Engaged, Walking
    <3>2. drivers'[d].batch = {h}
      BY <1>3, <1>5, <1>6
    <3>3. approvals'[k].step = h
      BY <1>8
    <3>4. QED
      BY <2>2, <3>1, <3>2, <3>3
  <2>8. QED
    BY <1>4, <2>1, <2>2, <2>3, <2>5, <2>6, <2>7 DEF NothingLost
<1>14. EndedWell'
  BY <1>4, <1>6, <1>7, <1>9 DEF IInv, EndedWell
<1>15. QED
  BY <1>10, <1>11, <1>12, <1>13, <1>14 DEF IInv

\* It writes the branches that were ready to the request.
LEMMA BranchesKeeps ==
    ASSUME IInv, NEW d \in Drivers, Branches(d)
    PROVE  IInv'
<1> DEFINE r == drivers[d]
<1>1. TypeOK /\ OutFits
  BY DEF IInv
<1>2. r \in Walk /\ r.pc = "branches"
  BY <1>1, BranchesMoves
<1>3. PICK n \in Walk :
        /\ drivers' = [drivers EXCEPT ![d] = n] /\ Fit(n)
        /\ n.pc = "finish" /\ n.out = "WAITING_APPROVAL"
  BY <1>1, BranchesMoves
<1>4. UNCHANGED <<status, resume, people, last, excused, ran>>
  BY DEF Branches
<1>5. /\ approvals' \in Seq(Request) /\ Len(approvals') = Len(approvals)
      /\ Open' = Open
      /\ \A i \in DOMAIN approvals : approvals'[i].step = approvals[i].step
      /\ \/ \A i \in Open : approvals[i].step \notin r.batch
         \/ \E i \in Open : /\ approvals[i].step \in r.batch
                            /\ approvals'[i].pending = r.queue \ r.done
  BY <1>1, BranchesRequest
<1>6. /\ drivers'[d] = n
      /\ \A e \in Drivers \ {d} :
                /\ drivers'[e] = drivers[e]
                /\ Walking(e)' <=> Walking(e)
                /\ Active(e)' <=> Active(e)
                /\ Engaged(e)' <=> Engaged(e)
                /\ Asked(e)' <=> Asked(e)
                /\ Answering(e)' <=> Answering(e)
  BY <1>1, <1>3, OneMoves
<1>7. /\ Walking(d) /\ Engaged(d) /\ Asked(d) /\ Active(d)
      /\ Active(d)' /\ Engaged(d)' /\ Asked(d)' /\ ~Answering(d)' /\ ~Walking(d)'
  BY <1>2, <1>3, <1>6 DEF Walking, Engaged, Asked, Answering, Active
<1>8. Lax' = Lax /\ Live' = Live
  BY <1>4 DEF Lax, Live
<1>9. TypeOK' /\ OutFits'
  <2>1. drivers' \in [Drivers -> {Idle} \cup Walk \cup Answer] /\ OutFits'
    BY <1>1, <1>3, DriversStep
  <2>2. (people \in [People -> {Idle} \cup Call])'
    BY <1>1, <1>4, <1>5, PeopleStep
  <2>3. QED
    BY <1>1, <1>4, <1>5, <2>1, <2>2, TypesStep DEF TypeOK
<1>10. OneEngaged'
  BY <1>4, <1>6, <1>7, <1>8 DEF IInv, OneEngaged
<1>11. AskedIsOpen' /\ WaitingIsAnswerable'
  <2>1. AskedIsOpen'
    BY <1>4, <1>5, <1>7, <1>8 DEF IInv, AskedIsOpen
  <2>2. status = "WAITING_APPROVAL" /\ Lax => FALSE
    BY <1>7 DEF IInv, OneEngaged
  <2>3. WaitingIsAnswerable'
    BY <1>4, <1>8, <2>2, Answerable
  <2>4. QED
    BY <2>1, <2>3
<1>12. OneToken' /\ NothingLost'
  <2> SUFFICES ASSUME Live PROVE OneToken' /\ NothingLost'
    BY <1>8 DEF OneToken, NothingLost
  <2>1. /\ resume = None
        /\ \A e \in Drivers : ~Answering(e) /\ (Engaged(e) => e = d)
        /\ \A i, j \in Open : i = j
    BY <1>7, Token DEF IInv, OneToken
  <2>2. \A e \in Drivers : ~Answering(e)' /\ (Engaged(e)' => e = d)
    BY <1>6, <1>7, <2>1
  <2>3. OneToken'
    BY <1>4, <1>5, <1>7, <2>1, <2>2 DEF OneToken
  <2>4. /\ r.done \subseteq ran /\ Covers(r.queue \cup r.done)
        /\ Targets(r.done \ r.batch) \subseteq r.done \cup r.queue
        /\ \A i \in Open : approvals[i].step \in r.batch
    BY <1>2 DEF IInv, NothingLost, WorkCovers
  <2>5. \A e \in Drivers : WorkCovers(e)'
    <3>1. WorkCovers(d)'
      BY <1>3, <1>6 DEF WorkCovers
    <3>2. ASSUME NEW e \in Drivers \ {d} PROVE WorkCovers(e)'
      BY <1>1, <1>4, <1>6, WorkStays DEF IInv, NothingLost, TypeOK
    <3>3. QED
      BY <3>1, <3>2
  <2>6. ASSUME NEW i \in Open
        PROVE  Covers(Targets({approvals[i].step}) \cup approvals[i].pending)'
    <3> DEFINE P == r.queue \ r.done
    <3>1. /\ approvals'[i].step = approvals[i].step /\ approvals[i].step \in r.batch
          /\ approvals'[i].pending = P /\ approvals[i].step \in Humans
      BY <1>1, <1>5, <2>1, <2>4, RequestTypes DEF Request
    <3>2. r.batch = {approvals[i].step}
      BY <1>1, <1>2, <3>1 DEF OutFits, Fit
    <3>3. Targets(r.done) \subseteq Targets(r.done \ r.batch) \cup Targets(r.batch)
      <4>1. r.done \subseteq (r.done \ r.batch) \cup r.batch
        OBVIOUS
      <4>2. QED
        BY <4>1, TargetsSplit
    <3>4. Targets(r.done) \subseteq r.done \cup (Targets(r.batch) \cup P)
      BY <2>4, <3>3
    <3>5. Covers(Targets(r.batch) \cup P)
      <4> DEFINE R == Targets(r.batch) \cup P
      <4>1. r.done \in SUBSET Nodes /\ r.queue \subseteq r.done \cup R
        BY <1>2 DEF Walk
      <4>2. Targets(r.done) \subseteq r.done \cup R
        BY <3>4
      <4> HIDE DEF R
      <4>3. Covers(R)
        BY <2>4, <4>1, <4>2, Peel
      <4>4. QED
        BY <4>3 DEF R
    <3>6. Targets({approvals'[i].step}) \cup approvals'[i].pending = Targets(r.batch) \cup P
      BY <3>1, <3>2
    <3> HIDE DEF P
    <3>7. QED
      BY <1>4, <3>5, <3>6 DEF Covers
  <2>7. \A e \in Drivers : drivers'[e].pc # "branches"
    <3>1. \A e \in Drivers : drivers'[e].pc = "branches" => Engaged(e)'
      BY DEF Engaged, Walking
    <3>2. QED
      BY <1>3, <1>6, <2>2, <3>1
  <2>8. QED
    BY <1>4, <1>5, <2>1, <2>2, <2>3, <2>5, <2>6, <2>7 DEF NothingLost
<1>13. EndedWell'
  BY <1>4, <1>6, <1>7, <1>8 DEF IInv, EndedWell
<1>14. QED
  BY <1>9, <1>10, <1>11, <1>12, <1>13 DEF IInv

----------------------------------------------------------------------------
(* The end of a walk and the handler of a decision                         *)

LEMMA FinishKeeps ==
    ASSUME IInv, NEW d \in Drivers, Finish(d)
    PROVE  IInv'
<1> DEFINE r == drivers[d]
<1>1. TypeOK /\ OutFits
  BY DEF IInv
<1>2. r \in Walk /\ r.pc = "finish"
  BY <1>1, DriverTypes DEF Finish, Active
<1>3. /\ drivers' = [drivers EXCEPT ![d] = Idle]
      /\ status' = Settle(r.out) /\ last' = r.out
      /\ UNCHANGED <<resume, approvals, people, ran, excused>>
  BY DEF Finish
<1>4. /\ drivers'[d] = Idle
      /\ \A e \in Drivers \ {d} :
                /\ drivers'[e] = drivers[e]
                /\ Walking(e)' <=> Walking(e)
                /\ Active(e)' <=> Active(e)
                /\ Engaged(e)' <=> Engaged(e)
                /\ Asked(e)' <=> Asked(e)
                /\ Answering(e)' <=> Answering(e)
  BY <1>1, <1>3, OneMoves
<1>5. /\ Active(d) /\ ~Walking(d) /\ ~Answering(d)
      /\ ~Active(d)' /\ ~Walking(d)' /\ ~Engaged(d)' /\ ~Asked(d)' /\ ~Answering(d)'
  BY <1>2, <1>4 DEF Walking, Engaged, Asked, Answering, Active, Idle
<1>6. /\ status' \in Statuses
      /\ status' # status =>
           /\ status \in {"RUNNING", "WAITING_APPROVAL"} /\ Engaged(d)
           /\ \/ (status' = "COMPLETED" /\ r.out = "SUCCESS")
              \/ (status' = "WAITING_APPROVAL" /\ Asked(d))
              \/ status' = "FAILED"
  <2>1. r.out \in Outcomes /\ status \in Statuses
    BY <1>1, <1>2 DEF Walk, TypeOK
  <2>2. QED
    BY <1>2, <1>3, <2>1 DEF Settle, MaySettle, Outcomes, Statuses, Engaged, Asked
<1>7. Open' = Open /\ Lax' = Lax /\ Live' = Live
  BY <1>3, <1>6 DEF Open, Lax, Live
<1>8. TypeOK' /\ OutFits'
  <2>1. drivers' \in [Drivers -> {Idle} \cup Walk \cup Answer] /\ OutFits'
    BY <1>1, <1>3, DriversStep, FitIdle
  <2>2. (people \in [People -> {Idle} \cup Call])'
    BY <1>1, <1>3, PeopleStep
  <2>3. last' \in Outcomes
    BY <1>2, <1>3 DEF Walk
  <2>4. QED
    BY <1>1, <1>3, <1>6, <2>1, <2>2, <2>3, TypesStep DEF TypeOK
<1>9. OneEngaged'
  <2> SUFFICES ASSUME Lax PROVE OneEngaged'
    BY <1>7 DEF OneEngaged
  <2>1. /\ \A e, f \in Drivers : Engaged(e) /\ Engaged(f) => e = f
        /\ status = "WAITING_APPROVAL" \/ resume # None => \A e \in Drivers : ~Engaged(e)
        /\ status = "WAITING_APPROVAL" => resume = None
    BY DEF IInv, OneEngaged
  <2>2. \A e \in Drivers : Engaged(e)' => Engaged(e) /\ e # d
    BY <1>4, <1>5
  <2>3. Engaged(d) => resume = None /\ \A e \in Drivers : ~Engaged(e)'
    BY <2>1, <2>2
  <2>4. QED
    BY <1>3, <1>6, <2>1, <2>2, <2>3 DEF OneEngaged
<1>10. AskedIsOpen'
  <2> SUFFICES ASSUME Lax, NEW e \in Drivers, Asked(e)',
                      status' \in {"RUNNING", "PAUSED", "WAITING_APPROVAL"}
               PROVE  Open' # {}
    BY <1>7 DEF AskedIsOpen
  <2>1. Asked(e) /\ status \in {"RUNNING", "PAUSED", "WAITING_APPROVAL"}
    BY <1>4, <1>5, <1>6
  <2>2. QED
    BY <1>7, <2>1 DEF IInv, AskedIsOpen
<1>11. WaitingIsAnswerable'
  <2> SUFFICES ASSUME Lax, status' = "WAITING_APPROVAL"
               PROVE  Open' # {} \/ \E e \in Drivers : Answering(e)'
    BY <1>7, Answerable
  <2>1. CASE status' = status
    <3>1. Open # {} \/ \E e \in Drivers : Answering(e)
      BY <2>1, Answerable DEF IInv
    <3>2. QED
      BY <1>4, <1>5, <1>7, <3>1
  <2>2. CASE status' # status
    BY <1>6, <1>7, <2>2 DEF IInv, AskedIsOpen
  <2>3. QED
    BY <2>1, <2>2
<1>12. OneToken' /\ NothingLost' /\ EndedWell'
  <2> SUFFICES ASSUME Live PROVE OneToken' /\ NothingLost' /\ EndedWell'
    BY <1>7 DEF OneToken, NothingLost, EndedWell
  <2>1. Engaged(d) => \A e \in Drivers : ~Answering(e) /\ (Engaged(e) => e = d)
    BY Token
  <2>2. OneToken'
    <3>1. \A e \in Drivers : Answering(e)' => status' = "WAITING_APPROVAL"
      BY <1>4, <1>5, <1>6, <2>1 DEF IInv, OneToken
    <3>2. QED
      BY <1>3, <1>4, <1>5, <1>7, <3>1 DEF IInv, OneToken
  <2>3. NothingLost'
    <3>1. \A e \in Drivers : WorkCovers(e)'
      <4>1. WorkCovers(d)'
        BY <1>4 DEF WorkCovers, Idle
      <4>2. ASSUME NEW e \in Drivers \ {d} PROVE WorkCovers(e)'
        BY <1>1, <1>3, <1>4, WorkStays DEF IInv, NothingLost, TypeOK
      <4>3. QED
        BY <4>1, <4>2
    <3>2. \A i \in Open : \/ \E e \in Drivers : drivers'[e].pc = "branches"
                         \/ Covers(Targets({approvals[i].step}) \cup approvals[i].pending)'
      <4> SUFFICES ASSUME NEW i \in Open, \A e \in Drivers : drivers'[e].pc # "branches"
                   PROVE  Covers(Targets({approvals[i].step}) \cup approvals[i].pending)'
        OBVIOUS
      <4>1. \A e \in Drivers : drivers[e].pc # "branches"
        BY <1>2, <1>4
      <4>2. Covers(Targets({approvals[i].step}) \cup approvals[i].pending)
        BY <4>1 DEF IInv, NothingLost
      <4>3. QED
        BY <1>3, <4>2 DEF Covers
    <3>3. \A i \in Open, e \in Drivers :
             drivers'[e].pc = "branches" => approvals'[i].step \in drivers'[e].batch
      BY <1>3, <1>4 DEF IInv, NothingLost, Idle
    <3>4. ASSUME NEW e \in Drivers, Answering(e)'
          PROVE  Covers(Targets({drivers[e].step}) \cup drivers[e].pending)'
      <4>1. drivers'[e] = drivers[e] /\ Answering(e)
        BY <1>4, <1>5, <3>4
      <4>2. Covers(Targets({drivers[e].step}) \cup drivers[e].pending)
        BY <4>1 DEF IInv, NothingLost
      <4>3. QED
        BY <1>3, <4>1, <4>2 DEF Covers
    <3>5. resume' # None => Covers(resume)'
      BY <1>3 DEF IInv, NothingLost, Covers
    <3>6. QED
      BY <1>7, <3>1, <3>2, <3>3, <3>4, <3>5 DEF NothingLost
  <2>4. EndedWell'
    <3>1. r.out = "SUCCESS" => ran = Nodes
      BY <1>2 DEF IInv, NothingLost, WorkCovers
    <3>2. last' = "SUCCESS" => ran' = Nodes
      BY <1>3, <3>1
    <3>3. status' = "COMPLETED" => ran' = Nodes /\ \A e \in Drivers : ~Walking(e)'
      <4>1. CASE status' = status
        BY <1>3, <1>4, <1>5, <4>1 DEF IInv, EndedWell
      <4>2. CASE status' # status
        <5>1. \A e \in Drivers : ~Walking(e)'
          BY <1>4, <1>5, <1>6, <2>1, <4>2, Kinds
        <5>2. QED
          BY <1>3, <1>6, <3>1, <4>2, <5>1
      <4>3. QED
        BY <4>1, <4>2
    <3>4. QED
      BY <3>2, <3>3 DEF EndedWell
  <2>5. QED
    BY <2>2, <2>3, <2>4
<1>13. QED
  BY <1>8, <1>9, <1>10, <1>11, <1>12 DEF IInv

LEMMA ResumeReadKeeps ==
    ASSUME IInv, NEW d \in Drivers, ResumeRead(d)
    PROVE  IInv'
<1> DEFINE r == drivers[d]
<1>1. TypeOK /\ OutFits
  BY DEF IInv
<1>2. r \in Answer /\ r.pc = "decided"
  BY <1>1, ResumeMoves
<1>3. PICK n \in {Idle} \cup Answer :
        /\ drivers' = [drivers EXCEPT ![d] = n] /\ Fit(n)
        /\ IF RunWaits THEN n.pc = "resuming" /\ n.step = r.step /\ n.pending = r.pending
                       ELSE n = Idle
  BY <1>1, ResumeMoves
<1>4. UNCHANGED <<status, resume, approvals, people, ran, last, excused>>
  BY DEF ResumeRead, row
<1>5. /\ drivers'[d] = n
      /\ \A e \in Drivers \ {d} :
                /\ drivers'[e] = drivers[e]
                /\ Walking(e)' <=> Walking(e)
                /\ Active(e)' <=> Active(e)
                /\ Engaged(e)' <=> Engaged(e)
                /\ Asked(e)' <=> Asked(e)
                /\ Answering(e)' <=> Answering(e)
  BY <1>1, <1>3, OneMoves
<1>6. /\ Answering(d) /\ ~Active(d) /\ ~Walking(d) /\ ~Engaged(d) /\ ~Asked(d)
      /\ ~Active(d)' /\ ~Walking(d)' /\ ~Engaged(d)' /\ ~Asked(d)'
      /\ Answering(d)' <=> status = "WAITING_APPROVAL"
  BY <1>2, <1>3, <1>5 DEF Walking, Engaged, Asked, Answering, Active, Idle, Answer, RunWaits
<1>7. Open' = Open /\ Lax' = Lax /\ Live' = Live
  BY <1>4 DEF Open, Lax, Live
<1>8. TypeOK' /\ OutFits'
  <2>1. drivers' \in [Drivers -> {Idle} \cup Walk \cup Answer] /\ OutFits'
    BY <1>1, <1>3, DriversStep
  <2>2. (people \in [People -> {Idle} \cup Call])'
    BY <1>1, <1>4, PeopleStep
  <2>3. QED
    BY <1>1, <1>4, <2>1, <2>2, TypesStep DEF TypeOK
<1>9. OneEngaged' /\ AskedIsOpen' /\ EndedWell'
  BY <1>4, <1>5, <1>6, <1>7 DEF IInv, OneEngaged, AskedIsOpen, EndedWell
<1>10. WaitingIsAnswerable'
  BY <1>4, <1>6, Answerable
<1>11. OneToken'
  BY <1>4, <1>5, <1>6, <1>7 DEF IInv, OneToken
<1>12. NothingLost'
  <2> SUFFICES ASSUME Live PROVE NothingLost'
    BY <1>7 DEF NothingLost
  <2>1. /\ status = "WAITING_APPROVAL" /\ resume = None /\ Open = {}
        /\ \A e \in Drivers : ~Engaged(e) /\ (Answering(e) => e = d)
    BY <1>6, Token
  <2>2. \A e \in Drivers : WorkCovers(e)'
    <3>1. WorkCovers(d)'
      BY <1>5, <1>6 DEF WorkCovers, Active, Walking
    <3>2. ASSUME NEW e \in Drivers \ {d} PROVE WorkCovers(e)'
      BY <1>1, <1>4, <1>5, WorkStays DEF IInv, NothingLost, TypeOK
    <3>3. QED
      BY <3>1, <3>2
  <2>3. Covers(Targets({drivers[d].step}) \cup drivers[d].pending)'
    <3>1. Covers(Targets({drivers[d].step}) \cup drivers[d].pending)
      BY <1>6 DEF IInv, NothingLost
    <3>2. drivers'[d].step = drivers[d].step /\ drivers'[d].pending = drivers[d].pending
      BY <1>3, <1>5, <2>1 DEF RunWaits
    <3>3. QED
      BY <1>4, <3>1, <3>2 DEF Covers
  <2>4. \A e \in Drivers : Answering(e)' => e = d
    BY <1>5, <2>1
  <2>5. QED
    BY <1>4, <1>7, <2>1, <2>2, <2>3, <2>4 DEF NothingLost
<1>13. QED
  BY <1>8, <1>9, <1>10, <1>11, <1>12 DEF IInv

\* A rejection fails the run.
LEMMA RejectKeeps ==
    ASSUME IInv, NEW d \in Drivers, ResumeWrite(d), drivers' = [drivers EXCEPT ![d] = Idle],
           status' = Settle("FAILED"), last' = "FAILED", excused' = excused
    PROVE  IInv'
<1>1. TypeOK /\ OutFits
  BY DEF IInv
<1>2. drivers[d] \in Answer /\ drivers[d].pc = "resuming"
  BY <1>1, ResumeMoves
<1>3. UNCHANGED <<resume, approvals, people, ran>>
  BY DEF ResumeWrite
<1>4. /\ drivers'[d] = Idle
      /\ \A e \in Drivers \ {d} :
                /\ drivers'[e] = drivers[e]
                /\ Walking(e)' <=> Walking(e)
                /\ Active(e)' <=> Active(e)
                /\ Engaged(e)' <=> Engaged(e)
                /\ Asked(e)' <=> Asked(e)
                /\ Answering(e)' <=> Answering(e)
  BY <1>1, OneMoves
<1>5. /\ Answering(d) /\ ~Active(d) /\ ~Walking(d) /\ ~Engaged(d) /\ ~Asked(d)
      /\ ~Active(d)' /\ ~Walking(d)' /\ ~Engaged(d)' /\ ~Asked(d)' /\ ~Answering(d)'
  BY <1>2, <1>4 DEF Walking, Engaged, Asked, Answering, Active, Idle
<1>6. /\ status' \in Statuses /\ status' # "WAITING_APPROVAL"
      /\ status' = status \/ status' = "FAILED"
      /\ status = "CANCELLED" <=> status' = "CANCELLED"
      /\ status = "WAITING_APPROVAL" => status' = "FAILED"
  BY <1>1 DEF Settle, MaySettle, Statuses, TypeOK
<1>7. Open' = Open /\ Lax' = Lax /\ Live' = Live
  BY <1>3, <1>6 DEF Open, Lax, Live
<1>8. TypeOK' /\ OutFits'
  <2>1. drivers' \in [Drivers -> {Idle} \cup Walk \cup Answer] /\ OutFits'
    BY <1>1, DriversStep, FitIdle
  <2>2. (people \in [People -> {Idle} \cup Call])'
    BY <1>1, <1>3, PeopleStep
  <2>3. QED
    BY <1>1, <1>3, <1>6, <2>1, <2>2, TypesStep DEF TypeOK, Outcomes
<1>9. OneEngaged' /\ AskedIsOpen' /\ WaitingIsAnswerable'
  <2>1. OneEngaged'
    BY <1>3, <1>4, <1>5, <1>6, <1>7 DEF IInv, OneEngaged
  <2>2. AskedIsOpen'
    BY <1>4, <1>5, <1>6, <1>7 DEF IInv, AskedIsOpen
  <2>3. WaitingIsAnswerable'
    BY <1>6, Answerable
  <2>4. QED
    BY <2>1, <2>2, <2>3
<1>10. OneToken' /\ NothingLost' /\ EndedWell'
  <2> SUFFICES ASSUME Live PROVE OneToken' /\ NothingLost' /\ EndedWell'
    BY <1>7 DEF OneToken, NothingLost, EndedWell
  <2>1. /\ status = "WAITING_APPROVAL" /\ resume = None /\ Open = {}
        /\ \A e \in Drivers : ~Engaged(e) /\ (Answering(e) => e = d)
    BY <1>5, Token
  <2>2. \A e \in Drivers : ~Answering(e)'
    BY <1>4, <1>5, <2>1
  <2>3. \A e \in Drivers : WorkCovers(e)'
    <3>1. WorkCovers(d)'
      BY <1>4 DEF WorkCovers, Idle
    <3>2. ASSUME NEW e \in Drivers \ {d} PROVE WorkCovers(e)'
      BY <1>1, <1>3, <1>4, WorkStays DEF IInv, NothingLost, TypeOK
    <3>3. QED
      BY <3>1, <3>2
  <2>4. OneToken' /\ NothingLost'
    BY <1>3, <1>7, <2>1, <2>2, <2>3 DEF OneToken, NothingLost
  <2>5. EndedWell'
    BY <1>6, <2>1 DEF EndedWell
  <2>6. QED
    BY <2>4, <2>5
<1>11. QED
  BY <1>8, <1>9, <1>10 DEF IInv

\* A new driver starts from what is left, where none works on the run.
LEMMA DriveKeeps ==
    ASSUME IInv, NEW d \in Drivers, ~Active(d), NEW S \in SUBSET Nodes,
           drivers' = [drivers EXCEPT ![d] = Drive(S)], status' = "RUNNING",
           resume' = None \/ resume' = resume, excused \subseteq excused',
           UNCHANGED <<approvals, ran, last>>, (people \in [People -> {Idle} \cup Call])',
           Lax' => /\ excused' = excused /\ resume' = None /\ status # "CANCELLED"
                   /\ \A e \in Drivers : ~Engaged(e),
           Live /\ Lax' => Open = {} /\ Covers(S) /\ \A e \in Drivers : Answering(e) => e = d
    PROVE  IInv'
<1>1. TypeOK /\ OutFits
  BY DEF IInv
<1>2. /\ Drive(S) \in Walk /\ Fit(Drive(S))
      /\ Drive(S).pc = "loop" /\ Drive(S).out = "SUCCESS" /\ Drive(S).queue = S
      /\ Drive(S).done = {} /\ Drive(S).batch = {}
  BY DriveIs
<1>3. /\ drivers'[d] = Drive(S)
      /\ \A e \in Drivers \ {d} :
                /\ drivers'[e] = drivers[e]
                /\ Walking(e)' <=> Walking(e)
                /\ Active(e)' <=> Active(e)
                /\ Engaged(e)' <=> Engaged(e)
                /\ Asked(e)' <=> Asked(e)
                /\ Answering(e)' <=> Answering(e)
  BY <1>1, OneMoves
<1>4. Active(d)' /\ ~Asked(d)' /\ ~Answering(d)'
  BY <1>2, <1>3 DEF Walking, Asked, Answering, Active
<1>5. Open' = Open /\ (Lax' => Lax) /\ (Live' => Live /\ Lax')
  BY DEF Open, Lax, Live
<1>6. TypeOK' /\ OutFits'
  <2>1. drivers' \in [Drivers -> {Idle} \cup Walk \cup Answer] /\ OutFits'
    BY <1>1, <1>2, DriversStep
  <2>2. QED
    BY <1>1, <2>1, TypesStep DEF TypeOK, Statuses
<1>7. OneEngaged' /\ AskedIsOpen' /\ WaitingIsAnswerable'
  <2>1. OneEngaged'
    BY <1>3 DEF OneEngaged
  <2>2. AskedIsOpen'
    BY <1>3, <1>4, Kinds DEF AskedIsOpen
  <2>3. WaitingIsAnswerable'
    BY Answerable
  <2>4. QED
    BY <2>1, <2>2, <2>3
<1>8. OneToken' /\ NothingLost'
  <2> SUFFICES ASSUME Live, Live', Lax' PROVE OneToken' /\ NothingLost'
    BY <1>5 DEF OneToken, NothingLost
  <2>1. Open' = {} /\ \A e \in Drivers : ~Answering(e)'
    BY <1>3, <1>4, <1>5
  <2>2. OneToken'
    BY <2>1 DEF OneToken
  <2>3. \A e \in Drivers : WorkCovers(e)'
    <3>1. WorkCovers(d)'
      <4>1. Covers(S)'
        BY CoversGrows
      <4>2. Drive(S).queue \cup Drive(S).done = S /\ Targets(Drive(S).done \ Drive(S).batch) = {}
        <5>1. Drive(S).done \ Drive(S).batch = {}
          BY <1>2
        <5>2. QED
          BY <1>2, <5>1, TargetsOf
      <4>3. QED
        BY <1>2, <1>3, <4>1, <4>2 DEF WorkCovers
    <3>2. ASSUME NEW e \in Drivers \ {d} PROVE WorkCovers(e)'
      BY <1>1, <1>3, WorkStays DEF IInv, NothingLost, TypeOK
    <3>3. QED
      BY <3>1, <3>2
  <2>4. QED
    BY <2>1, <2>2, <2>3 DEF NothingLost
<1>9. EndedWell'
  BY <1>4 DEF EndedWell
<1>10. QED
  BY <1>6, <1>7, <1>8, <1>9 DEF IInv

LEMMA ResumeWriteKeeps ==
    ASSUME IInv, NEW d \in Drivers, ResumeWrite(d)
    PROVE  IInv'
<1> DEFINE r == drivers[d]
<1>1. TypeOK /\ OutFits
  BY DEF IInv
<1>2. r \in Answer /\ Answering(d) /\ ~Active(d)
  <2>1. r \in Answer /\ r.pc = "resuming"
    BY <1>1, ResumeMoves
  <2>2. QED
    BY <2>1 DEF Answering, Active, Walking
<1>3. UNCHANGED <<resume, approvals, people, ran>>
  BY DEF ResumeWrite
<1>4. ASSUME NEW S \in SUBSET Nodes,
             S = Targets({r.step}) \cup r.pending,
             drivers' = [drivers EXCEPT ![d] = Drive(S)],
             status' = "RUNNING", last' = last,
             excused' = IF RunWaits THEN excused ELSE excused \cup {"stale"}
      PROVE  IInv'
  <2>1. (people \in [People -> {Idle} \cup Call])'
    BY <1>1, <1>3, PeopleStep
  <2>2. Lax' => /\ excused' = excused /\ resume' = None /\ status # "CANCELLED"
                /\ \A e \in Drivers : ~Engaged(e)
    <3> SUFFICES ASSUME Lax'
                 PROVE  /\ excused' = excused /\ resume' = None /\ status # "CANCELLED"
                        /\ \A e \in Drivers : ~Engaged(e)
      OBVIOUS
    <3>1. RunWaits /\ excused' = excused /\ Lax
      BY <1>4 DEF Lax
    <3>2. QED
      BY <1>3, <3>1 DEF IInv, OneEngaged, RunWaits
  <2>3. Live => Open = {} /\ Covers(S) /\ \A e \in Drivers : Answering(e) => e = d
    BY <1>2, <1>4, Token DEF IInv, NothingLost
  <2>4. excused \subseteq excused'
    BY <1>4
  <2>5. QED
    BY <1>2, <1>3, <1>4, <2>1, <2>2, <2>3, <2>4, DriveKeeps
<1>5. CASE /\ drivers' = [drivers EXCEPT ![d] = Idle]
           /\ status' = Settle("FAILED") /\ last' = "FAILED" /\ excused' = excused
  BY <1>5, RejectKeeps
<1>6. QED
  BY <1>1, <1>4, <1>5, ResumeMoves

----------------------------------------------------------------------------
(* Controls                                                                *)

LEMMA SameDrivers ==
    ASSUME drivers' = drivers
    PROVE  \A e \in Drivers :
                /\ Walking(e)' <=> Walking(e)
                /\ Active(e)' <=> Active(e)
                /\ Engaged(e)' <=> Engaged(e)
                /\ Asked(e)' <=> Asked(e)
                /\ Answering(e)' <=> Answering(e)
BY DEF Walking, Active, Engaged, Asked, Answering

\* Nothing is lost while drivers, requests and the resume point stay.
LEMMA LostStays ==
    ASSUME IInv, UNCHANGED <<drivers, approvals, resume, ran>>, Live' => Live
    PROVE  NothingLost'
<1> SUFFICES ASSUME Live PROVE NothingLost'
  BY DEF NothingLost
<1>1. \A e \in Drivers : WorkCovers(e)'
  BY WorkStays DEF IInv, NothingLost, TypeOK
<1>2. Open' = Open /\ \A e \in Drivers : Answering(e)' <=> Answering(e)
  BY SameDrivers DEF Open
<1>3. QED
  BY <1>1, <1>2 DEF IInv, NothingLost, Covers

LEMMA PauseKeeps ==
    ASSUME IInv, Pause
    PROVE  IInv'
<1>1. /\ status = "RUNNING" /\ status' = "PAUSED"
      /\ UNCHANGED <<resume, approvals, drivers, people, ran, last, excused>>
  BY DEF Pause
<1>2. /\ Open' = Open /\ Lax' = Lax /\ Live' = Live
  BY <1>1 DEF Open, Lax, Live
<1>3. TypeOK' /\ OutFits'
  <2>1. (people \in [People -> {Idle} \cup Call])'
    BY <1>1, PeopleStep DEF IInv
  <2>2. OutFits'
    BY <1>1 DEF IInv, OutFits
  <2>3. QED
    BY <1>1, <2>1, <2>2, TypesStep DEF IInv, TypeOK, Statuses
<1>4. OneEngaged' /\ AskedIsOpen' /\ WaitingIsAnswerable'
  BY <1>1, <1>2, SameDrivers, Answerable DEF IInv, OneEngaged, AskedIsOpen
<1>5. OneToken' /\ EndedWell'
  BY <1>1, <1>2, SameDrivers DEF IInv, OneToken, EndedWell
<1>6. NothingLost'
  BY <1>1, <1>2, LostStays
<1>7. QED
  BY <1>3, <1>4, <1>5, <1>6 DEF IInv

LEMMA BeginKeeps ==
    ASSUME IInv, NEW p \in People, Begin(p)
    PROVE  IInv'
<1>1. UNCHANGED <<status, resume, approvals, drivers, ran, last, excused>>
  BY DEF Begin, row
<1>2. /\ Open' = Open /\ Lax' = Lax /\ Live' = Live
  BY <1>1 DEF Open, Lax, Live
<1>3. TypeOK' /\ OutFits'
  <2>1. people' \in [People -> {Idle} \cup Call]
    <3>1. ASSUME NEW c \in Call, people' = [people EXCEPT ![p] = c]
          PROVE  people' \in [People -> {Idle} \cup Call]
      BY <3>1 DEF IInv, TypeOK
    <3>2. CASE ReadForResume(p)
      <4>1. resume \in (SUBSET Nodes) \cup {None}
        BY DEF IInv, TypeOK
      <4>2. [pc |-> "resume", next |-> resume] \in Call
        BY <4>1 DEF Call
      <4>3. QED
        BY <3>1, <3>2, <4>2 DEF ReadForResume
    <3>3. CASE ReadForCancel(p)
      <4>1. [pc |-> "cancel"] \in Call
        BY DEF Call
      <4>2. QED
        BY <3>1, <3>3, <4>1 DEF ReadForCancel
    <3>4. CASE ReadForDecision(p)
      <4>1. PICK i \in DOMAIN approvals : people' = [people EXCEPT ![p] = [pc |-> "decide", request |-> i]]
        BY <3>4 DEF ReadForDecision
      <4>2. [pc |-> "decide", request |-> i] \in Call
        BY RequestTypes DEF Call, IInv
      <4>3. QED
        BY <3>1, <4>1, <4>2
    <3>5. QED
      BY <3>2, <3>3, <3>4 DEF Begin
  <2>2. (people \in [People -> {Idle} \cup Call])'
    BY <1>1, <2>1 DEF Call
  <2>3. OutFits'
    BY <1>1 DEF IInv, OutFits
  <2>4. QED
    BY <1>1, <2>2, <2>3, TypesStep DEF IInv, TypeOK
<1>4. OneEngaged' /\ AskedIsOpen' /\ WaitingIsAnswerable'
  BY <1>1, <1>2, SameDrivers, Answerable DEF IInv, OneEngaged, AskedIsOpen
<1>5. OneToken' /\ EndedWell'
  BY <1>1, <1>2, SameDrivers DEF IInv, OneToken, EndedWell
<1>6. NothingLost'
  BY <1>1, <1>2, LostStays
<1>7. QED
  BY <1>3, <1>4, <1>5, <1>6 DEF IInv

LEMMA ResumeRunKeeps ==
    ASSUME IInv, NEW p \in People, NEW d \in Drivers, ResumeRun(p, d)
    PROVE  IInv'
<1>1. TypeOK /\ OutFits
  BY DEF IInv
<1>2. /\ UNCHANGED <<approvals, ran, last>> /\ excused \subseteq excused'
      /\ people' = [people EXCEPT ![p] = Idle] /\ drivers[d] = Idle
  BY <1>1, ResumeRunMoves DEF ResumeRun
<1>3. (people \in [People -> {Idle} \cup Call])'
  BY <1>1, <1>2, PeopleStep
<1>4. CASE /\ status' = "COMPLETED" /\ drivers' = drivers /\ resume' = resume
           /\ excused' = {} => /\ status = "PAUSED" /\ last = "SUCCESS"
                               /\ \A e \in Drivers : ~Active(e)
           /\ excused' \subseteq {"twice"} => status = "PAUSED" /\ excused' = excused
  <2>1. /\ Open' = Open /\ (Lax' => Lax /\ status = "PAUSED")
        /\ Live' => Live /\ status = "PAUSED" /\ last = "SUCCESS" /\ \A e \in Drivers : ~Active(e)
    BY <1>2, <1>4 DEF Open, Lax, Live
  <2>2. TypeOK' /\ OutFits'
    <3>1. OutFits'
      BY <1>1, <1>4 DEF OutFits
    <3>2. QED
      BY <1>1, <1>2, <1>3, <1>4, <3>1, TypesStep DEF TypeOK, Statuses
  <2>3. OneEngaged' /\ AskedIsOpen' /\ WaitingIsAnswerable'
    BY <1>4, <2>1, SameDrivers, Answerable DEF IInv, OneEngaged, AskedIsOpen
  <2>4. OneToken'
    BY <1>4, <2>1, SameDrivers DEF IInv, OneToken
  <2>5. EndedWell'
    <3> SUFFICES ASSUME Live' PROVE ran' = Nodes /\ \A e \in Drivers : ~Walking(e)'
      BY DEF EndedWell
    <3>1. ran = Nodes
      BY <2>1 DEF IInv, EndedWell
    <3>2. QED
      BY <1>2, <1>4, <2>1, <3>1, SameDrivers DEF Active
  <2>6. NothingLost'
    BY <1>2, <1>4, <2>1, LostStays
  <2>7. QED
    BY <2>2, <2>3, <2>4, <2>5, <2>6 DEF IInv
<1>5. ASSUME NEW S \in SUBSET Nodes, status' = "RUNNING", resume' = None,
             drivers' = [drivers EXCEPT ![d] = Drive(S)],
             excused' \subseteq {"twice"} =>
                 status = "PAUSED" /\ resume = S /\ resume # None /\ excused' = excused
      PROVE  IInv'
  <2>1. Lax' => /\ excused' = excused /\ status = "PAUSED" /\ resume = S /\ resume # None
                /\ \A e \in Drivers : ~Engaged(e)
    BY <1>2, <1>5 DEF Lax, IInv, OneEngaged
  <2>2. Live /\ Lax' => Open = {} /\ Covers(S) /\ \A e \in Drivers : Answering(e) => e = d
    BY <2>1 DEF IInv, OneToken, NothingLost
  <2>3. ~Active(d)
    BY <1>2 DEF Active, Walking, Idle
  <2>4. Lax' => /\ excused' = excused /\ resume' = None /\ status # "CANCELLED"
                /\ \A e \in Drivers : ~Engaged(e)
    BY <1>5, <2>1
  <2>5. QED
    BY <1>2, <1>3, <1>5, <2>2, <2>3, <2>4, DriveKeeps
<1>6. QED
  BY <1>1, <1>4, <1>5, ResumeRunMoves

LEMMA CancelRunKeeps ==
    ASSUME IInv, NEW p \in People, CancelRun(p)
    PROVE  IInv'
<1>1. TypeOK /\ OutFits
  BY DEF IInv
<1>2. /\ status' = "CANCELLED" /\ excused \subseteq excused'
      /\ people' = [people EXCEPT ![p] = Idle]
      /\ UNCHANGED <<resume, drivers, ran, last>>
  BY DEF CancelRun, Release
<1>3. approvals' \in Seq(Request) /\ Len(approvals') = Len(approvals)
  BY <1>1, CancelledRequests DEF CancelRun
<1>4. ~Live' /\ (Lax' => Lax)
  BY <1>2 DEF Live, Lax
<1>5. TypeOK' /\ OutFits'
  <2>1. (people \in [People -> {Idle} \cup Call])'
    BY <1>1, <1>2, <1>3, PeopleStep
  <2>2. OutFits'
    BY <1>1, <1>2 DEF OutFits
  <2>3. QED
    BY <1>1, <1>2, <1>3, <2>1, <2>2, TypesStep DEF TypeOK, Statuses
<1>6. OneEngaged' /\ AskedIsOpen' /\ WaitingIsAnswerable'
  BY <1>2, <1>4, SameDrivers, Answerable DEF IInv, OneEngaged, AskedIsOpen
<1>7. OneToken' /\ NothingLost' /\ EndedWell'
  BY <1>4 DEF OneToken, NothingLost, EndedWell
<1>8. QED
  BY <1>5, <1>6, <1>7 DEF IInv

LEMMA DecideKeeps ==
    ASSUME IInv, NEW p \in People, NEW d \in Drivers, NEW decision \in Decisions,
           Decide(p, d, decision)
    PROVE  IInv'
<1>0. PICK i : i = people[p].request
  OBVIOUS
<1>1. TypeOK /\ OutFits
  BY DEF IInv
<1>2. /\ i \in DOMAIN approvals /\ drivers[d] = Idle
      /\ approvals' \in Seq(Request) /\ Len(approvals') = Len(approvals)
      /\ Open' = Open \ {i}
      /\ people' = [people EXCEPT ![p] = Idle]
  BY <1>0, <1>1, DecideMoves
<1>3. PICK n \in Answer :
        /\ drivers' = [drivers EXCEPT ![d] = n] /\ n.pc = "decided"
        /\ n.step = approvals[i].step /\ n.pending = approvals[i].pending
  BY <1>0, <1>1, DecideMoves
<1>4. UNCHANGED <<status, resume, ran, last>>
  BY DEF Decide
<1>5. /\ excused \subseteq excused'
      /\ Lax' => status \in {"WAITING_APPROVAL", "CANCELLED"}
      /\ excused' = {} => i \in Open \/ status = "CANCELLED"
  BY <1>0, <1>2 DEF Decide, Lax, Open
<1>6. /\ drivers'[d] = n
      /\ \A e \in Drivers \ {d} :
                /\ drivers'[e] = drivers[e]
                /\ Walking(e)' <=> Walking(e)
                /\ Active(e)' <=> Active(e)
                /\ Engaged(e)' <=> Engaged(e)
                /\ Asked(e)' <=> Asked(e)
                /\ Answering(e)' <=> Answering(e)
  BY <1>1, <1>3, OneMoves
<1>7. /\ ~Active(d) /\ ~Walking(d) /\ ~Engaged(d) /\ ~Asked(d) /\ ~Answering(d)
      /\ ~Active(d)' /\ ~Walking(d)' /\ ~Engaged(d)' /\ ~Asked(d)' /\ Answering(d)'
  BY <1>2, <1>3, <1>6 DEF Walking, Engaged, Asked, Answering, Active, Idle
<1>8. (Lax' => Lax) /\ (Live' => Live /\ Lax' /\ i \in Open /\ status = "WAITING_APPROVAL")
  BY <1>4, <1>5 DEF Lax, Live
<1>9. TypeOK' /\ OutFits'
  <2>1. drivers' \in [Drivers -> {Idle} \cup Walk \cup Answer] /\ OutFits'
    BY <1>1, <1>3, DriversStep, FitIdle
  <2>2. (people \in [People -> {Idle} \cup Call])'
    BY <1>1, <1>2, PeopleStep
  <2>3. QED
    BY <1>1, <1>2, <1>4, <2>1, <2>2, TypesStep DEF TypeOK
<1>10. OneEngaged' /\ AskedIsOpen' /\ WaitingIsAnswerable'
  <2>1. OneEngaged'
    BY <1>4, <1>6, <1>7, <1>8 DEF IInv, OneEngaged
  <2>2. AskedIsOpen'
    <3> SUFFICES ASSUME Lax', status # "CANCELLED", NEW e \in Drivers, Asked(e)'
                 PROVE  FALSE
      BY <1>4 DEF AskedIsOpen
    <3>1. Asked(e) /\ status = "WAITING_APPROVAL" /\ Lax
      BY <1>5, <1>6, <1>7, <1>8
    <3>2. QED
      BY <3>1, Kinds DEF IInv, OneEngaged
  <2>3. WaitingIsAnswerable'
    BY <1>7, Answerable
  <2>4. QED
    BY <2>1, <2>2, <2>3
<1>11. OneToken' /\ NothingLost' /\ EndedWell'
  <2> SUFFICES ASSUME Live' PROVE OneToken' /\ NothingLost' /\ EndedWell'
    BY DEF OneToken, NothingLost, EndedWell
  <2>1. /\ Live /\ i \in Open /\ status = "WAITING_APPROVAL" /\ Open' = {}
        /\ resume = None /\ \A e \in Drivers : ~Answering(e) /\ ~Engaged(e)
    BY <1>2, <1>8 DEF IInv, OneToken, OneEngaged, Lax, Live
  <2>2. /\ \A e \in Drivers : Answering(e)' => e = d
        /\ \A e \in Drivers : ~Engaged(e)'
    BY <1>6, <1>7, <2>1
  <2>3. OneToken'
    BY <1>4, <2>1, <2>2 DEF OneToken
  <2>4. \A e \in Drivers : WorkCovers(e)'
    <3>1. WorkCovers(d)'
      BY <1>3, <1>6 DEF WorkCovers
    <3>2. ASSUME NEW e \in Drivers \ {d} PROVE WorkCovers(e)'
      BY <1>1, <1>4, <1>6, <2>1, WorkStays DEF IInv, NothingLost, TypeOK
    <3>3. QED
      BY <3>1, <3>2
  <2>5. Covers(Targets({drivers[d].step}) \cup drivers[d].pending)'
    <3>1. \A e \in Drivers : drivers[e].pc # "branches"
      BY <2>1 DEF Engaged, Walking
    <3>2. Covers(Targets({approvals[i].step}) \cup approvals[i].pending)
      BY <2>1, <3>1 DEF IInv, NothingLost
    <3>3. drivers'[d].step = approvals[i].step /\ drivers'[d].pending = approvals[i].pending
      BY <1>3, <1>6
    <3>4. QED
      BY <1>4, <3>2, <3>3 DEF Covers
  <2>6. NothingLost'
    BY <1>4, <2>1, <2>2, <2>4, <2>5 DEF NothingLost
  <2>7. EndedWell'
    BY <1>4, <1>6, <1>7, <2>1 DEF IInv, EndedWell
  <2>8. QED
    BY <2>3, <2>6, <2>7
<1>12. QED
  BY <1>9, <1>10, <1>11 DEF IInv

\* A crash is excused, and leaves nothing running.
LEMMA CrashKeeps ==
    ASSUME IInv, Crash
    PROVE  IInv'
<1>1. /\ drivers' = [d \in Drivers |-> Idle] /\ people' = [p \in People |-> Idle]
      /\ "crash" \in excused'
      /\ UNCHANGED <<status, resume, approvals, ran, last>>
  BY DEF Crash, row
<1>2. ~Lax' /\ ~Live'
  BY <1>1 DEF Lax, Live
<1>3. OutFits'
  BY <1>1, FitIdle DEF OutFits
<1>4. TypeOK'
  BY <1>1, <1>3, TypesStep DEF IInv, TypeOK
<1>5. QED
  BY <1>2, <1>3, <1>4, Answerable
     DEF IInv, OneEngaged, AskedIsOpen, OneToken, NothingLost, EndedWell

----------------------------------------------------------------------------
(* The invariant and what follows from it                                  *)

LEMMA Initially == Init => IInv
<1> SUFFICES ASSUME Init PROVE IInv
  OBVIOUS
<1> DEFINE d == CHOOSE e \in Drivers : TRUE
<1>1. d \in Drivers
  BY DriversAssumption
<1>2. StartNodes \in SUBSET Nodes
  BY DEF StartNodes
<1>3. /\ Drive(StartNodes) \in Walk /\ Fit(Drive(StartNodes))
      /\ Drive(StartNodes).pc = "loop" /\ Drive(StartNodes).out = "SUCCESS"
      /\ Drive(StartNodes).queue = StartNodes
      /\ Drive(StartNodes).done = {} /\ Drive(StartNodes).batch = {}
  BY <1>2, DriveIs
<1>4. /\ status = "RUNNING" /\ resume = None /\ approvals = <<>> /\ ran = {}
      /\ people = [p \in People |-> Idle] /\ last = "SUCCESS" /\ excused = {}
      /\ drivers = [e \in Drivers |-> IF e = d THEN Drive(StartNodes) ELSE Idle]
  BY DEF Init
<1> HIDE DEF d
<1>5. \A e \in Drivers : drivers[e] = IF e = d THEN Drive(StartNodes) ELSE Idle
  BY <1>4
<1>6. OutFits
  BY <1>3, <1>5, FitIdle DEF OutFits
<1>7. TypeOK
  <2>1. drivers \in [Drivers -> {Idle} \cup Walk \cup Answer]
    BY <1>3, <1>4
  <2>2. approvals \in Seq(Request)
    BY <1>4
  <2>3. people \in [People -> {Idle} \cup Call]
    BY <1>4
  <2>4. ASSUME NEW e \in Drivers, Active(e)
        PROVE  /\ drivers[e].queue \cup drivers[e].done \subseteq drivers[e].activated
               /\ drivers[e].batch \cap drivers[e].queue = {}
               /\ drivers[e].batch \cap Humans # {} => Cardinality(drivers[e].batch) = 1
    <3>1. e = d
      BY <1>5, <2>4 DEF Active, Walking, Idle
    <3>2. Fit(drivers[d]) /\ drivers[d] \in Walk /\ drivers[d].batch = {}
      BY <1>1, <1>3, <1>5
    <3>3. QED
      BY <3>1, <3>2 DEF Fit
  <2>5. QED
    BY <1>4, <2>1, <2>2, <2>3, <2>4 DEF TypeOK, Statuses, Outcomes
<1>8. /\ Active(d) /\ \A e \in Drivers : ~Answering(e) /\ ~Asked(e) /\ (Engaged(e) => e = d)
  BY <1>1, <1>3, <1>5 DEF Active, Walking, Answering, Asked, Engaged, Idle
<1>9. Open = {}
  BY <1>4 DEF Open
<1>10. OneEngaged /\ AskedIsOpen /\ WaitingIsAnswerable /\ OneToken
  BY <1>4, <1>8, <1>9, Answerable DEF OneEngaged, AskedIsOpen, OneToken
<1>11. NothingLost
  <2>1. \A e \in Drivers : WorkCovers(e)
    <3>1. WorkCovers(d)
      <4>1. Covers(StartNodes)
        BY <1>4, StartsCover
      <4>2. /\ Drive(StartNodes).queue \cup Drive(StartNodes).done = StartNodes
            /\ Targets(Drive(StartNodes).done \ Drive(StartNodes).batch) = {}
        <5>1. Drive(StartNodes).done \ Drive(StartNodes).batch = {}
          BY <1>3
        <5>2. QED
          BY <1>3, <5>1, TargetsOf
      <4>3. QED
        BY <1>1, <1>3, <1>5, <4>1, <4>2 DEF WorkCovers
    <3>2. ASSUME NEW e \in Drivers, e # d PROVE WorkCovers(e)
      BY <1>5, <3>2 DEF WorkCovers, Idle
    <3>3. QED
      BY <3>1, <3>2
  <2>2. QED
    BY <1>4, <1>8, <1>9, <2>1 DEF NothingLost
<1>12. EndedWell
  BY <1>1, <1>4, <1>8 DEF EndedWell
<1>13. QED
  BY <1>6, <1>7, <1>10, <1>11, <1>12 DEF IInv

LEMMA StutterKeeps ==
    ASSUME IInv, UNCHANGED vars
    PROVE  IInv'
<1>1. UNCHANGED <<status, resume, approvals, drivers, people, ran, last, excused>>
  BY DEF vars, row
<1>2. /\ Open' = Open /\ Lax' = Lax /\ Live' = Live
  BY <1>1 DEF Open, Lax, Live
<1>3. OutFits' /\ TypeOK'
  <2>1. (people \in [People -> {Idle} \cup Call])'
    BY <1>1, PeopleStep DEF IInv
  <2>2. OutFits'
    BY <1>1 DEF IInv, OutFits
  <2>3. QED
    BY <1>1, <2>1, <2>2, TypesStep DEF IInv, TypeOK
<1>4. OneEngaged' /\ AskedIsOpen' /\ WaitingIsAnswerable' /\ OneToken' /\ EndedWell'
  BY <1>1, <1>2, SameDrivers, Answerable DEF IInv, OneEngaged, AskedIsOpen, OneToken, EndedWell
<1>5. NothingLost'
  BY <1>1, <1>2, LostStays
<1>6. QED
  BY <1>3, <1>4, <1>5 DEF IInv

LEMMA Inductive ==
    ASSUME IInv, [Next]_vars
    PROVE  IInv'
<1>1. ASSUME NEW d \in Drivers, DriverStep(d) \/ BatchFails(d)
      PROVE  IInv'
  BY <1>1, BoundaryKeeps, MarkKeeps, BatchEndsKeeps, AskApprovalKeeps, BranchesKeeps, FinishKeeps,
     ResumeReadKeeps, ResumeWriteKeeps, BatchFailsKeeps DEF DriverStep
<1>2. ASSUME NEW p \in People, PersonStep(p)
      PROVE  IInv'
  BY <1>2, BeginKeeps, CancelRunKeeps, ResumeRunKeeps, DecideKeeps DEF PersonStep, Decisions
<1>3. QED
  BY <1>1, <1>2, PauseKeeps, CrashKeeps, StutterKeeps DEF Next

LEMMA Invariance == Spec => []IInv
BY Initially, Inductive, PTL DEF Spec

\* Type correctness, with what a driver has at hand.
THEOREM TypeCorrect == Spec => []TypeOK
<1>1. IInv => TypeOK
  BY DEF IInv
<1>2. QED
  BY <1>1, Invariance, PTL

\* One driver at most walks a run, over pauses, resumes and decisions, as
\* long as no call acts on what it read of a run that went on since.
THEOREM OneDriverAtATime == Spec => []OneDriver
<1>1. IInv => OneDriver
  BY Kinds DEF IInv, OneEngaged, OneDriver, Lax
<1>2. QED
  BY <1>1, Invariance, PTL

\* A run that waits can be answered: it has not lost its request or decision.
THEOREM WaitingCanBeAnswered == Spec => []WaitingIsAnswerable
<1>1. IInv => WaitingIsAnswerable
  BY DEF IInv
<1>2. QED
  BY <1>1, Invariance, PTL

\* A run that reads COMPLETED has run every step of its graph, whatever the
\* graph and however often it was paused, resumed and approved.
THEOREM NothingIsLeftOut == Spec => []CompletedMeansAllRan
<1>1. IInv => CompletedMeansAllRan
  BY DEF IInv, EndedWell, CompletedMeansAllRan, Live
<1>2. QED
  BY <1>1, Invariance, PTL

\* What a run ended with stands.
THEOREM OutcomesStand == Spec => OutcomeFinal
<1>1. ASSUME IInv, [Next]_vars
      PROVE  [excused' \subseteq {"twice"} /\ status \in Settled => status' = status]_vars
  <2> SUFFICES ASSUME Next, excused' \subseteq {"twice"}, status \in Settled
               PROVE  status' = status
    BY <1>1
  <2>1. TypeOK /\ OutFits
    BY <1>1 DEF IInv
  <2>2. status \notin {"RUNNING", "PAUSED", "WAITING_APPROVAL"}
    BY DEF Settled
  <2>3. \A out : Settle(out) = status
    BY <2>2 DEF Settle, MaySettle
  <2>4. ASSUME NEW d \in Drivers, DriverStep(d) \/ BatchFails(d)
        PROVE  status' = status
    <3>1. CASE ResumeWrite(d)
      <4>1. ~RunWaits
        BY <2>2 DEF RunWaits
      <4>2. CASE drivers[d].decision = "REJECTED"
        <5>1. status' = Settle("FAILED")
          BY <3>1, <4>2 DEF ResumeWrite
        <5>2. QED
          BY <2>3, <5>1
      <4>3. CASE drivers[d].decision # "REJECTED"
        <5>1. excused' = excused \cup {"stale"}
          BY <3>1, <4>1, <4>3 DEF ResumeWrite
        <5>2. QED
          BY <5>1
      <4>4. QED
        BY <4>2, <4>3
    <3>2. CASE ~ResumeWrite(d)
      BY <2>3, <2>4, <3>2 DEF DriverStep, BatchFails, Boundary, Mark, BatchEnds, AskApproval,
         Branches, Finish, ResumeRead, row
    <3>3. QED
      BY <3>1, <3>2
  <2>5. ASSUME NEW p \in People, PersonStep(p)
        PROVE  status' = status
    <3>1. CASE Begin(p)
      BY <3>1 DEF Begin, row
    <3>2. CASE CancelRun(p)
      BY <3>2 DEF CancelRun
    <3>3. ASSUME NEW d \in Drivers, ResumeRun(p, d) PROVE FALSE
      BY <2>1, <2>2, <3>3, ResumeRunMoves
    <3>4. ASSUME NEW d \in Drivers, NEW decision \in {"APPROVED", "REJECTED"}, Decide(p, d, decision)
          PROVE  status' = status
      BY <3>4 DEF Decide
    <3>5. QED
      BY <2>5, <3>1, <3>2, <3>3, <3>4 DEF PersonStep
  <2>6. QED
    BY <2>2, <2>4, <2>5 DEF Next, Pause, Crash, row
<1>2. QED
  BY <1>1, Invariance, PTL DEF Spec, OutcomeFinal
----------------------------------------------------------------------------
(* Joins run last                                                          *)

\* Ancestors[n] is the least set that has the sources of n and is closed.
LEMMA AncestorsAre ==
    ASSUME NEW n \in Nodes
    PROVE  /\ Ancestors[n] \subseteq Nodes /\ Sources(n) \subseteq Ancestors[n]
           /\ Closed(Ancestors[n])
           /\ \A S \in SUBSET Nodes :
                Sources(n) \subseteq S /\ Closed(S) => Ancestors[n] \subseteq S
<1>1. Ancestors[n] = {x \in Nodes : \A S \in SUBSET Nodes :
                          Sources(n) \subseteq S /\ Closed(S) => x \in S}
  BY DEF Ancestors
<1>2. Ancestors[n] \subseteq Nodes /\ Sources(n) \subseteq Ancestors[n]
  BY <1>1 DEF Sources
<1>3. ASSUME NEW x \in Ancestors[n], NEW y \in Sources(x)
      PROVE  y \in Ancestors[n]
  <2>1. ASSUME NEW S \in SUBSET Nodes, Sources(n) \subseteq S, Closed(S)
        PROVE  y \in S
    BY <1>1, <2>1 DEF Closed
  <2>2. y \in Nodes
    BY DEF Sources
  <2>3. QED
    BY <1>1, <2>1, <2>2
<1>4. QED
  BY <1>1, <1>2, <1>3 DEF Closed

\* No step comes before itself: otherwise one of those that do has no source
\* among them, although every way back to it goes through its sources.
LEMMA NotItsAncestor ==
    ASSUME NEW m \in Nodes
    PROVE  m \notin Ancestors[m]
<1> DEFINE U == {x \in Nodes : x \in Ancestors[x]}
<1> SUFFICES ASSUME m \in U PROVE FALSE
  OBVIOUS
<1>1. PICK k \in U : U \cap Sources(k) = {}
  <2>1. U \in SUBSET Nodes /\ U # {}
    OBVIOUS
  <2> HIDE DEF U
  <2>2. QED
    BY <2>1, AcyclicAssumption
<1>2. k \in Nodes /\ k \in Ancestors[k]
  OBVIOUS
<1> DEFINE T == Sources(k) \cup UNION {Ancestors[x] : x \in Sources(k)}
<1>3. \A x \in Sources(k) : x \in Nodes
  BY DEF Sources
<1>4. T \in SUBSET Nodes /\ Sources(k) \subseteq T
  BY <1>3, AncestorsAre
<1>5. \A y \in T : Sources(y) \subseteq T
  <2>1. ASSUME NEW y \in Sources(k) PROVE Sources(y) \subseteq T
    BY <1>3, AncestorsAre
  <2>2. ASSUME NEW x \in Sources(k), NEW y \in Ancestors[x] PROVE Sources(y) \subseteq T
    <3>1. Sources(y) \subseteq Ancestors[x]
      BY <1>3, AncestorsAre DEF Closed
    <3>2. QED
      BY <3>1
  <2>3. QED
    BY <2>1, <2>2
<1>6. k \in T
  <2> HIDE DEF T
  <2>1. Closed(T)
    BY <1>5 DEF Closed
  <2>2. QED
    BY <1>2, <1>4, <2>1, AncestorsAre
<1>7. k \notin Sources(k)
  BY <1>1
<1>8. ASSUME NEW x \in Sources(k), k \in Ancestors[x] PROVE FALSE
  <2>1. Sources(k) \subseteq Ancestors[x]
    BY <1>3, <1>8, AncestorsAre DEF Closed
  <2>2. x \in U
    BY <1>3, <2>1
  <2>3. QED
    BY <1>1, <2>2
<1>9. QED
  BY <1>6, <1>7, <1>8

\* What the run still holds, wherever it is, is apart from A: a driver's
\* record, an open request, the resume point.
Apart(S, A) == S \cap A = {}
DriverApart(r, A) ==
    /\ r.pc \in {"loop", "running", "branches"} => Apart(r.batch \cup (r.queue \ r.done), A)
    /\ r.pc = "mark" => Apart(r.batch \cup r.queue, A)
    /\ r.pc \in {"decided", "resuming"} => Apart({r.step} \cup r.pending, A)
RunApart(A) ==
    /\ \A d \in Drivers : DriverApart(drivers[d], A)
    /\ \A i \in Open : Apart({approvals[i].step} \cup approvals[i].pending, A)
    /\ resume # None => Apart(resume, A)

\* Once a join has run, that is so of the steps before it.
JoinsDone == Live => \A m \in Joins \cap ran : RunApart(Ancestors[m])

\* What comes after steps that are apart is apart as well.
LEMMA TargetsApart ==
    ASSUME NEW S, NEW A, Closed(A), Apart(S, A)
    PROVE  Apart(Targets(S), A)
BY GraphAssumption DEF Apart, Targets, Closed, Sources

LEMMA DriveApart ==
    ASSUME NEW S \in SUBSET Nodes, NEW A, Apart(S, A)
    PROVE  DriverApart(Drive(S), A)
BY DriveIs DEF DriverApart, Apart

\* A driver's step leaves the other drivers where they are.
LEMMA OneApart ==
    ASSUME TypeOK, NEW A, RunApart(A), NEW d \in Drivers, NEW n, DriverApart(n, A),
           drivers' = [drivers EXCEPT ![d] = n]
    PROVE  \A e \in Drivers : DriverApart(drivers'[e], A)
<1>1. \A e \in Drivers : DriverApart(drivers[e], A)
  BY DEF RunApart
<1>2. \A e \in Drivers : drivers'[e] = IF e = d THEN n ELSE drivers[e]
  BY DEF TypeOK
<1> HIDE DEF DriverApart
<1>3. QED
  BY <1>1, <1>2

\* The rest of the run, where it does not change.
LEMMA RestApart ==
    ASSUME NEW A, RunApart(A), approvals' = approvals, resume' = resume,
           \A e \in Drivers : DriverApart(drivers'[e], A)
    PROVE  RunApart(A)'
BY DEF RunApart, Open

\* A step of a driver keeps what the run holds apart from a closed set.
LEMMA DriverKeepsApart ==
    ASSUME IInv, Live, NEW A, Closed(A), RunApart(A), NEW d \in Drivers,
           DriverStep(d) \/ BatchFails(d)
    PROVE  RunApart(A)'
<1> DEFINE r == drivers[d]
<1>1. TypeOK /\ OutFits
  BY DEF IInv
<1>2. DriverApart(r, A)
  BY DEF RunApart
<1>3. ASSUME NEW n, DriverApart(n, A), drivers' = [drivers EXCEPT ![d] = n],
             approvals' = approvals, resume' = resume
      PROVE  RunApart(A)'
  BY <1>1, <1>3, OneApart, RestApart
<1>4. ASSUME NEW n, n.pc = "finish", drivers' = [drivers EXCEPT ![d] = n]
      PROVE  DriverApart(n, A)
  BY <1>4 DEF DriverApart
<1>5. CASE Boundary(d)
  <2>1. approvals' = approvals /\ resume' = resume
    BY <1>5 DEF Boundary, row
  <2>2. PICK n \in Walk :
          /\ drivers' = [drivers EXCEPT ![d] = n]
          /\ \/ n.pc = "finish"
             \/ /\ n.batch \subseteq r.queue \ r.done
                /\ n.queue = (r.queue \ r.done) \ n.batch
                /\ n.pc \in {"mark", "running"}
    BY <1>1, <1>5, BoundaryMoves
  <2>3. Apart(r.queue \ r.done, A)
    BY <1>1, <1>2, <1>5, BoundaryMoves DEF DriverApart, Apart
  <2>4. DriverApart(n, A)
    BY <2>2, <2>3 DEF DriverApart, Apart
  <2>5. QED
    BY <1>3, <2>1, <2>2, <2>4
<1>6. CASE Mark(d)
  <2>1. PICK n \in Walk : drivers' = [drivers EXCEPT ![d] = n] /\ n.pc = "finish"
    BY <1>1, <1>6, MarkMoves
  <2>2. \A e \in Drivers : DriverApart(drivers'[e], A)
    BY <1>1, <1>4, <2>1, OneApart
  <2>3. Apart(resume', A)
    BY <1>1, <1>2, <1>6, MarkMoves DEF DriverApart
  <2>4. approvals' = approvals
    BY <1>6 DEF Mark
  <2>5. QED
    BY <2>2, <2>3, <2>4 DEF RunApart, Open
<1>7. CASE BatchEnds(d)
  <2>1. approvals' = approvals /\ resume' = resume
    BY <1>7 DEF BatchEnds, row
  <2>2. PICK n \in Walk :
          /\ drivers' = [drivers EXCEPT ![d] = n] /\ n.pc = "loop" /\ n.batch = {}
          /\ n.queue = r.queue \cup Targets(r.batch) /\ n.done = r.done
    BY <1>1, <1>7, BatchEndsMoves
  <2>3. Apart(r.batch \cup (r.queue \ r.done), A)
    BY <1>2, <1>7 DEF DriverApart, BatchEnds
  <2>4. Apart(Targets(r.batch), A)
    <3>1. Apart(r.batch, A)
      BY <2>3 DEF Apart
    <3>2. QED
      BY <3>1, TargetsApart
  <2>5. DriverApart(n, A)
    BY <2>2, <2>3, <2>4 DEF DriverApart, Apart
  <2>6. QED
    BY <1>3, <2>1, <2>2, <2>5
<1>8. CASE BatchFails(d)
  <2>1. PICK n \in Walk : drivers' = [drivers EXCEPT ![d] = n] /\ n.pc = "finish"
    BY <1>1, <1>8, BatchFailsMoves
  <2>2. QED
    BY <1>3, <1>4, <1>8, <2>1 DEF BatchFails, row
<1>9. CASE AskApproval(d)
  <2>1. PICK n \in Walk :
          /\ drivers' = [drivers EXCEPT ![d] = n] /\ n.pc \in {"finish", "branches"}
          /\ n.batch = r.batch /\ n.queue = r.queue /\ n.done = r.done
    BY <1>1, <1>9, AskApprovalMoves
  <2>2. PICK h \in Humans :
          /\ r.batch = {h}
          /\ approvals' = Append(approvals, [step |-> h, state |-> "PENDING", pending |-> {}])
    BY <1>1, <1>9, AskApprovalMoves
  <2>3. Apart(r.batch \cup (r.queue \ r.done), A)
    BY <1>2, <1>9 DEF DriverApart, AskApproval
  <2>4. DriverApart(n, A)
    BY <2>1, <2>3 DEF DriverApart
  <2>5. \A e \in Drivers : DriverApart(drivers'[e], A)
    BY <1>1, <2>1, <2>4, OneApart
  <2>6. /\ \A i \in DOMAIN approvals : approvals'[i] = approvals[i]
        /\ approvals'[Len(approvals) + 1] = [step |-> h, state |-> "PENDING", pending |-> {}]
        /\ Open' = Open \cup {Len(approvals) + 1}
        /\ Open \subseteq DOMAIN approvals
    BY <1>1, <2>2, AskedRequest, RequestTypes
  <2>7. ASSUME NEW i \in Open'
        PROVE  Apart({approvals'[i].step} \cup approvals'[i].pending, A)
    <3>1. CASE i \in Open
      BY <2>6, <3>1 DEF RunApart
    <3>2. CASE i = Len(approvals) + 1
      <4>1. approvals'[i].step = h /\ approvals'[i].pending = {}
        BY <2>6, <3>2
      <4>2. QED
        BY <2>2, <2>3, <4>1 DEF Apart
    <3>3. QED
      BY <2>6, <3>1, <3>2
  <2>8. resume' = resume
    BY <1>9 DEF AskApproval
  <2>9. QED
    BY <2>5, <2>7, <2>8 DEF RunApart
<1>10. CASE Branches(d)
  <2>1. PICK n \in Walk : drivers' = [drivers EXCEPT ![d] = n] /\ n.pc = "finish"
    BY <1>1, <1>10, BranchesMoves
  <2>2. \A e \in Drivers : DriverApart(drivers'[e], A)
    BY <1>1, <1>4, <2>1, OneApart
  <2>3. resume' = resume
    BY <1>10 DEF Branches
  <2>4. CASE approvals' = approvals
    BY <2>2, <2>3, <2>4, RestApart
  <2>5. ASSUME NEW j \in Open, approvals'[j].pending = r.queue \ r.done
        PROVE  RunApart(A)'
    <3>1. Open' = Open /\ \A i \in DOMAIN approvals : approvals'[i].step = approvals[i].step
      BY <1>1, <1>10, BranchesRequest
    <3>2. Apart(r.batch \cup (r.queue \ r.done), A)
      BY <1>2, <1>10 DEF DriverApart, Branches
    <3>3. \A i \in Open : i = j
      BY DEF IInv, OneToken
    <3>4. Apart({approvals'[j].step} \cup approvals'[j].pending, A)
      <4>1. Apart({approvals[j].step}, A)
        BY DEF RunApart, Apart
      <4>2. approvals'[j].step = approvals[j].step
        BY <1>1, <3>1, RequestTypes
      <4>3. QED
        BY <2>5, <3>2, <4>1, <4>2 DEF Apart
    <3>5. \A i \in Open' : Apart({approvals'[i].step} \cup approvals'[i].pending, A)
      BY <3>1, <3>3, <3>4
    <3>6. QED
      BY <2>2, <2>3, <3>5 DEF RunApart
  <2>6. QED
    BY <1>1, <1>10, <2>4, <2>5, BranchesRequest
<1>11. CASE Finish(d)
  <2>1. DriverApart(Idle, A)
    BY DEF DriverApart, Idle
  <2>2. QED
    BY <1>3, <1>11, <2>1 DEF Finish
<1>12. CASE ResumeRead(d)
  <2>1. PICK n \in {Idle} \cup Answer :
          /\ drivers' = [drivers EXCEPT ![d] = n]
          /\ \/ n.pc = "resuming" /\ n.step = r.step /\ n.pending = r.pending
             \/ n = Idle
    BY <1>1, <1>12, ResumeMoves
  <2>2. Apart({r.step} \cup r.pending, A)
    BY <1>2, <1>12 DEF DriverApart, ResumeRead
  <2>3. DriverApart(n, A)
    BY <2>1, <2>2 DEF DriverApart, Idle
  <2>4. QED
    BY <1>3, <1>12, <2>1, <2>3 DEF ResumeRead, row
<1>13. CASE ResumeWrite(d)
  <2>1. Apart({r.step} \cup r.pending, A)
    BY <1>2, <1>13 DEF DriverApart, ResumeWrite
  <2>2. approvals' = approvals /\ resume' = resume
    BY <1>13 DEF ResumeWrite
  <2>3. CASE drivers' = [drivers EXCEPT ![d] = Idle]
    <3>1. DriverApart(Idle, A)
      BY DEF DriverApart, Idle
    <3>2. QED
      BY <1>3, <2>2, <2>3, <3>1
  <2>4. ASSUME NEW S \in SUBSET Nodes, S = Targets({r.step}) \cup r.pending,
               drivers' = [drivers EXCEPT ![d] = Drive(S)]
        PROVE  RunApart(A)'
    <3>1. Apart(Targets({r.step}), A)
      <4>1. Apart({r.step}, A)
        BY <2>1 DEF Apart
      <4>2. QED
        BY <4>1, TargetsApart
    <3>2. Apart(S, A)
      BY <2>1, <2>4, <3>1 DEF Apart
    <3>3. DriverApart(Drive(S), A)
      BY <3>2, DriveApart
    <3>4. QED
      BY <1>3, <2>2, <2>4, <3>3
  <2>5. QED
    BY <1>1, <1>13, <2>3, <2>4, ResumeMoves
<1>14. QED
  BY <1>5, <1>6, <1>7, <1>8, <1>9, <1>10, <1>11, <1>12, <1>13 DEF DriverStep

\* So does a call of a person, and the end of the process.
LEMMA PersonKeepsApart ==
    ASSUME IInv, Live, Live', NEW A, Closed(A), RunApart(A), NEW p \in People, PersonStep(p)
    PROVE  RunApart(A)'
<1>1. TypeOK /\ OutFits /\ \A e \in Drivers : DriverApart(drivers[e], A)
  BY DEF IInv, RunApart
<1>2. CASE Begin(p)
  BY <1>1, <1>2, RestApart DEF Begin, row
<1>3. CASE CancelRun(p)
  BY <1>3 DEF CancelRun, Live
<1>4. ASSUME NEW d \in Drivers, ResumeRun(p, d)
      PROVE  RunApart(A)'
  <2>1. approvals' = approvals /\ excused' \subseteq {"twice"}
    BY <1>4 DEF ResumeRun, Live
  <2>2. CASE drivers' = drivers /\ resume' = resume
    BY <1>1, <2>1, <2>2, RestApart
  <2>3. ASSUME NEW S \in SUBSET Nodes, resume' = None, resume # None, resume = S,
               drivers' = [drivers EXCEPT ![d] = Drive(S)]
        PROVE  RunApart(A)'
    <3>1. DriverApart(Drive(S), A)
      BY <2>3, DriveApart DEF RunApart
    <3>2. \A e \in Drivers : DriverApart(drivers'[e], A)
      BY <1>1, <2>3, <3>1, OneApart
    <3>3. QED
      BY <2>1, <2>3, <3>2 DEF RunApart, Open
  <2>4. QED
    BY <1>1, <1>4, <2>1, <2>2, <2>3, ResumeRunMoves
<1>5. ASSUME NEW d \in Drivers, NEW decision \in Decisions, Decide(p, d, decision)
      PROVE  RunApart(A)'
  <2> DEFINE i == people[p].request
  <2>1. /\ i \in DOMAIN approvals
        /\ Open' = Open \ {i}
        /\ \A j \in DOMAIN approvals :
             approvals'[j].step = approvals[j].step /\ approvals'[j].pending = approvals[j].pending
    BY <1>1, <1>5, DecideMoves
  <2>2. PICK n \in Answer :
          /\ drivers' = [drivers EXCEPT ![d] = n] /\ n.pc = "decided"
          /\ n.step = approvals[i].step /\ n.pending = approvals[i].pending
    BY <1>1, <1>5, DecideMoves
  <2>3. i \in Open
    <3>1. excused' = {} /\ status # "CANCELLED"
      BY DEF Live
    <3>2. approvals[i].state = "PENDING"
      BY <1>5, <3>1 DEF Decide
    <3>3. QED
      BY <2>1, <3>2 DEF Open
  <2> HIDE DEF i
  <2>4. DriverApart(n, A)
    BY <2>2, <2>3 DEF DriverApart, RunApart
  <2>5. \A e \in Drivers : DriverApart(drivers'[e], A)
    BY <1>1, <2>2, <2>4, OneApart
  <2>6. \A j \in Open' : Apart({approvals'[j].step} \cup approvals'[j].pending, A)
    BY <1>1, <2>1, RequestTypes DEF RunApart
  <2>7. resume' = resume
    BY <1>5 DEF Decide
  <2>8. QED
    BY <2>5, <2>6, <2>7 DEF RunApart
<1>6. QED
  BY <1>2, <1>3, <1>4, <1>5 DEF PersonStep, Decisions

\* A join that starts was ready: what was activated before it is done.
LEMMA ReadyApart ==
    ASSUME NEW r \in Walk, r.queue \cup r.done \subseteq r.activated,
           NEW b \in Batches(r), NEW m \in Joins \cap b
    PROVE  Apart(r.queue \ r.done, Ancestors[m])
<1>1. m \in Ready(r)
  BY DEF Batches
<1>2. r.activated \cap Ancestors[m] \subseteq r.done \cup {m}
  BY <1>1 DEF Ready
<1>3. m \notin Ancestors[m]
  BY NotItsAncestor, GraphAssumption
<1>4. QED
  BY <1>2, <1>3 DEF Apart

\* A driver that starts a join is where the run is, so what it leaves is all
\* that is left.
LEMMA StartsApart ==
    ASSUME IInv, Live, Live', NEW d \in Drivers, Boundary(d),
           NEW m \in Joins, m \in ran', m \notin ran
    PROVE  RunApart(Ancestors[m])'
<1> DEFINE r == drivers[d]
           A == Ancestors[m]
<1>1. TypeOK /\ OutFits
  BY DEF IInv
<1>2. r \in Walk /\ r.pc = "loop"
  BY <1>1, BoundaryMoves
<1>3. PICK b \in Batches(r) :
        m \in b /\ drivers' = [drivers EXCEPT ![d] = Started(Picked(r, b))]
  BY DEF Boundary
<1>4. Apart(r.queue \ r.done, A)
  BY <1>1, <1>2, <1>3, ReadyApart DEF OutFits, Fit
<1>5. b \subseteq r.queue \ r.done /\ b \in SUBSET Nodes
  BY <1>2, BatchOf DEF Walk
<1> DEFINE s == Picked(r, b)
           n == Started(s)
<1>6. n.batch = b /\ n.queue = (r.queue \ r.done) \ b /\ n.pc = "running"
  <2>1. s \in Walk /\ s.batch = b /\ s.queue = (r.queue \ r.done) \ b
    BY <1>2, <1>5, PickedIs
  <2> HIDE DEF s
  <2>2. QED
    BY <2>1, StartedIs
<1>7. drivers' = [drivers EXCEPT ![d] = n]
  BY <1>3
<1> HIDE DEF n, s, A
<1>8. DriverApart(n, A)
  BY <1>4, <1>5, <1>6 DEF DriverApart, Apart
<1>9. Engaged(d) /\ ~Asked(d)
  BY <1>2 DEF Engaged, Walking, Asked
<1>10. Open = {} /\ resume = None /\ \A e \in Drivers : ~Answering(e) /\ (Engaged(e) => e = d)
  BY <1>9, Token
<1>11. ASSUME NEW e \in Drivers, e # d
       PROVE  DriverApart(drivers[e], A)
  BY <1>10, <1>11 DEF DriverApart, Engaged, Walking, Answering
<1>12. \A e \in Drivers : drivers'[e] = IF e = d THEN n ELSE drivers[e]
  BY <1>1, <1>7 DEF TypeOK
<1>13. \A e \in Drivers : DriverApart(drivers'[e], A)
  <2> HIDE DEF DriverApart
  <2>1. QED
    BY <1>8, <1>11, <1>12
<1>14. Open' = {} /\ resume' = None
  BY <1>10 DEF Boundary, row, Open
<1>15. RunApart(A)'
  BY <1>13, <1>14 DEF RunApart
<1>16. QED
  BY <1>15 DEF A

LEMMA JoinsInitially == Init => JoinsDone
BY DEF Init, JoinsDone

LEMMA JoinsStep ==
    ASSUME IInv, IInv', JoinsDone, [Next]_vars
    PROVE  JoinsDone'
<1> SUFFICES ASSUME Live', NEW m \in Joins, m \in ran'
             PROVE  RunApart(Ancestors[m])'
  BY DEF JoinsDone
<1>1. Closed(Ancestors[m])
  BY AncestorsAre, GraphAssumption
<1>2. CASE UNCHANGED vars
  <2>1. Live /\ m \in ran
    BY <1>2 DEF vars, row, Live
  <2>2. RunApart(Ancestors[m])
    BY <2>1 DEF JoinsDone
  <2>3. QED
    BY <1>2, <2>2, RestApart DEF vars, row, RunApart
<1>3. ASSUME NEW d \in Drivers, DriverStep(d) \/ BatchFails(d)
      PROVE  RunApart(Ancestors[m])'
  <2>1. Live
    <3>1. TypeOK /\ OutFits
      BY DEF IInv
    <3>2. CASE ResumeWrite(d)
      <4>1. excused = {}
        BY <3>2 DEF ResumeWrite, Live
      <4>2. status # "CANCELLED"
        BY <3>2 DEF ResumeWrite, Settle, MaySettle, RunWaits, Live
      <4>3. QED
        BY <4>1, <4>2 DEF Live
    <3>3. CASE Finish(d)
      BY <3>3 DEF Finish, Settle, MaySettle, Live
    <3>4. CASE ~ResumeWrite(d) /\ ~Finish(d)
      BY <1>3, <3>4 DEF DriverStep, BatchFails, Boundary, Mark, BatchEnds, AskApproval, Branches,
         ResumeRead, Live, row
    <3>5. QED
      BY <3>2, <3>3, <3>4
  <2>2. CASE m \in ran
    BY <1>1, <1>3, <2>1, <2>2, DriverKeepsApart DEF JoinsDone
  <2>3. CASE m \notin ran
    <3>1. Boundary(d)
      BY <1>3, <2>3 DEF DriverStep, BatchFails, Mark, BatchEnds, AskApproval, Branches, Finish,
         ResumeRead, ResumeWrite
    <3>2. QED
      BY <2>1, <2>3, <3>1, StartsApart
  <2>4. QED
    BY <2>2, <2>3
<1>4. ASSUME NEW p \in People, PersonStep(p)
      PROVE  RunApart(Ancestors[m])'
  <2>1. m \in ran /\ excused \subseteq excused'
    BY <1>4 DEF PersonStep, Begin, CancelRun, ResumeRun, Decide
  <2>2. status # "CANCELLED"
    <3>1. CASE Begin(p)
      BY <3>1 DEF Begin, row, Live
    <3>2. CASE CancelRun(p)
      BY <3>2 DEF CancelRun, Live
    <3>3. ASSUME NEW d \in Drivers, ResumeRun(p, d) PROVE status # "CANCELLED"
      <4>1. excused' \subseteq {"twice"} /\ TypeOK
        BY DEF Live, IInv
      <4>2. QED
        BY <3>3, <4>1, ResumeRunMoves
    <3>4. ASSUME NEW d \in Drivers, NEW decision \in {"APPROVED", "REJECTED"}, Decide(p, d, decision)
          PROVE  status # "CANCELLED"
      BY <3>4 DEF Decide, Live
    <3>5. QED
      BY <1>4, <3>1, <3>2, <3>3, <3>4 DEF PersonStep
  <2>3. Live
    BY <2>1, <2>2 DEF Live
  <2>4. QED
    BY <1>1, <1>4, <2>1, <2>3, PersonKeepsApart DEF JoinsDone
<1>5. CASE Pause
  <2>1. Live /\ m \in ran
    BY <1>5 DEF Pause, Live
  <2>2. RunApart(Ancestors[m])
    BY <2>1 DEF JoinsDone
  <2>3. QED
    BY <1>5, <2>2, RestApart DEF Pause, RunApart
<1>6. CASE Crash
  BY <1>6 DEF Crash, Live
<1>7. QED
  BY <1>2, <1>3, <1>4, <1>5, <1>6 DEF Next

\* Once a join has run, nothing that comes before it starts again, for every
\* acyclic graph, over pauses, approvals and resumes too.
THEOREM JoinsComeLast == Spec => JoinsRunLast
<1> DEFINE Before == \A m \in Joins, d \in Drivers :
                       /\ m \in ran
                       /\ excused = {}
                       /\ drivers[d].pc = "loop" /\ drivers'[d].pc = "running"
                       => drivers'[d].batch \cap Ancestors[m] = {}
<1>1. ASSUME IInv, JoinsDone, [Next]_vars
      PROVE  [Before]_vars
  <2> SUFFICES ASSUME Next, NEW m \in Joins, NEW d \in Drivers, m \in ran, excused = {},
                      drivers[d].pc = "loop", drivers'[d].pc = "running"
               PROVE  drivers'[d].batch \cap Ancestors[m] = {}
    BY <1>1
  <2>1. TypeOK /\ OutFits
    BY <1>1 DEF IInv
  <2>2. Boundary(d)
    <3>1. ASSUME NEW e \in Drivers, DriverStep(e) \/ BatchFails(e)
          PROVE  Boundary(d)
      <4>1. drivers' # drivers
        OBVIOUS
      <4>2. e = d
        BY <2>1, <3>1 DEF DriverStep, BatchFails, Boundary, Mark, BatchEnds, AskApproval,
           Branches, Finish, ResumeRead, ResumeWrite, TypeOK
      <4>3. QED
        BY <3>1, <4>2 DEF DriverStep, BatchFails, Mark, BatchEnds, AskApproval, Branches, Finish,
           ResumeRead, ResumeWrite
    <3>2. ASSUME NEW p \in People, PersonStep(p)
          PROVE  FALSE
      <4>1. ASSUME NEW e \in Drivers, drivers[e] = Idle, NEW n, drivers' = [drivers EXCEPT ![e] = n]
            PROVE  FALSE
        <5>1. e # d
          BY <4>1 DEF Idle
        <5>2. QED
          BY <2>1, <4>1, <5>1, OneMoves
      <4>2. ASSUME NEW e \in Drivers, ResumeRun(p, e) PROVE FALSE
        BY <2>1, <4>1, <4>2, ResumeRunMoves
      <4>3. ASSUME NEW e \in Drivers, NEW decision \in {"APPROVED", "REJECTED"}, Decide(p, e, decision)
            PROVE  FALSE
        BY <4>1, <4>3 DEF Decide
      <4>4. QED
        BY <3>2, <4>2, <4>3 DEF PersonStep, Begin, CancelRun
    <3>3. QED
      BY <2>1, <3>1, <3>2 DEF Next, Pause, Crash, Idle
  <2>3. status \notin {"PAUSED", "CANCELLED"}
    <3> SUFFICES ASSUME status \in {"PAUSED", "CANCELLED"} PROVE FALSE
      OBVIOUS
    <3> DEFINE r == drivers[d]
               pc == IF status = "PAUSED" THEN "mark" ELSE "finish"
    <3>1. r \in Walk
      BY <2>1, <2>2, BoundaryMoves
    <3>2. drivers' # [drivers EXCEPT ![d].pc = "finish"]
      <4> DEFINE n == [r EXCEPT !.pc = "finish"]
      <4>1. n.pc = "finish"
        BY <3>1 DEF Walk
      <4> HIDE DEF n
      <4>2. drivers' # [drivers EXCEPT ![d] = n]
        BY <2>1, <4>1 DEF TypeOK
      <4>3. QED
        BY <4>2 DEF n
    <3>3. PICK b \in Batches(r) :
            drivers' = [drivers EXCEPT ![d] = Stopped(Picked(r, b), status, pc)]
      BY <2>2, <3>2 DEF Boundary
    <3>4. b \in SUBSET Nodes
      BY <3>1, BatchOf DEF Walk
    <3>5. Picked(r, b) \in Walk
      BY <3>1, <3>4, PickedIs
    <3>6. status \in Outcomes /\ pc \in {"mark", "branches", "finish"} /\ pc # "running"
      BY DEF Outcomes
    <3> HIDE DEF pc
    <3>7. Stopped(Picked(r, b), status, pc).pc = pc
      BY <3>5, <3>6, StoppedIs
    <3>8. drivers'[d] = Stopped(Picked(r, b), status, pc)
      BY <2>1, <3>3 DEF TypeOK
    <3>9. QED
      BY <3>6, <3>7, <3>8
  <2>4. Live
    BY <2>3 DEF Live
  <2>5. Apart(drivers[d].queue \ drivers[d].done, Ancestors[m])
    BY <1>1, <2>4 DEF JoinsDone, RunApart, DriverApart, Apart
  <2>6. PICK n \in Walk : /\ drivers' = [drivers EXCEPT ![d] = n]
                          /\ n.pc = "finish" \/ n.batch \subseteq drivers[d].queue \ drivers[d].done
    BY <2>1, <2>2, BoundaryMoves
  <2>7. drivers'[d] = n
    BY <2>1, <2>6 DEF TypeOK
  <2>8. QED
    BY <2>5, <2>6, <2>7 DEF Apart
<1>2. Spec => []JoinsDone
  BY Invariance, JoinsInitially, JoinsStep, PTL DEF Spec
<1>3. QED
  BY <1>1, <1>2, Invariance, PTL DEF Spec, JoinsRunLast

=============================================================================
