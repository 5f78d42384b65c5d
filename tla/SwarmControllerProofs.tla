----------------------- MODULE SwarmControllerProofs ------------------------
(***************************************************************************)
(* Theorems about SwarmController, for every set of requests, plans,       *)
(* sandboxes and failures: what holds whatever fails, what holds of one    *)
(* controller that can write, and that the swarm implements Waves as long  *)
(* as writes succeed.                                                      *)
(***************************************************************************)
EXTENDS SwarmController, FiniteSetTheorems, WellFoundedInduction, TLAPS

(* What the place in the tick says of the cursors: a request is being      *)
(* handled, a workflow is being advanced, and the agents to start are      *)
(* agents of its active stage.                                             *)
CursorOK ==
  /\ pc \in {"dispatch", "ack"} => cur \in Requests
  /\ pc \in {"refresh", "spawn", "start", "record"} => wtodo # <<>>
  /\ pc \notin {"spawn", "start", "record"} => stodo = {}
  /\ stodo # {} => /\ stage \in DOMAIN Plan[Head(wtodo)]
                   /\ stodo \subseteq 1..Plan[Head(wtodo)][stage].agents

Typed == TypeOK /\ CursorOK

-----------------------------------------------------------------------------
(* Lemmas about the operators.                                             *)

LEMMA PlanType ==
  ASSUME NEW r \in Requests, NEW s \in DOMAIN Plan[r]
  PROVE  /\ s \in Nat
         /\ Plan[r][s].agents \in Nat
         /\ Plan[r][s].maxConcurrent \in Nat
  <1> DEFINE StageSet == [agents : Nat \ {0}, maxConcurrent : Nat \ {0}]
  <1>1. Plan[r] \in Seq(StageSet)
    BY PlanAssumption DEF PlanAssumption
  <1>2. s \in Nat /\ Plan[r][s] \in StageSet
    <2> HIDE DEF StageSet
    <2> QED BY <1>1
  <1> QED BY <1>2

LEMMA TaskInTasks ==
  ASSUME NEW r \in Requests, NEW s \in DOMAIN Plan[r],
         NEW i \in 1..Plan[r][s].agents
  PROVE  <<r, s, i>> \in Tasks
  BY DEF Tasks, TasksOf, TasksOfStage

LEMMA RecordedInTasks ==
  ASSUME NEW r \in Requests
  PROVE  Recorded(r) \subseteq Tasks
  BY DEF Recorded, Tasks

LEMMA MissedType ==
  ASSUME NEW r
  PROVE  Missed(r) \in Nat
  <1>1. IsFiniteSet({"handled"}) /\ IsFiniteSet({"ack"}) /\ IsFiniteSet({})
    BY FS_EmptySet, FS_Singleton
  <1>2. IsFiniteSet(Markers(r))
    BY <1>1, FS_Union DEF Markers
  <1> QED BY <1>2, FS_CardinalityType DEF Missed

LEMMA NextIndicesType ==
  ASSUME NEW r \in Requests, NEW s \in DOMAIN Plan[r]
  PROVE  StageNextIndices(r, s) \subseteq 1..Plan[r][s].agents
  BY DEF StageNextIndices

-----------------------------------------------------------------------------
(* Type correctness.                                                       *)

USE DEF vars, volume, inbox, memory, swarm, runs, cursor, ingestion, advancing,
        spawning, cloud, ghosts

LEMMA TypedInit == Init => Typed
  <1> SUFFICES ASSUME Init PROVE Typed
    OBVIOUS
  <1>1. TypeOK
    BY FaultAssumption DEF Init, FreshMemory, TypeOK, AgentStates
  <1>2. CursorOK
    BY DEF Init, CursorOK
  <1> QED BY <1>1, <1>2 DEF Typed

LEMMA AdvanceToType ==
  ASSUME NEW left \in Seq(Requests), AdvanceTo(left)
  PROVE  /\ wtodo' \in Seq(Requests) /\ rtodo' \subseteq Tasks
         /\ pc' \in {"idle", "refresh"}
         /\ pc' = "refresh" => wtodo' # <<>>
  <1>1. CASE left = <<>>
    BY <1>1 DEF AdvanceTo
  <1>2. CASE left # <<>>
    <2>1. Head(left) \in Requests
      BY <1>2
    <2> QED BY <1>2, <2>1, RecordedInTasks DEF AdvanceTo
  <1> QED BY <1>1, <1>2

(* The step of each part of Next keeps the types.                          *)
LEMMA TypedIngest ==
  ASSUME Typed, Ingest
  PROVE  Typed'
  <1> USE DEF Typed, TypeOK, CursorOK
  <1>1. CASE BeginTick
    BY <1>1 DEF BeginTick, Listed, Fault, Fail, NoFault
  <1>2. CASE MetaWriteFails
    BY <1>2 DEF MetaWriteFails, AbortTick, EndTick, Fail, ClearCursor
  <1>3. ASSUME NEW r \in Requests, SkipRequest(r)
        PROVE  Typed'
    BY <1>3 DEF SkipRequest
  <1>4. ASSUME NEW r \in Requests, RequestUnreadable(r)
        PROVE  Typed'
    BY SMTT(60), <1>4, MissedType DEF RequestUnreadable, Fail
  <1>5. ASSUME NEW r \in Requests, ClaimRequest(r)
        PROVE  Typed'
    BY SMTT(60), <1>5, MissedType DEF ClaimRequest, Fail
  <1>6. ASSUME NEW r \in Requests, ClaimFails(r)
        PROVE  Typed'
    BY SMTT(60), <1>6, MissedType DEF ClaimFails, EndTick, Fail, ClearCursor
  <1>7. CASE RequestsDone
    BY <1>7, AdvanceToType DEF RequestsDone
  <1> QED BY <1>1, <1>2, <1>3, <1>4, <1>5, <1>6, <1>7 DEF Ingest

LEMMA TypedDispatch ==
  ASSUME Typed, Dispatch
  PROVE  Typed'
  <1> USE DEF Typed, TypeOK, CursorOK
  <1>1. CASE DispatchSubmit
    BY <1>1 DEF DispatchSubmit, UniqueName, Submits, Answer
  <1>2. CASE DispatchPause
    BY <1>2 DEF DispatchPause, Named, Answer
  <1>3. CASE DispatchTerminate
    <2>1. PICK t \in Stopped, ends \in BOOLEAN, writes \in BOOLEAN :
            LET failed == (IF ends THEN {} ELSE {"stop"})
                          \cup (IF writes THEN {} ELSE {"put"})
            IN  /\ Fail(Cardinality(failed), failed)
                /\ seen' = [seen EXCEPT ![t] = "cancelled"]
                /\ boxState' = IF ends THEN [boxState EXCEPT ![slot[t]] = "gone"]
                               ELSE boxState
                /\ agentFile' = IF writes
                                THEN [agentFile EXCEPT ![slot[t]] = "cancelled"]
                                ELSE agentFile
                /\ Answer(IF writes THEN "ok" ELSE "failed")
      BY <1>3 DEF DispatchTerminate
    <2>2. nfaults' \in Nat
      <3> DEFINE failed == (IF ends THEN {} ELSE {"stop"})
                           \cup (IF writes THEN {} ELSE {"put"})
      <3>1. IsFiniteSet({"stop"}) /\ IsFiniteSet({"put"}) /\ IsFiniteSet({})
        BY FS_EmptySet, FS_Singleton
      <3>2. IsFiniteSet(failed)
        BY <3>1, FS_Union
      <3>3. Cardinality(failed) \in Nat
        BY <3>2, FS_CardinalityType
      <3> QED BY <2>1, <3>3 DEF Fail
    <2>3. /\ seen' \in [Tasks -> AgentStates]
          /\ boxState' \in [Boxes -> {"unused", "created", "running", "ended", "gone"}]
          /\ agentFile' \in [Boxes -> AgentStates \cup {"none"}]
      BY <2>1 DEF AgentStates
    <2>4. pc = "dispatch" /\ pc' = "ack" /\ reply' \in {"ok", "failed"}
      BY <1>3, <2>1 DEF DispatchTerminate, Answer
    <2> QED BY <1>3, <2>2, <2>3, <2>4 DEF DispatchTerminate
  <1>4. CASE DispatchResume
    BY <1>4 DEF DispatchResume, Named, Answer
  <1>5. CASE DispatchReject
    BY <1>5 DEF DispatchReject, Answer
  <1>6. CASE Ack
    BY <1>6 DEF Ack
  <1>7. CASE AckFails
    BY <1>7 DEF AckFails, Fault, Fail
  <1>8. CASE AckFailsTwice
    BY <1>8 DEF AckFailsTwice, AbortTick, EndTick, Fail, ClearCursor
  <1> QED BY <1>1, <1>2, <1>3, <1>4, <1>5, <1>6, <1>7, <1>8 DEF Dispatch

LEMMA ReadingType ==
  ASSUME NEW b, NEW before \in AgentStates, NEW state \in Reading(b, before)
  PROVE  state \in AgentStates
  BY DEF Reading, AgentStates

LEMMA ReadStatusType ==
  ASSUME nfaults \in Nat, NEW b, NEW before, NEW state, ReadStatus(b, before, state)
  PROVE  nfaults' \in Nat
  BY DEF ReadStatus, NoFault, Fault, Fail

LEMMA TypedAdvance ==
  ASSUME Typed, Advance
  PROVE  Typed'
  <1> USE DEF Typed, TypeOK, CursorOK
  <1>1. CASE Schedule
    <2> DEFINE r == Head(wtodo)
    <2>1. pc = "refresh" /\ r \in Requests /\ stodo = {}
      BY <1>1 DEF Schedule
    <2>2. CASE NothingToStart(r) /\ UNCHANGED <<stage, stodo>>
      BY <1>1, <2>1, <2>2 DEF Schedule
    <2>3. CASE \E s \in DOMAIN Plan[r] : stage' = s /\ stodo' = StageNextIndices(r, s)
      <3>1. PICK s \in DOMAIN Plan[r] : stage' = s /\ stodo' = StageNextIndices(r, s)
        BY <2>3
      <3>2. s \in Nat /\ stodo' \subseteq 1..Plan[r][s].agents /\ stodo' \subseteq Nat
        BY <2>1, <3>1, PlanType, NextIndicesType
      <3> QED BY <1>1, <3>1, <3>2 DEF Schedule
    <2> QED BY <1>1, <2>1, <2>2, <2>3 DEF Schedule
  <1>2. ASSUME NEW t \in Tasks, RefreshAgent(t)
        PROVE  Typed'
    <2>1. PICK state \in {"starting", "running", "done", seen[t]} :
            /\ ReadStatus(slot[t], seen[t], state)
            /\ seen' = [seen EXCEPT ![t] = state]
            /\ agentFile' = [agentFile EXCEPT ![slot[t]] = state]
      BY <1>2 DEF RefreshAgent
    <2>2. state \in AgentStates
      BY <2>1 DEF AgentStates
    <2>3. nfaults' \in Nat
      BY <2>1, ReadStatusType
    <2> QED BY <1>2, <2>1, <2>2, <2>3 DEF RefreshAgent
  <1>3. ASSUME NEW t \in Tasks, RefreshFails(t)
        PROVE  Typed'
    <2>1. seen' \in [Tasks -> AgentStates]
      BY <1>3, ReadingType DEF RefreshFails
    <2> QED BY <1>3, <2>1 DEF RefreshFails, EndTick, Fail, ClearCursor
  <1>4. CASE CreateBox
    <2>1. PICK i \in stodo : task' = <<Head(wtodo), stage, i>>
      BY <1>4 DEF CreateBox
    <2>2. task' \in Tasks
      <3>1. Head(wtodo) \in Requests
        BY <1>4 DEF CreateBox
      <3> QED BY <1>4, <2>1, <3>1, TaskInTasks DEF CreateBox
    <2>3. box' \in Boxes
      BY <1>4 DEF CreateBox, UnusedBoxes
    <2> QED BY <1>4, <2>2, <2>3 DEF CreateBox
  <1>5. CASE CreateFails
    BY <1>5 DEF CreateFails, AbortTick, EndTick, Fail, ClearCursor
  <1>6. CASE StartRun
    BY <1>6 DEF StartRun
  <1>7. CASE StartFails
    BY <1>7 DEF StartFails, AbortTick, EndTick, Fail, ClearCursor
  <1>8. CASE RecordAgent
    <2>1. PICK state \in {"running", "done", "starting"} :
            /\ ReadStatus(box, "starting", state)
            /\ seen' = [seen EXCEPT ![task] = state]
            /\ agentFile' = [agentFile EXCEPT ![box] = state]
      BY <1>8 DEF RecordAgent
    <2>2. state \in AgentStates
      BY <2>1 DEF AgentStates
    <2>3. nfaults' \in Nat
      BY <2>1, ReadStatusType
    <2> QED BY <1>8, <2>1, <2>2, <2>3 DEF RecordAgent
  <1>9. CASE RecordFails
    BY <1>9 DEF RecordFails, AbortTick, EndTick, Fail, ClearCursor
  <1>10. CASE PublishWorkflow
    <2>1. Tail(wtodo) \in Seq(Requests)
      BY <1>10 DEF PublishWorkflow
    <2>2. workflowFile' \in [WorkflowNames -> {"none", "running", "paused", "done"}]
      BY <1>10 DEF PublishWorkflow, WorkflowStatus
    <2>3. AdvanceTo(Tail(wtodo))
      BY <1>10 DEF PublishWorkflow
    <2> QED BY <1>10, <2>1, <2>2, <2>3, AdvanceToType DEF PublishWorkflow
  <1>11. CASE PublishFails
    BY <1>11 DEF PublishFails, AbortTick, EndTick, Fail, ClearCursor
  <1> QED BY <1>1, <1>2, <1>3, <1>4, <1>5, <1>6, <1>7, <1>8, <1>9, <1>10, <1>11
          DEF Advance

LEMMA TypedStep == Typed /\ [Next]_vars => Typed'
  <1> SUFFICES ASSUME Typed, [Next]_vars PROVE Typed'
    OBVIOUS
  <1> USE DEF Typed, TypeOK, CursorOK
  <1>1. ASSUME NEW r \in Requests, SubmitRequest(r)
        PROVE  Typed'
    BY <1>1 DEF SubmitRequest
  <1>2. CASE ReportError
    BY <1>2 DEF ReportError
  <1>3. CASE ReportFails
    BY <1>3 DEF ReportFails, Fault, Fail, LoseController, FreshMemory, ClearCursor,
       AgentStates
  <1>4. CASE Controller
    <2> HIDE DEF Typed
    <2> QED BY <1>2, <1>3, <1>4, TypedIngest, TypedDispatch, TypedAdvance DEF Controller
  <1>5. CASE Crash
    BY <1>5 DEF Crash, NoFault, LoseController, FreshMemory, ClearCursor, AgentStates
  <1>6. CASE Restart
    BY <1>6 DEF Restart
  <1>7. ASSUME NEW b \in Boxes, RunEnds(b)
        PROVE  Typed'
    BY <1>7 DEF RunEnds
  <1>8. ASSUME NEW b \in Boxes, BoxLost(b)
        PROVE  Typed'
    BY <1>8 DEF BoxLost, Fault, Fail
  <1>9. CASE UNCHANGED vars
    BY <1>9
  <1> QED BY <1>1, <1>4, <1>5, <1>6, <1>7, <1>8, <1>9 DEF Next

LEMMA AlwaysTyped == Spec => []Typed
  BY TypedInit, TypedStep, PTL DEF Spec

(* The controller's memory, its files and the place in its tick keep to    *)
(* their types, whatever fails and whenever its process is killed.         *)
THEOREM TypeCorrect == Spec => []TypeOK
  <1>1. Typed => TypeOK
    BY DEF Typed
  <1> QED BY <1>1, AlwaysTyped, PTL

-----------------------------------------------------------------------------
(* A request is executed at most once.                                     *)

(* Only DispatchSubmit turns requests into workflows, and markers stay.    *)
LEMMA StepOfRegistered ==
  ASSUME Typed, [Next]_vars
  PROVE  /\ handled \subseteq handled'
         /\ registered' = registered \/ DispatchSubmit
         /\ pc' = "dispatch" =>
              \/ pc = "dispatch" /\ UNCHANGED <<cur, handled, known, registered>>
              \/ \E r \in todo : ClaimRequest(r)
  <1> USE DEF Fault, Fail
  <1>1. CASE Ingest
    BY <1>1 DEF Ingest, BeginTick, MetaWriteFails, AbortTick, EndTick, SkipRequest,
       RequestUnreadable, ClaimRequest, ClaimFails, RequestsDone, AdvanceTo
  <1>2. CASE Dispatch
    BY <1>2 DEF Dispatch, DispatchSubmit, DispatchPause, DispatchTerminate,
       DispatchResume, DispatchReject, Answer, Ack, AckFails, AckFailsTwice,
       AbortTick, EndTick
  <1>3. CASE Advance
    BY <1>3 DEF Advance, Schedule, RefreshAgent, RefreshFails, CreateBox,
       CreateFails, StartRun, StartFails, RecordAgent, RecordFails,
       PublishWorkflow, PublishFails, AdvanceTo, AbortTick, EndTick
  <1>4. CASE ReportError \/ ReportFails \/ Crash \/ Restart
    BY <1>4 DEF ReportError, ReportFails, LoseController, Crash, Restart
  <1>5. CASE \/ \E r \in Requests : SubmitRequest(r)
             \/ \E b \in Boxes : RunEnds(b) \/ BoxLost(b)
             \/ UNCHANGED vars
    BY <1>5 DEF SubmitRequest, RunEnds, BoxLost
  <1> QED BY <1>1, <1>2, <1>3, <1>4, <1>5 DEF Next, Controller

(* What makes it so: a request that was executed, or is about to be, bears *)
(* its marker, and no marker is overlooked.                                *)
Once ==
  /\ AtMostOnce
  /\ \A r \in Requests : registered[r] # 0 => r \in handled
  /\ pc = "dispatch" => cur \in handled /\ registered[cur] = 0

LEMMA OnceStep ==
  ASSUME "read" \notin Faults, Typed, Once, [Next]_vars
  PROVE  Once'
  <1> USE DEF AtMostOnce
  <1>1. handled \subseteq handled'
    BY StepOfRegistered
  <1>2. CASE DispatchSubmit
    BY <1>2 DEF DispatchSubmit, Once, Typed, TypeOK, Answer
  <1>3. CASE registered' = registered
    <2>1. AtMostOnce' /\ \A r \in Requests : registered'[r] # 0 => r \in handled'
      BY <1>1, <1>3 DEF Once
    <2>2. ASSUME NEW r \in todo, ClaimRequest(r)
          PROVE  cur' \in handled' /\ registered'[cur'] = 0
      <3>1. Markers(r) = {}
        BY <2>2 DEF ClaimRequest, Fail, MissedKinds
      <3>2. r \notin handled /\ r \in Requests
        BY <3>1 DEF Markers, Typed, TypeOK
      <3> QED BY <1>3, <2>2, <3>2 DEF ClaimRequest, Once
    <2>3. pc' = "dispatch" => cur' \in handled' /\ registered'[cur'] = 0
      BY <1>3, <2>2, StepOfRegistered DEF Once
    <2> QED BY <2>1, <2>3 DEF Once
  <1> QED BY <1>2, <1>3, StepOfRegistered

LEMMA AlwaysOnce ==
  ASSUME "read" \notin Faults
  PROVE  Spec => []Once
  <1>1. Init => Once
    BY DEF Init, Once, AtMostOnce
  <1>2. Typed /\ Once /\ [Next]_vars => Once'
    BY OnceStep
  <1> QED BY <1>1, <1>2, AlwaysTyped, PTL DEF Spec

(* A request is executed at most once, whatever else fails and whenever    *)
(* the controller is killed, as long as the volume's files are not read as *)
(* missing when they are there.                                            *)
THEOREM RequestsRunOnce ==
  ASSUME "read" \notin Faults
  PROVE  Spec => []AtMostOnce
  <1>1. Once => AtMostOnce
    BY DEF Once
  <1> QED BY <1>1, AlwaysOnce, PTL

(* Within one process the memory of what was claimed is enough.            *)
OncePerProcess ==
  /\ todo \cap known = {}
  /\ \A r \in Requests :
       registered[r] <= ncrashes + (IF r \in known THEN 1 ELSE 0)
  /\ pc = "dispatch" => cur \in known /\ registered[cur] <= ncrashes

LEMMA OncePerProcessStep ==
  ASSUME Typed, OncePerProcess, [Next]_vars
  PROVE  OncePerProcess'
  <1> USE DEF Typed, TypeOK, OncePerProcess
  <1>1. CASE Ingest
    <2>1. registered' = registered /\ ncrashes' = ncrashes
      BY <1>1 DEF Ingest, BeginTick, MetaWriteFails, AbortTick, EndTick,
         SkipRequest, RequestUnreadable, ClaimRequest, ClaimFails, RequestsDone
    <2>2. CASE BeginTick \/ MetaWriteFails \/ RequestsDone
      BY <2>1, <2>2 DEF BeginTick, Listed, MetaWriteFails, AbortTick, EndTick,
         ClearCursor, RequestsDone, AdvanceTo
    <2>3. ASSUME NEW r \in Requests,
                 SkipRequest(r) \/ RequestUnreadable(r)
                   \/ ClaimRequest(r) \/ ClaimFails(r)
          PROVE  OncePerProcess'
      <3>1. r \in todo /\ pc = "ingest" /\ r \notin known
        BY <2>3 DEF SkipRequest, RequestUnreadable, ClaimRequest, ClaimFails
      <3>2. /\ todo' \subseteq todo \ {r}
            /\ known' = known \/ known' = known \cup {r}
            /\ pc' # "dispatch" \/ (cur' = r /\ r \in known')
        BY <2>3, <3>1 DEF SkipRequest, RequestUnreadable, ClaimRequest,
           ClaimFails, EndTick, ClearCursor
      <3>3. registered[r] <= ncrashes
        BY <3>1
      <3> QED BY <2>1, <3>1, <3>2, <3>3
    <2> QED BY <1>1, <2>2, <2>3 DEF Ingest
  <1>2. CASE DispatchSubmit
    <2>1. cur \in Requests /\ cur \in known /\ registered[cur] <= ncrashes
      BY <1>2 DEF DispatchSubmit, CursorOK
    <2> QED BY <1>2, <2>1 DEF DispatchSubmit, Answer
  <1>3. CASE Dispatch /\ ~DispatchSubmit
    BY <1>3 DEF Dispatch, DispatchPause, DispatchTerminate, DispatchResume,
       DispatchReject, Answer, Ack, AckFails, AckFailsTwice, AbortTick, EndTick,
       ClearCursor
  <1>4. CASE Advance
    BY <1>4 DEF Advance, Schedule, RefreshAgent, RefreshFails, CreateBox,
       CreateFails, StartRun, StartFails, RecordAgent, RecordFails,
       PublishWorkflow, PublishFails, AdvanceTo, AbortTick, EndTick, ClearCursor
  <1>5. CASE ReportError \/ Restart
    BY <1>5 DEF ReportError, Restart
  <1>6. CASE ReportFails \/ Crash
    <2>1. LoseController
      BY <1>6 DEF ReportFails, Crash
    <2>2. todo' = {} /\ known' = {} /\ pc' = "down"
      BY <2>1 DEF LoseController, FreshMemory, ClearCursor
    <2>3. registered' = registered /\ ncrashes' = ncrashes + 1
      BY <2>1 DEF LoseController
    <2>4. \A r \in Requests : registered[r] <= ncrashes + 1
      OBVIOUS
    <2> QED BY <2>2, <2>3, <2>4
  <1>7. CASE \/ \E r \in Requests : SubmitRequest(r)
             \/ \E b \in Boxes : RunEnds(b) \/ BoxLost(b)
             \/ UNCHANGED vars
    BY <1>7 DEF SubmitRequest, RunEnds, BoxLost
  <1> QED BY <1>1, <1>2, <1>3, <1>4, <1>5, <1>6, <1>7 DEF Next, Controller

LEMMA AlwaysOncePerProcess == Spec => []OncePerProcess
  <1>1. Init => OncePerProcess
    BY DEF Init, OncePerProcess, FreshMemory
  <1>2. Typed /\ OncePerProcess /\ [Next]_vars => OncePerProcess'
    BY OncePerProcessStep
  <1> QED BY <1>1, <1>2, AlwaysTyped, PTL DEF Spec

(* One controller executes a request at most once, even when reads and     *)
(* writes of the volume fail: a second execution takes a second one.       *)
THEOREM RequestsRunOncePerProcess == Spec => []AtMostOncePerProcess
  <1>1. Typed /\ OncePerProcess => AtMostOncePerProcess
    BY DEF OncePerProcess, AtMostOncePerProcess, Typed, TypeOK
  <1> QED BY <1>1, AlwaysTyped, AlwaysOncePerProcess, PTL

-----------------------------------------------------------------------------
(* Every agent the scheduler counts is published and runs what it says.    *)

(* The sandbox of an agent, recorded or being started, is in use, so that  *)
(* no other agent is given it.                                             *)
Placed(t, b) == b \in Boxes /\ boxTask[b] = t /\ boxState[b] # "unused"

Placement ==
  /\ \A t \in Tasks :
       slot[t] # None => Placed(t, slot[t]) /\ agentFile[slot[t]] # "none"
  /\ pc \in {"start", "record"} => task \in Tasks /\ Placed(task, box)

(* What leaves the recorded agents alone: the files only gain published    *)
(* states, no sandbox in use changes hands, slots are kept or forgotten.   *)
LEMMA KeepsPlacement ==
  ASSUME Typed, Placement,
         slot' = slot \/ slot' = [t \in Tasks |-> None],
         \A b \in Boxes : agentFile[b] # "none" => agentFile'[b] # "none",
         \A b \in Boxes : boxState[b] # "unused" =>
           boxState'[b] # "unused" /\ boxTask'[b] = boxTask[b],
         pc' \in {"start", "record"} =>
           pc \in {"start", "record"} /\ UNCHANGED <<task, box>>
  PROVE  Placement'
  BY DEF Placement, Placed

LEMMA PlacementStep ==
  ASSUME Typed, Placement, [Next]_vars
  PROVE  Placement'
  <1> USE DEF Typed, TypeOK
  <1>1. CASE Ingest
    BY <1>1, KeepsPlacement DEF Ingest, BeginTick, MetaWriteFails, AbortTick,
       EndTick, SkipRequest, RequestUnreadable, ClaimRequest, ClaimFails,
       RequestsDone, AdvanceTo
  <1>2. CASE DispatchTerminate
    <2>1. PICK t \in Stopped :
            /\ boxState' \in {boxState, [boxState EXCEPT ![slot[t]] = "gone"]}
            /\ agentFile' \in {agentFile, [agentFile EXCEPT ![slot[t]] = "cancelled"]}
      BY <1>2 DEF DispatchTerminate
    <2>2. slot' = slot /\ boxTask' = boxTask /\ pc' = "ack"
      BY <1>2 DEF DispatchTerminate, Answer
    <2> QED BY <2>1, <2>2, KeepsPlacement
  <1>3. CASE Dispatch /\ ~DispatchTerminate
    BY <1>3, KeepsPlacement DEF Dispatch, DispatchSubmit, DispatchPause,
       DispatchResume, DispatchReject, Answer, Ack, AckFails, AckFailsTwice,
       AbortTick, EndTick
  <1>4. ASSUME NEW t \in Tasks, RefreshAgent(t)
        PROVE  Placement'
    <2>1. PICK state \in AgentStates :
            agentFile' = [agentFile EXCEPT ![slot[t]] = state]
      BY <1>4 DEF RefreshAgent, AgentStates
    <2>2. \A b \in Boxes : agentFile[b] # "none" => agentFile'[b] # "none"
      BY <2>1 DEF AgentStates
    <2> QED BY <1>4, <2>2, KeepsPlacement DEF RefreshAgent
  <1>5. CASE CreateBox
    <2>1. PICK i \in stodo : task' = <<Head(wtodo), stage, i>>
      BY <1>5 DEF CreateBox
    <2>2. task' \in Tasks
      <3>1. Head(wtodo) \in Requests
        BY <1>5 DEF CreateBox, CursorOK
      <3> QED BY <1>5, <2>1, <3>1, TaskInTasks DEF CreateBox, CursorOK
    <2>3. box' \in Boxes /\ boxState[box'] = "unused"
      BY <1>5 DEF CreateBox, UnusedBoxes
    <2>4. /\ boxState' = [boxState EXCEPT ![box'] = "created"]
          /\ boxTask' = [boxTask EXCEPT ![box'] = task']
          /\ UNCHANGED <<slot, agentFile>> /\ pc' = "start"
      BY <1>5 DEF CreateBox
    <2>5. \A t \in Tasks : slot[t] # None => slot[t] # box'
      BY <2>3 DEF Placement, Placed
    <2> QED BY <2>2, <2>3, <2>4, <2>5 DEF Placement, Placed
  <1>6. CASE StartRun
    BY <1>6 DEF StartRun, Placement, Placed
  <1>7. CASE RecordAgent
    <2>1. PICK state \in {"running", "done", "starting"} :
            agentFile' = [agentFile EXCEPT ![box] = state]
      BY <1>7 DEF RecordAgent
    <2>2. slot' = [slot EXCEPT ![task] = box] /\ UNCHANGED <<boxTask, boxState>>
      BY <1>7 DEF RecordAgent
    <2>3. task \in Tasks /\ Placed(task, box)
      BY <1>7 DEF RecordAgent, Placement
    <2> QED BY <1>7, <2>1, <2>2, <2>3 DEF Placement, Placed, RecordAgent
  <1>8. CASE \/ \E t \in Tasks : RefreshFails(t)
             \/ Schedule \/ CreateFails \/ StartFails \/ RecordFails
             \/ PublishWorkflow \/ PublishFails
    BY <1>8, KeepsPlacement DEF RefreshFails, Schedule, CreateFails, StartFails,
       RecordFails, PublishWorkflow, PublishFails, AdvanceTo, AbortTick, EndTick
  <1>9. CASE ReportError \/ Restart
    BY <1>9, KeepsPlacement DEF ReportError, Restart
  <1>10. CASE ReportFails \/ Crash
    BY <1>10, KeepsPlacement DEF ReportFails, Crash, LoseController, FreshMemory
  <1>11. ASSUME NEW r \in Requests, SubmitRequest(r)
         PROVE  Placement'
    BY <1>11, KeepsPlacement DEF SubmitRequest
  <1>12. ASSUME NEW b \in Boxes, RunEnds(b) \/ BoxLost(b)
         PROVE  Placement'
    BY <1>12, KeepsPlacement DEF RunEnds, BoxLost
  <1>13. CASE UNCHANGED vars
    BY <1>13 DEF Placement, Placed
  <1> QED BY <1>1, <1>2, <1>3, <1>4, <1>5, <1>6, <1>7, <1>8, <1>9, <1>10, <1>11,
             <1>12, <1>13 DEF Next, Controller, Advance

(* Every agent the controller counts was started in the sandbox recorded   *)
(* for it and is on the volume, where the dashboard and aom-swarm stop     *)
(* find it, whatever failed on the way.                                    *)
THEOREM AgentsArePublished == Spec => []RecordedIsPublished
  <1>1. Init => Placement
    BY DEF Init, Placement, FreshMemory
  <1>2. Typed /\ Placement /\ [Next]_vars => Placement'
    BY PlacementStep
  <1>3. Placement => RecordedIsPublished
    BY DEF Placement, Placed, RecordedIsPublished
  <1> QED BY <1>1, <1>2, <1>3, AlwaysTyped, PTL DEF Spec

-----------------------------------------------------------------------------
(* The scheduler fills the free slots of a pool, never more.               *)

(* A nonempty set of numbers has a least one ...                           *)
LEMMA LeastExists ==
  ASSUME NEW S \in SUBSET Nat, S # {}
  PROVE  \E k \in S : \A j \in S : k <= j
  <1>1. PICK k \in S : \A j \in S : ~(<<j, k>> \in OpToRel(<, Nat))
    BY NatLessThanWellFounded, WFMin
  <1>2. ASSUME NEW j \in S, j < k
        PROVE  FALSE
    <2>1. <<j, k>> \in OpToRel(<, Nat)
      BY <1>2, Zenon DEF OpToRel
    <2> QED BY <1>1, <2>1
  <1> QED BY <1>2

(* ... and, when it is bounded, a greatest one.                            *)
LEMMA GreatestExists ==
  ASSUME NEW S \in SUBSET Nat, S # {}, NEW n \in Nat, \A x \in S : x <= n
  PROVE  \E m \in S : \A x \in S : x <= m
  <1> DEFINE Bounds == {k \in Nat : \A x \in S : x <= k}
  <1>1. PICK k \in Bounds : \A j \in Bounds : k <= j
    BY LeastExists
  <1>2. CASE k = 0
    <2>1. \A x \in S : x = 0
      BY <1>2
    <2> QED BY <1>2, <2>1
  <1>3. CASE k # 0 /\ k \notin S
    <2>1. k - 1 \in Bounds
      BY <1>3
    <2> QED BY <1>1, <2>1
  <1> QED BY <1>2, <1>3

(* The free slots of a pool are filled, never more.                        *)
LEMMA NextIndicesBound ==
  ASSUME NEW r \in Requests, NEW s \in DOMAIN Plan[r]
  PROVE  LET open == Started(r, s) \ Finished(r, s)
             next == StageNextIndices(r, s)
         IN  /\ IsFiniteSet(open) /\ IsFiniteSet(next)
             /\ next # {} => Cardinality(open) + Cardinality(next)
                               <= Plan[r][s].maxConcurrent
  <1> DEFINE n == Plan[r][s].agents
             max == Plan[r][s].maxConcurrent
             open == Started(r, s) \ Finished(r, s)
             next == StageNextIndices(r, s)
             pending == (1..n) \ Started(r, s)
             below(i) == {j \in pending : j < i}
  <1>1. n \in Nat /\ max \in Nat
    BY PlanType
  <1>2. IsFiniteSet(1..n)
    BY <1>1, FS_Interval
  <1>3. open \subseteq 1..n /\ next \subseteq 1..n /\ pending \subseteq 1..n
    BY NextIndicesType DEF Started
  <1>4. IsFiniteSet(open) /\ IsFiniteSet(next) /\ IsFiniteSet(pending)
    BY <1>2, <1>3, FS_Subset
  <1>5. ASSUME next # {}
        PROVE  Cardinality(open) + Cardinality(next) <= max
    <2> HIDE DEF n, max, open
    <2>1. PICK m \in next : \A x \in next : x <= m
      <3>1. next \in SUBSET Nat /\ \A x \in next : x <= n
        BY <1>1, <1>3
      <3> QED BY <1>1, <1>5, <3>1, GreatestExists
    <2>2. m \in pending /\ Cardinality(open) + Cardinality(below(m)) < max
      BY <2>1 DEF StageNextIndices, n, max, open
    <2>3. IsFiniteSet(below(m)) /\ m \notin below(m)
      BY <1>1, <1>3, <1>4, <2>2, FS_Subset
    <2>4. /\ IsFiniteSet(below(m) \cup {m})
          /\ Cardinality(below(m) \cup {m}) = Cardinality(below(m)) + 1
      BY <2>3, FS_AddElement
    <2>5. next \subseteq below(m) \cup {m}
      <3>1. next \subseteq pending
        BY DEF StageNextIndices, n
      <3> QED BY <1>1, <1>3, <2>1, <2>2, <3>1
    <2>6. Cardinality(next) <= Cardinality(below(m)) + 1
      BY <2>4, <2>5, FS_Subset
    <2>7. /\ Cardinality(open) \in Nat /\ Cardinality(next) \in Nat
          /\ Cardinality(below(m)) \in Nat
      BY <1>4, <2>3, FS_CardinalityType
    <2> HIDE DEF next, below, pending
    <2> QED BY <1>1, <2>2, <2>6, <2>7
  <1> QED BY <1>4, <1>5

-----------------------------------------------------------------------------
(* What a step may do to the agents.                                       *)

Spawning == pc \in {"spawn", "start", "record"}

(* What a step may do to the agents and to the place in _advance: nothing, *)
(* leave the workflow, go on to the next one, or one of the actions named. *)
Unmoved == UNCHANGED <<pc, wtodo, rtodo, spawning, paused, runs, cloud>>
Elsewhere == /\ pc' \notin {"refresh", "spawn", "start", "record"}
             /\ UNCHANGED <<runs, cloud>>
NextWorkflow == /\ pc' = "refresh" /\ rtodo' = Recorded(Head(wtodo'))
                /\ stodo' = {} /\ UNCHANGED <<runs, cloud>>
Begins == CreateBox \/ StartRun \/ RecordAgent
Changes == \/ DispatchTerminate
           \/ \E t \in Tasks : RefreshAgent(t) \/ RefreshFails(t)
           \/ \E b \in Boxes : RunEnds(b) \/ BoxLost(b)

LEMMA StepOfAgents ==
  ASSUME Typed, [Next]_vars
  PROVE  \/ Unmoved \/ Elsewhere \/ NextWorkflow \/ Schedule
         \/ Begins \/ Changes \/ LoseController
  <1> USE DEF Unmoved, Elsewhere, NextWorkflow, Begins, Changes, Fault, Fail
  <1> USE DEF Typed, CursorOK
  <1>1. CASE Ingest
    BY <1>1 DEF Ingest, BeginTick, MetaWriteFails, AbortTick, EndTick, SkipRequest,
       RequestUnreadable, ClaimRequest, ClaimFails, RequestsDone, AdvanceTo
  <1>2. CASE Dispatch
    BY <1>2 DEF Dispatch, DispatchSubmit, DispatchPause,
       DispatchResume, DispatchReject, Answer, Ack, AckFails, AckFailsTwice,
       AbortTick, EndTick
  <1>3. CASE Advance
    BY <1>3 DEF Advance, CreateFails, StartFails, RecordFails,
       PublishWorkflow, PublishFails, AdvanceTo, AbortTick, EndTick
  <1>4. CASE ReportError \/ ReportFails \/ Crash \/ Restart
    BY <1>4 DEF ReportError, ReportFails, Crash, Restart
  <1>5. CASE \/ \E r \in Requests : SubmitRequest(r)
             \/ \E b \in Boxes : RunEnds(b) \/ BoxLost(b)
             \/ UNCHANGED vars
    BY <1>5 DEF SubmitRequest
  <1> QED BY <1>1, <1>2, <1>3, <1>4, <1>5 DEF Next, Controller

(* The actions that change the agents, by what they do to them.            *)
LEMMA TerminateStep ==
  ASSUME Typed, DispatchTerminate
  PROVE  /\ pc = "dispatch" /\ pc' = "ack" /\ Verb[cur] = "stop"
         /\ UNCHANGED <<slot, boxTask, advancing, paused>>
         /\ \E t \in Stopped :
              /\ seen' = [seen EXCEPT ![t] = "cancelled"]
              /\ \/ boxState' = [boxState EXCEPT ![slot[t]] = "gone"]
                 \/ boxState' = boxState /\ "stop" \in Faults
  <1>1. PICK t \in Stopped, ends \in BOOLEAN, writes \in BOOLEAN :
            LET failed == (IF ends THEN {} ELSE {"stop"})
                          \cup (IF writes THEN {} ELSE {"put"})
            IN  /\ Fail(Cardinality(failed), failed)
                /\ seen' = [seen EXCEPT ![t] = "cancelled"]
                /\ boxState' = IF ends THEN [boxState EXCEPT ![slot[t]] = "gone"]
                               ELSE boxState
                /\ agentFile' = IF writes
                                THEN [agentFile EXCEPT ![slot[t]] = "cancelled"]
                                ELSE agentFile
                /\ Answer(IF writes THEN "ok" ELSE "failed")
    BY DEF DispatchTerminate
  <1>2. ends = FALSE => "stop" \in Faults
    BY <1>1 DEF Fail
  <1>3. /\ seen' = [seen EXCEPT ![t] = "cancelled"]
        /\ \/ boxState' = [boxState EXCEPT ![slot[t]] = "gone"]
           \/ boxState' = boxState /\ "stop" \in Faults
    BY <1>1, <1>2
  <1>4. /\ pc = "dispatch" /\ pc' = "ack" /\ Verb[cur] = "stop"
        /\ UNCHANGED <<slot, boxTask, advancing, paused>>
    BY <1>1 DEF DispatchTerminate, Answer
  <1> QED BY <1>3, <1>4

(* A refresh leaves the state the sandbox has, or, when the read raises,   *)
(* the one seen before.                                                    *)
LEMMA RefreshStep ==
  ASSUME Typed, NEW t \in Tasks, RefreshAgent(t) \/ RefreshFails(t)
  PROVE  /\ UNCHANGED <<slot, cloud>>
         /\ pc = "refresh" /\ t \in rtodo
         /\ \/ pc' = "refresh" /\ rtodo' = rtodo \ {t}
               /\ UNCHANGED <<wtodo, spawning, paused>>
            \/ pc' = "report" /\ stodo' = {}
         /\ \E state :
              /\ seen' = [seen EXCEPT ![t] = state]
              /\ \/ state \in Reading(slot[t], seen[t])
                 \/ state = seen[t] /\ "status" \in Faults
  <1>1. CASE RefreshAgent(t)
    <2>1. PICK state \in {"starting", "running", "done", seen[t]} :
            /\ ReadStatus(slot[t], seen[t], state)
            /\ seen' = [seen EXCEPT ![t] = state]
            /\ agentFile' = [agentFile EXCEPT ![slot[t]] = state]
      BY <1>1 DEF RefreshAgent
    <2>2. \/ state \in Reading(slot[t], seen[t])
          \/ state = seen[t] /\ "status" \in Faults
      BY <2>1 DEF ReadStatus, Fault, Fail
    <2> QED BY <1>1, <2>1, <2>2 DEF RefreshAgent
  <1>2. CASE RefreshFails(t)
    BY <1>2 DEF RefreshFails, EndTick, ClearCursor
  <1> QED BY <1>1, <1>2

(* A sandbox in use is one whose run was started.                          *)
Used(b) == boxState[b] \in {"running", "ended", "gone"}

Sandboxed ==
  /\ \A t \in Tasks : slot[t] # None => Used(slot[t])
  /\ pc = "start" => boxState[box] = "created"
  /\ pc = "record" => Used(box)

LEMMA SandboxedStep ==
  ASSUME Typed, Placement, Sandboxed, [Next]_vars
  PROVE  Sandboxed'
  <1> USE DEF Typed, TypeOK, Placement, Placed, Sandboxed, Used
  <1>1. CASE Unmoved \/ Elsewhere \/ NextWorkflow
    BY <1>1 DEF Unmoved, Elsewhere, NextWorkflow
  <1>2. CASE Schedule
    BY <1>2 DEF Schedule
  <1>3. CASE CreateBox
    <2>1. /\ box' \in Boxes /\ boxState[box'] = "unused" /\ slot' = slot
          /\ boxState' = [boxState EXCEPT ![box'] = "created"] /\ pc' = "start"
      BY <1>3 DEF CreateBox, UnusedBoxes
    <2> QED BY <2>1
  <1>4. CASE StartRun
    BY <1>4 DEF StartRun
  <1>5. CASE RecordAgent
    <2>1. /\ pc = "record" /\ pc' = "spawn" /\ UNCHANGED cloud
          /\ slot' = [slot EXCEPT ![task] = box]
      BY <1>5 DEF RecordAgent
    <2> QED BY <2>1
  <1>6. CASE DispatchTerminate
    <2>1. PICK t \in Stopped : \/ boxState' = [boxState EXCEPT ![slot[t]] = "gone"]
                               \/ boxState' = boxState
      BY <1>6, TerminateStep
    <2> QED BY <1>6, <2>1, TerminateStep DEF Stopped
  <1>7. ASSUME NEW t \in Tasks, RefreshAgent(t) \/ RefreshFails(t)
        PROVE  Sandboxed'
    BY <1>7, RefreshStep
  <1>8. ASSUME NEW b \in Boxes, RunEnds(b) \/ BoxLost(b)
        PROVE  Sandboxed'
    <2>1. /\ boxState[b] \in {"running", "ended"} /\ UNCHANGED <<slot, pc, box>>
          /\ \E state \in {"ended", "gone"} :
               boxState' = [boxState EXCEPT ![b] = state]
      BY <1>8 DEF RunEnds, BoxLost
    <2> QED BY <2>1
  <1>9. CASE LoseController
    BY <1>9 DEF LoseController, FreshMemory
  <1>10. \/ Unmoved \/ Elsewhere \/ NextWorkflow \/ Schedule
         \/ Begins \/ Changes \/ LoseController
    BY StepOfAgents
  <1> HIDE DEF Typed, TypeOK, Placement, Placed, Sandboxed, Used
  <1> QED BY <1>1, <1>2, <1>3, <1>4, <1>5, <1>6, <1>7, <1>8, <1>9, <1>10
          DEF Begins, Changes

(* What was decided when the workflow was scheduled stays true while its   *)
(* agents are started: they are fresh and fit the pool with those that are *)
(* not finished, the stages before theirs are complete, and the workflow   *)
(* is not paused.                                                          *)
Open(r, s) == Started(r, s) \ Finished(r, s)

HasRoom(r, s, next) ==
  /\ next \cap Started(r, s) = {}
  /\ Cardinality(Open(r, s)) + Cardinality(next) <= Plan[r][s].maxConcurrent

EarlierComplete(r, s) == \A u \in 1..(s - 1) : StageComplete(r, u)

Scheduled ==
  Spawning /\ stodo # {} =>
    /\ HasRoom(Head(wtodo), stage, stodo)
    /\ EarlierComplete(Head(wtodo), stage)
    /\ Head(wtodo) \notin paused

TaskChosen ==
  pc \in {"start", "record"} => \E i \in stodo : task = <<Head(wtodo), stage, i>>

LEMMA OpenFinite ==
  ASSUME NEW r \in Requests, NEW s \in DOMAIN Plan[r]
  PROVE  /\ IsFiniteSet(Open(r, s))
         /\ Cardinality(Open(r, s)) \in Nat
  BY NextIndicesBound, FS_CardinalityType DEF Open

LEMMA StagesBefore ==
  ASSUME NEW r \in Requests, NEW s \in DOMAIN Plan[r], NEW u \in 1..(s - 1)
  PROVE  u \in DOMAIN Plan[r]
  <1>1. s \in Nat /\ DOMAIN Plan[r] = 1..Len(Plan[r]) /\ Len(Plan[r]) \in Nat
    <2> DEFINE StageSet == [agents : Nat \ {0}, maxConcurrent : Nat \ {0}]
    <2>1. Plan[r] \in Seq(StageSet)
      BY PlanAssumption DEF PlanAssumption
    <2> HIDE DEF StageSet
    <2> QED BY <2>1
  <1> QED BY <1>1

(* Recording an agent for index i of stage s changes that index only.      *)
LEMMA RecordedChange ==
  ASSUME Typed, NEW r \in Requests, NEW s \in DOMAIN Plan[r],
         NEW i \in 1..Plan[r][s].agents, NEW b, NEW state,
         slot' = [slot EXCEPT ![<<r, s, i>>] = b],
         seen' = [seen EXCEPT ![<<r, s, i>>] = state]
  PROVE  /\ Started(r, s)' \subseteq Started(r, s) \cup {i}
         /\ Open(r, s)' \subseteq Open(r, s) \cup {i}
         /\ \A u \in DOMAIN Plan[r] : u # s => Open(r, u)' = Open(r, u)
         /\ \A u \in DOMAIN Plan[r] : u # s /\ StageComplete(r, u) => StageComplete(r, u)'
         /\ \A q \in Requests : q # r => \A u \in DOMAIN Plan[q] : Open(q, u)' = Open(q, u)
  <1> USE DEF Started, Finished, Open, StageComplete
  <1>1. slot \in [Tasks -> Boxes \cup {None}] /\ seen \in [Tasks -> AgentStates]
    BY DEF Typed, TypeOK
  <1>2. \A q \in Requests : \A u \in DOMAIN Plan[q] : \A j \in 1..Plan[q][u].agents :
          /\ <<q, u, j>> \in Tasks
          /\ <<q, u, j>> # <<r, s, i>> =>
               slot'[<<q, u, j>>] = slot[<<q, u, j>>] /\ seen'[<<q, u, j>>] = seen[<<q, u, j>>]
    BY <1>1, TaskInTasks
  <1>3. \A j \in 1..Plan[r][s].agents : j # i =>
          slot'[<<r, s, j>>] = slot[<<r, s, j>>] /\ seen'[<<r, s, j>>] = seen[<<r, s, j>>]
    BY <1>2
  <1>4. \A u \in DOMAIN Plan[r] : u # s => \A j \in 1..Plan[r][u].agents :
          slot'[<<r, u, j>>] = slot[<<r, u, j>>] /\ seen'[<<r, u, j>>] = seen[<<r, u, j>>]
    BY <1>2
  <1>5. \A q \in Requests : q # r => \A u \in DOMAIN Plan[q] : \A j \in 1..Plan[q][u].agents :
          slot'[<<q, u, j>>] = slot[<<q, u, j>>] /\ seen'[<<q, u, j>>] = seen[<<q, u, j>>]
    BY <1>2
  <1>6. Started(r, s)' \subseteq Started(r, s) \cup {i}
    BY <1>3
  <1>7. Open(r, s)' \subseteq Open(r, s) \cup {i}
    BY <1>3
  <1>8. \A u \in DOMAIN Plan[r] : u # s =>
          /\ Started(r, u)' = Started(r, u) /\ Finished(r, u)' = Finished(r, u)
    BY <1>4
  <1>9. \A q \in Requests : q # r => \A u \in DOMAIN Plan[q] :
          /\ Started(q, u)' = Started(q, u) /\ Finished(q, u)' = Finished(q, u)
    BY <1>5
  <1> QED BY <1>6, <1>7, <1>8, <1>9

LEMMA RecordKeepsRoom ==
  ASSUME Typed, NEW r \in Requests, NEW s \in DOMAIN Plan[r],
         NEW N \in SUBSET (1..Plan[r][s].agents), NEW i \in N, NEW b, NEW state,
         slot' = [slot EXCEPT ![<<r, s, i>>] = b],
         seen' = [seen EXCEPT ![<<r, s, i>>] = state],
         HasRoom(r, s, N)
  PROVE  HasRoom(r, s, N \ {i})'
  <1> DEFINE max == Plan[r][s].maxConcurrent
  <1>1. Plan[r][s].agents \in Nat /\ max \in Nat
    BY PlanType
  <1>2. ASSUME NEW n \in Nat
        PROVE  IsFiniteSet(1..n)
    BY FS_Interval
  <1>3. IsFiniteSet(N)
    BY <1>1, <1>2, FS_Subset
  <1>4. /\ IsFiniteSet(N \ {i}) /\ Cardinality(N \ {i}) = Cardinality(N) - 1
        /\ Cardinality(N) \in Nat
    BY <1>3, FS_RemoveElement, FS_CardinalityType
  <1>5. /\ Started(r, s)' \subseteq Started(r, s) \cup {i}
        /\ Open(r, s)' \subseteq Open(r, s) \cup {i}
    BY RecordedChange
  <1>6. i \notin Open(r, s)
    BY DEF HasRoom, Open
  <1>7. IsFiniteSet(Open(r, s)) /\ Cardinality(Open(r, s)) \in Nat
    BY OpenFinite
  <1>8. /\ IsFiniteSet(Open(r, s) \cup {i})
        /\ Cardinality(Open(r, s) \cup {i}) = Cardinality(Open(r, s)) + 1
    BY <1>6, <1>7, FS_AddElement
  <1>9. /\ Cardinality(Open(r, s)') <= Cardinality(Open(r, s)) + 1
        /\ Cardinality(Open(r, s)') \in Nat
    BY <1>5, <1>8, FS_Subset, FS_CardinalityType
  <1>10. Cardinality(Open(r, s)') + Cardinality(N \ {i}) <= max
    BY <1>1, <1>4, <1>7, <1>9 DEF HasRoom
  <1>11. (N \ {i}) \cap Started(r, s)' = {}
    BY <1>5 DEF HasRoom
  <1> QED BY <1>10, <1>11 DEF HasRoom

LEMMA SpawnCursor ==
  ASSUME Typed, Spawning
  PROVE  /\ Head(wtodo) \in Requests
         /\ stodo # {} => /\ stage \in DOMAIN Plan[Head(wtodo)] /\ stage \in Nat
                          /\ stodo \subseteq 1..Plan[Head(wtodo)][stage].agents
  <1>1. wtodo \in Seq(Requests) /\ wtodo # <<>> /\ stage \in Nat
    BY DEF Typed, TypeOK, CursorOK, Spawning
  <1> QED BY <1>1 DEF Typed, CursorOK

LEMMA TaskChosenStep ==
  ASSUME Typed, TaskChosen, [Next]_vars
  PROVE  TaskChosen'
  <1> USE DEF TaskChosen
  <1>1. CASE Unmoved \/ Elsewhere \/ NextWorkflow
    BY <1>1 DEF Unmoved, Elsewhere, NextWorkflow
  <1>2. CASE Schedule
    BY <1>2 DEF Schedule
  <1>3. CASE CreateBox
    BY <1>3 DEF CreateBox
  <1>4. CASE StartRun
    BY <1>4 DEF StartRun
  <1>5. CASE RecordAgent
    BY <1>5 DEF RecordAgent
  <1>6. CASE DispatchTerminate
    BY <1>6, TerminateStep
  <1>7. ASSUME NEW t \in Tasks, RefreshAgent(t) \/ RefreshFails(t)
        PROVE  TaskChosen'
    BY <1>7, RefreshStep
  <1>8. ASSUME NEW b \in Boxes, RunEnds(b) \/ BoxLost(b)
        PROVE  TaskChosen'
    BY <1>8 DEF RunEnds, BoxLost
  <1>9. CASE LoseController
    BY <1>9 DEF LoseController
  <1> QED BY <1>1, <1>2, <1>3, <1>4, <1>5, <1>6, <1>7, <1>8, <1>9, StepOfAgents
          DEF Begins, Changes

LEMMA ScheduledStep ==
  ASSUME Typed, TaskChosen, Scheduled, [Next]_vars
  PROVE  Scheduled'
  <1> DEFINE r == Head(wtodo)
  <1>1. CASE UNCHANGED <<pc, wtodo, stage, stodo, paused, runs>>
    BY <1>1 DEF Scheduled, Spawning, HasRoom, EarlierComplete, StageComplete,
       Open, Started, Finished
  <1>2. CASE pc' \notin {"spawn", "start", "record"} \/ stodo' = {}
    BY <1>2 DEF Scheduled, Spawning
  <1>3. CASE Schedule
    <2>1. r \in Requests /\ stodo = {} /\ pc = "refresh"
      BY <1>3 DEF Schedule, Typed, TypeOK, CursorOK
    <2>2. UNCHANGED <<wtodo, paused, runs>>
      BY <1>3 DEF Schedule
    <2>3. \/ stodo' = {}
          \/ /\ ~NothingToStart(r)
             /\ \E s \in DOMAIN Plan[r] : ActiveStage(r, s) /\ stage' = s
                                          /\ stodo' = StageNextIndices(r, s)
      BY <1>3, <2>1 DEF Schedule
    <2>4. ASSUME NEW s \in DOMAIN Plan[r], ~NothingToStart(r), ActiveStage(r, s),
                 stage' = s, stodo' = StageNextIndices(r, s), stodo' # {}
          PROVE  Scheduled'
      <3>1. /\ stodo' \cap Started(r, s) = {}
            /\ Cardinality(Open(r, s)) + Cardinality(stodo') <= Plan[r][s].maxConcurrent
        BY <2>1, <2>4, NextIndicesBound DEF StageNextIndices, Open
      <3>2. EarlierComplete(r, s) /\ r \notin paused
        BY <2>4 DEF ActiveStage, EarlierComplete, NothingToStart
      <3> QED BY <2>2, <2>4, <3>1, <3>2 DEF Scheduled, HasRoom, EarlierComplete,
                 StageComplete, Open, Started, Finished
    <2> QED BY <1>2, <2>3, <2>4
  <1>4. CASE CreateBox \/ StartRun
    <2>1. pc \in {"spawn", "start"} /\ UNCHANGED <<wtodo, stage, stodo, paused, runs>>
      BY <1>4 DEF CreateBox, StartRun
    <2> QED BY <2>1 DEF Scheduled, Spawning, HasRoom, EarlierComplete, StageComplete,
               Open, Started, Finished
  <1>5. CASE RecordAgent
    <2>1. PICK i \in stodo : task = <<r, stage, i>>
      BY <1>5 DEF RecordAgent, TaskChosen
    <2>2. PICK state : seen' = [seen EXCEPT ![<<r, stage, i>>] = state]
      BY <1>5, <2>1 DEF RecordAgent
    <2>3. /\ slot' = [slot EXCEPT ![<<r, stage, i>>] = box]
          /\ UNCHANGED <<wtodo, stage, paused>>
          /\ Spawning
      BY <1>5, <2>1 DEF RecordAgent, Spawning
    <2>4. stodo' = stodo \ {i}
      BY <1>5, <2>1 DEF RecordAgent
    <2>5. /\ r \in Requests /\ stage \in DOMAIN Plan[r] /\ stage \in Nat
          /\ stodo \in SUBSET (1..Plan[r][stage].agents)
      BY <2>1, <2>3, SpawnCursor
    <2>6. HasRoom(r, stage, stodo) /\ EarlierComplete(r, stage) /\ r \notin paused
      BY <2>1, <2>3 DEF Scheduled
    <2>7. HasRoom(r, stage, stodo)'
      <3>1. PICK q \in Requests : q = r
        BY <2>5
      <3>2. PICK s \in DOMAIN Plan[q] : s = stage
        BY <2>5, <3>1
      <3>3. PICK N \in SUBSET (1..Plan[q][s].agents) : N = stodo
        BY <2>5, <3>1, <3>2
      <3>4. HasRoom(q, s, N \ {i})'
        <4>1. i \in N /\ HasRoom(q, s, N)
          BY <2>1, <2>6, <3>1, <3>2, <3>3
        <4>2. /\ slot' = [slot EXCEPT ![<<q, s, i>>] = box]
              /\ seen' = [seen EXCEPT ![<<q, s, i>>] = state]
          BY <2>2, <2>3, <3>1, <3>2
        <4> QED BY <4>1, <4>2, RecordKeepsRoom
      <3>5. q = r' /\ s = stage' /\ N \ {i} = stodo'
        BY <2>3, <2>4, <3>1, <3>2, <3>3
      <3> QED BY <3>4, <3>5
    <2>8. EarlierComplete(r, stage)'
      <3>1. ASSUME NEW u \in 1..(stage - 1)
            PROVE  StageComplete(r, u)'
        <4>1. u \in DOMAIN Plan[r] /\ u # stage
          BY <2>5, StagesBefore
        <4>2. StageComplete(r, u)
          BY <2>6 DEF EarlierComplete
        <4> QED BY <2>1, <2>2, <2>3, <2>5, <4>1, <4>2, RecordedChange
      <3> QED BY <2>3, <3>1 DEF EarlierComplete
    <2> QED BY <2>3, <2>6, <2>7, <2>8 DEF Scheduled
  <1>6. CASE DispatchTerminate
    BY <1>2, <1>6, TerminateStep
  <1>7. ASSUME NEW t \in Tasks, RefreshAgent(t) \/ RefreshFails(t)
        PROVE  Scheduled'
    BY <1>2, <1>7, RefreshStep
  <1>8. ASSUME NEW b \in Boxes, RunEnds(b) \/ BoxLost(b)
        PROVE  Scheduled'
    BY <1>1, <1>8 DEF RunEnds, BoxLost
  <1>9. CASE LoseController
    BY <1>2, <1>9 DEF LoseController
  <1>10. CASE Unmoved \/ Elsewhere \/ NextWorkflow
    BY <1>1, <1>2, <1>10 DEF Unmoved, Elsewhere, NextWorkflow
  <1> QED BY <1>3, <1>4, <1>5, <1>6, <1>7, <1>8, <1>9, <1>10, StepOfAgents
          DEF Begins, Changes

-----------------------------------------------------------------------------
(* What the controller believes of the agents.                             *)

(* A stop may fail unnoticed: the controller then takes for cancelled an   *)
(* agent that runs.  The next refresh corrects it, unless that read fails  *)
(* as well.                                                                *)
BlindStops == /\ "stop" \in Faults
              /\ \E r \in Requests : Verb[r] = "stop" /\ Target[r] \in Boxes

StopsAreSeen == BlindStops => "status" \notin Faults

BoxOver(b) == boxState[b] \in {"ended", "gone"}

Misbelieved(t) == /\ slot[t] # None /\ seen[t] \in TerminalStates
                  /\ ~BoxOver(slot[t])

(* What is believed of the agents of the workflow at hand is true once     *)
(* they are refreshed, when new agents are scheduled and started.          *)
Beliefs ==
  /\ \A t \in Tasks : Misbelieved(t) => BlindStops
  /\ pc \in {"refresh", "spawn", "start", "record"} =>
       \A t \in TasksOf(Head(wtodo)) : Misbelieved(t) => t \in rtodo
  /\ Spawning => rtodo = {}

LEMMA KeepsBeliefs ==
  ASSUME Typed, Beliefs, \A t \in Tasks : Misbelieved(t)' => Misbelieved(t),
         \/ UNCHANGED <<wtodo, rtodo>>
            /\ (pc' \in {"refresh", "spawn", "start", "record"} =>
                  pc \in {"refresh", "spawn", "start", "record"})
            /\ (Spawning' => Spawning \/ rtodo = {})
         \/ pc' \notin {"refresh", "spawn", "start", "record"}
  PROVE  Beliefs'
  <1>1. CASE pc' \notin {"refresh", "spawn", "start", "record"}
    BY <1>1 DEF Beliefs, Spawning
  <1>2. CASE pc' \in {"refresh", "spawn", "start", "record"}
    <2>1. Head(wtodo)' = Head(wtodo) /\ Head(wtodo) \in Requests /\ rtodo' = rtodo
      BY <1>2 DEF Typed, TypeOK, CursorOK
    <2>2. TasksOf(Head(wtodo)) \subseteq Tasks
      BY <2>1 DEF Tasks
    <2>3. \A t \in TasksOf(Head(wtodo)) : Misbelieved(t)' => t \in rtodo'
      BY <1>2, <2>1, <2>2 DEF Beliefs
    <2>4. TasksOf(Head(wtodo)') = TasksOf(Head(wtodo))
      BY <2>1
    <2> QED BY <1>2, <2>1, <2>3, <2>4 DEF Beliefs
  <1> QED BY <1>1, <1>2

(* A state read of a sandbox in use is terminal only when its run is over. *)
LEMMA ReadingIsTrue ==
  ASSUME NEW b, Used(b), NEW before, NEW state \in Reading(b, before),
         state \in TerminalStates
  PROVE  BoxOver(b)
  BY DEF Used, Reading, TerminalStates, BoxOver

LEMMA BeliefsStep ==
  ASSUME StopsAreSeen, Typed, Placement, Sandboxed, Beliefs, [Next]_vars
  PROVE  Beliefs'
  <1>1. CASE Unmoved \/ Elsewhere
    BY <1>1, KeepsBeliefs DEF Unmoved, Elsewhere, Misbelieved, BoxOver, Spawning
  <1>2. CASE NextWorkflow
    <2>1. \A t \in Tasks : Misbelieved(t)' = Misbelieved(t)
      BY <1>2 DEF NextWorkflow, Misbelieved, BoxOver
    <2>2. \A t \in TasksOf(Head(wtodo')) : Misbelieved(t)' => t \in Recorded(Head(wtodo'))
      BY <1>2 DEF NextWorkflow, Misbelieved, Recorded
    <2> QED BY <1>2, <2>1, <2>2 DEF NextWorkflow, Beliefs, Spawning
  <1>3. CASE Schedule
    BY <1>3, KeepsBeliefs DEF Schedule, Misbelieved, BoxOver, Spawning
  <1>4. CASE CreateBox \/ StartRun
    <2>1. PICK b \in Boxes : /\ ~Used(b)
                             /\ \E state : boxState' = [boxState EXCEPT ![b] = state]
      BY <1>4 DEF CreateBox, StartRun, UnusedBoxes, Used, Sandboxed, Placement, Placed
    <2>2. UNCHANGED <<runs, wtodo, rtodo>> /\ Spawning
      BY <1>4 DEF CreateBox, StartRun, Spawning
    <2>3. \A t \in Tasks : Misbelieved(t)' => Misbelieved(t)
      BY <2>1, <2>2 DEF Misbelieved, BoxOver, Sandboxed, Typed, TypeOK
    <2> QED BY <2>2, <2>3, KeepsBeliefs DEF Spawning
  <1>5. CASE RecordAgent
    <2>1. PICK state \in {"running", "done", "starting"} :
            /\ ReadStatus(box, "starting", state)
            /\ seen' = [seen EXCEPT ![task] = state]
      BY <1>5 DEF RecordAgent
    <2>2. /\ Used(box) /\ task \in Tasks /\ Spawning /\ UNCHANGED <<cloud, wtodo, rtodo>>
          /\ slot' = [slot EXCEPT ![task] = box]
      BY <1>5 DEF RecordAgent, Sandboxed, Placement, Spawning
    <2>3. state \in TerminalStates => BoxOver(box)
      BY <2>1, <2>2, ReadingIsTrue DEF ReadStatus, TerminalStates
    <2>4. \A t \in Tasks : Misbelieved(t)' => Misbelieved(t)
      BY <2>1, <2>2, <2>3 DEF Misbelieved, BoxOver, Typed, TypeOK
    <2> QED BY <2>2, <2>4, KeepsBeliefs DEF Spawning
  <1>6. CASE DispatchTerminate
    <2>1. /\ Verb[cur] = "stop" /\ slot' = slot
          /\ pc' \notin {"refresh", "spawn", "start", "record"} /\ cur \in Requests
      BY <1>6, TerminateStep DEF Typed, CursorOK
    <2>2. PICK t \in Stopped :
            /\ seen' = [seen EXCEPT ![t] = "cancelled"]
            /\ \/ boxState' = [boxState EXCEPT ![slot[t]] = "gone"]
               \/ boxState' = boxState /\ "stop" \in Faults
      BY <1>6, TerminateStep
    <2>3. t \in Tasks /\ slot[t] \in Boxes /\ slot[t] = Target[cur]
      BY DEF Stopped, Placement, Placed
    <2>4. CASE boxState' = [boxState EXCEPT ![slot[t]] = "gone"]
      <3>1. \A u \in Tasks : Misbelieved(u)' => Misbelieved(u)
        BY <2>1, <2>2, <2>3, <2>4 DEF Misbelieved, BoxOver, Typed, TypeOK, Placement, Placed
      <3> QED BY <2>1, <3>1, KeepsBeliefs
    <2>5. CASE boxState' = boxState /\ "stop" \in Faults
      <3>1. BlindStops
        BY <2>1, <2>3, <2>5 DEF BlindStops
      <3> QED BY <2>1, <3>1 DEF Beliefs, Spawning
    <2> QED BY <2>2, <2>4, <2>5
  <1>7. ASSUME NEW t \in Tasks, RefreshAgent(t) \/ RefreshFails(t)
        PROVE  Beliefs'
    <2>1. /\ UNCHANGED <<slot, cloud>> /\ pc = "refresh" /\ t \in rtodo
          /\ \/ pc' = "refresh" /\ rtodo' = rtodo \ {t} /\ wtodo' = wtodo
             \/ pc' = "report"
      BY <1>7, RefreshStep
    <2>2. PICK state : /\ seen' = [seen EXCEPT ![t] = state]
                       /\ \/ state \in Reading(slot[t], seen[t])
                          \/ state = seen[t] /\ "status" \in Faults
      BY <1>7, RefreshStep
    <2>3. ~Misbelieved(t)'
      <3>1. CASE state \in Reading(slot[t], seen[t])
        BY <2>1, <2>2, <3>1, ReadingIsTrue DEF Misbelieved, BoxOver, Sandboxed,
           Typed, TypeOK
      <3>2. CASE state = seen[t] /\ "status" \in Faults
        <4>1. ~Misbelieved(t)
          BY <3>2 DEF StopsAreSeen, Beliefs
        <4> QED BY <2>1, <2>2, <3>2, <4>1 DEF Misbelieved, BoxOver, Typed, TypeOK
      <3> QED BY <2>2, <3>1, <3>2
    <2>4. \A u \in Tasks : Misbelieved(u)' => Misbelieved(u) /\ u # t
      BY <2>1, <2>2, <2>3 DEF Misbelieved, BoxOver, Typed, TypeOK
    <2>5. CASE pc' = "report"
      BY <2>4, <2>5, KeepsBeliefs
    <2>6. CASE pc' = "refresh" /\ rtodo' = rtodo \ {t} /\ wtodo' = wtodo
      <3>1. Head(wtodo) \in Requests
        BY <2>1 DEF Typed, TypeOK, CursorOK
      <3>2. TasksOf(Head(wtodo)) \subseteq Tasks
        BY <3>1 DEF Tasks
      <3> QED BY <2>1, <2>4, <2>6, <3>2 DEF Beliefs, Spawning
    <2> QED BY <2>1, <2>5, <2>6
  <1>8. ASSUME NEW b \in Boxes, RunEnds(b) \/ BoxLost(b)
        PROVE  Beliefs'
    <2>1. /\ UNCHANGED <<runs, pc, wtodo, rtodo>>
          /\ \E state \in {"ended", "gone"} : boxState' = [boxState EXCEPT ![b] = state]
      BY <1>8 DEF RunEnds, BoxLost
    <2>2. \A t \in Tasks : Misbelieved(t)' => Misbelieved(t)
      BY <2>1 DEF Misbelieved, BoxOver, Typed, TypeOK
    <2> QED BY <2>1, <2>2, KeepsBeliefs DEF Spawning
  <1>9. CASE LoseController
    BY <1>9 DEF LoseController, FreshMemory, Beliefs, Misbelieved, Spawning
  <1> QED BY <1>1, <1>2, <1>3, <1>4, <1>5, <1>6, <1>7, <1>8, <1>9, StepOfAgents
          DEF Begins, Changes

-----------------------------------------------------------------------------
(* Pools.                                                                  *)

(* An agent is settled when it is seen to be over and is; when what is     *)
(* known of a dead sandbox is kept, it remains so.                         *)
Unsettled(t) == /\ slot[t] # None
                /\ ~(seen[t] \in TerminalStates /\ BoxOver(slot[t]))
UnsettledOf(r, s) == {i \in 1..Plan[r][s].agents : Unsettled(<<r, s, i>>)}

UnsettledFit ==
  \A r \in Requests : \A s \in DOMAIN Plan[r] :
    Cardinality(UnsettledOf(r, s)) <= Plan[r][s].maxConcurrent

LEMMA UnsettledFinite ==
  ASSUME NEW r \in Requests, NEW s \in DOMAIN Plan[r]
  PROVE  /\ IsFiniteSet(UnsettledOf(r, s)) /\ Cardinality(UnsettledOf(r, s)) \in Nat
         /\ \A S \in SUBSET UnsettledOf(r, s) :
              IsFiniteSet(S) /\ Cardinality(S) <= Cardinality(UnsettledOf(r, s))
  <1>1. ASSUME NEW n \in Nat
        PROVE  IsFiniteSet(1..n)
    BY FS_Interval
  <1>2. IsFiniteSet(1..Plan[r][s].agents)
    BY <1>1, PlanType
  <1>3. UnsettledOf(r, s) \subseteq 1..Plan[r][s].agents
    BY DEF UnsettledOf
  <1> QED BY <1>2, <1>3, FS_Subset, FS_CardinalityType

LEMMA KeepsFit ==
  ASSUME UnsettledFit, \A t \in Tasks : Unsettled(t)' => Unsettled(t)
  PROVE  UnsettledFit'
  <1> SUFFICES ASSUME NEW r \in Requests, NEW s \in DOMAIN Plan[r]
               PROVE  Cardinality(UnsettledOf(r, s)') <= Plan[r][s].maxConcurrent
    BY DEF UnsettledFit
  <1>1. UnsettledOf(r, s)' \subseteq UnsettledOf(r, s)
    BY TaskInTasks DEF UnsettledOf
  <1>2. Cardinality(UnsettledOf(r, s)') <= Cardinality(UnsettledOf(r, s))
    BY <1>1, UnsettledFinite
  <1>3. Cardinality(UnsettledOf(r, s)') \in Nat
    BY <1>1, UnsettledFinite, FS_CardinalityType
  <1>4. Cardinality(UnsettledOf(r, s)) <= Plan[r][s].maxConcurrent
    BY DEF UnsettledFit
  <1> QED BY <1>2, <1>3, <1>4, PlanType, UnsettledFinite

LEMMA UnsettledFitStep ==
  ASSUME GoneReads = {"raises"}, StopsAreSeen, Typed, Placement, Sandboxed,
         TaskChosen, Scheduled, Beliefs, Beliefs', UnsettledFit, [Next]_vars
  PROVE  UnsettledFit'
  <1>1. CASE Unmoved \/ Elsewhere \/ NextWorkflow \/ Schedule
    BY <1>1, KeepsFit DEF Unmoved, Elsewhere, NextWorkflow, Schedule, Unsettled, BoxOver
  <1>2. CASE CreateBox \/ StartRun
    <2>1. PICK b \in Boxes : /\ ~Used(b)
                             /\ \E state : boxState' = [boxState EXCEPT ![b] = state]
      BY <1>2 DEF CreateBox, StartRun, UnusedBoxes, Used, Sandboxed, Placement, Placed
    <2>2. UNCHANGED runs
      BY <1>2 DEF CreateBox, StartRun
    <2>3. \A t \in Tasks : Unsettled(t)' => Unsettled(t)
      BY <2>1, <2>2 DEF Unsettled, BoxOver, Used, Typed, TypeOK
    <2> QED BY <2>3, KeepsFit
  <1>3. CASE RecordAgent
    <2>1. PICK r \in Requests : r = Head(wtodo)
      BY <1>3, SpawnCursor DEF RecordAgent, Spawning
    <2>2. PICK i \in stodo : task = <<r, stage, i>>
      BY <1>3, <2>1 DEF RecordAgent, TaskChosen
    <2>3. PICK s \in DOMAIN Plan[r] : s = stage
      BY <1>3, <2>1, <2>2, SpawnCursor DEF RecordAgent, Spawning
    <2>4. PICK N \in SUBSET (1..Plan[r][s].agents) : N = stodo
      BY <1>3, <2>1, <2>2, <2>3, SpawnCursor DEF RecordAgent, Spawning
    <2>5. PICK state : seen' = [seen EXCEPT ![<<r, s, i>>] = state]
      BY <1>3, <2>2, <2>3 DEF RecordAgent
    <2>6. slot' = [slot EXCEPT ![<<r, s, i>>] = box] /\ UNCHANGED cloud
      BY <1>3, <2>2, <2>3 DEF RecordAgent
    <2>7. HasRoom(r, s, N \ {i})'
      <3>1. HasRoom(r, s, N)
        BY <1>3, <2>1, <2>2, <2>3, <2>4 DEF Scheduled, RecordAgent, Spawning
      <3> QED BY <2>2, <2>4, <2>5, <2>6, <3>1, RecordKeepsRoom
    <2>8. UnsettledOf(r, s)' \subseteq Open(r, s)'
      <3>1. pc' = "spawn" /\ Head(wtodo)' = r /\ rtodo' = {}
        BY <1>3, <2>1 DEF RecordAgent, Beliefs, Spawning
      <3>2. \A j \in 1..Plan[r][s].agents : <<r, s, j>> \in TasksOf(r)
        BY DEF TasksOf, TasksOfStage
      <3>3. \A j \in 1..Plan[r][s].agents : ~Misbelieved(<<r, s, j>>)'
        BY <3>1, <3>2 DEF Beliefs
      <3> QED BY <3>3 DEF UnsettledOf, Unsettled, Misbelieved, Open, Started, Finished
    <2>9. Cardinality(UnsettledOf(r, s)') <= Plan[r][s].maxConcurrent
      <3>1. IsFiniteSet(1..Plan[r][s].agents)
        <4>1. ASSUME NEW n \in Nat
              PROVE  IsFiniteSet(1..n)
          BY FS_Interval
        <4> QED BY <4>1, PlanType
      <3>2. Open(r, s)' \subseteq 1..Plan[r][s].agents /\ N \ {i} \subseteq 1..Plan[r][s].agents
        BY DEF Open, Started
      <3>3. /\ IsFiniteSet(Open(r, s)') /\ IsFiniteSet(N \ {i})
        BY <3>1, <3>2, FS_Subset
      <3>4. /\ Cardinality(Open(r, s)') \in Nat /\ Cardinality(N \ {i}) \in Nat
            /\ Cardinality(UnsettledOf(r, s)') \in Nat
            /\ Cardinality(UnsettledOf(r, s)') <= Cardinality(Open(r, s)')
        BY <2>8, <3>3, FS_Subset, FS_CardinalityType
      <3>5. Cardinality(Open(r, s)') + Cardinality(N \ {i}) <= Plan[r][s].maxConcurrent
        BY <2>7 DEF HasRoom
      <3> QED BY <3>4, <3>5, PlanType
    <2>10. ASSUME NEW q \in Requests, NEW u \in DOMAIN Plan[q], q # r \/ u # s
           PROVE  UnsettledOf(q, u)' = UnsettledOf(q, u)
      <3>1. \A j \in 1..Plan[q][u].agents : <<q, u, j>> \in Tasks /\ <<q, u, j>> # <<r, s, i>>
        BY <2>10, TaskInTasks
      <3>2. \A j \in 1..Plan[q][u].agents : Unsettled(<<q, u, j>>)' = Unsettled(<<q, u, j>>)
        BY <2>5, <2>6, <3>1 DEF Unsettled, BoxOver, Typed, TypeOK
      <3> QED BY <3>2 DEF UnsettledOf
    <2> QED BY <2>9, <2>10 DEF UnsettledFit
  <1>4. CASE DispatchTerminate
    <2>1. slot' = slot
      BY <1>4, TerminateStep
    <2>2. PICK t \in Stopped :
            /\ seen' = [seen EXCEPT ![t] = "cancelled"]
            /\ \/ boxState' = [boxState EXCEPT ![slot[t]] = "gone"]
               \/ boxState' = boxState /\ "stop" \in Faults
      BY <1>4, TerminateStep
    <2>3. \A u \in Tasks : Unsettled(u)' => Unsettled(u)
      BY <2>1, <2>2 DEF Unsettled, BoxOver, TerminalStates, Stopped, Typed, TypeOK,
         Placement, Placed
    <2> QED BY <2>3, KeepsFit
  <1>5. ASSUME NEW t \in Tasks, RefreshAgent(t) \/ RefreshFails(t)
        PROVE  UnsettledFit'
    <2>1. UNCHANGED <<slot, cloud>>
      BY <1>5, RefreshStep
    <2>2. PICK state : /\ seen' = [seen EXCEPT ![t] = state]
                       /\ \/ state \in Reading(slot[t], seen[t])
                          \/ state = seen[t] /\ "status" \in Faults
      BY <1>5, RefreshStep
    <2>3. BoxOver(slot[t]) => state \in {"done", seen[t]}
      BY <2>2 DEF BoxOver, Reading
    <2>4. \A u \in Tasks : Unsettled(u)' => Unsettled(u)
      BY <2>1, <2>2, <2>3 DEF Unsettled, BoxOver, TerminalStates, Typed, TypeOK
    <2> QED BY <2>4, KeepsFit
  <1>6. ASSUME NEW b \in Boxes, RunEnds(b) \/ BoxLost(b)
        PROVE  UnsettledFit'
    <2>1. /\ UNCHANGED runs
          /\ \E state \in {"ended", "gone"} : boxState' = [boxState EXCEPT ![b] = state]
      BY <1>6 DEF RunEnds, BoxLost
    <2>2. \A t \in Tasks : Unsettled(t)' => Unsettled(t)
      BY <2>1 DEF Unsettled, BoxOver, Typed, TypeOK
    <2> QED BY <2>2, KeepsFit
  <1>7. CASE LoseController
    <2>1. \A t \in Tasks : ~Unsettled(t)'
      BY <1>7 DEF LoseController, FreshMemory, Unsettled
    <2> QED BY <2>1, KeepsFit
  <1> QED BY <1>1, <1>2, <1>3, <1>4, <1>5, <1>6, <1>7, StepOfAgents DEF Begins, Changes

(* What the scheduler keeps, whatever fails and whenever it is killed ...  *)
Scheduling == Placement /\ Sandboxed /\ TaskChosen /\ Scheduled

LEMMA AlwaysScheduling == Spec => []Scheduling
  <1>1. Init => Scheduling
    BY DEF Init, Scheduling, Placement, Sandboxed, TaskChosen, Scheduled, Spawning,
       FreshMemory
  <1>2. Typed /\ Scheduling /\ [Next]_vars => Scheduling'
    BY PlacementStep, SandboxedStep, TaskChosenStep, ScheduledStep DEF Scheduling
  <1> QED BY <1>1, <1>2, AlwaysTyped, PTL DEF Spec

(* ... and, unless a stop fails and the read that would tell fails too,    *)
(* what it believes of the agents.                                         *)
LEMMA AlwaysBeliefs ==
  ASSUME StopsAreSeen
  PROVE  Spec => []Beliefs
  <1>1. Init => Beliefs
    BY DEF Init, Beliefs, Misbelieved, Spawning, FreshMemory
  <1>2. Typed /\ Scheduling /\ Beliefs /\ [Next]_vars => Beliefs'
    BY BeliefsStep DEF Scheduling
  <1> QED BY <1>1, <1>2, AlwaysTyped, AlwaysScheduling, PTL DEF Spec

(* The agents recorded of a stage that are not over never exceed its pool, *)
(* whatever fails and whenever the controller is killed, as long as what   *)
(* was last seen of a dead sandbox is kept and a stop that failed          *)
(* unnoticed is not followed by a status read that fails.                  *)
THEOREM RecordedPoolIsBounded ==
  ASSUME GoneReads = {"raises"}, StopsAreSeen
  PROVE  Spec => []RecordedPoolBound
  <1>1. Init => UnsettledFit
    <2> SUFFICES ASSUME Init, NEW r \in Requests, NEW s \in DOMAIN Plan[r]
                 PROVE  Cardinality(UnsettledOf(r, s)) <= Plan[r][s].maxConcurrent
      BY DEF UnsettledFit
    <2>1. UnsettledOf(r, s) = {}
      BY TaskInTasks DEF Init, UnsettledOf, Unsettled, FreshMemory
    <2> QED BY <2>1, FS_EmptySet, PlanType
  <1>2. /\ Typed /\ Scheduling /\ Beliefs /\ Beliefs' /\ UnsettledFit /\ [Next]_vars
        => UnsettledFit'
    BY UnsettledFitStep DEF Scheduling
  <1>3. UnsettledFit => RecordedPoolBound
    <2> SUFFICES ASSUME UnsettledFit, NEW r \in Requests, NEW s \in DOMAIN Plan[r]
                 PROVE  Cardinality(Started(r, s) \ Finished(r, s))
                          <= Plan[r][s].maxConcurrent
      BY DEF RecordedPoolBound, Submits
    <2>1. Open(r, s) \subseteq UnsettledOf(r, s)
      BY DEF Open, Started, Finished, UnsettledOf, Unsettled
    <2>2. Cardinality(Open(r, s)) <= Cardinality(UnsettledOf(r, s))
      BY <2>1, UnsettledFinite
    <2>3. Cardinality(UnsettledOf(r, s)) <= Plan[r][s].maxConcurrent
      BY DEF UnsettledFit
    <2> QED BY <2>2, <2>3, OpenFinite, UnsettledFinite, PlanType DEF Open
  <1> QED BY <1>1, <1>2, <1>3, AlwaysTyped, AlwaysScheduling, AlwaysBeliefs, PTL
          DEF Spec

-----------------------------------------------------------------------------
(* Every run that was started is accounted for.                            *)

(* One process drives the swarm: it is not killed, and its writes to the   *)
(* volume succeed.                                                         *)
Steady == "put" \notin Faults /\ MaxCrashes = 0

(* The volume takes every write, and when the controller is killed the     *)
(* next one overlooks none of them.                                        *)
Lasting == "put" \notin Faults /\ (MaxCrashes = 0 \/ "read" \notin Faults)

LEMMA ProcessStays ==
  ASSUME Steady, Typed, [Next]_vars
  PROVE  ncrashes' = ncrashes /\ ~LoseController
  <1> USE DEF Fault, Fail, Steady
  <1>1. CASE Ingest
    BY <1>1 DEF Ingest, BeginTick, MetaWriteFails, AbortTick, EndTick, SkipRequest,
       RequestUnreadable, ClaimRequest, ClaimFails, RequestsDone, LoseController,
       Typed, TypeOK
  <1>2. CASE Dispatch
    BY <1>2 DEF Dispatch, DispatchSubmit, DispatchPause, DispatchTerminate,
       DispatchResume, DispatchReject, Ack, AckFails, AckFailsTwice,
       AbortTick, EndTick, LoseController, Typed, TypeOK
  <1>3. CASE Advance
    BY <1>3 DEF Advance, Schedule, RefreshAgent, RefreshFails, CreateBox,
       CreateFails, StartRun, StartFails, RecordAgent, RecordFails,
       PublishWorkflow, PublishFails, AbortTick, EndTick, LoseController,
       Typed, TypeOK
  <1>4. CASE ReportError \/ ReportFails \/ Crash \/ Restart
    BY <1>4 DEF ReportError, ReportFails, Crash, Restart, LoseController,
       Typed, TypeOK
  <1>5. CASE \/ \E r \in Requests : SubmitRequest(r)
             \/ \E b \in Boxes : RunEnds(b) \/ BoxLost(b)
             \/ UNCHANGED vars
    BY <1>5 DEF SubmitRequest, RunEnds, BoxLost, LoseController, Typed, TypeOK
  <1> QED BY <1>1, <1>2, <1>3, <1>4, <1>5 DEF Next, Controller

LEMMA RecordStays ==
  ASSUME "put" \notin Faults, Typed, [Next]_vars
  PROVE  pc = "record" => RecordAgent \/ LoseController \/ UNCHANGED <<pc, box>>
  <1> USE DEF Fault, Fail
  <1>1. CASE Ingest
    BY <1>1 DEF Ingest, BeginTick, MetaWriteFails, SkipRequest,
       RequestUnreadable, ClaimRequest, ClaimFails, RequestsDone
  <1>2. CASE Dispatch
    BY <1>2 DEF Dispatch, DispatchSubmit, DispatchPause, DispatchTerminate,
       DispatchResume, DispatchReject, Ack, AckFails, AckFailsTwice
  <1>3. CASE Advance
    <2>1. ~RecordFails
      BY DEF RecordFails, AbortTick, EndTick
    <2>2. CASE RecordAgent
      BY <2>2
    <2> QED BY <1>3, <2>1, <2>2 DEF Advance, Schedule, RefreshAgent, RefreshFails,
               CreateBox, CreateFails, StartRun, StartFails, PublishWorkflow, PublishFails
  <1>4. CASE ReportError \/ ReportFails \/ Crash \/ Restart
    BY <1>4 DEF ReportError, ReportFails, Crash, Restart
  <1>5. CASE \/ \E r \in Requests : SubmitRequest(r)
             \/ \E b \in Boxes : RunEnds(b) \/ BoxLost(b)
             \/ UNCHANGED vars
    BY <1>5 DEF SubmitRequest, RunEnds, BoxLost
  <1> QED BY <1>1, <1>2, <1>3, <1>4, <1>5 DEF Next, Controller

(* A request about to be executed has not been before, by this controller  *)
(* or by another.                                                          *)
Fresh == pc = "dispatch" => registered[cur] = 0

Unbroken == ncrashes = 0

LEMMA AlwaysFresh ==
  ASSUME Lasting
  PROVE  Spec => []Fresh
  <1>1. CASE "read" \notin Faults
    <2>1. Spec => []Once
      BY <1>1, AlwaysOnce
    <2>2. Once => Fresh
      BY DEF Once, Fresh
    <2> QED BY <2>1, <2>2, PTL
  <1>2. CASE Steady
    <2>1. Init => Unbroken
      BY DEF Init, Unbroken
    <2>2. Typed /\ Unbroken /\ [Next]_vars => Unbroken'
      BY <1>2, ProcessStays DEF Unbroken
    <2>3. Typed /\ OncePerProcess /\ Unbroken => Fresh
      BY DEF OncePerProcess, Unbroken, Fresh, Typed, TypeOK, CursorOK
    <2> QED BY <2>1, <2>2, <2>3, AlwaysTyped, AlwaysOncePerProcess, PTL DEF Spec
  <1> QED BY <1>1, <1>2 DEF Lasting, Steady

LEMMA SubmitFresh ==
  ASSUME Typed, Fresh, DispatchSubmit
  PROVE  /\ cur \in Requests /\ registered[cur] = 0
         /\ registered' = [registered EXCEPT ![cur] = 1]
         /\ workflows' = Append(workflows, cur)
         /\ UNCHANGED <<wtodo, runs, cloud>>
         /\ \E n \in WorkflowNames \ UsedNames : name' = [name EXCEPT ![cur] = n]
  <1>1. cur \in Requests /\ pc = "dispatch"
    BY DEF DispatchSubmit, Submits
  <1>2. registered[cur] = 0
    BY <1>1 DEF Fresh
  <1>3. registered' = [registered EXCEPT ![cur] = 1]
    BY <1>1, <1>2 DEF DispatchSubmit, Typed, TypeOK
  <1>4. \E n \in WorkflowNames \ UsedNames : name' = [name EXCEPT ![cur] = n]
    BY DEF DispatchSubmit, UniqueName
  <1> QED BY <1>1, <1>2, <1>3, <1>4 DEF DispatchSubmit

(* The agent being started was not recorded yet.                           *)
LEMMA TaskIsFresh ==
  ASSUME Typed, Scheduling, pc \in {"start", "record"}
  PROVE  /\ task \in Tasks /\ slot[task] = None /\ Placed(task, box)
         /\ task \in TasksOf(Head(wtodo)) /\ Head(wtodo) \in Requests
  <1>1. PICK i \in stodo : task = <<Head(wtodo), stage, i>>
    BY DEF Scheduling, TaskChosen
  <1>2. /\ Head(wtodo) \in Requests /\ stage \in DOMAIN Plan[Head(wtodo)]
        /\ i \in 1..Plan[Head(wtodo)][stage].agents
    BY <1>1, SpawnCursor DEF Spawning
  <1>3. i \notin Started(Head(wtodo), stage)
    BY <1>1 DEF Scheduling, Scheduled, Spawning, HasRoom
  <1> QED BY <1>1, <1>2, <1>3 DEF Scheduling, Placement, Started, TasksOf, TasksOfStage

LEMMA StepOfNames ==
  ASSUME Typed, [Next]_vars
  PROVE  /\ UNCHANGED <<name, registered>> \/ DispatchSubmit \/ LoseController
         /\ UNCHANGED <<ack, ackName>> \/ Ack
         /\ workflowFile' = workflowFile \/ PublishWorkflow
  <1> USE DEF Fault, Fail
  <1>1. CASE Ingest
    BY <1>1 DEF Ingest, BeginTick, MetaWriteFails, AbortTick, EndTick,
       SkipRequest, RequestUnreadable, ClaimRequest, ClaimFails, RequestsDone
  <1>2. CASE DispatchSubmit
    <2>1. UNCHANGED <<ack, ackName, workflowFile>>
      BY <1>2 DEF DispatchSubmit
    <2> QED BY <1>2, <2>1
  <1>3. CASE Ack
    <2>1. UNCHANGED <<name, registered, workflowFile>>
      BY <1>3 DEF Ack
    <2> QED BY <1>3, <2>1
  <1>4. CASE PublishWorkflow
    <2>1. UNCHANGED <<name, registered, ack, ackName>>
      BY <1>4 DEF PublishWorkflow
    <2> QED BY <1>4, <2>1
  <1>5. CASE Dispatch /\ ~DispatchSubmit /\ ~Ack
    <2>1. UNCHANGED <<name, registered, ack, ackName, workflowFile>>
      BY <1>5 DEF Dispatch, DispatchPause, DispatchTerminate,
         DispatchResume, DispatchReject, AckFails, AckFailsTwice, AbortTick, EndTick
    <2> QED BY <2>1
  <1>6. CASE Advance /\ ~PublishWorkflow
    <2>1. UNCHANGED <<name, registered, ack, ackName, workflowFile>>
      BY <1>6 DEF Advance, Schedule, RefreshAgent, RefreshFails, CreateBox,
         CreateFails, StartRun, StartFails, RecordAgent, RecordFails,
         PublishFails, AbortTick, EndTick
    <2> QED BY <2>1
  <1>7. CASE ReportError \/ ReportFails \/ Crash \/ Restart
    <2>1. CASE ReportError \/ Restart
      BY <2>1 DEF ReportError, Restart
    <2>2. CASE ReportFails \/ Crash
      <3>1. LoseController /\ UNCHANGED <<ack, ackName, workflowFile>>
        BY <2>2 DEF ReportFails, Crash, LoseController
      <3> QED BY <3>1
    <2> QED BY <1>7, <2>1, <2>2
  <1>8. CASE \/ \E r \in Requests : SubmitRequest(r)
             \/ \E b \in Boxes : RunEnds(b) \/ BoxLost(b)
             \/ UNCHANGED vars
    BY <1>8 DEF SubmitRequest, RunEnds, BoxLost
  <1> QED BY <1>1, <1>2, <1>3, <1>4, <1>5, <1>6, <1>7, <1>8 DEF Next, Controller

(* The workflows the controller runs were accepted, and have a name.       *)
Runs(r) == registered[r] > 0 /\ name[r] # None

Accepted ==
  /\ \A i \in DOMAIN workflows : Runs(workflows[i])
  /\ \A i \in DOMAIN wtodo : Runs(wtodo[i])

LEMMA HeadRuns ==
  ASSUME Typed, Accepted, pc \in {"refresh", "spawn", "start", "record"}
  PROVE  Runs(Head(wtodo))
  <1>1. wtodo \in Seq(Requests) /\ wtodo # <<>>
    BY DEF Typed, TypeOK, CursorOK
  <1>2. 1 \in DOMAIN wtodo /\ Head(wtodo) = wtodo[1]
    BY <1>1
  <1> QED BY <1>2 DEF Accepted

LEMMA StepOfWorkflows ==
  ASSUME Typed, [Next]_vars
  PROVE  \/ DispatchSubmit
         \/ LoseController /\ workflows' = <<>> /\ wtodo' = <<>> /\ registered' = registered
         \/ /\ UNCHANGED <<workflows, name, registered>>
            /\ \/ wtodo' \in {wtodo, workflows, <<>>}
               \/ wtodo # <<>> /\ wtodo' = Tail(wtodo)
  <1> USE DEF Typed, CursorOK
  <1>1. CASE Ingest
    BY <1>1 DEF Ingest, BeginTick, MetaWriteFails, AbortTick, EndTick, ClearCursor,
       SkipRequest, RequestUnreadable, ClaimRequest, ClaimFails, RequestsDone, AdvanceTo
  <1>2. CASE Dispatch
    BY <1>2 DEF Dispatch, DispatchSubmit, DispatchPause, DispatchTerminate,
       DispatchResume, DispatchReject, Ack, AckFails, AckFailsTwice,
       AbortTick, EndTick, ClearCursor
  <1>3. CASE Advance
    BY <1>3 DEF Advance, Schedule, RefreshAgent, RefreshFails, CreateBox,
       CreateFails, StartRun, StartFails, RecordAgent, RecordFails,
       PublishWorkflow, PublishFails, AdvanceTo, AbortTick, EndTick, ClearCursor
  <1>4. CASE ReportError \/ ReportFails \/ Crash \/ Restart
    BY <1>4 DEF ReportError, ReportFails, Crash, Restart, LoseController, ClearCursor,
       FreshMemory
  <1>5. CASE \/ \E r \in Requests : SubmitRequest(r)
             \/ \E b \in Boxes : RunEnds(b) \/ BoxLost(b)
             \/ UNCHANGED vars
    BY <1>5 DEF SubmitRequest, RunEnds, BoxLost
  <1> QED BY <1>1, <1>2, <1>3, <1>4, <1>5 DEF Next, Controller

LEMMA AcceptedStep ==
  ASSUME Typed, Fresh, Accepted, [Next]_vars
  PROVE  Accepted'
  <1>0. /\ workflows \in Seq(Requests) /\ wtodo \in Seq(Requests)
        /\ registered \in [Requests -> Nat]
        /\ name \in [Requests -> WorkflowNames \cup {None}] /\ None \notin WorkflowNames
    BY RequestsAssumption DEF Typed, TypeOK, RequestsAssumption
  <1>1. CASE DispatchSubmit
    <2>1. /\ cur \in Requests /\ workflows' = Append(workflows, cur) /\ wtodo' = wtodo
          /\ registered' = [registered EXCEPT ![cur] = 1]
      BY <1>1, SubmitFresh
    <2>2. PICK n \in WorkflowNames : name' = [name EXCEPT ![cur] = n]
      BY <1>1, SubmitFresh
    <2>3. \A r \in Requests : Runs(r) => Runs(r)'
      BY <1>0, <2>1, <2>2 DEF Runs
    <2>4. Runs(cur)' /\ cur' = cur
      <3>1. registered'[cur] = 1 /\ name'[cur] = n /\ cur' = cur
        BY <1>0, <1>1, <2>1, <2>2 DEF DispatchSubmit
      <3> QED BY <1>0, <3>1 DEF Runs
    <2>5. \A i \in DOMAIN workflows' :
             workflows'[i] = cur \/ (i \in DOMAIN workflows /\ workflows'[i] = workflows[i])
      BY <1>0, <2>1
    <2>6. registered'[cur] > 0 /\ name'[cur] # None
      BY <2>4 DEF Runs
    <2>7. \A i \in DOMAIN workflows' : registered'[workflows'[i]] > 0 /\ name'[workflows'[i]] # None
      BY <1>0, <2>3, <2>5, <2>6 DEF Accepted, Runs
    <2>8. \A i \in DOMAIN wtodo' : registered'[wtodo'[i]] > 0 /\ name'[wtodo'[i]] # None
      BY <1>0, <2>1, <2>3 DEF Accepted, Runs
    <2> QED BY <2>7, <2>8 DEF Accepted, Runs
  <1>2. CASE workflows' = <<>> /\ wtodo' = <<>>
    BY <1>2 DEF Accepted
  <1>3. CASE /\ UNCHANGED <<workflows, name, registered>>
             /\ \/ wtodo' \in {wtodo, workflows, <<>>}
                \/ wtodo # <<>> /\ wtodo' = Tail(wtodo)
    <2>1. \A i \in DOMAIN wtodo' :
             \/ \E j \in DOMAIN wtodo : wtodo'[i] = wtodo[j]
             \/ \E j \in DOMAIN workflows : wtodo'[i] = workflows[j]
      <3>1. CASE wtodo' \in {wtodo, workflows, <<>>}
        BY <3>1
      <3>2. CASE wtodo # <<>> /\ wtodo' = Tail(wtodo)
        <4>1. \A i \in DOMAIN wtodo' : i + 1 \in DOMAIN wtodo /\ wtodo'[i] = wtodo[i + 1]
          BY <1>0, <3>2
        <4> QED BY <4>1
      <3> QED BY <1>3, <3>1, <3>2
    <2> QED BY <1>3, <2>1 DEF Accepted, Runs
  <1> QED BY <1>1, <1>2, <1>3, StepOfWorkflows

LEMMA AlwaysAccepted ==
  ASSUME Lasting
  PROVE  Spec => []Accepted
  <1>1. Init => Accepted
    BY DEF Init, Accepted, FreshMemory
  <1>2. Typed /\ Fresh /\ Accepted /\ [Next]_vars => Accepted'
    BY AcceptedStep
  <1> QED BY <1>1, <1>2, AlwaysTyped, AlwaysFresh, PTL DEF Spec

(* No run of the present controller is forgotten: the sandbox of every run *)
(* that was started for a workflow in its memory is recorded for its task, *)
(* or about to be.  A task has one run only, and none before its request   *)
(* was accepted.                                                           *)
Owner(t) == t[1]

Accounted(b) == slot[boxTask[b]] = b \/ (pc = "record" /\ box = b)

Owned ==
  /\ \A b \in Boxes : Used(b) => boxTask[b] \in Tasks /\ registered[Owner(boxTask[b])] > 0
  /\ \A b \in Boxes : Used(b) /\ name[Owner(boxTask[b])] # None => Accounted(b)
  /\ \A b, c \in Boxes : Used(b) /\ Used(c) /\ boxTask[b] = boxTask[c] => b = c

LEMMA OwnerType ==
  /\ \A t \in Tasks : Owner(t) \in Requests
  /\ \A r : \A t \in TasksOf(r) : Owner(t) = r
  <1>1. ASSUME NEW r, NEW t \in TasksOf(r) PROVE Owner(t) = r
    <2>1. \E s \in DOMAIN Plan[r] : \E i \in 1..Plan[r][s].agents : t = <<r, s, i>>
      BY DEF TasksOf, TasksOfStage
    <2> QED BY <2>1 DEF Owner
  <1> QED BY <1>1 DEF Tasks

(* A sandbox comes into use when its run is started.                       *)
LEMMA UsedStep ==
  ASSUME Typed, Scheduling, [Next]_vars, NEW b \in Boxes, Used(b)'
  PROVE  \/ Used(b) /\ boxTask'[b] = boxTask[b]
         \/ /\ StartRun /\ b = box /\ ~Used(b) /\ boxTask'[b] = task /\ boxTask[b] = task
            /\ box' = box /\ pc = "start" /\ pc' = "record"
  <1> USE DEF Typed, TypeOK, Used
  <1>1. CASE UNCHANGED cloud
    BY <1>1
  <1>2. CASE CreateBox
    <2>1. /\ box' \in Boxes /\ boxState[box'] = "unused"
          /\ boxState' = [boxState EXCEPT ![box'] = "created"]
          /\ boxTask' = [boxTask EXCEPT ![box'] = task']
      BY <1>2 DEF CreateBox, UnusedBoxes
    <2> QED BY <2>1
  <1>3. CASE StartRun
    <2>1. task \in Tasks /\ boxTask[box] = task /\ box \in Boxes
      BY <1>3, TaskIsFresh DEF StartRun, Placed
    <2> QED BY <1>3, <2>1 DEF StartRun
  <1>4. CASE DispatchTerminate
    <2>1. boxTask' = boxTask
      BY <1>4, TerminateStep
    <2>2. PICK t \in Stopped : \/ boxState' = [boxState EXCEPT ![slot[t]] = "gone"]
                               \/ boxState' = boxState
      BY <1>4, TerminateStep
    <2>3. slot[t] \in Boxes /\ Used(slot[t])
      BY DEF Stopped, Scheduling, Sandboxed, Placement, Placed
    <2> QED BY <2>1, <2>2, <2>3
  <1>5. ASSUME NEW c \in Boxes, RunEnds(c) \/ BoxLost(c)
        PROVE  Used(b) /\ boxTask'[b] = boxTask[b]
    <2>1. /\ boxState[c] \in {"running", "ended"} /\ boxTask' = boxTask
          /\ \E state \in {"ended", "gone"} : boxState' = [boxState EXCEPT ![c] = state]
      BY <1>5 DEF RunEnds, BoxLost
    <2> QED BY <2>1
  <1>6. ASSUME NEW t \in Tasks, RefreshAgent(t) \/ RefreshFails(t)
        PROVE  UNCHANGED cloud
    BY <1>6, RefreshStep
  <1>7. \/ Unmoved \/ Elsewhere \/ NextWorkflow \/ Schedule \/ RecordAgent \/ LoseController
        => UNCHANGED cloud
    BY DEF Unmoved, Elsewhere, NextWorkflow, Schedule, RecordAgent, LoseController
  <1> HIDE DEF Typed, TypeOK, Used
  <1> QED BY <1>1, <1>2, <1>3, <1>4, <1>5, <1>6, <1>7, StepOfAgents DEF Begins, Changes

(* What is recorded stays so while the controller lives.                   *)
LEMMA SlotStep ==
  ASSUME Typed, Scheduling, [Next]_vars, ~LoseController
  PROVE  slot' = slot \/ (RecordAgent /\ slot' = [slot EXCEPT ![task] = box])
  <1>1. CASE Unmoved \/ Elsewhere \/ NextWorkflow \/ Schedule
    BY <1>1 DEF Unmoved, Elsewhere, NextWorkflow, Schedule
  <1>2. CASE Begins
    BY <1>2 DEF Begins, CreateBox, StartRun, RecordAgent
  <1>3. CASE DispatchTerminate
    BY <1>3, TerminateStep
  <1>4. ASSUME NEW t \in Tasks, RefreshAgent(t) \/ RefreshFails(t)
        PROVE  slot' = slot
    BY <1>4, RefreshStep
  <1>5. ASSUME NEW b \in Boxes, RunEnds(b) \/ BoxLost(b)
        PROVE  slot' = slot
    BY <1>5 DEF RunEnds, BoxLost
  <1> QED BY <1>1, <1>2, <1>3, <1>4, <1>5, StepOfAgents DEF Changes

(* Only the controller that accepted a request has its name.               *)
LEMMA NameStep ==
  ASSUME Typed, Fresh, [Next]_vars, NEW r \in Requests
  PROVE  /\ registered[r] > 0 => registered'[r] > 0
         /\ registered[r] > 0 /\ name'[r] # None => name[r] # None /\ ~LoseController
  <1>0. /\ registered \in [Requests -> Nat]
        /\ name \in [Requests -> WorkflowNames \cup {None}]
    BY DEF Typed, TypeOK
  <1>1. LoseController => registered' = registered /\ name'[r] = None
    BY DEF LoseController, FreshMemory
  <1>2. CASE DispatchSubmit
    <2>1. /\ cur \in Requests /\ registered[cur] = 0
          /\ registered' = [registered EXCEPT ![cur] = 1]
      BY <1>2, SubmitFresh
    <2>2. PICK n \in WorkflowNames : name' = [name EXCEPT ![cur] = n]
      BY <1>2, SubmitFresh
    <2> QED BY <1>0, <1>1, <2>1, <2>2
  <1> QED BY <1>1, <1>2, StepOfNames

LEMMA OwnedStep ==
  ASSUME "put" \notin Faults, Typed, Scheduling, Fresh, Accepted, Owned, [Next]_vars
  PROVE  Owned'
  <1>1. ASSUME StartRun
        PROVE  /\ task \in Tasks /\ Runs(Owner(task)) /\ box \in Boxes /\ slot[task] = None
               /\ \A b \in Boxes : Used(b) => boxTask[b] # task
    <2>1. /\ task \in Tasks /\ slot[task] = None /\ box \in Boxes
          /\ task \in TasksOf(Head(wtodo)) /\ pc = "start"
      BY <1>1, TaskIsFresh DEF StartRun, Placed
    <2>2. Owner(task) = Head(wtodo)
      BY <2>1, OwnerType
    <2>3. Runs(Head(wtodo))
      BY <2>1, HeadRuns
    <2>4. ASSUME NEW b \in Boxes, Used(b), boxTask[b] = task
          PROVE  FALSE
      <3>1. Accounted(b)
        BY <2>2, <2>3, <2>4 DEF Owned, Runs
      <3> QED BY <2>1, <2>4, <3>1, BoxAssumption DEF Accounted, BoxAssumption
    <2> QED BY <2>1, <2>2, <2>3, <2>4
  <1>2. ASSUME NEW b \in Boxes, Used(b)'
        PROVE  boxTask'[b] \in Tasks /\ registered'[Owner(boxTask'[b])] > 0
    <2>1. boxTask'[b] \in Tasks /\ registered[Owner(boxTask'[b])] > 0
      BY <1>1, <1>2, UsedStep DEF Owned, Runs
    <2> QED BY <2>1, NameStep, OwnerType
  <1>3. ASSUME NEW b \in Boxes, Used(b)', name'[Owner(boxTask'[b])] # None
        PROVE  slot'[boxTask'[b]] = b \/ (pc' = "record" /\ box' = b)
    <2>1. CASE Used(b) /\ boxTask'[b] = boxTask[b]
      <3> DEFINE t == boxTask[b]
      <3>1. t \in Tasks /\ Owner(t) \in Requests /\ registered[Owner(t)] > 0
        BY <2>1, OwnerType DEF Owned
      <3>2. name[Owner(t)] # None /\ ~LoseController
        BY <1>3, <2>1, <3>1, NameStep
      <3>3. Accounted(b)
        BY <2>1, <3>2 DEF Owned
      <3>4. slot \in [Tasks -> Boxes \cup {None}] /\ None \notin Boxes
        BY BoxAssumption DEF Typed, TypeOK, BoxAssumption
      <3>5. RecordAgent => pc = "record" /\ task \in Tasks /\ slot[task] = None
        BY TaskIsFresh DEF RecordAgent
      <3>6. CASE slot[t] = b
        <4>1. slot'[t] = b
          BY <3>1, <3>2, <3>4, <3>5, <3>6, SlotStep
        <4> QED BY <2>1, <4>1
      <3>7. CASE pc = "record" /\ box = b
        <4>1. boxTask[box] = task /\ task \in Tasks
          BY <3>7, TaskIsFresh DEF Placed
        <4>2. CASE RecordAgent
          <5>1. slot' = [slot EXCEPT ![task] = box]
            BY <4>2 DEF RecordAgent
          <5> QED BY <2>1, <3>4, <3>7, <4>1, <5>1
        <4> QED BY <3>2, <3>7, <4>2, RecordStays
      <3> QED BY <3>3, <3>6, <3>7 DEF Accounted
    <2> QED BY <1>3, <2>1, UsedStep
  <1>4. ASSUME NEW b \in Boxes, NEW c \in Boxes, Used(b)', Used(c)', boxTask'[b] = boxTask'[c]
        PROVE  b = c
    <2>1. CASE Used(b) /\ boxTask'[b] = boxTask[b] /\ Used(c) /\ boxTask'[c] = boxTask[c]
      BY <1>4, <2>1 DEF Owned
    <2>2. CASE ~(Used(b) /\ boxTask'[b] = boxTask[b])
      BY <1>1, <1>4, <2>2, UsedStep
    <2>3. CASE ~(Used(c) /\ boxTask'[c] = boxTask[c])
      BY <1>1, <1>4, <2>3, UsedStep
    <2> QED BY <2>1, <2>2, <2>3
  <1> QED BY <1>2, <1>3, <1>4 DEF Owned, Accounted

LEMMA AlwaysOwned ==
  ASSUME Lasting
  PROVE  Spec => []Owned
  <1>1. Init => Owned
    BY DEF Init, Owned, Used
  <1>2. Typed /\ Scheduling /\ Fresh /\ Accepted /\ Owned /\ [Next]_vars => Owned'
    BY OwnedStep DEF Lasting
  <1> QED BY <1>1, <1>2, AlwaysTyped, AlwaysScheduling, AlwaysFresh, AlwaysAccepted, PTL
          DEF Spec

(* An agent whose recorded sandbox is over is over: no other sandbox runs  *)
(* its task.                                                               *)
LEMMA OneSandbox ==
  ASSUME Typed, Scheduling, Owned, NEW t \in Tasks, slot[t] # None,
         NEW b \in Boxes, Used(b), boxTask[b] = t
  PROVE  b = slot[t]
  BY DEF Owned, Placed, Scheduling, Placement, Sandboxed

LEMMA OverWhenBoxOver ==
  ASSUME Typed, Scheduling, Owned, NEW t \in Tasks, slot[t] # None, BoxOver(slot[t])
  PROVE  Over(t)
  <1>1. slot[t] \in Boxes /\ boxTask[slot[t]] = t
    BY DEF Scheduling, Placement, Placed
  <1>2. Ran(t)
    BY <1>1 DEF Ran, BoxOver
  <1>3. ~Live(t)
    BY OneSandbox DEF Live, Used, BoxOver
  <1> QED BY <1>2, <1>3 DEF Over

-----------------------------------------------------------------------------
(* Waiting for a workflow by its name.                                     *)

(* The names of the workflows tell them apart, and stand for them in the   *)
(* answers and in the published files.                                     *)
Naming ==
  /\ ncrashes = 0
  /\ \A r \in Requests : registered[r] = 0 => name[r] = None
  /\ \A q, r \in Requests : name[q] = name[r] /\ name[q] # None => q = r
  /\ \A r \in Requests : ackName[r] # None => ackName[r] = name[r]
  /\ \A n \in WorkflowNames : workflowFile[n] # "none" => n \in UsedNames

(* A plan that is accepted gets a name nobody had.                         *)
LEMMA SubmitNames ==
  ASSUME Typed, OncePerProcess, Naming, DispatchSubmit
  PROVE  /\ cur \in Requests /\ cur \in Submits /\ registered[cur] = 0 /\ name[cur] = None
         /\ registered' = [registered EXCEPT ![cur] = 1]
         /\ UNCHANGED <<ack, ackName, workflowFile, runs, cloud, paused>>
         /\ \E n \in WorkflowNames \ UsedNames : name' = [name EXCEPT ![cur] = n]
  <1>1. cur \in Requests /\ cur \in Submits /\ pc = "dispatch"
    BY DEF DispatchSubmit, Submits
  <1>2. registered[cur] = 0
    BY <1>1 DEF OncePerProcess, Naming, Typed, TypeOK
  <1>3. registered' = [registered EXCEPT ![cur] = 1]
    BY <1>1, <1>2 DEF DispatchSubmit, Typed, TypeOK
  <1>4. \E n \in WorkflowNames \ UsedNames : name' = [name EXCEPT ![cur] = n]
    BY DEF DispatchSubmit, UniqueName
  <1> QED BY <1>1, <1>2, <1>3, <1>4 DEF DispatchSubmit, Naming

LEMMA NamingStep ==
  ASSUME Steady, Typed, OncePerProcess, Naming, [Next]_vars
  PROVE  Naming'
  <1>0. /\ name \in [Requests -> WorkflowNames \cup {None}]
        /\ ackName \in [Requests -> WorkflowNames \cup {None}]
        /\ registered \in [Requests -> Nat]
        /\ workflowFile \in [WorkflowNames -> {"none", "running", "paused", "done"}]
        /\ None \notin WorkflowNames
    BY RequestsAssumption DEF Typed, TypeOK, RequestsAssumption
  <1>1. ncrashes' = 0
    BY ProcessStays DEF Naming
  <1>2. CASE DispatchSubmit
    <2>1. PICK n \in WorkflowNames \ UsedNames : name' = [name EXCEPT ![cur] = n]
      BY <1>2, SubmitNames
    <2>2. /\ cur \in Requests /\ name[cur] = None
          /\ registered' = [registered EXCEPT ![cur] = 1]
          /\ UNCHANGED <<ackName, workflowFile>>
      BY <1>2, SubmitNames
    <2>3. \A r \in Requests : registered'[r] = 0 => name'[r] = None
      BY <1>0, <2>1, <2>2 DEF Naming
    <2>4. \A r \in Requests : name[r] # n
      BY <1>0, <2>1 DEF UsedNames
    <2>5. \A q, r \in Requests : name'[q] = name'[r] /\ name'[q] # None => q = r
      BY <1>0, <2>1, <2>2, <2>4 DEF Naming
    <2>6. \A r \in Requests : ackName'[r] # None => ackName'[r] = name'[r]
      BY <1>0, <2>1, <2>2 DEF Naming
    <2>7. \A m \in WorkflowNames : workflowFile'[m] # "none" => m \in UsedNames'
      <3>1. UsedNames \subseteq UsedNames'
        BY <1>0, <2>1, <2>2 DEF UsedNames
      <3> QED BY <2>2, <3>1 DEF Naming
    <2> QED BY <1>1, <2>3, <2>5, <2>6, <2>7 DEF Naming
  <1>3. CASE UNCHANGED <<name, registered>>
    <2>1. \A r \in Requests : ackName'[r] # None => ackName'[r] = name'[r]
      <3>1. CASE Ack
        BY <1>0, <1>3, <3>1 DEF Ack, Naming, Typed, CursorOK
      <3>2. CASE ackName' = ackName
        BY <1>3, <3>2 DEF Naming
      <3> QED BY <3>1, <3>2, StepOfNames
    <2>2. \A m \in WorkflowNames : workflowFile'[m] # "none" => m \in UsedNames'
      <3>1. UsedNames' = UsedNames
        BY <1>3 DEF UsedNames
      <3>2. CASE PublishWorkflow
        <4>1. Head(wtodo) \in Requests
          BY <3>2, SpawnCursor DEF PublishWorkflow, Spawning
        <4>2. \A m \in WorkflowNames : m # name[Head(wtodo)] => workflowFile'[m] = workflowFile[m]
          BY <1>0, <3>2 DEF PublishWorkflow
        <4>3. \A m \in WorkflowNames : m = name[Head(wtodo)] => m \in UsedNames
          BY <1>0, <4>1 DEF UsedNames
        <4> QED BY <3>1, <4>2, <4>3 DEF Naming
      <3>3. CASE workflowFile' = workflowFile
        BY <3>1, <3>3 DEF Naming
      <3> QED BY <3>2, <3>3, StepOfNames
    <2>3. /\ \A r \in Requests : registered'[r] = 0 => name'[r] = None
          /\ \A q, r \in Requests : name'[q] = name'[r] /\ name'[q] # None => q = r
      BY <1>3 DEF Naming
    <2> QED BY <1>1, <2>1, <2>2, <2>3 DEF Naming
  <1> QED BY <1>2, <1>3, StepOfNames, ProcessStays

(* What is over stays over.                                                *)
HasEnded(t) == slot[t] # None /\ BoxOver(slot[t])

LEMMA OverStays ==
  ASSUME Steady, Typed, Scheduling, NEW t \in Tasks, HasEnded(t), [Next]_vars
  PROVE  HasEnded(t)'
  <1>00. CreateBox \/ StartRun => \E b \in Boxes :
           ~Used(b) /\ \E state : boxState' = [boxState EXCEPT ![b] = state]
    BY DEF CreateBox, StartRun, UnusedBoxes, Used, Scheduling, Sandboxed, Placement, Placed
  <1> USE DEF Typed, TypeOK, HasEnded, BoxOver
  <1>0. slot[t] \in Boxes
    BY DEF Scheduling, Placement, Placed
  <1>1. CASE Unmoved \/ Elsewhere \/ NextWorkflow \/ Schedule
    BY <1>1 DEF Unmoved, Elsewhere, NextWorkflow, Schedule
  <1>2. CASE CreateBox \/ StartRun
    <2>1. PICK b \in Boxes : /\ ~Used(b)
                             /\ \E state : boxState' = [boxState EXCEPT ![b] = state]
      BY <1>2, <1>00
    <2>2. slot' = slot
      BY <1>2 DEF CreateBox, StartRun
    <2> QED BY <1>0, <2>1, <2>2 DEF Used
  <1>3. CASE RecordAgent
    <2>1. slot' = [slot EXCEPT ![task] = box] /\ UNCHANGED cloud
      BY <1>3 DEF RecordAgent
    <2>2. slot[task] = None /\ task \in Tasks
      BY <1>3, TaskIsFresh DEF RecordAgent
    <2> QED BY <2>1, <2>2
  <1>4. CASE DispatchTerminate
    <2>1. slot' = slot
      BY <1>4, TerminateStep
    <2>2. PICK u \in Stopped : \/ boxState' = [boxState EXCEPT ![slot[u]] = "gone"]
                               \/ boxState' = boxState
      BY <1>4, TerminateStep
    <2> QED BY <1>0, <2>1, <2>2
  <1>5. ASSUME NEW u \in Tasks, RefreshAgent(u) \/ RefreshFails(u)
        PROVE  HasEnded(t)'
    BY <1>5, RefreshStep
  <1>6. ASSUME NEW b \in Boxes, RunEnds(b) \/ BoxLost(b)
        PROVE  HasEnded(t)'
    <2>1. /\ slot' = slot
          /\ \E state \in {"ended", "gone"} : boxState' = [boxState EXCEPT ![b] = state]
      BY <1>6 DEF RunEnds, BoxLost
    <2> QED BY <1>0, <2>1
  <1> HIDE DEF Typed, TypeOK, HasEnded, BoxOver
  <1> QED BY <1>1, <1>2, <1>3, <1>4, <1>5, <1>6, StepOfAgents, ProcessStays
          DEF Begins, Changes

(* A workflow published as done has every agent of its plan over.          *)
DoneIsOver ==
  \A r \in Requests : name[r] # None /\ workflowFile[name[r]] = "done"
    => \A t \in TasksOf(r) : HasEnded(t)

LEMMA DoneIsOverStep ==
  ASSUME Steady, Typed, Scheduling, Beliefs, OncePerProcess, Naming, DoneIsOver, [Next]_vars
  PROVE  DoneIsOver'
  <1>0. /\ name \in [Requests -> WorkflowNames \cup {None}]
        /\ workflowFile \in [WorkflowNames -> {"none", "running", "paused", "done"}]
    BY DEF Typed, TypeOK
  <1>1. \A r \in Requests : \A t \in TasksOf(r) : t \in Tasks /\ (HasEnded(t) => HasEnded(t)')
    BY OverStays DEF Tasks
  <1>2. CASE DispatchSubmit
    <2>1. PICK n \in WorkflowNames \ UsedNames : name' = [name EXCEPT ![cur] = n]
      BY <1>2, SubmitNames
    <2>2. cur \in Requests /\ workflowFile' = workflowFile
      BY <1>2, SubmitNames
    <2>3. workflowFile[n] = "none"
      BY <2>1 DEF Naming
    <2>4. \A r \in Requests : name'[r] # None /\ workflowFile'[name'[r]] = "done"
            => name[r] # None /\ workflowFile[name[r]] = "done"
      BY <1>0, <2>1, <2>2, <2>3
    <2> QED BY <1>1, <2>4 DEF DoneIsOver
  <1>3. CASE name' = name /\ workflowFile' = workflowFile
    BY <1>1, <1>3 DEF DoneIsOver
  <1>4. CASE name' = name /\ PublishWorkflow
    <2>1. PICK q \in Requests : q = Head(wtodo)
      BY <1>4, SpawnCursor DEF PublishWorkflow, Spawning
    <2>2. /\ workflowFile' = [workflowFile EXCEPT ![name[q]] = WorkflowStatus(q)]
          /\ Spawning /\ UNCHANGED <<slot, boxState>>
      BY <1>4, <2>1 DEF PublishWorkflow, Spawning
    <2>3. ASSUME WorkflowStatus(q) = "done", NEW t \in TasksOf(q)
          PROVE  HasEnded(t)
      <3>1. Complete(q)
        BY <2>3 DEF WorkflowStatus
      <3>2. \E s \in DOMAIN Plan[q] : \E i \in 1..Plan[q][s].agents : t = <<q, s, i>>
        BY DEF TasksOf, TasksOfStage
      <3>3. slot[t] # None /\ seen[t] \in TerminalStates
        BY <3>1, <3>2 DEF Complete, StageComplete, Finished, Started
      <3>4. ~Misbelieved(t)
        BY <2>1, <2>2, <2>3 DEF Beliefs, Spawning
      <3> QED BY <3>3, <3>4 DEF Misbelieved, HasEnded
    <2>4. ASSUME NEW r \in Requests, r # q, name[r] # None, workflowFile'[name[r]] = "done"
          PROVE  workflowFile[name[r]] = "done"
      <3>1. name[r] # name[q]
        BY <2>4 DEF Naming
      <3> QED BY <1>0, <2>2, <2>4, <3>1
    <2>5. ASSUME name[q] # None, workflowFile'[name[q]] = "done"
          PROVE  WorkflowStatus(q) = "done"
      BY <1>0, <2>2, <2>5
    <2> QED BY <1>1, <1>4, <2>3, <2>4, <2>5 DEF DoneIsOver
  <1> QED BY <1>2, <1>3, <1>4, StepOfNames, ProcessStays

LEMMA AlwaysNaming ==
  ASSUME Steady
  PROVE  Spec => []Naming
  <1>1. Init => Naming
    BY DEF Init, Naming, FreshMemory, UsedNames
  <1>2. Typed /\ OncePerProcess /\ Naming /\ [Next]_vars => Naming'
    BY NamingStep
  <1> QED BY <1>1, <1>2, AlwaysTyped, AlwaysOncePerProcess, PTL DEF Spec

(* aom-swarm wait on the name a submit was answered with returns done only *)
(* when every agent of the plan is over, however often creating or         *)
(* starting a sandbox, reading a file or a status fails or an agent dies,  *)
(* as long as one controller that can write drives the swarm.              *)
THEOREM WaitIsSound ==
  ASSUME Steady, StopsAreSeen
  PROVE  Spec => []WaitNamedSound
  <1>1. Init => DoneIsOver
    BY DEF Init, DoneIsOver, FreshMemory
  <1>2. /\ Typed /\ Scheduling /\ Beliefs /\ OncePerProcess /\ Naming /\ DoneIsOver
        /\ [Next]_vars
        => DoneIsOver'
    BY DoneIsOverStep
  <1>3. Typed /\ Scheduling /\ Owned /\ Naming /\ DoneIsOver => WaitNamedSound
    <2> SUFFICES ASSUME Typed, Scheduling, Owned, Naming, DoneIsOver, NEW r \in Submits,
                        ackName[r] # None, workflowFile[ackName[r]] = "done",
                        NEW t \in TasksOf(r)
                 PROVE  Over(t)
      BY DEF WaitNamedSound
    <2>1. r \in Requests /\ t \in Tasks
      BY DEF Submits, Tasks
    <2>2. HasEnded(t)
      BY <2>1 DEF Naming, DoneIsOver
    <2> QED BY <2>1, <2>2, OverWhenBoxOver DEF HasEnded
  <1>4. Spec => []Owned
    BY AlwaysOwned DEF Steady, Lasting
  <1> QED BY <1>1, <1>2, <1>3, <1>4, AlwaysTyped, AlwaysScheduling, AlwaysBeliefs,
             AlwaysOncePerProcess, AlwaysNaming, PTL DEF Spec

-----------------------------------------------------------------------------
(* Stopping a workflow.                                                    *)

(* A stop of a workflow that was answered ok, or is about to be, paused    *)
(* it, and nothing but a request to resume it ends the pause.              *)
AnsweredStop(q) == /\ Verb[q] = "stop"
                   /\ ack[q] = "ok" \/ (pc = "ack" /\ cur = q /\ reply = "ok")
ResumeAsked(n) == \E q \in submitted : Verb[q] = "resume" /\ Target[q] = n

Pausing ==
  /\ todo \subseteq submitted /\ cur \in submitted \cup {None}
  /\ \A q \in Requests : AnsweredStop(q) =>
       /\ Target[q] # None
       /\ Target[q] \in Boxes \/ ResumeAsked(Target[q])
            \/ \E r \in paused : name[r] = Target[q]

LEMMA StepOfPauses ==
  ASSUME Steady, Typed, Pausing, [Next]_vars
  PROVE  /\ submitted \subseteq submitted'
         /\ todo' \subseteq submitted' /\ cur' \in submitted' \cup {None}
         /\ \/ DispatchSubmit \/ DispatchPause \/ DispatchResume \/ DispatchTerminate \/ Ack
            \/ UNCHANGED <<name, paused, ack>> /\ (pc' = "ack" /\ reply' = "ok" =>
                                                     pc = "ack" /\ cur' = cur /\ reply = "ok")
  <1> USE DEF Fault, Fail, Typed, TypeOK
  <1>1. CASE Ingest
    <2>1. UNCHANGED <<submitted, name, paused, ack>> /\ pc' # "ack"
      BY <1>1 DEF Ingest, BeginTick, MetaWriteFails, AbortTick, EndTick, SkipRequest,
         RequestUnreadable, ClaimRequest, ClaimFails, RequestsDone, AdvanceTo
    <2>2. todo' \subseteq submitted /\ cur' \in submitted \cup {None}
      BY <1>1 DEF Ingest, BeginTick, MetaWriteFails, AbortTick, EndTick, ClearCursor,
         SkipRequest, RequestUnreadable, ClaimRequest, ClaimFails, RequestsDone,
         Listed, Pausing
    <2> QED BY <2>1, <2>2
  <1>2. CASE Dispatch
    <2>1. submitted' = submitted /\ todo' \subseteq submitted /\ cur' \in submitted \cup {None}
      BY <1>2 DEF Dispatch, DispatchSubmit, DispatchPause, DispatchTerminate,
         DispatchResume, DispatchReject, Ack, AckFails, AckFailsTwice, AbortTick, EndTick,
         ClearCursor, Pausing
    <2>2. CASE DispatchReject \/ AckFails \/ AckFailsTwice
      <3>1. UNCHANGED <<name, paused, ack>>
        BY <2>2 DEF DispatchReject, AckFails, AckFailsTwice, AbortTick, EndTick
      <3>2. ~(pc' = "ack" /\ reply' = "ok")
        BY <2>2 DEF DispatchReject, Answer, AckFails, AckFailsTwice, AbortTick, EndTick
      <3> QED BY <2>1, <3>1, <3>2
    <2> QED BY <1>2, <2>1, <2>2 DEF Dispatch
  <1>3. CASE Advance
    <2>1. UNCHANGED <<submitted, name, paused, ack>>
      BY <1>3 DEF Advance, Schedule, RefreshAgent, RefreshFails, CreateBox,
         CreateFails, StartRun, StartFails, RecordAgent, RecordFails,
         PublishWorkflow, PublishFails, AbortTick, EndTick
    <2>2. pc' # "ack"
      BY <1>3 DEF Advance, Schedule, RefreshAgent, RefreshFails, CreateBox,
         CreateFails, StartRun, StartFails, RecordAgent, RecordFails,
         PublishWorkflow, PublishFails, AdvanceTo, AbortTick, EndTick
    <2>3. todo' \subseteq submitted /\ cur' \in submitted \cup {None}
      BY <1>3 DEF Advance, Schedule, RefreshAgent, RefreshFails, CreateBox,
         CreateFails, StartRun, StartFails, RecordAgent, RecordFails,
         PublishWorkflow, PublishFails, AbortTick, EndTick, ClearCursor, Pausing
    <2> QED BY <2>1, <2>2, <2>3
  <1>4. CASE ReportError \/ ReportFails \/ Crash \/ Restart
    <2>1. CASE ReportError \/ Restart
      BY <2>1 DEF ReportError, Restart, Pausing
    <2>2. CASE ReportFails \/ Crash
      BY <2>2, ProcessStays DEF ReportFails, Crash
    <2> QED BY <1>4, <2>1, <2>2
  <1>5. CASE \/ \E r \in Requests : SubmitRequest(r)
             \/ \E b \in Boxes : RunEnds(b) \/ BoxLost(b)
             \/ UNCHANGED vars
    BY <1>5 DEF SubmitRequest, RunEnds, BoxLost, Pausing
  <1> QED BY <1>1, <1>2, <1>3, <1>4, <1>5 DEF Next, Controller

LEMMA PausingStep ==
  ASSUME Steady, Typed, Scheduling, OncePerProcess, Naming, Pausing, [Next]_vars
  PROVE  Pausing'
  <1> SUFFICES ASSUME NEW q \in Requests, AnsweredStop(q)'
               PROVE  /\ Target[q] # None
                      /\ Target[q] \in Boxes \/ ResumeAsked(Target[q])'
                           \/ \E r \in paused' : name'[r] = Target[q]
    BY StepOfPauses DEF Pausing
  <1> DEFINE Held == /\ Target[q] # None
                     /\ Target[q] \in Boxes \/ ResumeAsked(Target[q])
                          \/ \E r \in paused : name[r] = Target[q]
  <1>0. /\ name \in [Requests -> WorkflowNames \cup {None}] /\ paused \subseteq Requests
        /\ ack \in [Requests -> {"none", "ok", "error"}]
    BY DEF Typed, TypeOK
  <1>1. ResumeAsked(Target[q]) => ResumeAsked(Target[q])'
    BY StepOfPauses DEF ResumeAsked
  <1>2. AnsweredStop(q) => Held
    BY DEF Pausing
  <1>3. CASE DispatchSubmit
    <2>1. PICK n \in WorkflowNames \ UsedNames : name' = [name EXCEPT ![cur] = n]
      BY <1>3, SubmitNames
    <2>2. cur \in Requests /\ name[cur] = None /\ paused' = paused /\ ack' = ack
      BY <1>3, SubmitNames
    <2>3. AnsweredStop(q)
      <3>1. cur' = cur /\ Verb[cur] = "submit"
        BY <1>3 DEF DispatchSubmit, Submits
      <3> QED BY <2>2, <3>1 DEF AnsweredStop
    <2>4. \A r \in paused : name[r] # None => name'[r] = name[r]
      BY <1>0, <2>1, <2>2
    <2> QED BY <1>1, <1>2, <2>2, <2>3, <2>4
  <1>4. CASE DispatchPause
    <2>1. /\ paused' = paused \cup Named /\ Named # {} /\ UNCHANGED <<name, ack, cur>>
          /\ pc = "dispatch"
      BY <1>4 DEF DispatchPause
    <2>2. CASE q = cur
      BY <2>1, <2>2 DEF Named
    <2>3. CASE q # cur
      <3>1. AnsweredStop(q)
        BY <2>1, <2>3 DEF AnsweredStop
      <3> QED BY <1>1, <1>2, <2>1, <3>1
    <2> QED BY <2>2, <2>3
  <1>5. CASE DispatchResume
    <2>1. /\ paused' = paused \ Named /\ UNCHANGED <<name, ack, cur, submitted>>
          /\ pc = "dispatch" /\ Verb[cur] = "resume"
      BY <1>5 DEF DispatchResume
    <2>2. AnsweredStop(q)
      BY <2>1 DEF AnsweredStop
    <2>3. ASSUME Target[q] = Target[cur]
          PROVE  ResumeAsked(Target[q])
      <3>1. cur \in Requests /\ cur \in submitted
        BY <2>1, RequestsAssumption DEF Typed, CursorOK, Pausing, RequestsAssumption
      <3> QED BY <2>1, <2>3, <3>1 DEF ResumeAsked
    <2>4. ASSUME Target[q] # Target[cur], NEW r \in paused, name[r] = Target[q]
          PROVE  r \in paused' /\ name'[r] = Target[q]
      BY <2>1, <2>4 DEF Named
    <2> QED BY <1>1, <1>2, <2>2, <2>3, <2>4
  <1>6. CASE DispatchTerminate
    <2>1. /\ paused' = paused /\ Stopped # {} /\ UNCHANGED <<name, ack, cur>>
          /\ pc = "dispatch"
      BY <1>6 DEF DispatchTerminate
    <2>2. CASE q = cur
      <3>1. Target[cur] \in Boxes
        BY <2>1 DEF Stopped, Scheduling, Placement, Placed
      <3> QED BY <2>2, <3>1, BoxAssumption DEF BoxAssumption
    <2>3. CASE q # cur
      <3>1. AnsweredStop(q)
        BY <2>1, <2>3 DEF AnsweredStop
      <3> QED BY <1>1, <1>2, <2>1, <3>1
    <2> QED BY <2>2, <2>3
  <1>7. CASE Ack
    <2>1. /\ UNCHANGED <<name, paused>> /\ pc = "ack" /\ pc' = "ingest" /\ cur \in Requests
          /\ ack' = [ack EXCEPT ![cur] = IF reply = "ok" THEN "ok" ELSE "error"]
      BY <1>7 DEF Ack, Typed, CursorOK
    <2>2. AnsweredStop(q)
      BY <1>0, <2>1 DEF AnsweredStop
    <2> QED BY <1>1, <1>2, <2>1, <2>2
  <1>8. CASE UNCHANGED <<name, paused, ack>> /\ (pc' = "ack" /\ reply' = "ok" =>
                                                   pc = "ack" /\ cur' = cur /\ reply = "ok")
    <2>1. AnsweredStop(q)
      BY <1>8 DEF AnsweredStop
    <2> QED BY <1>1, <1>2, <1>8, <2>1
  <1> QED BY <1>3, <1>4, <1>5, <1>6, <1>7, <1>8, StepOfPauses

(* Only StartRun starts a run.                                             *)
LEMMA OnlyStartRunStarts ==
  ASSUME Typed, Scheduling, NEW b \in Boxes, boxState[b] = "created", boxState'[b] = "running",
         [Next]_vars
  PROVE  StartRun /\ b = box
  <1> USE DEF Typed, TypeOK
  <1>1. CASE Unmoved \/ Elsewhere \/ NextWorkflow \/ Schedule \/ RecordAgent \/ LoseController
    BY <1>1 DEF Unmoved, Elsewhere, NextWorkflow, Schedule, RecordAgent, LoseController
  <1>2. CASE CreateBox
    BY <1>2 DEF CreateBox
  <1>3. CASE StartRun
    BY <1>3 DEF StartRun
  <1>4. CASE DispatchTerminate
    <2>1. PICK t \in Stopped : \/ boxState' = [boxState EXCEPT ![slot[t]] = "gone"]
                               \/ boxState' = boxState
      BY <1>4, TerminateStep
    <2> QED BY <2>1
  <1>5. ASSUME NEW t \in Tasks, RefreshAgent(t) \/ RefreshFails(t)
        PROVE  FALSE
    BY <1>5, RefreshStep
  <1>6. ASSUME NEW c \in Boxes, RunEnds(c) \/ BoxLost(c)
        PROVE  FALSE
    BY <1>6 DEF RunEnds, BoxLost
  <1> HIDE DEF Typed, TypeOK
  <1> QED BY <1>1, <1>2, <1>3, <1>4, <1>5, <1>6, StepOfAgents DEF Begins, Changes

LEMMA StoppedStartsNothingStep ==
  ASSUME Boxes \cap WorkflowNames = {}, Typed, Scheduling, Naming, Pausing, [Next]_vars,
         NEW b \in Boxes, boxState[b] = "created", boxState'[b] = "running",
         NEW r \in Requests, boxTask[b] \in TasksOf(r)
  PROVE  ~StopAnswered(ackName[r])
  <1>1. StartRun /\ b = box
    BY OnlyStartRunStarts
  <1>2. PICK i \in stodo : task = <<Head(wtodo), stage, i>>
    BY <1>1 DEF StartRun, Scheduling, TaskChosen
  <1>3. boxTask[b] = task
    BY <1>1, TaskIsFresh DEF StartRun, Placed
  <1>4. r = Head(wtodo)
    BY <1>2, <1>3 DEF TasksOf, TasksOfStage
  <1>5. r \notin paused
    BY <1>1, <1>2, <1>4 DEF Scheduling, Scheduled, StartRun, Spawning
  <1>6. SUFFICES ASSUME NEW q \in Requests, Verb[q] = "stop", Target[q] = ackName[r],
                        ack[q] = "ok", ~ResumeAsked(ackName[r])
                 PROVE  FALSE
    BY DEF StopAnswered, ResumeAsked
  <1>7. /\ Target[q] # None
        /\ Target[q] \in Boxes \/ \E p \in paused : name[p] = Target[q]
    BY <1>6 DEF Pausing, AnsweredStop
  <1>8. ackName[r] = name[r] /\ name[r] \in WorkflowNames
    BY <1>6, <1>7 DEF Naming, Typed, TypeOK
  <1>9. PICK p \in paused : name[p] = name[r]
    BY <1>6, <1>7, <1>8
  <1>10. p = r
    BY <1>6, <1>7, <1>8, <1>9 DEF Naming, Typed, TypeOK
  <1> QED BY <1>5, <1>9, <1>10

(* A stop of a workflow that was answered ok holds: until somebody asks to *)
(* resume it, no agent of it starts, as long as one controller that can    *)
(* write drives the swarm (and no sandbox has the name of a workflow).     *)
THEOREM StopHolds ==
  ASSUME Steady, Boxes \cap WorkflowNames = {}
  PROVE  Spec => StoppedStartsNothing
  <1>1. Init => Pausing
    BY DEF Init, Pausing, AnsweredStop
  <1>2. Typed /\ Scheduling /\ OncePerProcess /\ Naming /\ Pausing /\ [Next]_vars => Pausing'
    BY PausingStep
  <1>3. Typed /\ Scheduling /\ Naming /\ Pausing /\ [Next]_vars
        => [\A b \in Boxes : boxState[b] = "created" /\ boxState'[b] = "running"
              => \A r \in Requests :
                   boxTask[b] \in TasksOf(r) => ~StopAnswered(ackName[r])]_vars
    BY StoppedStartsNothingStep
  <1> QED BY <1>1, <1>2, <1>3, AlwaysTyped, AlwaysScheduling, AlwaysOncePerProcess,
             AlwaysNaming, PTL DEF Spec, StoppedStartsNothing

-----------------------------------------------------------------------------
(* The swarm implements Waves.                                             *)

(* What Waves sees of the swarm.                                           *)
AcceptedSet == {r \in Requests : registered[r] > 0}
PhaseOf(t) == IF Live(t) THEN "running" ELSE IF Ran(t) THEN "over" ELSE "pending"
Phase == [t \in Tasks |-> PhaseOf(t)]

LEMMA WavesTasks ==
  /\ W!Tasks = Tasks
  /\ \A r : W!TasksOf(r) = TasksOf(r)
  /\ \A r, s : W!TasksOfStage(r, s) = TasksOfStage(r, s)
  <1>1. \A r, s : W!TasksOfStage(r, s) = TasksOfStage(r, s)
    BY DEF W!TasksOfStage, TasksOfStage
  <1>2. \A r : W!TasksOf(r) = TasksOf(r)
    BY <1>1 DEF W!TasksOf, TasksOf
  <1> QED BY <1>1, <1>2 DEF W!Tasks, Tasks

LEMMA WavesCardinality == \A S : W!Cardinality(S) = Cardinality(S)
  BY DEF W!Cardinality, Cardinality

LEMMA WavesInit == Init => W!Init
  <1> SUFFICES ASSUME Init PROVE W!Init
    OBVIOUS
  <1>1. AcceptedSet = {}
    BY DEF Init, AcceptedSet
  <1>2. \A t : ~Live(t) /\ ~Ran(t)
    BY DEF Init, Live, Ran
  <1>3. Phase = [t \in W!Tasks |-> "pending"]
    BY <1>2, WavesTasks DEF Phase, PhaseOf
  <1> QED BY <1>1, <1>3 DEF W!Init, AcceptedSet, Phase, PhaseOf

(* The actions of Waves, said of the swarm.                                *)
LEMMA WavesStutter ==
  ASSUME AcceptedSet' = AcceptedSet, \A t \in Tasks : PhaseOf(t)' = PhaseOf(t)
  PROVE  UNCHANGED W!vars
  <1>1. Phase' = Phase
    BY DEF Phase
  <1> QED BY <1>1 DEF W!vars, AcceptedSet, Phase, PhaseOf

LEMMA WavesAccept ==
  ASSUME NEW r \in Requests, r \notin AcceptedSet, AcceptedSet' = AcceptedSet \cup {r},
         \A t \in Tasks : PhaseOf(t)' = PhaseOf(t)
  PROVE  W!Accept(r)
  <1>1. Phase' = Phase
    BY DEF Phase
  <1> QED BY <1>1 DEF W!Accept, AcceptedSet, Phase, PhaseOf

LEMMA WavesFinish ==
  ASSUME NEW t \in Tasks, AcceptedSet' = AcceptedSet,
         PhaseOf(t) = "running", PhaseOf(t)' = "over",
         \A u \in Tasks : u # t => PhaseOf(u)' = PhaseOf(u)
  PROVE  W!Finish(t)
  <1>1. Phase[t] = "running" /\ Phase' = [Phase EXCEPT ![t] = "over"]
    BY DEF Phase
  <1> QED BY <1>1 DEF W!Finish, AcceptedSet, Phase, PhaseOf

LEMMA WavesStart ==
  ASSUME NEW r \in Requests, NEW s \in DOMAIN Plan[r], NEW i \in 1..Plan[r][s].agents,
         r \in AcceptedSet, AcceptedSet' = AcceptedSet,
         PhaseOf(<<r, s, i>>) = "pending", PhaseOf(<<r, s, i>>)' = "running",
         \A u \in Tasks : u # <<r, s, i>> => PhaseOf(u)' = PhaseOf(u),
         \A u \in TasksOf(r) : u[2] < s => PhaseOf(u) = "over",
         Cardinality({u \in TasksOfStage(r, s) : PhaseOf(u) = "running"})
           < Plan[r][s].maxConcurrent
  PROVE  W!Start(<<r, s, i>>)
  <1> DEFINE t == <<r, s, i>>
  <1>1. t \in Tasks
    BY TaskInTasks
  <1>2. Phase[t] = "pending" /\ Phase' = [Phase EXCEPT ![t] = "running"]
    BY <1>1 DEF Phase
  <1>3. \A u \in W!TasksOf(r) : u[2] < s => Phase[u] = "over"
    BY WavesTasks DEF Phase, Tasks
  <1>4. {u \in TasksOfStage(r, s) : PhaseOf(u) = "running"}
          = {u \in W!TasksOfStage(r, s) : Phase[u] = "running"}
    <2>1. TasksOfStage(r, s) \subseteq Tasks
      BY DEF Tasks, TasksOf
    <2> QED BY <2>1, WavesTasks DEF Phase
  <1>5. Cardinality(W!Running(r, s)) < Plan[r][s].maxConcurrent
    BY <1>4 DEF W!Running, Phase, PhaseOf
  <1>6. t[1] = r /\ t[2] = s
    OBVIOUS
  <1>7. /\ t[1] \in AcceptedSet
        /\ \A u \in W!TasksOf(t[1]) : u[2] < t[2] => Phase[u] = "over"
        /\ Cardinality(W!Running(t[1], t[2])) < Plan[t[1]][t[2]].maxConcurrent
    BY <1>3, <1>5, <1>6
  <1> HIDE DEF t
  <1>8. W!Start(t)
    BY <1>2, <1>7, WavesCardinality DEF W!Start, AcceptedSet, Phase, PhaseOf
  <1> QED BY <1>8 DEF t

(* Where the sandboxes stay, so do the phases; a run that ends finishes    *)
(* its task or, when another sandbox runs it, nothing.                     *)
LEMMA SameCloud ==
  ASSUME UNCHANGED cloud
  PROVE  \A t \in Tasks : PhaseOf(t)' = PhaseOf(t)
  BY DEF PhaseOf, Live, Ran

LEMMA RunIsOver ==
  ASSUME Typed, Owned, NEW b \in Boxes, Used(b), UNCHANGED <<boxTask, registered>>,
         NEW state \in {"ended", "gone"}, boxState' = [boxState EXCEPT ![b] = state]
  PROVE  [W!Next]_(W!vars)
  <1>0. /\ boxState \in [Boxes -> {"unused", "created", "running", "ended", "gone"}]
        /\ boxTask[b] \in Tasks /\ AcceptedSet' = AcceptedSet
    BY DEF Typed, TypeOK, Owned, AcceptedSet
  <1> DEFINE t == boxTask[b]
  <1>1. \A u \in Tasks : u # t => (Live(u)' <=> Live(u)) /\ (Ran(u)' <=> Ran(u))
    BY <1>0 DEF Live, Ran
  <1>2. \A u \in Tasks : u # t => PhaseOf(u)' = PhaseOf(u)
    BY <1>1 DEF PhaseOf
  <1>3. Ran(t)'
    BY <1>0 DEF Ran
  <1>4. Live(t)' => Live(t)
    BY <1>0 DEF Live
  <1>5. CASE Live(t)'
    <2>1. PhaseOf(t)' = PhaseOf(t)
      BY <1>4, <1>5 DEF PhaseOf
    <2> QED BY <1>0, <1>2, <2>1, WavesStutter
  <1>6. CASE ~Live(t)' /\ Live(t)
    <2>1. PhaseOf(t) = "running" /\ PhaseOf(t)' = "over"
      BY <1>3, <1>6 DEF PhaseOf
    <2>2. W!Finish(t)
      BY <1>0, <1>2, <2>1, WavesFinish
    <2> QED BY <1>0, <2>2, WavesTasks DEF W!Next
  <1>7. CASE ~Live(t)' /\ ~Live(t)
    <2>1. Ran(t)
      BY <1>0, <1>7 DEF Live, Ran, Used
    <2>2. PhaseOf(t)' = PhaseOf(t)
      BY <1>3, <1>7, <2>1 DEF PhaseOf
    <2> QED BY <1>0, <1>2, <2>2, WavesStutter
  <1> QED BY <1>5, <1>6, <1>7

(* When a run is started, the stages before are over and the pool has room *)
(* for it.                                                                 *)
LEMMA StageBeforeIsOver ==
  ASSUME Typed, Scheduling, Beliefs, Owned, pc = "start",
         NEW u \in TasksOf(Head(wtodo)), u[2] < stage
  PROVE  PhaseOf(u) = "over"
  <1> DEFINE r == Head(wtodo)
  <1>1. /\ r \in Requests /\ stage \in DOMAIN Plan[r] /\ stage \in Nat /\ stodo # {}
        /\ EarlierComplete(r, stage)
    BY SpawnCursor DEF Scheduling, TaskChosen, Scheduled, Spawning
  <1>2. \E s \in DOMAIN Plan[r] : \E i \in 1..Plan[r][s].agents : u = <<r, s, i>>
    BY DEF TasksOf, TasksOfStage
  <1>3. PICK s \in DOMAIN Plan[r] : \E i \in 1..Plan[r][s].agents : u = <<r, s, i>>
    BY <1>2
  <1>4. PICK i \in 1..Plan[r][s].agents : u = <<r, s, i>>
    BY <1>3
  <1>5. s \in 1..(stage - 1)
    <2>1. DOMAIN Plan[r] \subseteq Nat \ {0}
      <3> DEFINE StageSet == [agents : Nat \ {0}, maxConcurrent : Nat \ {0}]
      <3>1. Plan[r] \in Seq(StageSet)
        BY <1>1, PlanAssumption DEF PlanAssumption
      <3> HIDE DEF StageSet
      <3> QED BY <3>1
    <2> QED BY <1>1, <1>4, <2>1
  <1>6. StageComplete(r, s)
    BY <1>1, <1>5 DEF EarlierComplete
  <1>7. slot[u] # None /\ seen[u] \in TerminalStates /\ u \in Tasks
    BY <1>1, <1>4, <1>6, TaskInTasks DEF StageComplete, Finished, Started
  <1>8. ~Misbelieved(u)
    BY DEF Beliefs, Spawning
  <1>9. Over(u)
    BY <1>7, <1>8, OverWhenBoxOver DEF Misbelieved
  <1> QED BY <1>9 DEF Over, PhaseOf

LEMMA PoolHasRoom ==
  ASSUME Typed, Scheduling, Beliefs, Owned, Accepted, pc = "start"
  PROVE  Cardinality({u \in TasksOfStage(Head(wtodo), stage) : PhaseOf(u) = "running"})
           < Plan[Head(wtodo)][stage].maxConcurrent
  <1>1. PICK r \in Requests : r = Head(wtodo)
    BY SpawnCursor DEF Spawning
  <1>2. PICK i \in stodo : task = <<r, stage, i>>
    BY <1>1 DEF Scheduling, TaskChosen
  <1>3. PICK s \in DOMAIN Plan[r] : s = stage
    BY <1>1, <1>2, SpawnCursor DEF Spawning
  <1>4. stodo \subseteq 1..Plan[r][s].agents
    BY <1>1, <1>2, <1>3, SpawnCursor DEF Spawning
  <1> DEFINE Busy == {u \in TasksOfStage(r, s) : PhaseOf(u) = "running"}
             At == [j \in Open(r, s) |-> <<r, s, j>>]
             Image == {<<r, s, j>> : j \in Open(r, s)}
  <1>5. Busy \subseteq Image
    <2> SUFFICES ASSUME NEW j \in 1..Plan[r][s].agents, PhaseOf(<<r, s, j>>) = "running"
                 PROVE  j \in Open(r, s)
      BY DEF TasksOfStage
    <2> DEFINE u == <<r, s, j>>
    <2>1. u \in Tasks /\ u \in TasksOf(r)
      BY TaskInTasks DEF TasksOf, TasksOfStage
    <2>2. PICK b \in Boxes : boxTask[b] = u /\ boxState[b] = "running"
      BY DEF PhaseOf, Live
    <2>3. slot[u] = b
      <3>1. Owner(u) = r /\ name[r] # None
        BY <1>1, <2>1, OwnerType, HeadRuns DEF Runs
      <3> QED BY <2>2, <3>1 DEF Owned, Accounted, Used
    <2>4. ~Misbelieved(u)
      BY <1>1, <2>1 DEF Beliefs, Spawning
    <2>5. slot[u] # None /\ seen[u] \notin TerminalStates
      BY <2>2, <2>3, <2>4, BoxAssumption DEF Misbelieved, BoxOver, BoxAssumption
    <2> QED BY <2>5 DEF Open, Started, Finished
  <1>6. At \in Surjection(Open(r, s), Image)
    BY DEF Surjection
  <1>7. /\ IsFiniteSet(Open(r, s)) /\ Cardinality(Open(r, s)) \in Nat
    BY OpenFinite
  <1>8. IsFiniteSet(Image) /\ Cardinality(Image) <= Cardinality(Open(r, s))
    BY <1>6, <1>7, FS_Surjection
  <1>9. /\ Cardinality(Busy) <= Cardinality(Image)
        /\ Cardinality(Busy) \in Nat /\ Cardinality(Image) \in Nat
    BY <1>5, <1>8, FS_Subset, FS_CardinalityType
  <1>10. Cardinality(stodo) \in Nat /\ Cardinality(stodo) > 0
    <2>1. ASSUME NEW n \in Nat
          PROVE  IsFiniteSet(1..n)
      BY FS_Interval
    <2>2. IsFiniteSet(1..Plan[r][s].agents)
      BY <2>1, PlanType
    <2>3. IsFiniteSet(stodo)
      BY <1>4, <2>2, FS_Subset
    <2>4. Cardinality(stodo) # 0
      BY <1>2, <2>3, FS_EmptySet
    <2> QED BY <2>3, <2>4, FS_CardinalityType
  <1>11. Cardinality(Open(r, s)) + Cardinality(stodo) <= Plan[r][s].maxConcurrent
    BY <1>1, <1>2, <1>3 DEF Scheduling, Scheduled, HasRoom, Spawning
  <1>12. Cardinality(Busy) < Plan[r][s].maxConcurrent
    BY <1>7, <1>8, <1>9, <1>10, <1>11, PlanType
  <1> QED BY <1>1, <1>3, <1>12

LEMMA StartIsStart ==
  ASSUME Typed, Scheduling, Beliefs, Owned, Accepted, StartRun
  PROVE  [W!Next]_(W!vars)
  <1>1. PICK r \in Requests : r = Head(wtodo)
    BY SpawnCursor DEF StartRun, Spawning
  <1>2. PICK i \in stodo : task = <<r, stage, i>>
    BY <1>1 DEF StartRun, Scheduling, TaskChosen
  <1>3. PICK s \in DOMAIN Plan[r] : s = stage
    BY <1>1, <1>2, SpawnCursor DEF StartRun, Spawning
  <1>4. i \in 1..Plan[r][s].agents
    BY <1>1, <1>2, <1>3, SpawnCursor DEF StartRun, Spawning
  <1>5. /\ task = <<r, s, i>> /\ task \in Tasks /\ slot[task] = None
        /\ box \in Boxes /\ boxTask[box] = task /\ boxState[box] = "created"
    BY <1>2, <1>3, TaskIsFresh DEF StartRun, Placed, Scheduling, Sandboxed
  <1>6. /\ UNCHANGED <<boxTask, registered>> /\ pc = "start"
        /\ boxState' = [boxState EXCEPT ![box] = "running"]
        /\ boxState \in [Boxes -> {"unused", "created", "running", "ended", "gone"}]
    BY DEF StartRun, Typed, TypeOK
  <1>7. AcceptedSet' = AcceptedSet /\ r \in AcceptedSet
    <2>1. registered[r] > 0
      BY <1>1, <1>6, HeadRuns DEF Runs
    <2> QED BY <1>6, <2>1 DEF AcceptedSet
  <1>8. PhaseOf(task) = "pending"
    <2>1. ASSUME NEW b \in Boxes, boxTask[b] = task, Used(b)
          PROVE  FALSE
      <3>1. Owner(task) = r /\ name[r] # None
        BY <1>1, <1>5, <1>6, HeadRuns DEF Owner, Runs
      <3>2. slot[task] = b
        BY <1>6, <2>1, <3>1 DEF Owned, Accounted
      <3> QED BY <1>5, <3>2, BoxAssumption DEF BoxAssumption
    <2> QED BY <2>1 DEF PhaseOf, Live, Ran, Used
  <1>9. PhaseOf(task)' = "running"
    <2>1. task' = task
      BY DEF StartRun
    <2>2. Live(task)'
      BY <1>5, <1>6, <2>1 DEF Live
    <2> QED BY <2>2 DEF PhaseOf
  <1>10. \A u \in Tasks : u # task => PhaseOf(u)' = PhaseOf(u)
    <2>1. \A u \in Tasks : u # task => (Live(u)' <=> Live(u)) /\ (Ran(u)' <=> Ran(u))
      BY <1>5, <1>6 DEF Live, Ran
    <2> QED BY <2>1 DEF PhaseOf
  <1>11. \A u \in TasksOf(r) : u[2] < s => PhaseOf(u) = "over"
    BY <1>1, <1>3, <1>6, StageBeforeIsOver
  <1>12. Cardinality({u \in TasksOfStage(r, s) : PhaseOf(u) = "running"})
           < Plan[r][s].maxConcurrent
    BY <1>1, <1>3, <1>6, PoolHasRoom
  <1>13. PhaseOf(<<r, s, i>>)' = "running"
    <2>1. task' = task
      BY DEF StartRun
    <2> QED BY <1>5, <1>9, <2>1
  <1>14. W!Start(<<r, s, i>>)
    BY <1>4, <1>5, <1>7, <1>8, <1>10, <1>11, <1>12, <1>13, WavesStart
  <1> QED BY <1>5, <1>14, WavesTasks DEF W!Next

(* Every step of the controller, of the CLI and of the sandboxes is a step *)
(* of Waves, or none.                                                      *)
LEMMA WavesStep ==
  ASSUME Typed, Fresh, Scheduling, Beliefs, Owned, Accepted, [Next]_vars
  PROVE  [W!Next]_(W!vars)
  <1>1. CASE DispatchSubmit
    <2>1. /\ cur \in Requests /\ registered[cur] = 0 /\ UNCHANGED cloud
          /\ registered' = [registered EXCEPT ![cur] = 1]
      BY <1>1, SubmitFresh
    <2>2. PICK r \in Requests : r = cur
      BY <2>1
    <2>3. r \notin AcceptedSet /\ AcceptedSet' = AcceptedSet \cup {r}
      BY <2>1, <2>2 DEF AcceptedSet, Typed, TypeOK
    <2>4. W!Accept(r)
      BY <2>1, <2>3, SameCloud, WavesAccept
    <2> QED BY <2>4 DEF W!Next
  <1>2. CASE ~DispatchSubmit
    <2>1. registered' = registered /\ AcceptedSet' = AcceptedSet
      BY <1>2, StepOfNames DEF AcceptedSet, LoseController
    <2>2. CASE UNCHANGED cloud
      BY <2>1, <2>2, SameCloud, WavesStutter
    <2>3. CASE CreateBox
      <3>1. /\ box' \in Boxes /\ boxState[box'] = "unused"
            /\ boxState' = [boxState EXCEPT ![box'] = "created"]
            /\ boxTask' = [boxTask EXCEPT ![box'] = task']
        BY <2>3 DEF CreateBox, UnusedBoxes
      <3>2. \A t \in Tasks : (Live(t)' <=> Live(t)) /\ (Ran(t)' <=> Ran(t))
        BY <3>1 DEF Live, Ran, Typed, TypeOK
      <3>3. \A t \in Tasks : PhaseOf(t)' = PhaseOf(t)
        BY <3>2 DEF PhaseOf
      <3> QED BY <2>1, <3>3, WavesStutter
    <2>4. CASE StartRun
      BY <2>4, StartIsStart
    <2>5. CASE DispatchTerminate
      <3>1. boxTask' = boxTask
        BY <2>5, TerminateStep
      <3>2. PICK t \in Stopped : \/ boxState' = [boxState EXCEPT ![slot[t]] = "gone"]
                                 \/ boxState' = boxState
        BY <2>5, TerminateStep
      <3>3. PICK b \in Boxes : b = slot[t]
        BY DEF Stopped, Scheduling, Placement, Placed
      <3>4. Used(b)
        BY <3>3 DEF Stopped, Scheduling, Sandboxed
      <3> QED BY <2>1, <2>2, <3>1, <3>2, <3>3, <3>4, RunIsOver
    <2>6. ASSUME NEW b \in Boxes, RunEnds(b) \/ BoxLost(b)
          PROVE  [W!Next]_(W!vars)
      <3>1. /\ Used(b) /\ boxTask' = boxTask
            /\ \E state \in {"ended", "gone"} : boxState' = [boxState EXCEPT ![b] = state]
        BY <2>6 DEF RunEnds, BoxLost, Used
      <3> QED BY <2>1, <3>1, RunIsOver
    <2>7. ASSUME NEW t \in Tasks, RefreshAgent(t) \/ RefreshFails(t)
          PROVE  UNCHANGED cloud
      BY <2>7, RefreshStep
    <2>8. \/ Unmoved \/ Elsewhere \/ NextWorkflow \/ Schedule \/ RecordAgent \/ LoseController
          => UNCHANGED cloud
      BY DEF Unmoved, Elsewhere, NextWorkflow, Schedule, RecordAgent, LoseController
    <2> QED BY <2>2, <2>3, <2>4, <2>5, <2>6, <2>7, <2>8, StepOfAgents
            DEF Begins, Changes
  <1> QED BY <1>1, <1>2

(* What the sandboxes do is a behaviour of Waves: plans are accepted once, *)
(* no agent starts twice, none before the stages in front of its own are   *)
(* over, and no pool ever runs more than its maximum, whenever the         *)
(* controller is killed and replaced, as long as writes succeed, the next  *)
(* controller overlooks no marker, and a stop that fails unnoticed is not  *)
(* followed by a status read that fails.                                   *)
THEOREM SwarmRunsInWaves ==
  ASSUME Lasting, StopsAreSeen
  PROVE  Spec => ImplementsWaves
  <1>1. Init => W!Init
    BY WavesInit
  <1>2. /\ Typed /\ Fresh /\ Scheduling /\ Beliefs /\ Owned /\ Accepted /\ [Next]_vars
        => [W!Next]_(W!vars)
    BY WavesStep
  <1> QED BY <1>1, <1>2, AlwaysTyped, AlwaysFresh, AlwaysScheduling,
             AlwaysBeliefs, AlwaysOwned, AlwaysAccepted, PTL
          DEF Spec, ImplementsWaves, W!Spec

-----------------------------------------------------------------------------
(* What Waves comes to: pools and waves of sandboxes.                      *)

(* Of the tasks of Waves, those that run fit the pools, and a task that    *)
(* was started has everything in front of it over.                         *)
Busy(r, s) == {t \in TasksOfStage(r, s) : PhaseOf(t) = "running"}

PoolsFit ==
  \A r \in Requests : \A s \in DOMAIN Plan[r] :
    Cardinality(Busy(r, s)) <= Plan[r][s].maxConcurrent

InOrder ==
  \A r \in Requests : \A t, u \in TasksOf(r) :
    u[2] < t[2] /\ PhaseOf(t) # "pending" => PhaseOf(u) = "over"

LEMMA StageFinite ==
  ASSUME NEW r \in Requests, NEW s \in DOMAIN Plan[r]
  PROVE  /\ IsFiniteSet(Busy(r, s)) /\ Cardinality(Busy(r, s)) \in Nat
         /\ TasksOfStage(r, s) \subseteq TasksOf(r) /\ TasksOf(r) \subseteq Tasks
  <1> DEFINE At == [i \in 1..Plan[r][s].agents |-> <<r, s, i>>]
  <1>1. ASSUME NEW n \in Nat
        PROVE  IsFiniteSet(1..n)
    BY FS_Interval
  <1>2. IsFiniteSet(1..Plan[r][s].agents)
    BY <1>1, PlanType
  <1>3. At \in Surjection(1..Plan[r][s].agents, TasksOfStage(r, s))
    BY DEF Surjection, TasksOfStage
  <1>4. IsFiniteSet(TasksOfStage(r, s))
    BY <1>2, <1>3, FS_Surjection
  <1>5. Busy(r, s) \subseteq TasksOfStage(r, s)
    BY DEF Busy
  <1>6. IsFiniteSet(Busy(r, s)) /\ Cardinality(Busy(r, s)) \in Nat
    BY <1>4, <1>5, FS_Subset, FS_CardinalityType
  <1> QED BY <1>6 DEF Tasks, TasksOf

(* A step of Waves, in terms of the phases.                                *)
OnePhase(t, before, after) ==
  /\ PhaseOf(t) = before /\ PhaseOf(t)' = after
  /\ \A u \in Tasks : u # t => PhaseOf(u)' = PhaseOf(u)

LEMMA StepOfWaves ==
  ASSUME [W!Next]_(W!vars)
  PROVE  \/ \A t \in Tasks : PhaseOf(t)' = PhaseOf(t)
         \/ \E t \in Tasks : OnePhase(t, "running", "over")
         \/ \E t \in Tasks : /\ OnePhase(t, "pending", "running")
                             /\ \A u \in TasksOf(t[1]) : u[2] < t[2] => PhaseOf(u) = "over"
                             /\ Cardinality(Busy(t[1], t[2])) < Plan[t[1]][t[2]].maxConcurrent
  <1>1. CASE UNCHANGED W!vars \/ \E r \in Requests : W!Accept(r)
    <2>1. Phase' = Phase
      BY <1>1 DEF W!vars, W!Accept, Phase, PhaseOf
    <2>2. ASSUME NEW t \in Tasks PROVE PhaseOf(t)' = PhaseOf(t)
      <3>1. Phase[t] = PhaseOf(t) /\ Phase'[t] = PhaseOf(t)'
        BY DEF Phase
      <3> QED BY <2>1, <3>1
    <2> QED BY <2>2
  <1>2. ASSUME NEW t \in Tasks, W!Finish(t)
        PROVE  OnePhase(t, "running", "over")
    <2>1. Phase[t] = "running" /\ Phase' = [Phase EXCEPT ![t] = "over"]
      BY <1>2 DEF W!Finish, Phase, PhaseOf
    <2> QED BY <2>1 DEF OnePhase, Phase
  <1>3. ASSUME NEW t \in Tasks, W!Start(t)
        PROVE  /\ OnePhase(t, "pending", "running")
               /\ \A u \in TasksOf(t[1]) : u[2] < t[2] => PhaseOf(u) = "over"
               /\ Cardinality(Busy(t[1], t[2])) < Plan[t[1]][t[2]].maxConcurrent
    <2>1. /\ Phase[t] = "pending" /\ Phase' = [Phase EXCEPT ![t] = "running"]
          /\ \A u \in W!TasksOf(t[1]) : u[2] < t[2] => Phase[u] = "over"
          /\ W!Cardinality(W!Running(t[1], t[2])) < Plan[t[1]][t[2]].maxConcurrent
      BY <1>3 DEF W!Start, Phase, PhaseOf
    <2>2. PICK r \in Requests : \E s \in DOMAIN Plan[r] : \E i \in 1..Plan[r][s].agents :
            t = <<r, s, i>>
      BY DEF Tasks, TasksOf, TasksOfStage
    <2>3. PICK s \in DOMAIN Plan[r] : \E i \in 1..Plan[r][s].agents : t = <<r, s, i>>
      BY <2>2
    <2>4. t[1] = r /\ t[2] = s
      BY <2>3
    <2>5. TasksOfStage(r, s) \subseteq Tasks /\ TasksOf(r) \subseteq Tasks
      BY StageFinite
    <2>6. \A u \in TasksOf(r) : u[2] < s => PhaseOf(u) = "over"
      BY <2>1, <2>4, <2>5, WavesTasks DEF Phase
    <2>7. W!Running(r, s) = Busy(r, s)
      <3>1. W!Running(r, s) = {u \in W!TasksOfStage(r, s) : Phase[u] = "running"}
        BY DEF W!Running, Phase, PhaseOf
      <3> QED BY <2>5, <3>1, WavesTasks DEF Busy, Phase
    <2>8. Cardinality(Busy(r, s)) < Plan[r][s].maxConcurrent
      BY <2>1, <2>4, <2>7, WavesCardinality
    <2>9. OnePhase(t, "pending", "running")
      BY <2>1 DEF OnePhase, Phase
    <2> QED BY <2>4, <2>6, <2>8, <2>9
  <1> QED BY <1>1, <1>2, <1>3, WavesTasks DEF W!Next

LEMMA PhasesStep == PoolsFit /\ InOrder /\ [W!Next]_(W!vars) => PoolsFit' /\ InOrder'
  <1> SUFFICES ASSUME PoolsFit, InOrder, [W!Next]_(W!vars)
               PROVE  PoolsFit' /\ InOrder'
    OBVIOUS
  <1>0. \A r \in Requests : TasksOf(r) \subseteq Tasks
    BY DEF Tasks
  <1>1. CASE \A t \in Tasks : PhaseOf(t)' = PhaseOf(t)
    <2>1. ASSUME NEW r \in Requests, NEW s \in DOMAIN Plan[r]
          PROVE  Busy(r, s)' = Busy(r, s)
      BY <1>1, StageFinite DEF Busy
    <2>2. PoolsFit'
      BY <2>1 DEF PoolsFit
    <2>3. InOrder'
      BY <1>0, <1>1 DEF InOrder
    <2> QED BY <2>2, <2>3
  <1>2. CASE \E t \in Tasks : OnePhase(t, "running", "over")
    <2>1. PICK t \in Tasks : OnePhase(t, "running", "over")
      BY <1>2
    <2>2. ASSUME NEW r \in Requests, NEW s \in DOMAIN Plan[r]
          PROVE  Cardinality(Busy(r, s)') <= Plan[r][s].maxConcurrent
      <3>1. Busy(r, s)' \subseteq Busy(r, s)
        BY <2>1, StageFinite DEF Busy, OnePhase
      <3>2. /\ Cardinality(Busy(r, s)') <= Cardinality(Busy(r, s))
            /\ Cardinality(Busy(r, s)') \in Nat
        BY <3>1, StageFinite, FS_Subset, FS_CardinalityType
      <3> QED BY <3>2, StageFinite, PlanType DEF PoolsFit
    <2>3. PoolsFit'
      BY <2>2 DEF PoolsFit
    <2>4. InOrder'
      BY <1>0, <2>1 DEF InOrder, OnePhase
    <2> QED BY <2>3, <2>4
  <1>3. CASE \E t \in Tasks :
               /\ OnePhase(t, "pending", "running")
               /\ \A u \in TasksOf(t[1]) : u[2] < t[2] => PhaseOf(u) = "over"
               /\ Cardinality(Busy(t[1], t[2])) < Plan[t[1]][t[2]].maxConcurrent
    <2>1. PICK t \in Tasks :
               /\ OnePhase(t, "pending", "running")
               /\ \A u \in TasksOf(t[1]) : u[2] < t[2] => PhaseOf(u) = "over"
               /\ Cardinality(Busy(t[1], t[2])) < Plan[t[1]][t[2]].maxConcurrent
      BY <1>3
    <2>2. ASSUME NEW r \in Requests, NEW s \in DOMAIN Plan[r]
          PROVE  Cardinality(Busy(r, s)') <= Plan[r][s].maxConcurrent
      <3>0. TasksOfStage(r, s) \subseteq Tasks /\ TasksOfStage(r, s)' = TasksOfStage(r, s)
        BY StageFinite DEF TasksOfStage
      <3>1. CASE t \in TasksOfStage(r, s)
        <4>1. t[1] = r /\ t[2] = s
          BY <3>1 DEF TasksOfStage
        <4>2. Busy(r, s)' \subseteq Busy(r, s) \cup {t}
          BY <2>1, <3>0 DEF Busy, OnePhase
        <4>3. /\ IsFiniteSet(Busy(r, s) \cup {t})
              /\ Cardinality(Busy(r, s) \cup {t}) <= Cardinality(Busy(r, s)) + 1
          <5>1. IsFiniteSet(Busy(r, s)) /\ Cardinality(Busy(r, s)) \in Nat
            BY StageFinite
          <5>2. /\ IsFiniteSet(Busy(r, s) \cup {t})
                /\ Cardinality(Busy(r, s) \cup {t})
                     = IF t \in Busy(r, s) THEN Cardinality(Busy(r, s))
                       ELSE Cardinality(Busy(r, s)) + 1
            BY <5>1, FS_AddElement, Zenon
          <5> QED BY <5>1, <5>2
        <4>4. /\ Cardinality(Busy(r, s)') <= Cardinality(Busy(r, s) \cup {t})
              /\ Cardinality(Busy(r, s)') \in Nat
              /\ Cardinality(Busy(r, s) \cup {t}) \in Nat
          BY <4>2, <4>3, FS_Subset, FS_CardinalityType
        <4>5. Cardinality(Busy(r, s)) < Plan[r][s].maxConcurrent
          BY <2>1, <4>1
        <4> QED BY <4>3, <4>4, <4>5, StageFinite, PlanType
      <3>2. CASE t \notin TasksOfStage(r, s)
        <4>1. Busy(r, s)' = Busy(r, s)
          BY <2>1, <3>0, <3>2 DEF Busy, OnePhase
        <4> QED BY <4>1 DEF PoolsFit
      <3> QED BY <3>1, <3>2
    <2>3. PoolsFit'
      BY <2>2 DEF PoolsFit
    <2>4. ASSUME NEW r \in Requests, NEW v \in TasksOf(r), NEW u \in TasksOf(r),
                 u[2] < v[2], PhaseOf(v)' # "pending"
          PROVE  PhaseOf(u)' = "over"
      <3>1. u \in Tasks /\ v \in Tasks
        BY <1>0
      <3>2. CASE v = t
        <4>1. t[1] = r
          BY <3>2 DEF TasksOf, TasksOfStage
        <4>2. PhaseOf(u) = "over"
          BY <2>1, <2>4, <3>2, <4>1
        <4>3. u # t
          BY <2>1, <4>2 DEF OnePhase
        <4> QED BY <2>1, <3>1, <4>2, <4>3 DEF OnePhase
      <3>3. CASE v # t
        <4>1. PhaseOf(u) = "over"
          BY <2>1, <2>4, <3>1, <3>3 DEF InOrder, OnePhase
        <4>2. u # t
          BY <2>1, <4>1 DEF OnePhase
        <4> QED BY <2>1, <3>1, <4>1, <4>2 DEF OnePhase
      <3> QED BY <3>2, <3>3
    <2>5. InOrder'
      BY <2>4 DEF InOrder
    <2> QED BY <2>3, <2>5
  <1> QED BY <1>1, <1>2, <1>3, StepOfWaves

(* A task has one sandbox in use, so that the sandboxes of a stage are no  *)
(* more than its running tasks.                                            *)
LEMMA BoxesWithinTasks ==
  ASSUME Typed, Scheduling, Owned, NEW r \in Requests, NEW s \in DOMAIN Plan[r]
  PROVE  /\ Cardinality(RunningBoxes(r, s)) <= Cardinality(Busy(r, s))
         /\ Cardinality(RunningBoxes(r, s)) \in Nat
  <1> DEFINE Of == [b \in RunningBoxes(r, s) |-> boxTask[b]]
  <1>1. \A b \in RunningBoxes(r, s) : boxTask[b] \in Busy(r, s) /\ b \in Boxes /\ Used(b)
    BY DEF RunningBoxes, Busy, PhaseOf, Live, Used
  <1>2. \A b, c \in RunningBoxes(r, s) : boxTask[b] = boxTask[c] => b = c
    BY <1>1 DEF Owned
  <1>3. Of \in Injection(RunningBoxes(r, s), Busy(r, s))
    BY <1>1, <1>2 DEF Injection, IsInjective
  <1>4. /\ IsFiniteSet(RunningBoxes(r, s))
        /\ Cardinality(RunningBoxes(r, s)) <= Cardinality(Busy(r, s))
    BY <1>3, StageFinite, FS_Injection
  <1> QED BY <1>4, FS_CardinalityType

(* What runs, recorded or not, keeps to the plan: the sandboxes of a stage *)
(* never exceed its pool and none was started before every agent of the    *)
(* stages in front is over, with crashes and failures as for the theorem   *)
(* before.                                                                 *)
THEOREM SandboxesKeepToThePlan ==
  ASSUME Lasting, StopsAreSeen
  PROVE  Spec => [](PoolsHold /\ WavesHold)
  <1>1. Init => PoolsFit /\ InOrder
    <2> SUFFICES ASSUME Init PROVE PoolsFit /\ InOrder
      OBVIOUS
    <2>1. \A t : PhaseOf(t) = "pending"
      BY DEF Init, Live, Ran, PhaseOf
    <2>2. ASSUME NEW r \in Requests, NEW s \in DOMAIN Plan[r]
          PROVE  Cardinality(Busy(r, s)) <= Plan[r][s].maxConcurrent
      <3>1. Busy(r, s) = {}
        BY <2>1 DEF Busy
      <3> QED BY <3>1, FS_EmptySet, PlanType
    <2> QED BY <2>1, <2>2 DEF PoolsFit, InOrder
  <1>2. /\ Typed /\ Fresh /\ Scheduling /\ Beliefs /\ Owned /\ Accepted
        /\ PoolsFit /\ InOrder /\ [Next]_vars
        => PoolsFit' /\ InOrder'
    BY WavesStep, PhasesStep
  <1>3. Typed /\ Scheduling /\ Owned /\ PoolsFit /\ InOrder => PoolsHold /\ WavesHold
    <2> SUFFICES ASSUME Typed, Scheduling, Owned, PoolsFit, InOrder
                 PROVE  PoolsHold /\ WavesHold
      OBVIOUS
    <2>1. ASSUME NEW r \in Requests, NEW s \in DOMAIN Plan[r]
          PROVE  Cardinality(RunningBoxes(r, s)) <= Plan[r][s].maxConcurrent
      <3>1. /\ Cardinality(RunningBoxes(r, s)) <= Cardinality(Busy(r, s))
            /\ Cardinality(RunningBoxes(r, s)) \in Nat
        BY BoxesWithinTasks
      <3>2. Cardinality(Busy(r, s)) <= Plan[r][s].maxConcurrent
        BY DEF PoolsFit
      <3> QED BY <3>1, <3>2, StageFinite, PlanType
    <2>2. WavesHold
      BY DEF InOrder, WavesHold, PhaseOf, Over
    <2> QED BY <2>1, <2>2 DEF PoolsHold
  <1> QED BY <1>1, <1>2, <1>3, AlwaysTyped, AlwaysFresh, AlwaysScheduling,
             AlwaysBeliefs, AlwaysOwned, AlwaysAccepted, PTL
          DEF Spec
=============================================================================
