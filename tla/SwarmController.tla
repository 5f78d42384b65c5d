--------------------------- MODULE SwarmController ---------------------------
(***************************************************************************)
(* The controller of a dynamic swarm (agents_on_modal/dynamic.py): one     *)
(* thread that, tick after tick, picks up the requests the aom-swarm CLI   *)
(* left on the shared volume, answers them, starts the agents of the       *)
(* accepted plans in sandboxes (waves of bounded pools) and publishes what *)
(* it knows.  Every write to the volume and every call to the sandbox      *)
(* provider is a step of its own, so that the CLI, the agents, failures    *)
(* and a restart of the controller come between any two of them.           *)
(***************************************************************************)
EXTENDS Naturals, FiniteSets, Sequences

CONSTANTS
  Requests,    (* request ids; ids carry a random suffix, so their sorted  *)
               (* order says nothing of the order they were written in     *)
  Verb,        (* the verb of each request: submit (spawn is the submit of *)
               (* a one-agent plan), stop, resume, or any other            *)
  Bases,       (* the names plans ask for                                  *)
  Base,        (* the name each submit asks for                            *)
  Plan,        (* its stages, [agents, maxConcurrent]; <<>> does not parse *)
  Target,      (* what a stop or a resume names: a workflow or a sandbox   *)
  Boxes,       (* sandboxes the provider can hand out                      *)
  None,        (* no request, no name, no task                             *)
  Faults,      (* the kinds of failure that may happen                     *)
  MaxFaults,   (* how many failures there are at most                      *)
  MaxCrashes,  (* the process is killed only when fewer were lost before   *)
  GoneReads    (* what reading the status of a dead sandbox may do         *)

FaultKinds ==
  { "read",    \* a file of the volume reads as if it were missing
    "put",     \* a write to the volume raises
    "create",  \* creating a sandbox raises
    "start",   \* starting the run in a new sandbox raises
    "status",  \* reading the status of a run raises
    "stop",    \* terminating a sandbox fails, unnoticed
    "lost" }   \* a sandbox dies although nobody stopped it

WorkflowNames == Bases \X (1..Cardinality(Requests))

ASSUME RequestsAssumption ==
  /\ IsFiniteSet(Requests)
  /\ None \notin Requests /\ None \notin WorkflowNames

ASSUME PlanAssumption ==
  /\ Plan \in [Requests -> Seq([agents : Nat \ {0}, maxConcurrent : Nat \ {0}])]
  /\ Base \in [Requests -> Bases]

ASSUME FaultAssumption ==
  /\ Faults \subseteq FaultKinds
  /\ MaxFaults \in Nat /\ MaxCrashes \in Nat
  /\ GoneReads \subseteq {"raises", "starting"} /\ GoneReads # {}

ASSUME BoxAssumption == None \notin Boxes

VARIABLES
  (* the volume: /shared/_swarm *)
  submitted,   (* requests/<id>.json                                       *)
  handled,     (* handled/<id>.json                                        *)
  ack,         (* ack/<id>.json: none, ok or error                         *)
  ackName,     (* the workflow an ok ack names                             *)
  agentFile,   (* agents/<id>.json: the state published of each sandbox    *)
  workflowFile,(* workflows/<name>.json: the status published              *)
  (* the controller's memory, lost with its process *)
  known,       (* Controller._handled                                      *)
  wroteMeta,   (* Controller._wrote_meta                                   *)
  workflows,   (* Controller._workflows: the requests it runs, in order    *)
  name,        (* the name of each of them                                 *)
  paused,      (* those that are paused                                    *)
  slot,        (* the sandbox recorded for each task, or None              *)
  seen,        (* the last state read of it                                *)
  (* where the tick is *)
  pc, todo, cur, reply, wtodo, rtodo, stage, stodo, task, box,
  (* the sandbox provider *)
  boxTask,     (* the task each sandbox was created for                    *)
  boxState,    (* unused, created, running, ended or gone                  *)
  (* bookkeeping of the model *)
  registered,  (* how often each request was turned into a workflow        *)
  nfaults, ncrashes

inbox     == <<submitted, handled, ack, ackName>>
volume    == <<inbox, agentFile, workflowFile>>
runs      == <<slot, seen>>
swarm     == <<workflows, name, paused, runs>>
memory    == <<known, wroteMeta, swarm>>
ingestion == <<todo, cur, reply>>
spawning  == <<stage, stodo, task, box>>
advancing == <<wtodo, rtodo, spawning>>
cursor    == <<ingestion, advancing>>
cloud     == <<boxTask, boxState>>
ghosts    == <<registered, nfaults, ncrashes>>
vars      == <<volume, memory, pc, cursor, cloud, ghosts>>

-----------------------------------------------------------------------------
(* Plans, tasks and the scheduler's pure functions.                        *)

Submits == {r \in Requests : Verb[r] = "submit"}

TasksOfStage(r, s) == {<<r, s, i>> : i \in 1..Plan[r][s].agents}
TasksOf(r) == UNION {TasksOfStage(r, s) : s \in DOMAIN Plan[r]}
Tasks == UNION {TasksOf(r) : r \in Requests}

(* The states of an agent that is over; done stands for failed and timeout *)
(* as well, which the controller does not tell apart.                      *)
(* (mutant: a run that ended is not among them)                            *)
TerminalStatesNotDone == {"cancelled"}

TerminalStates == {"done", "cancelled"}

Started(r, s)  == {i \in 1..Plan[r][s].agents : slot[<<r, s, i>>] # None}
Finished(r, s) == {i \in Started(r, s) : seen[<<r, s, i>>] \in TerminalStates}

(* (mutant: an agent that was started counts as finished)                  *)
StageCompleteOnceStarted(r, s) == Started(r, s) = 1..Plan[r][s].agents

StageComplete(r, s) == Finished(r, s) = 1..Plan[r][s].agents

Complete(r) == \A s \in DOMAIN Plan[r] : StageComplete(r, s)

(* active_stage_index: the first stage that is not complete.               *)
ActiveStage(r, s) ==
  /\ s \in DOMAIN Plan[r] /\ ~StageComplete(r, s)
  /\ \A u \in 1..(s - 1) : StageComplete(r, u)

(* The agents to start now: the free slots of the pool, lowest index       *)
(* first.  An index is taken when the pending ones below it, with the      *)
(* agents still running, leave a slot for it.                              *)
(* (mutant: the agents still running are not counted)                      *)
StageNextIgnoringRunning(r, s) ==
  LET pending == (1..Plan[r][s].agents) \ Started(r, s)
  IN  {i \in pending : Cardinality({j \in pending : j < i})
                        < Plan[r][s].maxConcurrent}

StageNextIndices(r, s) ==
  LET running == Cardinality(Started(r, s) \ Finished(r, s))
      pending == (1..Plan[r][s].agents) \ Started(r, s)
  IN  {i \in pending : running + Cardinality({j \in pending : j < i})
                        < Plan[r][s].maxConcurrent}

(* The status _publish_workflow writes.                                    *)
WorkflowStatus(r) ==
  IF Complete(r) THEN "done"
  ELSE IF r \in paused THEN "paused" ELSE "running"

Recorded(r) == {t \in TasksOf(r) : slot[t] # None}

UsedNames == {name[r] : r \in Requests} \ {None}

-----------------------------------------------------------------------------
(* Failures.                                                               *)

(* n operations fail, of these kinds.                                      *)
Fail(n, kinds) ==
  /\ kinds \subseteq Faults
  /\ nfaults + n <= MaxFaults
  /\ nfaults' = nfaults + n

Fault(kind) == Fail(1, {kind})
NoFault == UNCHANGED nfaults

ClearCursor ==
  /\ todo' = {} /\ cur' = None /\ reply' = "none"
  /\ wtodo' = <<>> /\ rtodo' = {} /\ stage' = 0 /\ stodo' = {}
  /\ task' = None /\ box' = None

(* A failure whose exception the tick does not catch ends it, wherever it  *)
(* was: run_forever goes on to write controller_error.json.                *)
EndTick(n, kinds) ==
  /\ Fail(n, kinds)
  /\ pc' = "report" /\ ClearCursor
  /\ UNCHANGED <<volume, cloud, registered, ncrashes>>

AbortTick(kind) == EndTick(1, {kind}) /\ UNCHANGED memory

(* The states that reading the status of sandbox b can leave: the state    *)
(* the runner wrote, or what was seen before when the read raises.  A dead *)
(* sandbox may also read as a file that is missing, which is "starting".   *)
Reading(b, before) ==
  CASE boxState[b] = "running" -> {"running"}
    [] boxState[b] = "ended"   -> {"done"}
    [] OTHER -> (IF "raises" \in GoneReads THEN {before} ELSE {})
                \cup (IF "starting" \in GoneReads THEN {"starting"} ELSE {})

(* One status read, or one that raises although the sandbox lives.         *)
ReadStatus(b, before, state) ==
  \/ state \in Reading(b, before) /\ NoFault
  \/ state = before /\ Fault("status")

-----------------------------------------------------------------------------
(* Initial state of the controller's memory, and of a new process.         *)

FreshMemory ==
  [known |-> {}, wroteMeta |-> FALSE, workflows |-> <<>>,
   name |-> [r \in Requests |-> None], paused |-> {},
   slot |-> [t \in Tasks |-> None], seen |-> [t \in Tasks |-> "starting"]]

Init ==
  /\ submitted = {} /\ handled = {}
  /\ ack = [r \in Requests |-> "none"]
  /\ ackName = [r \in Requests |-> None]
  /\ agentFile = [b \in Boxes |-> "none"]
  /\ workflowFile = [n \in WorkflowNames |-> "none"]
  /\ known = FreshMemory.known /\ wroteMeta = FreshMemory.wroteMeta
  /\ workflows = FreshMemory.workflows /\ name = FreshMemory.name
  /\ paused = FreshMemory.paused /\ slot = FreshMemory.slot
  /\ seen = FreshMemory.seen
  /\ pc = "idle" /\ todo = {} /\ cur = None /\ reply = "none"
  /\ wtodo = <<>> /\ rtodo = {} /\ stage = 0 /\ stodo = {}
  /\ task = None /\ box = None
  /\ boxTask = [b \in Boxes |-> None]
  /\ boxState = [b \in Boxes |-> "unused"]
  /\ registered = [r \in Requests |-> 0]
  /\ nfaults = 0 /\ ncrashes = 0

-----------------------------------------------------------------------------
(* The CLI (swarmctl): a submit, spawn, stop or resume command writes its  *)
(* request under a new id.                                                 *)
SubmitRequest(r) ==
  /\ r \notin submitted
  /\ submitted' = submitted \cup {r}
  /\ UNCHANGED <<handled, ack, ackName, agentFile, workflowFile, memory, pc,
                 cursor, cloud, ghosts>>

-----------------------------------------------------------------------------
(* tick: meta.json, then the request files.                                *)

(* The first tick of a process writes meta.json; every tick lists the      *)
(* requests, which a failing read reports as none.  The ones this process  *)
(* knows are passed over without looking at the volume.                    *)

Listed == submitted \ known

BeginTick ==
  /\ pc = "idle"
  /\ wroteMeta' = TRUE
  /\ pc' = "ingest"
  /\ \/ todo' = Listed /\ NoFault
     \/ todo' = {} /\ Fault("read")
  /\ UNCHANGED <<volume, known, swarm, cur, reply, advancing, cloud,
                 registered, ncrashes>>

MetaWriteFails ==
  /\ pc = "idle" /\ ~wroteMeta
  /\ AbortTick("put")

(* The marker files of a request, any of which tells that it was picked up *)
(* before.                                                                 *)
Markers(r) == (IF r \in handled THEN {"handled"} ELSE {})
              \cup (IF ack[r] # "none" THEN {"ack"} ELSE {})

(* A request whose marker is read is skipped, and known from then on.      *)
SkipRequest(r) ==
  /\ pc = "ingest" /\ r \in todo
  /\ Markers(r) # {}
  /\ known' = known \cup {r}
  /\ todo' = todo \ {r}
  /\ UNCHANGED <<volume, wroteMeta, swarm, pc, cur, reply, advancing, cloud,
                 ghosts>>

(* Otherwise there are no markers, or each one of them reads as missing.   *)
Missed(r) == Cardinality(Markers(r))
MissedKinds(r) == IF Markers(r) = {} THEN {} ELSE {"read"}

(* The request file itself cannot be read: it waits for the next tick.     *)
RequestUnreadable(r) ==
  /\ pc = "ingest" /\ r \in todo
  /\ Fail(Missed(r) + 1, {"read"})
  /\ todo' = todo \ {r}
  /\ UNCHANGED <<volume, memory, pc, cur, reply, advancing, cloud, registered,
                 ncrashes>>

(* _claim: remembered in memory, then marked on the volume, before any     *)
(* work is done.                                                           *)
(* (mutant: the request is marked only by the answer, after the work)      *)
ClaimUnmarked(r) ==
  /\ pc = "ingest" /\ r \in todo
  /\ Fail(Missed(r), MissedKinds(r))
  /\ known' = known \cup {r}
  /\ todo' = todo \ {r}
  /\ cur' = r
  /\ pc' = "dispatch"
  /\ UNCHANGED <<volume, wroteMeta, swarm, reply, advancing, cloud, registered,
                 ncrashes>>

ClaimRequest(r) ==
  /\ pc = "ingest" /\ r \in todo
  /\ Fail(Missed(r), MissedKinds(r))
  /\ known' = known \cup {r}
  /\ handled' = handled \cup {r}
  /\ todo' = todo \ {r}
  /\ cur' = r
  /\ pc' = "dispatch"
  /\ UNCHANGED <<submitted, ack, ackName, agentFile, workflowFile, wroteMeta,
                 swarm, reply, advancing, cloud, registered, ncrashes>>

(* The write of the marker raises, outside the handler's try: the tick     *)
(* ends with the request known to this process only.                       *)
ClaimFails(r) ==
  /\ pc = "ingest" /\ r \in todo
  /\ EndTick(Missed(r) + 1, MissedKinds(r) \cup {"put"})
  /\ known' = known \cup {r}
  /\ UNCHANGED <<wroteMeta, swarm>>

(* On to the workflows left, in the order they were accepted: the recorded *)
(* agents of the first are refreshed next.  The tick ends after the last.  *)
AdvanceTo(left) ==
  /\ wtodo' = left
  /\ rtodo' = IF left = <<>> THEN {} ELSE Recorded(Head(left))
  /\ pc' = IF left = <<>> THEN "idle" ELSE "refresh"

RequestsDone ==
  /\ pc = "ingest" /\ todo = {}
  /\ AdvanceTo(workflows)
  /\ UNCHANGED <<volume, memory, ingestion, spawning, cloud, ghosts>>

-----------------------------------------------------------------------------
(* _handle_request: one disjunct per verb; each ends with the answer that  *)
(* Ack writes.                                                             *)

(* (mutant: an error is returned without an answer)                        *)
AnswerUnlessError(a) ==
  reply' = a /\ pc' = IF a = "error" THEN "ingest" ELSE "ack"

Answer(a) == pc' = "ack" /\ reply' = a

(* _unique_name: the base, or the base with the first free suffix, among   *)
(* the workflows of this process.                                          *)
(* (mutant: the base, taken or not)                                        *)
NameNotUnique(base, k) == k = 1

UniqueName(base, k) ==
  /\ <<base, k>> \in WorkflowNames \ UsedNames
  /\ \A j \in 1..(k - 1) : <<base, j>> \in UsedNames

(* _do_submit and _do_spawn.                                               *)
DispatchSubmit ==
  /\ pc = "dispatch" /\ cur \in Submits /\ Plan[cur] # <<>>
  /\ \E k \in 1..Cardinality(Requests) :
       /\ UniqueName(Base[cur], k)
       /\ name' = [name EXCEPT ![cur] = <<Base[cur], k>>]
  /\ workflows' = Append(workflows, cur)
  /\ registered' = [registered EXCEPT ![cur] = @ + 1]
  /\ Answer("ok")
  /\ UNCHANGED <<volume, known, wroteMeta, paused, runs, todo, cur,
                 advancing, cloud, nfaults, ncrashes>>

(* The requests whose workflow is running under the target's name.         *)
Named == {r \in Requests : name[r] = Target[cur] /\ name[r] # None}

(* _do_stop of a workflow: nothing new is started, what runs keeps going.  *)
DispatchPause ==
  /\ pc = "dispatch" /\ Verb[cur] = "stop" /\ Named # {}
  /\ paused' = paused \cup Named
  /\ Answer("ok")
  /\ UNCHANGED <<volume, known, wroteMeta, workflows, name, runs, todo, cur,
                 advancing, cloud, ghosts>>

(* _do_stop of an agent: its sandbox is stopped at best effort, the agent  *)
(* is cancelled and published.                                             *)
Stopped == {t \in Tasks : slot[t] # None /\ slot[t] = Target[cur]}

DispatchTerminate ==
  /\ pc = "dispatch" /\ Verb[cur] = "stop" /\ Named = {}
  /\ \E t \in Stopped, ends, writes \in BOOLEAN :
       LET failed == (IF ends THEN {} ELSE {"stop"})
                     \cup (IF writes THEN {} ELSE {"put"})
       IN  /\ Fail(Cardinality(failed), failed)
           /\ seen' = [seen EXCEPT ![t] = "cancelled"]
           /\ boxState' = IF ends THEN [boxState EXCEPT ![slot[t]] = "gone"]
                          ELSE boxState
           /\ agentFile' = IF writes
                           THEN [agentFile EXCEPT ![slot[t]] = "cancelled"]
                           ELSE agentFile
           /\ Answer(IF writes THEN "ok" ELSE "failed")
  /\ UNCHANGED <<inbox, workflowFile, known, wroteMeta, workflows, name,
                 paused, slot, todo, cur, advancing, boxTask, registered,
                 ncrashes>>

(* _do_resume.                                                             *)
DispatchResume ==
  /\ pc = "dispatch" /\ Verb[cur] = "resume" /\ Named # {}
  /\ paused' = paused \ Named
  /\ Answer("ok")
  /\ UNCHANGED <<volume, known, wroteMeta, workflows, name, runs, todo, cur,
                 advancing, cloud, ghosts>>

(* A plan with errors, a target nobody knows, an unknown verb.             *)
DispatchReject ==
  /\ pc = "dispatch"
  /\ \/ cur \in Submits /\ Plan[cur] = <<>>
     \/ Verb[cur] = "stop" /\ Named = {} /\ Stopped = {}
     \/ Verb[cur] = "resume" /\ Named = {}
     \/ Verb[cur] \notin {"submit", "stop", "resume"}
  /\ Answer("error")
  /\ UNCHANGED <<volume, memory, todo, cur, advancing, cloud, ghosts>>

(* _ack.  A write that raises inside the handler's try, like any failure   *)
(* there, is answered with the error ("failed"); when the write of that    *)
(* raises too, the tick ends.                                              *)
Ack ==
  /\ pc = "ack"
  /\ ack' = [ack EXCEPT ![cur] = IF reply = "ok" THEN "ok" ELSE "error"]
  /\ ackName' = [ackName EXCEPT ![cur] =
                   IF reply = "ok" THEN name[cur] ELSE None]
  /\ pc' = "ingest" /\ cur' = None /\ reply' = "none"
  /\ UNCHANGED <<submitted, handled, agentFile, workflowFile, memory, todo,
                 advancing, cloud, ghosts>>

AckFails ==
  /\ pc = "ack" /\ reply # "failed"
  /\ Fault("put")
  /\ reply' = "failed"
  /\ UNCHANGED <<volume, memory, pc, todo, cur, advancing, cloud, registered,
                 ncrashes>>

AckFailsTwice ==
  /\ pc = "ack" /\ reply = "failed"
  /\ AbortTick("put")

-----------------------------------------------------------------------------
(* _advance, workflow after workflow: every recorded agent is refreshed,   *)
(* then the free slots of the active stage are filled.                     *)

(* _refresh of an agent: its state is read, then published.                *)
RefreshAgent(t) ==
  /\ pc = "refresh" /\ t \in rtodo
  /\ \E state \in {"starting", "running", "done", seen[t]} :
       /\ ReadStatus(slot[t], seen[t], state)
       /\ seen' = [seen EXCEPT ![t] = state]
       /\ agentFile' = [agentFile EXCEPT ![slot[t]] = state]
  /\ rtodo' = rtodo \ {t}
  /\ UNCHANGED <<inbox, workflowFile, known, wroteMeta, workflows, name,
                 paused, slot, pc, ingestion, wtodo, spawning, cloud,
                 registered, ncrashes>>

(* The state was read but could not be published.                          *)
RefreshFails(t) ==
  /\ pc = "refresh" /\ t \in rtodo
  /\ \E state \in Reading(slot[t], seen[t]) : seen' = [seen EXCEPT ![t] = state]
  /\ EndTick(1, {"put"})
  /\ UNCHANGED <<known, wroteMeta, workflows, name, paused, slot>>

(* The decision, once all agents are refreshed: nothing for a workflow     *)
(* that is paused or complete.                                             *)
(* (mutant: a pause is forgotten)                                          *)
NothingUnlessIncomplete(r) == Complete(r)

NothingToStart(r) == r \in paused \/ Complete(r)

Schedule ==
  /\ pc = "refresh" /\ rtodo = {}
  /\ LET r == Head(wtodo)
     IN  \/ /\ NothingToStart(r)
            /\ UNCHANGED <<stage, stodo>>
         \/ /\ ~NothingToStart(r)
            /\ \E s \in DOMAIN Plan[r] :
                 /\ ActiveStage(r, s)
                 /\ stage' = s /\ stodo' = StageNextIndices(r, s)
  /\ pc' = "spawn"
  /\ UNCHANGED <<volume, memory, ingestion, wtodo, rtodo, task, box, cloud,
                 ghosts>>

(* _spawn_agent, for the lowest index left: the sandbox is created ...     *)
(* (ids are fresh and stand for one another)                               *)
UnusedBoxes == {b \in Boxes : boxState[b] = "unused"}

CreateBox ==
  /\ pc = "spawn" /\ stodo # {} /\ UnusedBoxes # {}
  /\ \E i \in stodo :
       /\ \A j \in stodo : i <= j
       /\ task' = <<Head(wtodo), stage, i>>
  /\ box' = CHOOSE b \in UnusedBoxes : TRUE
  /\ boxState' = [boxState EXCEPT ![box'] = "created"]
  /\ boxTask' = [boxTask EXCEPT ![box'] = task']
  /\ pc' = "start"
  /\ UNCHANGED <<volume, memory, ingestion, wtodo, rtodo, stage, stodo,
                 ghosts>>

CreateFails ==
  /\ pc = "spawn" /\ stodo # {}
  /\ AbortTick("create")

(* ... the run is started in it ...                                        *)
StartRun ==
  /\ pc = "start"
  /\ boxState' = [boxState EXCEPT ![box] = "running"]
  /\ pc' = "record"
  /\ UNCHANGED <<volume, memory, cursor, boxTask, ghosts>>

(* (a failing start leaves the sandbox behind, without a run; one that     *)
(* fails after the fact does what StartRun and RecordFails do together)    *)
StartFails ==
  /\ pc = "start"
  /\ AbortTick("start")

(* ... and only after a first refresh, which publishes the agent, does     *)
(* _advance record it in the stage's runs.                                 *)
RecordAgent ==
  /\ pc = "record"
  /\ \E state \in {"running", "done", "starting"} :
       /\ ReadStatus(box, "starting", state)
       /\ seen' = [seen EXCEPT ![task] = state]
       /\ agentFile' = [agentFile EXCEPT ![box] = state]
  /\ slot' = [slot EXCEPT ![task] = box]
  /\ stodo' = stodo \ {task[3]}
  /\ task' = None /\ box' = None
  /\ pc' = "spawn"
  /\ UNCHANGED <<inbox, workflowFile, known, wroteMeta, workflows, name,
                 paused, ingestion, wtodo, rtodo, stage, cloud, registered,
                 ncrashes>>

(* The publication raises: the run lives on, recorded nowhere.             *)
RecordFails ==
  /\ pc = "record"
  /\ AbortTick("put")

(* _publish_workflow.                                                      *)
PublishWorkflow ==
  /\ pc = "spawn" /\ stodo = {}
  /\ LET r == Head(wtodo)
     IN  workflowFile' = [workflowFile EXCEPT ![name[r]] = WorkflowStatus(r)]
  /\ AdvanceTo(Tail(wtodo))
  /\ stage' = 0
  /\ UNCHANGED <<inbox, agentFile, memory, ingestion, stodo, task, box,
                 cloud, ghosts>>

PublishFails ==
  /\ pc = "spawn" /\ stodo = {}
  /\ AbortTick("put")

-----------------------------------------------------------------------------
(* run_forever's handler writes controller_error.json and goes on.         *)
ReportError ==
  /\ pc = "report"
  /\ pc' = "idle"
  /\ UNCHANGED <<volume, memory, cursor, cloud, ghosts>>

(* The controller is gone, and its memory with it; the volume and the      *)
(* sandboxes are not.                                                      *)
LoseController ==
  /\ pc' = "down" /\ ncrashes' = ncrashes + 1
  /\ known' = FreshMemory.known /\ wroteMeta' = FreshMemory.wroteMeta
  /\ workflows' = FreshMemory.workflows /\ name' = FreshMemory.name
  /\ paused' = FreshMemory.paused /\ slot' = FreshMemory.slot
  /\ seen' = FreshMemory.seen
  /\ ClearCursor
  /\ UNCHANGED <<volume, cloud, registered>>

(* A write that raises in that handler ends the controller's thread ...    *)
ReportFails ==
  /\ pc = "report"
  /\ Fault("put")
  /\ LoseController

(* ... and the process, the dashboard, may be killed at any time.          *)
Crash ==
  /\ pc # "down" /\ ncrashes < MaxCrashes
  /\ LoseController
  /\ NoFault

(* The dashboard, asked about the swarm, finds no live controller thread   *)
(* and starts one with an empty Controller (_ensure_controller).           *)
Restart ==
  /\ pc = "down"
  /\ pc' = "idle"
  /\ UNCHANGED <<volume, memory, cursor, cloud, ghosts>>

-----------------------------------------------------------------------------
(* The sandboxes: a run ends by itself (done, failed or at its deadline),  *)
(* a sandbox dies.                                                         *)
RunEnds(b) ==
  /\ boxState[b] = "running"
  /\ boxState' = [boxState EXCEPT ![b] = "ended"]
  /\ UNCHANGED <<volume, memory, pc, cursor, boxTask, ghosts>>

BoxLost(b) ==
  /\ boxState[b] \in {"running", "ended"}
  /\ Fault("lost")
  /\ boxState' = [boxState EXCEPT ![b] = "gone"]
  /\ UNCHANGED <<volume, memory, pc, cursor, boxTask, registered, ncrashes>>

-----------------------------------------------------------------------------
Ingest ==
  \/ BeginTick \/ MetaWriteFails
  \/ \E r \in Requests : \/ SkipRequest(r) \/ RequestUnreadable(r)
                         \/ ClaimRequest(r) \/ ClaimFails(r)
  \/ RequestsDone

Dispatch ==
  \/ DispatchSubmit \/ DispatchPause \/ DispatchTerminate
  \/ DispatchResume \/ DispatchReject
  \/ Ack \/ AckFails \/ AckFailsTwice

Advance ==
  \/ Schedule
  \/ \E t \in Tasks : RefreshAgent(t) \/ RefreshFails(t)
  \/ CreateBox \/ CreateFails \/ StartRun \/ StartFails
  \/ RecordAgent \/ RecordFails \/ PublishWorkflow \/ PublishFails

Controller == Ingest \/ Dispatch \/ Advance \/ ReportError \/ ReportFails

Next ==
  \/ \E r \in Requests : SubmitRequest(r)
  \/ Controller
  \/ Crash \/ Restart
  \/ \E b \in Boxes : RunEnds(b) \/ BoxLost(b)

Spec == Init /\ [][Next]_vars

(* The controller's thread keeps ticking, every run has a deadline its     *)
(* runner enforces, and a process that died is started again.              *)
Fairness ==
  /\ WF_vars(Controller)
  /\ WF_vars(Restart)
  /\ \A b \in Boxes : WF_vars(RunEnds(b))

FairSpec == Spec /\ Fairness
-----------------------------------------------------------------------------
(* Properties.                                                             *)

AgentStates == {"starting", "running", "done", "cancelled"}

(* Every variable keeps to its type: the files, the controller's memory,   *)
(* the place in the tick and the state of the sandboxes.                   *)
TypeOK ==
  /\ submitted \subseteq Requests /\ handled \subseteq Requests
  /\ ack \in [Requests -> {"none", "ok", "error"}]
  /\ ackName \in [Requests -> WorkflowNames \cup {None}]
  /\ agentFile \in [Boxes -> AgentStates \cup {"none"}]
  /\ workflowFile \in [WorkflowNames -> {"none", "running", "paused", "done"}]
  /\ known \subseteq Requests /\ wroteMeta \in BOOLEAN
  /\ workflows \in Seq(Requests)
  /\ name \in [Requests -> WorkflowNames \cup {None}]
  /\ paused \subseteq Requests
  /\ slot \in [Tasks -> Boxes \cup {None}]
  /\ seen \in [Tasks -> AgentStates]
  /\ pc \in {"idle", "ingest", "dispatch", "ack", "refresh", "spawn",
             "start", "record", "report", "down"}
  /\ todo \subseteq Requests /\ cur \in Requests \cup {None}
  /\ reply \in {"none", "ok", "error", "failed"}
  /\ wtodo \in Seq(Requests) /\ rtodo \subseteq Tasks
  /\ stage \in Nat /\ stodo \subseteq Nat
  /\ task \in Tasks \cup {None} /\ box \in Boxes \cup {None}
  /\ boxTask \in [Boxes -> Tasks \cup {None}]
  /\ boxState \in [Boxes -> {"unused", "created", "running", "ended", "gone"}]
  /\ registered \in [Requests -> Nat]
  /\ nfaults \in Nat /\ ncrashes \in Nat

(* A request is executed at most once, whatever crashes, restarts and      *)
(* failing writes come between its claim, its work and its answer.         *)
AtMostOnce == \A r \in Requests : registered[r] <= 1

Live(t) == \E b \in Boxes : boxTask[b] = t /\ boxState[b] = "running"
Ran(t)  == \E b \in Boxes : boxTask[b] = t /\ boxState[b] \in {"ended", "gone"}
Over(t) == Ran(t) /\ ~Live(t)

(* Waves, pools and single starts: what the sandboxes do is a behaviour of *)
(* the abstract specification Waves.                                       *)
W == INSTANCE Waves WITH
  accepted <- {r \in Requests : registered[r] > 0},
  phase <- [t \in Tasks |-> IF Live(t) THEN "running"
                            ELSE IF Ran(t) THEN "over" ELSE "pending"]

ImplementsWaves == W!Spec

(* A stop of workflow n that was answered ok holds: until somebody asks to *)
(* resume it, no agent of it starts.                                       *)
StopAnswered(n) ==
  /\ \E q \in Requests : Verb[q] = "stop" /\ Target[q] = n /\ ack[q] = "ok"
  /\ ~\E q \in submitted : Verb[q] = "resume" /\ Target[q] = n

StoppedStartsNothing ==
  [][\A b \in Boxes : boxState[b] = "created" /\ boxState'[b] = "running"
       => \A r \in Requests :
            boxTask[b] \in TasksOf(r) => ~StopAnswered(ackName[r])]_vars

(* aom-swarm wait --workflow n, for the name the submit was answered with, *)
(* returns only when every agent of that plan is over.                     *)
WaitNamedSound ==
  \A r \in Submits :
    ackName[r] # None /\ workflowFile[ackName[r]] = "done"
      => \A t \in TasksOf(r) : Over(t)

(* Even when the volume loses writes and reads, one controller executes a  *)
(* request at most once: a second execution takes a second controller.     *)
AtMostOncePerProcess == \A r \in Requests : registered[r] <= 1 + ncrashes

(* What the controller has recorded never exceeds the pool, whatever       *)
(* failed on the way.                                                      *)
RecordedPoolBound ==
  \A r \in Submits : \A s \in DOMAIN Plan[r] :
    Cardinality(Started(r, s) \ Finished(r, s)) <= Plan[r][s].maxConcurrent

(* A sandbox is recorded for the task it was created for, and published:   *)
(* the dashboard and aom-swarm stop find every agent the scheduler counts. *)
RecordedIsPublished ==
  \A t \in Tasks : slot[t] # None =>
    boxTask[slot[t]] = t /\ agentFile[slot[t]] # "none"

(* What Waves comes to: the sandboxes that run for a stage are never more  *)
(* than its pool, recorded or not, and none of a stage has been started    *)
(* before every agent of the stages in front of it is over.                *)
RunningBoxes(r, s) ==
  {b \in Boxes : boxState[b] = "running" /\ boxTask[b] \in TasksOfStage(r, s)}
PoolsHold ==
  \A r \in Requests : \A s \in DOMAIN Plan[r] :
    Cardinality(RunningBoxes(r, s)) <= Plan[r][s].maxConcurrent
WavesHold ==
  \A r \in Requests : \A t, u \in TasksOf(r) :
    u[2] < t[2] /\ (Live(t) \/ Ran(t)) => Over(u)

(* Every request the controller can reach is answered.                     *)
EveryRequestAnswered == \A r \in Requests : r \in submitted ~> ack[r] # "none"

(* A workflow answered ok gets done, unless a stop pauses it or one of its *)
(* agents lost its sandbox, although starting an agent or reading its      *)
(* state may fail.                                                         *)
Settled(r) == ackName[r] # None /\ workflowFile[ackName[r]] \in {"done", "paused"}
Bereft(r) == \E b \in Boxes : boxState[b] = "gone" /\ boxTask[b] \in TasksOf(r)
AcceptedGetsDone ==
  \A r \in Submits : ackName[r] # None ~> Settled(r) \/ Bereft(r)

(* A restarted controller goes on with the workflows it accepted before.   *)
RestartResumes ==
  \A r \in Submits : ack[r] = "ok" ~> \A t \in TasksOf(r) : Over(t)
=============================================================================
