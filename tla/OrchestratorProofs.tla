------------------------- MODULE OrchestratorProofs -------------------------
(***************************************************************************)
(* Theorems about Orchestrator, for every bound on relaunches, every cap   *)
(* of a trace and every kind of failure: the durable copy continues what   *)
(* was read, meta.json goes forward, and no orchestrator runs that is not  *)
(* accounted for.                                                          *)
(***************************************************************************)
EXTENDS Orchestrator, SequenceTheorems, FiniteSetTheorems, TLAPS

(* What the controller has read was written; it reads and appends for an   *)
(* orchestrator only, and relaunches one only while it may.                *)
Cursor ==
  /\ IF orch = 0 THEN offset = 0 ELSE offset <= written[orch]
  /\ pc \in {"discover", "publish", "append"} => orch # 0
  /\ pc = "relaunch" => restarts < MaxRestarts
  /\ pc = "down" => orch = 0

Typed == TypeOK /\ Cursor

(* While meta.json can be read, the controller is the only one who writes  *)
(* it, and none was started for an orchestrator that it named no longer:   *)
(* whoever is about to write it back holds what it says, the    *)
(* controller knows what it says once it has written it, and a new         *)
(* orchestrator is newer than the one it names.                            *)
Calm == hosts = 0 /\ "read" \notin failed /\ ~stale

Alone ==
  /\ rpc["host"] = "none"
  /\ rpc["controller"] # "none" => pc = "relaunch"
  /\ pc \notin {"idle", "report", "down"} => wroteMeta

CopyHeld ==
  /\ pc = "publish" => copy["controller"] = meta
  /\ rpc["controller"] \in {"create", "start", "write"} => copy["controller"] = meta

Named ==
  /\ meta.session \in {0, meta.orch}
  /\ meta.orch <= launched /\ orch <= launched
  /\ rpc["controller"] \in {"start", "write"} => meta.orch < rbox["controller"]
  /\ rpc["controller"] \in {"start", "write"} => rbox["controller"] <= launched
  /\ rpc["controller"] = "ok" => meta.orch = rbox["controller"]
  /\ rpc["controller"] # "ok" /\ wroteMeta => meta.orch = orch
  /\ rpc["controller"] # "ok" /\ pc # "down" => meta.orch <= orch

MetaInv == Calm => Alone /\ CopyHeld /\ Named

-----------------------------------------------------------------------------
(* Some page starts a controller.                                          *)
Restarts == \E o \in Orchs : Restart(o)

USE DEF vars, volume, boxes, tailed, memory, resumes, ghosts, lives

(* The newest events of a sequence are a sequence of events.               *)
LEMMA NewestType ==
  ASSUME NEW s \in Seq(Nat)
  PROVE  Newest(s) \in Seq(Nat)
  <1> DEFINE first == IF Len(s) > Cap THEN Len(s) - Cap + 1 ELSE 1
  <1>1. Len(s) \in Nat /\ \A i \in 1..Len(s) : s[i] \in Nat
    OBVIOUS
  <1>2. first \in Int /\ first >= 1
    BY <1>1, OrchestratorAssumption DEF OrchestratorAssumption
  <1>3. \A i \in first..Len(s) : s[i] \in Nat
    BY <1>1, <1>2
  <1> HIDE DEF first
  <1>4. SubSeq(s, first, Len(s)) \in Seq(Nat)
    BY <1>1, <1>2, <1>3, SubSeqProperties
  <1> QED BY <1>4 DEF Newest, first

LEMMA EventsType ==
  ASSUME NEW from \in Nat, NEW to \in Nat, from <= to
  PROVE  Events(from, to) \in Seq(Nat)
  BY DEF Events

LEMMA EventsEmpty ==
  ASSUME NEW from \in Nat, NEW to \in Nat, from <= to, Events(from, to) = <<>>
  PROVE  from = to
  <1>1. Events(from, to) \in Seq(Nat) /\ Len(Events(from, to)) = to - from
    BY DEF Events
  <1> QED BY <1>1

LEMMA EmptyMetaType == EmptyMeta \in Metas
  BY OrchestratorAssumption DEF OrchestratorAssumption, EmptyMeta, Metas

LEMMA MetaTypes ==
  ASSUME NEW o \in 0..MaxLaunched
  PROVE  /\ MetaOf(o) \in Metas
         /\ \A m \in Metas : [m EXCEPT !.session = o] \in Metas
         /\ \A m \in Metas : Resumed(m, o) \in Metas
  <1>1. 0 \in 0..MaxLaunched
    BY OrchestratorAssumption DEF OrchestratorAssumption
  <1>2. MetaOf(o) \in Metas
    BY <1>1 DEF MetaOf, Metas
  <1>3. \A m \in Metas : [m EXCEPT !.session = o] \in Metas
    BY DEF Metas
  <1>4. \A m \in Metas : Resumed(m, o) \in Metas
    BY <1>1 DEF Metas, Resumed
  <1> QED BY <1>2, <1>3, <1>4

-----------------------------------------------------------------------------
(* Which steps change what.                                                *)
LEMMA VolumeChange ==
  ASSUME [Next]_vars
  PROVE  \/ UNCHANGED <<meta, durable>>
         \/ WriteMeta \/ PublishSession \/ AppendEvents
         \/ \E a \in Actors : ResumeWrite(a)
  <1>1. CASE Controller
    BY <1>1
    DEF Controller, WriteMetaFails, NextTick, TailRead, TailNothing, Discover,
        AppendFails, BeginRelaunch, LeaveAlone, SuperviseBlind, Adopt,
        RelaunchFailed, Resume, ResumeRead, ResumeCreate, ResumeStart,
        ReportError, ReportFails, EndTick, LoseController, Actors
  <1>2. CASE Resume("host")
    BY <1>2 DEF Resume, ResumeRead, ResumeCreate, ResumeStart, Actors
  <1>3. CASE BackoffElapses \/ Crash \/ Restarts \/ HostResumes \/ UNCHANGED vars
    BY <1>3 DEF BackoffElapses, Crash, LoseController, Restarts, Restart, HostResumes
  <1>4. CASE (\E o \in Orchs : RunEnds(o) \/ BoxLost(o)) \/ WorkflowsChange
    BY <1>4 DEF RunEnds, BoxLost, WorkflowsChange
  <1> QED BY <1>1, <1>2, <1>3, <1>4 DEF Next, Restarts

LEMMA BoxesChange ==
  ASSUME [Next]_vars
  PROVE  \/ UNCHANGED boxes
         \/ TailRead
         \/ \E a \in Actors : ResumeCreate(a) \/ ResumeStart(a)
         \/ \E o \in Orchs : RunEnds(o) \/ BoxLost(o)
  <1>1. CASE Controller
    BY <1>1
    DEF Controller, WriteMeta, WriteMetaFails, NextTick, TailNothing, Discover,
        PublishSession, AppendEvents, AppendFails, BeginRelaunch, LeaveAlone,
        SuperviseBlind, Adopt, RelaunchFailed, Resume, ResumeRead, ResumeWrite,
        ReportError, ReportFails, EndTick, LoseController, Actors
  <1>2. CASE Resume("host")
    BY <1>2 DEF Resume, ResumeRead, ResumeWrite, Actors
  <1>3. CASE BackoffElapses \/ Crash \/ Restarts \/ HostResumes \/ UNCHANGED vars
    BY <1>3 DEF BackoffElapses, Crash, LoseController, Restarts, Restart, HostResumes
  <1>4. CASE WorkflowsChange
    BY <1>4 DEF WorkflowsChange
  <1> QED BY <1>1, <1>2, <1>3, <1>4 DEF Next, Restarts

LEMMA ResumesChange ==
  ASSUME [Next]_vars
  PROVE  \/ UNCHANGED resumes
         \/ Discover \/ PublishSession \/ BeginRelaunch \/ Adopt
         \/ RelaunchFailed \/ HostResumes \/ LoseController
         \/ \E a \in Actors : Resume(a)
  <1>1. CASE Controller
    BY <1>1
    DEF Controller, WriteMeta, WriteMetaFails, NextTick, TailRead, TailNothing,
        AppendEvents, AppendFails, LeaveAlone, SuperviseBlind, ReportError,
        ReportFails, Actors
  <1>2. CASE Resume("host")
    BY <1>2 DEF Actors
  <1>3. CASE BackoffElapses \/ Crash \/ Restarts \/ HostResumes \/ UNCHANGED vars
    BY <1>3 DEF BackoffElapses, Crash, Restarts, Restart
  <1>4. CASE (\E o \in Orchs : RunEnds(o) \/ BoxLost(o)) \/ WorkflowsChange
    BY <1>4 DEF RunEnds, BoxLost, WorkflowsChange
  <1> QED BY <1>1, <1>2, <1>3, <1>4 DEF Next, Restarts

-----------------------------------------------------------------------------
(* Type correctness, part by part.                                         *)
LEMMA VolumeStep == TypeOK /\ Cursor /\ [Next]_vars => VolumeOK'
  <1> SUFFICES ASSUME TypeOK, Cursor, [Next]_vars PROVE VolumeOK'
    OBVIOUS
  <1> USE DEF TypeOK, VolumeOK
  <1>1. CASE UNCHANGED <<meta, durable>>
    BY <1>1
  <1>2. CASE WriteMeta
    BY <1>2, MetaTypes DEF WriteMeta, ControllerOK, Publish
  <1>3. CASE PublishSession
    <2>1. copy["controller"] \in Metas /\ orch \in 0..MaxLaunched
      BY DEF ResumesOK, ControllerOK, Actors
    <2>2. meta' \in Metas
      BY <1>3, <2>1, MetaTypes DEF PublishSession, Publish
    <2> QED BY <1>3, <2>2 DEF PublishSession
  <1>4. CASE AppendEvents
    <2>1. orch \in Orchs
      BY <1>4 DEF AppendEvents, Cursor, ControllerOK, Orchs
    <2>2. durable[orch] \in Seq(Nat) /\ batch \in Seq(Nat)
      BY <2>1 DEF ControllerOK
    <2>3. durable[orch] \o batch \in Seq(Nat)
      BY <2>2
    <2>4. /\ Newest(durable[orch] \o batch) \in Seq(Nat)
          /\ Newest(batch) \in Seq(Nat)
      BY <2>2, <2>3, NewestType
    <2>5. durable' \in [Orchs -> Seq(Nat)]
      BY <1>4, <2>1, <2>4 DEF AppendEvents
    <2> QED BY <1>4, <2>5 DEF AppendEvents
  <1>5. ASSUME NEW a \in Actors, ResumeWrite(a)
        PROVE  VolumeOK'
    <2>1. copy[a] \in Metas /\ rbox[a] \in 0..MaxLaunched
      BY DEF ResumesOK
    <2>2. meta' \in Metas
      BY <1>5, <2>1, MetaTypes DEF ResumeWrite, Publish
    <2> QED BY <1>5, <2>2 DEF ResumeWrite
  <1> QED BY <1>1, <1>2, <1>3, <1>4, <1>5, VolumeChange

LEMMA BoxesStep == TypeOK /\ [Next]_vars => BoxesOK'
  <1> SUFFICES ASSUME TypeOK, [Next]_vars PROVE BoxesOK'
    OBVIOUS
  <1> USE OrchestratorAssumption DEF OrchestratorAssumption, TypeOK, BoxesOK, Orchs
  <1>1. CASE UNCHANGED boxes
    BY <1>1
  <1>2. CASE TailRead
    <2>1. orch \in Orchs /\ written[orch] \in Nat
      BY <1>2 DEF TailRead, ControllerOK
    <2>2. PICK n \in written[orch]..MaxEvents : written' = [written EXCEPT ![orch] = n]
      BY <1>2 DEF TailRead
    <2> QED BY <1>2, <2>1, <2>2 DEF TailRead
  <1>3. ASSUME NEW a \in Actors, ResumeCreate(a) \/ ResumeStart(a)
        PROVE  BoxesOK'
    <2>1. CASE ResumeCreate(a)
      BY <2>1 DEF ResumeCreate
    <2>2. CASE ResumeStart(a)
      BY <2>2 DEF ResumeStart
    <2> QED BY <1>3, <2>1, <2>2
  <1>4. ASSUME NEW o \in Orchs, RunEnds(o) \/ BoxLost(o)
        PROVE  BoxesOK'
    BY <1>4 DEF RunEnds, BoxLost
  <1> QED BY <1>1, <1>2, <1>3, <1>4, BoxesChange

LEMMA ResumesStep == TypeOK /\ [Next]_vars => ResumesOK'
  <1> SUFFICES ASSUME TypeOK, [Next]_vars PROVE ResumesOK'
    OBVIOUS
  <1>1. VolumeOK /\ BoxesOK /\ ResumesOK
    BY DEF TypeOK
  <1>2. 0 \in 0..MaxLaunched /\ MaxLaunched \in Nat
    BY OrchestratorAssumption DEF OrchestratorAssumption
  <1> USE <1>1, <1>2, EmptyMetaType DEF ResumesOK, Actors
  <1>3. CASE UNCHANGED resumes
    BY <1>3
  <1>4. CASE Discover \/ PublishSession
    BY <1>4 DEF Discover, PublishSession, VolumeOK
  <1>5. CASE BeginRelaunch \/ HostResumes
    BY <1>5 DEF BeginRelaunch, HostResumes
  <1>6. CASE Adopt \/ RelaunchFailed
    BY <1>6 DEF Adopt, RelaunchFailed
  <1>7. CASE LoseController
    BY <1>7 DEF LoseController
  <1>8. ASSUME NEW a \in Actors, Resume(a)
        PROVE  ResumesOK'
    <2> USE DEF Fails, Leave
    <2>1. CASE ResumeRead(a)
      BY <2>1 DEF ResumeRead, VolumeOK
    <2>2. CASE ResumeCreate(a)
      BY <2>2 DEF ResumeCreate, BoxesOK, Orchs
    <2>3. CASE ResumeStart(a)
      BY <2>3 DEF ResumeStart
    <2>4. CASE ResumeWrite(a)
      BY <2>4 DEF ResumeWrite
    <2> QED BY <1>8, <2>1, <2>2, <2>3, <2>4 DEF Resume
  <1> QED BY <1>3, <1>4, <1>5, <1>6, <1>7, <1>8, ResumesChange

LEMMA FlagsStep == FlagsOK /\ [Next]_vars => FlagsOK'
  <1> SUFFICES ASSUME FlagsOK, [Next]_vars PROVE FlagsOK'
    OBVIOUS
  <1> USE DEF FlagsOK
  <1>1. CASE WriteMeta \/ WriteMetaFails \/ NextTick \/ ReportError \/ ReportFails
    BY <1>1 DEF WriteMeta, WriteMetaFails, NextTick, ReportError, ReportFails,
       EndTick, LoseController
  <1>2. CASE TailRead \/ Discover
    BY <1>2 DEF TailRead, Discover
  <1>3. CASE TailNothing
    BY <1>3 DEF TailNothing
  <1>4. CASE PublishSession \/ AppendEvents \/ AppendFails
    BY <1>4 DEF PublishSession, AppendEvents, AppendFails, EndTick
  <1>5. CASE BeginRelaunch \/ LeaveAlone \/ SuperviseBlind
    BY <1>5 DEF BeginRelaunch, LeaveAlone, SuperviseBlind
  <1>6. CASE Adopt \/ RelaunchFailed
    BY <1>6 DEF Adopt, RelaunchFailed, EndTick
  <1>7. CASE BackoffElapses \/ Crash \/ Restarts \/ HostResumes
    BY <1>7 DEF BackoffElapses, Crash, LoseController, Restarts, Restart, HostResumes
  <1>8. ASSUME NEW a \in Actors, Resume(a)
        PROVE  FlagsOK'
    BY <1>8 DEF Resume, ResumeRead, ResumeCreate, ResumeStart, ResumeWrite
  <1>9. ASSUME NEW o \in Orchs, RunEnds(o) \/ BoxLost(o)
        PROVE  FlagsOK'
    BY <1>9 DEF RunEnds, BoxLost
  <1>10. CASE WorkflowsChange \/ UNCHANGED vars
    BY <1>10 DEF WorkflowsChange
  <1> QED BY <1>1, <1>2, <1>3, <1>4, <1>5, <1>6, <1>7, <1>8, <1>9, <1>10
      DEF Next, Restarts, Controller, Actors

LEMMA ControllerStep ==
  TypeOK /\ Cursor /\ [Next]_vars => ControllerOK' /\ Cursor'
  <1> SUFFICES ASSUME TypeOK, Cursor, [Next]_vars PROVE ControllerOK' /\ Cursor'
    OBVIOUS
  <1>1. BoxesOK /\ ControllerOK /\ ResumesOK /\ VolumeOK
    BY DEF TypeOK
  <1> USE <1>1, OrchestratorAssumption
      DEF OrchestratorAssumption, ControllerOK, Cursor, EndTick
  <1>2. CASE WriteMeta
    BY <1>2 DEF WriteMeta
  <1>3. CASE WriteMetaFails \/ NextTick \/ ReportError
    <2>1. /\ UNCHANGED <<orch, offset, restarts, written>>
          /\ pc' \in {"report", "tail", "idle"} /\ batch' \in {<<>>, batch}
      BY <1>3 DEF WriteMetaFails, NextTick, ReportError
    <2>2. <<>> \in Seq(Nat)
      OBVIOUS
    <2> QED BY <2>1, <2>2
  <1>4. CASE TailRead
    <2>1. orch \in Orchs /\ written[orch] \in Nat /\ offset <= written[orch]
      BY <1>4 DEF TailRead, BoxesOK, Orchs
    <2>2. PICK n \in written[orch]..MaxEvents :
             /\ written' = [written EXCEPT ![orch] = n]
             /\ batch' = Events(offset, n) /\ offset' = n
      BY <1>4 DEF TailRead
    <2>3. n \in Nat /\ offset <= n /\ written'[orch] = n
      BY <2>1, <2>2 DEF BoxesOK
    <2>4. batch' \in Seq(Nat)
      BY <2>2, <2>3, EventsType
    <2>5. /\ UNCHANGED <<orch, restarts>> /\ orch # 0
          /\ pc' \in {"supervise", "discover", "append"}
      BY <1>4 DEF TailRead
    <2> QED BY <2>2, <2>3, <2>4, <2>5
  <1>5. CASE TailNothing
    BY <1>5 DEF TailNothing
  <1>6. CASE Discover \/ PublishSession
    <2>1. /\ UNCHANGED <<orch, offset, restarts, written, batch>>
          /\ pc \in {"discover", "publish"} /\ pc' \in {"publish", "append"}
      BY <1>6 DEF Discover, PublishSession
    <2> QED BY <2>1
  <1>7. CASE AppendEvents \/ AppendFails \/ RelaunchFailed
    <2>1. /\ UNCHANGED <<orch, offset, restarts, written>>
          /\ pc' \in {"supervise", "report", "idle"} /\ batch' \in {<<>>, batch}
      BY <1>7 DEF AppendEvents, AppendFails, RelaunchFailed
    <2>2. <<>> \in Seq(Nat)
      OBVIOUS
    <2> QED BY <2>1, <2>2
  <1>8. CASE BeginRelaunch
    BY <1>8 DEF BeginRelaunch, RelaunchDue, MayRelaunch
  <1>9. CASE LeaveAlone \/ SuperviseBlind
    BY <1>9 DEF LeaveAlone, SuperviseBlind
  <1>10. CASE LoseController
    BY <1>10 DEF LoseController, BoxesOK
  <1>11. CASE Adopt
    <2>1. rbox["controller"] \in 0..MaxLaunched
      BY DEF ResumesOK, Actors
    <2>2. /\ pc' \in {"idle", "report"} /\ batch' \in {<<>>, batch}
          /\ orch' = rbox["controller"] /\ offset' = 0 /\ restarts' = restarts + 1
          /\ written' = written /\ pc = "relaunch"
      BY <1>11 DEF Adopt
    <2>3. orch' # 0 => written[orch'] \in Nat
      BY <2>1, <2>2 DEF BoxesOK, Orchs
    <2>4. batch' \in Seq(Nat) /\ restarts' \in 0..MaxRestarts
      <3>1. <<>> \in Seq(Nat) /\ batch \in Seq(Nat)
        OBVIOUS
      <3>2. restarts \in 0..MaxRestarts /\ restarts < MaxRestarts
        BY <2>2
      <3>3. batch' \in Seq(Nat)
        BY <2>2, <3>1
      <3>4. restarts' \in 0..MaxRestarts
        BY <2>2, <3>2
      <3> QED BY <3>3, <3>4
    <2>5. ControllerOK'
      BY <2>1, <2>2, <2>4
    <2>6. Cursor'
      BY <2>1, <2>2, <2>3
    <2> QED BY <2>5, <2>6
  <1>12. CASE Restarts
    <2>1. /\ pc' = "idle" /\ orch' \in Orchs
          /\ UNCHANGED <<offset, restarts, batch, written>> /\ pc = "down"
      BY <1>12 DEF Restarts, Restart
    <2>2. written[orch'] \in Nat /\ orch' \in 0..MaxLaunched
      BY <2>1 DEF BoxesOK, Orchs
    <2> QED BY <2>1, <2>2
  <1>13. CASE BackoffElapses \/ HostResumes \/ WorkflowsChange \/ UNCHANGED vars
    BY <1>13 DEF BackoffElapses, HostResumes, WorkflowsChange
  <1>14. ASSUME NEW a \in Actors, Resume(a)
         PROVE  ControllerOK' /\ Cursor'
    BY <1>14 DEF Resume, ResumeRead, ResumeCreate, ResumeStart, ResumeWrite
  <1>15. ASSUME NEW o \in Orchs, RunEnds(o) \/ BoxLost(o)
         PROVE  ControllerOK' /\ Cursor'
    BY <1>15 DEF RunEnds, BoxLost
  <1> QED BY <1>2, <1>3, <1>4, <1>5, <1>6, <1>7, <1>8, <1>9, <1>10, <1>11,
             <1>12, <1>13, <1>14, <1>15
      DEF Next, Restarts, Controller, Actors, ReportFails, Crash

LEMMA TypedInit == Init => Typed
  <1> SUFFICES ASSUME Init PROVE Typed
    OBVIOUS
  <1> USE OrchestratorAssumption DEF OrchestratorAssumption, Init, Orchs, Actors
  <1>1. VolumeOK
    <2>1. durable = [o \in Orchs |-> <<>>] /\ <<>> \in Seq(Nat)
      OBVIOUS
    <2>2. meta \in Metas
      <3>1. MetaOf(1) \in Metas
        <4>1. 1 \in 0..MaxLaunched
          OBVIOUS
        <4> QED BY <4>1, MetaTypes
      <3>2. meta = MetaOf(1) \/ meta = EmptyMeta
        BY Zenon
      <3> QED BY <3>1, <3>2, EmptyMetaType
    <2> QED BY <2>1, <2>2 DEF VolumeOK
  <1>2. BoxesOK
    BY DEF BoxesOK
  <1>3. FlagsOK
    BY DEF FlagsOK
  <1>4. ControllerOK /\ Cursor
    <2>1. orch = 1 /\ pc = "idle" /\ offset = 0 /\ batch = <<>> /\ restarts = 0
      OBVIOUS
    <2>2. written[1] = 0
      OBVIOUS
    <2> QED BY <2>1, <2>2 DEF ControllerOK, Cursor
  <1>5. ResumesOK
    BY EmptyMetaType DEF ResumesOK
  <1>6. failed \subseteq Faults /\ ncrashes \in Nat /\ hosts \in Nat
    OBVIOUS
  <1>7. pages \subseteq 0..MaxLaunched
    BY <1>1 DEF VolumeOK, Metas, NamedBy
  <1> QED BY <1>1, <1>2, <1>3, <1>4, <1>5, <1>6, <1>7 DEF Typed, TypeOK

(* Failures, crashes and resumes from the host only ever add up.           *)
LEMMA GhostsStep ==
  ASSUME TypeOK, [Next]_vars
  PROVE  /\ failed' \subseteq Faults /\ ncrashes' \in Nat /\ hosts' \in Nat
         /\ failed \subseteq failed' /\ ncrashes <= ncrashes' /\ hosts <= hosts'
  <1>1. \/ failed' = failed
        \/ \E kind \in Faults : failed' = failed \cup {kind}
    <2> USE DEF EndTick, Fault, Fails
    <2>1. CASE Controller
      BY <2>1
      DEF Controller, WriteMeta, WriteMetaFails, NextTick, TailRead,
          TailNothing, Discover, PublishSession, AppendEvents, AppendFails,
          BeginRelaunch, LeaveAlone, SuperviseBlind, Adopt, RelaunchFailed,
          Resume, ResumeRead, ResumeCreate, ResumeStart, ResumeWrite,
          ReportError, ReportFails
    <2>2. CASE Resume("host")
      BY <2>2 DEF Resume, ResumeRead, ResumeCreate, ResumeStart, ResumeWrite
    <2>3. CASE BackoffElapses \/ Crash \/ Restarts \/ HostResumes \/ UNCHANGED vars
      BY <2>3 DEF BackoffElapses, Crash, Restarts, Restart, HostResumes
    <2>4. CASE (\E o \in Orchs : RunEnds(o) \/ BoxLost(o)) \/ WorkflowsChange
      BY <2>4 DEF RunEnds, BoxLost, WorkflowsChange
    <2> QED BY <2>1, <2>2, <2>3, <2>4 DEF Next, Restarts
  <1>2. /\ ncrashes' \in {ncrashes, ncrashes + 1}
        /\ hosts' \in {hosts, hosts + 1}
    <2> USE DEF EndTick
    <2>1. CASE Controller
      BY <2>1
      DEF Controller, WriteMeta, WriteMetaFails, NextTick, TailRead,
          TailNothing, Discover, PublishSession, AppendEvents, AppendFails,
          BeginRelaunch, LeaveAlone, SuperviseBlind, Adopt, RelaunchFailed,
          Resume, ResumeRead, ResumeCreate, ResumeStart, ResumeWrite,
          ReportError, ReportFails, LoseController
    <2>2. CASE Resume("host")
      BY <2>2 DEF Resume, ResumeRead, ResumeCreate, ResumeStart, ResumeWrite
    <2>3. CASE BackoffElapses \/ Restarts \/ HostResumes \/ UNCHANGED vars
      BY <2>3 DEF BackoffElapses, Restarts, Restart, HostResumes
    <2>4. CASE Crash
      BY <2>4 DEF Crash, LoseController
    <2>5. CASE (\E o \in Orchs : RunEnds(o) \/ BoxLost(o)) \/ WorkflowsChange
      BY <2>5 DEF RunEnds, BoxLost, WorkflowsChange
    <2> QED BY <2>1, <2>2, <2>3, <2>4, <2>5 DEF Next, Restarts
  <1> QED BY <1>1, <1>2 DEF TypeOK

LEMMA HostsChange ==
  ASSUME [Next]_vars
  PROVE  hosts' = hosts \/ HostResumes
  <1> USE DEF EndTick, LoseController
  <1>1. CASE Controller
    BY <1>1
    DEF Controller, WriteMeta, WriteMetaFails, NextTick, TailRead, TailNothing,
        Discover, PublishSession, AppendEvents, AppendFails, BeginRelaunch,
        LeaveAlone, SuperviseBlind, Adopt, RelaunchFailed, Resume, ResumeRead,
        ResumeCreate, ResumeStart, ResumeWrite, ReportError, ReportFails
  <1>2. CASE Resume("host")
    BY <1>2 DEF Resume, ResumeRead, ResumeCreate, ResumeStart, ResumeWrite
  <1>3. CASE BackoffElapses \/ Crash \/ Restarts \/ UNCHANGED vars
    BY <1>3 DEF BackoffElapses, Crash, Restarts, Restart
  <1>4. CASE (\E o \in Orchs : RunEnds(o) \/ BoxLost(o)) \/ WorkflowsChange
    BY <1>4 DEF RunEnds, BoxLost, WorkflowsChange
  <1> QED BY <1>1, <1>2, <1>3, <1>4 DEF Next, Restarts

(* A controller is started for an orchestrator that meta.json names no     *)
(* longer by some page, or was already.                                    *)
LEMMA StaleChange ==
  ASSUME [Next]_vars
  PROVE  \/ stale' = stale
         \/ \E o \in Orchs : Restart(o) /\ stale' = (stale \/ o # meta.orch)
  <1> USE DEF EndTick, LoseController
  <1>1. CASE Controller
    BY <1>1
    DEF Controller, WriteMeta, WriteMetaFails, NextTick, TailRead, TailNothing,
        Discover, PublishSession, AppendEvents, AppendFails, BeginRelaunch,
        LeaveAlone, SuperviseBlind, Adopt, RelaunchFailed, Resume, ResumeRead,
        ResumeCreate, ResumeStart, ResumeWrite, ReportError, ReportFails
  <1>2. CASE Resume("host")
    BY <1>2 DEF Resume, ResumeRead, ResumeCreate, ResumeStart, ResumeWrite
  <1>3. CASE BackoffElapses \/ Crash \/ HostResumes \/ UNCHANGED vars
    BY <1>3 DEF BackoffElapses, Crash, HostResumes
  <1>4. CASE (\E o \in Orchs : RunEnds(o) \/ BoxLost(o)) \/ WorkflowsChange
    BY <1>4 DEF RunEnds, BoxLost, WorkflowsChange
  <1>5. CASE Restarts
    BY <1>5 DEF Restarts, Restart
  <1> QED BY <1>1, <1>2, <1>3, <1>4, <1>5 DEF Next, Restarts

(* What a page may have read is what meta.json says or said.               *)
LEMMA PagesChange ==
  ASSUME [Next]_vars
  PROVE  \/ pages' = pages \/ pages' = pages \cup NamedBy(meta')
         \/ pages' = NamedBy(meta)
  <1> USE DEF EndTick, LoseController, Publish
  <1>1. CASE Controller
    BY <1>1
    DEF Controller, WriteMeta, WriteMetaFails, NextTick, TailRead, TailNothing,
        Discover, PublishSession, AppendEvents, AppendFails, BeginRelaunch,
        LeaveAlone, SuperviseBlind, Adopt, RelaunchFailed, Resume, ResumeRead,
        ResumeCreate, ResumeStart, ResumeWrite, ReportError, ReportFails
  <1>2. CASE Resume("host")
    BY <1>2 DEF Resume, ResumeRead, ResumeCreate, ResumeStart, ResumeWrite
  <1>3. CASE BackoffElapses \/ Crash \/ Restarts \/ HostResumes \/ UNCHANGED vars
    BY <1>3 DEF BackoffElapses, Crash, Restarts, Restart, HostResumes
  <1>4. CASE (\E o \in Orchs : RunEnds(o) \/ BoxLost(o)) \/ WorkflowsChange
    BY <1>4 DEF RunEnds, BoxLost, WorkflowsChange
  <1> QED BY <1>1, <1>2, <1>3, <1>4 DEF Next, Restarts

LEMMA PagesStep ==
  ASSUME TypeOK, VolumeOK', [Next]_vars
  PROVE  pages' \subseteq 0..MaxLaunched
  <1>1. meta \in Metas /\ meta' \in Metas
    BY DEF TypeOK, VolumeOK
  <1>2. \A m \in Metas : NamedBy(m) \subseteq 0..MaxLaunched
    BY DEF NamedBy, Metas
  <1> QED BY <1>1, <1>2, PagesChange DEF TypeOK

LEMMA TypedStep == Typed /\ [Next]_vars => Typed'
  <1> SUFFICES ASSUME Typed, [Next]_vars PROVE Typed'
    OBVIOUS
  <1>1. TypeOK /\ Cursor /\ FlagsOK
    BY DEF Typed, TypeOK
  <1> QED BY <1>1, VolumeStep, BoxesStep, ResumesStep, FlagsStep,
             ControllerStep, GhostsStep, PagesStep DEF Typed, TypeOK

LEMMA TypedInvariant == Spec => []Typed
  BY TypedInit, TypedStep, PTL DEF Spec

(* Every variable keeps to its type; no more relaunches are counted than   *)
(* are allowed.                                                            *)
THEOREM OrchestratorTypeCorrect == Spec => []TypeOK
  <1>1. Typed => TypeOK
    BY DEF Typed
  <1> QED BY <1>1, TypedInvariant, PTL

-----------------------------------------------------------------------------
(* What meta.json says, and who knows it.                                  *)
Held == Alone /\ CopyHeld /\ Named

LEMMA MetaInit == Init => MetaInv
  BY DEF Init, MetaInv, Alone, CopyHeld, Named, EmptyMeta, MetaOf, Actors

LEMMA HeldTypes ==
  ASSUME Typed
  PROVE  /\ meta \in Metas /\ ResumesOK
         /\ orch \in 0..MaxLaunched /\ launched \in Nat
  BY DEF Typed, TypeOK, VolumeOK, BoxesOK, ControllerOK, Orchs

(* The controller writes meta.json afresh.                                 *)
LEMMA WriteMetaHeld ==
  ASSUME Typed, Held, WriteMeta
  PROVE  Held' /\ meta.orch <= meta'.orch
  <1>1. /\ meta \in Metas /\ ResumesOK
        /\ orch \in 0..MaxLaunched /\ launched \in Nat
    BY HeldTypes
  <1>2. /\ meta' = [model |-> TRUE, orch |-> orch, session |-> 0]
        /\ UNCHANGED <<launched, orch, resumes>>
        /\ pc = "idle" /\ pc' = "tail" /\ wroteMeta' = TRUE
    BY DEF WriteMeta, MetaOf, Publish
  <1>3. Alone' /\ CopyHeld'
    BY <1>2 DEF Held, Alone, CopyHeld
  <1>4. rpc["controller"] = "none" /\ meta.orch <= orch
    BY <1>2 DEF Held, Alone, Named
  <1> QED BY <1>1, <1>2, <1>3, <1>4 DEF Held, Named, Metas

(* Steps of the controller that leave meta.json, its orchestrator and its  *)
(* resumes alone.                                                          *)
LEMMA TickHeld ==
  ASSUME Typed, Held,
         UNCHANGED <<meta, launched, wroteMeta, orch, resumes>>,
         \/ pc' = pc
         \/ pc' \in {"idle", "report"} /\ pc \notin {"relaunch", "down"}
         \/ pc' \in {"idle", "report"} /\ rpc["controller"] = "none" /\ pc # "down"
         \/ pc' \in {"tail", "discover", "append", "supervise"} /\ wroteMeta
              /\ pc \notin {"relaunch", "down"}
  PROVE  Held'
  BY DEF Held, Alone, CopyHeld, Named

LEMMA DiscoverHeld ==
  ASSUME Typed, Held, Discover \/ PublishSession, "read" \notin failed'
  PROVE  Held' /\ meta.orch <= meta'.orch
  <1>1. /\ meta \in Metas /\ ResumesOK
        /\ orch \in 0..MaxLaunched /\ launched \in Nat
    BY HeldTypes
  <1> USE <1>1 DEF Held, Alone, CopyHeld, Named, Actors, Metas, ResumesOK
  <1>2. CASE Discover
    <2>1. /\ copy' = [copy EXCEPT !["controller"] = meta]
          /\ UNCHANGED <<meta, wroteMeta, orch, launched, rpc, rbox>>
          /\ pc = "discover" /\ pc' \in {"append", "publish"}
      BY <1>2 DEF Discover, Fault
    <2> QED BY <2>1
  <1>3. CASE PublishSession
    <2>1. /\ meta' \in {meta, [meta EXCEPT !.session = orch]}
          /\ UNCHANGED <<wroteMeta, orch, launched, rpc, rbox>>
          /\ pc = "publish" /\ pc' = "append"
      BY <1>3 DEF PublishSession, Publish
    <2>2. rpc["controller"] = "none" /\ meta.orch = orch
      BY <2>1
    <2> QED BY <2>1, <2>2
  <1> QED BY <1>2, <1>3

LEMMA SuperviseHeld ==
  ASSUME Typed, Held, BeginRelaunch \/ Adopt \/ RelaunchFailed
  PROVE  Held' /\ meta' = meta
  <1>1. /\ meta \in Metas /\ ResumesOK
        /\ orch \in 0..MaxLaunched /\ launched \in Nat
    BY HeldTypes
  <1> USE <1>1 DEF Held, Alone, CopyHeld, Named, Actors, Metas, ResumesOK, EndTick
  <1>2. CASE BeginRelaunch
    BY <1>2 DEF BeginRelaunch
  <1>3. CASE Adopt
    <2>1. /\ UNCHANGED <<meta, wroteMeta, launched, copy>>
          /\ rpc' = [rpc EXCEPT !["controller"] = "none"]
          /\ orch' = rbox["controller"] /\ rpc["controller"] = "ok"
          /\ pc = "relaunch" /\ pc' \in {"idle", "report"}
      BY <1>3 DEF Adopt
    <2> QED BY <2>1
  <1>4. CASE RelaunchFailed
    <2>1. /\ UNCHANGED <<meta, wroteMeta, launched, copy, orch, rbox>>
          /\ rpc' = [rpc EXCEPT !["controller"] = "none"]
          /\ rpc["controller"] = "failed"
          /\ pc = "relaunch" /\ pc' \in {"idle", "report"}
      BY <1>4 DEF RelaunchFailed
    <2> QED BY <2>1
  <1> QED BY <1>2, <1>3, <1>4

(* The controller resumes its orchestrator; the host does not.             *)
LEMMA ResumeHeld ==
  ASSUME Typed, Held, NEW a \in Actors, Resume(a)
  PROVE  Held' /\ meta.orch <= meta'.orch
  <1>1. /\ meta \in Metas /\ ResumesOK
        /\ orch \in 0..MaxLaunched /\ launched \in Nat
    BY HeldTypes
  <1>2. a = "controller" /\ pc = "relaunch"
    BY DEF Resume, ResumeRead, ResumeCreate, ResumeStart, ResumeWrite, Held,
           Alone, Actors
  <1> USE <1>1, <1>2 DEF Held, Alone, CopyHeld, Named, Actors, Metas, ResumesOK
  <1>3. UNCHANGED <<pc, wroteMeta, orch>>
    BY DEF Resume, ResumeRead, ResumeCreate, ResumeStart, ResumeWrite
  <1>4. CASE Fails(a) /\ meta' = meta /\ launched' \in {launched, launched + 1}
               /\ rpc[a] # "ok"
    BY <1>3, <1>4 DEF Fails, Leave
  <1>5. CASE ResumeRead(a) /\ ~Fails(a)
    BY <1>3, <1>5 DEF ResumeRead
  <1>6. CASE ResumeCreate(a) /\ ~Fails(a)
    BY <1>3, <1>6 DEF ResumeCreate
  <1>7. CASE ResumeStart(a) /\ ~Fails(a)
    BY <1>3, <1>7 DEF ResumeStart
  <1>8. CASE ResumeWrite(a) /\ ~Fails(a)
    <2>1. /\ meta' = [meta EXCEPT !.orch = rbox[a], !.session = 0]
          /\ rpc' = [rpc EXCEPT ![a] = "ok"] /\ rbox' = rbox
          /\ rpc[a] = "write" /\ launched' = launched
          /\ copy' = [copy EXCEPT ![a] = EmptyMeta]
      BY <1>8 DEF ResumeWrite, Resumed, Leave, Publish
    <2> QED BY <1>3, <2>1
  <1>9. Resume(a) /\ Fails(a) => /\ rpc[a] # "ok"
                                 /\ launched' \in {launched, launched + 1}
                                 /\ meta' = meta \/ ResumeWrite(a)
    BY DEF Resume, ResumeRead, ResumeCreate, ResumeStart, ResumeWrite
  <1>10. ResumeWrite(a) /\ Fails(a) => meta' = meta
    BY DEF ResumeWrite, Fails, Leave
  <1> QED BY <1>4, <1>5, <1>6, <1>7, <1>8, <1>9, <1>10 DEF Resume

(* A controller is lost, and a new one takes the orchestrator from         *)
(* meta.json.                                                              *)
LEMMA RestartHeld ==
  ASSUME Typed, Held, LoseController \/ Restarts, ~stale'
  PROVE  Held' /\ meta' = meta
  <1>1. /\ meta \in Metas /\ ResumesOK
        /\ orch \in 0..MaxLaunched /\ launched \in Nat
    BY HeldTypes
  <1> USE <1>1 DEF Held, Alone, CopyHeld, Named, Actors, Metas, ResumesOK
  <1>2. CASE LoseController
    BY <1>2 DEF LoseController
  <1>3. CASE Restarts
    <2>1. PICK o \in Orchs : Restart(o)
      BY <1>3 DEF Restarts
    <2>2. o = meta.orch
      BY <2>1 DEF Restart
    <2> QED BY <2>1, <2>2 DEF Restart
  <1> QED BY <1>2, <1>3

(* Every step, while all is calm.                                          *)
LEMMA HeldStep ==
  ASSUME Typed, Held, [Next]_vars, Calm'
  PROVE  Held' /\ meta.orch <= meta'.orch
  <1>1. meta.orch \in Nat /\ "read" \notin failed' /\ hosts' = 0 /\ ~stale'
    BY DEF Typed, TypeOK, VolumeOK, Metas, Calm
  <1>2. CASE WriteMeta
    BY <1>2, WriteMetaHeld
  <1>3. CASE \/ WriteMetaFails \/ NextTick \/ ReportError \/ TailRead \/ TailNothing
             \/ AppendEvents \/ AppendFails \/ LeaveAlone \/ SuperviseBlind
    <2>1. UNCHANGED <<meta, launched, wroteMeta, orch, resumes>>
      BY <1>3
      DEF WriteMetaFails, NextTick, ReportError, TailRead, TailNothing,
          AppendEvents, AppendFails, LeaveAlone, SuperviseBlind, EndTick
    <2>2. \/ /\ pc \in {"idle", "append", "report", "supervise"}
             /\ pc' \in {"idle", "report"}
          \/ /\ wroteMeta /\ pc \in {"idle", "tail", "append"}
             /\ pc' \in {"tail", "discover", "append", "supervise"}
      BY <1>3
      DEF WriteMetaFails, NextTick, ReportError, TailRead, TailNothing,
          AppendEvents, AppendFails, LeaveAlone, SuperviseBlind, EndTick, Held, Alone
    <2> QED BY <1>1, <2>1, <2>2, TickHeld
  <1>4. CASE Discover \/ PublishSession
    BY <1>1, <1>4, DiscoverHeld
  <1>5. CASE BeginRelaunch \/ Adopt \/ RelaunchFailed
    BY <1>1, <1>5, SuperviseHeld
  <1>6. CASE \E a \in Actors : Resume(a)
    BY <1>6, ResumeHeld
  <1>7. CASE ReportFails \/ Crash \/ Restarts
    BY <1>1, <1>7, RestartHeld DEF ReportFails, Crash
  <1>8. CASE HostResumes
    BY <1>1, <1>8 DEF HostResumes, Typed, TypeOK
  <1>9. CASE \/ BackoffElapses \/ WorkflowsChange \/ UNCHANGED vars
             \/ \E o \in Orchs : RunEnds(o) \/ BoxLost(o)
    <2>1. UNCHANGED <<meta, launched, wroteMeta, orch, resumes, pc>>
      BY <1>9 DEF BackoffElapses, WorkflowsChange, RunEnds, BoxLost
    <2> QED BY <1>1, <2>1, TickHeld
  <1> QED BY <1>2, <1>3, <1>4, <1>5, <1>6, <1>7, <1>8, <1>9
      DEF Next, Restarts, Controller, Actors

LEMMA CalmBefore ==
  ASSUME Typed, [Next]_vars, Calm'
  PROVE  Calm
  BY GhostsStep, StaleChange DEF Typed, TypeOK, Calm, FlagsOK

LEMMA MetaStep == Typed /\ MetaInv /\ [Next]_vars => MetaInv'
  BY HeldStep, CalmBefore DEF MetaInv, Held, Calm

LEMMA MetaInvariant == Spec => []MetaInv
  BY MetaInit, MetaStep, TypedInvariant, PTL DEF Spec

(* The session in meta.json is that of the orchestrator it names: a        *)
(* session is put into it only by a controller that knows which            *)
(* orchestrator it names, and leaves it with that orchestrator.            *)
THEOREM SessionBelongs == Spec => []SessionIsOfOrchestrator
  <1>1. MetaInv => SessionIsOfOrchestrator
    BY DEF MetaInv, Calm, Named, SessionIsOfOrchestrator
  <1> QED BY <1>1, MetaInvariant, PTL

(* The orchestrator in meta.json is never replaced by an older one, by a   *)
(* resume that is in its middle or by a controller that starts again,      *)
(* unless a page started one from a reading that was no longer true.       *)
THEOREM MetaGoesForward == Spec => MetaNeverRollsBack
  <1>1. Typed /\ MetaInv /\ [Next]_vars =>
          (hosts = 0 /\ "read" \notin failed' /\ ~stale
             => meta'.orch >= meta.orch)
    <2> SUFFICES ASSUME Typed, MetaInv, [Next]_vars,
                        hosts = 0, "read" \notin failed', ~stale
                 PROVE  meta'.orch >= meta.orch
      OBVIOUS
    <2>1. Calm /\ Held
      BY GhostsStep DEF Typed, Calm, MetaInv, Held
    <2>2. meta.orch \in Nat
      BY DEF Typed, TypeOK, VolumeOK, Metas
    <2>3. CASE hosts' = 0 /\ ~stale'
      <3>1. meta.orch <= meta'.orch /\ meta' \in Metas
        BY <2>1, <2>3, HeldStep, TypedStep DEF Typed, TypeOK, VolumeOK, Calm
      <3> QED BY <2>2, <3>1 DEF Metas
    <2>4. CASE hosts' # 0
      <3>1. HostResumes
        BY <2>4, HostsChange
      <3> QED BY <2>2, <3>1 DEF HostResumes
    <2>5. CASE stale'
      <3>1. \E o \in Orchs : Restart(o)
        BY <2>5, StaleChange
      <3> QED BY <2>2, <3>1 DEF Restart
    <2> QED BY <2>3, <2>4, <2>5
  <1> QED BY <1>1, TypedInvariant, MetaInvariant, PTL DEF Spec, MetaNeverRollsBack

-----------------------------------------------------------------------------
(* The durable copy.  A sequence ends with the newest events up to n, as   *)
(* far as the cap goes.                                                    *)
Kept(n) == IF n < Cap THEN n ELSE Cap
EndsWith(d, n) ==
  /\ Len(d) >= Kept(n)
  /\ \A i \in 1..Kept(n) : d[Len(d) - Kept(n) + i] = n - Kept(n) + i

(* What was read and is not appended yet continues what was appended.      *)
Appending == {"discover", "publish", "append"}
Continues(d, b, n) == \E k \in 0..n : b = Events(k, n) /\ EndsWith(d, k)

CopyInv ==
  failed \cap {"read", "put"} = {} /\ orch # 0 =>
    IF pc \in Appending
    THEN Continues(durable[orch], batch, offset)
    ELSE EndsWith(durable[orch], offset)

LEMMA NothingKept ==
  ASSUME NEW d \in Seq(Nat)
  PROVE  EndsWith(d, 0)
  BY OrchestratorAssumption DEF OrchestratorAssumption, EndsWith, Kept

(* Where the place j of the new copy was in the old one.                   *)
LEMMA Shift ==
  ASSUME NEW len \in Nat, NEW k \in Nat, NEW kk \in Nat, NEW n \in Nat,
         NEW kn \in Nat, NEW i \in 1..kn, NEW j \in Nat,
         j = len + (n - k) - kn + i, j <= len, k - kk <= n - kn
  PROVE  \E m \in 1..kk : len - kk + m = j /\ k - kk + m = n - kn + i
  <1>1. j - len + kk \in 1..kk
    OBVIOUS
  <1>2. len - kk + (j - len + kk) = j /\ k - kk + (j - len + kk) = n - kn + i
    OBVIOUS
  <1> QED BY <1>1, <1>2

(* Where the places of the newest events lie, before and after the cut.    *)
LEMMA Places ==
  ASSUME NEW ls \in Nat, NEW lt \in Int, NEW first \in Nat, NEW kept \in Nat,
         NEW i \in 1..kept, NEW l \in Int, NEW j \in Int,
         first >= 1, lt = ls - first + 1, kept <= lt,
         l = lt - kept + i, j = ls - kept + i
  PROVE  l \in 1..lt /\ first + l - 1 = j
  OBVIOUS

LEMMA Continued ==
  ASSUME NEW ls \in Nat, NEW ld \in Nat, NEW k \in Nat, NEW n \in Nat,
         NEW kept \in Nat, NEW i \in 1..kept, NEW j \in Nat,
         ls = ld + (n - k), j = ls - kept + i
  PROVE  k + (j - ld) = n - kept + i
  OBVIOUS

(* Appending a continuation and dropping what exceeds the cap leaves the   *)
(* newest events.                                                          *)
LEMMA NewestEnds ==
  ASSUME NEW d \in Seq(Nat), NEW k \in Nat, NEW n \in Nat, k <= n,
         EndsWith(d, k)
  PROVE  EndsWith(Newest(d \o Events(k, n)), n)
  <1> DEFINE s == d \o Events(k, n)
             first == IF Len(s) > Cap THEN Len(s) - Cap + 1 ELSE 1
             t == SubSeq(s, first, Len(s))
  <1>0. \A m \in 1..Kept(k) : d[Len(d) - Kept(k) + m] = k - Kept(k) + m
    BY DEF EndsWith
  <1> USE OrchestratorAssumption DEF OrchestratorAssumption
  <1>1. Events(k, n) \in Seq(Nat) /\ Len(Events(k, n)) = n - k
    BY DEF Events
  <1>2. /\ s \in Seq(Nat) /\ Len(d) \in Nat /\ Len(s) = Len(d) + (n - k)
        /\ \A i \in 1..Len(d) : s[i] = d[i]
        /\ \A i \in Len(d)+1..Len(s) : s[i] = k + (i - Len(d))
    BY <1>1 DEF Events
  <1>3. /\ Len(d) >= Kept(k) /\ Kept(k) \in Nat /\ Kept(n) \in Nat
        /\ k < Cap => Kept(k) = k
        /\ k >= Cap => Kept(k) = Cap
        /\ n < Cap => Kept(n) = n
        /\ n >= Cap => Kept(n) = Cap
    BY DEF EndsWith, Kept
  <1> HIDE DEF s
  <1>4. /\ Len(d) \in Nat /\ Len(s) \in Nat /\ Len(s) = Len(d) + (n - k)
        /\ Len(s) >= Kept(n)
    BY <1>2, <1>3
  <1>5. first \in Nat \ {0} /\ first <= Len(s) + 1 /\ Len(s) - first + 1 >= Kept(n)
    <2>1. CASE Len(s) > Cap
      <3>1. first = Len(s) - Cap + 1
        BY <2>1
      <3> HIDE DEF first
      <3> QED BY <1>3, <1>4, <2>1, <3>1
    <2>2. CASE ~(Len(s) > Cap)
      <3>1. first = 1
        BY <2>2
      <3> HIDE DEF first
      <3> QED BY <1>3, <1>4, <2>2, <3>1
    <2> QED BY <2>1, <2>2
  <1> HIDE DEF first
  <1>6. /\ Len(t) = Len(s) - first + 1
        /\ \A i \in 1..Len(t) : t[i] = s[first + i - 1]
    <2>1. \A i \in first..Len(s) : s[i] \in Nat
      BY SMTT(60), <1>2, <1>4, <1>5
    <2>2. Len(t) = IF first <= Len(s) THEN Len(s) - first + 1 ELSE 0
      BY <1>4, <1>5, <2>1, SubSeqProperties
    <2>3. \A i \in 1..Len(s) - first + 1 : t[i] = s[first + i - 1]
      BY <1>4, <1>5, <2>1, SubSeqProperties
    <2> QED BY SMTT(60), <1>4, <1>5, <2>2, <2>3
  <1> HIDE DEF t
  <1>7. ASSUME NEW i \in 1..Kept(n)
        PROVE  t[Len(t) - Kept(n) + i] = n - Kept(n) + i
    <2> DEFINE j == Len(s) - Kept(n) + i
    <2>1. j \in Nat /\ 1 <= j /\ j <= Len(s) /\ j = Len(s) - Kept(n) + i
      BY <1>3, <1>4
    <2>2. t[Len(t) - Kept(n) + i] = s[j]
      <3> DEFINE l == Len(t) - Kept(n) + i
      <3>1. Len(t) = Len(s) - first + 1
        BY <1>6
      <3>2. l \in 1..Len(t) /\ first + l - 1 = j
        <4>1. Len(t) \in Int /\ Kept(n) <= Len(t) /\ first \in Nat /\ first >= 1
          BY <1>4, <1>5, <3>1
        <4>2. Kept(n) \in Nat /\ Len(s) \in Nat
          BY <1>3, <1>4
        <4>3. l \in Int /\ j \in Int
          BY <4>1, <4>2
        <4> QED BY SMTT(60), <3>1, <4>1, <4>2, <4>3, Places
      <3> HIDE DEF l, j
      <3>3. t[l] = s[first + l - 1]
        BY <1>6, <3>2
      <3>4. t[l] = s[j]
        BY <3>2, <3>3
      <3> QED BY <3>4 DEF l
    <2> HIDE DEF j
    <2>3. CASE j > Len(d)
      <3>1. j \in Len(d)+1..Len(s)
        BY <1>2, <2>1, <2>3
      <3>2. s[j] = k + (j - Len(d))
        BY <1>2, <3>1
      <3>3. k + (j - Len(d)) = n - Kept(n) + i
        BY SMTT(60), <1>3, <1>4, <2>1, Continued
      <3> QED BY <2>2, <3>2, <3>3
    <2>4. CASE j <= Len(d)
      <3>1. PICK m \in 1..Kept(k) :
               Len(d) - Kept(k) + m = j /\ k - Kept(k) + m = n - Kept(n) + i
        <4>1. Kept(k) \in Nat /\ Kept(n) \in Nat /\ k - Kept(k) <= n - Kept(n)
          BY <1>3
        <4>2. Len(d) \in Nat /\ j \in Nat /\ j = Len(d) + (n - k) - Kept(n) + i
          BY <1>3, <1>4, <2>1
        <4>3. j <= Len(d)
          BY <2>4
        <4>4. PICK len \in Nat, kk \in Nat, kn \in Nat :
                 len = Len(d) /\ kk = Kept(k) /\ kn = Kept(n)
          BY <4>1, <4>2
        <4>5. i \in 1..kn /\ j = len + (n - k) - kn + i /\ j <= len /\ k - kk <= n - kn
          BY <4>1, <4>2, <4>3, <4>4
        <4>6. \E m \in 1..kk : len - kk + m = j /\ k - kk + m = n - kn + i
          BY SMTT(60), <4>2, <4>5, Shift
        <4> QED BY <4>4, <4>6
      <3>2. s[j] = d[j]
        BY <1>2, <2>1, <2>4
      <3>3. d[Len(d) - Kept(k) + m] = k - Kept(k) + m
        BY <1>0, Zenon
      <3> QED BY <2>2, <3>1, <3>2, <3>3
    <2> QED BY <1>2, <2>1, <2>3, <2>4
  <1>8. EndsWith(t, n)
    BY <1>3, <1>5, <1>6, <1>7 DEF EndsWith
  <1> QED BY <1>8 DEF Newest, s, first, t

LEMMA CopyInit == Init => CopyInv
  <1> SUFFICES ASSUME Init PROVE CopyInv
    OBVIOUS
  <1>1. orch \in Orchs /\ offset = 0 /\ pc = "idle" /\ <<>> \in Seq(Nat)
    BY OrchestratorAssumption DEF OrchestratorAssumption, Init, Orchs
  <1>2. durable[orch] = <<>>
    BY <1>1 DEF Init
  <1>3. EndsWith(durable[orch], offset)
    BY <1>1, <1>2, NothingKept
  <1> QED BY <1>1, <1>3 DEF CopyInv, Appending

(* Only the tail, the appending and a change of the orchestrator matter.   *)
LEMMA CopyChange ==
  ASSUME [Next]_vars
  PROVE  \/ /\ UNCHANGED <<durable, orch, offset>>
            /\ \/ pc \in Appending /\ pc' \in Appending /\ batch' = batch
               \/ pc \notin Appending /\ pc' \notin Appending
         \/ TailRead \/ AppendEvents \/ AppendFails \/ Adopt \/ Restarts
         \/ LoseController
  <1> USE DEF Appending
  <1>1. CASE Controller
    BY <1>1
    DEF Controller, WriteMeta, WriteMetaFails, NextTick, TailNothing, Discover,
        PublishSession, BeginRelaunch, LeaveAlone, SuperviseBlind,
        RelaunchFailed, Resume, ResumeRead, ResumeCreate, ResumeStart,
        ResumeWrite, ReportError, ReportFails, EndTick, Actors
  <1>2. CASE Resume("host")
    BY <1>2 DEF Resume, ResumeRead, ResumeCreate, ResumeStart, ResumeWrite
  <1>3. CASE BackoffElapses \/ Crash \/ HostResumes \/ Restarts \/ UNCHANGED vars
    BY <1>3 DEF BackoffElapses, Crash, HostResumes
  <1>4. CASE (\E o \in Orchs : RunEnds(o) \/ BoxLost(o)) \/ WorkflowsChange
    BY <1>4 DEF RunEnds, BoxLost, WorkflowsChange
  <1> QED BY <1>1, <1>2, <1>3, <1>4 DEF Next, Restarts

LEMMA CopyStep == Typed /\ CopyInv /\ [Next]_vars => CopyInv'
  <1> SUFFICES ASSUME Typed, CopyInv, [Next]_vars,
                      failed' \cap {"read", "put"} = {}, orch' # 0
               PROVE  IF pc' \in Appending
                      THEN Continues(durable'[orch'], batch', offset')
                      ELSE EndsWith(durable'[orch'], offset')
    BY DEF CopyInv
  <1>1. failed \cap {"read", "put"} = {}
    BY GhostsStep DEF Typed
  <1>2. /\ orch \in 0..MaxLaunched /\ offset \in Nat /\ batch \in Seq(Nat)
        /\ durable \in [Orchs -> Seq(Nat)]
    BY DEF Typed, TypeOK, ControllerOK, VolumeOK
  <1>3. orch' \in Orchs /\ durable'[orch'] \in Seq(Nat)
    <2>1. orch' \in 0..MaxLaunched /\ durable' \in [Orchs -> Seq(Nat)]
      BY TypedStep DEF Typed, TypeOK, ControllerOK, VolumeOK
    <2>2. orch' \in Orchs
      BY <2>1, OrchestratorAssumption DEF OrchestratorAssumption, Orchs
    <2> QED BY <2>1, <2>2
  <1>4. CASE /\ UNCHANGED <<durable, orch, offset>>
             /\ \/ pc \in Appending /\ pc' \in Appending /\ batch' = batch
                \/ pc \notin Appending /\ pc' \notin Appending
    BY <1>1, <1>4 DEF CopyInv, Continues
  <1>5. CASE TailRead
    <2>1. /\ pc \notin Appending /\ orch # 0
          /\ UNCHANGED <<durable, orch>>
          /\ written[orch] \in Nat /\ offset <= written[orch]
      BY <1>2, <1>5
      DEF TailRead, Appending, Typed, TypeOK, BoxesOK, Cursor, Orchs
    <2>2. PICK n \in written[orch]..MaxEvents :
             batch' = Events(offset, n) /\ offset' = n
      BY <1>5 DEF TailRead
    <2>3. EndsWith(durable[orch], offset)
      BY <1>1, <2>1 DEF CopyInv
    <2>4. offset \in 0..offset' /\ n \in Nat
      BY <1>2, <2>1, <2>2
    <2>5. CASE batch' = <<>>
      <3>1. offset' = offset
        <4>1. offset' \in Nat /\ offset <= offset' /\ Events(offset, offset') = <<>>
          BY <1>2, <2>2, <2>4, <2>5
        <4> QED BY <1>2, <4>1, EventsEmpty
      <3>2. pc' \notin Appending
        BY <1>5, <2>5 DEF TailRead, Appending
      <3> QED BY <2>1, <2>3, <3>1, <3>2
    <2>6. CASE batch' # <<>>
      <3>1. pc' \in Appending
        BY <1>5, <2>6 DEF TailRead, Appending
      <3>2. batch' = Events(offset, offset')
        BY <2>2
      <3> QED BY <2>1, <2>3, <2>4, <3>1, <3>2 DEF Continues
    <2> QED BY <2>5, <2>6
  <1>6. CASE AppendEvents
    <2>1. pc = "append" /\ pc' = "supervise" /\ UNCHANGED <<orch, offset>>
      BY <1>6 DEF AppendEvents
    <2>2. PICK k \in 0..offset :
             batch = Events(k, offset) /\ EndsWith(durable[orch], k)
      BY <1>1, <1>3, <2>1 DEF CopyInv, Continues, Appending
    <2>3. durable'[orch] = Newest(durable[orch] \o batch)
      BY <1>2, <1>3, <1>6, <2>1 DEF AppendEvents, Fault
    <2>4. durable[orch] \in Seq(Nat)
      BY <1>2, <1>3, <2>1
    <2>5. EndsWith(Newest(durable[orch] \o Events(k, offset)), offset)
      BY <1>2, <2>2, <2>4, NewestEnds
    <2> QED BY <2>1, <2>2, <2>3, <2>5 DEF Appending
  <1>7. CASE AppendFails
    BY <1>7 DEF AppendFails, EndTick, Fault
  <1>8. CASE Adopt \/ LoseController
    <2>1. offset' = 0 /\ pc' \in {"idle", "report", "down"}
      BY <1>8 DEF Adopt, LoseController, EndTick
    <2> QED BY <1>3, <2>1, NothingKept DEF Appending
  <1>9. CASE Restarts
    <2>1. offset' = 0 /\ pc' = "idle"
      BY <1>9 DEF Restarts, Restart, Typed, Cursor
    <2> QED BY <1>3, <2>1, NothingKept DEF Appending
  <1> QED BY <1>4, <1>5, <1>6, <1>7, <1>8, <1>9, CopyChange

(* With reads and writes that do not fail, the durable copy of the trace   *)
(* ends with what the controller has read last, whatever was read twice by *)
(* restarted controllers and for any cap.                                  *)
THEOREM CopyStaysCurrent == Spec => []CopyIsCurrent
  <1>1. CopyInv => CopyIsCurrent
    BY DEF CopyInv, CopyIsCurrent, EndsWith, Kept, Appending
  <1>2. Spec => []CopyInv
    BY CopyInit, CopyStep, TypedInvariant, PTL DEF Spec
  <1> QED BY <1>1, <1>2, PTL

-----------------------------------------------------------------------------
(* How many orchestrators run.                                             *)

(* An orchestrator that somebody knows has been started; a sandbox that    *)
(* was created for a resume has not, until the resume starts it.  The      *)
(* controller relaunches an orchestrator that is over.                     *)
Begun == {"running", "over", "gone"}
HasBegun(o) == o # 0 => run[o] \in Begun

Known ==
  /\ HasBegun(orch) /\ HasBegun(meta.orch) /\ \A o \in pages : HasBegun(o)
  /\ \A a \in Actors : HasBegun(copy[a].orch)

Launching ==
  /\ \A o \in Orchs : o > launched => run[o] = "none"
  /\ \A a \in Actors :
       /\ rpc[a] \in {"none", "read", "create", "failed"} => rbox[a] = 0
       /\ rpc[a] = "start" => rbox[a] \in Orchs /\ run[rbox[a]] = "created"
       /\ rpc[a] \in {"write", "ok"} => rbox[a] \in Orchs /\ run[rbox[a]] \in Begun
  /\ rbox["host"] # 0 => rbox["host"] # rbox["controller"]

Relaunching ==
  /\ rpc["host"] \notin {"ok", "failed"}
  /\ rpc["controller"] # "none" =>
       pc = "relaunch" /\ orch \in Orchs /\ run[orch] \in {"over", "gone"}
  /\ pc = "report" => "put" \in failed

(* The controller answers for the orchestrator it looks after and for the  *)
(* one it is launching.  Any other that runs is a stray, and each stray is *)
(* charged to a trouble of its own: so is one that a resume from the host  *)
(* will start, and the one that is lost if a failure cannot be reported.   *)
Own == {orch, rbox["controller"]}
Strays == Alive \ Own

Hosting(r) == IF r["host"] \in {"read", "create", "start"} THEN 1 ELSE 0
Reporting(p) == IF p = "report" THEN 1 ELSE 0
PutFailed(f) == IF "put" \in f THEN 1 ELSE 0

Due(r, p) == Hosting(r) + Reporting(p)
Credit(n, h, f) == n + h + PutFailed(f)
Charged == Cardinality(Strays) + Due(rpc, pc) <= Credit(ncrashes, hosts, failed)

LEMMA PutCount ==
  ASSUME NEW f
  PROVE  Cardinality(f \cap {"put"}) = PutFailed(f)
  <1>1. CASE "put" \in f
    <2>1. f \cap {"put"} = {"put"}
      BY <1>1
    <2> QED BY <1>1, <2>1, FS_Singleton DEF PutFailed
  <1>2. CASE "put" \notin f
    <2>1. f \cap {"put"} = {}
      BY <1>2
    <2> QED BY <1>2, <2>1, FS_EmptySet DEF PutFailed
  <1> QED BY <1>1, <1>2

LEMMA AliveFinite ==
  ASSUME NEW S \in SUBSET Orchs
  PROVE  IsFiniteSet(S) /\ Cardinality(S) \in Nat
  <1>1. IsFiniteSet(Orchs)
    BY FS_Interval, OrchestratorAssumption DEF OrchestratorAssumption, Orchs
  <1>2. IsFiniteSet(S)
    BY <1>1, FS_Subset
  <1> QED BY <1>2, FS_CardinalityType

LEMMA StraysBound ==
  ASSUME NEW S \in SUBSET Orchs, NEW x, NEW T, T \subseteq S \cup {x}
  PROVE  Cardinality(T) <= Cardinality(S) + 1 /\ IsFiniteSet(T)
  <1>1. IsFiniteSet(S) /\ Cardinality(S) \in Nat
    BY AliveFinite
  <1>2. IsFiniteSet(S \cup {x}) /\ Cardinality(S \cup {x}) <= Cardinality(S) + 1
    BY SMTT(40), <1>1, FS_AddElement
  <1>3. Cardinality(S \cup {x}) \in Nat
    BY <1>2, FS_CardinalityType
  <1>4. IsFiniteSet(T) /\ Cardinality(T) <= Cardinality(S \cup {x})
    BY <1>2, FS_Subset
  <1>5. Cardinality(T) \in Nat
    BY <1>4, FS_CardinalityType
  <1> QED BY <1>1, <1>2, <1>3, <1>4, <1>5

LEMMA CreditType ==
  ASSUME NEW n \in Nat, NEW h \in Nat, NEW f
  PROVE  Credit(n, h, f) \in Nat /\ PutFailed(f) \in 0..1
  BY DEF Credit, PutFailed

LEMMA DueType ==
  ASSUME NEW r, NEW p
  PROVE  /\ Hosting(r) \in 0..1 /\ Reporting(p) \in 0..1
         /\ Due(r, p) = Hosting(r) + Reporting(p) /\ Due(r, p) \in Nat
  BY DEF Due, Hosting, Reporting

LEMMA Balance ==
  ASSUME NEW n \in Nat, NEW m \in Nat, NEW k \in {0, 1}, m <= n + k,
         NEW d \in Nat, NEW e \in Nat, NEW c \in Nat, NEW b \in Nat,
         e + c + k <= d + b, n + d <= c
  PROVE  m + e <= b
  OBVIOUS

(* The ways in which a step keeps the strays charged.                      *)
LEMMA StrayStep ==
  ASSUME TypeOK, TypeOK', Charged, NEW k \in {0, 1},
         Cardinality(Strays') <= Cardinality(Strays) + k, IsFiniteSet(Strays'),
         Due(rpc', pc') + Credit(ncrashes, hosts, failed) + k
           <= Due(rpc, pc) + Credit(ncrashes', hosts', failed')
  PROVE  Charged'
  <1>1. Strays \in SUBSET Orchs
    BY DEF Strays, Alive
  <1>2. Cardinality(Strays) \in Nat /\ Cardinality(Strays') \in Nat
    BY <1>1, AliveFinite, FS_CardinalityType
  <1>3. Due(rpc, pc) \in Nat /\ Due(rpc', pc') \in Nat
    BY DueType
  <1>4. /\ Credit(ncrashes, hosts, failed) \in Nat
        /\ Credit(ncrashes', hosts', failed') \in Nat
    BY CreditType DEF TypeOK
  <1>5. Cardinality(Strays) + Due(rpc, pc) <= Credit(ncrashes, hosts, failed)
    BY DEF Charged
  <1>6. Cardinality(Strays') + Due(rpc', pc') <= Credit(ncrashes', hosts', failed')
    BY <1>2, <1>3, <1>4, <1>5, Balance
  <1> QED BY <1>6 DEF Charged

LEMMA NoStray ==
  ASSUME TypeOK, TypeOK', Charged, Strays' \subseteq Strays,
         Due(rpc', pc') + Credit(ncrashes, hosts, failed)
           <= Due(rpc, pc) + Credit(ncrashes', hosts', failed')
  PROVE  Charged'
  <1>1. Strays \in SUBSET Orchs
    BY DEF Strays, Alive
  <1>2. IsFiniteSet(Strays) /\ Cardinality(Strays) \in Nat
    BY <1>1, AliveFinite
  <1>3. Cardinality(Strays') <= Cardinality(Strays) /\ IsFiniteSet(Strays')
    BY <1>2, FS_Subset
  <1>4. Due(rpc, pc) \in Nat /\ Due(rpc', pc') \in Nat
    BY DueType
  <1>5. Due(rpc', pc') + Credit(ncrashes, hosts, failed) + 0
          <= Due(rpc, pc) + Credit(ncrashes', hosts', failed')
    BY <1>4, CreditType DEF TypeOK
  <1> QED BY <1>2, <1>3, <1>5, StrayStep

LEMMA OneStray ==
  ASSUME TypeOK, TypeOK', Charged, NEW x, Strays' \subseteq Strays \cup {x},
         Due(rpc', pc') + Credit(ncrashes, hosts, failed) + 1
           <= Due(rpc, pc) + Credit(ncrashes', hosts', failed')
  PROVE  Charged'
  <1>1. Strays \in SUBSET Orchs
    BY DEF Strays, Alive
  <1>2. Cardinality(Strays') <= Cardinality(Strays) + 1 /\ IsFiniteSet(Strays')
    BY <1>1, StraysBound
  <1> QED BY <1>2, StrayStep

-----------------------------------------------------------------------------
(* Steps that concern nobody's launching.                                  *)
Quiet ==
  /\ UNCHANGED <<meta, launched, run, orch, rpc, rbox, copy, ncrashes, hosts>>
  /\ failed \subseteq failed'
  /\ pc' = pc \/ (pc # "relaunch" /\ pc' # "report")

LEMMA QuietSteps ==
  ASSUME Typed, [Next]_vars
  PROVE  \/ Quiet
         \/ WriteMeta \/ WriteMetaFails \/ AppendFails \/ Discover \/ PublishSession
         \/ BeginRelaunch \/ Adopt \/ RelaunchFailed \/ HostResumes
         \/ ReportFails \/ Crash \/ Restarts
         \/ \E a \in Actors : Resume(a)
         \/ \E o \in Orchs : RunEnds(o) \/ BoxLost(o)
  <1>0. failed \subseteq failed'
    BY GhostsStep DEF Typed
  <1>1. CASE NextTick \/ TailRead \/ TailNothing \/ AppendEvents
    BY <1>0, <1>1 DEF Quiet, NextTick, TailRead, TailNothing, AppendEvents
  <1>2. CASE LeaveAlone \/ SuperviseBlind \/ ReportError
    BY <1>0, <1>2 DEF Quiet, LeaveAlone, SuperviseBlind, ReportError
  <1>3. CASE BackoffElapses \/ WorkflowsChange \/ UNCHANGED vars
    BY <1>0, <1>3 DEF Quiet, BackoffElapses, WorkflowsChange
  <1> QED BY <1>1, <1>2, <1>3 DEF Next, Restarts, Controller, Actors

LEMMA BegunStays ==
  ASSUME Typed, Launching, [Next]_vars, NEW o \in 0..MaxLaunched, HasBegun(o)
  PROVE  o # 0 => run'[o] \in Begun
  <1> USE DEF HasBegun, Begun
  <1>0. /\ launched \in Nat /\ (o # 0 => o \in Orchs)
        /\ run \in [Orchs -> {"none", "created", "running", "over", "gone"}]
    BY OrchestratorAssumption
    DEF OrchestratorAssumption, Typed, TypeOK, BoxesOK, Orchs
  <1>1. CASE UNCHANGED boxes
    BY <1>1
  <1>2. CASE TailRead
    BY <1>2 DEF TailRead
  <1>3. ASSUME NEW a \in Actors, ResumeCreate(a)
        PROVE  o # 0 => run'[o] \in Begun
    <2>1. \A p \in Orchs : p = launched + 1 => run[p] = "none"
      BY <1>0 DEF Launching, Orchs
    <2>2. run' = run \/ run' = [run EXCEPT ![launched + 1] = "created"]
      BY <1>3 DEF ResumeCreate
    <2> QED BY <1>0, <2>1, <2>2
  <1>4. ASSUME NEW a \in Actors, ResumeStart(a)
        PROVE  o # 0 => run'[o] \in Begun
    BY <1>0, <1>4 DEF ResumeStart
  <1>5. ASSUME NEW p \in Orchs, RunEnds(p) \/ BoxLost(p)
        PROVE  o # 0 => run'[o] \in Begun
    BY <1>0, <1>5 DEF RunEnds, BoxLost
  <1> QED BY <1>1, <1>2, <1>3, <1>4, <1>5, BoxesChange

LEMMA KnownTypes ==
  ASSUME TypeOK
  PROVE  /\ orch \in 0..MaxLaunched /\ meta \in Metas
         /\ \A m \in Metas : m.orch \in 0..MaxLaunched
         /\ \A a \in Actors : copy[a] \in Metas /\ rbox[a] \in 0..MaxLaunched
         /\ \A o \in 0..MaxLaunched : o # 0 <=> o \in Orchs
         /\ launched \in Orchs /\ MaxLaunched \in Nat
         /\ run \in [Orchs -> {"none", "created", "running", "over", "gone"}]
         /\ ResumesOK
  BY OrchestratorAssumption
  DEF OrchestratorAssumption, TypeOK, VolumeOK, BoxesOK, ControllerOK, ResumesOK,
      Metas, Orchs

(* Whom anybody knows was known before, or is nobody, or was started.      *)
LEMMA KnownStep ==
  ASSUME Typed, Launching, Known, [Next]_vars
  PROVE  Known'
  <1> DEFINE New(o) == \/ o = 0 \/ o = orch \/ o = meta.orch \/ o \in pages
                       \/ \E a \in Actors : o = copy[a].orch
                       \/ \E a \in Actors : o = rbox[a] /\ rpc[a] \in {"write", "ok"}
  <1>1. ASSUME NEW o, New(o)
        PROVE  o # 0 => run'[o] \in Begun
    <2>1. o \in 0..MaxLaunched /\ HasBegun(o)
      <3>1. CASE o \in pages
        BY <3>1 DEF Known, Typed, TypeOK
      <3>2. CASE o \notin pages
        BY <1>1, <3>2, KnownTypes DEF Known, Launching, HasBegun, Typed
      <3> QED BY <3>1, <3>2
    <2> QED BY <2>1, BegunStays
  <1>2. \A m \in Metas : \A o : /\ [m EXCEPT !.session = o].orch = m.orch
                                /\ Resumed(m, o).orch = o
    BY DEF Metas, Resumed
  <1>3. EmptyMeta.orch = 0 /\ \A o : MetaOf(o).orch = o
    BY DEF EmptyMeta, MetaOf
  <1>4. /\ copy \in [Actors -> Metas] /\ meta \in Metas
        /\ "controller" \in Actors /\ "host" \in Actors
    BY KnownTypes DEF ResumesOK, Typed, Actors
  <1>5. New(orch') /\ New(meta'.orch) /\ \A a \in Actors : New(copy'[a].orch)
    <2>1. CASE Quiet
      BY <2>1 DEF Quiet
    <2>2. CASE WriteMeta
      BY <2>2, <1>3 DEF WriteMeta, Publish
    <2>3. CASE WriteMetaFails \/ AppendFails \/ BeginRelaunch \/ RelaunchFailed
      BY <2>3
      DEF WriteMetaFails, AppendFails, BeginRelaunch, RelaunchFailed, EndTick
    <2>4. CASE Discover \/ PublishSession
      <3>1. /\ orch' = orch
            /\ \/ copy' = [copy EXCEPT !["controller"] = meta]
               \/ copy' = [copy EXCEPT !["controller"] = EmptyMeta]
        BY <2>4 DEF Discover, PublishSession
      <3>2. \/ meta' = meta
            \/ meta' = [copy["controller"] EXCEPT !.session = orch]
        BY <2>4 DEF Discover, PublishSession, Publish
      <3>3. New(meta'.orch)
        <4>1. copy["controller"] \in Metas
          BY <1>4
        <4>2. meta'.orch = meta.orch \/ meta'.orch = copy["controller"].orch
          BY <3>2, <4>1 DEF Metas
        <4> QED BY <4>2, <1>4
      <3>4. \A a \in Actors : New(copy'[a].orch)
        BY <3>1, <1>3, <1>4
      <3> QED BY <3>1, <3>3, <3>4
    <2>5. CASE Adopt
      BY <2>5, <1>4 DEF Adopt, EndTick
    <2>6. CASE HostResumes \/ Restarts
      BY <2>6 DEF HostResumes, Restarts, Restart
    <2>7. CASE ReportFails \/ Crash
      BY <2>7, <1>3, <1>4 DEF ReportFails, Crash, LoseController
    <2>8. ASSUME NEW a \in Actors, Resume(a)
          PROVE  New(orch') /\ New(meta'.orch) /\ \A b \in Actors : New(copy'[b].orch)
      <3>1. CASE ResumeRead(a)
        BY <3>1, <1>3, <1>4 DEF ResumeRead, Fails, Leave
      <3>2. CASE ResumeCreate(a)
        BY <3>2, <1>3, <1>4 DEF ResumeCreate, Fails, Leave
      <3>3. CASE ResumeStart(a)
        BY <3>3, <1>3, <1>4 DEF ResumeStart, Fails, Leave
      <3>4. CASE ResumeWrite(a)
        <4>1. meta'.orch = meta.orch \/ meta'.orch = rbox[a]
          BY <3>4, <1>2, <1>4 DEF ResumeWrite, Publish
        <4>2. rpc[a] = "write" /\ orch' = orch
          BY <3>4 DEF ResumeWrite
        <4>3. copy' = [copy EXCEPT ![a] = EmptyMeta]
          BY <3>4 DEF ResumeWrite, Fails, Leave
        <4> QED BY <4>1, <4>2, <4>3, <1>3, <1>4
      <3> QED BY <2>8, <3>1, <3>2, <3>3, <3>4 DEF Resume
    <2>9. ASSUME NEW o \in Orchs, RunEnds(o) \/ BoxLost(o)
          PROVE  New(orch') /\ New(meta'.orch) /\ \A b \in Actors : New(copy'[b].orch)
      BY <2>9 DEF RunEnds, BoxLost
    <2> QED BY <2>1, <2>2, <2>3, <2>4, <2>5, <2>6, <2>7, <2>8, <2>9, QuietSteps
  <1>6. \A o \in pages' : New(o)
    <2>1. \A m : \A o \in NamedBy(m) : o = m.orch
      BY DEF NamedBy
    <2>2. \A o \in pages' : o \in pages \/ o = meta'.orch \/ o = meta.orch
      BY <2>1, PagesChange
    <2> QED BY <2>2, <1>5
  <1> HIDE DEF New
  <1> QED BY <1>1, <1>5, <1>6 DEF Known, HasBegun

(* What the two who launch hold.                                           *)
LEMMA LaunchingStep ==
  ASSUME Typed, Launching, Relaunching, [Next]_vars
  PROVE  Launching'
  <1>0. /\ launched \in Nat /\ launched \in Orchs /\ MaxLaunched \in Nat
        /\ run \in [Orchs -> {"none", "created", "running", "over", "gone"}]
        /\ rpc \in [Actors -> {"none", "read", "create", "start", "write", "ok",
                               "failed"}]
        /\ rbox \in [Actors -> 0..MaxLaunched]
        /\ "controller" \in Actors /\ "host" \in Actors
        /\ 0 \notin Orchs /\ Actors = {"controller", "host"}
    BY KnownTypes DEF Typed, ResumesOK, Actors, Orchs
  <1> USE <1>0 DEF Launching, Begun
  <1>1. CASE UNCHANGED <<launched, run, rpc, rbox>>
    BY <1>1
  <1>2. CASE BeginRelaunch
    <2>1. rpc["controller"] = "none"
      BY <1>2 DEF BeginRelaunch, Relaunching
    <2>2. /\ rpc' = [rpc EXCEPT !["controller"] = "read"]
          /\ UNCHANGED <<launched, run, rbox>>
      BY <1>2 DEF BeginRelaunch
    <2> QED BY <2>1, <2>2
  <1>3. CASE HostResumes
    BY <1>3 DEF HostResumes
  <1>4. CASE Adopt \/ RelaunchFailed \/ LoseController
    <2>1. /\ UNCHANGED <<launched, run>>
          /\ rpc' = [rpc EXCEPT !["controller"] = "none"]
      BY <1>4 DEF Adopt, RelaunchFailed, LoseController, EndTick
    <2>2. rbox' = [rbox EXCEPT !["controller"] = 0]
      <3>1. CASE RelaunchFailed
        <4>1. rbox' = rbox /\ rbox["controller"] = 0
          BY <3>1 DEF RelaunchFailed
        <4> QED BY <4>1
      <3> QED BY <1>4, <3>1 DEF Adopt, LoseController
    <2> QED BY <2>1, <2>2
  <1>5. ASSUME NEW a \in Actors, Resume(a)
        PROVE  Launching'
    <2> USE DEF Fails, Leave
    <2>1. CASE ResumeRead(a)
      BY <2>1 DEF ResumeRead, Relaunching
    <2>2. CASE ResumeCreate(a)
      <3>1. CASE rbox' = [rbox EXCEPT ![a] = 0]
        BY <2>2, <3>1 DEF ResumeCreate
      <3>2. CASE rbox' # [rbox EXCEPT ![a] = 0]
        <4> DEFINE o == launched + 1
        <4>1. /\ launched' = o /\ o \in Orchs
              /\ run' = [run EXCEPT ![o] = "created"]
              /\ rbox' = [rbox EXCEPT ![a] = o]
              /\ rpc' = [rpc EXCEPT ![a] = "start"]
          BY <2>2, <3>2 DEF ResumeCreate, Orchs
        <4>2. run[o] = "none"
          BY <4>1 DEF Orchs
        <4>3. \A b \in Actors : rbox[b] # o
          BY <4>2 DEF Orchs
        <4>4. \A b \in Actors : rbox[b] \in Orchs => run'[rbox[b]] = run[rbox[b]]
          BY <4>1, <4>3
        <4> HIDE DEF o
        <4>5. \A p \in Orchs : p > launched' => run'[p] = "none"
          BY <4>1 DEF o, Orchs
        <4> QED BY <4>1, <4>3, <4>4, <4>5
      <3> QED BY <3>1, <3>2
    <2>3. CASE ResumeStart(a)
      <3>1. rpc[a] = "start" /\ launched' = launched
        BY <2>3 DEF ResumeStart
      <3>2. CASE run' = run
        BY <2>3, <3>1, <3>2 DEF ResumeStart
      <3>3. CASE run' # run
        <4>1. /\ run' = [run EXCEPT ![rbox[a]] = "running"]
              /\ rpc' = [rpc EXCEPT ![a] = "write"] /\ rbox' = rbox
          BY <2>3, <3>3 DEF ResumeStart
        <4>2. rbox[a] \in Orchs /\ run[rbox[a]] = "created"
          BY <3>1
        <4> QED BY <3>1, <4>1, <4>2
      <3> QED BY <3>2, <3>3
    <2>4. CASE ResumeWrite(a)
      BY <2>4 DEF ResumeWrite, Relaunching
    <2> QED BY <1>5, <2>1, <2>2, <2>3, <2>4 DEF Resume
  <1>6. ASSUME NEW o \in Orchs, RunEnds(o) \/ BoxLost(o)
        PROVE  Launching'
    BY <1>6 DEF RunEnds, BoxLost
  <1>7. CASE \/ Quiet \/ WriteMeta \/ WriteMetaFails \/ AppendFails \/ Discover
             \/ PublishSession \/ Restarts
    BY <1>1, <1>7
    DEF Quiet, WriteMeta, WriteMetaFails, AppendFails, Discover, PublishSession,
        Restarts, Restart, EndTick
  <1> QED BY <1>2, <1>3, <1>4, <1>5, <1>6, <1>7, QuietSteps DEF ReportFails, Crash

LEMMA RelaunchingStep ==
  ASSUME Typed, Launching, Relaunching, [Next]_vars
  PROVE  Relaunching'
  <1>0. /\ run \in [Orchs -> {"none", "created", "running", "over", "gone"}]
        /\ rpc \in [Actors -> {"none", "read", "create", "start", "write", "ok",
                               "failed"}]
        /\ "controller" \in Actors /\ "host" \in Actors
        /\ Actors = {"controller", "host"} /\ failed \subseteq failed'
        /\ (orch # 0 => orch \in Orchs)
    BY KnownTypes, GhostsStep DEF Typed, ResumesOK, Actors
  <1> USE <1>0 DEF Relaunching
  <1>1. CASE Quiet
    BY <1>1 DEF Quiet
  <1>2. CASE WriteMeta \/ Discover \/ PublishSession \/ Restarts
    BY <1>2 DEF WriteMeta, Discover, PublishSession, Restarts, Restart
  <1>3. CASE WriteMetaFails \/ AppendFails
    BY <1>3 DEF WriteMetaFails, AppendFails, EndTick, Fault
  <1>4. CASE BeginRelaunch
    BY <1>4 DEF BeginRelaunch, RelaunchDue, Exited, Terminal
  <1>5. CASE Adopt \/ RelaunchFailed
    BY <1>5 DEF Adopt, RelaunchFailed, EndTick, Fault
  <1>6. CASE LoseController
    BY <1>6 DEF LoseController
  <1>7. CASE HostResumes
    BY <1>7 DEF HostResumes
  <1>8. ASSUME NEW a \in Actors, Resume(a)
        PROVE  Relaunching'
    <2>1. /\ orch' = orch /\ pc' = pc
          /\ rpc[a] \in {"read", "create", "start", "write"}
          /\ \/ rpc' = [rpc EXCEPT ![a] = IF a = "host" THEN "none" ELSE "ok"]
             \/ rpc' = [rpc EXCEPT ![a] = IF a = "host" THEN "none" ELSE "failed"]
             \/ \E to \in {"create", "start", "write"} : rpc' = [rpc EXCEPT ![a] = to]
      BY <1>8 DEF Resume, ResumeRead, ResumeCreate, ResumeStart, ResumeWrite,
                  Fails, Leave
    <2>2. orch \in Orchs /\ run[orch] \in {"over", "gone"} =>
            run'[orch] \in {"over", "gone"}
      <3>1. CASE ResumeCreate(a)
        <4>1. run' = run \/ run' = [run EXCEPT ![launched + 1] = "created"]
          BY <3>1 DEF ResumeCreate
        <4>2. orch = launched + 1 => run[orch] = "none" \/ orch \notin Orchs
          BY KnownTypes DEF Typed, Launching, Orchs
        <4> QED BY <4>1, <4>2
      <3>2. CASE ResumeStart(a)
        <4>1. run' = run \/ run' = [run EXCEPT ![rbox[a]] = "running"]
          BY <3>2 DEF ResumeStart
        <4>2. run[rbox[a]] = "created"
          BY <3>2 DEF ResumeStart, Launching
        <4> QED BY <4>1, <4>2
      <3> QED BY <1>8, <3>1, <3>2 DEF Resume, ResumeRead, ResumeWrite
    <2> QED BY <2>1, <2>2
  <1>9. ASSUME NEW o \in Orchs, RunEnds(o) \/ BoxLost(o)
        PROVE  Relaunching'
    BY <1>9, GhostsStep DEF RunEnds, BoxLost
  <1> QED BY <1>1, <1>2, <1>3, <1>4, <1>5, <1>6, <1>7, <1>8, <1>9, QuietSteps
      DEF ReportFails, Crash

(* One of the controller's own at most runs; none of them when it starts   *)
(* to look after another.                                                  *)
LEMMA OwnRunning ==
  ASSUME Typed, Launching, Relaunching
  PROVE  \E x : Alive \subseteq Strays \cup {x}
  <1>0. "controller" \in Actors /\ 0 \notin Orchs
    BY DEF Actors, Orchs
  <1>1. CASE rpc["controller"] = "none"
    <2>1. rbox["controller"] = 0
      BY <1>0, <1>1 DEF Launching
    <2> QED BY <1>0, <2>1 DEF Strays, Alive, Own
  <1>2. CASE rpc["controller"] # "none"
    <2>1. run[orch] # "running"
      BY <1>2 DEF Relaunching
    <2> QED BY <2>1 DEF Strays, Alive, Own
  <1> QED BY <1>1, <1>2

(* A failed write is a trouble, the first and only one of its kind.        *)
LEMMA CreditStep ==
  ASSUME Typed, [Next]_vars
  PROVE  /\ Credit(ncrashes, hosts, failed) \in Nat
         /\ Credit(ncrashes', hosts', failed') \in Nat
         /\ Credit(ncrashes, hosts, failed) <= Credit(ncrashes', hosts', failed')
         /\ Fault("put") \/ ncrashes' = ncrashes + 1 \/ hosts' = hosts + 1 =>
              Credit(ncrashes, hosts, failed) + 1 <= Credit(ncrashes', hosts', failed')
  <1>1. /\ failed \subseteq failed' /\ ncrashes <= ncrashes' /\ hosts <= hosts'
        /\ ncrashes \in Nat /\ hosts \in Nat /\ ncrashes' \in Nat /\ hosts' \in Nat
    BY GhostsStep DEF Typed, TypeOK
  <1>2. PutFailed(failed) <= PutFailed(failed')
    BY <1>1 DEF PutFailed
  <1>3. Fault("put") => PutFailed(failed) = 0 /\ PutFailed(failed') = 1
    BY DEF PutFailed, Fault
  <1>4. PutFailed(failed) \in 0..1 /\ PutFailed(failed') \in 0..1
    BY DEF PutFailed
  <1> QED BY <1>1, <1>2, <1>3, <1>4 DEF Credit

LEMMA ChargedStep ==
  ASSUME Typed, Launching, Relaunching, Charged, [Next]_vars
  PROVE  Charged'
  <1>0. TypeOK /\ TypeOK'
    BY TypedStep DEF Typed
  <1>0a. /\ run \in [Orchs -> {"none", "created", "running", "over", "gone"}]
         /\ rpc \in [Actors -> {"none", "read", "create", "start", "write", "ok",
                                "failed"}]
         /\ rbox \in [Actors -> 0..MaxLaunched]
         /\ "controller" \in Actors /\ "host" \in Actors
         /\ Actors = {"controller", "host"} /\ 0 \notin Orchs
    BY <1>0, KnownTypes DEF ResumesOK, Actors, Orchs
  <1>1. ASSUME Strays' \subseteq Strays, Hosting(rpc') <= Hosting(rpc), Reporting(pc') <= Reporting(pc)
        PROVE  Charged'
    <2>1. Due(rpc', pc') + Credit(ncrashes, hosts, failed)
            <= Due(rpc, pc) + Credit(ncrashes', hosts', failed')
      BY CreditStep, DueType, <1>1
    <2> QED BY <1>0, <1>1, <2>1, NoStray
  <1>2. ASSUME UNCHANGED <<run, orch, rbox>> PROVE Strays' = Strays
    BY <1>2 DEF Strays, Alive, Own
  <1>3. CASE Quiet
    BY <1>1, <1>2, <1>3 DEF Quiet, Hosting, Reporting
  <1>4. CASE WriteMeta \/ Discover \/ PublishSession \/ BeginRelaunch
    <2>1. UNCHANGED <<run, orch, rbox>> /\ pc' # "report" /\ rpc'["host"] = rpc["host"]
      BY <1>0a, <1>4 DEF WriteMeta, Discover, PublishSession, BeginRelaunch
    <2> QED BY <1>1, <1>2, <2>1 DEF Hosting, Reporting
  <1>5. CASE WriteMetaFails \/ AppendFails \/ Adopt \/ RelaunchFailed
    <2>1. Strays' \subseteq Strays
      <3>1. CASE Adopt
        <4>1. /\ run' = run /\ orch' = rbox["controller"]
              /\ run[orch] # "running"
          BY <3>1 DEF Adopt, EndTick, Relaunching
        <4> QED BY <4>1 DEF Strays, Alive, Own
      <3>2. CASE WriteMetaFails \/ AppendFails \/ RelaunchFailed
        <4>1. UNCHANGED <<run, orch, rbox>>
          BY <3>2 DEF WriteMetaFails, AppendFails, RelaunchFailed, EndTick
        <4> QED BY <1>2, <4>1
      <3> QED BY <1>5, <3>1, <3>2
    <2>2. Hosting(rpc') = Hosting(rpc)
      BY <1>0a, <1>5 DEF WriteMetaFails, AppendFails, Adopt, RelaunchFailed, EndTick,
                         Hosting
    <2>3. Reporting(pc) = 0
      BY <1>5 DEF Reporting, WriteMetaFails, AppendFails, Adopt, RelaunchFailed
    <2>4. Reporting(pc') = 0 \/ Fault("put")
      BY <1>5 DEF Reporting, WriteMetaFails, AppendFails, Adopt, RelaunchFailed, EndTick
    <2>5. Due(rpc', pc') + Credit(ncrashes, hosts, failed)
            <= Due(rpc, pc) + Credit(ncrashes', hosts', failed')
      BY CreditStep, DueType, <2>2, <2>3, <2>4
    <2> QED BY <1>0, <2>1, <2>5, NoStray
  <1>6. CASE ReportFails \/ Crash
    <2>1. PICK x : Alive \subseteq Strays \cup {x}
      BY OwnRunning
    <2>2. run' = run /\ pc' = "down" /\ rpc'["host"] = rpc["host"]
      BY <1>0a, <1>6 DEF ReportFails, Crash, LoseController
    <2>3. Strays' \subseteq Strays \cup {x}
      BY <2>1, <2>2 DEF Strays, Alive
    <2>4. pc = "report" \/ ncrashes' = ncrashes + 1
      BY <1>6 DEF ReportFails, Crash
    <2>5. Due(rpc', pc') + Credit(ncrashes, hosts, failed) + 1
            <= Due(rpc, pc) + Credit(ncrashes', hosts', failed')
      <3>1. Hosting(rpc') = Hosting(rpc) /\ Reporting(pc') = 0
        BY <2>2 DEF Hosting, Reporting
      <3>2. \/ Reporting(pc) = 1
            \/ Credit(ncrashes, hosts, failed) + 1
                 <= Credit(ncrashes', hosts', failed')
        BY <2>4, CreditStep DEF Reporting
      <3> QED BY CreditStep, DueType, <3>1, <3>2
    <2> QED BY <1>0, <2>3, <2>5, OneStray
  <1>7. CASE Restarts
    <2>1. UNCHANGED <<run, rbox, rpc>> /\ orch = 0 /\ pc' = "idle"
      BY <1>7 DEF Restarts, Restart, Typed, Cursor
    <2>2. Strays' \subseteq Strays
      BY <1>0a, <2>1 DEF Strays, Alive, Own
    <2> QED BY <1>1, <2>1, <2>2 DEF Hosting, Reporting
  <1>8. CASE HostResumes
    <2>1. UNCHANGED <<run, orch, rbox, pc>> /\ hosts' = hosts + 1
      BY <1>8 DEF HostResumes
    <2>2. Hosting(rpc) = 0
      BY <1>8 DEF HostResumes, Hosting
    <2>3. Due(rpc', pc') + Credit(ncrashes, hosts, failed)
            <= Due(rpc, pc) + Credit(ncrashes', hosts', failed')
      <3>1. /\ Reporting(pc') = Reporting(pc)
            /\ Credit(ncrashes, hosts, failed) + 1
                 <= Credit(ncrashes', hosts', failed')
        BY <2>1, CreditStep DEF Reporting
      <3> QED BY CreditStep, DueType, <2>2, <3>1
    <2> QED BY <1>0, <1>2, <2>1, <2>3, NoStray
  <1>9. ASSUME NEW a \in Actors, Resume(a)
        PROVE  Charged'
    <2>1. orch' = orch /\ pc' = pc
      BY <1>9 DEF Resume, ResumeRead, ResumeCreate, ResumeStart, ResumeWrite
    <2>2. Hosting(rpc') <= Hosting(rpc)
      <3>1. CASE a = "controller"
        <4>1. rpc'["host"] = rpc["host"]
          BY <1>0a, <1>9, <3>1 DEF Resume, ResumeRead, ResumeCreate, ResumeStart,
                                   ResumeWrite, Fails, Leave
        <4> QED BY <4>1 DEF Hosting
      <3>2. CASE a = "host"
        BY <1>0a, <1>9, <3>2 DEF Resume, ResumeRead, ResumeCreate, ResumeStart,
                                 ResumeWrite, Fails, Leave, Hosting
      <3> QED BY <1>0a, <3>1, <3>2
    <2>3. CASE ResumeRead(a)
      <3>1. run' = run /\ rbox' \in {rbox, [rbox EXCEPT ![a] = 0]} /\ rbox[a] = 0
        BY <2>3 DEF ResumeRead, Fails, Launching
      <3>2. rbox'["controller"] = rbox["controller"]
        BY <1>0a, <3>1
      <3> QED BY <1>1, <2>1, <2>2, <3>1, <3>2 DEF Strays, Alive, Own, Reporting
    <2>4. CASE ResumeCreate(a)
      <3>1. rbox[a] = 0 /\ \E o : \/ rbox' = [rbox EXCEPT ![a] = o]
        BY <2>4 DEF ResumeCreate, Fails, Launching
      <3>2. Own \cap Orchs \subseteq Own'
        BY <1>0a, <2>1, <3>1 DEF Own
      <3>3. Alive' \subseteq Alive
        BY <1>0a, <2>4 DEF ResumeCreate, Alive
      <3>4. Strays' \subseteq Strays
        BY <3>2, <3>3 DEF Strays, Alive
      <3> QED BY <1>1, <2>1, <2>2, <3>4 DEF Reporting
    <2>5. CASE ResumeStart(a)
      <3>1. /\ rpc[a] = "start" /\ rbox[a] \in Orchs /\ run[rbox[a]] = "created"
            /\ rbox' \in {rbox, [rbox EXCEPT ![a] = 0]}
        BY <2>5 DEF ResumeStart, Fails, Launching
      <3>2. Alive' \subseteq Alive \cup {rbox[a]}
        BY <1>0a, <2>5 DEF ResumeStart, Alive
      <3>3. CASE a = "host"
        <4>1. rbox'["controller"] = rbox["controller"]
          BY <1>0a, <3>1, <3>3
        <4>2. Strays' \subseteq Strays \cup {rbox[a]}
          BY <2>1, <3>2, <4>1 DEF Strays, Own
        <4>3. Hosting(rpc) = 1 /\ Hosting(rpc') = 0
          BY <1>0a, <2>5, <3>1, <3>3 DEF ResumeStart, Fails, Leave, Hosting
        <4>4. Due(rpc', pc') + Credit(ncrashes, hosts, failed) + 1
                <= Due(rpc, pc) + Credit(ncrashes', hosts', failed')
          <5>1. Reporting(pc') = Reporting(pc)
            BY <2>1 DEF Reporting
          <5> QED BY CreditStep, DueType, <4>3, <5>1
        <4> QED BY <1>0, <4>2, <4>4, OneStray
      <3>4. CASE a = "controller"
        <4>1. Strays' \subseteq Strays
          <5>1. CASE rbox' = rbox
            BY <2>1, <3>2, <3>4, <5>1 DEF Strays, Own
          <5>2. CASE rbox' # rbox
            <6>1. run' = run
              BY <2>5, <5>2 DEF ResumeStart
            <6>2. rbox[a] \notin Alive
              BY <3>1 DEF Alive
            <6> QED BY <2>1, <3>4, <6>1, <6>2 DEF Strays, Own, Alive
          <5> QED BY <5>1, <5>2
        <4> QED BY <1>1, <2>1, <2>2, <4>1 DEF Reporting
      <3> QED BY <1>0a, <3>3, <3>4
    <2>6. CASE ResumeWrite(a)
      <3>1. run' = run
        BY <2>6 DEF ResumeWrite
      <3>2. CASE rbox'["controller"] = rbox["controller"]
        BY <1>1, <2>1, <2>2, <3>1, <3>2 DEF Strays, Alive, Own, Reporting
      <3>3. CASE rbox'["controller"] # rbox["controller"]
        <4>1. Fault("put")
          BY <1>0a, <2>6, <3>3 DEF ResumeWrite
        <4>2. Strays' \subseteq Strays \cup {rbox["controller"]}
          BY <2>1, <3>1 DEF Strays, Alive, Own
        <4>3. Due(rpc', pc') + Credit(ncrashes, hosts, failed) + 1
                <= Due(rpc, pc) + Credit(ncrashes', hosts', failed')
          <5>1. /\ Reporting(pc') = Reporting(pc)
                /\ Credit(ncrashes, hosts, failed) + 1
                     <= Credit(ncrashes', hosts', failed')
            BY <2>1, <4>1, CreditStep DEF Reporting
          <5> QED BY CreditStep, DueType, <2>2, <5>1
        <4> QED BY <1>0, <4>2, <4>3, OneStray
      <3> QED BY <3>2, <3>3
    <2> QED BY <1>9, <2>3, <2>4, <2>5, <2>6 DEF Resume
  <1>10. ASSUME NEW o \in Orchs, RunEnds(o) \/ BoxLost(o)
         PROVE  Charged'
    <2>1. UNCHANGED <<orch, rbox, rpc, pc>> /\ Alive' \subseteq Alive
      BY <1>0a, <1>10 DEF RunEnds, BoxLost, Alive
    <2>2. Strays' \subseteq Strays
      BY <2>1 DEF Strays, Own
    <2> QED BY <1>1, <2>1, <2>2 DEF Hosting, Reporting
  <1> QED BY <1>3, <1>4, <1>5, <1>6, <1>7, <1>8, <1>9, <1>10, QuietSteps

LaunchInv == Launching /\ Known /\ Relaunching /\ Charged

LEMMA LaunchInit == Init => LaunchInv
  <1> SUFFICES ASSUME Init PROVE LaunchInv
    OBVIOUS
  <1>0. Typed /\ 1 \in Orchs /\ Orchs \subseteq Nat /\ 0 \notin Orchs
    BY TypedInit, OrchestratorAssumption DEF OrchestratorAssumption, Orchs
  <1>1. Known
    BY <1>0 DEF Init, Known, HasBegun, Begun, EmptyMeta, MetaOf, NamedBy
  <1>2. Launching /\ Relaunching
    BY <1>0 DEF Init, Launching, Relaunching, Actors
  <1>3. Strays = {} /\ Due(rpc, pc) = 0
    BY DEF Init, Strays, Alive, Own, Due, Hosting, Reporting, Actors
  <1>4. Credit(ncrashes, hosts, failed) \in Nat
    BY <1>0, CreditType DEF Typed, TypeOK
  <1>5. Charged
    BY <1>3, <1>4, FS_EmptySet DEF Charged
  <1> QED BY <1>1, <1>2, <1>5 DEF LaunchInv

LEMMA LaunchInvariant == Spec => []LaunchInv
  <1>1. Typed /\ LaunchInv /\ [Next]_vars => LaunchInv'
    BY LaunchingStep, KnownStep, RelaunchingStep, ChargedStep DEF LaunchInv
  <1> QED BY <1>1, LaunchInit, TypedInvariant, PTL DEF Spec

(* However relaunches by the controller, resumes from the host, crashes    *)
(* and failures interleave: never do more orchestrators run at once than   *)
(* one and one for each crash, each resume from the host and a failed      *)
(* write.                                                                  *)
THEOREM NoneRunsUnaccounted == Spec => []OrchestratorsAccounted
  <1>1. Typed /\ LaunchInv => OrchestratorsAccounted
    <2> SUFFICES ASSUME Typed, LaunchInv PROVE OrchestratorsAccounted
      OBVIOUS
    <2>1. PICK x : Alive \subseteq Strays \cup {x}
      BY OwnRunning DEF LaunchInv
    <2>2. Strays \in SUBSET Orchs
      BY DEF Strays, Alive
    <2>3. /\ Cardinality(Alive) <= Cardinality(Strays) + 1 /\ IsFiniteSet(Alive)
          /\ Cardinality(Strays) \in Nat
      BY <2>1, <2>2, StraysBound, AliveFinite
    <2>4. Cardinality(Alive) \in Nat
      BY <2>3, FS_CardinalityType
    <2>5. Due(rpc, pc) \in Nat /\ Cardinality(Strays) + Due(rpc, pc) <= Credit(ncrashes, hosts, failed)
      BY DueType DEF LaunchInv, Charged
    <2>6. ncrashes \in Nat /\ hosts \in Nat /\ PutFailed(failed) \in Nat
      BY DEF Typed, TypeOK, PutFailed
    <2>7. Cardinality(failed \cap {"put"}) = PutFailed(failed)
      BY PutCount
    <2> QED BY <2>3, <2>4, <2>5, <2>6, <2>7 DEF Credit, OrchestratorsAccounted
  <1> QED BY <1>1, TypedInvariant, LaunchInvariant, PTL
=============================================================================
