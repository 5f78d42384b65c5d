---------------------------- MODULE Orchestrator ----------------------------
(***************************************************************************)
(* The orchestrator of a dynamic swarm and those who look after it         *)
(* (agents_on_modal/dynamic.py): the controller copies its trace to the    *)
(* volume, publishes its session in meta.json and, when asked to supervise *)
(* it, relaunches it after it has exited; somebody on the host may relaunch *)
(* it too (aom-swarm resume-orchestrator).  The rest of the controller's   *)
(* tick, which SwarmController models, shows here only in whether          *)
(* unfinished workflows are on the volume.                                 *)
(***************************************************************************)
EXTENDS Naturals, FiniteSets, Sequences

CONSTANTS
  MaxRestarts,   (* AOM_SWARM_MAX_RESTARTS                                 *)
  Cap,           (* TRACE_EVENT_CAP                                        *)
  SessionEvent,  (* the event of a trace that names the session            *)
  Faults,        (* the kinds of failure that may happen, each once        *)
  MaxEvents,     (* events of a trace                                      *)
  MaxLaunched,   (* orchestrators there are at most                        *)
  MaxCrashes,    (* the process is killed only when fewer were lost before *)
  MaxHosts,      (* resumes from the host                                  *)
  MaxTroubles    (* failures, crashes and resumes from the host together   *)

FaultKinds ==
  { "read",    \* a file of the volume reads as if it were missing
    "put",     \* a write to the volume raises
    "report",  \* so does the one that reports it
    "create",  \* creating a sandbox raises
    "start",   \* starting the run in a new sandbox raises
    "status",  \* a call to the orchestrator's sandbox raises
    "lost" }   \* a sandbox dies

ASSUME OrchestratorAssumption ==
  /\ MaxRestarts \in Nat /\ Cap \in Nat \ {0} /\ SessionEvent \in Nat \ {0}
  /\ MaxEvents \in Nat /\ MaxLaunched \in Nat \ {0}
  /\ MaxCrashes \in Nat /\ MaxHosts \in Nat /\ MaxTroubles \in Nat
  /\ Faults \subseteq FaultKinds

(* Orchestrators are numbered in the order they were launched in; 0 is no  *)
(* orchestrator, and no session.                                           *)
Orchs == 1..MaxLaunched
Actors == {"controller", "host"}

(* meta.json: whether it names the model, the orchestrator it names, and   *)
(* the one whose session it has.  A file that is missing, or reads so,     *)
(* counts as an empty one.                                                 *)
Metas == [model : BOOLEAN, orch : 0..MaxLaunched, session : 0..MaxLaunched]
EmptyMeta == [model |-> FALSE, orch |-> 0, session |-> 0]
MetaOf(o) == [model |-> TRUE, orch |-> o, session |-> 0]

VARIABLES
  (* the volume *)
  meta, durable,     (* traces/<orchestrator>.jsonl                        *)
  unfinished,        (* a workflow file says running or paused             *)
  (* the sandboxes of the orchestrators *)
  launched, run,
  written,           (* events that somebody may have seen in its trace     *)
  (* the controller *)
  pc, wroteMeta, orch, reached, offset, session, restarts,
  backoff,           (* the last relaunch is not long ago                  *)
  batch,             (* the events read in this tick                       *)
  (* resume_orchestrator, called by the controller or on the host; and the *)
  (* copy of meta.json that it, or the tail, means to change               *)
  rpc, rbox, copy,
  (* the dashboard: the orchestrators meta.json has named since its process *)
  (* began, any of which a page that is still at work may have read        *)
  pages,
  (* bookkeeping of the model *)
  failed, ncrashes, hosts,
  stale              (* a controller was started for an orchestrator that  *)
                     (* meta.json named no longer                          *)

volume  == <<meta, durable, unfinished>>
boxes   == <<launched, run, written>>
tailed  == <<orch, reached, offset, session>>
memory  == <<wroteMeta, tailed, restarts, backoff>>
resumes == <<rpc, rbox, copy>>
lives   == <<ncrashes, hosts, pages, stale>>
ghosts  == <<failed, lives>>
vars    == <<volume, boxes, pc, memory, batch, resumes, ghosts>>

Troubles == Cardinality(failed) + ncrashes + hosts

Fault(kind) ==
  /\ kind \in Faults \ failed /\ Troubles < MaxTroubles
  /\ failed' = failed \cup {kind}

-----------------------------------------------------------------------------
(* meta.json is overwritten, and from now on a page may read it.           *)
NamedBy(m) == IF m.model THEN {m.orch} ELSE {}

Publish(m) == meta' = m /\ pages' = pages \cup NamedBy(m)

(* DynamicSwarm.launch has started the first orchestrator and written      *)
(* meta.json, or failed to, which it does not mind; its controller starts. *)
Init ==
  /\ \/ meta = MetaOf(1) /\ failed = {}
     \/ meta = EmptyMeta /\ failed = {"put"} \cap Faults /\ failed # {}
  /\ durable = [o \in Orchs |-> <<>>] /\ unfinished = FALSE
  /\ launched = 1
  /\ run = [o \in Orchs |-> IF o = 1 THEN "running" ELSE "none"]
  /\ written = [o \in Orchs |-> 0]
  /\ pc = "idle" /\ wroteMeta = FALSE /\ orch = 1 /\ reached = FALSE
  /\ offset = 0 /\ session = FALSE /\ restarts = 0 /\ backoff = FALSE
  /\ batch = <<>>
  /\ rpc = [a \in Actors |-> "none"] /\ rbox = [a \in Actors |-> 0]
  /\ copy = [a \in Actors |-> EmptyMeta]
  /\ ncrashes = 0 /\ hosts = 0
  /\ pages = NamedBy(meta) /\ stale = FALSE

-----------------------------------------------------------------------------
(* The run of an orchestrator ends.  Its trace grows until then, and by a  *)
(* last line after it; how far it has grown is settled when it is read,    *)
(* for nobody can tell before.                                             *)
Terminal(o) == run[o] = "over"

RunEnds(o) ==
  /\ run[o] = "running"
  /\ run' = [run EXCEPT ![o] = "over"]
  /\ UNCHANGED <<volume, launched, written, pc, memory, batch, resumes, ghosts>>

BoxLost(o) ==
  /\ run[o] \in {"running", "over"}
  /\ Fault("lost")
  /\ run' = [run EXCEPT ![o] = "gone"]
  /\ UNCHANGED <<volume, launched, written, pc, memory, batch, resumes,
                 lives>>

WorkflowsChange ==
  /\ unfinished' = ~unfinished
  /\ UNCHANGED <<meta, durable, boxes, pc, memory, batch, resumes, ghosts>>

-----------------------------------------------------------------------------
(* tick: the first one of a process writes meta.json afresh.               *)
(* A failure that the tick does not catch ends it.                         *)
EndTick(kind) ==
  /\ Fault(kind)
  /\ pc' = "report" /\ batch' = <<>>
  /\ UNCHANGED <<volume, boxes, lives>>

WriteMeta ==
  /\ pc = "idle" /\ ~wroteMeta
  /\ Publish(MetaOf(orch))
  /\ wroteMeta' = TRUE /\ pc' = "tail"
  /\ UNCHANGED <<durable, unfinished, boxes, tailed, restarts, backoff, batch,
                 resumes, failed, ncrashes, hosts, stale>>

WriteMetaFails ==
  /\ pc = "idle" /\ ~wroteMeta
  /\ EndTick("put")
  /\ UNCHANGED <<memory, resumes>>

NextTick ==
  /\ pc = "idle" /\ wroteMeta
  /\ pc' = "tail"
  /\ UNCHANGED <<volume, boxes, memory, batch, resumes, ghosts>>

-----------------------------------------------------------------------------
(* _tail_orchestrator: the sandbox is looked up once, and the events since *)
(* the offset are read.                                                    *)
NamesSession(events) == \E i \in DOMAIN events : events[i] = SessionEvent

Events(from, to) == [i \in 1..(to - from) |-> from + i]

TailRead ==
  /\ pc = "tail" /\ orch # 0 /\ run[orch] # "gone"
  /\ reached' = TRUE
  /\ \E n \in written[orch]..MaxEvents :
       /\ written' = [written EXCEPT ![orch] = n]
       /\ batch' = Events(offset, n) /\ offset' = n
  /\ pc' = IF batch' = <<>> THEN "supervise"
           ELSE IF ~session /\ NamesSession(batch') THEN "discover" ELSE "append"
  /\ UNCHANGED <<volume, launched, run, wroteMeta, orch, session, restarts, backoff,
                 resumes, ghosts>>

(* No orchestrator to look at, one that is gone, or a call that raises.    *)
TailNothing ==
  /\ pc = "tail"
  /\ \/ orch = 0 /\ UNCHANGED <<reached, failed>>
     \/ orch # 0 /\ run[orch] = "gone" /\ UNCHANGED <<reached, failed>>
     \/ orch # 0 /\ run[orch] # "gone" /\ Fault("status") /\ reached' \in {reached, TRUE}
  /\ pc' = "supervise"
  /\ UNCHANGED <<volume, boxes, wroteMeta, orch, offset, session, restarts,
                 backoff, batch, resumes, lives>>

(* _discover_orchestrator_session: the session is remembered, and put into *)
(* the meta.json that was read, unless it is there.                        *)
Discover ==
  /\ pc = "discover"
  /\ session' = TRUE
  /\ \/ copy' = [copy EXCEPT !["controller"] = meta] /\ UNCHANGED failed
     \/ copy' = [copy EXCEPT !["controller"] = EmptyMeta] /\ Fault("read")
  /\ pc' = IF copy'["controller"].session = orch THEN "append" ELSE "publish"
  /\ UNCHANGED <<volume, boxes, wroteMeta, orch, reached, offset, restarts,
                 backoff, batch, rpc, rbox, lives>>

PublishSession ==
  /\ pc = "publish"
  /\ \/ /\ Publish([copy["controller"] EXCEPT !.session = orch])
        /\ UNCHANGED failed
     \/ UNCHANGED <<meta, pages>> /\ Fault("put")
  /\ pc' = "append"
  /\ copy' = [copy EXCEPT !["controller"] = EmptyMeta]
  /\ UNCHANGED <<durable, unfinished, boxes, memory, batch, rpc, rbox,
                 ncrashes, hosts, stale>>

(* _append_events: the file is read, the events are added, and the newest  *)
(* Cap of them are written back.                                           *)
(* (mutant: the oldest)                                                    *)
Oldest(s) == SubSeq(s, 1, IF Len(s) > Cap THEN Cap ELSE Len(s))

Newest(s) == SubSeq(s, IF Len(s) > Cap THEN Len(s) - Cap + 1 ELSE 1, Len(s))

AppendEvents ==
  /\ pc = "append"
  /\ \/ durable' = [durable EXCEPT ![orch] = Newest(@ \o batch)] /\ UNCHANGED failed
     \/ durable' = [durable EXCEPT ![orch] = Newest(batch)] /\ Fault("read")
  /\ pc' = "supervise" /\ batch' = <<>>
  /\ UNCHANGED <<meta, unfinished, boxes, memory, resumes, lives>>

AppendFails ==
  /\ pc = "append"
  /\ EndTick("put")
  /\ UNCHANGED <<memory, resumes>>

-----------------------------------------------------------------------------
(* _supervise_orchestrator: an orchestrator that was reached, whose status *)
(* reads terminal while workflows are unfinished, is relaunched, unless it *)
(* was too often or too short a time ago.                                  *)
(* (mutant: whatever its status)                                           *)
ExitedOrNot(o) == run[o] # "gone"

Exited(o) == Terminal(o)

(* (mutant: one too few)                                                   *)
MayRelaunchOneLess == restarts + 1 < MaxRestarts /\ ~backoff

MayRelaunch == restarts < MaxRestarts /\ ~backoff

RelaunchDue ==
  orch # 0 /\ reached /\ Exited(orch) /\ unfinished /\ MayRelaunch

BeginRelaunch ==
  /\ pc = "supervise" /\ RelaunchDue
  /\ backoff' = TRUE
  /\ pc' = "relaunch" /\ rpc' = [rpc EXCEPT !["controller"] = "read"]
  /\ UNCHANGED <<volume, boxes, wroteMeta, tailed, restarts, batch, rbox, copy,
                 ghosts>>

LeaveAlone ==
  /\ pc = "supervise" /\ ~RelaunchDue
  /\ pc' = "idle"
  /\ UNCHANGED <<volume, boxes, memory, batch, resumes, ghosts>>

(* The status cannot be read, or the workflow files read as missing.       *)
SuperviseBlind ==
  /\ pc = "supervise" /\ orch # 0 /\ reached
  /\ \/ Fault("status")
     \/ Exited(orch) /\ unfinished /\ Fault("read")
  /\ pc' = "idle"
  /\ UNCHANGED <<volume, boxes, memory, batch, resumes, lives>>

BackoffElapses ==
  /\ backoff
  /\ backoff' = FALSE
  /\ UNCHANGED <<volume, boxes, pc, wroteMeta, tailed, restarts, batch, resumes,
                 ghosts>>

(* The relaunch worked: the new orchestrator takes the place of the old    *)
(* one, from the beginning of its trace.  supervisor.json is written last. *)
Adopt ==
  /\ pc = "relaunch" /\ rpc["controller"] = "ok"
  /\ restarts' = restarts + 1
  /\ orch' = rbox["controller"] /\ reached' = FALSE /\ offset' = 0
  /\ session' = FALSE
  /\ rpc' = [rpc EXCEPT !["controller"] = "none"]
  /\ rbox' = [rbox EXCEPT !["controller"] = 0]
  /\ UNCHANGED copy
  /\ \/ /\ pc' = "idle"
        /\ UNCHANGED <<volume, boxes, batch, ghosts>>
     \/ EndTick("put")
  /\ UNCHANGED <<wroteMeta, backoff>>

(* It raised, which is recorded in supervisor.json.                        *)
RelaunchFailed ==
  /\ pc = "relaunch" /\ rpc["controller"] = "failed"
  /\ rpc' = [rpc EXCEPT !["controller"] = "none"]
  /\ UNCHANGED <<rbox, copy>>
  /\ \/ /\ pc' = "idle"
        /\ UNCHANGED <<volume, boxes, batch, ghosts>>
     \/ EndTick("put")
  /\ UNCHANGED memory

-----------------------------------------------------------------------------
(* resume_orchestrator, step by step, by either actor.                     *)
Leave(a, outcome) ==
  /\ rpc' = [rpc EXCEPT ![a] = IF a = "host" THEN "none" ELSE outcome]
  /\ copy' = [copy EXCEPT ![a] = EmptyMeta]

Fails(a) == Leave(a, "failed") /\ rbox' = [rbox EXCEPT ![a] = 0]

(* meta.json is read; without a model in it nothing can be resumed.        *)
ResumeRead(a) ==
  /\ rpc[a] = "read"
  /\ \/ /\ meta.model
        /\ copy' = [copy EXCEPT ![a] = meta]
        /\ rpc' = [rpc EXCEPT ![a] = "create"]
        /\ UNCHANGED <<rbox, failed>>
     \/ ~meta.model /\ Fails(a) /\ UNCHANGED failed
     \/ meta.model /\ Fails(a) /\ Fault("read")
  /\ UNCHANGED <<volume, boxes, pc, memory, batch, lives>>

ResumeCreate(a) ==
  /\ rpc[a] = "create"
  /\ \/ /\ launched < MaxLaunched
        /\ launched' = launched + 1
        /\ run' = [run EXCEPT ![launched'] = "created"]
        /\ rbox' = [rbox EXCEPT ![a] = launched']
        /\ rpc' = [rpc EXCEPT ![a] = "start"]
        /\ UNCHANGED <<copy, failed>>
     \/ Fails(a) /\ Fault("create") /\ UNCHANGED <<launched, run>>
  /\ UNCHANGED <<volume, written, pc, memory, batch, lives>>

ResumeStart(a) ==
  /\ rpc[a] = "start"
  /\ \/ /\ run' = [run EXCEPT ![rbox[a]] = "running"]
        /\ rpc' = [rpc EXCEPT ![a] = "write"]
        /\ UNCHANGED <<rbox, copy, failed>>
     \/ Fails(a) /\ Fault("start") /\ UNCHANGED run
  /\ UNCHANGED <<volume, launched, written, pc, memory, batch, lives>>

(* The meta.json that was read is written back with the new orchestrator   *)
(* in it and without a session.                                            *)
Resumed(m, o) == [m EXCEPT !.orch = o, !.session = 0]

ResumeWrite(a) ==
  /\ rpc[a] = "write"
  /\ \/ /\ Publish(Resumed(copy[a], rbox[a]))
        /\ Leave(a, "ok")
        /\ rbox' = [rbox EXCEPT ![a] = IF a = "host" THEN 0 ELSE @]
        /\ UNCHANGED failed
     \/ Fails(a) /\ Fault("put") /\ UNCHANGED <<meta, pages>>
  /\ UNCHANGED <<durable, unfinished, boxes, pc, memory, batch, ncrashes, hosts,
                 stale>>

(* Somebody on the host resumes the swarm; nothing asks whether the        *)
(* orchestrator that meta.json names is still running.                     *)
HostResumes ==
  /\ rpc["host"] = "none"
  /\ hosts < MaxHosts /\ Troubles < MaxTroubles
  /\ hosts' = hosts + 1
  /\ rpc' = [rpc EXCEPT !["host"] = "read"]
  /\ UNCHANGED <<volume, boxes, pc, memory, batch, rbox, copy, failed, ncrashes,
                 pages, stale>>

-----------------------------------------------------------------------------
(* run_forever's handler, and the end of the controller.                   *)
ReportError ==
  /\ pc = "report"
  /\ pc' = "idle"
  /\ UNCHANGED <<volume, boxes, memory, batch, resumes, ghosts>>

LoseController ==
  /\ pc' = "down" /\ wroteMeta' = FALSE /\ orch' = 0 /\ reached' = FALSE
  /\ offset' = 0 /\ session' = FALSE /\ restarts' = 0 /\ backoff' = FALSE
  /\ batch' = <<>>
  /\ rpc' = [rpc EXCEPT !["controller"] = "none"]
  /\ rbox' = [rbox EXCEPT !["controller"] = 0]
  /\ copy' = [copy EXCEPT !["controller"] = EmptyMeta]
  /\ UNCHANGED <<volume, boxes, hosts, stale>>

ReportFails ==
  /\ pc = "report"
  /\ Fault("report")
  /\ LoseController
  /\ UNCHANGED <<ncrashes, pages>>

Crash ==
  /\ pc # "down" /\ ncrashes < MaxCrashes /\ Troubles < MaxTroubles
  /\ ncrashes' = ncrashes + 1
  /\ LoseController
  /\ pages' = NamedBy(meta)
  /\ UNCHANGED failed

(* A page of the dashboard that is polled reads meta.json first, and then  *)
(* looks whether a controller is alive.  One that finds none starts it for *)
(* the orchestrator it has read, which may have been replaced since: by    *)
(* the controller of this very process, which then died.                   *)
(* (mutant: for the orchestrator the swarm was launched with)              *)
RestartAsLaunched(o) ==
  /\ pc = "down" /\ o \in pages
  /\ pc' = "idle" /\ orch' = 1
  /\ stale' = (stale \/ o # meta.orch)
  /\ UNCHANGED <<volume, boxes, wroteMeta, reached, offset, session, restarts,
                 backoff, batch, resumes, failed, ncrashes, hosts, pages>>

Restart(o) ==
  /\ pc = "down" /\ o \in pages
  /\ pc' = "idle" /\ orch' = o
  /\ stale' = (stale \/ o # meta.orch)
  /\ UNCHANGED <<volume, boxes, wroteMeta, reached, offset, session, restarts,
                 backoff, batch, resumes, failed, ncrashes, hosts, pages>>

-----------------------------------------------------------------------------
Resume(a) == ResumeRead(a) \/ ResumeCreate(a) \/ ResumeStart(a) \/ ResumeWrite(a)

Controller ==
  \/ WriteMeta \/ WriteMetaFails \/ NextTick
  \/ TailRead \/ TailNothing \/ Discover \/ PublishSession
  \/ AppendEvents \/ AppendFails
  \/ BeginRelaunch \/ LeaveAlone \/ SuperviseBlind \/ Adopt \/ RelaunchFailed
  \/ Resume("controller") \/ ReportError \/ ReportFails

Next ==
  \/ Controller \/ BackoffElapses \/ Crash
  \/ HostResumes \/ Resume("host")
  \/ \E o \in Orchs : RunEnds(o) \/ BoxLost(o) \/ Restart(o)
  \/ WorkflowsChange

Spec == Init /\ [][Next]_vars

(* The controller keeps ticking, and time passes.                          *)
FairSpec == Spec /\ WF_vars(Controller) /\ WF_vars(BackoffElapses)

-----------------------------------------------------------------------------
(* Properties.                                                             *)

(* Every variable keeps to its type.                                       *)
VolumeOK == meta \in Metas /\ durable \in [Orchs -> Seq(Nat)]
BoxesOK ==
  /\ launched \in Orchs /\ written \in [Orchs -> Nat]
  /\ run \in [Orchs -> {"none", "created", "running", "over", "gone"}]
FlagsOK ==
  {unfinished, wroteMeta, reached, session, backoff, stale} \subseteq BOOLEAN
ControllerOK ==
  /\ pc \in {"idle", "tail", "discover", "publish", "append", "supervise",
             "relaunch", "report", "down"}
  /\ orch \in 0..MaxLaunched /\ offset \in Nat /\ batch \in Seq(Nat)
  /\ restarts \in 0..MaxRestarts
ResumesOK ==
  /\ rpc \in [Actors -> {"none", "read", "create", "start", "write", "ok", "failed"}]
  /\ rbox \in [Actors -> 0..MaxLaunched] /\ copy \in [Actors -> Metas]
TypeOK ==
  /\ VolumeOK /\ BoxesOK /\ FlagsOK /\ ControllerOK /\ ResumesOK
  /\ failed \subseteq Faults /\ ncrashes \in Nat /\ hosts \in Nat
  /\ pages \subseteq 0..MaxLaunched

(* Two orchestrators of a swarm run at once only when something explains   *)
(* it: a crash, a resume from the host, or a meta.json that could not be   *)
(* written, each explaining one.  Supervision alone never doubles one.     *)
Alive == {o \in Orchs : run[o] = "running"}
OrchestratorsAccounted ==
  Cardinality(Alive) <= 1 + ncrashes + hosts + Cardinality(failed \cap {"put"})

(* What the controller has read of the trace is what its copy on the       *)
(* volume ends with, in order and without a gap, as far as the cap goes:   *)
(* after restarts, which read it again, and relaunches too.                *)
CopyIsCurrent ==
  pc \notin {"discover", "publish", "append"} /\ failed \cap {"read", "put"} = {}
    /\ orch # 0
  => LET n == IF offset < Cap THEN offset ELSE Cap
         d == durable[orch]
     IN  /\ Len(d) >= n
         /\ \A i \in 1..n : d[Len(d) - n + i] = offset - n + i

(* While nobody resumes it from the host, meta.json can be read, and no    *)
(* page starts a controller from what it read before the last relaunch,    *)
(* the orchestrator it names is never replaced by an older one, although   *)
(* it is read, changed and written back in separate steps, and read again  *)
(* by a process that is started anew.                                      *)
MetaNeverRollsBack ==
  [][hosts = 0 /\ "read" \notin failed' /\ ~stale
       => meta'.orch >= meta.orch]_vars

(* Under the same conditions the session in meta.json is that of the       *)
(* orchestrator it names.                                                  *)
SessionIsOfOrchestrator ==
  hosts = 0 /\ "read" \notin failed /\ ~stale
    => meta.session \in {0, meta.orch}

(* An orchestrator that exited while work is left is relaunched, if the    *)
(* controller that looks after it lives on and has relaunches left, and    *)
(* neither its sandbox nor meta.json was lost.                             *)
Deserted == orch # 0 /\ Terminal(orch) /\ unfinished /\ restarts < MaxRestarts
Relaunched ==
  Deserted ~> ~Deserted \/ pc = "down" \/ failed \cap {"read", "lost"} # {}
=============================================================================
