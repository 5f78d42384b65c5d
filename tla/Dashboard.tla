------------------------------ MODULE Dashboard ------------------------------
(***************************************************************************)
(* The dashboard of a dynamic swarm (examples/swarm/server.py): its HTTP   *)
(* threads, asked about the swarm, see to it that a controller runs in     *)
(* their process.  Several dashboards may serve one swarm, each may be     *)
(* killed and started again, and the controllers that were started work on *)
(* the same volume.  Of the swarm there is one request; SwarmController    *)
(* has the rest of it, TraceView the traces.                               *)
(***************************************************************************)
EXTENDS Naturals, Sequences

CONSTANTS
  Dashboards,     (* processes that serve the swarm                        *)
  Browsers,       (* pages open on it                                      *)
  At,             (* the dashboard each page talks to                      *)
  Nobody,         (* no thread                                             *)
  MaxControllers, (* controllers are started only up to this number        *)
  Faults,         (* the kinds of failure that may happen                  *)
  MaxFaults,
  MaxCrashes

ASSUME DashboardAssumption ==
  /\ At \in [Browsers -> Dashboards] /\ Nobody \notin Browsers
  /\ MaxControllers \in Nat /\ MaxFaults \in Nat /\ MaxCrashes \in Nat
  /\ Faults \subseteq { "endpoint",  \* the endpoint of the model is not found
                        "put",       \* a write to the volume raises
                        "read" }     \* a file of the volume reads as missing

Controllers == 1..MaxControllers
NoController == 0

VARIABLES
  (* the volume, /shared/_swarm *)
  meta,      (* meta.json: none, whole, or with a session and no model     *)
  handled,   (* handled/<id>.json of the request is there                  *)
  (* the dashboards *)
  launched,  (* the swarm was spawned                                      *)
  entry,     (* _controllers[swarm] of each process                        *)
  lock,      (* who holds _controllers_lock of each process                *)
  ask,       (* where the thread of each page's request is                 *)
  (* the controllers' threads *)
  home,      (* the process each one runs in                               *)
  cpc,       (* where it is                                                *)
  met,       (* those whose memory has the request                         *)
  told,      (* those that found a session to write to meta.json          *)
  (* bookkeeping of the model *)
  ran,       (* how often the controllers of a process ran the request     *)
  misread,   (* how often the marker was there and read as missing         *)
  nfaults, ncrashes

volume  == <<meta, handled>>
threads == <<launched, entry, lock, ask>>
drivers == <<home, cpc, met, told>>
ghosts  == <<ran, misread, nfaults, ncrashes>>
vars    == <<volume, threads, drivers, ghosts>>

Alive(c) == c # NoController /\ cpc[c] # "dead"

Init ==
  /\ meta = "none" /\ handled = FALSE
  /\ launched = FALSE
  /\ entry = [d \in Dashboards |-> NoController]
  /\ lock = [d \in Dashboards |-> Nobody]
  /\ ask = [b \in Browsers |-> "idle"]
  /\ home = <<>> /\ cpc = <<>> /\ met = {} /\ told = {}
  /\ ran = [d \in Dashboards |-> 0] /\ misread = 0 /\ nfaults = 0 /\ ncrashes = 0

Fault(kind) ==
  /\ kind \in Faults /\ nfaults < MaxFaults
  /\ nfaults' = nfaults + 1
  /\ UNCHANGED <<ran, misread, ncrashes>>

-----------------------------------------------------------------------------
(* POST /api/spawn: DynamicSwarm.launch writes meta.json best effort; the  *)
(* thread goes on to start a controller.                                   *)
Spawn(b) ==
  /\ ~launched /\ ask[b] = "idle"
  /\ launched' = TRUE
  /\ ask' = [ask EXCEPT ![b] = "ensure"]
  /\ \/ meta' = "whole" /\ UNCHANGED ghosts
     \/ Fault("put") /\ UNCHANGED meta
  /\ UNCHANGED <<handled, entry, lock, drivers>>

(* GET /api/agents: when meta.json names a model a controller is seen to.  *)
(* Without the file the swarm is taken for a naive one, whose live         *)
(* sandboxes are listed; without the model nothing is driven.  The file is *)
(* read twice, and the second reading decides: it never goes away again.   *)
ReadMeta(b) ==
  /\ launched /\ ask[b] = "idle" /\ meta = "whole"
  /\ ask' = [ask EXCEPT ![b] = "ensure"]
  /\ UNCHANGED <<volume, launched, entry, lock, drivers, ghosts>>

ReadNoMeta(b) ==
  /\ launched /\ ask[b] = "idle"
  /\ \/ meta # "whole" /\ UNCHANGED ghosts
     \/ meta = "whole" /\ Fault("read")
  /\ UNCHANGED <<volume, threads, drivers>>

(* _ensure_controller: with the lock of the process, unless the controller *)
(* that was started here is alive ...                                      *)
(* (mutant: there is no lock)                                              *)
LockNothing(b) ==
  /\ ask[b] = "ensure"
  /\ ask' = [ask EXCEPT ![b] = "check"]
  /\ UNCHANGED <<volume, launched, entry, lock, drivers, ghosts>>

Lock(b) ==
  /\ ask[b] = "ensure" /\ lock[At[b]] = Nobody
  /\ lock' = [lock EXCEPT ![At[b]] = b]
  /\ ask' = [ask EXCEPT ![b] = "check"]
  /\ UNCHANGED <<volume, launched, entry, drivers, ghosts>>

Unlock(b) == lock' = [lock EXCEPT ![At[b]] = IF @ = b THEN Nobody ELSE @]

(* (mutant: one that was started counts, alive or not)                     *)
FoundStarted(b) == entry[At[b]] # NoController

Found(b) == Alive(entry[At[b]])

CheckEntry(b) ==
  /\ ask[b] = "check"
  /\ IF Found(b) THEN ask' = [ask EXCEPT ![b] = "idle"] /\ Unlock(b)
                 ELSE ask' = [ask EXCEPT ![b] = "build"] /\ UNCHANGED lock
  /\ UNCHANGED <<volume, launched, entry, drivers, ghosts>>

(* ... one is built and started.                                           *)
StartController(b) ==
  /\ ask[b] = "build" /\ Len(cpc) < MaxControllers
  /\ home' = Append(home, At[b])
  /\ cpc' = Append(cpc, "boot")
  /\ entry' = [entry EXCEPT ![At[b]] = Len(cpc')]
  /\ ask' = [ask EXCEPT ![b] = "idle"]
  /\ Unlock(b)
  /\ UNCHANGED <<volume, launched, met, told, ghosts>>

(* The endpoint is not found: the agents are listed all the same.          *)
NoEndpoint(b) ==
  /\ ask[b] = "build"
  /\ Fault("endpoint")
  /\ ask' = [ask EXCEPT ![b] = "idle"]
  /\ Unlock(b)
  /\ UNCHANGED <<volume, launched, entry, drivers>>

-----------------------------------------------------------------------------
(* A controller's thread, run_forever, as far as it concerns the request.  *)

Reached(c, label) == c \in DOMAIN cpc /\ cpc[c] = label
Goto(c, label) == cpc' = [cpc EXCEPT ![c] = label]

(* With its thread the memory of a controller is gone.                     *)
Forget(dead) == met' = met \ dead /\ told' = told \ dead

(* A write raises and ends the tick.                                       *)
PutFails(c) == Fault("put") /\ Goto(c, "report") /\ UNCHANGED <<volume, home>>

WriteMeta(c) ==
  /\ Reached(c, "boot")
  /\ \/ /\ meta' = "whole" /\ Goto(c, "tick")
        /\ UNCHANGED <<handled, home, ghosts>>
     \/ PutFails(c)
  /\ UNCHANGED <<met, told, threads>>

(* The marker of a request this controller does not know yet.              *)
CheckMarker(c) ==
  /\ Reached(c, "tick") /\ c \notin met
  /\ \/ handled /\ met' = met \cup {c} /\ UNCHANGED <<cpc, ghosts>>
     \/ ~handled /\ Goto(c, "claim") /\ UNCHANGED <<met, ghosts>>
     \/ /\ handled /\ "read" \in Faults /\ nfaults < MaxFaults
        /\ nfaults' = nfaults + 1 /\ misread' = misread + 1
        /\ Goto(c, "claim") /\ UNCHANGED <<met, ran, ncrashes>>
  /\ UNCHANGED <<volume, threads, home, told>>

(* It is remembered, then marked, then executed: the agent is started.     *)
Claim(c) ==
  /\ Reached(c, "claim")
  /\ met' = met \cup {c}
  /\ \/ /\ handled' = TRUE /\ Goto(c, "execute")
        /\ UNCHANGED <<meta, home, ghosts>>
     \/ PutFails(c)
  /\ UNCHANGED <<threads, told>>

Execute(c) ==
  /\ Reached(c, "execute")
  /\ ran' = [ran EXCEPT ![home[c]] = @ + 1]
  /\ Goto(c, "tick")
  /\ UNCHANGED <<volume, threads, home, met, told, misread, nfaults, ncrashes>>

(* It finds the session of the orchestrator in its trace, once, and puts   *)
(* it into meta.json: the file is read and written back.  A read that      *)
(* fails counts as an empty file; one that succeeds writes back what there *)
(* was, which can only undo such a loss, and is left out.                  *)
MissMeta(c) ==
  /\ Reached(c, "tick") /\ c \notin told
  /\ Fault("read")
  /\ told' = told \cup {c} /\ Goto(c, "session")
  /\ UNCHANGED <<volume, threads, home, met>>

(* The error of the write is swallowed, and the session not written again. *)
PutSession(c) ==
  /\ Reached(c, "session")
  /\ Goto(c, "tick")
  /\ \/ meta' = "bare" /\ UNCHANGED ghosts
     \/ UNCHANGED meta /\ Fault("put")
  /\ UNCHANGED <<handled, threads, home, met, told>>

(* run_forever reports the tick that failed; when that write fails as well *)
(* the thread is over.  A controller that failed to write meta.json writes *)
(* it again.                                                               *)
Report(c) ==
  /\ Reached(c, "report")
  /\ \/ /\ Goto(c, IF c \in met THEN "tick" ELSE "boot")
        /\ UNCHANGED <<met, told, ghosts>>
     \/ Fault("put") /\ Goto(c, "dead") /\ Forget({c})
  /\ UNCHANGED <<volume, threads, home>>

-----------------------------------------------------------------------------
(* A dashboard is killed and started again: its controllers and its        *)
(* threads are gone, the pages go on asking.                               *)
Crash(d) ==
  /\ ncrashes < MaxCrashes /\ ncrashes' = ncrashes + 1
  /\ entry' = [entry EXCEPT ![d] = NoController]
  /\ lock' = [lock EXCEPT ![d] = Nobody]
  /\ cpc' = [c \in DOMAIN cpc |-> IF home[c] = d THEN "dead" ELSE cpc[c]]
  /\ Forget({c \in DOMAIN cpc : home[c] = d})
  /\ ask' = [b \in Browsers |-> IF At[b] = d THEN "idle" ELSE ask[b]]
  /\ UNCHANGED <<volume, launched, home, ran, misread, nfaults>>

-----------------------------------------------------------------------------
Refresh(b) == ReadMeta(b) \/ ReadNoMeta(b)
Ensure(b)  == Lock(b) \/ CheckEntry(b) \/ StartController(b) \/ NoEndpoint(b)
Drive(c)   ==
  \/ WriteMeta(c) \/ CheckMarker(c) \/ Claim(c) \/ Execute(c)
  \/ MissMeta(c) \/ PutSession(c) \/ Report(c)

Next ==
  \/ \E b \in Browsers : Spawn(b) \/ Refresh(b) \/ Ensure(b)
  \/ \E c \in Controllers : Drive(c)
  \/ \E d \in Dashboards : Crash(d)

Spec == Init /\ [][Next]_vars

(* The pages refresh every two seconds, a thread in _ensure_controller     *)
(* goes on, and one that waits for the lock gets it in the end.  Nothing   *)
(* is assumed of the controllers' threads.                                 *)
Fairness ==
  \A b \in Browsers :
    /\ WF_vars(Refresh(b) \/ CheckEntry(b) \/ StartController(b) \/ NoEndpoint(b))
    /\ SF_vars(Lock(b))

FairSpec == Spec /\ Fairness

-----------------------------------------------------------------------------
(* Properties.                                                             *)

Places == {"boot", "tick", "claim", "execute", "session", "report", "dead"}

(* Every variable keeps to its type; an entry is a controller that was     *)
(* started in this process.                                                *)
TypeOK ==
  /\ meta \in {"none", "whole", "bare"} /\ handled \in BOOLEAN /\ launched \in BOOLEAN
  /\ entry \in [Dashboards -> Controllers \cup {NoController}]
  /\ lock \in [Dashboards -> Browsers \cup {Nobody}]
  /\ ask \in [Browsers -> {"idle", "ensure", "check", "build"}]
  /\ home \in Seq(Dashboards) /\ cpc \in Seq(Places)
  /\ Len(cpc) = Len(home) /\ Len(home) <= MaxControllers
  /\ met \subseteq DOMAIN cpc /\ told \subseteq DOMAIN cpc
  /\ \A d \in Dashboards :
        entry[d] # NoController => entry[d] <= Len(home) /\ home[entry[d]] = d
  /\ ran \in [Dashboards -> Nat] /\ misread \in Nat
  /\ nfaults \in 0..MaxFaults /\ ncrashes \in 0..MaxCrashes

(* A process executes a request at most once, through all the controllers  *)
(* it starts, and once more for each time its marker could not be read:    *)
(* its threads never start two controllers, and after a restart or the     *)
(* death of one the marker tells the next.  So as many dashboards as serve *)
(* a swarm, that often a request is executed: nothing on the volume keeps  *)
(* two of them apart between reading the marker and writing it.            *)
OncePerDashboard == \A d \in Dashboards : ran[d] <= 1 + misread

(* Somebody looking at a swarm whose meta.json names its model keeps it    *)
(* driven: when the controller's thread or its process died, a refresh     *)
(* starts another, as far as MaxControllers goes, unless a controller has  *)
(* meanwhile taken the file for empty and written the session alone.       *)
WatchedIsDriven ==
  \A d \in {At[b] : b \in Browsers} :
    meta = "whole" ~> \/ \E c \in DOMAIN cpc : Alive(c) /\ home[c] = d
                      \/ Len(cpc) = MaxControllers
                      \/ meta = "bare"
=============================================================================
