------------------------------- MODULE Serving -------------------------------
(***************************************************************************)
(* A model behind its endpoint: deploy and the CPU function that fetches   *)
(* its weights (models/lifecycle.py, models/serve.py), the GPU containers  *)
(* Modal starts for it, each with an engine and a gateway, and the         *)
(* gateway's way of holding requests until the engine can be reached       *)
(* (gateway/server.py).                                                    *)
(*                                                                         *)
(* The weights are a tree of files.  A file is known by its content; two   *)
(* contents may have one size, and prepare compares sizes.  The volume is  *)
(* written by the container of prepare (disk), is seen by others once it   *)
(* is committed (saved), and each GPU container keeps the view it was      *)
(* started with.                                                           *)
(***************************************************************************)
EXTENDS Naturals, FiniteSets, Functions

CONSTANTS
    Files,        \* names of files a repository may have
    Revisions,    \* its revisions, 1..n
    Repo,         \* Repo[r]: the files of a revision, with their contents
    Root,         \* the file an engine cannot do without (config.json, a .gguf)
    Contents, Size,
    Base,         \* the base volume's files: what its repository says
    BaseDisk,     \* and what is on it
    Deployers, Containers, Requests,
    Limits,       \* the autoscaler's settings callers use, [min, max]
    Kinds,        \* engines of the model: sglang, or llamacpp, which listens while it loads
    Faults, MaxTroubles

ASSUME ServingAssumption ==
    /\ 1 \in Revisions /\ Revisions \subseteq Nat \ {0}
    /\ Root \in Files
    /\ \A r \in Revisions : DOMAIN Repo[r] \subseteq Files /\ Range(Repo[r]) \subseteq Contents
    /\ BaseDisk \in [Files -> Contents \cup {"none", "part"}]
    /\ Limits # {} /\ \A l \in Limits : l.min <= l.max
    /\ Kinds \subseteq {"sglang", "llamacpp"} /\ MaxTroubles \in Nat
    /\ Faults \subseteq {"build", "hub", "lost", "skip", "cut", "engine", "hang", "gateway", "token"}

VARIABLES
    head,       \* the newest revision of the repository
    disk,       \* the weights as prepare's container sees them
    saved,      \* the weights as a container that starts now sees them
    prep,       \* the running call of prepare: step, caller, revision, pending, reused
    lastDone,   \* revision of the last prepare that committed, 0 before
    torn,       \* saved since then from the middle of a prepare
    dpc,        \* each deployer: what deploy has got to
    limits,     \* the autoscaler's settings; max 0 when there is no app
    state,      \* each container: off, up or exiting
    view,       \* the weights it sees
    engine,     \* its engine: none, loading, bound, ready, hung, stuck or dead
    healthy,    \* its gateway's latch
    req, at,    \* each request, and the container that has it
    poll,       \* wait_ready of one caller
    kind,       \* which engine the model has
    troubles

weights    == <<head, disk, saved, prep, lastDone, torn>>
containers == <<state, view, engine, healthy>>
clients    == <<req, at, poll>>
vars       == <<weights, dpc, limits, containers, clients, kind, troubles>>

Trouble(f) == f \in Faults /\ troubles < MaxTroubles /\ troubles' = troubles + 1
Missing    == {"none", "part"}
Trees      == [Files -> Contents \cup Missing]
Idle       == [pc |-> "idle", by |-> "nobody", rev |-> 0, pending |-> {}, reused |-> {}]
NoApp      == [min |-> 0, max |-> 0]
Over       == {"ok", "failed", "unready", "dropped"}

(* A file that is there with the size of the revision's file.              *)
Sized(tree, f, content) == tree[f] \in Contents /\ Size[tree[f]] = Size[content]
Complete(tree, r) == \A f \in DOMAIN Repo[r] : Sized(tree, f, Repo[r][f])

(* The files prepare takes from the base volume: one identity in both      *)
(* repositories, and the base file there at its size.                      *)
Reusable(r) == {f \in DOMAIN Repo[r] \cap DOMAIN Base :
                   Base[f] = Repo[r][f] /\ Sized(BaseDisk, f, Base[f])}

Init ==
    /\ head = 1
    /\ disk = [f \in Files |-> "none"] /\ saved = disk
    /\ prep = Idle /\ lastDone = 0 /\ torn = FALSE
    /\ dpc = [d \in Deployers |-> "idle"] /\ limits = NoApp
    /\ state = [c \in Containers |-> "off"] /\ view = [c \in Containers |-> disk]
    /\ engine = [c \in Containers |-> "none"] /\ healthy = [c \in Containers |-> FALSE]
    /\ req = [q \in Requests |-> "out"] /\ at = [q \in Requests |-> "nowhere"]
    /\ poll = "out" /\ kind \in Kinds /\ troubles = 0

-----------------------------------------------------------------------------
(* deploy: the app first, with its autoscaler settings, then prepare; it   *)
(* may be called again.                                                    *)

Deploy(d) ==
    /\ dpc[d] \in {"idle", "returned", "failed"}
    /\ dpc' = [dpc EXCEPT ![d] = "deployed"]
    /\ limits' \in Limits
    /\ UNCHANGED <<weights, containers, clients, troubles, kind>>

(* modal deploy exits with an error: nothing is called.                     *)
DeployFails(d) ==
    /\ dpc[d] \in {"idle", "returned", "failed"} /\ Trouble("build")
    /\ dpc' = [dpc EXCEPT ![d] = "failed"]
    /\ UNCHANGED <<weights, limits, containers, clients, kind>>

(* Calls of prepare wait for its only container.                           *)
CallPrepare(d) ==
    /\ dpc[d] = "deployed" /\ prep.pc = "idle"
    /\ dpc' = [dpc EXCEPT ![d] = "preparing"]
    /\ prep' = [Idle EXCEPT !.pc = "info", !.by = d]
    /\ UNCHANGED <<head, disk, saved, lastDone, torn, limits, containers, clients, troubles, kind>>

(* The end of a call, for deploy too: it returns, or prepare's exception   *)
(* is raised again.                                                        *)
EndCall(how) ==
    /\ prep' = Idle
    /\ dpc' = IF prep.by \in Deployers THEN [dpc EXCEPT ![prep.by] = how] ELSE dpc

(* model_info pins the revision: what comes later in the call is of it.    *)
PinRevision ==
    /\ prep.pc = "info"
    /\ IF DOMAIN Repo[head] = {}
       THEN EndCall("failed")
       ELSE /\ prep' = [prep EXCEPT !.pc = "scan", !.rev = head]
            /\ UNCHANGED dpc
    /\ UNCHANGED <<head, disk, saved, lastDone, torn, limits, containers, clients, troubles, kind>>

(* Resume: only what is missing or of the wrong size is fetched again, and *)
(* its remains are removed.                                                *)
Scan ==
    /\ prep.pc = "scan"
    /\ LET reused  == Reusable(prep.rev)
           pending == {f \in DOMAIN Repo[prep.rev] \ reused :
                          ~Sized(disk, f, Repo[prep.rev][f])}
       IN  /\ prep' = [prep EXCEPT !.pc = "fetch", !.pending = pending, !.reused = reused]
           /\ disk' = [f \in Files |-> IF f \in pending THEN "none" ELSE disk[f]]
    /\ UNCHANGED <<head, saved, lastDone, torn, dpc, limits, containers, clients, troubles, kind>>

(* snapshot_download, file by file in any order.  It takes the names as    *)
(* patterns: a name it does not match is skipped; a transfer may be cut.   *)
FetchFile(f) ==
    /\ prep.pc = "fetch"
    /\ f \in prep.pending /\ disk[f] = "none"
    /\ \/ disk' = [disk EXCEPT ![f] = Repo[prep.rev][f]] /\ UNCHANGED troubles
       \/ disk' = [disk EXCEPT ![f] = "part"] /\ Trouble("cut")
    /\ UNCHANGED <<head, saved, prep, lastDone, torn, dpc, limits, containers, clients, kind>>

FetchEnds ==
    /\ prep.pc = "fetch"
    /\ \/ (\A f \in prep.pending : disk[f] # "none") /\ UNCHANGED troubles
       \/ (\E f \in prep.pending : disk[f] = "none") /\ Trouble("skip")
    /\ prep' = [prep EXCEPT !.pc = "link"]
    /\ UNCHANGED <<head, disk, saved, lastDone, torn, dpc, limits, containers, clients, kind>>

LinkBase ==
    /\ prep.pc = "link"
    /\ disk' = [f \in Files |-> IF f \in prep.reused THEN BaseDisk[f] ELSE disk[f]]
    /\ prep' = [prep EXCEPT !.pc = "verify"]
    /\ UNCHANGED <<head, saved, lastDone, torn, dpc, limits, containers, clients, troubles, kind>>

(* (mutant: only the file an engine needs is looked for)                   *)
RootIsThere == disk[Root] \in Contents

Verified == Complete(disk, prep.rev) /\ disk[Root] \in Contents

Verify ==
    /\ prep.pc = "verify"
    /\ IF Verified
       THEN prep' = [prep EXCEPT !.pc = "commit"] /\ UNCHANGED dpc
       ELSE EndCall("failed")
    /\ UNCHANGED <<head, disk, saved, lastDone, torn, limits, containers, clients, troubles, kind>>

Commit ==
    /\ prep.pc = "commit"
    /\ saved' = disk /\ lastDone' = prep.rev /\ torn' = FALSE
    /\ EndCall("returned")
    /\ UNCHANGED <<head, disk, limits, containers, clients, troubles, kind>>

(* The hub fails, a name is unsafe, a directory is in the way: the call    *)
(* raises and the files stay as they are.                                  *)
PrepareRaises ==
    /\ prep.pc \in {"info", "scan", "fetch", "link"} /\ Trouble("hub")
    /\ EndCall("failed")
    /\ UNCHANGED <<head, disk, saved, lastDone, torn, limits, containers, clients, kind>>

(* The container of prepare is lost: what was not saved is gone.           *)
PrepareLost ==
    /\ prep.pc # "idle" /\ Trouble("lost")
    /\ disk' = saved
    /\ EndCall("failed")
    /\ UNCHANGED <<head, saved, lastDone, torn, limits, containers, clients, kind>>

(* Modal saves a volume in the background too, in the middle of anything.  *)
BackgroundCommit ==
    /\ disk # saved
    /\ saved' = disk /\ torn' = TRUE
    /\ UNCHANGED <<head, disk, prep, lastDone, dpc, limits, containers, clients, troubles, kind>>

NewRevision ==
    /\ head + 1 \in Revisions
    /\ head' = head + 1
    /\ UNCHANGED <<disk, saved, prep, lastDone, torn, dpc, limits, containers, clients, troubles, kind>>

-----------------------------------------------------------------------------
(* The autoscaler: containers for the requests that wait for one, and the  *)
(* minimum, up to the maximum.                                             *)

NotOff   == {c \in Containers : state[c] # "off"}
Waiting  == {q \in Requests : req[q] = "sent"}
Demanded == \/ Cardinality(NotOff) < limits.min
            \/ (\A c \in Containers : state[c] # "up") /\ (Waiting # {} \/ poll = "polling")

(* startup: the engine's process, the thread that watches it and the       *)
(* gateway's; launch_argv raises when it finds nothing to load.            *)
StartContainer(c) ==
    /\ state[c] = "off" /\ Demanded /\ Cardinality(NotOff) < limits.max
    /\ view' = [view EXCEPT ![c] = saved]
    /\ state' = [state EXCEPT ![c] = "up"]
    /\ engine' = [engine EXCEPT ![c] = "loading"]
    /\ healthy' = [healthy EXCEPT ![c] = FALSE]
    /\ UNCHANGED <<weights, dpc, limits, clients, troubles, kind>>

Loadable(tree) == \E r \in Revisions : Complete(tree, r)

EngineBinds(c) ==
    /\ kind = "llamacpp" /\ engine[c] = "loading"
    /\ engine' = [engine EXCEPT ![c] = "bound"]
    /\ UNCHANGED <<weights, dpc, limits, state, view, healthy, clients, troubles, kind>>

EngineLoads(c) ==
    /\ engine[c] = (IF kind = "llamacpp" THEN "bound" ELSE "loading")
    /\ engine' = [engine EXCEPT ![c] = IF Loadable(view[c]) THEN "ready" ELSE "dead"]
    /\ UNCHANGED <<weights, dpc, limits, state, view, healthy, clients, troubles, kind>>

(* It dies, or hangs: before it listens (hung), or with its port bound,    *)
(* which goes on accepting connections (stuck).                            *)
Listens(c) == engine[c] \in {"bound", "ready"}

EngineFails(c) ==
    /\ engine[c] = "loading" \/ Listens(c)
    /\ \/ Trouble("engine") /\ engine' = [engine EXCEPT ![c] = "dead"]
       \/ /\ Trouble("hang")
          /\ engine' = [engine EXCEPT ![c] = IF Listens(c) THEN "stuck" ELSE "hung"]
    /\ UNCHANGED <<weights, dpc, limits, state, view, healthy, clients, kind>>

(* The process of a container is over, and with it the requests it has.    *)
ContainerGone(c) ==
    /\ state' = [state EXCEPT ![c] = "off"]
    /\ engine' = [engine EXCEPT ![c] = "none"]
    /\ healthy' = [healthy EXCEPT ![c] = FALSE]
    /\ req' = [q \in Requests |-> IF at[q] = c /\ req[q] \notin Over THEN "dropped" ELSE req[q]]
    /\ UNCHANGED <<view, at, poll>>

(* _watch_engine: a container does not survive its engine.                 *)
(* (mutant: the engine is started again in the same container)             *)
RestartEngine(c) ==
    /\ state[c] # "off" /\ engine[c] = "dead"
    /\ engine' = [engine EXCEPT ![c] = "loading"]
    /\ UNCHANGED <<weights, dpc, limits, state, view, healthy, clients, kind, troubles>>

(* (mutant: nobody watches the engine)                                     *)
NobodyWatches(c) == FALSE /\ UNCHANGED vars

WatchEngine(c) ==
    /\ state[c] # "off" /\ engine[c] = "dead"
    /\ ContainerGone(c)
    /\ UNCHANGED <<weights, dpc, limits, troubles, kind>>

(* _run_gateway: nor its gateway.                                          *)
GatewayCrashes(c) ==
    /\ state[c] = "up" /\ Trouble("gateway")
    /\ ContainerGone(c)
    /\ UNCHANGED <<weights, dpc, limits, kind>>

(* Modal takes an idle container, or one too many, down; shutdown ends the *)
(* engine, which gets 20 seconds.                                          *)
Idling(c) == \A q \in Requests : at[q] = c => req[q] \in Over

Retire(c) ==
    /\ state[c] = "up"
    /\ \/ Idling(c) /\ Cardinality(NotOff) > limits.min /\ poll # "polling" /\ Waiting = {}
       \/ Cardinality(NotOff) > limits.max
    /\ state' = [state EXCEPT ![c] = "exiting"]
    /\ UNCHANGED <<weights, dpc, limits, view, engine, healthy, clients, troubles, kind>>

Shutdown(c) ==
    /\ state[c] = "exiting"
    /\ ContainerGone(c)
    /\ UNCHANGED <<weights, dpc, limits, troubles, kind>>

(* scale and stop.                                                         *)
Scale ==
    /\ limits # NoApp
    /\ limits' \in Limits \cup {NoApp}
    /\ limits' # limits
    /\ UNCHANGED <<weights, dpc, containers, clients, troubles, kind>>

-----------------------------------------------------------------------------
(* Requests and health polls.                                              *)

Send(q) ==
    /\ req[q] = "out" /\ limits.max > 0
    /\ req' = [req EXCEPT ![q] = "sent"]
    /\ UNCHANGED <<weights, dpc, limits, containers, at, poll, troubles, kind>>

(* Modal routes a request to a container whose gateway listens.            *)
Arrive(q, c) ==
    /\ req[q] = "sent" /\ state[c] = "up"
    /\ req' = [req EXCEPT ![q] = "held"] /\ at' = [at EXCEPT ![q] = c]
    /\ UNCHANGED <<weights, dpc, limits, containers, poll, troubles, kind>>

Connectable(c) == Listens(c) \/ engine[c] = "stuck"

(* _ensure_engine_ready: the latch, or a connect that succeeds and sets it. *)
Forward(q) ==
    /\ req[q] = "held"
    /\ healthy[at[q]] \/ Connectable(at[q])
    /\ healthy' = [healthy EXCEPT ![at[q]] = TRUE]
    /\ req' = [req EXCEPT ![q] = "asked"]
    /\ UNCHANGED <<weights, dpc, limits, state, view, engine, at, poll, troubles, kind>>

(* A connect fails and the deadline of the request has passed: 503.        *)
(* (mutant: no deadline)                                                   *)
HoldForEver(q) == FALSE /\ UNCHANGED vars

GiveUp(q) ==
    /\ req[q] = "held"
    /\ ~healthy[at[q]] /\ ~Connectable(at[q])
    /\ req' = [req EXCEPT ![q] = "unready"]
    /\ UNCHANGED <<weights, dpc, limits, containers, at, poll, troubles, kind>>

(* The engine's answer: an error unless it has loaded.  One that hangs     *)
(* gives none, and the gateway's session has no timeout.                   *)
Unanswered(q) == req[q] = "asked" /\ engine[at[q]] = "stuck"

Answer(q) ==
    /\ req[q] = "asked" /\ ~Unanswered(q)
    /\ req' = [req EXCEPT ![q] = IF engine[at[q]] = "ready" THEN "ok" ELSE "failed"]
    /\ UNCHANGED <<weights, dpc, limits, containers, at, poll, troubles, kind>>

WaitReady ==
    /\ poll = "out" /\ \E d \in Deployers : dpc[d] = "returned"
    /\ poll' = "polling"
    /\ UNCHANGED <<weights, dpc, limits, containers, req, at, troubles, kind>>

(* The gateway's own probe, one generated token.                           *)
Generates(c) == engine[c] = "ready"

(* /health: the latch, or a generated token, which sets it.                *)
Health(c) ==
    /\ poll = "polling" /\ state[c] = "up"
    /\ healthy[c] \/ Generates(c)
    /\ healthy' = [healthy EXCEPT ![c] = TRUE]
    /\ poll' = "ready"
    /\ UNCHANGED <<weights, dpc, limits, state, view, engine, req, at, troubles, kind>>

(* wait_ready gives up at its deadline, or at once on a rejected token.    *)
PollEnds ==
    /\ poll = "polling"
    /\ \/ poll' = "late" /\ UNCHANGED troubles
       \/ poll' = "rejected" /\ Trouble("token")
    /\ UNCHANGED <<weights, dpc, limits, containers, req, at, kind>>

-----------------------------------------------------------------------------
PrepareStep == PinRevision \/ Scan \/ (\E f \in Files : FetchFile(f)) \/ FetchEnds
               \/ LinkBase \/ Verify \/ Commit
ContainerStep(c) == EngineBinds(c) \/ EngineLoads(c) \/ WatchEngine(c) \/ Shutdown(c)
RequestStep(q) == Forward(q) \/ GiveUp(q) \/ Answer(q)

Next ==
    \/ \E d \in Deployers : Deploy(d) \/ DeployFails(d) \/ CallPrepare(d)
    \/ PrepareStep \/ PrepareRaises \/ PrepareLost \/ BackgroundCommit \/ NewRevision
    \/ \E c \in Containers : StartContainer(c) \/ ContainerStep(c) \/ EngineFails(c)
                             \/ GatewayCrashes(c) \/ Retire(c) \/ Health(c)
    \/ Scale \/ WaitReady \/ PollEnds
    \/ \E q \in Requests : Send(q) \/ RequestStep(q) \/ \E c \in Containers : Arrive(q, c)

Spec == Init /\ [][Next]_vars

(* Processes run, Modal starts containers, and routes a request also when  *)
(* the containers it could go to come and go (hence strong fairness).  No  *)
(* fairness for callers, faults, or the deadline of wait_ready.            *)
FairSpec ==
    /\ Spec
    /\ WF_vars(PrepareStep) /\ \A d \in Deployers : WF_vars(CallPrepare(d))
    /\ WF_vars(\E c \in Containers : StartContainer(c))
    /\ \A c \in Containers : WF_vars(ContainerStep(c)) /\ WF_vars(Health(c))
    /\ \A q \in Requests : /\ WF_vars(RequestStep(q))
                           /\ SF_vars(\E c \in Containers : Arrive(q, c))

-----------------------------------------------------------------------------
TypeOK ==
    /\ head \in Revisions /\ disk \in Trees /\ saved \in Trees
    /\ prep \in [pc : {"idle", "info", "scan", "fetch", "link", "verify", "commit"},
                 by : Deployers \cup {"nobody"}, rev : Revisions \cup {0},
                 pending : SUBSET Files, reused : SUBSET Files]
    /\ lastDone \in Revisions \cup {0} /\ torn \in BOOLEAN
    /\ dpc \in [Deployers -> {"idle", "deployed", "preparing", "returned", "failed"}]
    /\ limits \in Limits \cup {NoApp}
    /\ state \in [Containers -> {"off", "up", "exiting"}]
    /\ view \in [Containers -> Trees]
    /\ engine \in [Containers -> {"none", "loading", "bound", "ready", "hung", "stuck", "dead"}]
    /\ healthy \in [Containers -> BOOLEAN]
    /\ req \in [Requests -> {"out", "sent", "held", "asked"} \cup Over]
    /\ at \in [Requests -> Containers \cup {"nowhere"}]
    /\ poll \in {"out", "polling", "ready", "late", "rejected"}
    /\ kind \in Kinds /\ troubles \in 0..MaxTroubles

(* What the last prepare that returned has committed is complete for the   *)
(* revision it pinned, until the middle of a later one is saved over it.   *)
CommittedIsComplete == lastDone # 0 /\ ~torn => Complete(saved, lastDone)

(* With an engine that listens only when it can generate, no request is    *)
(* sent to one that has not loaded: the latch never outlives its engine by *)
(* more than the container's exit.                                         *)
LatchIsLive ==
    kind = "sglang" =>
        /\ \A c \in Containers : healthy[c] => engine[c] \in {"ready", "stuck", "dead"}
        /\ \A q \in Requests : req[q] = "asked" => engine[at[q]] \in {"ready", "stuck", "dead"}

(* Every request is over one day, also when its engine hangs before it     *)
(* listens, dies or is shut down, as long as the app may have a container; *)
(* but not one that was passed on to an engine that hangs while it         *)
(* listens, for which the gateway waits without limit (server.py:269).     *)
RequestIsOver ==
    <>[](limits.max > 0) =>
        \A q \in Requests : req[q] = "sent" ~> req[q] \in Over \/ Unanswered(q)

(* Containers that were started too early, on weights that are not there,  *)
(* go away: once prepare has returned, the endpoint gets ready, and        *)
(* wait_ready needs its deadline only for an engine that hangs.            *)
DeployedServes ==
    <>[](/\ lastDone # 0 /\ ~torn /\ limits.max > 0
         /\ \A c \in Containers : engine[c] \notin {"hung", "stuck"})
        => (poll = "polling" ~> poll # "polling")
=============================================================================
