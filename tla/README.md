# Verification of agents_on_modal

TLA+ models of the agents_on_modal runtime (`src/agents_on_modal`, with the
dashboard in `src/examples/swarm`), TLC configurations that check them on small
instances, and TLAPS proofs for every instance. Line numbers are those of the
repository beside this directory.

## 1. The system

The package runs coding agents (Claude Code, Codex, dsh: the *harnesses*) in
sandboxes against a self-hosted model. Its parts, the state each keeps, and what
makes it correct:

| part | source | state | what it must get right |
|---|---|---|---|
| dynamic swarm controller | `dynamic.py` `Controller` | in memory: requests handled, workflows, their recorded runs and last states; all lost with the process | a request is executed once; stages run as waves, the agents of a stage as a bounded pool; every request is answered; an answer and a published file tell the truth |
| control plane | `dynamic.py` `ControlPlane` | files under `/shared/_swarm`: requests, ack, handled, agents, workflows, traces, outputs, meta, supervisor, controller_error | the only channel between CLI, controller and dashboard; a read that fails is "not there yet" |
| `aom-swarm` CLI | `swarmctl.py` | none | writes requests, waits for acks and for workflow files |
| orchestrator supervision, resume | `dynamic.py` 781-893, 1158-1231 | offset, session, restart count in memory; `meta.json`, `supervisor.json` | one orchestrator at a time, `meta.json` names it, bounded relaunches |
| durable traces | `dynamic.py` 768-812, 872-893 | an offset per agent in memory, a capped file on the volume | the copy is what the agent wrote, once, in order |
| dashboard | `examples/swarm/server.py`, `index.html` | controller threads by swarm id; in the page, what it shows of each trace and an offset | at most one controller of a swarm in a process, started again when it is gone; the page passes over no event |
| runner | `runner.py` | run directory: spec, status.json, trace.jsonl, cancel; in memory: session, goal state, two budgets | every run ends as its deadline, cancel or goal say, leaving no process; the final state stays |
| run client | `sandbox/base.py` `Run` | byte offset of the trace | a follower returns, and has seen everything |
| naive swarm | `swarm.py` | agents of one launch | the asked number of agents, none left behind |
| sandboxes | `sandbox/modal.py`, `docker.py`, `local.py`, `base.py` | provider objects: sandbox, token, container, network, directory | a failed create leaves nothing, what is listed is whole, a stop destroys everything |
| egress, relay, dsh auth proxy | `sandbox/net/*`, `harness/_dsh_auth_proxy.py` | open connections | a connection goes where the policy looked, its client is told what came of it, both directions of a tunnel complete and end |
| gateway streams | `gateway/anthropic.py`, `responses.py`, `chat.py`, `ir.py` | the open block, tool calls, sequence numbers | a well-formed event stream for every order of upstream deltas |
| gateway server, model container | `gateway/server.py`, `models/serve.py` | readiness latch, engine process | no request reaches an engine that cannot answer; a dead engine ends the container |
| model lifecycle, weights | `models/lifecycle.py`, `models/serve.py` `prepare` | the app and its autoscaler; files on a volume | what is committed is complete; a deployed model gets ready although the app is there before its weights |
| harnesses | `harness/*` | configuration files | command lines, parsing of native lines, the goal verdict |
| CLI, configuration, instructions | `cli.py`, `config.py`, `sandbox/instructions.py` | none | presentation |

How they interact. The orchestrator, an agent in a sandbox of its own, runs
`aom-swarm`, which writes a request file and polls for its ack. The controller, a
thread of the dashboard, polls the request files, answers them, creates sandboxes
and starts a run in each; inside the sandbox the runner drives the harness and
writes status and trace, which the controller reads back through the provider,
copies to the volume and bases its next decisions on. The CLI and the dashboard
read what the controller publishes. The dashboard starts a controller whenever it
is asked about a swarm and none is alive in its process. The harness speaks
Anthropic or Responses to the gateway, which speaks chat completions to the engine;
out of a docker sandbox it gets only through the broker, out of a Modal one through
the relay when a proxy is set. The gateway runs beside the engine in a container
that the autoscaler starts and ends.

What is hard: nothing is locked across processes, every call is remote and may
fail, an unreadable file looks like a missing one, the controller's memory dies
with the dashboard while the sandboxes live on, decisions are made on states read
some time before, and the runner is interrupted by signals, deadlines and cancels
at any instruction. `PROJECT.json` lists these hazards one by one, at their lines.

## 2. Plan

In order of importance; all of these are done:

1. `Waves` (what a swarm promises), `SwarmController` (which implements it),
   `MCSwarmController`, `SwarmControllerProofs`.
2. `Runner` with its follower; its theorems are in `HarnessProofs`.
3. `Orchestrator`: the tail of its trace, the durable copy, `meta.json` with its
   writers, supervision and host-side resume; `OrchestratorProofs`.
4. `Dashboard`: several dashboards, pages and controllers of one swarm;
   `DashboardProofs`. `TraceView`: a trace on its way to the page;
   `TraceViewProofs`.
5. `ContentStream` (what a streamed answer promises) and `GatewayStream`, which
   implements it: both encoders over the events of the engine; `HarnessProofs`.
6. `Swarm`: `Swarm.launch`, `reconnect` and `stop` over the creation of Modal
   sandboxes and their tokens; `SwarmProofs`. `Sandboxes`: the docker and the local
   kind; `SandboxesProofs`.
7. `Serving`: deploy, the weights, containers, engine and gateway;
   `ServingProofs`.
8. `Tunnel`: one connection through each of the proxies; `HarnessProofs`.

Every safety property and every refinement that a run checks is also proved
(section 13). Left, in this order:

1. Pure operators with lemmas: `clamp_max_tokens`, the reasoning rules,
   `shorten_app_name`, `parse_plan`.
2. Of the sandboxes: exec and attach, pruning of docker networks; the stop of a
   swarm from the page.
3. What the liveness properties rest on and can be proved: that a place which
   fairness must leave has a step, and a measure that the step lowers.

Composition: `SwarmController` instantiates `Waves`, `GatewayStream` instantiates
`ContentStream`; each property is then about the composition. The other modules
meet at files and calls, and each states of its neighbours only what these say:
`Dashboard` has of the controller what concerns one request, `Orchestrator` what
concerns the orchestrator, `TraceView` what concerns one agent's trace; `Serving`
ends where a request is asked of the engine, which is where `GatewayStream` begins.

## 3. SwarmController and Waves

`Waves` is the promise: plans are accepted, a task of a stage starts when every
task of the earlier stages is over and fewer than `maxConcurrent` of its stage run,
and no task starts twice.

`SwarmController` is `Controller.run_forever` with everything around it. Its
variables fall in four groups: the files on the volume, the memory of the
controller, the program counter of the tick with its loop variables, and the
sandboxes at the provider. One remote call is one action, so CLI commands, ending
runs, lost sandboxes and a killed process come between any two of them:

| actions | code |
|---|---|
| `SubmitRequest` | `swarmctl._submit_request` |
| `BeginTick`, `MetaWriteFails` | `tick` 532-553: meta.json, listing the inbox |
| `SkipRequest`, `RequestUnreadable`, `ClaimRequest`, `ClaimFails` | 553-566, `_claim`: the markers, each of which may read as missing, then the durable claim |
| `DispatchSubmit`, `DispatchPause`, `DispatchTerminate`, `DispatchResume`, `DispatchReject` | `_handle_request` and the four `_do_` methods; `_do_spawn` is the submit of a one-agent plan |
| `Ack`, `AckFails`, `AckFailsTwice` | `_ack`, and the except branch that answers with the error |
| `RefreshAgent`, `RefreshFails`, `Schedule` | `_advance`, `_refresh`, `stage_next_indices`, `active_stage_index` |
| `CreateBox`, `CreateFails`, `StartRun`, `StartFails`, `RecordAgent`, `RecordFails` | `_spawn_agent` and the assignment in `_advance` that records its result |
| `PublishWorkflow`, `PublishFails` | `_publish_workflow` |
| `ReportError`, `ReportFails` | the handler of `run_forever`; when its own write raises the thread is gone |
| `Crash`, `Restart` | the dashboard process dies; `_ensure_controller` starts an empty `Controller` |
| `RunEnds`, `BoxLost` | external: the runner, the provider |

Abstractions. Agents that ended as done, failed or timeout are `done`: the
controller does not tell them apart. A plan that `parse_plan` rejects is `<<>>`.
Prompts, efforts, schemas and traces are left out. A write is atomic (a volume
upload of one file). A start that raises has started nothing; one that raises after
the fact leaves what `StartRun` and then `RecordFails` leave, a run that is recorded
nowhere, and is covered where that is, by `controller` and the proofs that allow
failing writes. An exception that `tick` does not catch ends it, `EndTick`,
from wherever it was. Names are pairs of base and suffix, at most as many as
requests. Failures are of seven kinds, chosen and counted per run: without a bound
every property about progress is void, and most about safety hold for the failures
that a configuration names and not for the others, which is what a reader wants to
know.

Bounds: a plan of two waves with two agents and a pool of one (so that a slot is
reused and a wave waits), and in `controller_steady` a second that asks for the same
name; four or five sandboxes, as many as the tasks need and one or more for the
attempts that fail; two failures and a crash in `controller`, one failure in
`controller_steady`.

| run | question | properties |
|---|---|---|
| `controller` | a crash, any two failing writes or sandbox calls: do requests run once and pools stay bounded? | `AtMostOnce`, `RecordedPoolBound` |
| `controller_steady` | no crash, one failing read or sandbox call: do the sandboxes implement `Waves`, is what the CLI is told true, and does everything accepted end? | `ImplementsWaves`, `WaitNamedSound`, `StoppedStartsNothing`, `EveryRequestAnswered`, `AcceptedGetsDone` |
| `restart_resumes` | a sentence of the documentation that the code does not keep | section 14 |

What holds only in part, and why the runs differ:

- `AtMostOnce` needs reads that do not fail; with them, one process still executes
  a request once (`AtMostOncePerProcess`, proved), and `Dashboard` counts what each
  failing read costs.
- The sandboxes that really run can exceed the pool when a write fails:
  `_spawn_agent` publishes an agent before `_advance` records it, and when that
  write raises the run lives on unrecorded and its task is started again. What is
  recorded stays bounded (`RecordedPoolBound`), and `ImplementsWaves`, which is
  about what really runs, needs that no write fails. It is checked without crashes,
  and proved also with them unless a read can fail too (a controller that cannot
  read the marker of a request runs it again); like `RecordedPoolBound` with stops
  that are seen.
- `RecordedPoolBound` is checked and proved where a dead sandbox raises. One that
  reads as "starting" takes back what was seen of its agent, whose slot was given
  away meanwhile. It needs as well that a sandbox cannot be stopped by its name
  unnoticed while the next read of its status fails: a stop that fails is taken for
  done (`StopsAreSeen` in the proofs). TLC violates it without either.
- `EveryRequestAnswered` needs that no write fails: a claim whose write raises is
  remembered in memory only and never answered by that process.
- `WaitNamedSound` needs no crash: names are unique in memory only. It holds also
  when dead sandboxes do not raise, but read as "starting", as an error that the
  Modal layer takes for a missing file does; `controller_steady` allows both.
- `AcceptedGetsDone` needs that no sandbox is lost: the controller has no timeout
  of its own for one that answers no more.

Fairness (`controller_steady`, `restart_resumes`): the controller's thread keeps
going (`run_forever` sleeps a fixed time and loops); every run ends, because each
subagent run is given a timeout (`parse_plan` fills in a default) which the runner
enforces (`BoundedRunEnds` below); a dead controller is restarted, because the
dashboard polls `/api/agents`, whose handler calls `_ensure_controller`. Nothing is
assumed of the CLI, of failures, or of crashes.

## 4. Runner

`Runner` is the process `python -m agents_on_modal.runner` with the harness it
starts, the reader threads, the clock, a client that cancels, and a client that
follows the trace (`Run.events(follow=True)`). One action is one step of `_drive`
or `_run_subprocess` between two effects that somebody else can see: status.json,
a trace line, the child process, its registration for the signal handler.

| actions | code |
|---|---|
| `OpenStatus`, `SetupFails`, `StartDrive`, `LastWords` | `main`, the start and the final lines of `_drive` |
| `StopAtTop`, `ArgvFails`, `BeginAttempt` | the top of the loop in `_drive` |
| `Popen`, `SpawnFails`, `Register`, `Watch`, `Collect` | `_run_subprocess` |
| `Parse`, `Conclude`, `RetryCompaction`, `CountProgress` | what follows an attempt |
| `Signal`, `SignalInSetup`, `DriveRaises`, `Killed` | the signal handler, the two except branches of `main`, SIGKILL |
| `PrintLine`, `ChildExits` | external: the harness |
| `ReadLine`, `ReadLateLine` | the reader threads, before and after the three-second join |
| `DeadlinePasses`, `CancelRun`, `Follow` | time, `Run.cancel`, `Run.events` |

The write that records a failure may fail itself. `main` swallows that in its setup
(lines 490-497) and lets it end the process after the drive (504-517); either way
the harness is killed first and status.json stays what it was. `SetupFails`,
`Signal` and `DriveRaises` take both branches, and `unwritten` remembers the second;
a status write that fails inside `_drive` is one of the errors `DriveRaises` stands
for.

Abstractions. A line names the session or is a tool call never made before, or is
neither; the hash of distinct actions becomes "new or not". What the harness
reports of the goal is any of active, complete, blocked after every attempt. Exit
codes are zero or not. A follower has read to the end of the trace or not, and
what it has not read was written before the end of the run or after.

The runner is interrupted at most once. Budgets in the run are two for
no-progress and one for compaction (code: `MAX_NO_PROGRESS`,
`MAX_COMPACTION_RETRIES`), enough for each to be used up, renewed, and used up
again after the other; the proofs are for every value.

| property | meaning |
|---|---|
| `HarnessStopped` | a run that is over has no live harness, except one started but not yet registered when the runner was interrupted |
| `WedgedRunEnds` | attempts in a row with no new action never exceed the two budgets together |
| `FollowerSeesAll` | a follower that returned has seen all that was written before the end |
| `BoundedRunEnds` | a deadline or a cancel ends the run, whatever the harness does, and whoever follows it returns, unless the runner is killed, is signalled before it drives the run, or could not write how it ended; then nothing in the run directory says that the run is over |

That a terminal state is never left (it may be overwritten by another terminal one)
is `TerminalStays`, which is proved and needs no run.

Fairness: the runner's own steps, time and the follower. Nothing is assumed of the
harness: it may hang or print for ever. Deadlock is not checked here, because a
finished run stops.

## 5. Orchestrator

The orchestrator is a sandbox like any other, but nobody records it except
`meta.json`, which three hands write: `tick`, afresh from memory, once per process;
`_discover_orchestrator_session`, reading it, putting the session in and writing it
back; `resume_orchestrator`, the same with a sandbox creation of minutes in
between, called by the controller's supervisor or by `aom-swarm
resume-orchestrator` on the host. `Orchestrator` has that file, the durable trace,
the sandboxes of the successive orchestrators (numbered as launched), what the
controller remembers, and the local copy of each caller between its read and its
write. The rest of the tick, which `SwarmController` models, comes in only as
`unfinished`: whether a workflow file says running or paused.

| actions | code |
|---|---|
| `WriteMeta`, `WriteMetaFails`, `NextTick` | `tick` 535-548 |
| `TailRead`, `TailNothing` | `_tail_orchestrator` |
| `Discover`, `PublishSession` | `_discover_orchestrator_session`: the read, and the write |
| `AppendEvents`, `AppendFails` | `_append_events`; `Newest` is the cap |
| `BeginRelaunch`, `LeaveAlone`, `SuperviseBlind` | `_supervise_orchestrator` up to the relaunch |
| `ResumeRead`, `ResumeCreate`, `ResumeStart`, `ResumeWrite` | `resume_orchestrator`, for both callers |
| `Adopt`, `RelaunchFailed` | `_supervise_orchestrator` after it, with supervisor.json |
| `HostResumes` | `_cmd_resume_orchestrator`, which does not ask whether the orchestrator still runs |
| `ReportError`, `ReportFails`, `Crash` | as in `SwarmController` |
| `Publish` | every write of `meta.json`: from now on a page may read it (`DynamicSwarm.reconnect`, `server.py` 252) |
| `Restart` | `_ensure_controller`, for the orchestrator its page has read: any that `meta.json` has named since the process of the dashboard began, because a page reads before it takes the lock and looks for a living controller |
| `RunEnds`, `BoxLost`, `BackoffElapses`, `WorkflowsChange` | external: the run, the provider, time, the workflows |

Abstractions. Events are numbered, so that a gap or a wrong order shows. How long a
trace is gets settled when it is read. A start that raises includes the
installation of the CLI shim. The growth of the backoff is left out: it is over at
some time.

Bounds: one relaunch allowed, a cap of two for traces of up to two events (which
it cuts when a restarted controller appends them again), each of seven kinds of failure at most once, one crash, one resume
from the host, at most two of all these together. `MaxLaunched` is enough never to
bind.

| property | meaning |
|---|---|
| `OrchestratorsAccounted` | orchestrators alive at once are one, and one more for each crash, resume from the host or failing write |
| `CopyIsCurrent` | the durable copy ends with what was read last, up to the cap, in order, without a gap |
| `MetaNeverRollsBack` | `meta.json` never goes back to an older orchestrator |
| `Relaunched` | a dead orchestrator with work left is replaced while relaunches are left |

That the session in `meta.json` is that of the orchestrator it names,
`SessionIsOfOrchestrator`, is proved and needs no run.

What holds only in part:

- `CopyIsCurrent` needs reads and writes that do not fail. `_orch_offset` advances
  before the write, so a write that raises leaves a gap; a read that fails counts
  as an empty file, and the write that follows drops what was there. A new
  orchestrator also ends the copy of the old one: what that wrote between the tail
  and its end is not read any more.
- `MetaNeverRollsBack` and `SessionIsOfOrchestrator` except what follows after a
  page has started a controller from an outdated reading (`stale`): it read
  `meta.json`, the controller of its own process relaunched the orchestrator and
  died of an error it could not report either, and the page, coming to the lock only
  now, starts one for the orchestrator before, which the first tick writes back.
  Only a death of the thread alone leaves such a page; with the process they all go.
  They also need that nobody resumes from the host, whose write may come between the controller's read and write, and that
  `meta.json` can be read: a failing read in `_discover_orchestrator_session`
  replaces the whole file by one with nothing but a session.
- `OrchestratorsAccounted` counts the resume from the host because a running
  controller does not notice it: it holds the old orchestrator in memory and, when
  supervising, relaunches a second one.
- `Relaunched` excepts a lost sandbox (its status raises, it is never seen to have
  exited), a controller that died (it may come back to another orchestrator), and
  a `meta.json` that did not read.

Fairness: the controller keeps ticking and the backoff passes. Runs need not end.

## 6. GatewayStream and ContentStream

`ContentStream` is the promise to a harness: blocks one after the other, each
growing until it is closed, a tool call in one block only, one verdict at the end.

`GatewayStream` is one streamed answer. The engine's chunks become events
(`stream_events`), a pump task puts them in a queue (`stream_with_keepalive`), and
the writer of the protocol (`stream_sse` of Anthropic or of Responses, a choice of
the initial state) turns each into frames, which reach the harness one at a time.
The harness folds the frames into what it has seen; a frame that does not fit
breaks the stream for it, which the promise does not allow. What does not fit: a
wrong index, a delta without a block, a block within a block, anything after the
end, and for Responses, which repeats everything, a whole text that is not the sum
of its pieces or a final list that is not that of the items.

| actions | code |
|---|---|
| `SendContent`, `SendCall`, `SendFinish`, `UpstreamEnds` | `post_chunks` and `stream_events`, as driven by the engine |
| `TakeContent`, `TakeStart`, `TakeArgs`, `TakeFinish` | the branches of the loop in `stream_sse`, on the next item of the queue |
| `KeepAlive` | the timeout of the wait for the queue |
| `EndBody`, `Flush`, `Conclude`, `Fail` | after the loop: closing, the buffered tool calls, the verdict; the except branch |
| `Yield` | one frame goes to the harness |
| `GoAway`, `CancelPump` | the harness closes; the generators are closed and with them the pump |

Abstractions. An event is its kind and its place, so that a lost, doubled or moved
piece shows. Frames that always come together are one frame (`message_start` and
its ping, `output_item.added` and `content_part.added`). A refusal is treated like
an answer cut for its length: both are told apart from a whole one. `args` and
`done` are kept for both protocols; Anthropic does not emit `done`. Between two
frames nothing but the queue changes under the writer, so the frames of one event
are computed at once and yielded one by one. A custom tool call of Responses,
decoded, is a call like others. Usage counts are left out.

Bounds: four events (five, when a fragment both starts a call and has arguments)
over text, reasoning and two tool calls, at most one chunk ahead of the writer,
which only adds to the queue what does not depend on it.

| property | meaning |
|---|---|
| `KeepsPromise` | what the harness sees implements `ContentStream` |
| `VerdictIsTrue` | a harness that is told an ordinary end has got everything, in order; an engine that failed is never an ordinary end, and a cut answer without tool calls is told as cut |
| `BothSidesEnd` | once the engine is through, or the harness gone, the harness is told, unless it went away, and the pump ends |

What holds only in part:

- `VerdictIsTrue` excepts the arguments of a call that Anthropic streams when text or
  reasoning follows its start: the text closes the block, and arguments that come
  later are collected (`anthropic.py` 314) and never emitted, because the flush
  skips the streamed call.
- It says nothing of an answer with a tool call that was cut:
  `_stop_reason` looks at the tool calls first and reports `tool_use`.
- An engine whose stream ends without a finish reason counts as through.

Fairness: the event loop runs the writer and closes a dropped generator. Nothing
is assumed of the engine. A finished stream stops, so deadlock is not checked.

## 7. Swarm

`Swarm.launch` starts one agent in each of a number of Modal sandboxes, from a pool
of threads, each with retries; `ModalSandbox.create` mints a token for each sandbox
first. Later the handle that launch returned, or one that `Swarm.reconnect` builds
from what Modal lists, is used to stop the swarm. `Swarm` has, at the provider, the
sandboxes, their tokens and which got their run; what each thread is at; how far
the collection of results has come; and one handle in use at a time.

| actions | code |
|---|---|
| `TakeAgent` | the pool of `launch`, at most `Workers` at a time, in order |
| `LookUp`, `LookUpFails` | `ModalSandbox.create`: app and image |
| `Mint`, `TokenId` | the token, and its id as `create` and the tags know it; without one the sandbox uses that of the endpoint |
| `ProxyRejected` | `parse_proxy` raises on a malformed URL |
| `Make`, `MakeFails`, `Release` | `modal.Sandbox.create` and its except branch, which deletes the token |
| `WakeUp` | the sleep between two attempts in `_launch_one` |
| `Prepare`, `StartRelay`, `Start`, `StepFails` | `_prepare_shared`, `_start_relay`, `Sandbox.start`; what they raise is no `SandboxError`, so neither retried nor rolled back |
| `Collect`, `CollectFails`, `Raise` | `list(pool.map(...))`: the first failure, in order, cancels what has not begun, and the end of the `with` waits for the rest |
| `UseLaunched`, `Reconnect`, `Reconnected`, `ReconnectFails` | how somebody comes by a handle; `reconnect` asks each sandbox for its runs and raises if one is gone |
| `Terminate`, `Delete`, `Stopped` | `Swarm.stop` over `ModalSandbox.stop`, after which the handle no longer knows the token, deleted or not (`cleared`) |
| `Die`, `StopperDies`, `Expire` | external: the launching process, the process that stops the swarm, the lifetime of a sandbox |

Abstractions. A sandbox is an agent and an attempt, since each attempt takes a new
id. Deploying the model comes before any of this and is left out. The questions of
`reconnect` are asked together, the order of a stop is free. A `mint`
that raises may have made a token, which nobody knows then. A stop may die at every
step of it, and with it, when it used the handle of `launch`, that handle. Eleven
kinds of trouble may happen, most of them where the code makes a call; those the code swallows are remembered in `excused`
with the sandbox they happened to, so that a property can say exactly what each
may cost, for that sandbox and no other.

Bounds: two agents, two threads, two attempts, two troubles of any kinds, two stops,
any proxy: enough for a failure in each of two threads, in each attempt of one, or
in the launch and again in its stop.

| property | meaning |
|---|---|
| `LaunchKeepsCount` | a launch that returns has as many running agents as asked for, each in its sandbox, and no other sandbox lives but one whose creation raised late |
| `TokenAccounted` | a token that lives has its sandbox, is in somebody's hands, or was lost to a named failure |
| `StopsAll` | reconnecting after a launch, however it went, and stopping leaves nothing but what a named failure has cost |
| `LaunchEnds` | every launch returns or raises, unless its process dies |

That a launch which returned, raised or died makes nothing more, `LaunchIsOver`, is
proved and needs no run.

What holds only in part:

- A failed launch stops nothing: its other agents run on until somebody reconnects
  and stops them. That is why `StopsAll` is about a stop after the launch; one
  during it misses what is made later.
- Tokens are lost when the call that mints them raises after the fact, when deleting
  them fails once, when the tags of a listed sandbox cannot be read, when a sandbox
  ends by itself (it is listed no more), when the process dies between minting and
  creating, when the one that stops the swarm dies between terminating a sandbox and
  deleting its token, and when the URL of the proxy is malformed, which is noticed
  after the token was minted.

Fairness: the threads run and calls to Modal return. Nobody has to stop a swarm. A
launch that is over stops, so deadlock is not checked.

## 8. Dashboard

`Dashboard` has several processes of `examples/swarm/server.py` that serve one
swarm, pages open on them, the controllers they start, and one request on the
volume. Each page's HTTP thread is at some place of `_ensure_controller`, each
controller at some place of its tick.

| actions | code |
|---|---|
| `Spawn` | `_spawn`: `DynamicSwarm.launch`, whose `meta.json` is best effort |
| `ReadMeta`, `ReadNoMeta` | `/api/agents`: with a `meta.json` that names a model a controller is seen to (`if ds.model`), without the model nothing is, without the file the swarm is taken for a naive one |
| `Lock`, `CheckEntry`, `StartController`, `NoEndpoint` | `_ensure_controller` under `_controllers_lock` |
| `WriteMeta`, `CheckMarker`, `Claim`, `Execute`, `Report` | a controller's thread, `run_forever`, `tick` and `_claim`, as far as they concern the request |
| `MissMeta`, `PutSession` | `_discover_orchestrator_session`, once in a controller: `meta.json` is read, and written back with the session; a failing read is taken for an empty file |
| `Crash` | a dashboard is killed and started again; its pages ask on |

Abstractions. The rest of the tick is `SwarmController`. An entry in
`_controllers` is never removed, so one number per process stands for it. What the
page does with the answer is left out.

Bounds: two dashboards, two pages on the first and one on the second, three
controllers (a second in a process, and one in each), two failures of three kinds,
one crash.

| property | meaning |
|---|---|
| `OncePerDashboard` | a process executes a request once through all controllers it starts, and once more only for each time its marker was there and could not be read |
| `WatchedIsDriven` | in every dashboard somebody looks at: while `meta.json` names the model, the pages keep a controller alive, as far as `MaxControllers` goes, until a controller writes the file without its model |

What holds only in part: two dashboards execute a request twice when both read the
marker before either writes it; the property counts per process because nothing on
the volume keeps processes apart. `WatchedIsDriven` begins with `meta.json`: when
launch could not write it and the controller that would write it dies before its
first tick, every refresh takes the swarm for a naive one for ever. It ends when a
controller, having found the session of the orchestrator, reads `meta.json`, fails
and puts the session alone in its place: the file is there, every page polls, and
nobody starts a controller again (a living one never repairs it, since it writes
the model at its first tick only).

Fairness: pages refresh and threads in `_ensure_controller` go on (weak), and one
that waits for the lock gets it in the end (strong, since others take it in between). Nothing
is assumed of the controllers' threads.

## 9. TraceView

One agent's trace, from the runner to the page. The live trace is read by byte
offset; the durable copy as a whole, and then the offset of the answer is a number
of events. The page keeps whichever it was told and hands it back.

| actions | code |
|---|---|
| `WriteEvent`, `RunEnds`, `BoxGone` | the agent |
| `Refresh`, `PublishTrace`, `AppendEvents`, `PublishAgent`, and after them `NextTick` | `_refresh`, `_publish_trace`, `_append_events`, `_publish_agent`: once in `_spawn_agent`, then by `_advance`'s loop over the recorded runs |
| `AfterRaise` | a write raises: out of `_spawn_agent` the run is never recorded (`dynamic.py` 699, 739-741), later the next tick tries again |
| `Crash` | the dashboard with its controller dies; requests it has not answered fail |
| `ListAgent` | the page learns of agent and run from `agents/<id>.json` |
| `AskEvents`, `SelectAgent` | `pollSelected` by the timer and by a click, each with the offset of now and whatever request is in flight |
| `ReadLive`, `ReadState` | `_events_payload`, first half: the trace, then the state |
| `LiveFails`, `NoCopy`, `ReadCopy`, `ReadRecord` | the fall back to the copy |
| `AppendToView`, `ReplaceView` | what the page does with a reply, at any time after it was made |

Abstractions. Every event has the same number of bytes. The cap of the copy is in
`Orchestrator` and not here. Of what the page shows the set is kept, not how often
an event is repeated. A state that is not terminal is "running".

Bounds: two events of two bytes (so that an offset that counts events falls in
the middle of a line), two requests in flight, one failing read or write of three
kinds; that the sandbox goes and that the dashboard dies comes on top.

| property | meaning |
|---|---|
| `NothingSkipped` | what lies before the offset the page asks from was shown, or was lost on the way to the copy, unless a live reply was added to a copy the page was shown since it was asked for |
| `CopyCatchesUp` | the copy of a run that is over becomes whole, also when the read at its end failed, while sandbox, controller and volume allow it and the controller has recorded the run |
| `ViewSettles` | the page of an agent recorded as over, with a copy, comes to rest |

What holds only in part. Two requests may be in flight, since neither the timer nor
a click waits for an answer. When one is answered live and the other, whose reading
failed, from a copy that lags behind, and the page gets the copy first, it is left
with the copy, the later events of the live reply and the offset after them: what
lay in between is passed over until it is shown a copy again. That is the one way
(`overtaken`); live replies in any order pass over nothing, they repeat events.
Lost is what a failing append had in hand (the offset had moved on), what the copy
had when a read of it failed, and what a dying controller had read; no later
controller takes the agent up. When a write raises in the first refresh, which is
part of starting the agent, the controller does not know the run (it starts
another agent in its place, see `SwarmController`) and never copies its trace
again. Events are shown twice after a live read failed once, since the offset of
the copy, a small number, is then taken for bytes. The last events may be missing
from a page that was told `done`: the trace is read before the state.

Fairness: the controller ticks while it lives, the page asks by its timer, and
requests are answered (of two in flight, some one). The sandbox and the run owe
nothing. An agent that is over and read stops, so deadlock is not checked.

## 10. Sandboxes

`DockerSandbox` and `LocalSandbox`, with the two processes that can have to do with
one: the maker, which creates it, writes a run's spec, spawns its runner and waits;
and another, which finds it with `list` or `get`. Either may stop it.

| actions | code |
|---|---|
| `BuildImage` | `ensure_image`, base and derived stage |
| `CreateStep`, `CreateFails`, `Undone` | `DockerSandbox.create`: two networks, broker, connection, address, agent, one docker command each (`docker run` in two steps, the container is created and then started), and its rollback |
| `CreateLocal`, `CreateLocalFails` | `LocalSandbox.create` |
| `MakerDies` | killed or interrupted; `except Exception` does not roll back |
| `Look`, `Get` | `list`, `get` of both kinds, one docker command a step |
| `Stop`, `Remove`, `RemoveHangs` | `stop` and the rollback, one removal a step |
| `Put`, `Chown`, `Spawn`, `Wait` | `write_file`, `spawn`, and `Run.wait` of `base.py` |
| `RunnerStep`, `RunnerDies`, `Exit` | external: the runner, its death in a container that stays up, containers that end |

Abstractions. A docker command happens, fails without effect, or fails after its
effect (a container that was created and did not start; a timeout). A network is
not removed while a running container is on it. Ids are unique and images are
shared by all.

Bounds: one sandbox and two processes; each of eight kinds of failure once, in any
combination.

| property | meaning |
|---|---|
| `RolledBack` | a docker create that raises leaves nothing |
| `HandleIsWhole` | what `list` or `get` gives to another process has all its parts, and its containers run, but for an agent that the maker is just starting or died before starting |
| `StopDestroys` | a stop that returned has destroyed everything, whoever else stops at the same time |
| `WaiterReturns` | `Run.wait` returns |

What holds only in part, beyond commands that fail after their effect and removals
that fail: `get` asks whether the agent's container is there, not whether it runs
(docker.py:331), so between the two halves of the last `docker run` it gives away a
sandbox that does not run yet, for good when the maker dies there, and one that is
rolled back but for that container when the start fails; the local create rolls
nothing back; a local stop does not end a runner,
whose writes may keep the home from being removed; `WaiterReturns` excepts an
unchecked chown that failed, a container that is gone, both of which read as a run
that is still starting, and a runner that ended without writing how, killed or
unable to (section 4): `Run.wait` looks at status.json alone.

Fairness: a process in a call goes on with it, a harness comes to an end. Nobody
has to stop. A sandbox that is gone stops, so deadlock is not checked.

## 11. Serving

A model behind its endpoint. `deploy` puts the app there with its autoscaler
settings and then calls `prepare`, the CPU function that fetches the weights onto a
volume. The autoscaler starts GPU containers, each with an engine and a gateway
that latches once the engine could be reached. The volume is what prepare sees
(`disk`), what others see once it is committed (`saved`), and what each container
saw when it started (`view`).

| actions | code |
|---|---|
| `Deploy`, `DeployFails`, `CallPrepare` | `lifecycle.deploy`: `_modal_deploy`, `_run_prepare` |
| `PinRevision`, `Scan`, `FetchFile`, `FetchEnds`, `LinkBase`, `Verify`, `Commit`, `PrepareRaises` | `prepare` in `models/serve.py`, by its phases |
| `PrepareLost`, `BackgroundCommit`, `NewRevision` | external: the container, the volume's own saving, the repository |
| `StartContainer`, `Retire` | the autoscaler, and `startup` |
| `EngineBinds`, `EngineLoads`, `EngineFails` | the engine: sglang listens when it can serve, llama-server while it loads; either dies, or hangs before it listens or after |
| `WatchEngine`, `GatewayCrashes`, `Shutdown` | `_watch_engine`, `_run_gateway`, `shutdown` |
| `Scale` | `lifecycle.scale` and `stop` |
| `Send`, `Arrive`, `Forward`, `GiveUp`, `Answer` | a request: Modal's routing, `_ensure_engine_ready` with its deadline, the engine's answer |
| `WaitReady`, `Health`, `PollEnds` | `wait_ready`, `/health` and `_probe_engine` |

Abstractions. A file is its content, contents have sizes, and prepare compares
sizes. A tree can be loaded if it is complete for some revision. Passing of time
is a choice: a request that cannot connect may give up.

Bounds: two revisions of two files, the configuration changed within its size, the
other in size; a base volume that has the first; one deployer (called again and
again), one container, one request, either engine, one failure of nine kinds. One
failure is one per behaviour, at any of its steps; `CommittedIsComplete` and
`LatchIsLive` are proved for any number.

| property | meaning |
|---|---|
| `CommittedIsComplete` | what the last prepare that returned has committed is complete, in names and sizes, for the revision it pinned, until the middle of a later prepare is saved over it |
| `LatchIsLive` | with sglang, a request reaches only an engine that has loaded, and the latch does not outlive its container |
| `RequestIsOver` | every request is answered, refused or dropped, as long as the app may have a container, except one passed on to an engine that hangs while it listens |
| `DeployedServes` | once prepare has returned the endpoint gets ready, although containers may have started before and failed: `wait_ready` needs its deadline only for an engine that hangs |

What holds only in part: `LatchIsLive` is about the engine that binds its port when
it can serve; with llama-server a TCP connect succeeds while it loads, and the
latch then answers `/health` too (section 14). The deadline of a request covers
the wait for the engine only: once it is passed on the gateway waits without limit
(gateway/server.py:269), and so does `RequestIsOver`, with an engine that keeps its
port and no longer answers. Files of a new revision that keep
their size are not fetched again: complete is complete in sizes.

Fairness: processes run, Modal starts containers, and routes a request also when
the containers it could go to come and go (strong). None for callers, failures or
the deadline of `wait_ready`. Deadlock is not checked: everybody may be done.

## 12. Tunnel

One connection through one of five listeners: the broker's forward proxy and its
model proxy (`egress.py`), the relay's HTTP and SOCKS listeners (`relay.py`), and
the loopback proxy of dsh (`_dsh_auth_proxy.py`), direct or through an upstream
proxy (`proxy.py`). A listener, a proxy, a request and the answers of the name
service are fixed or chosen freely at the start.

| actions | code |
|---|---|
| `NoHead`, `Resolve`, `AcceptHead` | the head of each handler; `Policy.resolve` for the forward proxy |
| `Dial`, `DialFails`, `Shake`, `ShakeFails` | `open_connection` and the HTTP and SOCKS exchange |
| `Reply`, `ReplyFails` | the 200 or the forwarded head, and its drain |
| `ReadChunk`, `ReadEnd`, `ReadIdle`, `WriteChunk` | `pipe`, once in each direction |
| `CloseTunnel` | `splice` and the finally clauses |
| `DnsChanges`, `SendChunk`, `SendEof`, `Reset`, `Stall` | external: the name service and the two ends |

Abstractions. An address is where it leads, with what an IPv6 transition address
has inside. Parsing is abstracted to what is accepted; of the oddities that get
through it, a port over 65535 and a name that has no encoding are kept (`ask.odd`),
since the exchange with the upstream proxy stumbles over them. Several connections share
nothing but the policy, so one is modelled.

Bounds: one chunk each way, one failure of seven kinds, four answers of the name
service: none, a private address, one hidden in a 6to4 address, and a public one
behind two that are not.

| property | meaning |
|---|---|
| `DialsWhatItChecked` | the broker goes to the very address the policy let through, which is public inside and outside, however the name's answer changes |
| `NoUpstreamLeft` | a handler that ended has closed its socket to the remote end, also when the exchange failed half way |
| `Answered` | whichever listener it asked, a client whose request was understood (`reply` is `owed` from then on) is told what came of it, once |
| `DirectionCompletes` | what an end sent before its end of file arrives, and then the end of file does, whatever becomes of the other direction |
| `TunnelEnds` | a tunnel is closed when both ends are done, lost or silent |

What holds only in part: `NoUpstreamLeft` excepts an end that is lost between the
connection and the `try` that splices (`egress.py` 103 and 133, `relay.py` 104 and
132), whose socket is left to garbage collection. `Answered` excepts what
no except clause of the handlers answers: an end lost in that same drain; an
upstream proxy that hangs up in the exchange (`IncompleteReadError`) or answers a
CONNECT without end (`LimitOverrunError`, `proxy.py` 125); a port over 65535
(`OverflowError`, `proxy.py` 148), which the relay's HTTP listener lets through to a
SOCKS proxy while the broker's policy refuses it; a name that cannot be encoded, for
which the SOCKS listener has no `ValueError` clause; and the second status line of
dsh's proxy in a response that broke off.
`TunnelEnds` excepts an end that stops reading: drain has no timeout.
`DirectionCompletes` is without the end of file for the model's TLS connection,
which cannot be half closed.

Fairness: the event loop runs what can run, time passes. The ends owe nothing.

## 13. Proofs

For every value of the constants that the named assumptions allow. Hypotheses of a
theorem are in its ASSUME; each hypothesis on what may fail is one that TLC shows to
be needed, by violating the property in a run without it. All invariants were
checked by TLC on the instances of the runs before they were proved.

`SwarmControllerProofs`. `Steady` says that one process drives the swarm and can
write: no crash and no failing write, everything else may fail. `Lasting` says less:
no failing write, and crashes only where no read fails. `StopsAreSeen` says
that where a sandbox can be stopped by its name and that stop can fail, reading a
status does not.
- `TypeCorrect`: `Spec => []TypeOK`. Inductive with what each program point says of
  the loop variables (a name exists where one is acked, a task and a sandbox where
  one is started).
- `RequestsRunOnce`: `AtMostOnce` when `"read"` is not among the failures. Not
  inductive alone: a request is counted at its dispatch, so the invariant adds that
  a request that was executed, or is being dispatched, is marked on the volume
  before, and that a request still to be looked at in this tick is not the one in
  hand.
- `RequestsRunOncePerProcess`: with every failure; the same argument on the memory
  of the process in place of the volume: an executed request is known to the
  process or was executed by an earlier one, and each process adds at most one.
- `AgentsArePublished`: `RecordedIsPublished`; needs that the sandbox in hand was
  created for the task in hand, and that a published file is never withdrawn.
- `RecordedPoolIsBounded` (`GoneReads = {"raises"}`, `StopsAreSeen`; crashes and
  failing writes allowed): while agents are being started, those still to start fit
  beside the recorded ones that are not over (`Scheduled`). That counts beliefs, so
  the invariant adds when these are true: an agent that is taken for over and is
  not will be refreshed before the next is scheduled (`Beliefs`). What is bounded
  inductively is the agents not both seen to be over and over (`UnsettledFit`).
- `WaitIsSound` (`Steady`, `StopsAreSeen`): a workflow is published as done when its
  last agent is believed over (`DoneIsOver`). To conclude that its agents are over
  takes that the recorded sandbox is the only one of its task (`Owned`) and that a name stands for one workflow, in its answer and in its file
  (`Naming`).
- `StopHolds` (`Steady`, no sandbox named like a workflow): a stop answered ok, or
  about to be, has paused the workflow of that name, and only a resume undoes it
  (`Pausing`); the scheduler, wherever it is, starts no agent of a paused one
  (`Scheduled`).
- `SwarmRunsInWaves`: `ImplementsWaves` (`Lasting`, `StopsAreSeen`). Step by step:
  `DispatchSubmit` is `Accept`, `StartRun` is `Start`, whatever ends or loses a run
  is `Finish`, all else stutters, a crash and a restart among it. The guard of
  `Accept` is `Fresh`: a request about to be executed has not been before, by this
  controller (what it knows) or another (the marker on the volume). The guards of
  `Start` come from `Scheduled`, `Beliefs` and `Owned` together. `Owned` cannot say
  that every run is recorded, since a new controller remembers none: it says so of
  the requests the present controller has accepted (those it has a name for), and of
  all runs that a task has one only and none before its request was accepted. That
  is enough, because a controller starts agents only of workflows it has accepted
  itself (`Accepted`).
- `SandboxesKeepToThePlan` (the same): what that refinement is good for. `Waves`
  keeps its pools and its order, and since a task has one sandbox at most, so do the
  sandboxes: those that run for a stage fit its pool, and none was started before
  the stages in front were over (`PoolsHold`, `WavesHold`).

`HarnessProofs`, about what stands between a harness and the rest. Of `Runner`:
- `RunnerTypeCorrect`, with the counters between zero and their bounds;
- `WedgedRunsEnd`: the attempts without a new action are at most the two counters
  together, whose bounds `_drive` keeps;
- `NoHarnessLeft`: the child is alive only between `Popen` and the kill or the exit
  that the loop waits for, and the state is terminal only outside of it;
- `FollowersSeeAll`: a follower in its final read has seen a terminal state, after
  which nothing is owed to it;
- `RunsStayOver`: no step that writes a non-terminal status is enabled once the
  state is terminal.

Of `Tunnel`, for any set of addresses the name service may answer with and any
number of chunks:
- `DialsOnlyTheChecked`: `checked` is set once, by `Resolve`, to what the policy let
  through, and the forward proxy dials nothing else (`Vetted`);
- `UpstreamsAreClosed`, `ClientsAreAnswered`, from what each stage of the handler
  says of its socket, of the exchange with the upstream proxy and of the answer
  (`NetPlaces`).

Of `GatewayStream`, for any number of tool calls, any number of events and any
lead of the engine over the writer:
- `StreamsKeepTheirPromise`: `KeepsPromise`, the refinement of `ContentStream`. The
  promise is about what the harness has got, the writer's variables are about what
  it has made, and frames are on the way in between. The invariant (`InStep`) is
  therefore about the harness that will have got them: at most three frames are on
  the way, each fits after those before it, and with all of them the harness agrees
  with the writer on the open block, on the number of blocks and, for Responses,
  on everything that is repeated at the end. Beside it stands that a call is started
  once and kept in order (`CallOrder`). That a frame which fits is a step of the
  promise is then a lemma about one frame.
- `HarnessIsToldTheTruth`: `VerdictIsTrue`. The arguments kept of a call are those
  taken so far, in order, except after a text has closed it (`Pieces`); the harness
  that will have got all frames has every piece of text and reasoning taken so far,
  and the arguments of the calls already handed over (`Carries`); the verdict is made
  when everything was taken (`Told`).

`OrchestratorProofs`
- `OrchestratorTypeCorrect`, with what bounds the offset (the controller has read
  what was written) and the count of relaunches;
- `SessionBelongs` and `MetaGoesForward`, from one invariant for as long as all is
  calm (no resume from the host, no failing read, no controller started from an
  outdated reading): whoever is about to write
  `meta.json` back holds what it says, a controller that has written it knows the
  orchestrator in it, and a sandbox just created is newer than that one. Neither
  property is inductive: both depend on which copies are held in the middle of a
  resume or a tail;
- `CopyStaysCurrent`: the batch in hand continues what the copy ends with. Its core
  is `NewestEnds`, that appending a continuation and cutting to the cap keeps
  exactly the newest events, for every cap;
- `NoneRunsUnaccounted`: `OrchestratorsAccounted`, with every trouble. The controller
  answers for the orchestrator it looks after and for the one it is launching; every
  other that runs is charged to a crash, a resume from the host or a failing write.
  A resume that has not started its orchestrator, and a failure not yet reported,
  are charged beforehand (`Charged`), so that no step adds a stray without the
  charge that pays for it.

`SwarmProofs`, from one invariant. Each agent's thread says which of its sandboxes
and tokens there can be; how far the launch has come says which threads are through,
so that a thread that acts contradicts a launch that is over; a handle is on a
sandbox there is or was and knows its token unless minting it raised, the tags could
not be read, or deleting it has failed before; only a launch that has returned is
stopped by its own handle, which forgets no token that could still be deleted
(`ClearedOK`); a stop of a swarm found after its launch has every living sandbox still to do, or
failed to terminate it.
- `SwarmTypeCorrect`, `TokensAccounted`;
- `LaunchStaysOver`: no thread has a step then;
- `StopLeavesNothing`: at its end nothing is to do and nothing in hand. It needs the
  invariant's clause on sandboxes that could not be terminated, whose tokens are
  deleted all the same;
- `LaunchesItsCount`: `LaunchKeepsCount`, with every trouble. A sandbox that lives
  without its creation having raised is that of its agent's present attempt, which
  nobody will repeat (`Unrepeated`); the agents of a launch that returned are
  therefore in as many sandboxes as were asked for.

`DashboardProofs`
- `DashboardTypeCorrect`, with: the controller a process has entered was started
  there;
- `RequestsRunOncePerDashboard`. Not inductive alone: the invariant says that a
  thread in `_ensure_controller` holds the lock of its process and that no entered
  controller is alive while it builds one, so that at most the entered one of a
  process is alive; that whoever executes or has executed has marked the request;
  and it counts what a process ran, and what its living controller is about to run,
  against the readings that missed the marker.

`TraceViewProofs`
- `TraceViewTypeCorrect`;
- `NothingIsSkipped`, for traces and lines of any length and any number of requests
  in flight. The invariant relates the offset to what is shown in each of its two
  meanings, and each request on its way to both: a live reply has all from the
  offset it was sent with to the one it says (`LiveReply`); what lay before the
  former is still shown, unless a copy was shown since (`StillShown`); and a copy of
  n events covers the first n bytes because a line has at least one (`CopyReply`).
  Its arithmetic is in lemmas about the line in which an offset falls.

`SandboxesProofs`, from one invariant: how far creation has come says what exists
and what of it the rollback knows; a rollback and a stop have still to remove at
least what exists; a sandbox that is finished, and one that another process looks
at, is whole while nobody stops it, but for the agent that is just being started.
- `SandboxesTypeCorrect`, `CreateLeavesNothing`, `HandlesAreWhole`, `StopsDestroy`.

`ServingProofs`, from two invariants that share the types.
- `ServingTypeCorrect`;
- `CommitsAreComplete`: between verifying and committing, the files prepare sees
  are complete for the pinned revision, and only prepare writes them;
- `LatchesAreLive`: a container that is off has no engine and no latch, a request
  that is held or asked has a container, and the end of a container takes its
  requests with it.

The proofs rest on the ASSUMEs of the modules (finite requests, well-formed plans,
`None` is neither a request nor a name nor a sandbox, budgets and bounds are natural
numbers, repositories are of known files), which TLC evaluates in every run.

Only model-checked: liveness, which is out of the prover's reach:
`EveryRequestAnswered`, `AcceptedGetsDone`, `WatchedIsDriven`, `CopyCatchesUp`,
`ViewSettles`, `BothSidesEnd`, `Relaunched`, `BoundedRunEnds`, `WaiterReturns`,
`RequestIsOver`, `DeployedServes`, `LaunchEnds`, `DirectionCompletes`, `TunnelEnds`.
`RestartResumes` does not hold (section 14).

## 14. Where the code and its documentation differ

- `restart_resumes` (the run of that name): a restarted dashboard does not resume a
  swarm in flight; its controller has no workflows and skips what was handled
  before.

Met while modelling, without a run of their own:

- `aom-swarm wait --all` can return before the agents of an accepted plan have
  started: the ack precedes the workflow file, and `--all` looks at files.
- "At most once even across a controller restart" (`dynamic.py` 554) does not
  survive a failing read of a marker file, nor two dashboards.
- A plan that runs can be acked as failed: whatever the handler raises after the
  workflow was registered is answered `ok=False` (`dynamic.py` 611).
- "A crashed or leaked sandbox never leaves a long-lived credential behind"
  (`sandbox/modal.py` 11) does not hold for one that reaches its own timeout: only
  a stop deletes its token, and nobody finds it any more.
- A goal run without a session is `done` with its goal still active.
- `docs/DESIGN.md` 61-62: `/health` is 200 only when the engine answers a real
  generation. A request that got through the TCP check sets the same latch
  (`gateway/server.py` 250), which for llama-server is before the model is loaded.
- "Prepare weights on CPU before any GPU allocates" (`lifecycle.py` 214): the app
  is deployed first, and with `min_containers` a GPU container starts before the
  weights.
- `docs/DESIGN.md` 132 calls the names of sandboxes idempotent, but every attempt
  of a launch takes a fresh `new_id`; `reconnect` orders agents by a tag `idx`
  which no sandbox is given.
- A page that read `meta.json` before a relaunch and starts a controller after the
  death of the one that made it puts the old orchestrator back
  (`examples/swarm/server.py` 252 is before the lock of 125).
- A durable copy at its cap keeps its length, and a page that compares lengths
  does not show what is new in it (`index.html` 342).

## 15. Not modelled

- exec and attach of every sandbox, pruning of docker networks, the image of a
  Modal sandbox: one call each, without lasting state of their own.
- The stop of a swarm from the page, files, presets and rendering.
- Parsing: of request heads, of protocol requests, of native lines of a harness, of
  plans; and the generation of command lines, configuration and instructions.
- The answers of the gateway that are not streamed, usage counts, reasoning rules,
  images, the token check.
- The registry of models, names of apps, engine command lines, GPU choice.
- Command-line parsing and environment (`cli.py`, `config.py`).
