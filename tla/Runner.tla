------------------------------- MODULE Runner -------------------------------
(***************************************************************************)
(* The in-sandbox run driver (agents_on_modal/runner.py): it launches the  *)
(* harness, tees what it prints into trace.jsonl, watches the deadline and *)
(* the cancel file, resumes the session of a goal run and rewrites         *)
(* status.json.  Beside it: the harness process, the threads that read its *)
(* pipes, and a client that cancels the run and follows its trace          *)
(* (sandbox/base.py, Run.cancel and Run.events).                           *)
(***************************************************************************)
EXTENDS Naturals

CONSTANTS
  MaxNoProgress,         (* MAX_NO_PROGRESS                                *)
  MaxCompactionRetries,  (* MAX_COMPACTION_RETRIES                         *)
  Interruptions          (* what may end the runner from outside: "signal" *)
                         (* SIGTERM or SIGINT, "error" an exception that   *)
                         (* _drive does not catch, "killed" the process    *)
                         (* dies                                           *)

ASSUME RunnerAssumption ==
  /\ MaxNoProgress \in Nat \ {0} /\ MaxCompactionRetries \in Nat
  /\ Interruptions \subseteq {"signal", "error", "killed"}

TerminalStates == {"done", "timeout", "failed", "cancelled"}

(* What the harness reports of the goal; active is none as well, which the *)
(* runner does not tell apart.                                             *)
GoalStates == {"active", "complete", "blocked"}

(* What a line of the harness's output is to the runner: it names the      *)
(* session, or is a tool call never made before.                           *)
Lines == {"session", "new"}

VARIABLES
  (* spec.json and the run directory *)
  goal,        (* a goal run                                               *)
  timed,       (* a deadline is set                                        *)
  expired,     (* it has passed                                            *)
  cancel,      (* the cancel file is there                                 *)
  state,       (* the state in status.json, or absent                      *)
  (* the runner *)
  pc,
  session,     (* a session id is known                                    *)
  goalState,   (* what the harness last reported of the goal               *)
  noProgress,  (* no_progress                                              *)
  retries,     (* compaction_retries                                       *)
  active,      (* the child is registered for the signal handler           *)
  reason,      (* why the child was killed: none, timeout or cancelled     *)
  lines,       (* kinds of line read from this child                       *)
  (* the harness process *)
  child,       (* none, alive or exited                                    *)
  code,        (* its exit code: 0, or 1 for any other                     *)
  pipe,        (* kinds of line printed and not read yet                   *)
  late,        (* some are read only after the runner went on              *)
  (* a client that follows the trace *)
  fpc,         (* read, check, final or ended                              *)
  unread,      (* the trace goes on beyond its offset                      *)
  owed,        (* with something written before the run ended              *)
  (* bookkeeping of the model *)
  idle,        (* attempts since one made a new tool call                  *)
  interrupted, (* none, or what ended the runner                           *)
  unwritten    (* the state it ended in could not be written               *)

spec     == <<goal, timed>>
counters == <<session, goalState, noProgress, retries, idle>>
locals   == <<counters, reason, lines>>
process  == <<child, code, pipe, late>>
follower == <<fpc, unread, owed>>
fate     == <<interrupted, unwritten>>
vars     == <<spec, expired, cancel, state, pc, locals, active,
              process, follower, fate>>

Init ==
  /\ goal \in BOOLEAN /\ timed \in BOOLEAN
  /\ expired = FALSE /\ cancel = FALSE /\ state = "absent"
  /\ pc = "setup" /\ session = FALSE /\ goalState = "active"
  /\ noProgress = 0 /\ retries = 0 /\ active = FALSE /\ reason = "none"
  /\ lines = {} /\ child = "none" /\ code = 0 /\ pipe = {} /\ late = FALSE
  /\ fpc = "read" /\ unread = FALSE /\ owed = FALSE
  /\ idle = 0 /\ interrupted = "none" /\ unwritten = FALSE

(* A line is appended to the trace.                                        *)
Emit ==
  /\ unread' = TRUE
  /\ owed' = (owed \/ state \notin TerminalStates)
  /\ UNCHANGED fpc

(* The process ends; what only its memory and its pipes hold is gone.      *)
Leave ==
  /\ pc' = "exit"
  /\ session' = FALSE /\ noProgress' = 0 /\ retries' = 0 /\ idle' = 0
  /\ reason' = "none" /\ lines' = {} /\ pipe' = {} /\ late' = FALSE
  /\ UNCHANGED <<goalState, active>>

Exit == Leave /\ UNCHANGED <<child, code>>

-----------------------------------------------------------------------------
(* main: the spec is read, status.json and the trace are opened.           *)
OpenStatus ==
  /\ pc = "setup"
  /\ state' = "starting" /\ pc' = "open"
  /\ UNCHANGED <<spec, expired, cancel, locals, active, process,
                 follower, fate>>

(* What went wrong is recorded, if status.json can be written; if not, the *)
(* runner ends without a word.                                             *)
SetupFails ==
  /\ pc \in {"setup", "open"}
  /\ \/ state' = "failed" /\ UNCHANGED unwritten
     \/ state' \in {state, "starting"} /\ unwritten' = TRUE
  /\ Exit
  /\ UNCHANGED <<spec, expired, cancel, follower, interrupted>>

StartDrive ==
  /\ pc = "open"
  /\ pc' = "top" /\ Emit
  /\ UNCHANGED <<spec, expired, cancel, state, locals, active,
                 process, fate>>

-----------------------------------------------------------------------------
(* _drive.  A return writes the final status first and then its line of    *)
(* the trace.                                                              *)
Finish(s) ==
  /\ state' = s /\ pc' = "last"
  /\ UNCHANGED <<follower, fate>>

LastWords ==
  /\ pc = "last"
  /\ Exit /\ Emit
  /\ UNCHANGED <<spec, expired, cancel, state, fate>>

(* Cancel and deadline are honoured before another attempt.                *)
StopAtTop ==
  /\ pc = "top"
  /\ \/ cancel /\ Finish("cancelled")
     \/ ~cancel /\ expired /\ Finish("timeout")
  /\ UNCHANGED <<spec, expired, cancel, locals, active, process>>

(* The harness cannot build its command line.                              *)
ArgvFails ==
  /\ pc = "top" /\ ~cancel /\ ~expired
  /\ Finish("failed")
  /\ UNCHANGED <<spec, expired, cancel, locals, active, process>>

BeginAttempt ==
  /\ pc = "top" /\ ~cancel /\ ~expired
  /\ state' = "running" /\ pc' = "popen"
  /\ Emit
  /\ UNCHANGED <<spec, expired, cancel, locals, active, process,
                 fate>>

(* _run_subprocess: the child exists before the signal handler knows it.   *)
Popen ==
  /\ pc = "popen"
  /\ child' = "alive" /\ pipe' = {} /\ pc' = "register"
  /\ UNCHANGED <<spec, expired, cancel, state, locals, active,
                 code, late, follower, fate>>

SpawnFails ==
  /\ pc = "popen"
  /\ Finish("failed")
  /\ UNCHANGED <<spec, expired, cancel, locals, active, process>>

Register ==
  /\ pc = "register"
  /\ active' = TRUE /\ pc' = "watch"
  /\ UNCHANGED <<spec, expired, cancel, state, counters, reason, lines, process,
                 follower, fate>>

(* The polling loop: a child that ended is noticed before the deadline,    *)
(* the deadline before the cancel file.  Either kills the process tree.    *)
KillTree == child' = "exited" /\ code' = 1
KillNothing == UNCHANGED <<child, code>>

(* (mutant: the loop looks for the deadline only)                          *)
StopReasonsDeadline == {r \in {"timeout"} : expired}

StopReasons == {r \in {"timeout", "cancelled"} :
                  IF expired THEN r = "timeout" ELSE r = "cancelled" /\ cancel}

(* (mutant: the tree is left alive)                                        *)
WatchLeavesChild ==
  /\ pc = "watch"
  /\ \/ child = "exited" /\ UNCHANGED reason
     \/ child = "alive" /\ reason' \in StopReasons
  /\ pc' = "collect"
  /\ UNCHANGED <<spec, expired, cancel, state, counters, active, lines, process,
                 follower, fate>>

Watch ==
  /\ pc = "watch"
  /\ \/ child = "exited" /\ UNCHANGED reason /\ KillNothing
     \/ child = "alive" /\ reason' \in StopReasons /\ KillTree
  /\ pc' = "collect"
  /\ UNCHANGED <<spec, expired, cancel, state, counters, active, lines, pipe, late,
                 follower, fate>>

(* The reader threads are joined, for three seconds: what a slow one still *)
(* has to read then reaches the trace, not the list the runner parses.     *)
Collect ==
  /\ pc = "collect"
  /\ late' = (late \/ pipe # {}) /\ pipe' = {}
  /\ active' = FALSE /\ pc' = "parse"
  /\ UNCHANGED <<spec, expired, cancel, state, counters, reason, lines, child, code,
                 follower, fate>>

(* The lines are parsed and the goal is evaluated, or its state kept when  *)
(* the evaluator raises; the exit goes to the trace and to status.json.    *)
Parse ==
  /\ pc = "parse"
  /\ session' = (session \/ "session" \in lines)
  /\ goalState' \in IF goal THEN GoalStates ELSE {"active"}
  /\ pc' = "decide" /\ Emit
  /\ UNCHANGED <<spec, expired, cancel, state, noProgress, retries, idle, active,
                 reason, lines, process, fate>>

(* _final_nongoal_state: a clean exit is done, and so is another one after *)
(* a turn that ended with a result.                                        *)
NongoalStates == IF code = 0 THEN {"done"} ELSE {"done", "failed"}

GoalEnded == goalState \in {"complete", "blocked"}

(* The outcomes that end the run, in the order the code looks for them: a  *)
(* child that was killed, a run without a goal, a goal that is over, a     *)
(* goal without a session to resume.                                       *)
Conclude ==
  /\ pc = "decide"
  /\ \/ reason # "none" /\ Finish(reason)
     \/ /\ reason = "none"
        /\ \/ goal /\ GoalEnded /\ Finish("done")
           \/ /\ ~goal \/ (~GoalEnded /\ ~session)
              /\ \E s \in NongoalStates : Finish(s)
  /\ UNCHANGED <<spec, expired, cancel, locals, active, process>>

GoesOn == pc = "decide" /\ reason = "none" /\ goal /\ ~GoalEnded /\ session

Progress == "new" \in lines
IdleAttempts == IF Progress THEN 0 ELSE idle + 1

(* An attempt whose compaction failed is retried without being counted, a  *)
(* bounded number of times.                                                *)
RetryCompaction ==
  /\ GoesOn /\ code # 0 /\ retries < MaxCompactionRetries
  /\ retries' = retries + 1 /\ idle' = IdleAttempts
  /\ lines' = {} /\ pc' = "top" /\ Emit
  /\ UNCHANGED <<spec, expired, cancel, state, session, goalState, noProgress,
                 active, reason, process, fate>>

(* The no-progress guard counts every other attempt without a new call.    *)
(* (mutant: any counted attempt renews the budget of retries)              *)
CountRenewingRetries ==
  /\ GoesOn
  /\ noProgress' = (IF Progress THEN 0 ELSE noProgress + 1)
  /\ retries' = 0
  /\ idle' = IdleAttempts /\ lines' = {}
  /\ IF noProgress' >= MaxNoProgress
     THEN Finish("done")
     ELSE pc' = "top" /\ UNCHANGED <<state, follower, fate>>
  /\ UNCHANGED <<spec, expired, cancel, session, goalState, active, reason,
                 process>>

CountProgress ==
  /\ GoesOn
  /\ noProgress' = (IF Progress THEN 0 ELSE noProgress + 1)
  /\ retries' = (IF Progress THEN 0 ELSE retries)
  /\ idle' = IdleAttempts /\ lines' = {}
  /\ IF noProgress' >= MaxNoProgress
     THEN Finish("done")
     ELSE pc' = "top" /\ UNCHANGED <<state, follower, fate>>
  /\ UNCHANGED <<spec, expired, cancel, session, goalState, active, reason,
                 process>>

-----------------------------------------------------------------------------
(* The runner is interrupted, once.  A signal or an error in _drive, which *)
(* a status.json that cannot be written is too, kills the registered child *)
(* and is recorded, over whatever state is there, or ends the process when *)
(* that cannot be written either; a signal before _drive ends it as it is. *)
Interrupt(kind) ==
  /\ kind \in Interruptions /\ interrupted = "none"
  /\ interrupted' = kind
  /\ UNCHANGED <<spec, expired, cancel, follower>>

KillActive == IF active /\ child = "alive" THEN KillTree ELSE KillNothing

Record(s) ==
  /\ state' = s /\ pc' = "last"
  /\ late' = (late \/ (active /\ pipe # {})) /\ pipe' = {}
  /\ UNCHANGED <<locals, active, unwritten>>

Break(s) ==
  /\ pc \notin {"setup", "open", "exit"}
  /\ KillActive
  /\ \/ Record(s)
     \/ Leave /\ unwritten' = TRUE /\ UNCHANGED state

Signal == Break("cancelled") /\ Interrupt("signal")

DriveRaises == Break("failed") /\ Interrupt("error")

SignalInSetup ==
  /\ pc \in {"setup", "open"}
  /\ Exit
  /\ Interrupt("signal") /\ UNCHANGED <<state, unwritten>>

Killed ==
  /\ pc # "exit"
  /\ Exit
  /\ Interrupt("killed") /\ UNCHANGED <<state, unwritten>>

-----------------------------------------------------------------------------
(* The harness prints lines and exits; a thread reads them into the trace. *)
(* What it prints when nobody will read it is of no matter.                *)
PrintLine(k) ==
  /\ child = "alive" /\ pc \in {"register", "watch"}
  /\ pipe' = pipe \cup {k}
  /\ UNCHANGED <<spec, expired, cancel, state, pc, locals, active,
                 child, code, late, follower, fate>>

ChildExits ==
  /\ child = "alive"
  /\ child' = "exited" /\ code' \in {0, 1}
  /\ UNCHANGED <<spec, expired, cancel, state, pc, locals, active,
                 pipe, late, follower, fate>>

ReadLine(k) ==
  /\ k \in pipe /\ pc \in {"watch", "collect"}
  /\ pipe' = pipe \ {k} /\ lines' = lines \cup {k}
  /\ Emit
  /\ UNCHANGED <<spec, expired, cancel, state, pc, counters, active, reason, child,
                 code, late, fate>>

ReadLateLine ==
  /\ late /\ pc # "exit"
  /\ late' = FALSE
  /\ Emit
  /\ UNCHANGED <<spec, expired, cancel, state, pc, locals, active,
                 child, code, pipe, fate>>

(* The world around: time passes, a client writes the cancel file.         *)
DeadlinePasses ==
  /\ timed /\ ~expired
  /\ expired' = TRUE
  /\ UNCHANGED <<spec, cancel, state, pc, locals, active, process,
                 follower, fate>>

CancelRun ==
  /\ ~cancel
  /\ cancel' = TRUE
  /\ UNCHANGED <<spec, expired, state, pc, locals, active, process,
                 follower, fate>>

-----------------------------------------------------------------------------
(* Run.events(follow=True): read to the end, look at the status when there *)
(* was nothing new, and read once more when the run is over.               *)
FollowRead ==
  /\ fpc = "read"
  /\ fpc' = IF unread THEN "read" ELSE "check"
  /\ unread' = FALSE /\ owed' = FALSE

(* (mutant: without the last read)                                         *)
FollowCheckAndLeave ==
  /\ fpc = "check"
  /\ fpc' = IF state \in TerminalStates THEN "ended" ELSE "read"
  /\ UNCHANGED <<unread, owed>>

FollowCheck ==
  /\ fpc = "check"
  /\ fpc' = IF state \in TerminalStates THEN "final" ELSE "read"
  /\ UNCHANGED <<unread, owed>>

FollowFinal ==
  /\ fpc = "final"
  /\ fpc' = "ended" /\ unread' = FALSE /\ owed' = FALSE

Follow ==
  /\ FollowRead \/ FollowCheck \/ FollowFinal
  /\ UNCHANGED <<spec, expired, cancel, state, pc, locals, active,
                 process, fate>>

-----------------------------------------------------------------------------
Drive ==
  \/ OpenStatus \/ SetupFails \/ StartDrive \/ LastWords
  \/ StopAtTop \/ ArgvFails \/ BeginAttempt \/ Popen \/ SpawnFails \/ Register
  \/ Watch \/ Collect \/ Parse \/ Conclude \/ RetryCompaction \/ CountProgress

Interruption == Signal \/ SignalInSetup \/ DriveRaises \/ Killed

Harness == ChildExits \/ ReadLateLine \/ \E k \in Lines : PrintLine(k) \/ ReadLine(k)

Next ==
  \/ Drive \/ Interruption \/ Harness \/ DeadlinePasses \/ CancelRun \/ Follow

Spec == Init /\ [][Next]_vars

(* The runner's process is scheduled, time passes, and a follower goes on; *)
(* nothing is assumed of the harness, which may never end or print.        *)
FairSpec ==
  /\ Spec
  /\ WF_vars(Drive) /\ WF_vars(DeadlinePasses) /\ WF_vars(Follow)

-----------------------------------------------------------------------------
(* Properties.                                                             *)

(* Every variable keeps to its type, the counters to their budgets.        *)
CountersOK ==
  /\ noProgress \in 0..MaxNoProgress /\ retries \in 0..MaxCompactionRetries
  /\ idle \in Nat

PlacesOK ==
  /\ {goal, timed, expired, cancel, session, active, late, unread, owed,
      unwritten} \subseteq BOOLEAN
  /\ state \in {"absent", "starting", "running"} \cup TerminalStates
  /\ pc \in {"setup", "open", "top", "popen", "register", "watch", "collect",
             "parse", "decide", "last", "exit"}
  /\ goalState \in GoalStates /\ reason \in {"none", "timeout", "cancelled"}
  /\ lines \subseteq Lines /\ pipe \subseteq Lines
  /\ child \in {"none", "alive", "exited"} /\ code \in {0, 1}
  /\ fpc \in {"read", "check", "final", "ended"}
  /\ interrupted \in {"none", "signal", "error", "killed"}

TypeOK == CountersOK /\ PlacesOK

(* A run that is over stays over, whatever interrupts its last steps: the  *)
(* controller has given its slot in the pool away by then.                 *)
TerminalStays ==
  [][(state \in TerminalStates) => (state' \in TerminalStates)]_vars

(* When the run is over no harness of it is alive, unless the runner was   *)
(* interrupted between starting the child and registering it.              *)
HarnessStopped ==
  state \in TerminalStates /\ (active \/ interrupted = "none") => child # "alive"

(* A goal run does not spin: attempts that make no new tool call, counted  *)
(* or retried, are bounded together.                                       *)
WedgedRunEnds == idle <= MaxNoProgress + MaxCompactionRetries

(* A follower that returned has seen everything that was in the trace when *)
(* the run ended.                                                          *)
FollowerSeesAll == fpc = "ended" => ~owed

(* A run with a deadline, or cancelled, ends even when its harness hangs,  *)
(* and whoever follows it returns, unless its runner is killed, told to    *)
(* stop before it drives the run, or cannot write how it ended.            *)
Over == state \in TerminalStates
CutShort ==
  \/ interrupted = "killed"
  \/ ~Over /\ (interrupted = "signal" \/ unwritten)
BoundedRunEnds == timed \/ cancel ~> fpc = "ended" \/ CutShort
=============================================================================
