------------------------------- MODULE Waves -------------------------------
(***************************************************************************)
(* What a dynamic swarm promises about the order its agents run in: plans  *)
(* are accepted once, the stages of a plan run as waves (a stage is over   *)
(* before the next one starts), the agents of a stage run as a pool of at  *)
(* most maxConcurrent, and no agent is started twice.  SwarmController,    *)
(* which executes plans through files and sandboxes, implements it.        *)
(***************************************************************************)
EXTENDS Naturals, FiniteSets, Sequences

CONSTANTS
  Requests,  (* request ids                                                *)
  Plan       (* the stages each request asks for, a sequence of records    *)
             (* [agents |-> how many, maxConcurrent |-> how many at once]  *)

VARIABLES
  accepted,  (* the requests whose plan is being executed                  *)
  phase      (* of every task: pending, running or over                    *)

vars == <<accepted, phase>>

(* A task <<r, s, i>> is the i-th agent of the s-th stage of request r.    *)
TasksOfStage(r, s) == {<<r, s, i>> : i \in 1..Plan[r][s].agents}
TasksOf(r) == UNION {TasksOfStage(r, s) : s \in DOMAIN Plan[r]}
Tasks == UNION {TasksOf(r) : r \in Requests}

Running(r, s) == {t \in TasksOfStage(r, s) : phase[t] = "running"}

Init ==
  /\ accepted = {}
  /\ phase = [t \in Tasks |-> "pending"]

Accept(r) ==
  /\ r \notin accepted
  /\ accepted' = accepted \cup {r}
  /\ UNCHANGED phase

Start(t) ==
  LET r == t[1]
      s == t[2]
  IN  /\ r \in accepted
      /\ phase[t] = "pending"
      /\ \A u \in TasksOf(r) : u[2] < s => phase[u] = "over"
      /\ Cardinality(Running(r, s)) < Plan[r][s].maxConcurrent
      /\ phase' = [phase EXCEPT ![t] = "running"]
      /\ UNCHANGED accepted

Finish(t) ==
  /\ phase[t] = "running"
  /\ phase' = [phase EXCEPT ![t] = "over"]
  /\ UNCHANGED accepted

Next ==
  \/ \E r \in Requests : Accept(r)
  \/ \E t \in Tasks : Start(t) \/ Finish(t)

Spec == Init /\ [][Next]_vars
=============================================================================
