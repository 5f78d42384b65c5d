-------------------------------- MODULE Swarm --------------------------------
(***************************************************************************)
(* A swarm of Modal sandboxes (agents_on_modal/swarm.py over               *)
(* sandbox/modal.py): Swarm.launch starts one agent in each of a number of *)
(* sandboxes, from a pool of threads and with retries; each sandbox has a  *)
(* proxy token of its own.  Another process may reconnect to the swarm     *)
(* from what the provider lists, and either may stop it.                   *)
(***************************************************************************)
EXTENDS Naturals, FiniteSets

CONSTANTS
  Count,        (* agents wanted                                           *)
  Workers,      (* threads of the pool: min(count, MAX_CONCURRENCY)        *)
  Retries,      (* CREATE_RETRIES                                          *)
  Proxies,      (* what may be given as the URL of an upstream proxy       *)
  Faults,       (* the kinds of trouble that may happen                    *)
  MaxTroubles,  (* and how many of them                                    *)
  MaxStops      (* how often somebody stops the swarm                      *)

FaultKinds ==
  { "lookup",     \* the app or the image cannot be looked up
    "mint",       \* minting a token raises, though one may have been made
    "create",     \* Sandbox.create raises, and there is no sandbox
    "late",       \* it raises although there is one
    "step",       \* a call to a new sandbox raises
    "delete",     \* deleting a token raises
    "terminate",  \* terminating a sandbox raises
    "tags",       \* the tags of a sandbox cannot be read
    "expire",     \* a sandbox reaches its timeout, or is lost
    "die",        \* the launching process dies
    "quit" }      \* whoever stops the swarm dies over it

ASSUME SwarmAssumption ==
  /\ Count \in Nat \ {0} /\ Workers \in Nat \ {0} /\ Retries \in Nat \ {0}
  /\ Proxies \subseteq {"None", "good", "malformed"} /\ Faults \subseteq FaultKinds
  /\ MaxTroubles \in Nat /\ MaxStops \in Nat

(* What may excuse that something is left.                                 *)
ExcuseKinds == FaultKinds \cup {"proxy"}

(* Every attempt for an agent makes a sandbox of its own.                  *)
Agents == 1..Count
Boxes  == Agents \X (1..Retries)

VARIABLES
  (* the provider: sandboxes and the tokens made for them                  *)
  box, token, running,
  (* Swarm.launch: what each agent's thread is at, and its attempt; the    *)
  (* next result that is waited for; its argument                          *)
  pc, attempt, launch, cursor, proxy,
  (* a Swarm handle in use: what somebody is at with it, the agents left,  *)
  (* and the one in hand; whether it is the one that launch returned, or   *)
  (* was found before or after the end of the launch                       *)
  spc, todo, inHand, via,
  (* the sandboxes whose token the handle of launch no longer knows        *)
  cleared,
  (* bookkeeping of the model: troubles, the stops; which trouble that the *)
  (* code swallows happened to which sandbox                               *)
  troubles, stops, excused

provider == <<box, token, running>>
threads  == <<pc, attempt>>
launcher == <<launch, cursor, proxy>>
stopper  == <<spc, todo, inHand, via, cleared, stops>>
vars     == <<provider, threads, launcher, stopper, troubles, excused>>

Excused(kinds, b) == \E k \in kinds : <<k, b>> \in excused

(* A handle on an agent: its sandbox, and whether it knows the id of its   *)
(* token.                                                                  *)
Handles == [box : Boxes, token : {"id", "None"}]
NoHandle == [box |-> <<0, 0>>, token |-> "None"]

Trouble(kind) ==
  /\ kind \in Faults /\ troubles < MaxTroubles
  /\ troubles' = troubles + 1

Init ==
  /\ box = [b \in Boxes |-> "none"] /\ token = [b \in Boxes |-> "none"]
  /\ running = {}
  /\ pc = [i \in Agents |-> "queued"] /\ attempt = [i \in Agents |-> 1]
  /\ launch = "collect" /\ cursor = 1 /\ proxy \in Proxies
  /\ spc = "idle" /\ todo = {} /\ inHand = NoHandle /\ via = "early"
  /\ cleared = {} /\ stops = 0 /\ troubles = 0 /\ excused = {}

-----------------------------------------------------------------------------
(* One thread: _launch_one around ModalSandbox.create and Sandbox.start.   *)
Over == {"done", "failed", "raised", "cancelled"}
Busy == {i \in Agents : pc[i] \notin Over \cup {"queued"}}
LaunchAlive == launch # "dead"

Box(i) == <<i, attempt[i]>>

Step(i, from, to) ==
  /\ LaunchAlive /\ pc[i] = from
  /\ pc' = [pc EXCEPT ![i] = to]
  /\ UNCHANGED <<launcher, stopper>>

(* A thread of the pool takes the next agent.                              *)
TakeAgent(i) ==
  /\ Step(i, "queued", "lookup")
  /\ Cardinality(Busy) < Workers
  /\ \A j \in Agents : j < i => pc[j] # "queued"
  /\ UNCHANGED <<provider, attempt, troubles, excused>>

LookUp(i) ==
  /\ Step(i, "lookup", "mint")
  /\ UNCHANGED <<provider, attempt, troubles, excused>>

LookUpFails(i) ==
  /\ Step(i, "lookup", "raised") /\ Trouble("lookup")
  /\ UNCHANGED <<provider, attempt, excused>>

(* Without a token of its own a sandbox uses that of the endpoint.  One    *)
(* that was made although the call raised is known to nobody.              *)
Mint(i) ==
  /\ Step(i, "mint", "make")
  /\ \/ token' = [token EXCEPT ![Box(i)] = "live"] /\ UNCHANGED <<troubles, excused>>
     \/ Trouble("mint") /\ UNCHANGED <<token, excused>>
     \/ /\ Trouble("mint")
        /\ token' = [token EXCEPT ![Box(i)] = "live"]
        /\ excused' = excused \cup {<<"mint", Box(i)>>}
  /\ UNCHANGED <<box, running, attempt>>

(* The id of the token of sandbox b, as create knows it and its tags say.  *)
TokenId(b) == IF token[b] = "none" \/ Excused({"mint"}, b) THEN "None" ELSE "id"

(* A malformed URL is noticed here, after the token was made, and the      *)
(* ProxyError passes both the rollback and the retries.                    *)
ProxyRejected(i) ==
  /\ Step(i, "make", "raised") /\ proxy = "malformed"
  /\ excused' = excused \cup {<<"proxy", Box(i)>>}
  /\ UNCHANGED <<provider, attempt, troubles>>

Make(i) ==
  /\ Step(i, "make", "prepare") /\ proxy # "malformed"
  /\ box' = [box EXCEPT ![Box(i)] = "live"]
  /\ UNCHANGED <<token, running, attempt, troubles, excused>>

MakeFails(i) ==
  /\ Step(i, "make", "release") /\ proxy # "malformed"
  /\ \/ Trouble("create") /\ UNCHANGED <<box, excused>>
     \/ /\ Trouble("late")
        /\ box' = [box EXCEPT ![Box(i)] = "live"]
        /\ excused' = excused \cup {<<"late", Box(i)>>}
  /\ UNCHANGED <<token, running, attempt>>

(* Deleting the token of sandbox b, which swallows any failure.            *)
DeleteToken(b) ==
  \/ /\ token' = [token EXCEPT ![b] = IF @ = "live" THEN "deleted" ELSE @]
     /\ UNCHANGED <<troubles, excused>>
  \/ /\ token[b] = "live" /\ Trouble("delete")
     /\ excused' = excused \cup {<<"delete", b>>} /\ UNCHANGED token

(* (mutant: the token is kept for the next attempt)                        *)
KeepToken(b) == UNCHANGED <<token, troubles, excused>>

ReleaseToken(b) ==
  IF TokenId(b) = "id" THEN DeleteToken(b) ELSE UNCHANGED <<token, troubles, excused>>

MayRetry(i) == attempt[i] < Retries

Release(i) ==
  /\ Step(i, "release", IF MayRetry(i) THEN "asleep" ELSE "failed")
  /\ ReleaseToken(Box(i))
  /\ UNCHANGED <<box, running, attempt>>

WakeUp(i) ==
  /\ Step(i, "asleep", "lookup")
  /\ attempt' = [attempt EXCEPT ![i] = @ + 1]
  /\ UNCHANGED <<provider, troubles, excused>>

(* What is done inside a new sandbox: chmod of the shared volume, the      *)
(* relay, the files of the harness, the runner.                            *)
Alive(b) == box[b] = "live"

Prepare(i) ==
  /\ Step(i, "prepare", IF proxy = "good" THEN "relay" ELSE "start")
  /\ Alive(Box(i))
  /\ UNCHANGED <<provider, attempt, troubles, excused>>

StartRelay(i) ==
  /\ Step(i, "relay", "start") /\ Alive(Box(i))
  /\ UNCHANGED <<provider, attempt, troubles, excused>>

Start(i) ==
  /\ Step(i, "start", "done") /\ Alive(Box(i))
  /\ running' = running \cup {Box(i)}
  /\ UNCHANGED <<box, token, attempt, troubles, excused>>

(* Such a failure is no SandboxError: it is not tried again.               *)
(* (mutant: it is)                                                         *)
CaughtToo(i) == IF MayRetry(i) THEN "asleep" ELSE "raised"

Uncaught(i) == "raised"

StepFails(i) ==
  /\ \E from \in {"prepare", "relay", "start"} : Step(i, from, Uncaught(i))
  /\ \/ ~Alive(Box(i)) /\ UNCHANGED troubles
     \/ Trouble("step")
  /\ UNCHANGED <<provider, attempt, excused>>

-----------------------------------------------------------------------------
(* The thread of launch, in list(pool.map(...)) and the end of its with.   *)
(* (mutant: a failed agent is not noticed)                                 *)
HasRaised(i) == pc[i] = "raised"

HasFailed(i) == pc[i] \in {"failed", "raised"}

Collect ==
  /\ launch = "collect" /\ cursor <= Count /\ pc[cursor] = "done"
  /\ cursor' = cursor + 1
  /\ launch' = IF cursor = Count THEN "returned" ELSE launch
  /\ UNCHANGED <<provider, threads, proxy, stopper, troubles, excused>>

(* The first failure cancels what has not begun.                           *)
CollectFails ==
  /\ launch = "collect" /\ HasFailed(cursor)
  /\ launch' = "drain"
  /\ pc' = [i \in Agents |-> IF pc[i] = "queued" THEN "cancelled" ELSE pc[i]]
  /\ UNCHANGED <<provider, attempt, cursor, proxy, stopper, troubles, excused>>

Drained == \A i \in Agents : pc[i] \in Over

Raise ==
  /\ launch = "drain" /\ Drained
  /\ launch' = "raised"
  /\ UNCHANGED <<provider, threads, cursor, proxy, stopper, troubles, excused>>

(* The process dies, with all its threads.  What they had minted and not   *)
(* yet given to a sandbox is nobody's.                                     *)
Die ==
  /\ launch \in {"collect", "drain"} /\ Trouble("die")
  /\ launch' = "dead"
  /\ excused' = excused \cup
       {<<"die", Box(i)>> : i \in {j \in Agents : pc[j] \in {"make", "release"}}}
  /\ UNCHANGED <<provider, threads, cursor, proxy, stopper>>

LaunchOver == launch \in {"returned", "raised", "dead"}

-----------------------------------------------------------------------------
(* A sandbox ends without being stopped.                                   *)
Expire(b) ==
  /\ Alive(b) /\ Trouble("expire")
  /\ box' = [box EXCEPT ![b] = "gone"]
  /\ excused' = excused \cup {<<"expire", b>>}
  /\ UNCHANGED <<token, running, threads, launcher, stopper>>

-----------------------------------------------------------------------------
(* The handle that launch returned.                                        *)
Launched ==
  {[box |-> Box(i), token |-> IF Box(i) \in cleared THEN "None" ELSE TokenId(Box(i))] :
     i \in Agents}

(* What the provider lists, with the token ids that the tags name.         *)
(* (mutant: of a failed launch, only what runs)                            *)
ListedIfRunning == {b \in running : Alive(b)}

Listed == {b \in Boxes : Alive(b)}

Found(unread) ==
  {[box |-> b, token |-> IF b \in unread THEN "None" ELSE TokenId(b)] : b \in Listed}

UseLaunched ==
  /\ launch = "returned" /\ spc = "idle" /\ stops < MaxStops
  /\ spc' = "stopping" /\ todo' = Launched /\ stops' = stops + 1
  /\ via' = "launch"
  /\ UNCHANGED <<provider, threads, launcher, inHand, cleared, troubles, excused>>

(* reconnect: list the sandboxes, then ask each for its runs.              *)
Reconnect ==
  /\ spc = "idle" /\ stops < MaxStops
  /\ spc' = "asking" /\ stops' = stops + 1
  /\ via' = IF LaunchOver THEN "late" ELSE "early"
  /\ \/ todo' = Found({}) /\ UNCHANGED <<troubles, excused>>
     \/ \E b \in Listed :
          /\ Trouble("tags")
          /\ todo' = Found({b}) /\ excused' = excused \cup {<<"tags", b>>}
  /\ UNCHANGED <<provider, threads, launcher, inHand, cleared>>

Reconnected ==
  /\ spc = "asking" /\ \A h \in todo : Alive(h.box)
  /\ spc' = "stopping"
  /\ UNCHANGED <<provider, threads, launcher, todo, inHand, via, cleared, stops,
                 troubles, excused>>

ReconnectFails ==
  /\ spc = "asking"
  /\ \/ (\E h \in todo : ~Alive(h.box)) /\ UNCHANGED troubles
     \/ todo # {} /\ Trouble("step")
  /\ spc' = "idle" /\ todo' = {}
  /\ UNCHANGED <<provider, threads, launcher, inHand, via, cleared, stops, excused>>

(* ModalSandbox.stop, for one agent after the other: terminate, then the   *)
(* token.                                                                  *)
Terminate ==
  /\ spc = "stopping"
  /\ \E h \in todo :
       /\ inHand' = h /\ todo' = todo \ {h}
       /\ \/ box' = [box EXCEPT ![h.box] = "gone"] /\ UNCHANGED <<troubles, excused>>
          \/ /\ Alive(h.box) /\ Trouble("terminate")
             /\ excused' = excused \cup {<<"terminate", h.box>>} /\ UNCHANGED box
  /\ spc' = "deleting"
  /\ UNCHANGED <<token, running, threads, launcher, via, cleared, stops>>

(* The handle forgets the token, deleted or not.                           *)
Delete ==
  /\ spc = "deleting"
  /\ IF inHand.token = "id" THEN DeleteToken(inHand.box)
     ELSE UNCHANGED <<token, troubles, excused>>
  /\ cleared' = IF via = "launch" THEN cleared \cup {inHand.box} ELSE cleared
  /\ spc' = "stopping" /\ inHand' = NoHandle
  /\ UNCHANGED <<box, running, threads, launcher, todo, via, stops>>

Stopped ==
  /\ spc = "stopping" /\ todo = {}
  /\ spc' = "idle"
  /\ UNCHANGED <<provider, threads, launcher, todo, inHand, via, cleared, stops,
                 troubles, excused>>

(* The process that stops the swarm dies, and the handle with it.  A       *)
(* sandbox that it has just terminated is no longer listed, so that its    *)
(* token is nobody's.                                                      *)
StopperDies ==
  /\ spc # "idle" /\ Trouble("quit")
  /\ spc' = "idle" /\ todo' = {} /\ inHand' = NoHandle
  /\ launch' = IF via = "launch" THEN "dead" ELSE launch
  /\ excused' = excused \cup
       {<<"quit", b>> : b \in {c \in Boxes : c = inHand.box /\ ~Alive(c)}}
  /\ UNCHANGED <<provider, threads, cursor, proxy, via, cleared, stops>>

-----------------------------------------------------------------------------
Thread(i) ==
  \/ TakeAgent(i) \/ LookUp(i) \/ LookUpFails(i) \/ Mint(i) \/ ProxyRejected(i)
  \/ Make(i) \/ MakeFails(i) \/ Release(i) \/ WakeUp(i) \/ Prepare(i) \/ StartRelay(i)
  \/ Start(i) \/ StepFails(i)

Launcher == Collect \/ CollectFails \/ Raise

Stopper ==
  \/ UseLaunched \/ Reconnect \/ Reconnected \/ ReconnectFails
  \/ Terminate \/ Delete \/ Stopped \/ StopperDies

Next ==
  \/ \E i \in Agents : Thread(i)
  \/ Launcher \/ Die
  \/ \E b \in Boxes : Expire(b)
  \/ Stopper

Spec == Init /\ [][Next]_vars

(* Threads run, and calls to the provider return, with or without success. *)
(* Nobody has to stop a swarm.                                             *)
FairSpec ==
  /\ Spec
  /\ \A i \in Agents : WF_vars(Thread(i))
  /\ WF_vars(Launcher)

-----------------------------------------------------------------------------
(* Properties.                                                             *)

(* Every variable keeps to its type, no agent to more attempts than        *)
(* allowed.                                                                *)
TypeOK ==
  /\ box \in [Boxes -> {"none", "live", "gone"}]
  /\ token \in [Boxes -> {"none", "live", "deleted"}] /\ running \subseteq Boxes
  /\ pc \in [Agents -> Over \cup {"queued", "lookup", "mint", "make", "release",
                                  "asleep", "prepare", "relay", "start"}]
  /\ attempt \in [Agents -> 1..Retries]
  /\ launch \in {"collect", "drain", "returned", "raised", "dead"}
  /\ cursor \in 1..Count + 1 /\ proxy \in Proxies
  /\ spc \in {"idle", "asking", "stopping", "deleting"}
  /\ todo \subseteq Handles /\ inHand \in Handles \cup {NoHandle}
  /\ troubles \in 0..MaxTroubles /\ stops \in 0..MaxStops
  /\ excused \subseteq ExcuseKinds \X Boxes
  /\ via \in {"launch", "early", "late"} /\ cleared \subseteq Boxes

(* A launch that returns has its agents, each in a sandbox of its own with *)
(* its run started; no other sandbox of the swarm lives, but for one that  *)
(* came up although its creation raised.                                   *)
LaunchKeepsCount ==
  launch = "returned" =>
    /\ Cardinality({h.box : h \in Launched} \cap running) = Count
    /\ \A b \in Boxes : Alive(b) => Excused({"late"}, b) \/ \E h \in Launched : h.box = b

(* A launch that is over makes no more sandboxes, tokens or runs: what is  *)
(* found then is all there is.                                             *)
LaunchIsOver ==
  [][LaunchOver =>
       /\ running' = running
       /\ \A b \in Boxes :
            /\ box[b] # "live" => box'[b] # "live"
            /\ token[b] # "live" => token'[b] # "live"]_vars

CostsToken == {"mint", "delete", "tags", "expire", "die", "quit", "proxy"}

(* No token outlives its sandbox, or comes to nothing, unless one of the   *)
(* calls failed that are not tried again (minting it, reading its tag,     *)
(* deleting it), the sandbox ended by itself, the process died that was    *)
(* making its sandbox or stopping it, or the URL of the proxy was          *)
(* malformed.                                                              *)
TokenAccounted ==
  \A b \in Boxes : token[b] = "live" =>
    \/ Alive(b) \/ inHand.box = b \/ Excused(CostsToken, b)
    \/ LaunchAlive /\ \E i \in Agents : Box(i) = b /\ pc[i] \in {"make", "release"}

(* Whoever reconnects after a launch, however it went, and stops the swarm *)
(* leaves neither sandboxes nor tokens: no sandbox unless terminating it   *)
(* failed, no token with the exceptions above.                             *)
StopsAll ==
  [][Stopped /\ via = "late" =>
       \A b \in Boxes :
         /\ Alive(b) => Excused({"terminate"}, b)
         /\ token[b] = "live" => Excused(CostsToken, b)]_vars

(* The launch ends, one way or the other.                                  *)
LaunchEnds == <>LaunchOver

=============================================================================
