----------------------------- MODULE SwarmProofs -----------------------------
(***************************************************************************)
(* For any number of agents, threads and retries, and any troubles: the    *)
(* variables of Swarm keep to their types, no token is forgotten, a launch *)
(* that is over is over, one that returns has its agents, and a later stop *)
(* leaves nothing.                                                         *)
(***************************************************************************)
EXTENDS Swarm, FiniteSetTheorems, TLAPS

(* What an agent's thread is at says which of its sandboxes there can be.  *)
Early == {"queued", "lookup", "mint"}

AttemptsOK ==
  \A i \in Agents :
    /\ pc[i] \in Early => box[Box(i)] = "none" /\ token[Box(i)] = "none"
    /\ pc[i] = "make" => box[Box(i)] = "none"
    /\ pc[i] \in {"prepare", "relay", "start", "done"} => box[Box(i)] # "none"
    /\ pc[i] = "asleep" => attempt[i] < Retries
    /\ \A k \in 1..Retries :
         k > attempt[i] => box[<<i, k>>] = "none" /\ token[<<i, k>>] = "none"

(* How far the launch has come says which threads are through.             *)
LaunchOK ==
  /\ launch = "collect" => cursor <= Count
  /\ \A i \in Agents : i < cursor => pc[i] = "done"
  /\ launch = "returned" => cursor = Count + 1
  /\ launch = "raised" => \A i \in Agents : pc[i] \in Over

(* A handle is on a sandbox there is, or was, and knows its token unless   *)
(* minting it raised, the tags could not be read, or an earlier stop has   *)
(* tried in vain to delete it.                                             *)
Forgetting == {"mint", "tags", "delete"}

Knows(h) ==
  /\ box[h.box] # "none"
  /\ token[h.box] = "live" => h.token = "id" \/ Excused(Forgetting, h.box)

HandlesOK ==
  /\ spc = "idle" => todo = {}
  /\ IF spc = "deleting" THEN inHand \in Handles /\ Knows(inHand)
     ELSE inHand = NoHandle
  /\ \A h \in todo : Knows(h)

(* Only a launch that has returned can be stopped by its own handle, which *)
(* forgets no token that it can still delete.                              *)
ClearedOK ==
  /\ via = "launch" /\ spc # "idle" => launch = "returned"
  /\ cleared # {} => LaunchOver
  /\ \A b \in cleared : token[b] = "live" => Excused(Forgetting, b)

(* A stop of a swarm found after its launch misses no living sandbox, and  *)
(* not the token of one that it failed to terminate.                       *)
Attended(b) ==
  Alive(b) =>
    \/ \E h \in todo : h.box = b
    \/ /\ Excused({"terminate"}, b)
       /\ token[b] = "live" => inHand.box = b \/ Excused(CostsToken, b)

StopOK ==
  via = "late" /\ spc # "idle" => LaunchOver /\ \A b \in Boxes : Attended(b)

IInv ==
  /\ TypeOK /\ AttemptsOK /\ LaunchOK /\ HandlesOK /\ ClearedOK /\ StopOK
  /\ TokenAccounted

-----------------------------------------------------------------------------
LEMMA InitIInv == Init => IInv
  <1> SUFFICES ASSUME Init PROVE IInv
    OBVIOUS
  <1> USE SwarmAssumption DEF SwarmAssumption
  <1>1. TypeOK
    <2>1. box \in [Boxes -> {"none", "live", "gone"}]
          /\ token \in [Boxes -> {"none", "live", "deleted"}]
          /\ running \subseteq Boxes /\ todo \subseteq Handles
          /\ excused \subseteq ExcuseKinds \X Boxes
      BY DEF Init
    <2>2. pc \in [Agents -> Over \cup {"queued", "lookup", "mint", "make", "release",
                                       "asleep", "prepare", "relay", "start"}]
      BY DEF Init, Over
    <2>3. /\ attempt \in [Agents -> 1..Retries] /\ cursor \in 1..Count + 1
          /\ proxy \in Proxies
      BY DEF Init
    <2>4. /\ launch \in {"collect", "drain", "returned", "raised", "dead"}
          /\ spc \in {"idle", "asking", "stopping", "deleting"}
          /\ troubles \in 0..MaxTroubles /\ stops \in 0..MaxStops
      BY DEF Init
    <2>5. via \in {"launch", "early", "late"} /\ cleared \subseteq Boxes /\ inHand \in Handles \cup {NoHandle}
      BY Zenon DEF Init
    <2> QED BY <2>1, <2>2, <2>3, <2>4, <2>5 DEF TypeOK
  <1>2. AttemptsOK
    BY DEF Init, AttemptsOK, Agents, Boxes, Box, Early
  <1>3. LaunchOK
    BY DEF Init, LaunchOK, Agents
  <1>4. HandlesOK /\ ClearedOK /\ StopOK
    BY DEF Init, HandlesOK, ClearedOK, StopOK
  <1>5. TokenAccounted
    BY DEF Init, TokenAccounted
  <1> QED BY <1>1, <1>2, <1>3, <1>4, <1>5 DEF IInv

(* A thread that is not through means that the launch is not over.         *)
LEMMA ThreadStep ==
  ASSUME IInv, NEW i \in Agents, NEW from, NEW to, from \notin Over,
         Step(i, from, to)
  PROVE  ~LaunchOver /\ LaunchOK' /\ StopOK' /\ ClearedOK'
  <1>1. i \in 1..Count /\ pc[i] = from /\ pc[i] \notin Over
    BY DEF Step, Agents
  <1>2. ~(i < cursor)
    BY <1>1 DEF IInv, LaunchOK, Over, Agents
  <1>3. launch # "returned"
    BY <1>1, <1>2, SwarmAssumption DEF IInv, LaunchOK, Agents, SwarmAssumption, TypeOK
  <1>4. launch # "raised" /\ launch # "dead"
    BY <1>1 DEF IInv, LaunchOK, Step, LaunchAlive
  <1>5. ~LaunchOver
    BY <1>3, <1>4 DEF LaunchOver
  <1>6. LaunchOK'
    BY <1>2, <1>3, <1>4 DEF IInv, TypeOK, LaunchOK, Step, launcher
  <1>7. StopOK'
    BY <1>5 DEF IInv, StopOK, Step, launcher, stopper, LaunchOver
  <1>8. ClearedOK'
    BY <1>3, <1>5 DEF IInv, ClearedOK, Step, launcher, stopper
  <1> QED BY <1>5, <1>6, <1>7, <1>8

(* The box of an agent, and those of its other attempts.                   *)
LEMMA BoxFacts ==
  ASSUME TypeOK
  PROVE  /\ \A i \in Agents : Box(i) \in Boxes /\ attempt[i] \in 1..Retries
         /\ \A i, j \in Agents : Box(i) = Box(j) => i = j
         /\ \A i, j \in Agents, k \in 1..Retries :
              Box(i) = <<j, k>> => i = j /\ k = attempt[i]
         /\ \A i \in Agents, k \in 1..Retries : <<i, k>> \in Boxes
  BY DEF TypeOK, Box, Boxes

-----------------------------------------------------------------------------
(* A step of a thread that only brings it further.                         *)
LEMMA MovesKeeps ==
  ASSUME IInv, NEW i \in Agents, NEW from, NEW to, Step(i, from, to),
         from \notin Over \cup {"make", "release"},
         to \in Over \cup {"lookup", "mint", "prepare", "relay", "start"},
         to \in Early => from \in Early,
         to \in {"prepare", "relay", "start", "done"}
           => from \in {"prepare", "relay", "start"},
         troubles' \in 0..MaxTroubles, UNCHANGED <<provider, attempt, excused>>
  PROVE  IInv'
  <1> USE BoxFacts DEF IInv
  <1>1. LaunchOK' /\ StopOK' /\ ClearedOK'
    BY ThreadStep
  <1>2. TypeOK'
    BY DEF TypeOK, Step, launcher, stopper, provider, Over
  <1>3. AttemptsOK'
    BY DEF TypeOK, AttemptsOK, Step, provider, Box, Over, Early
  <1>4. HandlesOK'
    BY DEF TypeOK, HandlesOK, Knows, Excused, Step, stopper, provider
  <1>5. TokenAccounted'
    BY DEF TypeOK, TokenAccounted, Alive, Excused, CostsToken, LaunchAlive, Step,
           stopper, launcher, provider, Box
  <1> QED BY <1>1, <1>2, <1>3, <1>4, <1>5

LEMMA TroubleType ==
  ASSUME TypeOK, NEW kind, Trouble(kind)
  PROVE  troubles' \in 0..MaxTroubles
  BY SwarmAssumption DEF TypeOK, Trouble, SwarmAssumption

LEMMA MovingKeeps ==
  ASSUME IInv, NEW i \in Agents,
         \/ TakeAgent(i) \/ LookUp(i) \/ LookUpFails(i)
         \/ Prepare(i) \/ StartRelay(i) \/ StepFails(i)
  PROVE  IInv'
  <1>0. troubles \in 0..MaxTroubles /\ TypeOK
    BY DEF IInv, TypeOK
  <1>1. CASE TakeAgent(i)
    BY <1>0, <1>1, MovesKeeps DEF TakeAgent, Early, Over
  <1>2. CASE LookUp(i)
    BY <1>0, <1>2, MovesKeeps DEF LookUp, Early, Over
  <1>3. CASE LookUpFails(i)
    BY <1>0, <1>3, TroubleType, MovesKeeps DEF LookUpFails, Early, Over
  <1>4. CASE Prepare(i)
    BY <1>0, <1>4, MovesKeeps DEF Prepare, Early, Over
  <1>5. CASE StartRelay(i)
    BY <1>0, <1>5, MovesKeeps DEF StartRelay, Early, Over
  <1>6. CASE StepFails(i)
    <2>1. PICK from \in {"prepare", "relay", "start"} : Step(i, from, "raised")
      BY <1>6 DEF StepFails, Uncaught
    <2> QED
      BY <1>0, <1>6, <2>1, TroubleType, MovesKeeps DEF StepFails, Early, Over
  <1> QED BY <1>1, <1>2, <1>3, <1>4, <1>5, <1>6

(* A step of a thread leaves the tokens of others alone: it is enough to   *)
(* look at the sandbox of its own attempt.                                 *)
LEMMA AccountedKeeps ==
  ASSUME IInv, NEW i \in Agents, NEW c \in Boxes, c = Box(i),
         excused \subseteq excused', UNCHANGED <<inHand, launch, attempt>>,
         \A j \in Agents \ {i} : pc'[j] = pc[j],
         \A b \in Boxes \ {c} : token'[b] = token[b] /\ box'[b] = box[b],
         token'[c] = "live" =>
           \/ box'[c] = "live" \/ (pc'[i] \in {"make", "release"} /\ LaunchAlive)
           \/ \E k \in CostsToken : <<k, c>> \in excused'
  PROVE  TokenAccounted'
  <1> SUFFICES ASSUME NEW b \in Boxes, token'[b] = "live"
               PROVE  \/ Alive(b)' \/ inHand.box = b \/ Excused(CostsToken, b)'
                      \/ LaunchAlive /\ \E j \in Agents : /\ Box(j) = b
                                                        /\ pc'[j] \in {"make", "release"}
    BY DEF TokenAccounted, LaunchAlive, Box
  <1>1. CASE b = c
    BY <1>1 DEF Alive, Excused
  <1>2. CASE b # c
    <2>1. token[b] = "live" /\ box'[b] = box[b]
      BY <1>2
    <2>2. CASE Alive(b) \/ inHand.box = b \/ Excused(CostsToken, b)
      BY <2>1, <2>2 DEF Alive, Excused
    <2>3. CASE LaunchAlive /\ \E j \in Agents : Box(j) = b /\ pc[j] \in {"make", "release"}
      BY <1>2, <2>3
    <2> QED BY <2>1, <2>2, <2>3 DEF IInv, TokenAccounted
  <1> QED BY <1>1, <1>2

(* Nor does it matter to whoever stops, as long as no sandbox that there   *)
(* was gets a token.                                                       *)
LEMMA HandlesKeep ==
  ASSUME IInv, excused \subseteq excused', UNCHANGED <<spc, todo, inHand>>,
         \A b \in Boxes : box[b] # "none" =>
           box'[b] # "none" /\ (token'[b] = "live" => token[b] = "live")
  PROVE  HandlesOK'
  <1>1. \A h \in Handles : Knows(h) => Knows(h)'
    BY DEF Knows, Excused, Handles
  <1>2. todo \subseteq Handles
    BY DEF IInv, TypeOK
  <1> QED BY <1>1, <1>2 DEF IInv, HandlesOK

LEMMA MintKeeps ==
  ASSUME IInv, NEW i \in Agents, Mint(i)
  PROVE  IInv'
  <1> USE BoxFacts, SwarmAssumption DEF IInv
  <1>1. Step(i, "mint", "make")
    BY DEF Mint
  <1>2. LaunchOK' /\ StopOK' /\ ClearedOK'
    BY <1>1, ThreadStep DEF Over
  <1>3. TypeOK'
    BY <1>1 DEF TypeOK, Step, SwarmAssumption, launcher, stopper, provider,
                ExcuseKinds, FaultKinds, Over, Mint, Trouble
  <1>4. AttemptsOK'
    BY <1>1 DEF TypeOK, AttemptsOK, Step, provider, Box, Boxes, Early,
                Mint, Trouble
  <1>5. HandlesOK'
    <2>1. box[Box(i)] = "none" /\ UNCHANGED <<spc, todo, inHand>>
          /\ excused \subseteq excused'
      BY <1>1 DEF AttemptsOK, Step, stopper, Early, Mint
    <2>2. \A b \in Boxes : box[b] # "none" => box'[b] = box[b] /\ token'[b] = token[b]
      BY <2>1 DEF TypeOK, Mint
    <2> QED BY <2>1, <2>2, HandlesKeep
  <1>6. TokenAccounted'
    <2>0. Box(i) \in Boxes
      OBVIOUS
    <2>1. /\ UNCHANGED <<inHand, launch, attempt>> /\ excused \subseteq excused'
          /\ \A j \in Agents \ {i} : pc'[j] = pc[j]
      BY <1>1 DEF TypeOK, Step, stopper, launcher, Mint
    <2>2. \A b \in Boxes \ {Box(i)} : token'[b] = token[b] /\ box'[b] = box[b]
      BY DEF TypeOK, provider, Mint
    <2>3. pc'[i] \in {"make", "release"} /\ LaunchAlive
      BY <1>1 DEF TypeOK, Step, Mint
    <2> QED BY <2>0, <2>1, <2>2, <2>3, AccountedKeeps
  <1> QED BY <1>2, <1>3, <1>4, <1>5, <1>6

LEMMA ProxyRejectedKeeps ==
  ASSUME IInv, NEW i \in Agents, ProxyRejected(i)
  PROVE  IInv'
  <1> USE BoxFacts, SwarmAssumption DEF IInv
  <1>1. Step(i, "make", "raised")
    BY DEF ProxyRejected
  <1>2. LaunchOK' /\ StopOK' /\ ClearedOK'
    BY <1>1, ThreadStep DEF Over
  <1>3. TypeOK'
    BY <1>1 DEF TypeOK, Step, launcher, stopper, provider, ExcuseKinds, FaultKinds,
                Over, ProxyRejected
  <1>4. AttemptsOK'
    BY <1>1 DEF TypeOK, AttemptsOK, Step, provider, Box, Boxes, Early, ProxyRejected
  <1>5. HandlesOK'
    BY <1>1 DEF TypeOK, HandlesOK, Knows, Excused, Handles, Step, stopper, provider,
                ProxyRejected
  <1>6. TokenAccounted'
    <2>0. Box(i) \in Boxes
      OBVIOUS
    <2>1. /\ UNCHANGED <<inHand, launch, attempt>> /\ excused \subseteq excused'
          /\ \A j \in Agents \ {i} : pc'[j] = pc[j]
      BY <1>1 DEF TypeOK, Step, stopper, launcher, ProxyRejected
    <2>2. \A b \in Boxes \ {Box(i)} : token'[b] = token[b] /\ box'[b] = box[b]
      BY DEF TypeOK, provider, ProxyRejected
    <2>3. "proxy" \in CostsToken /\ <<"proxy", Box(i)>> \in excused'
      BY <1>1 DEF CostsToken, ProxyRejected
    <2> QED BY <2>0, <2>1, <2>2, <2>3, AccountedKeeps
  <1> QED BY <1>2, <1>3, <1>4, <1>5, <1>6

LEMMA MakeKeeps ==
  ASSUME IInv, NEW i \in Agents, Make(i)
  PROVE  IInv'
  <1> USE BoxFacts, SwarmAssumption DEF IInv
  <1>1. Step(i, "make", "prepare")
    BY DEF Make
  <1>2. LaunchOK' /\ StopOK' /\ ClearedOK'
    BY <1>1, ThreadStep DEF Over
  <1>3. TypeOK'
    BY <1>1 DEF TypeOK, Step, SwarmAssumption, launcher, stopper, provider,
                ExcuseKinds, FaultKinds, Over, Make
  <1>4. AttemptsOK'
    BY <1>1 DEF TypeOK, AttemptsOK, Step, provider, Box, Boxes, Early,
                Make
  <1>5. HandlesOK'
    BY <1>1 DEF TypeOK, AttemptsOK, HandlesOK, Knows, Excused, Handles, Step,
                stopper, provider, Early, Make
  <1>6. TokenAccounted'
    <2>1. /\ UNCHANGED <<token, excused, launch, inHand, attempt>>
          /\ \A j \in Agents \ {i} : pc'[j] = pc[j]
      BY <1>1 DEF TypeOK, Step, stopper, launcher, Make
    <2>2. \A b \in Boxes : Alive(b) \/ b = Box(i) => Alive(b)'
      BY DEF TypeOK, Alive, Make
    <2> QED BY <2>1, <2>2 DEF TokenAccounted, Excused, LaunchAlive, Box
  <1> QED BY <1>2, <1>3, <1>4, <1>5, <1>6

LEMMA MakeFailsKeeps ==
  ASSUME IInv, NEW i \in Agents, MakeFails(i)
  PROVE  IInv'
  <1> USE BoxFacts, SwarmAssumption DEF IInv
  <1>1. Step(i, "make", "release")
    BY DEF MakeFails
  <1>2. LaunchOK' /\ StopOK' /\ ClearedOK'
    BY <1>1, ThreadStep DEF Over
  <1>3. TypeOK'
    BY <1>1 DEF TypeOK, Step, SwarmAssumption, launcher, stopper, provider,
                ExcuseKinds, FaultKinds, Over, MakeFails, Trouble
  <1>4. AttemptsOK'
    BY <1>1 DEF TypeOK, AttemptsOK, Step, provider, Box, Boxes, Early,
                MakeFails, Trouble
  <1>5. HandlesOK'
    <2>1. box[Box(i)] = "none" /\ UNCHANGED <<spc, todo, inHand>>
          /\ excused \subseteq excused'
      BY <1>1 DEF AttemptsOK, Step, stopper, Early, MakeFails
    <2>2. \A b \in Boxes : box[b] # "none" => box'[b] = box[b] /\ token'[b] = token[b]
      BY <2>1 DEF TypeOK, MakeFails
    <2> QED BY <2>1, <2>2, HandlesKeep
  <1>6. TokenAccounted'
    <2>0. Box(i) \in Boxes
      OBVIOUS
    <2>1. /\ UNCHANGED <<inHand, launch, attempt>> /\ excused \subseteq excused'
          /\ \A j \in Agents \ {i} : pc'[j] = pc[j]
      BY <1>1 DEF TypeOK, Step, stopper, launcher, MakeFails
    <2>2. \A b \in Boxes \ {Box(i)} : token'[b] = token[b] /\ box'[b] = box[b]
      BY DEF TypeOK, provider, MakeFails
    <2>3. pc'[i] \in {"make", "release"} /\ LaunchAlive
      BY <1>1 DEF TypeOK, Step, MakeFails
    <2> QED BY <2>0, <2>1, <2>2, <2>3, AccountedKeeps
  <1> QED BY <1>2, <1>3, <1>4, <1>5, <1>6

LEMMA WakeUpKeeps ==
  ASSUME IInv, NEW i \in Agents, WakeUp(i)
  PROVE  IInv'
  <1> USE BoxFacts, SwarmAssumption DEF IInv
  <1>1. Step(i, "asleep", "lookup")
    BY DEF WakeUp
  <1>2. LaunchOK' /\ StopOK' /\ ClearedOK'
    BY <1>1, ThreadStep DEF Over
  <1>3. TypeOK'
    BY <1>1 DEF TypeOK, AttemptsOK, Step, SwarmAssumption, launcher, stopper, provider,
                ExcuseKinds, FaultKinds, Over, WakeUp
  <1>4. AttemptsOK'
    BY <1>1 DEF TypeOK, AttemptsOK, Step, provider, Box, Boxes, Early,
                WakeUp
  <1>5. HandlesOK'
    BY <1>1 DEF TypeOK, AttemptsOK, HandlesOK, Knows, Excused, Handles, Step,
                stopper, provider, Early, WakeUp
  <1>6. TokenAccounted'
    <2>1. /\ UNCHANGED <<box, token, excused, launch, inHand>>
          /\ \A j \in Agents : pc[j] \in {"make", "release"} => /\ pc'[j] = pc[j]
                                                              /\ attempt'[j] = attempt[j]
      BY <1>1 DEF TypeOK, Step, stopper, launcher, provider, WakeUp
    <2> QED BY <2>1 DEF TokenAccounted, Alive, Excused, LaunchAlive, Box
  <1> QED BY <1>2, <1>3, <1>4, <1>5, <1>6

LEMMA StartKeeps ==
  ASSUME IInv, NEW i \in Agents, Start(i)
  PROVE  IInv'
  <1> USE BoxFacts, SwarmAssumption DEF IInv
  <1>1. Step(i, "start", "done")
    BY DEF Start
  <1>2. LaunchOK' /\ StopOK' /\ ClearedOK'
    BY <1>1, ThreadStep DEF Over
  <1>3. TypeOK'
    BY <1>1 DEF TypeOK, Step, SwarmAssumption, launcher, stopper, provider,
                ExcuseKinds, FaultKinds, Over, Start
  <1>4. AttemptsOK'
    BY <1>1 DEF TypeOK, AttemptsOK, Step, provider, Box, Boxes, Early,
                Start
  <1>5. HandlesOK'
    BY <1>1 DEF TypeOK, AttemptsOK, HandlesOK, Knows, Excused, Handles, Step,
                stopper, provider, Early, Start
  <1>6. TokenAccounted'
    <2>1. /\ UNCHANGED <<box, token, attempt, excused, launch, inHand>>
          /\ \A j \in Agents : pc[j] \in {"make", "release"} => pc'[j] = pc[j]
      BY <1>1 DEF TypeOK, Step, stopper, launcher, Start
    <2> QED BY <2>1 DEF TokenAccounted, Alive, Excused, LaunchAlive, Box
  <1> QED BY <1>2, <1>3, <1>4, <1>5, <1>6

LEMMA ReleaseKeeps ==
  ASSUME IInv, NEW i \in Agents, Release(i)
  PROVE  IInv'
  <1> USE BoxFacts, SwarmAssumption DEF IInv
  <1>1. Step(i, "release", IF MayRetry(i) THEN "asleep" ELSE "failed")
    BY DEF Release
  <1>2. LaunchOK' /\ StopOK' /\ ClearedOK'
    BY <1>1, ThreadStep DEF Over
  <1>3. TypeOK'
    BY <1>1 DEF TypeOK, Step, SwarmAssumption, launcher, stopper, provider,
                ExcuseKinds, FaultKinds, Over, Release, ReleaseToken, TokenId, DeleteToken,
                Trouble, MayRetry
  <1>4. AttemptsOK'
    BY <1>1 DEF TypeOK, AttemptsOK, Step, provider, Box, Boxes, Early,
                Release, ReleaseToken, TokenId, DeleteToken, Trouble, MayRetry
  <1>5. HandlesOK'
    <2>1. UNCHANGED <<box, spc, todo, inHand>> /\ excused \subseteq excused'
      BY <1>1 DEF Step, stopper, Release, ReleaseToken, DeleteToken
    <2>2. \A b \in Boxes : token'[b] = "live" => token[b] = "live"
      BY DEF TypeOK, Release, ReleaseToken, DeleteToken
    <2> QED BY <2>1, <2>2, HandlesKeep
  <1>6. TokenAccounted'
    <2>0. Box(i) \in Boxes
      OBVIOUS
    <2>1. /\ UNCHANGED <<inHand, launch, attempt>> /\ excused \subseteq excused'
          /\ \A j \in Agents \ {i} : pc'[j] = pc[j]
      BY <1>1 DEF TypeOK, Step, stopper, launcher, Release, ReleaseToken, TokenId, DeleteToken
    <2>2. \A b \in Boxes \ {Box(i)} : token'[b] = token[b] /\ box'[b] = box[b]
      BY DEF TypeOK, provider, Release, ReleaseToken, TokenId, DeleteToken
    <2>3. \/ token'[Box(i)] # "live"
          \/ \E k \in CostsToken : <<k, Box(i)>> \in excused'
      <3>1. CASE TokenId(Box(i)) = "id"
        BY <1>1, <3>1 DEF TypeOK, CostsToken, Release, ReleaseToken, DeleteToken
      <3>2. CASE token[Box(i)] = "none" \/ <<"mint", Box(i)>> \in excused
        BY <2>1, <3>2, <3>1 DEF TypeOK, CostsToken, Release, ReleaseToken, DeleteToken
      <3> QED BY <3>1, <3>2 DEF TokenId, Excused
    <2> QED BY <2>0, <2>1, <2>2, <2>3, AccountedKeeps
  <1> QED BY <1>2, <1>3, <1>4, <1>5, <1>6

-----------------------------------------------------------------------------
(* The thread of launch, and its end.                                      *)
LEMMA CollectKeeps ==
  ASSUME IInv, Collect
  PROVE  IInv'
  <1> USE SwarmAssumption DEF IInv, SwarmAssumption
  <1>1. TypeOK'
    BY DEF Collect, TypeOK, provider, threads, stopper
  <1>2. AttemptsOK'
    BY DEF Collect, AttemptsOK, provider, threads, Box
  <1>3. LaunchOK'
    BY DEF Collect, TypeOK, LaunchOK, threads, Agents
  <1>4. HandlesOK'
    BY DEF Collect, HandlesOK, Knows, Excused, provider, stopper
  <1>5. StopOK'
    BY DEF Collect, StopOK, Attended, LaunchOver, Alive, Excused, CostsToken,
           provider, stopper
  <1>6. TokenAccounted'
    BY DEF Collect, TokenAccounted, Alive, Excused, CostsToken, LaunchAlive, Box,
           provider, threads, stopper
  <1>7. ClearedOK'
    BY DEF Collect, ClearedOK, LaunchOver, Excused, provider, stopper
  <1> QED BY <1>1, <1>2, <1>3, <1>4, <1>5, <1>6, <1>7

LEMMA CollectFailsKeeps ==
  ASSUME IInv, CollectFails
  PROVE  IInv'
  <1> USE DEF IInv
  <1>1. TypeOK'
    BY DEF CollectFails, TypeOK, provider, stopper, Over
  <1>2. AttemptsOK'
    BY DEF CollectFails, TypeOK, AttemptsOK, provider, Box, Early
  <1>3. LaunchOK'
    BY DEF CollectFails, TypeOK, LaunchOK
  <1>4. HandlesOK'
    BY DEF CollectFails, HandlesOK, Knows, Excused, provider, stopper
  <1>5. StopOK'
    BY DEF CollectFails, StopOK, Attended, LaunchOver, stopper
  <1>6. TokenAccounted'
    BY DEF CollectFails, TypeOK, TokenAccounted, Alive, Excused, CostsToken,
           LaunchAlive, Box, provider, stopper
  <1>7. ClearedOK'
    BY DEF CollectFails, ClearedOK, LaunchOver, Excused, provider, stopper
  <1> QED BY <1>1, <1>2, <1>3, <1>4, <1>5, <1>6, <1>7

LEMMA RaiseKeeps ==
  ASSUME IInv, Raise
  PROVE  IInv'
  <1> USE DEF IInv
  <1>1. TypeOK'
    BY DEF Raise, TypeOK, provider, threads, stopper
  <1>2. AttemptsOK'
    BY DEF Raise, AttemptsOK, provider, threads, Box
  <1>3. LaunchOK'
    BY DEF Raise, LaunchOK, Drained, threads
  <1>4. HandlesOK'
    BY DEF Raise, HandlesOK, Knows, Excused, provider, stopper
  <1>5. StopOK'
    BY DEF Raise, StopOK, Attended, LaunchOver, Alive, Excused, CostsToken,
           provider, stopper
  <1>6. TokenAccounted'
    BY DEF Raise, TokenAccounted, Alive, Excused, CostsToken, LaunchAlive, Box,
           provider, threads, stopper
  <1>7. ClearedOK'
    BY DEF Raise, ClearedOK, LaunchOver, Excused, provider, stopper
  <1> QED BY <1>1, <1>2, <1>3, <1>4, <1>5, <1>6, <1>7

LEMMA DieKeeps ==
  ASSUME IInv, Die
  PROVE  IInv'
  <1> USE BoxFacts DEF IInv
  <1>0. /\ excused \subseteq excused' /\ excused' \subseteq ExcuseKinds \X Boxes
        /\ \A i \in Agents : pc[i] \in {"make", "release"} => <<"die", Box(i)>> \in excused'
    <2>1. \A i \in Agents : <<"die", Box(i)>> \in ExcuseKinds \X Boxes
      BY DEF ExcuseKinds, FaultKinds
    <2> QED BY <2>1 DEF Die, TypeOK
  <1>1. TypeOK'
    BY <1>0, TroubleType DEF Die, TypeOK, provider, threads, stopper
  <1>2. AttemptsOK'
    BY DEF Die, AttemptsOK, provider, threads, Box
  <1>3. LaunchOK'
    BY DEF Die, LaunchOK, threads
  <1>4. HandlesOK'
    BY <1>0 DEF Die, HandlesOK, Knows, Excused, provider, stopper
  <1>5. StopOK'
    BY DEF Die, StopOK, Attended, LaunchOver, stopper
  <1>6. TokenAccounted'
    <2>1. /\ UNCHANGED <<box, token, inHand>>
      BY DEF Die, provider, stopper
    <2>2. SUFFICES ASSUME NEW b \in Boxes, token[b] = "live",
                          ~Alive(b), inHand.box # b
                   PROVE  Excused(CostsToken, b)'
      BY <2>1 DEF TokenAccounted, Alive
    <2>3. CASE Excused(CostsToken, b)
      BY <1>0, <2>3 DEF Excused
    <2>4. CASE \E i \in Agents : Box(i) = b /\ pc[i] \in {"make", "release"}
      BY <1>0, <2>4 DEF Excused, CostsToken
    <2> QED BY <2>2, <2>3, <2>4 DEF TokenAccounted
  <1>7. ClearedOK'
    BY <1>0 DEF Die, ClearedOK, LaunchOver, Excused, provider, stopper
  <1> QED BY <1>1, <1>2, <1>3, <1>4, <1>5, <1>6, <1>7

LEMMA ExpireKeeps ==
  ASSUME IInv, NEW b \in Boxes, Expire(b)
  PROVE  IInv'
  <1> USE BoxFacts DEF IInv
  <1>0. /\ excused \subseteq excused' /\ excused' \subseteq ExcuseKinds \X Boxes
        /\ <<"expire", b>> \in excused'
    BY DEF Expire, TypeOK, ExcuseKinds, FaultKinds
  <1>1. TypeOK'
    BY <1>0, TroubleType DEF Expire, TypeOK, threads, launcher, stopper
  <1>2. AttemptsOK'
    BY DEF Expire, TypeOK, AttemptsOK, Alive, threads, Box
  <1>3. LaunchOK'
    BY DEF Expire, LaunchOK, threads, launcher
  <1>4. HandlesOK'
    BY <1>0 DEF Expire, TypeOK, HandlesOK, Knows, Excused, Handles, stopper
  <1>5. StopOK'
    BY <1>0 DEF Expire, TypeOK, StopOK, Attended, LaunchOver, Alive, Excused,
                CostsToken, launcher, stopper
  <1>6. TokenAccounted'
    <2>1. UNCHANGED <<token, inHand, pc, attempt, launch>>
          /\ \A c \in Boxes \ {b} : box'[c] = box[c]
      BY DEF Expire, TypeOK, threads, launcher, stopper
    <2>2. Excused(CostsToken, b)'
      BY <1>0 DEF Excused, CostsToken
    <2>3. SUFFICES ASSUME NEW c \in Boxes, token[c] = "live"
                   PROVE  \/ Alive(c)' \/ inHand.box = c \/ Excused(CostsToken, c)'
                          \/ /\ launch # "dead"
                             /\ \E i \in Agents : Box(i) = c /\ pc[i] \in {"make", "release"}
      BY <2>1 DEF TokenAccounted, LaunchAlive, Box
    <2>4. CASE Alive(c) \/ inHand.box = c \/ Excused(CostsToken, c)
      <3>1. CASE c = b
        BY <2>2, <3>1 DEF Excused
      <3>2. CASE c # b
        <4>1. CASE Alive(c)
          BY <1>0, <2>1, <3>2, <4>1 DEF Alive
        <4>2. CASE inHand.box = c
          BY <4>2
        <4>3. CASE Excused(CostsToken, c)
          BY <1>0, <4>3 DEF Excused
        <4> QED BY <2>4, <4>1, <4>2, <4>3
      <3> QED BY <3>1, <3>2
    <2>5. CASE LaunchAlive /\ \E i \in Agents : Box(i) = c /\ pc[i] \in {"make", "release"}
      BY <2>5 DEF LaunchAlive
    <2> QED BY <2>3, <2>4, <2>5 DEF TokenAccounted
  <1>7. ClearedOK'
    BY <1>0 DEF Expire, ClearedOK, LaunchOver, Excused, launcher, stopper
  <1> QED BY <1>1, <1>2, <1>3, <1>4, <1>5, <1>6, <1>7

-----------------------------------------------------------------------------
(* A step of whoever uses a handle, as far as the launch goes.             *)
LEMMA StopperStep ==
  ASSUME IInv, Stopper
  PROVE  LaunchOK'
  BY DEF IInv, Stopper, UseLaunched, Reconnect, Reconnected, ReconnectFails,
         Terminate, Delete, Stopped, StopperDies, provider, LaunchOK, threads, launcher

LEMMA UseLaunchedKeeps ==
  ASSUME IInv, UseLaunched
  PROVE  IInv'
  <1> USE BoxFacts, SwarmAssumption DEF IInv
  <1>0. \A i \in Agents : pc[i] = "done"
    BY DEF UseLaunched, LaunchOK, SwarmAssumption, Agents
  <1>1. TypeOK'
    <2>1. todo' \subseteq Handles
      BY DEF UseLaunched, Launched, TokenId, Handles
    <2>2. stops' \in 0..MaxStops /\ spc' \in {"idle", "asking", "stopping", "deleting"}
      BY DEF UseLaunched, TypeOK, SwarmAssumption
    <2>3. via' \in {"launch", "early", "late"}
      BY DEF UseLaunched
    <2> QED BY <2>1, <2>2, <2>3 DEF UseLaunched, TypeOK, provider, threads, launcher
  <1>2. AttemptsOK'
    BY DEF UseLaunched, AttemptsOK, provider, threads, Box
  <1>3. LaunchOK'
    BY StopperStep DEF Stopper
  <1>4. HandlesOK'
    <2>1. /\ spc' = "stopping" /\ spc # "deleting"
          /\ UNCHANGED <<box, token, excused, inHand>> /\ todo' = Launched
      BY DEF UseLaunched, provider
    <2>2. ASSUME NEW i \in Agents
          PROVE  /\ box[Box(i)] # "none"
                 /\ token[Box(i)] = "live" =>
                      \/ Excused(Forgetting, Box(i))
                      \/ Box(i) \notin cleared /\ TokenId(Box(i)) = "id"
      BY <1>0 DEF AttemptsOK, ClearedOK, TokenId, Excused, Forgetting
    <2>3. \A h \in Launched : Knows(h)
      BY <2>2 DEF Launched, Knows
    <2>4. \A h \in todo' : Knows(h)'
      BY <2>1, <2>3 DEF Knows, Excused
    <2> QED BY <2>1, <2>4 DEF HandlesOK
  <1>5. StopOK'
    BY DEF UseLaunched, StopOK
  <1>6. TokenAccounted'
    BY DEF UseLaunched, TokenAccounted, Alive, Excused, CostsToken, LaunchAlive,
           Box, provider, threads, launcher
  <1>7. ClearedOK'
    BY DEF UseLaunched, ClearedOK, LaunchOver, Excused, provider, launcher
  <1> QED BY <1>1, <1>2, <1>3, <1>4, <1>5, <1>6, <1>7

LEMMA ReconnectKeeps ==
  ASSUME IInv, Reconnect
  PROVE  IInv'
  <1> USE BoxFacts, SwarmAssumption DEF IInv
  <1>0. PICK unread \in SUBSET Boxes :
          /\ todo' = Found(unread) /\ excused \subseteq excused'
          /\ excused' \subseteq ExcuseKinds \X Boxes
          /\ \A b \in unread : <<"tags", b>> \in excused'
    <2>1. CASE todo' = Found({}) /\ UNCHANGED <<troubles, excused>>
      BY <2>1 DEF TypeOK
    <2>2. CASE \E b \in Listed : todo' = Found({b}) /\ excused' = excused \cup {<<"tags", b>>}
      <3>1. PICK b \in Listed : todo' = Found({b}) /\ excused' = excused \cup {<<"tags", b>>}
        BY <2>2
      <3>2. {b} \in SUBSET Boxes /\ <<"tags", b>> \in ExcuseKinds \X Boxes
        BY DEF Listed, ExcuseKinds, FaultKinds
      <3> QED BY <3>1, <3>2 DEF TypeOK
    <2> QED BY <2>1, <2>2 DEF Reconnect
  <1>1. TypeOK'
    <2>1. todo' \subseteq Handles
      BY <1>0 DEF Found, Listed, TokenId, Handles
    <2>2. troubles' \in 0..MaxTroubles
      BY TroubleType DEF Reconnect, TypeOK
    <2>3. via' \in {"launch", "early", "late"}
      BY DEF Reconnect, LaunchOver
    <2>4. stops' \in 0..MaxStops /\ spc' \in {"idle", "asking", "stopping", "deleting"}
      BY DEF Reconnect, TypeOK, SwarmAssumption
    <2> QED BY <1>0, <2>1, <2>2, <2>3, <2>4
            DEF Reconnect, TypeOK, provider, threads, launcher
  <1>2. AttemptsOK'
    BY DEF Reconnect, AttemptsOK, provider, threads, Box
  <1>3. LaunchOK'
    BY StopperStep DEF Stopper
  <1>4. HandlesOK'
    <2>1. spc' = "asking" /\ spc # "deleting" /\ UNCHANGED <<box, token, inHand>>
      BY DEF Reconnect, provider
    <2>2. ASSUME NEW b \in Listed
          PROVE  /\ box[b] # "none"
                 /\ token[b] = "live" =>
                      \/ Excused(Forgetting, b)'
                      \/ b \notin unread /\ TokenId(b) = "id"
      BY <1>0 DEF Listed, Alive, TokenId, Excused, Forgetting
    <2>3. \A h \in Found(unread) : Knows(h)'
      BY <2>1, <2>2 DEF Found, Knows
    <2> QED BY <1>0, <2>1, <2>3 DEF HandlesOK
  <1>5. StopOK'
    <2>1. via' = "late" => LaunchOver'
      BY DEF Reconnect, LaunchOver, launcher
    <2>2. \A b \in Boxes : Alive(b)' => \E h \in todo' : h.box = b
      <3> SUFFICES ASSUME NEW b \in Boxes, Alive(b)'
                   PROVE  \E h \in todo' : h.box = b
        OBVIOUS
      <3> DEFINE h == [box |-> b, token |-> IF b \in unread THEN "None" ELSE TokenId(b)]
      <3>1. b \in Listed
        BY DEF Reconnect, Listed, Alive, provider
      <3>2. h \in todo'
        BY <1>0, <3>1 DEF Found
      <3> QED BY <3>2
    <2> QED BY <2>1, <2>2 DEF StopOK, Attended
  <1>6. TokenAccounted'
    BY <1>0 DEF Reconnect, TokenAccounted, Alive, Excused, CostsToken, LaunchAlive,
                Box, provider, threads, launcher
  <1>7. ClearedOK'
    BY <1>0 DEF Reconnect, ClearedOK, LaunchOver, Excused, provider, launcher
  <1> QED BY <1>1, <1>2, <1>3, <1>4, <1>5, <1>6, <1>7

LEMMA AskedKeeps ==
  ASSUME IInv, Reconnected \/ ReconnectFails \/ Stopped
  PROVE  IInv'
  <1> USE DEF IInv
  <1>0. UNCHANGED <<provider, threads, launcher, inHand, stops, via, cleared, excused>>
        /\ troubles' \in 0..MaxTroubles
    BY TroubleType DEF Reconnected, ReconnectFails, Stopped, TypeOK
  <1>1. TypeOK'
    BY <1>0 DEF TypeOK, Reconnected, ReconnectFails, Stopped, provider, threads, launcher
  <1>2. AttemptsOK'
    BY <1>0 DEF AttemptsOK, provider, threads, Box
  <1>3. LaunchOK'
    BY StopperStep DEF Stopper
  <1>4. HandlesOK'
    BY <1>0 DEF Reconnected, ReconnectFails, Stopped, HandlesOK, Knows, Excused, provider
  <1>5. StopOK'
    BY <1>0 DEF Reconnected, ReconnectFails, Stopped, StopOK, Attended, LaunchOver, Alive,
                Excused, provider, launcher
  <1>6. TokenAccounted'
    BY <1>0 DEF TokenAccounted, Alive, Excused, CostsToken, LaunchAlive, Box,
                provider, threads, launcher
  <1>7. ClearedOK'
    BY <1>0 DEF Reconnected, ReconnectFails, Stopped, ClearedOK, LaunchOver, Excused,
                provider, launcher
  <1> QED BY <1>1, <1>2, <1>3, <1>4, <1>5, <1>6, <1>7

LEMMA TerminateKeeps ==
  ASSUME IInv, Terminate
  PROVE  IInv'
  <1> USE BoxFacts DEF IInv
  <1>0. PICK h \in todo :
          /\ inHand' = h /\ todo' = todo \ {h}
          /\ \/ box' = [box EXCEPT ![h.box] = "gone"] /\ UNCHANGED <<troubles, excused>>
             \/ /\ Trouble("terminate") /\ UNCHANGED box
                /\ excused' = excused \cup {<<"terminate", h.box>>}
    BY DEF Terminate
  <1>a. h \in Handles /\ h.box \in Boxes /\ Knows(h)
    BY DEF TypeOK, HandlesOK, Handles
  <1>b. /\ excused \subseteq excused' /\ excused' \subseteq ExcuseKinds \X Boxes
        /\ box'[h.box] = "gone" \/ <<"terminate", h.box>> \in excused'
        /\ \A b \in Boxes \ {h.box} : box'[b] = box[b]
        /\ box' \in [Boxes -> {"none", "live", "gone"}]
        /\ box[h.box] # "none" /\ box'[h.box] # "none"
    BY <1>0, <1>a DEF TypeOK, ExcuseKinds, FaultKinds, Knows
  <1>1. TypeOK'
    <2>1. troubles' \in 0..MaxTroubles
      BY <1>0, TroubleType DEF TypeOK
    <2> QED BY <1>0, <1>a, <1>b, <2>1 DEF Terminate, TypeOK, threads, launcher
  <1>2. AttemptsOK'
    <2>1. UNCHANGED <<token, pc, attempt>> /\ \A b \in Boxes : box'[b] = "none" <=> box[b] = "none"
      BY <1>b DEF Terminate, threads
    <2> QED BY <2>1 DEF AttemptsOK, Box
  <1>3. LaunchOK'
    BY StopperStep DEF Stopper
  <1>4. HandlesOK'
    BY <1>0, <1>a, <1>b DEF Terminate, HandlesOK, TypeOK, Handles, Knows, Excused
  <1>5. StopOK'
    <2>1. SUFFICES ASSUME via = "late", spc # "idle", LaunchOver, NEW c \in Boxes, Alive(c)'
                   PROVE  Attended(c)'
      BY DEF Terminate, StopOK, Attended, LaunchOver, launcher
    <2>2. CASE c = h.box
      BY <1>0, <1>b, <2>1, <2>2 DEF Attended, Alive, Excused
    <2>3. CASE c # h.box
      <3>1. Alive(c) /\ token'[c] = token[c] /\ inHand.box # c
        BY <1>b, <2>1, <2>3 DEF Alive, Terminate, HandlesOK, NoHandle, Boxes, Agents
      <3> QED BY <1>0, <1>b, <2>1, <2>3, <3>1 DEF StopOK, Attended, Excused, CostsToken
    <2> QED BY <2>2, <2>3
  <1>6. TokenAccounted'
    <2>1. \A b \in Boxes : inHand.box # b
      BY DEF Terminate, HandlesOK, NoHandle, Boxes, Agents
    <2> QED BY <1>0, <1>b, <2>1 DEF Terminate, TokenAccounted, Alive, Excused,
               LaunchAlive, Box, threads, launcher
  <1>7. ClearedOK'
    BY <1>b DEF Terminate, ClearedOK, LaunchOver, Excused, launcher
  <1> QED BY <1>1, <1>2, <1>3, <1>4, <1>5, <1>6, <1>7

LEMMA DeleteKeeps ==
  ASSUME IInv, Delete
  PROVE  IInv'
  <1> USE BoxFacts DEF IInv
  <1>0. PICK b \in Boxes : b = inHand.box /\ inHand \in Handles /\ Knows(inHand)
    BY DEF Delete, HandlesOK, Handles
  <1>b. /\ excused \subseteq excused' /\ excused' \subseteq ExcuseKinds \X Boxes
        /\ token'[b] = "live" => Excused(CostsToken, b)'
        /\ \A c \in Boxes \ {b} : token'[c] = token[c]
        /\ token' \in [Boxes -> {"none", "live", "deleted"}]
        /\ \A c \in Boxes : /\ token'[c] = "live" => token[c] = "live"
                            /\ token'[c] = "none" <=> token[c] = "none"
        /\ troubles' \in 0..MaxTroubles
        /\ token'[b] = "live" => Excused(Forgetting, b)'
    <2>1. CASE UNCHANGED <<token, troubles, excused>> /\ inHand.token # "id"
      BY <1>0, <2>1 DEF Knows, TypeOK, Excused, CostsToken, Forgetting
    <2>2. CASE token' = [token EXCEPT ![b] = IF @ = "live" THEN "deleted" ELSE @]
               /\ UNCHANGED <<troubles, excused>>
      BY <1>0, <2>2 DEF TypeOK
    <2>3. CASE /\ Trouble("delete") /\ UNCHANGED token
               /\ excused' = excused \cup {<<"delete", b>>}
      BY <1>0, <2>3, TroubleType DEF TypeOK, ExcuseKinds, FaultKinds, Excused, CostsToken,
         Forgetting
    <2> QED BY <1>0, <2>1, <2>2, <2>3 DEF Delete, DeleteToken
  <1>1. TypeOK'
    <2>1. cleared' \subseteq Boxes
      BY <1>0 DEF Delete, TypeOK
    <2> QED BY <1>b, <2>1 DEF Delete, TypeOK, threads, launcher
  <1>2. AttemptsOK'
    BY <1>b DEF Delete, AttemptsOK, threads, Box
  <1>3. LaunchOK'
    BY StopperStep DEF Stopper
  <1>4. HandlesOK'
    BY <1>b DEF Delete, HandlesOK, TypeOK, Handles, Knows, Excused
  <1>5. StopOK'
    <2>1. SUFFICES ASSUME via = "late", spc # "idle", LaunchOver, NEW c \in Boxes, Alive(c)'
                   PROVE  Attended(c)'
      BY DEF Delete, StopOK, Attended, LaunchOver, launcher
    <2>2. Alive(c) /\ todo' = todo
      BY <2>1 DEF Alive, Delete
    <2>3. CASE c = b
      BY <1>0, <1>b, <2>1, <2>2, <2>3 DEF StopOK, Attended, Excused
    <2>4. CASE c # b
      BY <1>0, <1>b, <2>1, <2>2, <2>4 DEF StopOK, Attended, Excused, CostsToken
    <2> QED BY <2>3, <2>4
  <1>6. TokenAccounted'
    BY <1>0, <1>b DEF Delete, TokenAccounted, Alive, Excused, LaunchAlive, Box,
                      threads, launcher
  <1>7. ClearedOK'
    BY <1>0, <1>b DEF Delete, ClearedOK, TypeOK, LaunchOver, Excused, launcher
  <1> QED BY <1>1, <1>2, <1>3, <1>4, <1>5, <1>6, <1>7

(* The token in hand is lost with the process only if its sandbox is gone, *)
(* and that excuses it.                                                    *)
LEMMA StopperDiesKeeps ==
  ASSUME IInv, StopperDies
  PROVE  IInv'
  <1> USE BoxFacts DEF IInv
  <1>0. /\ excused \subseteq excused' /\ excused' \subseteq ExcuseKinds \X Boxes
        /\ \A b \in Boxes : b = inHand.box /\ ~Alive(b) => Excused(CostsToken, b)'
    <2> DEFINE L == {c \in Boxes : c = inHand.box /\ ~Alive(c)}
    <2>1. excused' = excused \cup {<<"quit", b>> : b \in L}
      BY DEF StopperDies
    <2>2. "quit" \in ExcuseKinds /\ "quit" \in CostsToken /\ L \subseteq Boxes
      BY DEF ExcuseKinds, FaultKinds, CostsToken
    <2>3. {<<"quit", b>> : b \in L} \subseteq ExcuseKinds \X Boxes
      BY <2>2
    <2> QED BY <2>1, <2>2, <2>3 DEF TypeOK, Excused
  <1>a. /\ UNCHANGED <<box, token, running, pc, attempt, cursor, proxy, via, cleared, stops>>
        /\ spc' = "idle" /\ todo' = {} /\ inHand' = NoHandle
        /\ launch' = launch \/ (launch = "returned" /\ launch' = "dead")
    BY DEF StopperDies, ClearedOK, provider, threads
  <1>1. TypeOK'
    <2>1. troubles' \in 0..MaxTroubles
      BY TroubleType DEF StopperDies
    <2> QED BY <1>0, <1>a, <2>1 DEF TypeOK
  <1>2. AttemptsOK'
    BY <1>a DEF AttemptsOK, Box
  <1>3. LaunchOK'
    BY StopperStep DEF Stopper
  <1>4. HandlesOK' /\ StopOK'
    BY <1>a DEF HandlesOK, StopOK
  <1>5. ClearedOK'
    BY <1>0, <1>a DEF ClearedOK, LaunchOver, Excused
  <1>6. TokenAccounted'
    <2>1. SUFFICES ASSUME NEW b \in Boxes, token[b] = "live", ~Alive(b)
                   PROVE  \/ Excused(CostsToken, b)'
                          \/ /\ LaunchAlive'
                             /\ \E i \in Agents : Box(i)' = b /\ pc'[i] \in {"make", "release"}
      BY <1>a DEF TokenAccounted, Alive
    <2>2. CASE inHand.box = b
      BY <1>0, <2>1, <2>2
    <2>3. CASE Excused(CostsToken, b)
      BY <1>0, <2>3 DEF Excused
    <2>4. CASE LaunchAlive /\ \E i \in Agents : Box(i) = b /\ pc[i] \in {"make", "release"}
      <3>1. PICK i \in Agents : Box(i) = b /\ pc[i] \in {"make", "release"}
        BY <2>4
      <3>2. launch # "returned"
        BY <3>1, SwarmAssumption DEF LaunchOK, Agents, SwarmAssumption
      <3> QED BY <1>a, <2>4, <3>1, <3>2 DEF LaunchAlive, Box
    <2> QED BY <2>1, <2>2, <2>3, <2>4 DEF TokenAccounted
  <1> QED BY <1>1, <1>2, <1>3, <1>4, <1>5, <1>6

-----------------------------------------------------------------------------
LEMMA NextKeeps == IInv /\ [Next]_vars => IInv'
  <1> SUFFICES ASSUME IInv, [Next]_vars PROVE IInv'
    OBVIOUS
  <1>1. ASSUME NEW i \in Agents, Thread(i) PROVE IInv'
    BY <1>1, MovingKeeps, MintKeeps, ProxyRejectedKeeps, MakeKeeps,
       MakeFailsKeeps, ReleaseKeeps,
       WakeUpKeeps, StartKeeps DEF Thread
  <1>2. CASE Launcher
    BY <1>2, CollectKeeps, CollectFailsKeeps, RaiseKeeps DEF Launcher
  <1>3. CASE Die
    BY <1>3, DieKeeps
  <1>4. ASSUME NEW b \in Boxes, Expire(b) PROVE IInv'
    BY <1>4, ExpireKeeps
  <1>5. CASE Stopper
    BY <1>5, UseLaunchedKeeps, ReconnectKeeps, AskedKeeps, TerminateKeeps,
       DeleteKeeps, StopperDiesKeeps DEF Stopper
  <1>6. CASE UNCHANGED vars
    BY SMTT(60), <1>6 DEF vars, provider, threads, launcher, stopper, IInv, TypeOK, AttemptsOK,
                LaunchOK, HandlesOK, ClearedOK, StopOK, Attended, TokenAccounted, Knows, Excused, Alive,
                LaunchOver, LaunchAlive, Box
  <1> QED BY <1>1, <1>2, <1>3, <1>4, <1>5, <1>6 DEF Next

LEMMA InductiveIInv == Spec => []IInv
  <1>1. Init => IInv
    BY InitIInv
  <1>2. IInv /\ [Next]_vars => IInv'
    BY NextKeeps
  <1> QED BY <1>1, <1>2, PTL DEF Spec

(* For any number of agents, threads, retries and troubles the variables   *)
(* of a swarm keep to their types, and no agent is tried more often than   *)
(* CREATE_RETRIES.                                                         *)
THEOREM SwarmTypeCorrect == Spec => []TypeOK
  <1>1. IInv => TypeOK
    BY DEF IInv
  <1> QED BY <1>1, InductiveIInv, PTL

(* However the threads of a launch, its death, and later stops interleave: *)
(* a token that still lives has its sandbox, or is in somebody's hands, or *)
(* was lost to one of the failures that CostsToken names.                 *)
THEOREM TokensAccounted == Spec => []TokenAccounted
  <1>1. IInv => TokenAccounted
    BY DEF IInv
  <1> QED BY <1>1, InductiveIInv, PTL

(* No thread of the pool acts after the launch has returned, raised, or    *)
(* died, so that a later stop need not look twice.                         *)
THEOREM LaunchStaysOver == Spec => LaunchIsOver
  <1> DEFINE Quiet == /\ running' = running
                      /\ \A b \in Boxes : /\ box[b] # "live" => box'[b] # "live"
                                          /\ token[b] # "live" => token'[b] # "live"
  <1>1. IInv /\ [Next]_vars => [LaunchOver => Quiet]_vars
    <2> SUFFICES ASSUME IInv, Next, LaunchOver PROVE Quiet
      OBVIOUS
    <2>1. \A i \in Agents : ~Thread(i)
      BY ThreadStep DEF Thread, TakeAgent, LookUp, LookUpFails, Mint, ProxyRejected, Make,
         MakeFails, Release, WakeUp, Prepare, StartRelay, Start, StepFails, Uncaught, Over
    <2>2. CASE Launcher \/ Die
      BY <2>2 DEF Launcher, Die, Collect, CollectFails, Raise, provider
    <2>3. CASE \E b \in Boxes : Expire(b)
      BY <2>3 DEF IInv, TypeOK, Expire
    <2>4. CASE UseLaunched \/ Reconnect \/ Reconnected \/ ReconnectFails \/ Stopped
      BY <2>4 DEF UseLaunched, Reconnect, Reconnected, ReconnectFails, Stopped, provider
    <2>5. CASE Terminate
      BY <2>5 DEF IInv, TypeOK, Terminate
    <2>6. CASE Delete
      BY <2>6 DEF IInv, TypeOK, Delete, DeleteToken
    <2>7. CASE StopperDies
      BY <2>7 DEF StopperDies, provider
    <2> QED BY <2>1, <2>2, <2>3, <2>4, <2>5, <2>6, <2>7 DEF Next, Stopper
  <1> QED BY <1>1, InductiveIInv, PTL DEF Spec, LaunchIsOver

(* A stop of what was found after the launch, however that went, leaves no *)
(* sandbox and no token but those that a failed call has cost.             *)
THEOREM StopLeavesNothing == Spec => StopsAll
  <1> DEFINE Clean == \A b \in Boxes :
                        /\ Alive(b) => Excused({"terminate"}, b)
                        /\ token[b] = "live" => Excused(CostsToken, b)
  <1>1. IInv => [Stopped /\ via = "late" => Clean]_vars
    <2> SUFFICES ASSUME IInv, Stopped, via = "late" PROVE Clean
      OBVIOUS
    <2>1. LaunchOver /\ inHand = NoHandle
      BY DEF IInv, StopOK, HandlesOK, Stopped
    <2>2. \A b \in Boxes : Alive(b) => Excused({"terminate"}, b)
      BY DEF IInv, StopOK, Attended, Stopped
    <2>3. \A b \in Boxes : inHand.box # b
      BY <2>1 DEF NoHandle, Boxes, Agents
    <2>4. LaunchAlive => \A i \in Agents : pc[i] \in Over
      BY <2>1, SwarmAssumption
      DEF LaunchOver, LaunchAlive, IInv, LaunchOK, Over, Agents, SwarmAssumption
    <2>5. \A b \in Boxes : token[b] = "live" => Excused(CostsToken, b)
      BY <2>3, <2>4 DEF IInv, TokenAccounted, StopOK, Attended, Stopped, Over
    <2> QED BY <2>2, <2>5
  <1> QED BY <1>1, InductiveIInv, PTL DEF Spec, StopsAll

-----------------------------------------------------------------------------
(* The sandboxes of a launch.                                              *)

(* An agent that is done runs in the sandbox of its last attempt, and a    *)
(* sandbox that lives without its creation having raised is that of its    *)
(* agent's present attempt, which nobody will repeat.                      *)
Holding == {"prepare", "relay", "start", "done", "raised"}

Unrepeated ==
  /\ \A i \in Agents : pc[i] = "done" => Box(i) \in running
  /\ \A i \in Agents, k \in 1..Retries :
       Alive(<<i, k>>) =>
         \/ Excused({"late"}, <<i, k>>)
         \/ k = attempt[i] /\ pc[i] \in Holding

(* What any step but that of one agent's thread keeps.                     *)
LEMMA UnrepeatedApart ==
  ASSUME IInv, Unrepeated, running \subseteq running', excused \subseteq excused',
         UNCHANGED attempt,
         \A b \in Boxes : box'[b] = "live" => Alive(b),
         \A i \in Agents : pc'[i] = pc[i] \/ (pc[i] = "queued" /\ pc'[i] = "cancelled")
  PROVE  Unrepeated'
  <1>1. \A i \in Agents : pc[i] # "queued" => pc'[i] = pc[i]
    OBVIOUS
  <1>2. \A i \in Agents : pc'[i] = "done" => pc[i] = "done"
    OBVIOUS
  <1>3. \A i \in Agents : pc[i] \in Holding => pc'[i] = pc[i]
    BY <1>1 DEF Holding
  <1>4. \A i \in Agents, k \in 1..Retries :
          /\ Alive(<<i, k>>)' => Alive(<<i, k>>)
          /\ Excused({"late"}, <<i, k>>) => Excused({"late"}, <<i, k>>)'
    BY BoxFacts DEF IInv, Alive, Excused
  <1>5. \A i \in Agents : Box(i)' = Box(i)
    BY DEF Box
  <1> QED BY <1>2, <1>3, <1>4, <1>5 DEF Unrepeated

(* A step of an agent's thread is about its own present sandbox.           *)
LEMMA UnrepeatedThread ==
  ASSUME IInv, Unrepeated, NEW i \in Agents, Thread(i)
  PROVE  Unrepeated'
  <1> DEFINE Mine == /\ pc'[i] = "done" => Box(i)' \in running'
                     /\ \A k \in 1..Retries :
                          Alive(<<i, k>>)' =>
                            \/ Excused({"late"}, <<i, k>>)'
                            \/ k = attempt'[i] /\ pc'[i] \in Holding
             Apart == /\ \A j \in Agents \ {i} :
                           pc'[j] = pc[j] /\ attempt'[j] = attempt[j]
                      /\ \A j \in Agents \ {i}, k \in 1..Retries :
                           box'[<<j, k>>] = box[<<j, k>>]
                      /\ running \subseteq running' /\ excused \subseteq excused'
  <1> USE BoxFacts DEF IInv, TypeOK, Thread
  <1>1. ASSUME Mine, Apart PROVE Unrepeated'
    <2>1. \A j \in Agents \ {i} : pc'[j] = "done" => Box(j)' \in running'
      BY <1>1 DEF Unrepeated, Box
    <2>2. \A j \in Agents \ {i}, k \in 1..Retries :
            /\ Alive(<<j, k>>)' => Alive(<<j, k>>)
            /\ Excused({"late"}, <<j, k>>) => Excused({"late"}, <<j, k>>)'
      BY <1>1 DEF Alive, Excused
    <2>3. \A j \in Agents \ {i}, k \in 1..Retries :
            Alive(<<j, k>>)' => \/ Excused({"late"}, <<j, k>>)'
                                \/ k = attempt'[j] /\ pc'[j] \in Holding
      BY <1>1, <2>2 DEF Unrepeated
    <2> QED BY <1>1, <2>1, <2>3 DEF Unrepeated
  <1>2. CASE TakeAgent(i) \/ LookUp(i) \/ LookUpFails(i)
    <2>1. /\ pc'[i] \in {"lookup", "mint", "raised"} /\ pc[i] \notin Holding
          /\ UNCHANGED <<box, running, attempt, excused>>
      BY <1>2 DEF TakeAgent, LookUp, LookUpFails, Step, provider, Holding
    <2>2. Mine
      BY <2>1 DEF Unrepeated, Alive, Excused, Holding
    <2>3. Apart
      BY <1>2, <2>1 DEF TakeAgent, LookUp, LookUpFails, Step
    <2> QED BY <1>1, <2>2, <2>3
  <1>3. CASE Mint(i) \/ ProxyRejected(i)
    <2>1. /\ pc'[i] \in {"make", "raised"} /\ pc[i] \notin Holding
          /\ UNCHANGED <<box, running, attempt>> /\ excused \subseteq excused'
      BY <1>3 DEF Mint, ProxyRejected, Step, provider, Holding
    <2>2. Mine
      BY <2>1 DEF Unrepeated, Alive, Excused, Holding
    <2>3. Apart
      BY <1>3, <2>1 DEF Mint, ProxyRejected, Step
    <2> QED BY <1>1, <2>2, <2>3
  <1>4. CASE Make(i) \/ MakeFails(i)
    <2>1. /\ pc'[i] \in {"prepare", "release"} /\ pc[i] \notin Holding
          /\ UNCHANGED <<running, attempt>> /\ excused \subseteq excused'
          /\ \A b \in Boxes \ {Box(i)} : box'[b] = box[b]
      BY <1>4 DEF Make, MakeFails, Step, provider, Holding
    <2>2. \A k \in 1..Retries : k # attempt[i] =>
            (Alive(<<i, k>>)' => Excused({"late"}, <<i, k>>)')
      BY <2>1 DEF Unrepeated, Alive, Excused
    <2>3. Alive(Box(i))' => Excused({"late"}, Box(i))' \/ pc'[i] = "prepare"
      <3>1. CASE Make(i)
        BY <3>1 DEF Make, Step
      <3>2. CASE MakeFails(i)
        <4>1. box[Box(i)] = "none" /\ Box(i)' = Box(i)
          BY <3>2 DEF MakeFails, AttemptsOK, Step, Box
        <4>2. box' = box \/ <<"late", Box(i)>> \in excused'
          BY <3>2 DEF MakeFails
        <4> QED BY <4>1, <4>2 DEF Alive, Excused
      <3> QED BY <1>4, <3>1, <3>2
    <2>4. Mine
      BY <2>1, <2>2, <2>3 DEF Holding, Box
    <2>5. Apart
      BY <1>4, <2>1 DEF Make, MakeFails, Step
    <2> QED BY <1>1, <2>4, <2>5
  <1>5. CASE Release(i) \/ WakeUp(i)
    <2>1. /\ pc'[i] \in {"asleep", "failed", "lookup"}
          /\ pc[i] \in {"release", "asleep"}
          /\ UNCHANGED <<box, running>> /\ excused \subseteq excused'
      BY <1>5 DEF Release, ReleaseToken, TokenId, DeleteToken, WakeUp, Step, provider
    <2>2. Mine
      BY <2>1 DEF Unrepeated, Alive, Excused, Holding
    <2>3. Apart
      BY <1>5, <2>1 DEF Release, WakeUp, Step
    <2> QED BY <1>1, <2>2, <2>3
  <1>6. CASE Prepare(i) \/ StartRelay(i) \/ Start(i) \/ StepFails(i)
    <2>1. /\ pc'[i] \in {"relay", "start", "done", "raised"} /\ pc[i] \in Holding
          /\ UNCHANGED <<box, attempt, excused>> /\ running \subseteq running'
      BY <1>6 DEF Prepare, StartRelay, Start, StepFails, Uncaught, Step, provider, Holding
    <2>2. pc'[i] = "done" => Box(i) \in running'
      BY <1>6 DEF Prepare, StartRelay, Start, StepFails, Uncaught, Step
    <2>3. Mine
      BY <2>1, <2>2 DEF Unrepeated, Alive, Excused, Holding, Box
    <2>4. Apart
      BY <1>6, <2>1 DEF Prepare, StartRelay, Start, StepFails, Uncaught, Step
    <2> QED BY <1>1, <2>3, <2>4
  <1> QED BY <1>2, <1>3, <1>4, <1>5, <1>6

LEMMA UnrepeatedKeeps ==
  ASSUME IInv, Unrepeated, [Next]_vars
  PROVE  Unrepeated'
  <1> DEFINE Others == \/ (\E b \in Boxes : Expire(b)) \/ Stopper \/ UNCHANGED vars
  <1> USE DEF provider, threads, launcher, vars
  <1>1. CASE Launcher \/ Die
    <2>1. /\ UNCHANGED <<box, running, attempt>> /\ excused \subseteq excused'
          /\ \A i \in Agents :
               pc'[i] = pc[i] \/ (pc[i] = "queued" /\ pc'[i] = "cancelled")
      BY <1>1 DEF Launcher, Die, Collect, CollectFails, Raise
    <2> QED BY <2>1, UnrepeatedApart DEF Alive
  <1>2. CASE Others
    <2>1. UNCHANGED <<running, attempt, pc>> /\ excused \subseteq excused'
      BY <1>2 DEF Expire, Stopper, UseLaunched, Reconnect, Reconnected,
                  ReconnectFails, Terminate, Delete, DeleteToken, Stopped,
         StopperDies
    <2>2. \A b \in Boxes : box'[b] = "live" => Alive(b)
      BY <1>2 DEF IInv, TypeOK, Alive, Expire, Stopper, UseLaunched, Reconnect,
         Reconnected, ReconnectFails, Terminate, Delete, DeleteToken, Stopped,
         StopperDies
    <2> QED BY <2>1, <2>2, UnrepeatedApart
  <1> QED BY <1>1, <1>2, UnrepeatedThread DEF Next

LEMMA InductiveUnrepeated == Spec => []Unrepeated
  <1>1. Init => Unrepeated
    BY BoxFacts, InitIInv DEF IInv, Init, Unrepeated, Alive
  <1>2. IInv /\ Unrepeated /\ [Next]_vars => Unrepeated'
    BY UnrepeatedKeeps
  <1> QED BY <1>1, <1>2, InductiveIInv, PTL DEF Spec

(* The launched agents are in the sandboxes of their last attempts, as     *)
(* many of them.                                                           *)
LEMMA LaunchedBoxes == {h.box : h \in Launched} = {Box(i) : i \in Agents}
  <1> DEFINE Handle(i) ==
               [box   |-> Box(i),
                token |-> IF Box(i) \in cleared THEN "None" ELSE TokenId(Box(i))]
  <1>1. \A i \in Agents : Handle(i).box = Box(i)
    OBVIOUS
  <1>2. Launched = {Handle(i) : i \in Agents}
    BY DEF Launched
  <1> HIDE DEF Handle
  <1>3. \A h \in Launched : \E i \in Agents : h.box = Box(i)
    BY <1>1, <1>2
  <1>4. \A i \in Agents : \E h \in Launched : h.box = Box(i)
    BY <1>1, <1>2
  <1> QED BY <1>3, <1>4

LEMMA LaunchedCount ==
  ASSUME TypeOK
  PROVE  Cardinality({h.box : h \in Launched}) = Count
  <1> DEFINE S == {h.box : h \in Launched}
             f == [i \in 1..Count |-> Box(i)]
  <1>1. S = {Box(i) : i \in Agents}
    BY LaunchedBoxes
  <1>2. f \in Bijection(1..Count, S)
    <2>1. f \in [1..Count -> S]
      BY <1>1 DEF Agents
    <2>2. \A i, j \in 1..Count : f[i] = f[j] => i = j
      BY BoxFacts DEF Agents
    <2>3. \A b \in S : \E i \in 1..Count : f[i] = b
      BY <1>1 DEF Agents
    <2> QED BY <2>1, <2>2, <2>3 DEF Bijection, Injection, Surjection, IsInjective
  <1> QED
    BY <1>2, FS_CountingElements, SwarmAssumption DEF ExistsBijection, SwarmAssumption

(* However often creations failed and were repeated, and whatever ended or *)
(* was stopped meanwhile: a launch that returns has started as many runs   *)
(* as agents were asked for, each in its own sandbox, and leaves no other  *)
(* sandbox alive, but one whose creation raised.                           *)
THEOREM LaunchesItsCount == Spec => []LaunchKeepsCount
  <1>1. IInv /\ Unrepeated => LaunchKeepsCount
    <2> SUFFICES ASSUME IInv, Unrepeated, launch = "returned"
                 PROVE  LaunchKeepsCount
      BY DEF LaunchKeepsCount
    <2>1. \A i \in Agents : pc[i] = "done"
      BY SwarmAssumption DEF IInv, LaunchOK, Agents, SwarmAssumption
    <2>2. {h.box : h \in Launched} \cap running = {h.box : h \in Launched}
      BY <2>1, LaunchedBoxes DEF Unrepeated
    <2>3. ASSUME NEW b \in Boxes, Alive(b)
          PROVE  Excused({"late"}, b) \/ \E h \in Launched : h.box = b
      <3>1. PICK i \in Agents, k \in 1..Retries : b = <<i, k>>
        BY DEF Boxes
      <3>2. Excused({"late"}, b) \/ b = Box(i)
        BY <2>3, <3>1 DEF Unrepeated, Box
      <3>3. b = Box(i) => b \in {h.box : h \in Launched}
        BY LaunchedBoxes
      <3> QED BY <3>2, <3>3
    <2> QED BY <2>2, <2>3, LaunchedCount DEF IInv, LaunchKeepsCount
  <1> QED BY <1>1, InductiveIInv, InductiveUnrepeated, PTL
=============================================================================
