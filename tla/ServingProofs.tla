---------------------------- MODULE ServingProofs ----------------------------
(***************************************************************************)
(* For any repository, base volume, number of containers, requests and     *)
(* faults: what prepare commits is complete, and a request reaches no      *)
(* engine of sglang that has not loaded.                                   *)
(***************************************************************************)
EXTENDS Serving, TLAPS

Healths == {"none", "loading", "bound", "ready", "hung", "stuck", "dead"}

(* A revision that is pinned is one there is, and what prepare will fetch  *)
(* is of it.                                                               *)
Pinned ==
    /\ prep.pc \notin {"idle", "info"} => prep.rev \in Revisions
    /\ prep.pc \notin {"idle", "info", "scan"} => prep.pending \subseteq DOMAIN Repo[prep.rev]

(* Between verifying and committing, prepare's files are complete.         *)
Checked == prep.pc = "commit" => Complete(disk, prep.rev)

(* An engine lives as long as its container, and the latch no longer.      *)
(* Requests that are held or asked have a container.                       *)
Housed ==
    /\ \A c \in Containers : state[c] = "off" => engine[c] = "none" /\ ~healthy[c]
    /\ \A q \in Requests : req[q] \in {"held", "asked"} => at[q] \in Containers

(* sglang does not listen before it has loaded; then the latch, and a      *)
(* request that was let through, mean that it has, or that it has hung or  *)
(* died since.                                                             *)
Loaded ==
    kind = "sglang" =>
        /\ \A c \in Containers : engine[c] # "bound"
        /\ \A c \in Containers : healthy[c] => engine[c] \in {"ready", "stuck", "dead"}
        /\ \A q \in Requests : req[q] = "asked" => engine[at[q]] \in {"ready", "stuck", "dead"}

DiskInv == TypeOK /\ Pinned /\ Checked /\ CommittedIsComplete
LatchInv == TypeOK /\ Housed /\ Loaded

-----------------------------------------------------------------------------
LEMMA TreesEdited ==
    ASSUME NEW tree \in Trees, NEW S \in SUBSET Files
    PROVE  [f \in Files |-> IF f \in S THEN "none" ELSE tree[f]] \in Trees
BY DEF Trees, Missing

LEMMA TreesLinked ==
    ASSUME NEW tree \in Trees, NEW S \in SUBSET Files
    PROVE  [f \in Files |-> IF f \in S THEN BaseDisk[f] ELSE tree[f]] \in Trees
BY ServingAssumption DEF Trees, Missing, ServingAssumption

LEMMA ContentOfRepo ==
    ASSUME NEW r \in Revisions, NEW f \in DOMAIN Repo[r]
    PROVE  Repo[r][f] \in Contents
BY ServingAssumption DEF ServingAssumption, Range

LEMMA InitTyped == Init => TypeOK
<1> SUFFICES ASSUME Init PROVE TypeOK
  OBVIOUS
<1>1. 1 \in Revisions /\ MaxTroubles \in Nat
  BY ServingAssumption DEF ServingAssumption
<1>2. disk \in Trees /\ saved \in Trees /\ view \in [Containers -> Trees]
  BY DEF Init, Trees, Missing
<1>3. prep \in [pc : {"idle", "info", "scan", "fetch", "link", "verify", "commit"},
                by : Deployers \cup {"nobody"}, rev : Revisions \cup {0},
                pending : SUBSET Files, reused : SUBSET Files]
  BY DEF Init, Idle
<1>4. /\ state \in [Containers -> {"off", "up", "exiting"}]
      /\ engine \in [Containers -> {"none", "loading", "bound", "ready", "hung", "stuck", "dead"}]
      /\ healthy \in [Containers -> BOOLEAN]
      /\ dpc \in [Deployers -> {"idle", "deployed", "preparing", "returned", "failed"}]
  BY DEF Init
<1>5. /\ req \in [Requests -> {"out", "sent", "held", "asked"} \cup Over]
      /\ at \in [Requests -> Containers \cup {"nowhere"}]
  BY DEF Init
<1>6. troubles \in 0..MaxTroubles
  BY <1>1 DEF Init
<1>7. /\ head \in Revisions /\ lastDone \in Revisions \cup {0} /\ torn \in BOOLEAN
      /\ limits \in Limits \cup {NoApp} /\ kind \in Kinds
      /\ poll \in {"out", "polling", "ready", "late", "rejected"}
  BY <1>1 DEF Init
<1> QED
  BY <1>2, <1>3, <1>4, <1>5, <1>6, <1>7 DEF TypeOK

(* What a step may count, and what a prepare that ends leaves.             *)
LEMMA TroubleTyped ==
    ASSUME TypeOK, NEW f, Trouble(f)
    PROVE  troubles' \in 0..MaxTroubles
BY ServingAssumption DEF TypeOK, Trouble, ServingAssumption

PrepType ==
    [pc : {"idle", "info", "scan", "fetch", "link", "verify", "commit"},
     by : Deployers \cup {"nobody"}, rev : Revisions \cup {0},
     pending : SUBSET Files, reused : SUBSET Files]
DpcType == [Deployers -> {"idle", "deployed", "preparing", "returned", "failed"}]

LEMMA EndTyped ==
    ASSUME TypeOK, NEW how \in {"returned", "failed"}, EndCall(how)
    PROVE  prep' \in PrepType /\ dpc' \in DpcType /\ prep'.pc = "idle"
<1>1. prep' = Idle
  BY DEF EndCall
<1>2. Idle \in PrepType /\ Idle.pc = "idle"
  BY DEF Idle, PrepType
<1>3. dpc \in DpcType
  BY DEF TypeOK, DpcType
<1>4. dpc' \in DpcType
  <2>1. CASE prep.by \in Deployers
    <3>1. dpc' = [dpc EXCEPT ![prep.by] = how]
      BY <2>1 DEF EndCall
    <3> QED BY <3>1, <2>1, <1>3 DEF DpcType
  <2>2. CASE prep.by \notin Deployers
    <3>1. dpc' = dpc
      BY <2>2 DEF EndCall
    <3> QED BY <3>1, <1>3
  <2> QED BY <2>1, <2>2
<1> QED BY <1>1, <1>2, <1>4

LEMMA GoneTyped ==
    ASSUME TypeOK, NEW c \in Containers, ContainerGone(c)
    PROVE  /\ state' \in [Containers -> {"off", "up", "exiting"}]
           /\ engine' \in [Containers -> Healths]
           /\ healthy' \in [Containers -> BOOLEAN]
           /\ req' \in [Requests -> {"out", "sent", "held", "asked"} \cup Over]
BY DEF TypeOK, ContainerGone, Over, Healths

-----------------------------------------------------------------------------
(* The types, in two parts that few actions share.                         *)
WeightsOK ==
    /\ head \in Revisions /\ disk \in Trees /\ saved \in Trees
    /\ prep \in PrepType
    /\ lastDone \in Revisions \cup {0} /\ torn \in BOOLEAN
    /\ dpc \in DpcType
RestOK ==
    /\ limits \in Limits \cup {NoApp}
    /\ state \in [Containers -> {"off", "up", "exiting"}]
    /\ view \in [Containers -> Trees]
    /\ engine \in [Containers -> Healths]
    /\ healthy \in [Containers -> BOOLEAN]
    /\ req \in [Requests -> {"out", "sent", "held", "asked"} \cup Over]
    /\ at \in [Requests -> Containers \cup {"nowhere"}]
    /\ poll \in {"out", "polling", "ready", "late", "rejected"}
    /\ kind \in Kinds /\ troubles \in 0..MaxTroubles

LEMMA TypeParts == TypeOK <=> WeightsOK /\ RestOK
BY DEF TypeOK, WeightsOK, RestOK, PrepType, DpcType, Healths

(* The steps of prepare.                                                   *)
Preparing == \/ PrepareStep \/ PrepareRaises \/ PrepareLost \/ BackgroundCommit \/ NewRevision
             \/ \E d \in Deployers : CallPrepare(d)

LEMMA WeightsTyped ==
    ASSUME TypeOK, Pinned, Preparing
    PROVE  WeightsOK' /\ Pinned'
<1>0. WeightsOK
  BY TypeParts
<1>a. ASSUME NEW how \in {"returned", "failed"}, EndCall(how),
             UNCHANGED <<head, saved>>, disk' \in Trees,
             lastDone' \in Revisions \cup {0}, torn' \in BOOLEAN
      PROVE  WeightsOK' /\ Pinned'
  <2>1. prep' \in PrepType /\ dpc' \in DpcType /\ prep'.pc = "idle"
    BY <1>a, EndTyped
  <2> QED BY <2>1, <1>a, <1>0 DEF WeightsOK, Pinned
<1>1. CASE PinRevision
  <2>1. UNCHANGED <<head, disk, saved, lastDone, torn>>
    BY <1>1 DEF PinRevision
  <2>2. CASE EndCall("failed")
    BY <2>1, <2>2, <1>a, <1>0 DEF WeightsOK
  <2>3. CASE prep' = [prep EXCEPT !.pc = "scan", !.rev = head] /\ UNCHANGED dpc
    BY <2>1, <2>3, <1>0 DEF WeightsOK, PrepType, Pinned
  <2> QED BY <1>1, <2>2, <2>3 DEF PinRevision
<1>2. CASE Scan
  <2>1. PICK S \in SUBSET Files, R \in SUBSET Files :
          /\ S \subseteq DOMAIN Repo[prep.rev]
          /\ prep' = [prep EXCEPT !.pc = "fetch", !.pending = S, !.reused = R]
          /\ disk' = [f \in Files |-> IF f \in S THEN "none" ELSE disk[f]]
    <3> DEFINE R == Reusable(prep.rev)
               S == {f \in DOMAIN Repo[prep.rev] \ R : ~Sized(disk, f, Repo[prep.rev][f])}
    <3>1. prep.rev \in Revisions
      BY <1>2 DEF Scan, Pinned
    <3>2. R \in SUBSET Files /\ S \in SUBSET Files /\ S \subseteq DOMAIN Repo[prep.rev]
      BY <3>1, ServingAssumption DEF ServingAssumption, Reusable
    <3>3. /\ prep' = [prep EXCEPT !.pc = "fetch", !.pending = S, !.reused = R]
          /\ disk' = [f \in Files |-> IF f \in S THEN "none" ELSE disk[f]]
      BY <1>2 DEF Scan
    <3> QED BY <3>2, <3>3
  <2>2. disk' \in Trees
    BY <2>1, <1>0, TreesEdited DEF WeightsOK
  <2>3. prep' \in PrepType /\ Pinned'
    BY <2>1, <1>0, <1>2 DEF WeightsOK, PrepType, Pinned, Scan
  <2> QED BY <2>2, <2>3, <1>2, <1>0 DEF Scan, WeightsOK
<1>3. ASSUME NEW f \in Files, FetchFile(f) PROVE WeightsOK' /\ Pinned'
  <2>1. Repo[prep.rev][f] \in Contents
    BY <1>3, ContentOfRepo DEF FetchFile, Pinned
  <2>2. PICK x \in Contents \cup Missing : disk' = [disk EXCEPT ![f] = x]
    BY <1>3, <2>1 DEF FetchFile, Missing
  <2>3. disk' \in Trees
    BY <2>2, <1>0 DEF WeightsOK, Trees
  <2>4. UNCHANGED <<head, saved, prep, lastDone, torn, dpc>>
    BY <1>3 DEF FetchFile
  <2> QED BY <2>3, <2>4, <1>0 DEF WeightsOK, Pinned
<1>4. CASE FetchEnds
  <2>1. prep' = [prep EXCEPT !.pc = "link"] /\ prep.pc = "fetch"
    BY <1>4 DEF FetchEnds
  <2>2. UNCHANGED <<head, disk, saved, lastDone, torn, dpc>>
    BY <1>4 DEF FetchEnds
  <2> QED BY <2>1, <2>2, <1>0 DEF WeightsOK, Pinned, PrepType
<1>5. CASE LinkBase
  <2>1. disk' \in Trees
    BY <1>5, <1>0, TreesLinked DEF LinkBase, WeightsOK, PrepType
  <2>2. prep' = [prep EXCEPT !.pc = "verify"] /\ prep.pc = "link"
    BY <1>5 DEF LinkBase
  <2>3. UNCHANGED <<head, saved, lastDone, torn, dpc>>
    BY <1>5 DEF LinkBase
  <2> QED BY <2>1, <2>2, <2>3, <1>0 DEF WeightsOK, Pinned, PrepType
<1>6. CASE Verify
  <2>1. UNCHANGED <<head, disk, saved, lastDone, torn>> /\ prep.pc = "verify"
    BY <1>6 DEF Verify
  <2>2. CASE EndCall("failed")
    BY <2>1, <2>2, <1>a, <1>0 DEF WeightsOK
  <2>3. CASE prep' = [prep EXCEPT !.pc = "commit"] /\ UNCHANGED dpc
    BY <2>1, <2>3, <1>0 DEF WeightsOK, PrepType, Pinned
  <2> QED BY <1>6, <2>2, <2>3 DEF Verify
<1>7. CASE Commit
  <2>1. prep' \in PrepType /\ dpc' \in DpcType /\ prep'.pc = "idle"
    BY <1>7, EndTyped DEF Commit
  <2>2. prep.rev \in Revisions
    BY <1>7 DEF Commit, Pinned
  <2> QED BY <2>1, <2>2, <1>7, <1>0 DEF Commit, WeightsOK, Pinned
<1>8. CASE PrepareRaises
  <2>1. EndCall("failed") /\ UNCHANGED <<head, disk, saved, lastDone, torn>>
    BY <1>8 DEF PrepareRaises
  <2> QED BY <2>1, <1>a, <1>0 DEF WeightsOK
<1>9. CASE PrepareLost
  <2>1. EndCall("failed") /\ disk' = saved /\ UNCHANGED <<head, saved, lastDone, torn>>
    BY <1>9 DEF PrepareLost
  <2> QED BY <2>1, <1>a, <1>0 DEF WeightsOK
<1>10. CASE BackgroundCommit
  BY <1>10, <1>0 DEF BackgroundCommit, WeightsOK, Pinned
<1>11. CASE NewRevision
  BY <1>11, <1>0 DEF NewRevision, WeightsOK, Pinned
<1>12. ASSUME NEW d \in Deployers, CallPrepare(d) PROVE WeightsOK' /\ Pinned'
  <2>1. /\ prep' = [Idle EXCEPT !.pc = "info", !.by = d]
        /\ dpc' = [dpc EXCEPT ![d] = "preparing"]
        /\ UNCHANGED <<head, disk, saved, lastDone, torn>>
    BY <1>12 DEF CallPrepare
  <2>2. prep' \in PrepType /\ Pinned'
    BY <2>1 DEF Idle, PrepType, Pinned
  <2>3. dpc' \in DpcType
    BY <2>1, <1>0 DEF WeightsOK, DpcType
  <2> QED BY <2>1, <2>2, <2>3, <1>0 DEF WeightsOK
<1> QED
  BY <1>1, <1>2, <1>3, <1>4, <1>5, <1>6, <1>7, <1>8, <1>9, <1>10, <1>11, <1>12
  DEF Preparing, PrepareStep

(* Files that were found complete are not touched before they are saved.   *)
LEMMA FilesChecked ==
    ASSUME DiskInv, Preparing
    PROVE  Checked' /\ CommittedIsComplete'
<1>0. TypeOK /\ Pinned /\ Checked /\ CommittedIsComplete
  BY DEF DiskInv
<1>1. CASE Verify
  <2>1. UNCHANGED <<disk, saved, lastDone, torn>>
    BY <1>1 DEF Verify
  <2>2. CommittedIsComplete'
    BY <2>1, <1>0 DEF CommittedIsComplete, Complete, Sized
  <2>3. CASE EndCall("failed")
    <3>1. prep'.pc = "idle"
      BY <2>3, <1>0, EndTyped
    <3> QED BY <3>1, <2>2 DEF Checked
  <2>4. CASE Verified /\ prep' = [prep EXCEPT !.pc = "commit"]
    <3>1. Complete(disk, prep.rev) /\ prep'.rev = prep.rev
      BY <2>4, <1>0 DEF Verified, TypeOK
    <3> QED BY <3>1, <2>1, <2>2 DEF Checked, Complete, Sized
  <2> QED BY <1>1, <2>3, <2>4 DEF Verify
<1>2. CASE Commit
  <2>1. prep'.pc = "idle"
    BY <1>2, <1>0, EndTyped DEF Commit
  <2>2. Complete(disk, prep.rev) /\ saved' = disk /\ lastDone' = prep.rev
    BY <1>2, <1>0 DEF Commit, Checked
  <2> QED BY <2>1, <2>2 DEF Checked, CommittedIsComplete, Complete, Sized
<1>3. CASE BackgroundCommit
  <2>1. torn' /\ UNCHANGED <<disk, prep>>
    BY <1>3 DEF BackgroundCommit
  <2> QED BY <2>1, <1>0 DEF Checked, CommittedIsComplete, Complete, Sized
<1>4. CASE NewRevision
  BY <1>4, <1>0 DEF NewRevision, Checked, CommittedIsComplete, Complete, Sized
<1>5. CASE \/ PinRevision \/ Scan \/ (\E f \in Files : FetchFile(f)) \/ FetchEnds \/ LinkBase
           \/ PrepareRaises \/ PrepareLost \/ \E d \in Deployers : CallPrepare(d)
  <2>1. UNCHANGED <<saved, lastDone, torn>>
    BY <1>5 DEF PinRevision, Scan, FetchFile, FetchEnds, LinkBase, PrepareRaises, PrepareLost,
                CallPrepare
  <2>2. CommittedIsComplete'
    BY <2>1, <1>0 DEF CommittedIsComplete, Complete, Sized
  <2>3. CASE EndCall("failed")
    <3>1. prep'.pc = "idle"
      BY <2>3, <1>0, EndTyped
    <3> QED BY <3>1, <2>2 DEF Checked
  <2>4. CASE \/ prep' = [prep EXCEPT !.pc = "scan", !.rev = head]
             \/ prep' = [prep EXCEPT !.pc = "link"] \/ prep' = [prep EXCEPT !.pc = "verify"]
             \/ Scan
             \/ \E d \in Deployers : prep' = [Idle EXCEPT !.pc = "info", !.by = d]
             \/ prep' = prep /\ prep.pc = "fetch"
    <3>1. prep'.pc # "commit"
      BY <2>4, <1>0 DEF TypeOK, Idle, Scan
    <3> QED BY <3>1, <2>2 DEF Checked
  <2> QED
    BY <1>5, <2>3, <2>4
    DEF PinRevision, FetchFile, FetchEnds, LinkBase, PrepareRaises, PrepareLost, CallPrepare
<1> QED BY <1>1, <1>2, <1>3, <1>4, <1>5 DEF Preparing, PrepareStep

-----------------------------------------------------------------------------
(* Prepare does not touch containers and requests, and the other way       *)
(* round.                                                                  *)
LEMMA PrepareLeavesRest ==
    ASSUME TypeOK, Preparing
    PROVE  RestOK' /\ UNCHANGED <<limits, containers, clients, kind>>
<1>0. RestOK
  BY TypeParts
<1>1. UNCHANGED <<limits, containers, clients, kind>>
  BY DEF Preparing, PrepareStep, PinRevision, Scan, FetchFile, FetchEnds, LinkBase, Verify, Commit,
         PrepareRaises, PrepareLost, BackgroundCommit, NewRevision, CallPrepare
<1>2. troubles' = troubles \/ \E f \in Faults : Trouble(f)
  BY DEF Preparing, PrepareStep, PinRevision, Scan, FetchFile, FetchEnds, LinkBase, Verify, Commit,
         PrepareRaises, PrepareLost, BackgroundCommit, NewRevision, CallPrepare, Trouble
<1>3. troubles' \in 0..MaxTroubles
  BY <1>0, <1>2, TroubleTyped DEF RestOK
<1> QED BY <1>0, <1>1, <1>3 DEF RestOK, containers, clients

Served ==
    \/ \E d \in Deployers : Deploy(d) \/ DeployFails(d)
    \/ \E c \in Containers : StartContainer(c) \/ ContainerStep(c) \/ EngineFails(c)
                             \/ GatewayCrashes(c) \/ Retire(c) \/ Health(c)
    \/ Scale \/ WaitReady \/ PollEnds
    \/ \E q \in Requests : Send(q) \/ RequestStep(q) \/ \E c \in Containers : Arrive(q, c)

LEMMA ServingLeavesWeights ==
    ASSUME WeightsOK, Served
    PROVE  WeightsOK' /\ UNCHANGED weights
<1>1. UNCHANGED weights
  BY DEF Served, Deploy, DeployFails, StartContainer, ContainerStep, EngineBinds, EngineLoads,
         WatchEngine, Shutdown, EngineFails, GatewayCrashes, Retire, Health, Scale, WaitReady,
         PollEnds, Send, RequestStep, Forward, GiveUp, Answer, Arrive
<1>2. dpc' \in DpcType
  <2>1. CASE \E d \in Deployers : Deploy(d) \/ DeployFails(d)
    <3>1. PICK d \in Deployers, x \in {"deployed", "failed"} : dpc' = [dpc EXCEPT ![d] = x]
      BY <2>1 DEF Deploy, DeployFails
    <3> QED BY <3>1 DEF WeightsOK, DpcType
  <2>2. CASE dpc' = dpc
    BY <2>2 DEF WeightsOK
  <2> QED
    BY <2>1, <2>2
    DEF Served, StartContainer, ContainerStep, EngineBinds, EngineLoads,
        WatchEngine, Shutdown, EngineFails, GatewayCrashes, Retire, Health, Scale, WaitReady,
        PollEnds, Send, RequestStep, Forward, GiveUp, Answer, Arrive
<1> QED BY <1>1, <1>2 DEF WeightsOK, weights

-----------------------------------------------------------------------------
(* What depends on containers and requests alone is kept when none of      *)
(* their own variables changes.                                            *)
LEMMA SameService ==
    ASSUME Housed, Loaded, UNCHANGED <<state, engine, healthy, req, at, kind>>
    PROVE  Housed' /\ Loaded'
BY DEF Housed, Loaded

(* The end of a container takes its latch, and its requests.               *)
LEMMA GoneIsSound ==
    ASSUME TypeOK, Housed, Loaded, NEW c \in Containers, ContainerGone(c),
           UNCHANGED <<limits, kind>>, troubles' \in 0..MaxTroubles
    PROVE  RestOK' /\ Housed' /\ Loaded'
<1>0. RestOK
  BY TypeParts
<1>1. RestOK'
  BY <1>0, GoneTyped DEF RestOK, ContainerGone
<1>2. /\ state' = [state EXCEPT ![c] = "off"] /\ engine' = [engine EXCEPT ![c] = "none"]
      /\ healthy' = [healthy EXCEPT ![c] = FALSE] /\ UNCHANGED at
  BY DEF ContainerGone
<1>3. \A q \in Requests : req'[q] \in {"held", "asked"} => at[q] # c /\ req[q] = req'[q]
  BY <1>0 DEF ContainerGone, RestOK, Over
<1>4. \A x \in Containers \ {c} : /\ state'[x] = state[x] /\ engine'[x] = engine[x]
                                  /\ healthy'[x] = healthy[x]
  BY <1>2, <1>0 DEF RestOK
<1>5. engine'[c] = "none" /\ ~healthy'[c]
  BY <1>2, <1>0 DEF RestOK
<1>6. Housed'
  <2>1. \A x \in Containers : state'[x] = "off" => engine'[x] = "none" /\ ~healthy'[x]
    BY <1>4, <1>5 DEF Housed
  <2>2. \A q \in Requests : req'[q] \in {"held", "asked"} => at'[q] \in Containers
    BY <1>2, <1>3 DEF Housed
  <2> QED BY <2>1, <2>2 DEF Housed
<1>7. ASSUME kind = "sglang" PROVE Loaded'
  <2>1. \A x \in Containers : engine'[x] # "bound"
    BY <1>7, <1>4, <1>5 DEF Loaded
  <2>2. \A x \in Containers : healthy'[x] => engine'[x] \in {"ready", "stuck", "dead"}
    BY <1>7, <1>4, <1>5 DEF Loaded
  <2>3. ASSUME NEW q \in Requests, req'[q] = "asked" PROVE engine'[at'[q]] \in {"ready", "stuck", "dead"}
    <3>1. at[q] \in Containers \ {c} /\ req[q] = "asked"
      BY <2>3, <1>3 DEF Housed
    <3>2. engine[at[q]] \in {"ready", "stuck", "dead"}
      BY <3>1, <1>7 DEF Loaded
    <3> QED BY <3>1, <3>2, <1>4, <1>2
  <2> QED BY <2>1, <2>2, <2>3 DEF Loaded
<1> QED BY <1>1, <1>6, <1>7 DEF Loaded

LEMMA ServingIsSound ==
    ASSUME LatchInv, Served
    PROVE  RestOK' /\ Housed' /\ Loaded'
<1>0. TypeOK /\ Housed /\ Loaded /\ RestOK
  BY TypeParts DEF LatchInv
<1>1. ASSUME NEW d \in Deployers, Deploy(d) \/ DeployFails(d) PROVE RestOK' /\ Housed' /\ Loaded'
  <2>1. UNCHANGED <<state, view, engine, healthy, req, at, poll, kind>>
    BY <1>1 DEF Deploy, DeployFails, containers, clients
  <2>2. limits' \in Limits \cup {NoApp}
    BY <1>1, <1>0 DEF Deploy, DeployFails, RestOK
  <2>3. troubles' \in 0..MaxTroubles
    BY <1>1, <1>0, TroubleTyped DEF Deploy, DeployFails, RestOK
  <2> QED BY <2>1, <2>2, <2>3, <1>0, SameService DEF RestOK
<1>2. ASSUME NEW c \in Containers, StartContainer(c) PROVE RestOK' /\ Housed' /\ Loaded'
  <2>1. /\ view' = [view EXCEPT ![c] = saved] /\ state' = [state EXCEPT ![c] = "up"]
        /\ engine' = [engine EXCEPT ![c] = "loading"] /\ healthy' = [healthy EXCEPT ![c] = FALSE]
        /\ UNCHANGED <<limits, req, at, poll, troubles, kind>>
        /\ state[c] = "off" /\ saved \in Trees
    BY <1>2, <1>0 DEF StartContainer, clients, TypeOK
  <2>2. RestOK'
    BY <2>1, <1>0 DEF RestOK, Healths
  <2>3. Housed'
    BY <2>1, <1>0 DEF Housed, RestOK
  <2>4. Loaded'
    <3>1. engine[c] = "none"
      BY <2>1, <1>0 DEF Housed
    <3>2. \A q \in Requests : kind = "sglang" /\ req[q] = "asked" => at[q] # c /\ at[q] \in Containers
      BY <3>1, <1>0 DEF Loaded, Housed
    <3> QED BY <3>2, <2>1, <1>0 DEF Loaded, RestOK
  <2> QED BY <2>2, <2>3, <2>4
<1>3. ASSUME NEW c \in Containers, \/ EngineBinds(c) \/ EngineLoads(c) \/ EngineFails(c)
      PROVE  RestOK' /\ Housed' /\ Loaded'
  <2>1. UNCHANGED <<limits, state, view, healthy, req, at, poll, kind>>
    BY <1>3 DEF EngineBinds, EngineLoads, EngineFails, clients
  <2>2. troubles' \in 0..MaxTroubles
    BY <1>3, <1>0, TroubleTyped DEF EngineBinds, EngineLoads, EngineFails, RestOK
  <2>3. PICK x \in {"bound", "ready", "dead", "hung", "stuck"} :
          /\ engine' = [engine EXCEPT ![c] = x]
          /\ engine[c] \in {"loading", "bound", "ready"}
          /\ x = "bound" => kind = "llamacpp"
          /\ x \notin {"ready", "stuck", "dead"} => engine[c] # "ready"
          /\ x = "stuck" => engine[c] \in {"bound", "ready"}
    BY <1>3 DEF EngineBinds, EngineLoads, EngineFails, Listens
  <2>4. RestOK'
    BY <2>1, <2>2, <2>3, <1>0 DEF RestOK, Healths
  <2>5. Housed'
    BY <2>1, <2>3, <1>0 DEF Housed, RestOK
  <2>6. ASSUME kind = "sglang" PROVE Loaded'
    <3>1. \A y \in Containers : engine'[y] # "bound"
      BY <2>6, <2>3, <1>0 DEF Loaded, RestOK
    <3>2. \A y \in Containers : engine[y] \in {"ready", "stuck", "dead"} => engine'[y] \in {"ready", "stuck", "dead"}
      BY <2>3, <1>0 DEF RestOK
    <3>3. \A y \in Containers : healthy'[y] => engine'[y] \in {"ready", "stuck", "dead"}
      BY <3>2, <2>1, <2>6, <1>0 DEF Loaded
    <3>4. \A q \in Requests : req'[q] = "asked" => engine'[at'[q]] \in {"ready", "stuck", "dead"}
      BY <3>2, <2>1, <2>6, <1>0 DEF Loaded, Housed
    <3> QED BY <3>1, <3>3, <3>4 DEF Loaded
  <2> QED BY <2>1, <2>4, <2>5, <2>6 DEF Loaded
<1>4. ASSUME NEW c \in Containers, WatchEngine(c) \/ Shutdown(c) \/ GatewayCrashes(c)
      PROVE  RestOK' /\ Housed' /\ Loaded'
  <2>1. ContainerGone(c) /\ UNCHANGED <<limits, kind>>
    BY <1>4 DEF WatchEngine, Shutdown, GatewayCrashes
  <2>2. troubles' \in 0..MaxTroubles
    BY <1>4, <1>0, TroubleTyped DEF WatchEngine, Shutdown, GatewayCrashes, RestOK
  <2> QED BY <2>1, <2>2, <1>0, GoneIsSound
<1>5. ASSUME NEW c \in Containers, Retire(c) PROVE RestOK' /\ Housed' /\ Loaded'
  <2>1. /\ state' = [state EXCEPT ![c] = "exiting"]
        /\ UNCHANGED <<limits, view, engine, healthy, req, at, poll, troubles, kind>>
    BY <1>5 DEF Retire, clients
  <2>2. RestOK'
    BY <2>1, <1>0 DEF RestOK
  <2>3. Housed' /\ Loaded'
    BY <2>1, <1>0 DEF Housed, Loaded, RestOK
  <2> QED BY <2>2, <2>3
<1>6. ASSUME NEW c \in Containers, Health(c) PROVE RestOK' /\ Housed' /\ Loaded'
  <2>1. /\ healthy' = [healthy EXCEPT ![c] = TRUE] /\ poll' = "ready"
        /\ UNCHANGED <<limits, state, view, engine, req, at, troubles, kind>>
        /\ state[c] = "up" /\ (healthy[c] \/ engine[c] = "ready")
    BY <1>6 DEF Health, Generates
  <2>2. RestOK'
    BY <2>1, <1>0 DEF RestOK
  <2>3. Housed' /\ Loaded'
    BY <2>1, <1>0 DEF Housed, Loaded, RestOK
  <2> QED BY <2>2, <2>3
<1>7. CASE Scale \/ WaitReady \/ PollEnds
  <2>1. UNCHANGED <<state, view, engine, healthy, req, at, kind>>
    BY <1>7 DEF Scale, WaitReady, PollEnds, containers, clients
  <2>2. /\ limits' \in Limits \cup {NoApp}
        /\ poll' \in {"out", "polling", "ready", "late", "rejected"}
    BY <1>7, <1>0 DEF Scale, WaitReady, PollEnds, RestOK, clients
  <2>3. troubles' \in 0..MaxTroubles
    BY <1>7, <1>0, TroubleTyped DEF Scale, WaitReady, PollEnds, RestOK
  <2> QED BY <2>1, <2>2, <2>3, <1>0, SameService DEF RestOK
<1>8. ASSUME NEW q \in Requests, Send(q) \/ GiveUp(q) \/ Answer(q)
      PROVE  RestOK' /\ Housed' /\ Loaded'
  <2>1. PICK x \in {"sent", "unready", "ok", "failed"} : req' = [req EXCEPT ![q] = x]
    BY <1>8 DEF Send, GiveUp, Answer
  <2>2. UNCHANGED <<limits, state, view, engine, healthy, at, poll, troubles, kind>>
    BY <1>8 DEF Send, GiveUp, Answer, containers
  <2>3. RestOK'
    BY <2>1, <2>2, <1>0 DEF RestOK, Over
  <2>4. Housed' /\ Loaded'
    BY <2>1, <2>2, <1>0 DEF Housed, Loaded, RestOK
  <2> QED BY <2>3, <2>4
<1>9. ASSUME NEW q \in Requests, Forward(q) PROVE RestOK' /\ Housed' /\ Loaded'
  <2>1. /\ healthy' = [healthy EXCEPT ![at[q]] = TRUE] /\ req' = [req EXCEPT ![q] = "asked"]
        /\ UNCHANGED <<limits, state, view, engine, at, poll, troubles, kind>>
        /\ healthy[at[q]] \/ engine[at[q]] \in {"bound", "ready", "stuck"}
        /\ at[q] \in Containers
    BY <1>9, <1>0 DEF Forward, Connectable, Listens, Housed
  <2>2. RestOK'
    BY <2>1, <1>0 DEF RestOK
  <2>3. state[at[q]] # "off"
    BY <2>1, <1>0 DEF Housed
  <2>4. Housed'
    BY <2>1, <2>3, <1>0 DEF Housed, RestOK
  <2>5. Loaded'
    BY <2>1, <1>0 DEF Loaded, RestOK
  <2> QED BY <2>2, <2>4, <2>5
<1>10. ASSUME NEW q \in Requests, NEW c \in Containers, Arrive(q, c)
       PROVE  RestOK' /\ Housed' /\ Loaded'
  <2>1. /\ req' = [req EXCEPT ![q] = "held"] /\ at' = [at EXCEPT ![q] = c]
        /\ UNCHANGED <<limits, state, view, engine, healthy, poll, troubles, kind>>
    BY <1>10 DEF Arrive, containers
  <2>2. RestOK'
    BY <2>1, <1>0 DEF RestOK
  <2>3. Housed' /\ Loaded'
    BY <2>1, <1>0 DEF Housed, Loaded, RestOK
  <2> QED BY <2>2, <2>3
<1> QED
  BY <1>1, <1>2, <1>3, <1>4, <1>5, <1>6, <1>7, <1>8, <1>9, <1>10
  DEF Served, ContainerStep, RequestStep

-----------------------------------------------------------------------------
ServingInv == DiskInv /\ LatchInv

LEMMA InvInit == Init => ServingInv
<1> SUFFICES ASSUME Init PROVE ServingInv
  OBVIOUS
<1>1. TypeOK
  BY InitTyped
<1>2. Pinned /\ Checked /\ CommittedIsComplete
  BY DEF Init, Idle, Pinned, Checked, CommittedIsComplete
<1>3. Housed /\ Loaded
  BY DEF Init, Housed, Loaded
<1> QED BY <1>1, <1>2, <1>3 DEF ServingInv, DiskInv, LatchInv

LEMMA InvStep == ServingInv /\ [Next]_vars => ServingInv'
<1> SUFFICES ASSUME ServingInv, [Next]_vars PROVE ServingInv'
  OBVIOUS
<1>0. DiskInv /\ LatchInv /\ TypeOK /\ WeightsOK
  BY TypeParts DEF ServingInv, DiskInv
<1>1. CASE Preparing
  <2>1. WeightsOK' /\ Pinned'
    BY <1>0, <1>1, WeightsTyped DEF DiskInv
  <2>2. Checked' /\ CommittedIsComplete'
    BY <1>0, <1>1, FilesChecked
  <2>3. RestOK' /\ UNCHANGED <<containers, clients, kind>>
    BY <1>0, <1>1, PrepareLeavesRest
  <2>4. Housed' /\ Loaded'
    BY <2>3, <1>0, SameService DEF LatchInv, containers, clients
  <2>5. TypeOK'
    BY <2>1, <2>3 DEF TypeOK, WeightsOK, RestOK, PrepType, DpcType, Healths
  <2> QED BY <2>1, <2>2, <2>4, <2>5 DEF ServingInv, DiskInv, LatchInv
<1>2. CASE Served
  <2>1. WeightsOK' /\ UNCHANGED weights
    BY <1>0, <1>2, ServingLeavesWeights
  <2>2. RestOK' /\ Housed' /\ Loaded'
    BY <1>0, <1>2, ServingIsSound
  <2>3. Pinned' /\ Checked' /\ CommittedIsComplete'
    BY <2>1, <1>0 DEF weights, DiskInv, Pinned, Checked, CommittedIsComplete, Complete, Sized
  <2>4. TypeOK'
    BY <2>1, <2>2 DEF TypeOK, WeightsOK, RestOK, PrepType, DpcType, Healths
  <2> QED BY <2>2, <2>3, <2>4 DEF ServingInv, DiskInv, LatchInv
<1>3. CASE UNCHANGED vars
  <2>1. TypeOK' /\ Pinned' /\ Checked' /\ CommittedIsComplete'
    BY <1>3, <1>0 DEF vars, weights, containers, clients, DiskInv, TypeOK, Pinned, Checked,
                      CommittedIsComplete, Complete, Sized
  <2>2. Housed' /\ Loaded'
    BY <1>3, <1>0, SameService DEF vars, containers, clients, LatchInv
  <2> QED BY <2>1, <2>2 DEF ServingInv, DiskInv, LatchInv
<1> QED BY <1>1, <1>2, <1>3 DEF Next, Preparing, Served

LEMMA InvAlways == Spec => []ServingInv
BY InvInit, InvStep, PTL DEF Spec

(* Types of the weights, the containers and the requests: every step of    *)
(* deploy, prepare, serve and the gateway keeps to them.                   *)
THEOREM ServingTypeCorrect == Spec => []TypeOK
<1>1. ServingInv => TypeOK
  BY DEF ServingInv, DiskInv
<1> QED BY <1>1, InvAlways, PTL

(* prepare (serve.py) commits nothing but the complete files of the        *)
(* revision it pinned, whatever comes upstream while it runs.              *)
THEOREM CommitsAreComplete == Spec => []CommittedIsComplete
<1>1. ServingInv => CommittedIsComplete
  BY DEF ServingInv, DiskInv
<1> QED BY <1>1, InvAlways, PTL

(* _ensure_engine_ready and /health (gateway/server.py) with an engine     *)
(* that listens when it has loaded: no request gets to one that has not.   *)
THEOREM LatchesAreLive == Spec => []LatchIsLive
<1>1. ServingInv => LatchIsLive
  BY DEF ServingInv, LatchInv, Loaded, LatchIsLive
<1> QED BY <1>1, InvAlways, PTL
=============================================================================
