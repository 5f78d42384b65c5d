--------------------------- MODULE DashboardProofs ---------------------------
(***************************************************************************)
(* For any number of dashboards, pages, controllers, failures and crashes: *)
(* the variables of Dashboard keep to their types, and a process executes  *)
(* a request once, but for markers that could not be read.                 *)
(***************************************************************************)
EXTENDS Dashboard, SequenceTheorems, TLAPS

(* A thread in the critical section holds the lock of its process, and one *)
(* that is about to start a controller has found none alive.               *)
Locked ==
  \A b \in Browsers :
    /\ ask[b] \in {"check", "build"} => lock[At[b]] = b
    /\ ask[b] = "build" => ~Alive(entry[At[b]])

(* So the one controller of a process that is alive is the one it entered. *)
Single == \A c \in DOMAIN cpc : cpc[c] # "dead" => entry[home[c]] = c

(* A request that was executed, or is about to be, is marked.              *)
Marked ==
  /\ \A d \in Dashboards : ran[d] > 0 => handled
  /\ \A c \in DOMAIN cpc : cpc[c] = "execute" => handled

(* A controller between the check of the marker and the work is about to   *)
(* execute the request once more.                                          *)
Busy(d) == entry[d] # NoController /\ cpc[entry[d]] \in {"claim", "execute"}

Counted ==
  \A d \in Dashboards :
    /\ ran[d] <= 1 + misread
    /\ Busy(d) => ran[d] <= misread

IInv == TypeOK /\ Locked /\ Single /\ Marked /\ Counted

USE DEF volume, threads, drivers, ghosts, NoController

-----------------------------------------------------------------------------
LEMMA InitIInv == Init => IInv
  <1> SUFFICES ASSUME Init PROVE IInv
    OBVIOUS
  <1>1. TypeOK
    <2>1. home \in Seq(Dashboards) /\ cpc \in Seq(Places) /\ Len(home) = 0 /\ Len(cpc) = 0
      BY DashboardAssumption DEF DashboardAssumption, Init
    <2>2. \A d \in Dashboards : entry[d] = NoController
      BY DashboardAssumption DEF DashboardAssumption, Init
    <2>3. /\ entry \in [Dashboards -> Controllers \cup {NoController}]
          /\ lock \in [Dashboards -> Browsers \cup {Nobody}]
          /\ ask \in [Browsers -> {"idle", "ensure", "check", "build"}]
          /\ ran \in [Dashboards -> Nat]
      BY DashboardAssumption DEF DashboardAssumption, Init
    <2>4. /\ met \subseteq DOMAIN cpc /\ told \subseteq DOMAIN cpc
          /\ misread \in Nat /\ nfaults \in 0..MaxFaults /\ ncrashes \in 0..MaxCrashes
      BY DashboardAssumption DEF DashboardAssumption, Init
    <2>5. meta \in {"none", "whole", "bare"} /\ handled \in BOOLEAN /\ launched \in BOOLEAN
      BY DashboardAssumption DEF DashboardAssumption, Init
    <2>6. Len(cpc) = Len(home) /\ Len(home) <= MaxControllers
      BY <2>1, DashboardAssumption DEF DashboardAssumption
    <2> QED BY <2>1, <2>2, <2>3, <2>4, <2>5, <2>6 DEF TypeOK
  <1>2. Locked
    BY DashboardAssumption DEF DashboardAssumption, Init, Locked
  <1>3. DOMAIN cpc = {}
    BY DashboardAssumption DEF DashboardAssumption, Init
  <1>4. Single
    BY <1>3 DEF Single
  <1>5. Marked
    <2>1. \A d \in Dashboards : ran[d] = 0
      BY DashboardAssumption DEF DashboardAssumption, Init
    <2> QED BY <2>1, <1>3 DEF Marked
  <1>6. Counted
    <2>1. misread = 0 /\ \A d \in Dashboards : ran[d] = 0 /\ entry[d] = NoController
      BY DashboardAssumption DEF DashboardAssumption, Init
    <2>2. \A d \in Dashboards : ~Busy(d)
      BY <2>1 DEF Busy
    <2>3. ASSUME NEW d \in Dashboards PROVE ran[d] <= 1 + misread
      BY <2>1
    <2> QED BY <2>2, <2>3 DEF Counted
  <1> QED BY <1>1, <1>2, <1>4, <1>5, <1>6 DEF IInv

(* A controller's thread goes from one place to another.                   *)
LEMMA GotoType ==
  ASSUME TypeOK, NEW c, NEW label \in Places, c \in DOMAIN cpc, Goto(c, label)
  PROVE  /\ cpc' \in Seq(Places) /\ Len(cpc') = Len(cpc) /\ DOMAIN cpc' = DOMAIN cpc
         /\ cpc'[c] = label /\ \A k \in DOMAIN cpc : k # c => cpc'[k] = cpc[k]
  BY DEF TypeOK, Goto

(* A failure is counted, and nothing else.                                 *)
LEMMA FaultType ==
  ASSUME TypeOK, NEW kind, Fault(kind)
  PROVE  /\ nfaults' \in 0..MaxFaults
         /\ UNCHANGED <<ran, misread, ncrashes>>
  BY DashboardAssumption DEF TypeOK, Fault, DashboardAssumption

(* A new controller is numbered next, and entered.                         *)
LEMMA StartType ==
  ASSUME TypeOK, NEW b \in Browsers, StartController(b)
  PROVE  TypeOK'
  <1>1. At[b] \in Dashboards /\ MaxControllers \in Nat
    BY DashboardAssumption DEF DashboardAssumption
  <1>2. /\ home' \in Seq(Dashboards) /\ cpc' \in Seq(Places)
        /\ Len(cpc') = Len(cpc) + 1 /\ Len(home') = Len(home) + 1
        /\ home'[Len(home')] = At[b] /\ \A i \in 1..Len(home) : home'[i] = home[i]
    BY <1>1 DEF TypeOK, StartController, Places
  <1>3. entry' \in [Dashboards -> Controllers \cup {NoController}]
    BY <1>1, <1>2 DEF TypeOK, StartController, Controllers
  <1>4. \A d \in Dashboards :
          entry'[d] # NoController => entry'[d] <= Len(home') /\ home'[entry'[d]] = d
    BY <1>2 DEF TypeOK, StartController, Controllers
  <1>5. /\ lock' \in [Dashboards -> Browsers \cup {Nobody}]
        /\ ask' \in [Browsers -> {"idle", "ensure", "check", "build"}]
    BY <1>1 DEF TypeOK, StartController, Unlock
  <1>6. Len(home') <= MaxControllers /\ met' \subseteq DOMAIN cpc'
        /\ told' \subseteq DOMAIN cpc'
    BY <1>1, <1>2 DEF TypeOK, StartController
  <1>7. /\ meta' \in {"none", "whole", "bare"} /\ handled' \in BOOLEAN /\ launched' \in BOOLEAN
        /\ ran' \in [Dashboards -> Nat] /\ misread' \in Nat
        /\ nfaults' \in 0..MaxFaults /\ ncrashes' \in 0..MaxCrashes
        /\ Len(cpc') = Len(home')
    BY <1>2 DEF TypeOK, StartController
  <1> HIDE DEF StartController
  <1> QED BY <1>2, <1>3, <1>4, <1>5, <1>6, <1>7, Zenon DEF TypeOK

(* A page's thread changes nothing of the controllers but their number.    *)
LEMMA PageType ==
  ASSUME TypeOK, NEW b \in Browsers, Spawn(b) \/ Refresh(b) \/ Ensure(b)
  PROVE  TypeOK'
  <1>1. At[b] \in Dashboards
    BY DashboardAssumption DEF DashboardAssumption
  <1>2. CASE Spawn(b)
    BY <1>2, FaultType DEF TypeOK, Spawn
  <1>3. CASE ReadMeta(b)
    BY <1>3 DEF TypeOK, ReadMeta
  <1>4. CASE ReadNoMeta(b)
    BY <1>4, FaultType DEF TypeOK, ReadNoMeta
  <1>5. CASE Lock(b)
    BY <1>5, <1>1 DEF TypeOK, Lock
  <1>6. CASE CheckEntry(b)
    <2>1. /\ UNCHANGED <<volume, launched, entry, drivers, ghosts>>
          /\ \/ ask' = [ask EXCEPT ![b] = "idle"]
             \/ ask' = [ask EXCEPT ![b] = "build"]
          /\ \/ lock' = lock
             \/ lock' = [lock EXCEPT ![At[b]] = IF @ = b THEN Nobody ELSE @]
      BY <1>6 DEF CheckEntry, Unlock
    <2>2. /\ ask' \in [Browsers -> {"idle", "ensure", "check", "build"}]
          /\ lock' \in [Dashboards -> Browsers \cup {Nobody}]
      BY <2>1, <1>1 DEF TypeOK
    <2> QED BY <2>1, <2>2 DEF TypeOK
  <1>7. CASE NoEndpoint(b)
    BY <1>7, <1>1, FaultType DEF TypeOK, NoEndpoint, Unlock
  <1>8. CASE StartController(b)
    BY <1>8, StartType
  <1> QED BY <1>2, <1>3, <1>4, <1>5, <1>6, <1>7, <1>8 DEF Refresh, Ensure

LEMMA DriveType ==
  ASSUME TypeOK, NEW c \in Controllers, Drive(c)
  PROVE  TypeOK'
  <1>1. c \in DOMAIN cpc
    BY DEF Drive, WriteMeta, CheckMarker, Claim, Execute, MissMeta, PutSession, Report,
           Reached
  <1>2. home[c] \in Dashboards
    BY <1>1 DEF TypeOK
  <1>3. CASE WriteMeta(c)
    <2>1. cpc' \in Seq(Places) /\ Len(cpc') = Len(cpc) /\ DOMAIN cpc' = DOMAIN cpc
      BY <1>1, <1>3, GotoType DEF WriteMeta, PutFails, Places
    <2>2. meta' \in {"none", "whole", "bare"} /\ UNCHANGED <<handled, home, met, told, threads>>
      BY <1>3 DEF TypeOK, WriteMeta, PutFails
    <2>3. nfaults' \in 0..MaxFaults /\ UNCHANGED <<ran, misread, ncrashes>>
      BY <1>3, FaultType DEF TypeOK, WriteMeta, PutFails
    <2> QED BY <2>1, <2>2, <2>3 DEF TypeOK
  <1>4. CASE CheckMarker(c)
    <2>1. /\ nfaults' \in 0..MaxFaults /\ misread' \in Nat
          /\ met' \subseteq DOMAIN cpc
      <3>1. /\ met' \in {met, met \cup {c}}
            /\ \/ nfaults' = nfaults /\ misread' = misread
               \/ /\ nfaults < MaxFaults /\ nfaults' = nfaults + 1
                  /\ misread' = misread + 1
        BY <1>4 DEF CheckMarker
      <3>2. MaxFaults \in Nat /\ nfaults \in 0..MaxFaults /\ misread \in Nat
            /\ met \subseteq DOMAIN cpc
        BY DashboardAssumption DEF TypeOK, DashboardAssumption
      <3> QED BY <1>1, <3>1, <3>2
    <2>2. cpc' \in Seq(Places) /\ Len(cpc') = Len(cpc) /\ DOMAIN cpc' = DOMAIN cpc
      <3>1. cpc' = cpc \/ Goto(c, "claim")
        BY <1>4 DEF CheckMarker
      <3> QED BY <1>1, <3>1, GotoType DEF TypeOK, Places
    <2>3. UNCHANGED <<volume, threads, home, told, ran, ncrashes>>
      BY <1>4 DEF CheckMarker
    <2> QED BY <2>1, <2>2, <2>3 DEF TypeOK
  <1>5. CASE Claim(c)
    <2>1. cpc' \in Seq(Places) /\ Len(cpc') = Len(cpc) /\ DOMAIN cpc' = DOMAIN cpc
      <3>1. Goto(c, "execute") \/ Goto(c, "report")
        BY <1>5 DEF Claim, PutFails
      <3> QED BY <1>1, <3>1, GotoType DEF Places
    <2>2. /\ handled' \in BOOLEAN /\ met' \subseteq DOMAIN cpc
          /\ UNCHANGED <<meta, home, told, threads>>
      BY <1>1, <1>5 DEF TypeOK, Claim, PutFails
    <2>3. nfaults' \in 0..MaxFaults /\ UNCHANGED <<ran, misread, ncrashes>>
      BY <1>5, FaultType DEF TypeOK, Claim, PutFails
    <2> QED BY <2>1, <2>2, <2>3 DEF TypeOK
  <1>6. CASE Execute(c)
    BY <1>1, <1>2, <1>6, GotoType DEF TypeOK, Execute, Places
  <1>7. CASE Report(c)
    <2>1. cpc' \in Seq(Places) /\ Len(cpc') = Len(cpc) /\ DOMAIN cpc' = DOMAIN cpc
      <3>1. Goto(c, "tick") \/ Goto(c, "boot") \/ Goto(c, "dead")
        BY <1>7 DEF Report
      <3> QED BY <1>1, <3>1, GotoType DEF Places
    <2>2. /\ UNCHANGED <<volume, threads, home>>
          /\ met' \subseteq DOMAIN cpc /\ told' \subseteq DOMAIN cpc
      BY <1>7 DEF TypeOK, Report, Forget
    <2>3. nfaults' \in 0..MaxFaults /\ UNCHANGED <<ran, misread, ncrashes>>
      BY <1>7, FaultType DEF TypeOK, Report
    <2> QED BY <2>1, <2>2, <2>3 DEF TypeOK
  <1>8. CASE MissMeta(c) \/ PutSession(c)
    <2>1. cpc' \in Seq(Places) /\ Len(cpc') = Len(cpc) /\ DOMAIN cpc' = DOMAIN cpc
      <3>1. Goto(c, "tick") \/ Goto(c, "session")
        BY <1>8 DEF MissMeta, PutSession
      <3> QED BY <1>1, <3>1, GotoType DEF Places
    <2>2. /\ meta' \in {"none", "whole", "bare"} /\ told' \subseteq DOMAIN cpc
          /\ UNCHANGED <<handled, threads, home, met>>
      BY <1>1, <1>8 DEF TypeOK, MissMeta, PutSession
    <2>3. nfaults' \in 0..MaxFaults /\ UNCHANGED <<ran, misread, ncrashes>>
      BY <1>8, FaultType DEF TypeOK, MissMeta, PutSession
    <2> QED BY <2>1, <2>2, <2>3 DEF TypeOK
  <1> QED BY <1>3, <1>4, <1>5, <1>6, <1>7, <1>8 DEF Drive

LEMMA CrashType ==
  ASSUME TypeOK, NEW d \in Dashboards, Crash(d)
  PROVE  /\ TypeOK'
         /\ DOMAIN cpc' = DOMAIN cpc
         /\ \A c \in DOMAIN cpc : cpc'[c] = IF home[c] = d THEN "dead" ELSE cpc[c]
  <1> DEFINE place(c) == IF home[c] = d THEN "dead" ELSE cpc[c]
  <1>1. cpc' \in Seq(Places) /\ Len(cpc') = Len(cpc) /\ DOMAIN cpc' = DOMAIN cpc
    <2>1. cpc' = [c \in 1..Len(cpc) |-> place(c)]
      BY DEF TypeOK, Crash
    <2>2. \A c \in 1..Len(cpc) : place(c) \in Places
      BY DEF TypeOK, Places
    <2>3. Len(cpc) \in Nat
      BY DEF TypeOK
    <2> HIDE DEF place
    <2> QED BY <2>1, <2>2, <2>3
  <1> QED BY <1>1, DashboardAssumption DEF TypeOK, Crash, Forget, DashboardAssumption

-----------------------------------------------------------------------------
(* What a page's thread leaves alone, unless it starts a controller.       *)
PageKeeps == UNCHANGED <<handled, entry, drivers, ran, misread>>

LEMMA PageStep ==
  ASSUME TypeOK, NEW b \in Browsers,
         Spawn(b) \/ Refresh(b) \/ Lock(b) \/ CheckEntry(b) \/ NoEndpoint(b)
  PROVE  PageKeeps
  BY DEF Spawn, Refresh, ReadMeta, ReadNoMeta, Lock, CheckEntry, NoEndpoint,
         Fault, PageKeeps

(* A controller's thread moves alone, and not once it is dead.             *)
LEMMA DriveStep ==
  ASSUME TypeOK, NEW c \in Controllers, Drive(c)
  PROVE  /\ c \in DOMAIN cpc /\ cpc[c] # "dead" /\ DOMAIN cpc' = DOMAIN cpc
         /\ \A k \in DOMAIN cpc : k # c => cpc'[k] = cpc[k]
         /\ UNCHANGED <<home, threads>>
         /\ handled => handled'
  <1>1. c \in DOMAIN cpc /\ cpc[c] # "dead"
    BY DEF Drive, WriteMeta, CheckMarker, Claim, Execute, MissMeta, PutSession, Report,
           Reached
  <1>2. UNCHANGED <<home, threads>> /\ (handled => handled')
    BY DEF Drive, WriteMeta, CheckMarker, Claim, Execute, MissMeta, PutSession, Report,
           PutFails
  <1>3. cpc' = cpc \/ \E label \in Places : Goto(c, label)
    BY DEF Drive, WriteMeta, CheckMarker, Claim, Execute, MissMeta, PutSession, Report,
           PutFails, Places
  <1>4. /\ DOMAIN cpc' = DOMAIN cpc
        /\ \A k \in DOMAIN cpc : k # c => cpc'[k] = cpc[k]
    BY <1>1, <1>3, GotoType
  <1> QED BY <1>1, <1>2, <1>4

-----------------------------------------------------------------------------
(* Mutual exclusion in a process, and what the holder of its lock found.   *)
LEMMA LockedStep ==
  ASSUME IInv, [Next]_vars
  PROVE  Locked'
  <1> USE DEF IInv
  <1>1. \A b \in Browsers : At[b] \in Dashboards /\ b # Nobody
    BY DashboardAssumption DEF DashboardAssumption
  <1>2. CASE vars' = vars
    BY <1>2 DEF vars, Locked, Alive
  <1>3. ASSUME NEW b \in Browsers, Spawn(b) \/ Refresh(b) \/ Lock(b) \/ NoEndpoint(b)
        PROVE  Locked'
    <2>1. PageKeeps
      BY <1>3, PageStep
    <2>2. \A x \in Browsers : Alive(entry[At[x]])' = Alive(entry[At[x]])
      BY <2>1 DEF PageKeeps, Alive
    <2>3. CASE Spawn(b) \/ Refresh(b)
      BY <2>3, <2>2, <1>1 DEF TypeOK, Locked, Spawn, Refresh, ReadMeta, ReadNoMeta
    <2>4. CASE Lock(b)
      BY <2>4, <2>2, <1>1 DEF TypeOK, Locked, Lock
    <2>5. CASE NoEndpoint(b)
      BY <2>5, <2>2, <1>1 DEF TypeOK, Locked, NoEndpoint, Unlock
    <2> QED BY <1>3, <2>3, <2>4, <2>5
  <1>4. ASSUME NEW b \in Browsers, CheckEntry(b)
        PROVE  Locked'
    <2>1. \A x \in Browsers : Alive(entry[At[x]])' = Alive(entry[At[x]])
      BY <1>4, PageStep DEF PageKeeps, Alive
    <2>2. CASE Found(b)
      <3>1. /\ ask[b] = "check" /\ ask' = [ask EXCEPT ![b] = "idle"]
            /\ lock' = [lock EXCEPT ![At[b]] = IF @ = b THEN Nobody ELSE @]
        BY <1>4, <2>2 DEF CheckEntry, Unlock
      <3>2. \A x \in Browsers : x # b /\ ask[x] \in {"check", "build"} => At[x] # At[b]
        BY <3>1 DEF Locked
      <3> QED BY <3>1, <3>2, <2>1, <1>1 DEF TypeOK, Locked
    <2>3. CASE ~Found(b)
      <3>1. ~Alive(entry[At[b]])'
        BY <2>1, <2>3 DEF Found
      <3>2. /\ UNCHANGED lock /\ ask[b] = "check"
            /\ ask' = [ask EXCEPT ![b] = "build"]
        BY <1>4, <2>3 DEF CheckEntry
      <3> QED BY <3>1, <3>2, <2>1, <1>1 DEF TypeOK, Locked
    <2> QED BY <2>2, <2>3
  <1>5. ASSUME NEW b \in Browsers, StartController(b)
        PROVE  Locked'
    <2>1. ASSUME NEW x \in Browsers, ask'[x] \in {"check", "build"}
          PROVE  x # b /\ ask[x] = ask'[x] /\ lock[At[x]] = x /\ At[x] # At[b]
      BY <1>5, <2>1 DEF TypeOK, Locked, StartController
    <2>2. ASSUME NEW x \in Browsers, ask'[x] \in {"check", "build"}
          PROVE  lock'[At[x]] = x /\ entry'[At[x]] = entry[At[x]]
      BY <1>5, <1>1, <2>1, <2>2 DEF TypeOK, StartController, Unlock
    <2>3. ASSUME NEW x \in Browsers, ask'[x] = "build"
          PROVE  ~Alive(entry[At[x]])'
      <3>1. ~Alive(entry[At[x]]) /\ entry'[At[x]] = entry[At[x]]
        BY <2>1, <2>2, <2>3 DEF Locked
      <3>2. CASE entry[At[x]] = NoController
        BY <3>1, <3>2 DEF Alive
      <3>3. CASE entry[At[x]] # NoController
        <4>1. entry[At[x]] \in 1..Len(cpc) /\ cpc[entry[At[x]]] = "dead"
          BY <3>1, <3>3, <1>1, DashboardAssumption
             DEF TypeOK, Alive, Controllers, DashboardAssumption
        <4>2. \A i \in 1..Len(cpc) : cpc'[i] = cpc[i]
          BY <1>5 DEF TypeOK, StartController
        <4> QED BY <3>1, <4>1, <4>2 DEF Alive
      <3> QED BY <3>2, <3>3
    <2> QED BY <2>2, <2>3 DEF Locked
  <1>6. ASSUME NEW c \in Controllers, Drive(c)
        PROVE  Locked'
    <2>1. UNCHANGED <<ask, lock, entry>>
      BY <1>6, DriveStep
    <2>2. ASSUME NEW x \in Browsers, ask[x] = "build"
          PROVE  ~Alive(entry[At[x]])'
      <3>1. entry[At[x]] = NoController \/ cpc[entry[At[x]]] = "dead"
        BY <2>2 DEF Locked, Alive
      <3>2. entry[At[x]] # NoController => entry[At[x]] \in DOMAIN cpc
        BY <1>1, DashboardAssumption DEF TypeOK, Controllers, DashboardAssumption
      <3>3. entry[At[x]] # NoController => cpc'[entry[At[x]]] = "dead"
        BY <3>1, <3>2, <1>6, DriveStep
      <3> QED BY <2>1, <3>3 DEF Alive
    <2> QED BY <2>1, <2>2 DEF Locked
  <1>7. ASSUME NEW d \in Dashboards, Crash(d)
        PROVE  Locked'
    <2>1. ASSUME NEW x \in Browsers, ask'[x] \in {"check", "build"}
          PROVE  At[x] # d /\ ask'[x] = ask[x]
      BY <1>7, <2>1 DEF Crash
    <2>2. ASSUME NEW x \in Browsers, ask'[x] \in {"check", "build"}
          PROVE  lock'[At[x]] = x /\ entry'[At[x]] = entry[At[x]]
      BY <1>7, <1>1, <2>1, <2>2 DEF TypeOK, Crash, Locked
    <2>3. ASSUME NEW x \in Browsers, ask'[x] = "build"
          PROVE  ~Alive(entry[At[x]])'
      <3>1. ~Alive(entry[At[x]]) /\ entry'[At[x]] = entry[At[x]]
        BY <2>1, <2>2, <2>3 DEF Locked
      <3>2. entry[At[x]] # NoController => entry[At[x]] \in DOMAIN cpc
        BY <1>1, DashboardAssumption DEF TypeOK, Controllers, DashboardAssumption
      <3>3. entry[At[x]] # NoController => cpc'[entry[At[x]]] = "dead"
        BY <3>1, <3>2, <1>7, CrashType DEF Alive
      <3> QED BY <3>1, <3>3 DEF Alive
    <2> QED BY <2>2, <2>3 DEF Locked
  <1> QED BY <1>2, <1>3, <1>4, <1>5, <1>6, <1>7 DEF Next, Ensure

-----------------------------------------------------------------------------
(* No second controller is alive in a process.                             *)
LEMMA SingleStep ==
  ASSUME IInv, [Next]_vars
  PROVE  Single'
  <1> USE DEF IInv
  <1>1. \A b \in Browsers : At[b] \in Dashboards
    BY DashboardAssumption DEF DashboardAssumption
  <1>2. CASE vars' = vars
    BY <1>2 DEF vars, Single
  <1>3. ASSUME NEW b \in Browsers,
               Spawn(b) \/ Refresh(b) \/ Lock(b) \/ CheckEntry(b) \/ NoEndpoint(b)
        PROVE  Single'
    BY <1>3, PageStep DEF PageKeeps, Single
  <1>4. ASSUME NEW b \in Browsers, StartController(b)
        PROVE  Single'
    <2>1. ~Alive(entry[At[b]]) /\ At[b] \in Dashboards
      BY <1>4, <1>1 DEF Locked, StartController
    <2>2. /\ Len(cpc') = Len(cpc) + 1 /\ DOMAIN cpc' = 1..Len(cpc')
          /\ \A i \in 1..Len(cpc) : cpc'[i] = cpc[i] /\ home'[i] = home[i]
          /\ home'[Len(cpc')] = At[b]
      BY <1>4, <2>1 DEF TypeOK, StartController
    <2>3. entry' = [entry EXCEPT ![At[b]] = Len(cpc')]
      BY <1>4 DEF StartController
    <2>4. ASSUME NEW c \in DOMAIN cpc', cpc'[c] # "dead"
          PROVE  entry'[home'[c]] = c
      <3>1. CASE c = Len(cpc')
        BY <3>1, <2>1, <2>2, <2>3 DEF TypeOK
      <3>2. CASE c # Len(cpc')
        <4>1. c \in 1..Len(cpc) /\ cpc[c] # "dead" /\ home'[c] = home[c]
          BY <2>2, <2>4, <3>2 DEF TypeOK
        <4>2. entry[home[c]] = c /\ c # NoController /\ home[c] \in Dashboards
          BY <4>1 DEF Single, TypeOK
        <4>3. home[c] # At[b]
          BY <4>1, <4>2, <2>1 DEF Alive
        <4> QED BY <4>1, <4>2, <4>3, <2>1, <2>3 DEF TypeOK
      <3> QED BY <3>1, <3>2
    <2> QED BY <2>4 DEF Single
  <1>5. ASSUME NEW c \in Controllers, Drive(c)
        PROVE  Single'
    BY <1>5, DriveStep DEF Single
  <1>6. ASSUME NEW d \in Dashboards, Crash(d)
        PROVE  Single'
    <2>1. ASSUME NEW c \in DOMAIN cpc', cpc'[c] # "dead"
          PROVE  c \in DOMAIN cpc /\ home[c] # d /\ cpc[c] # "dead"
      BY <1>6, <2>1, CrashType
    <2>2. home' = home /\ \A x \in Dashboards : x # d => entry'[x] = entry[x]
      BY <1>6 DEF TypeOK, Crash
    <2>3. \A c \in DOMAIN cpc : home[c] \in Dashboards
      BY DEF TypeOK
    <2> QED BY <2>1, <2>2, <2>3 DEF Single
  <1> QED BY <1>2, <1>3, <1>4, <1>5, <1>6 DEF Next, Ensure

(* What is executed is marked before.                                      *)
LEMMA MarkedStep ==
  ASSUME IInv, [Next]_vars
  PROVE  Marked'
  <1> USE DEF IInv
  <1>1. CASE vars' = vars
    BY <1>1 DEF vars, Marked
  <1>2. ASSUME NEW b \in Browsers,
               Spawn(b) \/ Refresh(b) \/ Lock(b) \/ CheckEntry(b) \/ NoEndpoint(b)
        PROVE  Marked'
    BY <1>2, PageStep DEF PageKeeps, Marked
  <1>3. ASSUME NEW b \in Browsers, StartController(b)
        PROVE  Marked'
    <2>1. /\ DOMAIN cpc' = 1..(Len(cpc) + 1) /\ cpc'[Len(cpc) + 1] = "boot"
          /\ Len(cpc) \in Nat /\ DOMAIN cpc = 1..Len(cpc)
          /\ \A i \in 1..Len(cpc) : cpc'[i] = cpc[i]
      BY <1>3 DEF TypeOK, StartController
    <2>2. UNCHANGED <<handled, ran>>
      BY <1>3 DEF StartController
    <2>3. ASSUME NEW c \in DOMAIN cpc', cpc'[c] = "execute"
          PROVE  c \in DOMAIN cpc /\ cpc[c] = "execute"
      BY <2>1, <2>3
    <2> QED BY <2>2, <2>3 DEF Marked
  <1>4. ASSUME NEW c \in Controllers, Drive(c)
        PROVE  Marked'
    <2>1. cpc'[c] = "execute" => handled' /\ ran' = ran
      <3>1. c \in DOMAIN cpc /\ \A label \in Places : Goto(c, label) => cpc'[c] = label
        BY <1>4, DriveStep, GotoType
      <3>2. CASE \/ WriteMeta(c) \/ CheckMarker(c) \/ Execute(c)
                 \/ MissMeta(c) \/ PutSession(c) \/ Report(c)
        <4>1. cpc'[c] # "execute"
          BY <3>1, <3>2 DEF WriteMeta, CheckMarker, Execute, MissMeta, PutSession,
                            Report, PutFails, Reached, Places
        <4> QED BY <4>1
      <3>3. CASE Claim(c)
        BY <3>1, <3>3 DEF Claim, PutFails, Fault, Places
      <3> QED BY <1>4, <3>2, <3>3 DEF Drive
    <2>2. \A d \in Dashboards : ran'[d] > 0 => handled'
      <3>1. CASE Execute(c)
        BY <3>1 DEF Execute, Reached, Marked
      <3>2. CASE \/ WriteMeta(c) \/ CheckMarker(c) \/ Claim(c)
                 \/ MissMeta(c) \/ PutSession(c) \/ Report(c)
        <4>1. ran' = ran
          BY <3>2 DEF WriteMeta, CheckMarker, Claim, MissMeta, PutSession, Report,
                      PutFails, Fault
        <4> QED BY <4>1, <1>4, DriveStep DEF Marked
      <3> QED BY <1>4, <3>1, <3>2 DEF Drive
    <2>3. \A k \in DOMAIN cpc' : cpc'[k] = "execute" => handled'
      BY <1>4, <2>1, DriveStep DEF Marked
    <2> QED BY <2>2, <2>3 DEF Marked
  <1>5. ASSUME NEW d \in Dashboards, Crash(d)
        PROVE  Marked'
    <2>1. UNCHANGED <<handled, ran>>
      BY <1>5 DEF Crash
    <2> QED BY <2>1, <1>5, CrashType DEF Marked
  <1> QED BY <1>1, <1>2, <1>3, <1>4, <1>5 DEF Next, Ensure

(* The executions of a process, counted.                                   *)
LEMMA CountedStep ==
  ASSUME IInv, [Next]_vars
  PROVE  Counted'
  <1> USE DEF IInv
  <1>1. CASE vars' = vars
    BY <1>1 DEF vars, Counted, Busy
  <1>2. ASSUME NEW b \in Browsers,
               Spawn(b) \/ Refresh(b) \/ Lock(b) \/ CheckEntry(b) \/ NoEndpoint(b)
        PROVE  Counted'
    BY <1>2, PageStep DEF PageKeeps, Counted, Busy
  <1>3. ASSUME NEW b \in Browsers, StartController(b)
        PROVE  Counted'
    <2>1. UNCHANGED <<ran, misread>>
      BY <1>3 DEF StartController
    <2>2. At[b] \in Dashboards
      BY DashboardAssumption DEF DashboardAssumption
    <2>3. ASSUME NEW d \in Dashboards, Busy(d)'
          PROVE  Busy(d)
      <3>1. /\ cpc'[Len(cpc) + 1] = "boot" /\ Len(cpc') = Len(cpc) + 1
            /\ \A i \in 1..Len(cpc) : cpc'[i] = cpc[i]
        BY <1>3 DEF TypeOK, StartController
      <3>2. d # At[b]
        BY <1>3, <2>2, <2>3, <3>1 DEF TypeOK, StartController, Busy
      <3>3. entry'[d] = entry[d] /\ entry[d] # NoController
        BY <1>3, <2>2, <2>3, <3>2 DEF TypeOK, StartController, Busy
      <3>4. entry[d] \in 1..Len(cpc)
        BY <3>3, DashboardAssumption DEF TypeOK, Controllers, DashboardAssumption
      <3> QED BY <2>3, <3>1, <3>3, <3>4 DEF Busy
    <2> QED BY <2>1, <2>3 DEF Counted
  <1>4. ASSUME NEW c \in Controllers, Drive(c)
        PROVE  Counted'
    <2>0. PICK d \in Dashboards : d = home[c]
      BY <1>4, DriveStep DEF TypeOK
    <2>1. /\ c \in DOMAIN cpc /\ entry[d] = c /\ c # NoController
          /\ UNCHANGED <<home, entry>>
      BY <1>4, <2>0, DriveStep DEF TypeOK, Single
    <2>2. ASSUME NEW x \in Dashboards, x # d
          PROVE  Busy(x)' <=> Busy(x)
      <3>1. entry[x] # NoController => entry[x] \in DOMAIN cpc /\ entry[x] # c
        BY <2>1, <2>2, DashboardAssumption DEF TypeOK, Controllers, DashboardAssumption
      <3> QED BY <3>1, <2>1, <1>4, DriveStep DEF Busy
    <2>3. \A label \in Places : Goto(c, label) => cpc'[c] = label
      BY <2>1, GotoType
    <2>4. /\ Busy(d) <=> cpc[c] \in {"claim", "execute"}
          /\ Busy(d)' <=> cpc'[c] \in {"claim", "execute"}
      BY <2>1 DEF Busy
    <2>5. /\ \A x \in Dashboards : ran[x] \in Nat
          /\ misread \in Nat
      BY DEF TypeOK
    <2>6. CASE WriteMeta(c) \/ MissMeta(c) \/ PutSession(c) \/ Report(c)
      <3>1. /\ cpc'[c] \in {"boot", "tick", "session", "report", "dead"}
            /\ UNCHANGED <<ran, misread>>
        BY <2>3, <2>6 DEF WriteMeta, MissMeta, PutSession, Report, PutFails, Fault, Places
      <3> QED BY <3>1, <2>2, <2>4 DEF Counted
    <2>7. CASE Claim(c)
      <3>1. cpc[c] = "claim" /\ UNCHANGED <<ran, misread>>
        BY <2>7 DEF Claim, Reached, PutFails, Fault
      <3> QED BY <3>1, <2>2, <2>4 DEF Counted
    <2>8. CASE CheckMarker(c)
      <3>1. CASE handled /\ UNCHANGED <<cpc, ghosts>>
        BY <3>1, <2>2, <2>4 DEF Counted
      <3>2. CASE ~handled /\ UNCHANGED ghosts
        <4>1. \A x \in Dashboards : ran[x] = 0
          BY <3>2, <2>5 DEF Marked
        <4> QED BY <3>2, <4>1, <2>5 DEF Counted
      <3>3. CASE misread' = misread + 1 /\ ran' = ran
        BY <3>3, <2>5 DEF Counted
      <3> QED BY <2>8, <3>1, <3>2, <3>3 DEF CheckMarker
    <2>9. CASE Execute(c)
      <3>1. cpc[c] = "execute" /\ misread' = misread /\ cpc'[c] = "tick"
        BY <2>3, <2>9 DEF Execute, Reached, Places
      <3>2. ran' = [ran EXCEPT ![d] = ran[d] + 1]
        BY <2>0, <2>9 DEF Execute
      <3>3. ran'[d] = ran[d] + 1 /\ \A x \in Dashboards : x # d => ran'[x] = ran[x]
        BY <3>2, <2>1 DEF TypeOK
      <3>4. ran[d] <= misread
        BY <3>1, <2>1, <2>4 DEF Counted
      <3>5. ASSUME NEW x \in Dashboards
            PROVE  /\ ran'[x] <= 1 + misread'
                   /\ Busy(x)' => ran'[x] <= misread'
        <4>1. CASE x = d
          BY <4>1, <3>1, <3>3, <3>4, <2>1, <2>4, <2>5
        <4>2. CASE x # d
          BY <4>2, <3>1, <3>3, <2>2 DEF Counted
        <4> QED BY <4>1, <4>2
      <3> QED BY <3>5 DEF Counted
    <2> QED BY <1>4, <2>6, <2>7, <2>8, <2>9 DEF Drive
  <1>5. ASSUME NEW d \in Dashboards, Crash(d)
        PROVE  Counted'
    <2>1. UNCHANGED <<ran, misread>>
      BY <1>5 DEF Crash
    <2>2. ASSUME NEW x \in Dashboards, Busy(x)'
          PROVE  Busy(x)
      <3>1. x # d /\ entry'[x] = entry[x] /\ entry[x] # NoController
        BY <1>5, <2>2 DEF TypeOK, Crash, Busy
      <3>2. entry[x] \in DOMAIN cpc
        BY <3>1, DashboardAssumption DEF TypeOK, Controllers, DashboardAssumption
      <3>3. cpc'[entry[x]] = cpc[entry[x]] \/ cpc'[entry[x]] = "dead"
        BY <1>5, <3>2, CrashType
      <3> QED BY <2>2, <3>1, <3>3 DEF Busy
    <2> QED BY <2>1, <2>2 DEF Counted
  <1> QED BY <1>1, <1>2, <1>3, <1>4, <1>5 DEF Next, Ensure

-----------------------------------------------------------------------------
LEMMA NextIInv == IInv /\ [Next]_vars => IInv'
  <1> SUFFICES ASSUME IInv, [Next]_vars PROVE IInv'
    OBVIOUS
  <1>1. TypeOK'
    <2>1. TypeOK
      BY DEF IInv
    <2>2. CASE vars' = vars
      BY <2>1, <2>2 DEF vars, TypeOK
    <2> QED BY <2>1, <2>2, PageType, DriveType, CrashType DEF Next
  <1> QED BY <1>1, LockedStep, SingleStep, MarkedStep, CountedStep DEF IInv

LEMMA InductiveIInv == Spec => []IInv
  BY InitIInv, NextIInv, PTL DEF Spec

(* Every variable keeps to its type: in particular the controller that a   *)
(* process entered was started there.                                      *)
THEOREM DashboardTypeCorrect == Spec => []TypeOK
  <1>1. IInv => TypeOK
    BY DEF IInv
  <1> QED BY <1>1, InductiveIInv, PTL

(* However many pages, dashboards, restarts and failures: the threads of a *)
(* process execute a request once, and once more for each time its marker  *)
(* could not be read (_ensure_controller, _claim).                         *)
THEOREM RequestsRunOncePerDashboard == Spec => []OncePerDashboard
  <1>1. IInv => OncePerDashboard
    BY DEF IInv, Counted, OncePerDashboard
  <1> QED BY <1>1, InductiveIInv, PTL
=============================================================================
