---------------------------- MODULE HarnessProofs ----------------------------
(***************************************************************************)
(* Theorems about what stands between a harness and the rest: the runner   *)
(* that drives it (Runner), the proxy it dials through (Tunnel) and the    *)
(* gateway that streams it its answers (GatewayStream).                    *)
(***************************************************************************)
EXTENDS Runner, Tunnel, GatewayStream, SequenceTheorems, TLAPS

-----------------------------------------------------------------------------
(* Runner, for every number of attempts without progress, every number of  *)
(* compaction retries and every kind of interruption.                      *)

(* While the run is driven the no-progress guard has not tripped, and the  *)
(* attempts since the last new tool call are all counted, as an attempt or *)
(* as a retry.                                                             *)
Counted ==
  /\ pc \notin {"last", "exit"} => noProgress < MaxNoProgress
  /\ idle <= noProgress + retries

(* Where the run is over, interrupted or has a child.                      *)
Stops ==
  /\ Over => pc \in {"last", "exit"}
  /\ interrupted # "none" => pc \in {"last", "exit"}
  /\ active => pc \in {"watch", "collect", "last", "exit"}
  /\ child = "alive" /\ interrupted = "none" => pc \in {"register", "watch"}
  /\ child = "alive" /\ active => pc = "watch" \/ (pc = "exit" /\ ~Over)

(* The follower's last read comes after the run was over.                  *)
Follows ==
  /\ fpc \in {"final", "ended"} => Over
  /\ fpc = "ended" => ~owed

Budgets == CountersOK /\ Counted
Places  == PlacesOK /\ Stops /\ Follows

-----------------------------------------------------------------------------
USE DEF vars, spec, counters, locals, process, follower, fate

(* Only an exit, a retry and a counted attempt touch the counters, and an  *)
(* attempt that is over or ended is not resumed.                           *)
LEMMA CountersChange ==
  ASSUME [Next]_vars
  PROVE  \/ /\ UNCHANGED <<noProgress, retries, idle>>
            /\ pc' \notin {"last", "exit"} => pc \notin {"last", "exit"}
         \/ Leave \/ RetryCompaction \/ CountProgress
  <1>1. CASE Drive
    BY <1>1
    DEF Drive, OpenStatus, SetupFails, StartDrive, LastWords, StopAtTop,
        ArgvFails, BeginAttempt, Popen, SpawnFails, Register, Watch, Collect,
        Parse, Conclude, Finish, Exit
  <1>2. CASE Interruption
    BY <1>2 DEF Interruption, Signal, DriveRaises, Break, Record, SignalInSetup,
       Killed, Exit
  <1>3. CASE Harness \/ DeadlinePasses \/ CancelRun \/ Follow \/ UNCHANGED vars
    BY <1>3 DEF Harness, ChildExits, ReadLateLine, PrintLine, ReadLine,
       DeadlinePasses, CancelRun, Follow
  <1> QED BY <1>1, <1>2, <1>3 DEF Next

LEMMA BudgetsInit == Init => Budgets
  BY RunnerAssumption DEF RunnerAssumption, Init, Budgets, CountersOK, Counted

LEMMA BudgetsStep == Budgets /\ [Next]_vars => Budgets'
  <1> SUFFICES ASSUME Budgets, [Next]_vars PROVE Budgets'
    OBVIOUS
  <1> USE RunnerAssumption DEF RunnerAssumption, Budgets, CountersOK, Counted
  <1>1. CASE /\ UNCHANGED <<noProgress, retries, idle>>
             /\ pc' \notin {"last", "exit"} => pc \notin {"last", "exit"}
    BY <1>1
  <1>2. CASE Leave
    BY <1>2 DEF Leave
  <1>3. CASE RetryCompaction
    BY <1>3 DEF RetryCompaction, GoesOn, IdleAttempts
  <1>4. CASE CountProgress
    <2>1. CASE Progress
      BY <1>4, <2>1 DEF CountProgress, GoesOn, IdleAttempts, Finish
    <2>2. CASE ~Progress
      BY <1>4, <2>2 DEF CountProgress, GoesOn, IdleAttempts, Finish
    <2> QED BY <2>1, <2>2
  <1> QED BY <1>1, <1>2, <1>3, <1>4, CountersChange

-----------------------------------------------------------------------------
LEMMA PlacesInit == Init => Places
  BY DEF Init, Places, PlacesOK, Stops, Follows, Over, GoalStates, TerminalStates

(* The steps of the runner before and between the attempts.                *)
LEMMA SetupStep ==
  ASSUME Places, OpenStatus \/ SetupFails \/ StartDrive \/ LastWords
  PROVE  Places'
  <1> USE DEF Places, PlacesOK, Stops, Follows, Over, GoalStates, Lines,
              TerminalStates, Exit, Leave, Emit
  <1>1. CASE OpenStatus
    BY <1>1 DEF OpenStatus
  <1>2. CASE SetupFails
    BY <1>2 DEF SetupFails
  <1>3. CASE StartDrive
    BY <1>3 DEF StartDrive
  <1>4. CASE LastWords
    <2>1. PlacesOK'
      BY ZenonT(60), <1>4 DEF LastWords
    <2>2. Stops'
      BY <1>4 DEF LastWords
    <2>3. Follows'
      BY <1>4 DEF LastWords
    <2> QED BY <2>1, <2>2, <2>3
  <1> QED BY <1>1, <1>2, <1>3, <1>4

(* An attempt is begun, or the run ends before it.                         *)
LEMMA BeginStep ==
  ASSUME Places,
         StopAtTop \/ ArgvFails \/ BeginAttempt \/ Popen \/ SpawnFails \/ Register
  PROVE  Places'
  <1> USE DEF Places, PlacesOK, Stops, Follows, Over, GoalStates, Lines,
              TerminalStates, Finish, Emit
  <1>1. CASE StopAtTop
    BY <1>1 DEF StopAtTop
  <1>2. CASE ArgvFails
    BY <1>2 DEF ArgvFails
  <1>3. CASE BeginAttempt
    BY <1>3 DEF BeginAttempt
  <1>4. CASE Popen
    BY <1>4 DEF Popen
  <1>5. CASE SpawnFails
    BY <1>5 DEF SpawnFails
  <1>6. CASE Register
    BY <1>6 DEF Register
  <1> QED BY <1>1, <1>2, <1>3, <1>4, <1>5, <1>6

(* The child has ended or is killed, and its output is looked at.          *)
LEMMA EndStep ==
  ASSUME Places, Watch \/ Collect \/ Parse \/ Conclude
  PROVE  Places'
  <1> USE DEF Places, PlacesOK, Stops, Follows, Over, GoalStates, Lines,
              TerminalStates, Finish, Emit
  <1>1. CASE Watch
    BY <1>1 DEF Watch, StopReasons, KillTree, KillNothing
  <1>2. CASE Collect
    BY ZenonT(60), <1>2 DEF Collect
  <1>3. CASE Parse
    BY <1>3 DEF Parse
  <1>4. CASE Conclude
    BY <1>4 DEF Conclude, NongoalStates
  <1> QED BY <1>1, <1>2, <1>3, <1>4

(* The goal is not over: the attempt is accounted for.                     *)
LEMMA AccountStep ==
  ASSUME Places, RetryCompaction \/ CountProgress
  PROVE  Places'
  <1> USE DEF Places, PlacesOK, Stops, Follows, Over, GoalStates, Lines,
              TerminalStates, Finish, Emit, GoesOn, IdleAttempts
  <1>1. CASE RetryCompaction
    BY <1>1 DEF RetryCompaction
  <1>2. CASE CountProgress
    <2>1. CASE Progress
      BY <1>2, <2>1 DEF CountProgress
    <2>2. CASE ~Progress
      BY <1>2, <2>2 DEF CountProgress
    <2> QED BY <2>1, <2>2
  <1> QED BY <1>1, <1>2

(* A signal or an error in _drive: the child that is registered dies, and  *)
(* the state is recorded or the process ends without.                      *)
LEMMA BreakStep ==
  ASSUME Places,
         NEW s \in {"cancelled", "failed"}, NEW kind \in {"signal", "error"},
         Break(s), Interrupt(kind)
  PROVE  Places'
  <1> USE DEF Places, PlacesOK, Stops, Follows, Over, GoalStates, Lines,
              TerminalStates, Interrupt, Break
  <1>1. /\ child' \in {"none", "alive", "exited"} /\ code' \in {0, 1}
        /\ child' = "alive" => child = "alive" /\ ~active
    BY DEF KillActive, KillTree, KillNothing
  <1>2. UNCHANGED <<spec, expired, cancel, follower, goalState, active>>
    BY DEF Record, Leave
  <1>3. /\ {late', session'} \subseteq BOOLEAN /\ unwritten' \in BOOLEAN
        /\ reason' \in {"none", "timeout", "cancelled"}
        /\ lines' \subseteq Lines /\ pipe' = {}
    BY DEF Record, Leave
  <1>4. state' \in {state, s} /\ pc' \in {"last", "exit"}
    BY DEF Record, Leave
  <1>5. PlacesOK'
    BY <1>1, <1>2, <1>3, <1>4
  <1>6. Stops'
    BY <1>1, <1>2, <1>4
  <1>7. Follows'
    BY <1>2, <1>4
  <1> QED BY <1>5, <1>6, <1>7

LEMMA InterruptStep ==
  ASSUME Places, Interruption
  PROVE  Places'
  <1> USE DEF Places, PlacesOK, Stops, Follows, Over, GoalStates, Lines,
              TerminalStates, Interrupt
  <1>1. CASE Signal
    BY <1>1, BreakStep DEF Signal
  <1>2. CASE SignalInSetup
    BY <1>2 DEF SignalInSetup, Exit, Leave
  <1>3. CASE DriveRaises
    BY <1>3, BreakStep DEF DriveRaises
  <1>4. CASE Killed
    BY ZenonT(60), <1>4 DEF Killed, Exit, Leave
  <1> QED BY <1>1, <1>2, <1>3, <1>4 DEF Interruption

LEMMA HarnessStep ==
  ASSUME Places, Harness
  PROVE  Places'
  <1> USE DEF Places, PlacesOK, Stops, Follows, Over, GoalStates, Lines,
              TerminalStates, Emit
  <1>1. CASE ChildExits
    BY <1>1 DEF ChildExits
  <1>2. CASE ReadLateLine
    <2>1. PlacesOK'
      <3>1. {unread', owed', late'} \subseteq BOOLEAN
        BY <1>2 DEF ReadLateLine
      <3>2. UNCHANGED <<spec, expired, cancel, state, pc, locals, active, child,
                        code, pipe, fpc, fate>>
        BY <1>2 DEF ReadLateLine
      <3> QED BY <3>1, <3>2
    <2>2. Stops'
      BY <1>2 DEF ReadLateLine
    <2>3. Follows'
      BY <1>2 DEF ReadLateLine
    <2> QED BY <2>1, <2>2, <2>3
  <1>3. ASSUME NEW k \in Lines, PrintLine(k)
        PROVE  Places'
    BY <1>3 DEF PrintLine
  <1>4. ASSUME NEW k \in Lines, ReadLine(k)
        PROVE  Places'
    BY <1>4 DEF ReadLine
  <1> QED BY <1>1, <1>2, <1>3, <1>4 DEF Harness

LEMMA FollowStep == Places /\ Follow => Places'
  <1>1. PlacesOK /\ Follow => PlacesOK'
    BY DEF Follow, FollowRead, FollowCheck, FollowFinal, PlacesOK
  <1>2. Stops /\ Follow => Stops'
    BY DEF Follow, Stops, Over
  <1>3. Follows /\ Follow => Follows'
    BY DEF Follow, FollowRead, FollowCheck, FollowFinal, Follows, Over
  <1> QED BY <1>1, <1>2, <1>3 DEF Places

LEMMA OutsideStep ==
  ASSUME Places, DeadlinePasses \/ CancelRun \/ UNCHANGED vars
  PROVE  Places'
  <1> USE DEF Places, PlacesOK, Stops, Follows, Over, GoalStates, Lines,
              TerminalStates
  <1>1. CASE DeadlinePasses
    BY <1>1 DEF DeadlinePasses
  <1>2. CASE CancelRun
    BY <1>2 DEF CancelRun
  <1>3. CASE UNCHANGED vars
    BY <1>3
  <1> QED BY <1>1, <1>2, <1>3

LEMMA PlacesStep == Places /\ [Next]_vars => Places'
  BY SetupStep, BeginStep, EndStep, AccountStep, InterruptStep, HarnessStep,
     FollowStep, OutsideStep
  DEF Next, Drive

LEMMA Invariance == Spec => [](Budgets /\ Places)
  BY BudgetsInit, BudgetsStep, PlacesInit, PlacesStep, PTL DEF Spec

-----------------------------------------------------------------------------
(* Every variable keeps to its type; the counters to their bounds.         *)
THEOREM RunnerTypeCorrect == Spec => []TypeOK
  <1>1. Budgets /\ Places => TypeOK
    BY DEF Budgets, Places, TypeOK
  <1> QED BY <1>1, Invariance, PTL

(* No harness outlives its run, unless the runner was interrupted between  *)
(* starting and registering it.                                            *)
THEOREM NoHarnessLeft == Spec => []HarnessStopped
  <1>1. Places => HarnessStopped
    BY DEF Places, Stops, HarnessStopped, Over
  <1> QED BY <1>1, Invariance, PTL

(* Attempts without a new tool call are bounded by the two budgets.        *)
THEOREM WedgedRunsEnd == Spec => []WedgedRunEnds
  <1>1. Budgets => WedgedRunEnds
    BY RunnerAssumption DEF Budgets, CountersOK, Counted, WedgedRunEnds, RunnerAssumption
  <1> QED BY <1>1, Invariance, PTL

(* A follower returns only after it has read what the run left.            *)
THEOREM FollowersSeeAll == Spec => []FollowerSeesAll
  <1>1. Places => FollowerSeesAll
    BY DEF Places, Follows, FollowerSeesAll
  <1> QED BY <1>1, Invariance, PTL

(* A run that is over stays over: once it is, the runner has only its last *)
(* line to write, and an interruption writes another terminal state.       *)
THEOREM RunsStayOver == Spec => TerminalStays
  <1>1. Places /\ [Next]_vars => (state \in TerminalStates => state' \in TerminalStates)
    <2> SUFFICES ASSUME Places, [Next]_vars, state \in TerminalStates
                 PROVE  state' \in TerminalStates
      OBVIOUS
    <2>1. pc \in {"last", "exit"}
      BY DEF Places, Stops, Over
    <2>2. CASE Drive
      BY <2>1, <2>2 DEF Drive, OpenStatus, SetupFails, StartDrive, LastWords,
         StopAtTop, ArgvFails, BeginAttempt, Popen, SpawnFails, Register, Watch,
         Collect, Parse, Conclude, RetryCompaction, CountProgress, GoesOn
    <2>3. CASE Interruption
      BY <2>3 DEF Interruption, Signal, DriveRaises, SignalInSetup, Killed,
         Break, Record, TerminalStates
    <2>4. CASE Harness \/ DeadlinePasses \/ CancelRun \/ Follow \/ UNCHANGED vars
      BY <2>4 DEF Harness, ChildExits, ReadLateLine, PrintLine, ReadLine,
         DeadlinePasses, CancelRun, Follow
    <2> QED BY <2>2, <2>3, <2>4 DEF Next
  <1> QED BY <1>1, Invariance, PTL DEF Spec, TerminalStays

-----------------------------------------------------------------------------
(* What a connection has before it carries anything: an answer is owed     *)
(* from the head of the request on.                                        *)
NetPlaces ==
  /\ stage = "head" => checked = Nowhere
  /\ stage \in {"head", "dial", "shake"} => dialled = Nowhere
  /\ stage \in {"head", "dial"} => hs = "none" /\ uopen = FALSE
  /\ stage = "shake" => proxy # "none"
  /\ stage = "head" => reply = "none"
  /\ stage \in {"dial", "shake", "reply"} => reply = "owed"
  /\ stage \in {"head", "dial", "shake", "reply"} => pipes["up"] = "off"
  /\ stage = "splice" => reply \in {"200", "forwarded"}

(* The policy lets only public addresses through, and the forward proxy    *)
(* goes nowhere else.                                                      *)
Leads(a) == IF a.inner = "none" THEN a.outer ELSE a.inner

Vetted ==
  /\ checked # Nowhere => Leads(checked) = "global"
  /\ listener = "forward" => dialled \in {Nowhere, checked}

(* Steps other than the handler's leave it alone; an end that is lost      *)
(* remains so, and only a splice moves the pipes.                          *)
LEMMA NetAside ==
  ASSUME \/ DnsChanges
         \/ \E d \in Dirs : \/ PipeStep(d) \/ SendChunk(d)
                                \/ SendEof(d) \/ Stall(d)
         \/ \E p \in {"client", "remote"} : Reset(p)
         \/ UNCHANGED tunnelVars
  PROVE  /\ UNCHANGED <<listener, proxy, ask, checked, dialled, stage, hs, uopen, reply>>
         /\ gone \subseteq gone'
         /\ stage = "splice" \/ UNCHANGED <<pipes, why>>
  BY DEF DnsChanges, PipeStep, ReadChunk, ReadEnd, ReadIdle,
         WriteChunk, Piping, SendChunk, SendEof, Stall, Reset,
         tunnelVars, fixed, handler, flow, ends

LEMMA NetPlacesInit == TunnelInit => NetPlaces
  BY DEF TunnelInit, NetPlaces, Dirs

LEMMA NetPlacesStep == NetPlaces /\ [TunnelNext]_tunnelVars => NetPlaces'
  <1> SUFFICES ASSUME NetPlaces, [TunnelNext]_tunnelVars PROVE NetPlaces'
    OBVIOUS
  <1> USE DEF NetPlaces, Refuse, Accept, fixed, flow, ends, Nowhere
  <1>1. CASE NoHead
    BY <1>1 DEF NoHead
  <1>2. CASE Resolve
    BY <1>2 DEF Resolve
  <1>3. CASE AcceptHead
    BY <1>3 DEF AcceptHead
  <1>4. CASE Dial
    BY <1>4 DEF Dial
  <1>5. CASE DialFails
    BY <1>5 DEF DialFails
  <1>6. CASE Shake
    BY <1>6 DEF Shake
  <1>7. CASE ShakeFails
    BY <1>7 DEF ShakeFails
  <1>8. CASE Reply
    BY <1>8 DEF Reply
  <1>9. CASE ReplyFails
    BY <1>9 DEF ReplyFails
  <1>10. CASE CloseTunnel
    BY <1>10 DEF CloseTunnel
  <1>11. CASE /\ UNCHANGED <<proxy, checked, dialled, stage, hs, uopen, reply>>
              /\ stage = "splice" \/ UNCHANGED <<pipes, why>>
    BY <1>11
  <1> QED BY <1>1, <1>2, <1>3, <1>4, <1>5, <1>6, <1>7, <1>8, <1>9, <1>10, <1>11, NetAside
          DEF TunnelNext, HandlerStep

LEMMA VettedInit == TunnelInit => Vetted
  BY DEF TunnelInit, Vetted, Nowhere

(* Only Resolve lets an address through; it has looked at it.              *)
LEMMA VettedStep == NetPlaces /\ Vetted /\ [TunnelNext]_tunnelVars => Vetted'
  <1> SUFFICES ASSUME NetPlaces, Vetted, [TunnelNext]_tunnelVars PROVE Vetted'
    OBVIOUS
  <1> USE DEF Vetted, fixed
  <1>1. ASSUME NEW a \in Address, Public(a) PROVE Leads(a) = "global"
    BY <1>1 DEF Address, Public, Leads
  <1>2. CASE Resolve
    <2>1. checked = Nowhere /\ dialled = Nowhere
      BY <1>2 DEF NetPlaces, Resolve
    <2>2. dialled' = dialled
      BY <1>2 DEF Resolve, Refuse, Accept
    <2>3. CASE checked' = checked
      BY <2>1, <2>2, <2>3
    <2>4. CASE \E a \in Address : Allowed(a) /\ checked' = a
      BY <1>1, <2>1, <2>2, <2>4 DEF Allowed
    <2> QED BY <1>2, <2>3, <2>4 DEF Resolve, Refuse
  <1>3. CASE Dial \/ Shake
    <2>1. checked' = checked /\ dialled' \in {dialled, Destination} /\ listener' = listener
      BY <1>3 DEF Dial, Shake
    <2>2. listener = "forward" => Destination = checked
      BY DEF Destination
    <2> QED BY <2>1, <2>2
  <1>4. CASE NoHead \/ AcceptHead \/ DialFails \/ ShakeFails \/ Reply
             \/ ReplyFails \/ CloseTunnel
    BY <1>4 DEF NoHead, AcceptHead, DialFails, ShakeFails, Reply,
                ReplyFails, CloseTunnel, Refuse, Accept
  <1>5. CASE UNCHANGED <<listener, checked, dialled>>
    BY <1>5
  <1> QED BY <1>2, <1>3, <1>4, <1>5, NetAside DEF TunnelNext, HandlerStep

(* What is true of a connection that has ended; it stays so.               *)
Finished == NoUpstreamLeft /\ Answered

LEMMA EndedInit == TunnelInit => Finished
  BY DEF TunnelInit, Finished, NoUpstreamLeft, Answered

LEMMA EndedStep == NetPlaces /\ Finished /\ [TunnelNext]_tunnelVars => Finished'
  <1> SUFFICES ASSUME NetPlaces, Finished, [TunnelNext]_tunnelVars PROVE Finished'
    OBVIOUS
  <1> USE DEF Finished, NoUpstreamLeft, Answered, fixed
  <1>1. CASE stage' # "closed"
    BY <1>1
  <1>2. CASE NoHead \/ Resolve \/ AcceptHead \/ DialFails
    <2>1. CASE Refuse("none")
      BY <1>2, <2>1 DEF NetPlaces, NoHead, Resolve, AcceptHead, DialFails,
                        Refuse
    <2>2. ASSUME NEW answer \in {"400", "403", "502"}, Refuse(answer)
          PROVE  Finished'
      BY <1>2, <2>2 DEF NetPlaces, NoHead, Resolve, AcceptHead, DialFails,
                        Refuse
    <2> QED BY <1>1, <1>2, <2>1, <2>2
            DEF NoHead, Resolve, AcceptHead, DialFails, Accept, NetPlaces
  <1>3. CASE Dial \/ Shake \/ Reply
    BY <1>1, <1>3 DEF Dial, Shake, Reply
  <1>4. CASE ShakeFails
    BY <1>4 DEF NetPlaces, ShakeFails, CloseUpstream, Unsendable
  <1>5. CASE ReplyFails
    BY <1>5 DEF NetPlaces, ReplyFails, Peer, ends, flow
  <1>6. CASE CloseTunnel
    BY <1>6 DEF NetPlaces, CloseTunnel, flow
  <1>7. CASE /\ UNCHANGED <<listener, proxy, ask, checked, dialled, stage, hs, uopen, reply>>
             /\ gone \subseteq gone'
             /\ stage = "splice" \/ UNCHANGED <<pipes, why>>
    BY <1>1, <1>7 DEF Peer
  <1> QED BY <1>2, <1>3, <1>4, <1>5, <1>6, <1>7, NetAside DEF TunnelNext, HandlerStep

LEMMA NetInvariance == TunnelSpec => [](NetPlaces /\ Vetted /\ Finished)
  BY NetPlacesInit, NetPlacesStep, VettedInit, VettedStep, EndedInit, EndedStep, PTL
  DEF TunnelSpec

(* The forward proxy dials the very address its policy let through, and it *)
(* leads to the public internet, whatever the name resolves to by then.    *)
THEOREM DialsOnlyTheChecked == TunnelSpec => []DialsWhatItChecked
  <1>1. Vetted => DialsWhatItChecked
    BY DEF Vetted, Leads, DialsWhatItChecked
  <1> QED BY <1>1, NetInvariance, PTL

(* A handler that has ended has closed its socket to the remote end, but   *)
(* for one of the HTTP proxies that lost an end before the splice.         *)
THEOREM UpstreamsAreClosed == TunnelSpec => []NoUpstreamLeft
  BY NetInvariance, PTL DEF Finished

(* Whichever of the five proxies a client asks: it is answered before the  *)
(* handler ends, but for an end lost at that moment, an upstream proxy     *)
(* that hangs up or floods, and what cannot be sent to it; a second answer *)
(* comes only from the auth proxy, in a broken one.                        *)
THEOREM ClientsAreAnswered == TunnelSpec => []Answered
  BY NetInvariance, PTL DEF Finished

-----------------------------------------------------------------------------
(* GatewayStream, for every number of tool calls, however much the engine  *)
(* sends and however far it is ahead.                                      *)

(* What the engine sends, a block as the harness sees it, and the harness  *)
(* of a stream that has kept its promise so far.                           *)
Events ==
  [kind : Contents, at : Nat] \cup [kind : {"start"}, tool : Tools]
  \cup [kind : {"args"}, tool : Tools, at : Nat] \cup [kind : {"finish"}, reason : Reasons]
Blocks == [kind : Contents, tool : {NoTool}] \cup [kind : {"tool"}, tool : Tools]
Client ==
  [outcome : {"none", "begun", "stopped", "cut", "error"}, blocks : Seq(Blocks),
   isOpen : BOOLEAN, current : Seq(Events), content : Seq(Events),
   args : [Tools -> Seq(Events)]]

(* A few frames after one.                                                 *)
LEMMA After ==
  ASSUME NEW a, NEW b, NEW c
  PROVE  /\ <<a>> \o <<b>> = <<a, b>>
         /\ <<a>> \o <<b, c>> = <<a, b, c>>
         /\ <<a, b>> \o <<c>> = <<a, b, c>>
  <1> DEFINE S == {a, b, c}
  <1>1. /\ <<a>> \in Seq(S) /\ <<b>> \in Seq(S) /\ <<c>> \in Seq(S)
        /\ <<a, b>> \in Seq(S) /\ <<b, c>> \in Seq(S)
    OBVIOUS
  <1>2. /\ Len(<<a>> \o <<b>>) = 2 /\ Len(<<a>> \o <<b, c>>) = 3 /\ Len(<<a, b>> \o <<c>>) = 3
        /\ <<a>> \o <<b>> \in Seq(S) /\ <<a>> \o <<b, c>> \in Seq(S)
        /\ <<a, b>> \o <<c>> \in Seq(S)
    BY <1>1
  <1>3. /\ \A i \in 1..2 : (<<a>> \o <<b>>)[i] = <<a, b>>[i]
        /\ \A i \in 1..3 : (<<a>> \o <<b, c>>)[i] = <<a, b, c>>[i]
        /\ \A i \in 1..3 : (<<a, b>> \o <<c>>)[i] = <<a, b, c>>[i]
    BY <1>1
  <1>4. <<a, b>> \in Seq(S) /\ <<a, b, c>> \in Seq(S) /\ Len(<<a, b>>) = 2 /\ Len(<<a, b, c>>) = 3
    OBVIOUS
  <1> HIDE DEF S
  <1>5. \A s, t \in Seq(S) : Len(s) = Len(t) /\ (\A i \in 1..Len(s) : s[i] = t[i]) => s = t
    BY SeqEqual
  <1> QED BY <1>2, <1>3, <1>4, <1>5

(* The writer's variables keep to their types; nothing is taken before it  *)
(* is sent.                                                                *)
EngineTypes ==
  /\ sent \in Seq(Events) /\ taken \in 0..Len(sent)
  /\ pump \in {"running", "ended", "failed", "cancelled"}

WriterTypes ==
  /\ protocol \in {"anthropic", "responses"}
  /\ phase \in {"body", "flush", "over", "gone"}
  /\ open \in [kind : Contents \cup {"tool", "none"}, index : Nat, whole : Seq(Events)]
  /\ next \in Nat /\ order \in Seq(Tools) /\ args \in [Tools -> Seq(Events)]
  /\ streaming \in Tools \cup {NoTool} /\ cursor \in Nat \ {0}
  /\ finish \in Reasons \cup {"none"}

StreamTypes == EngineTypes /\ WriterTypes

LEMMA StreamTypesInit == StreamInit => StreamTypes
  BY DEF StreamInit, StreamTypes, EngineTypes, WriterTypes, NoBlock

(* What is sent follows what was, each event numbered by its place, and a  *)
(* call is started only once.                                              *)
Extends ==
  /\ sent' \in Seq(Events) /\ Len(sent) <= Len(sent')
  /\ \A i \in 1..Len(sent) : sent'[i] = sent[i]
  /\ \A i \in (Len(sent) + 1)..Len(sent') :
       /\ sent'[i].kind \in Contents \cup {"args"} => sent'[i].at = i
       /\ sent'[i].kind = "start" => i = Len(sent) + 1 /\ Fresh(sent'[i].tool)

LEMMA SendsOne ==
  ASSUME EngineTypes, NEW e \in Events, Send(<<e>>),
         e.kind \in Contents \cup {"args"} => e.at = Len(sent) + 1,
         e.kind = "start" => Fresh(e.tool)
  PROVE  Extends
  <1>1. sent' = sent \o <<e>> /\ sent \in Seq(Events) /\ <<e>> \in Seq(Events)
    BY DEF Send, EngineTypes
  <1>2. sent' \in Seq(Events) /\ Len(sent') = Len(sent) + 1
    BY <1>1
  <1>3. /\ \A i \in 1..Len(sent) : sent'[i] = sent[i]
        /\ sent'[Len(sent) + 1] = e
    BY <1>1
  <1>4. \A i \in (Len(sent) + 1)..Len(sent') : i = Len(sent) + 1
    BY <1>1, <1>2
  <1> QED BY <1>1, <1>2, <1>3, <1>4 DEF Extends

LEMMA SendsCall ==
  ASSUME NEW t \in Tools, NEW named \in BOOLEAN, NEW more \in BOOLEAN, EngineTypes,
         SendCall(t, named, more)
  PROVE  Extends
  <1> DEFINE start    == [kind |-> "start", tool |-> t]
             piece(k) == [kind |-> "args", tool |-> t, at |-> Len(sent) + k]
  <1>1. start \in Events /\ piece(1) \in Events /\ piece(2) \in Events
    BY DEF Events, EngineTypes
  <1> USE DEF SendCall, Send, At
  <1>2. CASE named /\ Fresh(t) /\ more
    <2>1. sent' = sent \o (<<start>> \o <<piece(2)>>)
      BY <1>2
    <2>2. <<start>> \o <<piece(2)>> = <<start, piece(2)>>
      BY After
    <2> DEFINE pair == <<start, piece(2)>>
    <2>3. sent \in Seq(Events) /\ pair \in Seq(Events) /\ Len(pair) = 2 /\ sent' = sent \o pair
      BY <1>1, <2>1, <2>2 DEF EngineTypes
    <2>4. sent' \in Seq(Events) /\ Len(sent') = Len(sent) + 2
      BY <2>3
    <2>5. /\ \A i \in 1..Len(sent) : sent'[i] = sent[i]
          /\ sent'[Len(sent) + 1] = start /\ sent'[Len(sent) + 2] = piece(2)
      BY <2>3
    <2>6. \A i \in (Len(sent) + 1)..Len(sent') : i \in {Len(sent) + 1, Len(sent) + 2}
      BY <2>3, <2>4
    <2> QED BY <1>2, <2>3, <2>4, <2>5, <2>6 DEF Extends, Contents
  <1>3. CASE named /\ Fresh(t) /\ ~more
    <2>1. sent' = sent \o (<<start>> \o <<>>)
      BY <1>3
    <2>2. <<start>> \o <<>> = <<start>>
      OBVIOUS
    <2> QED BY <1>1, <1>3, <2>1, <2>2, SendsOne DEF Contents
  <1>4. CASE ~(named /\ Fresh(t)) /\ more
    <2>1. sent' = sent \o (<<>> \o <<piece(1)>>)
      BY <1>4
    <2>2. <<>> \o <<piece(1)>> = <<piece(1)>>
      OBVIOUS
    <2> QED BY <1>1, <1>4, <2>1, <2>2, SendsOne DEF Contents
  <1>5. CASE ~(named /\ Fresh(t)) /\ ~more
    <2>1. sent' = sent \o (<<>> \o <<>>)
      BY <1>5
    <2>2. sent' = sent /\ sent \in Seq(Events)
      BY <2>1 DEF EngineTypes
    <2> QED BY <2>2 DEF Extends
  <1> QED BY <1>2, <1>3, <1>4, <1>5

LEMMA EngineSends ==
  ASSUME EngineTypes, Engine
  PROVE  /\ Extends
         /\ UNCHANGED <<protocol, taken, phase, writer, pending, client>>
         /\ \/ pump = "running" /\ pump' \in {"running", "ended", "failed"}
            \/ sent' = sent /\ pump' = pump
  <1>1. ASSUME NEW k \in Contents, SendContent(k)
        PROVE  Extends
    <2> DEFINE e == [kind |-> k, at |-> At(1)]
    <2>1. e \in Events /\ e.kind = k /\ e.at = Len(sent) + 1 /\ k # "start"
      BY DEF Events, At, Contents, EngineTypes
    <2>2. Send(<<e>>)
      BY <1>1 DEF SendContent
    <2> HIDE DEF e
    <2> QED BY <2>1, <2>2, SendsOne
  <1>2. ASSUME NEW r \in Reasons, SendFinish(r)
        PROVE  Extends
    <2> DEFINE e == [kind |-> "finish", reason |-> r]
    <2>1. e \in Events /\ e.kind = "finish" /\ "finish" \notin Contents
      BY DEF Events, Contents
    <2>2. Send(<<e>>)
      BY <1>2 DEF SendFinish
    <2> HIDE DEF e
    <2> QED BY <2>1, <2>2, SendsOne
  <1>3. CASE UpstreamEnds
    BY <1>3 DEF UpstreamEnds, Extends, EngineTypes
  <1>4. UpstreamEnds \/ \E events : Send(events)
    BY DEF Engine, SendContent, SendCall, SendFinish
  <1>5. Extends
    BY <1>1, <1>2, <1>3, SendsCall DEF Engine
  <1> QED BY <1>4, <1>5 DEF Send, UpstreamEnds, upstream, writer

-----------------------------------------------------------------------------
(* The steps of the writer that only hand on or drop frames.               *)
LEMMA Quiet ==
  ASSUME KeepAlive \/ Yield \/ CancelPump \/ GoAway \/ UNCHANGED streamVars
  PROVE  /\ UNCHANGED <<protocol, sent, taken, writer>>
         /\ phase' = phase \/ (phase' = "gone" /\ pending' = <<>>)
         /\ pump' = pump \/ (pump = "running" /\ pump' = "cancelled")
  BY DEF KeepAlive, Yield, CancelPump, GoAway, streamVars, upstream

LEMMA StreamTypesStep == StreamTypes /\ [StreamNext]_streamVars => StreamTypes'
  <1> SUFFICES ASSUME StreamTypes, [StreamNext]_streamVars PROVE StreamTypes'
    OBVIOUS
  <1> USE DEF StreamTypes, EngineTypes, WriterTypes
  <1>1. CASE Engine
    <2>1. Extends /\ UNCHANGED <<protocol, taken, phase, writer>>
      BY <1>1, EngineSends
    <2>2. pump' \in {"running", "ended", "failed", "cancelled"}
      BY <1>1, EngineSends
    <2> QED BY <2>1, <2>2 DEF Extends, writer, calls
  <1>2. ASSUME NEW kinds, Take(kinds)
        PROVE  /\ EngineTypes' /\ Event \in Events /\ Event.kind \in kinds
               /\ UNCHANGED <<protocol, phase, cursor>>
    BY <1>2 DEF Take, Event, upstream
  <1>3. CASE TakeContent
    <2>1. Event \in Events /\ Event.kind \in Contents /\ EngineTypes'
      BY <1>2, <1>3 DEF TakeContent
    <2> DEFINE b == Ensure(Event.kind).block
    <2>2. b \in [kind : Contents \cup {"tool", "none"}, index : Nat, whole : Seq(Events)]
      BY <2>1 DEF Ensure
    <2> HIDE DEF b
    <2>3. open' = [b EXCEPT !.whole = Append(@, Event)]
      BY <1>3 DEF TakeContent, b
    <2>4. open' \in [kind : Contents \cup {"tool", "none"}, index : Nat, whole : Seq(Events)]
      <3>1. Append(b.whole, Event) \in Seq(Events)
        BY <2>1, <2>2
      <3> QED BY <2>2, <2>3, <3>1
    <2>5. next' \in Nat
      BY <1>3 DEF TakeContent
    <2>6. UNCHANGED <<protocol, phase, order, args, streaming, cursor, finish>>
      BY <1>3 DEF TakeContent, Take, calls
    <2> QED BY <2>1, <2>4, <2>5, <2>6
  <1>4. CASE TakeStart
    <2>1. Event \in Events /\ Event.kind = "start" /\ EngineTypes'
      BY <1>2, <1>4 DEF TakeStart
    <2>2. Event.tool \in Tools
      BY <2>1 DEF Events, Contents
    <2>3. order' \in Seq(Tools) /\ args' \in [Tools -> Seq(Events)]
      BY <2>2, <1>4 DEF TakeStart
    <2>4. UNCHANGED <<protocol, phase, cursor, finish>>
      BY <1>4 DEF TakeStart, Take
    <2>5. CASE UNCHANGED <<streaming, open, next>>
      BY <2>1, <2>3, <2>4, <2>5
    <2>6. CASE ~UNCHANGED <<streaming, open, next>>
      <3>1. /\ streaming' = Event.tool /\ next' = next + 1
            /\ open' = [kind |-> "tool", index |-> next, whole |-> <<>>]
        BY <1>4, <2>6 DEF TakeStart
      <3> QED BY <2>1, <2>2, <2>3, <2>4, <3>1
    <2> QED BY <2>5, <2>6
  <1>5. CASE TakeArgs
    <2>1. Event \in Events /\ Event.kind = "args" /\ EngineTypes'
      BY <1>2, <1>5 DEF TakeArgs
    <2>2. Event.tool \in Tools
      BY <2>1 DEF Events, Contents
    <2>3. args' \in [Tools -> Seq(Events)]
      BY <2>1, <2>2, <1>5 DEF TakeArgs
    <2> QED BY <2>1, <2>3, <1>5 DEF TakeArgs, Take
  <1>6. CASE TakeFinish
    <2>1. Event \in Events /\ Event.kind = "finish" /\ EngineTypes'
      BY <1>2, <1>6 DEF TakeFinish
    <2>2. Event.reason \in Reasons
      BY <2>1 DEF Events, Contents
    <2> QED BY <2>1, <2>2, <1>6 DEF TakeFinish, Take, calls
  <1>7. CASE EndBody \/ Fail
    <2>1. <<>> \in Seq(Events)
      OBVIOUS
    <2>2. NoBlock \in [kind : Contents \cup {"tool", "none"}, index : Nat, whole : Seq(Events)]
      BY <2>1 DEF NoBlock
    <2>3. open' = NoBlock /\ phase' \in {"flush", "over"}
      BY <1>7 DEF EndBody, Fail
    <2>4. UNCHANGED <<protocol, sent, pump, taken, next, order, args, streaming, finish, cursor>>
      BY <1>7 DEF EndBody, Fail, upstream, calls
    <2> HIDE DEF NoBlock
    <2> QED BY <2>2, <2>3, <2>4
  <1>8. CASE Flush
    <2>1. cursor' = cursor + 1 /\ next' \in {next, next + 1}
      BY <1>8 DEF Flush
    <2>2. UNCHANGED <<protocol, sent, pump, taken, phase, open, order, args, streaming, finish>>
      BY <1>8 DEF Flush, upstream, calls
    <2> QED BY <2>1, <2>2
  <1>9. CASE ConcludeStream
    BY <1>9 DEF ConcludeStream, upstream, writer, calls
  <1>10. CASE KeepAlive \/ Yield \/ CancelPump \/ GoAway \/ UNCHANGED streamVars
    BY <1>10, Quiet DEF writer, calls
  <1> HIDE DEF StreamTypes, EngineTypes, WriterTypes
  <1> QED BY <1>1, <1>3, <1>4, <1>5, <1>6, <1>7, <1>8, <1>9, <1>10 DEF StreamNext, Writer

(* Calls are started once, and kept in the order of their starts; the one  *)
(* that is streamed is among them.                                         *)
StartedOnce ==
  \A i, j \in 1..Len(sent) :
     sent[i].kind = "start" /\ sent[j].kind = "start" /\ sent[i].tool = sent[j].tool => i = j

Kept(t, calling) == \E k \in 1..Len(calling) : calling[k] = t

CallsKept ==
  /\ \A k \in 1..Len(order) :
        \E i \in 1..taken : sent[i].kind = "start" /\ sent[i].tool = order[k]
  /\ \A i \in 1..taken : sent[i].kind = "start" => Kept(sent[i].tool, order)
  /\ \A j, k \in 1..Len(order) : order[j] = order[k] => j = k
  /\ streaming # NoTool => protocol = "anthropic" /\ Kept(streaming, order)
  /\ protocol = "anthropic" /\ order # <<>> => streaming # NoTool

CursorPlace == cursor <= Len(order) + 1 /\ (phase = "body" => cursor = 1)

CallOrder == StartedOnce /\ CallsKept /\ CursorPlace

LEMMA CallOrderInit == StreamInit => CallOrder
  BY DEF StreamInit, CallOrder, StartedOnce, CallsKept, CursorPlace, Kept

LEMMA CallOrderStep == StreamTypes /\ CallOrder /\ [StreamNext]_streamVars => CallOrder'
  <1> SUFFICES ASSUME StreamTypes, CallOrder, [StreamNext]_streamVars PROVE CallOrder'
    OBVIOUS
  <1> USE DEF CallOrder
  <1>1. StartedOnce'
    <2>1. CASE Engine
      <3>1. Extends
        BY <2>1, EngineSends DEF StreamTypes
      <3> SUFFICES ASSUME NEW i \in 1..Len(sent'), NEW j \in 1..Len(sent'),
                          sent'[i].kind = "start", sent'[j].kind = "start",
                          sent'[i].tool = sent'[j].tool
                   PROVE  i = j
        BY DEF StartedOnce
      <3>2. Len(sent) \in Nat /\ Len(sent') \in Nat
        BY <3>1 DEF Extends, StreamTypes, EngineTypes
      <3>3. ASSUME NEW k \in 1..Len(sent), sent[k].kind = "start"
            PROVE  ~Fresh(sent[k].tool)
        BY <3>3 DEF Fresh, Started, StreamTypes, EngineTypes
      <3>4. CASE i \in 1..Len(sent) /\ j \in 1..Len(sent)
        BY <3>1, <3>4 DEF Extends, StartedOnce
      <3>5. CASE i \notin 1..Len(sent) /\ j \notin 1..Len(sent)
        BY <3>1, <3>2, <3>5 DEF Extends
      <3>6. CASE i \in 1..Len(sent) /\ j \notin 1..Len(sent)
        BY <3>1, <3>2, <3>3, <3>6 DEF Extends
      <3>7. CASE i \notin 1..Len(sent) /\ j \in 1..Len(sent)
        BY <3>1, <3>2, <3>3, <3>7 DEF Extends
      <3> QED BY <3>4, <3>5, <3>6, <3>7
    <2>2. CASE sent' = sent
      BY <2>2 DEF StartedOnce
    <2> QED
      BY <2>1, <2>2, Quiet
      DEF StreamNext, Writer, TakeContent, TakeStart, TakeArgs, TakeFinish, Take, EndBody,
          Fail, Flush, ConcludeStream, upstream
  <1>2. CASE Engine
    <2>1. Extends /\ UNCHANGED <<protocol, taken, phase, writer>>
      BY <1>2, EngineSends DEF StreamTypes
    <2>2. taken <= Len(sent) /\ \A i \in 1..taken : sent'[i] = sent[i]
      BY <2>1 DEF Extends, StreamTypes, EngineTypes
    <2>3. CallsKept'
      BY <2>1, <2>2 DEF CallsKept, Kept, writer, calls
    <2>4. CursorPlace'
      BY <2>1 DEF CursorPlace, writer, calls
    <2> QED BY <1>1, <2>3, <2>4
  <1>3. CASE TakeStart
    <2> DEFINE t == Event.tool
    <2>1. /\ taken \in Nat /\ taken + 1 \in 1..Len(sent) /\ taken' = taken + 1 /\ sent' = sent
          /\ sent[taken + 1].kind = "start" /\ t = sent[taken + 1].tool
          /\ UNCHANGED <<protocol, phase, cursor>> /\ phase = "body"
      BY <1>3 DEF TakeStart, Take, Event, upstream, StreamTypes, EngineTypes
    <2>2. t \in Tools /\ t # NoTool
      <3>1. sent[taken + 1] \in Events
        BY <2>1 DEF StreamTypes, EngineTypes
      <3> QED BY <2>1, <3>1, StreamAssumption DEF Events, Contents, StreamAssumption
    <2>3. /\ order \in Seq(Tools) /\ order' = Append(order, t)
          /\ Len(order') = Len(order) + 1 /\ order'[Len(order) + 1] = t
          /\ \A k \in 1..Len(order) : order'[k] = order[k]
      BY <1>3, <2>2 DEF TakeStart, StreamTypes, WriterTypes
    <2>4. (streaming' = t /\ protocol = "anthropic") \/ streaming' = streaming
      BY <1>3 DEF TakeStart
    <2>5. \A k \in 1..Len(order) : order[k] # t
      BY <2>1 DEF CallsKept, StartedOnce
    <2>6. \A i \in 1..taken' : i \in 1..taken \/ i = taken + 1
      BY <2>1
    <2> HIDE DEF t
    <2>7. Len(order) \in Nat /\ \A k \in 1..Len(order') : k \in 1..Len(order) \/ k = Len(order) + 1
      BY <2>3
    <2>8. Kept(t, order') /\ \A u : Kept(u, order) => Kept(u, order')
      BY <2>3, <2>7 DEF Kept
    <2>9. \A k \in 1..Len(order') :
             \E i \in 1..taken' : sent'[i].kind = "start" /\ sent'[i].tool = order'[k]
      BY <2>1, <2>3, <2>7 DEF CallsKept
    <2>10. \A i \in 1..taken' : sent'[i].kind = "start" => Kept(sent'[i].tool, order')
      BY <2>1, <2>6, <2>8 DEF CallsKept
    <2>11. \A j, k \in 1..Len(order') : order'[j] = order'[k] => j = k
      BY <2>3, <2>5, <2>7 DEF CallsKept
    <2>12. streaming' # NoTool => protocol' = "anthropic" /\ Kept(streaming', order')
      BY <2>1, <2>4, <2>8 DEF CallsKept
    <2>13. protocol' = "anthropic" => streaming' # NoTool
      BY <1>3, <2>1, <2>2 DEF TakeStart, t
    <2>14. CursorPlace'
      BY <2>1, <2>3 DEF CursorPlace
    <2> QED BY <1>1, <2>9, <2>10, <2>11, <2>12, <2>13, <2>14 DEF CallsKept
  <1>4. CASE TakeContent \/ TakeArgs \/ TakeFinish
    <2>1. /\ taken \in Nat /\ taken + 1 \in 1..Len(sent) /\ taken' = taken + 1 /\ sent' = sent
          /\ sent[taken + 1].kind # "start"
          /\ UNCHANGED <<protocol, phase, cursor, order, streaming>>
      BY <1>4 DEF TakeContent, TakeArgs, TakeFinish, Take, calls, upstream, StreamTypes,
                  EngineTypes, Contents
    <2>2. \A i \in 1..taken' : i \in 1..taken \/ i = taken + 1
      BY <2>1
    <2>3. CallsKept'
      BY <2>1, <2>2 DEF CallsKept, Kept
    <2>4. CursorPlace'
      BY <2>1 DEF CursorPlace
    <2> QED BY <1>1, <2>3, <2>4
  <1>5. CASE Flush
    <2>1. /\ UNCHANGED <<protocol, taken, phase, order, streaming, sent>>
          /\ cursor' = cursor + 1 /\ cursor <= Len(order) /\ phase = "flush"
      BY <1>5 DEF Flush, calls, upstream
    <2>2. CallsKept'
      BY <2>1 DEF CallsKept, Kept
    <2>3. CursorPlace'
      BY <2>1 DEF CursorPlace, StreamTypes, WriterTypes
    <2> QED BY <1>1, <2>2, <2>3
  <1>6. CASE EndBody \/ Fail \/ ConcludeStream
    <2>1. /\ UNCHANGED <<protocol, taken, cursor, order, streaming, sent>>
          /\ phase' # "body"
      BY <1>6 DEF EndBody, Fail, ConcludeStream, calls, upstream, writer
    <2>2. CallsKept' /\ CursorPlace'
      BY <2>1 DEF CallsKept, Kept, CursorPlace
    <2> QED BY <1>1, <2>2
  <1>7. CASE KeepAlive \/ Yield \/ CancelPump \/ GoAway \/ UNCHANGED streamVars
    <2>1. /\ UNCHANGED <<protocol, taken, cursor, order, streaming, sent>>
          /\ phase' \in {phase, "gone"}
      BY <1>7, Quiet DEF writer, calls
    <2>2. CallsKept' /\ CursorPlace'
      BY <2>1 DEF CallsKept, Kept, CursorPlace
    <2> QED BY <1>1, <2>2
  <1> HIDE DEF CallOrder
  <1> QED BY <1>2, <1>3, <1>4, <1>5, <1>6, <1>7 DEF StreamNext, Writer

-----------------------------------------------------------------------------
(* What a harness is after a frame that fits.                              *)
Growing(v, es) ==
  LET b == Last(v.blocks)
      c == [v EXCEPT !.current = @ \o es]
  IN  IF b.kind = "tool" THEN [c EXCEPT !.args[b.tool] = @ \o es]
      ELSE [c EXCEPT !.content = @ \o es]

Then(v, f) ==
  IF f.type = "begin" THEN [v EXCEPT !.outcome = "begun"]
  ELSE IF f.type = "open" THEN [v EXCEPT !.blocks = Append(@, f.block), !.isOpen = TRUE]
  ELSE IF f.type = "delta" THEN Growing(v, f.delta)
  ELSE IF f.type = "close" THEN [v EXCEPT !.isOpen = FALSE, !.current = <<>>]
  ELSE IF f.type = "end" THEN [v EXCEPT !.outcome = f.how]
  ELSE v

Unused(blocks, t) == \A i \in 1..Len(blocks) : blocks[i].kind = "tool" => blocks[i].tool # t

(* A frame fits a harness of the protocol: what the harness asks of it,    *)
(* and what the promise does.                                              *)
Fitting(how, v, f) ==
  \/ f.type = "ping" /\ v.outcome = "begun"
  \/ f.type = "begin" /\ v.outcome = "none"
  \/ /\ f.type = "open" /\ v.outcome = "begun" /\ v.isOpen = FALSE /\ v.current = <<>>
     /\ f.index = Len(v.blocks) /\ f.block \in Blocks
     /\ f.block.kind = "tool" => Unused(v.blocks, f.block.tool)
  \/ /\ f.type = "delta" /\ v.isOpen = TRUE /\ f.index + 1 = Len(v.blocks)
     /\ Len(v.blocks) > 0 /\ f.delta \in Seq(Events)
  \/ /\ f.type = "close" /\ v.isOpen = TRUE /\ f.index + 1 = Len(v.blocks)
     /\ how = "responses" => f.whole = v.current
  \/ /\ f.type = "end" /\ v.outcome = "begun" /\ v.isOpen = FALSE
     /\ f.how \in {"stopped", "cut", "error"}
     /\ how = "responses" => f.items = v.blocks

(* At most three frames, each fitting after those before it, and what they *)
(* make of the harness.                                                    *)
Fit1(how, v, p) == p # <<>> => Fitting(how, v, Head(p)) /\ Tail(p) = <<>>
Fit2(how, v, p) == p # <<>> => Fitting(how, v, Head(p)) /\ Fit1(how, Then(v, Head(p)), Tail(p))
Fit3(how, v, p) == p # <<>> => Fitting(how, v, Head(p)) /\ Fit2(how, Then(v, Head(p)), Tail(p))

All1(v, p) == IF p = <<>> THEN v ELSE Then(v, Head(p))
All2(v, p) == IF p = <<>> THEN v ELSE All1(Then(v, Head(p)), Tail(p))
All3(v, p) == IF p = <<>> THEN v ELSE All2(Then(v, Head(p)), Tail(p))

(* Each kind of frame, by what it does.                                    *)
LEMMA ThenPing ==
  ASSUME NEW v, NEW f, f.type = "ping"
  PROVE  Then(v, f) = v
  BY DEF Then

LEMMA ThenBegin ==
  ASSUME NEW v \in Client, NEW f, f.type = "begin"
  PROVE  /\ Then(v, f) \in Client /\ Then(v, f).outcome = "begun"
         /\ Then(v, f).blocks = v.blocks /\ Then(v, f).isOpen = v.isOpen
         /\ Then(v, f).current = v.current /\ Then(v, f).content = v.content
         /\ Then(v, f).args = v.args
  BY DEF Then, Client

LEMMA ThenOpen ==
  ASSUME NEW v \in Client, NEW f, f.type = "open", f.block \in Blocks
  PROVE  /\ Then(v, f) \in Client /\ Then(v, f).outcome = v.outcome
         /\ Then(v, f).blocks = Append(v.blocks, f.block) /\ Then(v, f).isOpen = TRUE
         /\ Then(v, f).current = v.current /\ Then(v, f).content = v.content
         /\ Then(v, f).args = v.args
  <1>1. Append(v.blocks, f.block) \in Seq(Blocks)
    BY DEF Client
  <1> QED BY <1>1 DEF Then, Client

LEMMA ThenClose ==
  ASSUME NEW v \in Client, NEW f, f.type = "close"
  PROVE  /\ Then(v, f) \in Client /\ Then(v, f).outcome = v.outcome
         /\ Then(v, f).blocks = v.blocks /\ Then(v, f).isOpen = FALSE
         /\ Then(v, f).current = <<>> /\ Then(v, f).content = v.content
         /\ Then(v, f).args = v.args
  <1>1. <<>> \in Seq(Events)
    OBVIOUS
  <1> QED BY <1>1 DEF Then, Client

LEMMA ThenEnd ==
  ASSUME NEW v \in Client, NEW f, f.type = "end", f.how \in {"stopped", "cut", "error"}
  PROVE  /\ Then(v, f) \in Client /\ Then(v, f).outcome = f.how
         /\ Then(v, f).blocks = v.blocks /\ Then(v, f).isOpen = v.isOpen
         /\ Then(v, f).current = v.current /\ Then(v, f).content = v.content
         /\ Then(v, f).args = v.args
  BY DEF Then, Client

LEMMA ThenDelta ==
  ASSUME NEW v \in Client, NEW f, f.type = "delta", f.delta \in Seq(Events), Len(v.blocks) > 0
  PROVE  LET b == v.blocks[Len(v.blocks)]
         IN  /\ Then(v, f) \in Client /\ Then(v, f).outcome = v.outcome
             /\ Then(v, f).blocks = v.blocks /\ Then(v, f).isOpen = v.isOpen
             /\ Then(v, f).current = v.current \o f.delta
             /\ IF b.kind = "tool"
                THEN /\ Then(v, f).content = v.content
                     /\ Then(v, f).args = [v.args EXCEPT ![b.tool] = v.args[b.tool] \o f.delta]
                ELSE /\ Then(v, f).content = v.content \o f.delta
                     /\ Then(v, f).args = v.args
  <1> DEFINE b == v.blocks[Len(v.blocks)]
             x == v.current \o f.delta
             y == v.content \o f.delta
             c == [v EXCEPT !.current = x]
  <1>1. /\ v.blocks \in Seq(Blocks) /\ x \in Seq(Events) /\ y \in Seq(Events)
        /\ v.args \in [Tools -> Seq(Events)]
    BY DEF Client
  <1>2. b \in Blocks
    BY <1>1
  <1>3. /\ c \in Client /\ c.outcome = v.outcome /\ c.blocks = v.blocks
        /\ c.isOpen = v.isOpen /\ c.current = x /\ c.content = v.content /\ c.args = v.args
    <2> HIDE DEF x
    <2> QED BY <1>1 DEF Client
  <1>4. Then(v, f) = IF b.kind = "tool" THEN [c EXCEPT !.args[b.tool] = @ \o f.delta]
                     ELSE [c EXCEPT !.content = @ \o f.delta]
    BY DEF Then, Growing, Last
  <1> HIDE DEF c, x, y
  <1>5. CASE b.kind = "tool"
    <2>1. b.tool \in Tools
      BY <1>2, <1>5 DEF Blocks, Contents
    <2> DEFINE a == [v.args EXCEPT ![b.tool] = v.args[b.tool] \o f.delta]
    <2>2. a \in [Tools -> Seq(Events)]
      BY <1>1, <2>1
    <2>3. Then(v, f) = [c EXCEPT !.args = a]
      BY <1>3, <1>4, <1>5 DEF Client
    <2> HIDE DEF a
    <2>4. /\ Then(v, f) \in Client /\ Then(v, f).outcome = c.outcome
          /\ Then(v, f).blocks = c.blocks /\ Then(v, f).isOpen = c.isOpen
          /\ Then(v, f).current = c.current /\ Then(v, f).content = c.content
          /\ Then(v, f).args = a
      BY <1>3, <2>2, <2>3 DEF Client
    <2> QED BY <1>3, <1>5, <2>4 DEF a, x
  <1>6. CASE b.kind # "tool"
    <2>1. Then(v, f) = [c EXCEPT !.content = y]
      BY <1>3, <1>4, <1>6 DEF Client, y
    <2>2. /\ Then(v, f) \in Client /\ Then(v, f).outcome = c.outcome
          /\ Then(v, f).blocks = c.blocks /\ Then(v, f).isOpen = c.isOpen
          /\ Then(v, f).current = c.current /\ Then(v, f).content = y
          /\ Then(v, f).args = c.args
      BY <1>1, <1>3, <2>1 DEF Client
    <2> QED BY <1>3, <1>6, <2>2 DEF x, y
  <1> QED BY <1>5, <1>6

LEMMA ThenText ==
  ASSUME NEW v \in Client, NEW f, f.type = "delta", f.delta \in Seq(Events), Len(v.blocks) > 0,
         v.blocks[Len(v.blocks)].kind # "tool"
  PROVE  /\ Then(v, f) \in Client /\ Then(v, f).outcome = v.outcome
         /\ Then(v, f).blocks = v.blocks /\ Then(v, f).isOpen = v.isOpen
         /\ Then(v, f).current = v.current \o f.delta
         /\ Then(v, f).content = v.content \o f.delta /\ Then(v, f).args = v.args
  BY ThenDelta

LEMMA ThenPieces ==
  ASSUME NEW v \in Client, NEW f, f.type = "delta", f.delta \in Seq(Events), Len(v.blocks) > 0,
         v.blocks[Len(v.blocks)].kind = "tool"
  PROVE  /\ Then(v, f) \in Client /\ Then(v, f).outcome = v.outcome
         /\ Then(v, f).blocks = v.blocks /\ Then(v, f).isOpen = v.isOpen
         /\ Then(v, f).current = v.current \o f.delta /\ Then(v, f).content = v.content
         /\ Then(v, f).args = [v.args EXCEPT ![v.blocks[Len(v.blocks)].tool] =
                                             v.args[v.blocks[Len(v.blocks)].tool] \o f.delta]
  BY ThenDelta

(* A frame that fits is taken for what it is.                              *)
LEMMA ThenTyped ==
  ASSUME NEW v \in Client, NEW f, NEW how, Fitting(how, v, f)
  PROVE  Then(v, f) \in Client
  <1>1. CASE f.type = "delta"
    <2>1. f.delta \in Seq(Events) /\ Len(v.blocks) > 0
      BY <1>1 DEF Fitting
    <2> QED BY <1>1, <2>1, ThenDelta
  <1>2. CASE f.type # "delta"
    <2>1. /\ f.type \in {"ping", "begin", "open", "close", "end"}
          /\ f.type = "open" => f.block \in Blocks
          /\ f.type = "end" => f.how \in {"stopped", "cut", "error"}
      BY <1>2 DEF Fitting
    <2>2. CASE f.type = "ping"
      BY <2>2, ThenPing
    <2>3. CASE f.type = "begin"
      BY <2>3, ThenBegin
    <2>4. CASE f.type = "open"
      BY <2>1, <2>4, ThenOpen
    <2>5. CASE f.type = "close"
      BY <2>5, ThenClose
    <2>6. CASE f.type = "end"
      BY <2>1, <2>6, ThenEnd
    <2> QED BY <2>1, <2>2, <2>3, <2>4, <2>5, <2>6
  <1> QED BY <1>1, <1>2

LEMMA ReceivedThen ==
  ASSUME client \in Client, NEW f, Fitting(protocol, client, f)
  PROVE  Received(f) = Then(client, f)
  <1>1. Fits(f)
    BY DEF Fitting, Fits
  <1>2. f.type = "delta" => Grows(f) = Growing(client, f.delta)
    BY DEF Grows, Growing
  <1> QED BY <1>1, <1>2 DEF Received, Then, Fitting

(* One frame less.                                                         *)
LEMMA Fewer ==
  ASSUME NEW how, NEW v, NEW p, Fit2(how, v, p)
  PROVE  Fit3(how, v, p) /\ All3(v, p) = All2(v, p)
  <1>1. ASSUME NEW w, NEW q, Fit1(how, w, q)
        PROVE  Fit2(how, w, q) /\ All2(w, q) = All1(w, q)
    BY <1>1 DEF Fit1, Fit2, All1, All2
  <1> QED BY <1>1 DEF Fit2, Fit3, All2, All3

LEMMA OneFrame ==
  ASSUME NEW how, NEW v, NEW f, Fitting(how, v, f)
  PROVE  Fit3(how, v, <<f>>) /\ All3(v, <<f>>) = Then(v, f)
  BY DEF Fit1, Fit2, Fit3, All1, All2, All3

LEMMA TwoFrames ==
  ASSUME NEW how, NEW v, NEW f, NEW g, Fitting(how, v, f), Fitting(how, Then(v, f), g)
  PROVE  /\ Fit3(how, v, <<f, g>>)
         /\ All3(v, <<f, g>>) = Then(Then(v, f), g)
  BY DEF Fit1, Fit2, Fit3, All1, All2, All3

LEMMA ThreeFrames ==
  ASSUME NEW how, NEW v, NEW f, NEW g, NEW h, Fitting(how, v, f), Fitting(how, Then(v, f), g),
         Fitting(how, Then(Then(v, f), g), h)
  PROVE  /\ Fit3(how, v, <<f, g, h>>)
         /\ All3(v, <<f, g, h>>) = Then(Then(Then(v, f), g), h)
  BY DEF Fit1, Fit2, Fit3, All1, All2, All3

-----------------------------------------------------------------------------
(* The harness that has got all frames made so far, and the writer.        *)
Flushed(t, calling, at) == \E j \in 1..(at - 1) : calling[j] = t

Agree(v) ==
  /\ v.outcome = "begun"
  /\ v.isOpen = TRUE <=> open.kind # "none"
  /\ v.isOpen = FALSE => v.current = <<>>
  /\ next = Len(v.blocks)
  /\ open.kind # "none" =>
        /\ open.index + 1 = next /\ next > 0
        /\ v.blocks[next].kind = open.kind
        /\ open.kind = "tool" => streaming # NoTool /\ v.blocks[next].tool = streaming
  /\ protocol = "responses" =>
        v.blocks = ItemsDone /\ (open.kind # "none" => open.whole = v.current)
  /\ phase = "flush" => open.kind = "none"
  /\ \A i \in 1..Len(v.blocks) :
        v.blocks[i].kind = "tool" =>
           v.blocks[i].tool = streaming \/ Flushed(v.blocks[i].tool, order, cursor)

(* The same harness once the block that is open has been closed.           *)
Shut(v) == IF open.kind = "none" THEN v ELSE Then(v, Closed(open.index, open.whole))

LEMMA Shuts ==
  ASSUME NEW v \in Client, Agree(v)
  PROVE  LET w == Shut(v)
         IN  /\ w \in Client /\ w.outcome = "begun" /\ w.blocks = v.blocks /\ w.isOpen = FALSE
             /\ w.current = <<>> /\ w.content = v.content /\ w.args = v.args
             /\ Fit3(protocol, v, Closing) /\ All3(v, Closing) = w
             /\ \A g : Fitting(protocol, w, g) =>
                   /\ Fit3(protocol, v, Closing \o <<g>>)
                   /\ All3(v, Closing \o <<g>>) = Then(w, g)
             /\ \A g, h : Fitting(protocol, w, g) /\ Fitting(protocol, Then(w, g), h) =>
                   /\ Fit3(protocol, v, Closing \o <<g, h>>)
                   /\ All3(v, Closing \o <<g, h>>) = Then(Then(w, g), h)
  <1>1. CASE open.kind = "none"
    <2>1. Shut(v) = v /\ Closing = <<>>
      BY <1>1 DEF Shut, Closing
    <2>2. /\ v.outcome = "begun" /\ v.isOpen = FALSE /\ v.current = <<>>
      BY <1>1 DEF Agree, Client
    <2>3. Fit3(protocol, v, <<>>) /\ All3(v, <<>>) = v
      BY DEF Fit3, All3
    <2>4. \A g : Closing \o <<g>> = <<g>>
      BY <2>1
    <2>5. \A g, h : Closing \o <<g, h>> = <<g, h>>
      BY <2>1
    <2>6. \A g : Fitting(protocol, v, g) =>
                   /\ Fit3(protocol, v, Closing \o <<g>>)
                   /\ All3(v, Closing \o <<g>>) = Then(v, g)
      BY <2>4, OneFrame
    <2>7. \A g, h : Fitting(protocol, v, g) /\ Fitting(protocol, Then(v, g), h) =>
                   /\ Fit3(protocol, v, Closing \o <<g, h>>)
                   /\ All3(v, Closing \o <<g, h>>) = Then(Then(v, g), h)
      <3> TAKE g, h
      <3>1. HAVE Fitting(protocol, v, g) /\ Fitting(protocol, Then(v, g), h)
      <3>2. Fit3(protocol, v, <<g, h>>) /\ All3(v, <<g, h>>) = Then(Then(v, g), h)
        BY <3>1, TwoFrames
      <3> QED BY <2>5, <3>2
    <2> QED BY <2>1, <2>2, <2>3, <2>6, <2>7
  <1>2. CASE open.kind # "none"
    <2> DEFINE f == Closed(open.index, open.whole)
               w == Then(v, f)
    <2>1. Shut(v) = w /\ Closing = <<f>>
      BY <1>2 DEF Shut, Closing
    <2>2. f.type = "close" /\ f.index = open.index /\ f.whole = open.whole
      BY DEF Closed
    <2>3. Fitting(protocol, v, f)
      BY <1>2, <2>2 DEF Agree, Fitting
    <2>4. /\ w \in Client /\ w.outcome = v.outcome /\ w.blocks = v.blocks /\ w.isOpen = FALSE
          /\ w.current = <<>> /\ w.content = v.content /\ w.args = v.args
      BY <2>2, ThenClose
    <2>5. v.outcome = "begun"
      BY DEF Agree
    <2> HIDE DEF f
    <2>6. Fit3(protocol, v, Closing) /\ All3(v, Closing) = w
      BY <2>1, <2>3, OneFrame
    <2>7. \A g : Closing \o <<g>> = <<f, g>>
      BY <2>1, After
    <2>8. \A g, h : Closing \o <<g, h>> = <<f, g, h>>
      BY <2>1, After
    <2>9. \A g : Fitting(protocol, w, g) =>
                   /\ Fit3(protocol, v, Closing \o <<g>>)
                   /\ All3(v, Closing \o <<g>>) = Then(w, g)
      <3> TAKE g
      <3>1. HAVE Fitting(protocol, w, g)
      <3>2. Fit3(protocol, v, <<f, g>>) /\ All3(v, <<f, g>>) = Then(w, g)
        BY <2>3, <3>1, TwoFrames
      <3> QED BY <2>7, <3>2
    <2>10. \A g, h : Fitting(protocol, w, g) /\ Fitting(protocol, Then(w, g), h) =>
                   /\ Fit3(protocol, v, Closing \o <<g, h>>)
                   /\ All3(v, Closing \o <<g, h>>) = Then(Then(w, g), h)
      <3> TAKE g, h
      <3>1. HAVE Fitting(protocol, w, g) /\ Fitting(protocol, Then(w, g), h)
      <3>2. Fit3(protocol, v, <<f, g, h>>) /\ All3(v, <<f, g, h>>) = Then(Then(w, g), h)
        BY <2>3, <3>1, ThreeFrames
      <3> QED BY <2>8, <3>2
    <2> HIDE DEF w
    <2> QED BY <2>1, <2>4, <2>5, <2>6, <2>9, <2>10
  <1> QED BY <1>1, <1>2

(* The frames of each step of the writer fit; what they make of a harness  *)
(* that agreed with the writer.                                            *)
LEMMA ContentFrames ==
  ASSUME StreamTypes, client \in Client, Agree(client), TakeContent
  PROVE  LET w == All3(client, pending')
         IN  /\ Event \in Events /\ Event.kind \in Contents
             /\ Fit3(protocol, client, pending') /\ w \in Client
             /\ w.outcome = "begun" /\ w.isOpen = TRUE
             /\ w.content = Append(client.content, Event) /\ w.args = client.args
             /\ IF open.kind = Event.kind
                THEN /\ w.blocks = client.blocks
                     /\ w.current = Append(client.current, Event)
                ELSE /\ w.blocks = Append(client.blocks, [kind |-> Event.kind, tool |-> NoTool])
                     /\ w.current = <<Event>>
  <1> DEFINE e == Event
             w == All3(client, pending')
  <1>1. e \in Events /\ e.kind \in Contents
    BY SMTT(40) DEF TakeContent, Take, Event, StreamTypes, EngineTypes
  <1>2. <<e>> \in Seq(Events)
    BY <1>1
  <1>3. /\ client.blocks \in Seq(Blocks) /\ client.current \in Seq(Events)
        /\ client.content \in Seq(Events)
    BY DEF Client
  <1>4. CASE open.kind = e.kind
    <2> DEFINE d == Grown(open.index, <<e>>)
    <2>1. pending' = <<d>>
      <3>1. pending' = <<>> \o <<d>>
        BY <1>4 DEF TakeContent, Ensure
      <3> QED BY <3>1
    <2>2. d.type = "delta" /\ d.index = open.index /\ d.delta = <<e>>
      BY DEF Grown
    <2>3. /\ open.kind # "none" /\ client.isOpen = TRUE /\ open.index + 1 = Len(client.blocks)
          /\ Len(client.blocks) > 0 /\ client.blocks[Len(client.blocks)].kind = open.kind
          /\ client.outcome = "begun"
      BY <1>1, <1>4 DEF Agree, Contents
    <2>4. Fitting(protocol, client, d)
      BY <1>2, <2>2, <2>3 DEF Fitting
    <2> HIDE DEF d
    <2>5. Fit3(protocol, client, pending') /\ w = Then(client, d)
      BY <2>1, <2>4, OneFrame
    <2>6. client.blocks[Len(client.blocks)].kind # "tool"
      BY <1>1, <1>4, <2>3 DEF Contents
    <2>7. /\ Then(client, d) \in Client /\ Then(client, d).outcome = client.outcome
          /\ Then(client, d).blocks = client.blocks /\ Then(client, d).isOpen = client.isOpen
          /\ Then(client, d).current = client.current \o <<e>>
          /\ Then(client, d).content = client.content \o <<e>>
          /\ Then(client, d).args = client.args
      BY ZenonT(40), <1>2, <2>2, <2>3, <2>6, ThenText
    <2>8. /\ client.current \o <<e>> = Append(client.current, e)
          /\ client.content \o <<e>> = Append(client.content, e)
      BY <1>1, <1>3, AppendIsConcat
    <2> HIDE DEF w, e
    <2>9. /\ w \in Client /\ w.outcome = "begun" /\ w.isOpen = TRUE
          /\ w.content = Append(client.content, e) /\ w.args = client.args
          /\ w.blocks = client.blocks /\ w.current = Append(client.current, e)
      BY <2>3, <2>5, <2>7, <2>8
    <2> QED BY <1>1, <1>4, <2>5, <2>9 DEF w, e
  <1>5. CASE open.kind # e.kind
    <2> DEFINE s == Shut(client)
               b == [kind |-> e.kind, tool |-> NoTool]
               o == Opened(next, e.kind, NoTool)
               d == Grown(next, <<e>>)
    <2>1. pending' = Closing \o <<o, d>>
      <3>1. pending' = (Closing \o <<o>>) \o <<d>>
        BY <1>5 DEF TakeContent, Ensure
      <3>2. (Closing \o <<o>>) \o <<d>> = Closing \o <<o, d>>
        <4>1. CASE Closing = <<>>
          <5>1. Closing \o <<o>> = <<o>> /\ Closing \o <<o, d>> = <<o, d>>
            BY <4>1
          <5> QED BY <5>1, After
        <4>2. CASE \E x : Closing = <<x>>
          <5> PICK x : Closing = <<x>>
            BY <4>2
          <5>1. Closing \o <<o>> = <<x, o>> /\ Closing \o <<o, d>> = <<x, o, d>>
            BY After
          <5>2. <<x, o>> \o <<d>> = <<x, o, d>>
            BY After
          <5> QED BY <5>1, <5>2
        <4> QED BY <4>1, <4>2 DEF Closing
      <3> QED BY <3>1, <3>2
    <2>2. /\ o.type = "open" /\ o.index = next /\ o.block = b
          /\ d.type = "delta" /\ d.index = next /\ d.delta = <<e>>
      BY DEF Opened, Grown
    <2>3. b \in Blocks /\ b.kind # "tool" /\ b.kind = e.kind
      BY <1>1 DEF Blocks, Contents
    <2> HIDE DEF e, o, d, b
    <2>4. /\ s \in Client /\ s.outcome = "begun" /\ s.blocks = client.blocks /\ s.isOpen = FALSE
          /\ s.current = <<>> /\ s.content = client.content /\ s.args = client.args
      BY Shuts
    <2>5. \A g, h : Fitting(protocol, s, g) /\ Fitting(protocol, Then(s, g), h) =>
                   /\ Fit3(protocol, client, Closing \o <<g, h>>)
                   /\ All3(client, Closing \o <<g, h>>) = Then(Then(s, g), h)
      BY Shuts
    <2> HIDE DEF s
    <2>6. next = Len(client.blocks)
      BY DEF Agree
    <2>7. Fitting(protocol, s, o)
      BY <2>2, <2>3, <2>4, <2>6 DEF Fitting
    <2> DEFINE t == Then(s, o)
    <2>8. /\ t \in Client /\ t.outcome = "begun" /\ t.blocks = Append(client.blocks, b)
          /\ t.isOpen = TRUE /\ t.current = <<>> /\ t.content = client.content
          /\ t.args = client.args
      <3>1. o.block \in Blocks
        BY <2>2, <2>3
      <3>2. /\ t \in Client /\ t.outcome = s.outcome /\ t.blocks = Append(s.blocks, o.block)
            /\ t.isOpen = TRUE /\ t.current = s.current /\ t.content = s.content
            /\ t.args = s.args
        BY <2>2, <2>4, <3>1, ThenOpen
      <3> HIDE DEF t
      <3> QED BY <2>2, <2>4, <3>2
    <2> HIDE DEF t
    <2>9. /\ t.blocks \in Seq(Blocks) /\ Len(t.blocks) = next + 1 /\ next \in Nat
          /\ t.blocks[Len(t.blocks)] = b
      BY <1>3, <2>3, <2>6, <2>8
    <2>10. Fitting(protocol, t, d)
      BY <1>2, <2>2, <2>8, <2>9 DEF Fitting
    <2>11. Fit3(protocol, client, pending') /\ w = Then(t, d)
      BY <2>1, <2>5, <2>7, <2>10 DEF t
    <2>12. /\ Then(t, d) \in Client /\ Then(t, d).outcome = t.outcome
           /\ Then(t, d).blocks = t.blocks /\ Then(t, d).isOpen = t.isOpen
           /\ Then(t, d).current = t.current \o <<e>>
           /\ Then(t, d).content = t.content \o <<e>>
           /\ Then(t, d).args = t.args
      <3>1. d.delta \in Seq(Events) /\ Len(t.blocks) > 0 /\ t.blocks[Len(t.blocks)].kind # "tool"
        BY <1>2, <2>2, <2>3, <2>9
      <3>2. /\ Then(t, d) \in Client /\ Then(t, d).outcome = t.outcome
            /\ Then(t, d).blocks = t.blocks /\ Then(t, d).isOpen = t.isOpen
            /\ Then(t, d).current = t.current \o d.delta
            /\ Then(t, d).content = t.content \o d.delta
            /\ Then(t, d).args = t.args
        BY <2>2, <2>8, <3>1, ThenText
      <3> QED BY <2>2, <3>2
    <2>13. /\ <<>> \o <<e>> = <<e>>
           /\ client.content \o <<e>> = Append(client.content, e)
      BY <1>1, <1>3, AppendIsConcat
    <2> HIDE DEF w
    <2>14. /\ w \in Client /\ w.outcome = "begun" /\ w.isOpen = TRUE
           /\ w.content = Append(client.content, e) /\ w.args = client.args
           /\ w.blocks = Append(client.blocks, b) /\ w.current = <<e>>
      BY <2>8, <2>11, <2>12, <2>13
    <2> QED BY <1>1, <1>5, <2>11, <2>14 DEF w, e, b
  <1> QED BY <1>4, <1>5

LEMMA StartFrames ==
  ASSUME StreamTypes, client \in Client, Agree(client), TakeStart, CursorPlace
  PROVE  LET w == All3(client, pending')
         IN  /\ Event \in Events /\ Event.kind = "start" /\ Event.tool \in Tools
             /\ Fit3(protocol, client, pending') /\ w \in Client
             /\ w.outcome = "begun" /\ w.content = client.content /\ w.args = client.args
             /\ IF protocol = "anthropic" /\ streaming = NoTool
                THEN /\ w.blocks = Append(client.blocks, [kind |-> "tool", tool |-> Event.tool])
                     /\ w.isOpen = TRUE /\ w.current = <<>>
                ELSE w = client
  <1> DEFINE w == All3(client, pending')
             t == Event.tool
  <1>1. Event \in Events /\ Event.kind = "start" /\ phase = "body" /\ pending = <<>>
    BY DEF TakeStart, Take, Event, StreamTypes, EngineTypes
  <1>2. t \in Tools
    BY <1>1 DEF Events, Contents
  <1>3. client.blocks \in Seq(Blocks) /\ client.outcome = "begun"
    BY DEF Client, Agree
  <1>4. CASE ~(protocol = "anthropic" /\ streaming = NoTool)
    <2>1. pending' = <<>>
      BY <1>1, <1>4 DEF TakeStart
    <2>2. Fit3(protocol, client, pending') /\ w = client
      BY <2>1 DEF Fit3, All3
    <2> QED BY <1>1, <1>2, <1>3, <1>4, <2>2
  <1>5. CASE protocol = "anthropic" /\ streaming = NoTool
    <2> DEFINE s == Shut(client)
               b == [kind |-> "tool", tool |-> t]
               o == Opened(next, "tool", t)
    <2>1. pending' = Closing \o <<o>>
      BY <1>5 DEF TakeStart
    <2>2. o.type = "open" /\ o.index = next /\ o.block = b
      BY DEF Opened
    <2>3. b \in Blocks /\ b.kind = "tool" /\ b.tool = t
      BY <1>2 DEF Blocks
    <2>4. Unused(client.blocks, t)
      <3>1. cursor = 1
        BY <1>1 DEF CursorPlace
      <3>2. \A u : ~Flushed(u, order, cursor)
        BY <3>1 DEF Flushed
      <3> QED BY <1>2, <1>5, <3>2, StreamAssumption DEF Agree, Unused, StreamAssumption
    <2> HIDE DEF t, o, b
    <2>5. /\ s \in Client /\ s.outcome = "begun" /\ s.blocks = client.blocks /\ s.isOpen = FALSE
          /\ s.current = <<>> /\ s.content = client.content /\ s.args = client.args
      BY Shuts
    <2>6. \A g : Fitting(protocol, s, g) =>
                   /\ Fit3(protocol, client, Closing \o <<g>>)
                   /\ All3(client, Closing \o <<g>>) = Then(s, g)
      BY Shuts
    <2> HIDE DEF s
    <2>7. Fitting(protocol, s, o)
      BY <2>2, <2>3, <2>4, <2>5 DEF Fitting, Agree
    <2>8. /\ Then(s, o) \in Client /\ Then(s, o).outcome = "begun"
          /\ Then(s, o).blocks = Append(client.blocks, b)
          /\ Then(s, o).isOpen = TRUE /\ Then(s, o).current = <<>>
          /\ Then(s, o).content = client.content /\ Then(s, o).args = client.args
      <3> DEFINE r == Then(s, o)
      <3>1. o.block \in Blocks
        BY <2>2, <2>3
      <3>2. /\ r \in Client /\ r.outcome = s.outcome /\ r.blocks = Append(s.blocks, o.block)
            /\ r.isOpen = TRUE /\ r.current = s.current /\ r.content = s.content
            /\ r.args = s.args
        BY <2>2, <2>5, <3>1, ThenOpen
      <3> HIDE DEF r
      <3>3. /\ r \in Client /\ r.outcome = "begun" /\ r.blocks = Append(client.blocks, b)
            /\ r.isOpen = TRUE /\ r.current = <<>> /\ r.content = client.content
            /\ r.args = client.args
        BY <2>2, <2>5, <3>2
      <3> QED BY <3>3 DEF r
    <2>9. Fit3(protocol, client, pending') /\ w = Then(s, o)
      BY <2>1, <2>6, <2>7
    <2> HIDE DEF w
    <2> QED BY <1>1, <1>2, <1>5, <2>8, <2>9 DEF w, t, b
  <1> QED BY <1>4, <1>5

LEMMA ArgsFrames ==
  ASSUME StreamTypes, client \in Client, Agree(client), TakeArgs
  PROVE  LET w == All3(client, pending')
             t == Event.tool
         IN  /\ Event \in Events /\ Event.kind = "args" /\ t \in Tools
             /\ Fit3(protocol, client, pending') /\ w \in Client
             /\ w.outcome = "begun" /\ w.content = client.content /\ w.blocks = client.blocks
             /\ w.isOpen = client.isOpen
             /\ IF Streams(t)
                THEN /\ w.args = [client.args EXCEPT ![t] = Append(client.args[t], Event)]
                     /\ w.current = Append(client.current, Event)
                ELSE w = client
  <1> DEFINE w == All3(client, pending')
             e == Event
             t == e.tool
  <1>1. e \in Events /\ e.kind = "args"
    BY DEF TakeArgs, Take, Event, StreamTypes, EngineTypes
  <1>2. t \in Tools
    BY <1>1 DEF Events, Contents
  <1>3. client.outcome = "begun"
    BY DEF Agree
  <1>4. CASE ~Streams(t)
    <2>1. pending' = <<>>
      BY <1>4 DEF TakeArgs
    <2>2. Fit3(protocol, client, pending') /\ w = client
      BY <2>1 DEF Fit3, All3
    <2> QED BY <1>1, <1>2, <1>3, <1>4, <2>2
  <1>5. CASE Streams(t)
    <2> DEFINE d == Grown(open.index, <<e>>)
    <2>1. pending' = <<d>>
      BY <1>5 DEF TakeArgs
    <2>2. d.type = "delta" /\ d.index = open.index /\ d.delta = <<e>>
      BY DEF Grown
    <2>3. <<e>> \in Seq(Events)
      BY <1>1
    <2>4. /\ t = streaming /\ open.kind = "tool" /\ client.isOpen = TRUE
          /\ open.index + 1 = Len(client.blocks) /\ Len(client.blocks) > 0
          /\ client.blocks[Len(client.blocks)].kind = "tool"
          /\ client.blocks[Len(client.blocks)].tool = t
      BY <1>5 DEF Streams, Agree
    <2>5. Fitting(protocol, client, d)
      BY <2>2, <2>3, <2>4 DEF Fitting
    <2> HIDE DEF d, e
    <2>6. Fit3(protocol, client, pending') /\ w = Then(client, d)
      BY <2>1, <2>5, OneFrame
    <2>7. /\ Then(client, d) \in Client /\ Then(client, d).outcome = client.outcome
          /\ Then(client, d).blocks = client.blocks /\ Then(client, d).isOpen = client.isOpen
          /\ Then(client, d).current = client.current \o <<e>>
          /\ Then(client, d).content = client.content
          /\ Then(client, d).args = [client.args EXCEPT ![t] = client.args[t] \o <<e>>]
      <3>1. d.delta \in Seq(Events) /\ t = client.blocks[Len(client.blocks)].tool
        BY <2>2, <2>3, <2>4
      <3>2. /\ Then(client, d) \in Client /\ Then(client, d).outcome = client.outcome
            /\ Then(client, d).blocks = client.blocks /\ Then(client, d).isOpen = client.isOpen
            /\ Then(client, d).current = client.current \o d.delta
            /\ Then(client, d).content = client.content
            /\ Then(client, d).args =
                 [client.args EXCEPT ![client.blocks[Len(client.blocks)].tool] =
                                     client.args[client.blocks[Len(client.blocks)].tool] \o d.delta]
        BY <2>2, <2>4, <3>1, ThenPieces
      <3> QED BY <2>2, <3>1, <3>2
    <2>8. client.current \in Seq(Events) /\ client.args[t] \in Seq(Events)
      BY <1>2 DEF Client
    <2>9. /\ client.current \o <<e>> = Append(client.current, e)
          /\ client.args[t] \o <<e>> = Append(client.args[t], e)
      BY <1>1, <2>8, AppendIsConcat
    <2> HIDE DEF w
    <2> QED BY <1>1, <1>2, <1>3, <1>5, <2>6, <2>7, <2>9 DEF w, e
  <1> QED BY <1>4, <1>5

LEMMA FailFrames ==
  ASSUME client \in Client, Agree(client), Fail
  PROVE  LET w == All3(client, pending')
         IN  Fit3(protocol, client, pending') /\ w \in Client /\ w.outcome = "error"
  <1> DEFINE s == Shut(client)
             f == Ended("error", ItemsDone)
             w == All3(client, pending')
  <1>1. pending' = Closing \o <<f>>
    BY DEF Fail
  <1>2. f.type = "end" /\ f.how = "error" /\ f.items = ItemsDone
    BY DEF Ended
  <1>3. s \in Client /\ s.outcome = "begun" /\ s.blocks = client.blocks /\ s.isOpen = FALSE
    BY Shuts
  <1>4. \A g : Fitting(protocol, s, g) => /\ Fit3(protocol, client, Closing \o <<g>>)
                                          /\ All3(client, Closing \o <<g>>) = Then(s, g)
    BY Shuts
  <1> HIDE DEF s, f
  <1>5. Fitting(protocol, s, f)
    BY <1>2, <1>3 DEF Fitting, Agree
  <1>6. Then(s, f) \in Client /\ Then(s, f).outcome = f.how
    BY <1>2, <1>3, ThenEnd
  <1>7. Fit3(protocol, client, pending') /\ w = Then(s, f)
    BY <1>1, <1>4, <1>5
  <1> QED BY <1>2, <1>6, <1>7

LEMMA ConcludeFrames ==
  ASSUME client \in Client, Agree(client), ConcludeStream
  PROVE  LET w == All3(client, pending')
         IN  /\ Fit3(protocol, client, pending') /\ w \in Client /\ w.outcome = Verdict
             /\ w.blocks = client.blocks /\ w.content = client.content /\ w.args = client.args
  <1> DEFINE f == Ended(Verdict, done)
             w == All3(client, pending')
  <1>1. pending' = <<f>> /\ phase = "flush"
    BY DEF ConcludeStream
  <1>2. f.type = "end" /\ f.how = Verdict /\ f.items = done
    BY DEF Ended
  <1>3. Verdict \in {"stopped", "cut", "error"}
    BY DEF Verdict
  <1>4. /\ open.kind = "none" /\ client.outcome = "begun"
        /\ protocol = "responses" => client.blocks = done
    BY <1>1 DEF Agree, ItemsDone
  <1>5. client.isOpen = FALSE
    BY <1>4 DEF Agree, Client
  <1> HIDE DEF f
  <1>6. Fitting(protocol, client, f)
    BY <1>2, <1>3, <1>4, <1>5 DEF Fitting
  <1>7. Fit3(protocol, client, pending') /\ w = Then(client, f)
    BY <1>1, <1>6, OneFrame
  <1>8. /\ Then(client, f) \in Client /\ Then(client, f).outcome = f.how
        /\ Then(client, f).blocks = client.blocks /\ Then(client, f).content = client.content
        /\ Then(client, f).args = client.args
    BY <1>2, <1>3, ThenEnd
  <1> HIDE DEF w
  <1> QED BY <1>2, <1>7, <1>8 DEF w

LEMMA FlushFrames ==
  ASSUME StreamTypes, client \in Client, Agree(client), CallsKept, Flush
  PROVE  LET w == All3(client, pending')
             t == order[cursor]
         IN  /\ t \in Tools /\ Fit3(protocol, client, pending') /\ w \in Client
             /\ w.outcome = "begun" /\ w.isOpen = FALSE /\ w.current = <<>>
             /\ w.content = client.content
             /\ IF LeftToFlush(t)
                THEN /\ w.blocks = Append(client.blocks, [kind |-> "tool", tool |-> t])
                     /\ w.args = [client.args EXCEPT ![t] = client.args[t] \o args[t]]
                ELSE w = client
  <1> DEFINE w == All3(client, pending')
             t == order[cursor]
  <1>1. /\ cursor \in Nat \ {0} /\ cursor <= Len(order) /\ order \in Seq(Tools)
        /\ args \in [Tools -> Seq(Events)] /\ phase = "flush" /\ pending = <<>>
    BY DEF Flush, StreamTypes, WriterTypes
  <1>2. t \in Tools
    BY <1>1
  <1>3. /\ client.outcome = "begun" /\ client.isOpen = FALSE /\ client.current = <<>>
        /\ next = Len(client.blocks) /\ client.blocks \in Seq(Blocks)
    BY <1>1 DEF Agree, Client
  <1>4. CASE ~LeftToFlush(t)
    <2>1. pending' = <<>>
      BY <1>1, <1>4 DEF Flush
    <2>2. Fit3(protocol, client, pending') /\ w = client
      BY <2>1 DEF Fit3, All3
    <2> QED BY <1>2, <1>3, <1>4, <2>2
  <1>5. CASE LeftToFlush(t)
    <2> DEFINE b == [kind |-> "tool", tool |-> t]
               o == Opened(next, "tool", t)
               d == Grown(next, args[t])
               c == Closed(next, args[t])
               v == Then(client, o)
               x == Then(v, d)
    <2>1. pending' = (<<o>> \o (IF protocol = "anthropic" /\ args[t] = <<>> THEN <<>> ELSE <<d>>))
                       \o <<c>>
      BY <1>5 DEF Flush
    <2>2. /\ o.type = "open" /\ o.index = next /\ o.block = b
          /\ d.type = "delta" /\ d.index = next /\ d.delta = args[t]
          /\ c.type = "close" /\ c.index = next /\ c.whole = args[t]
      BY DEF Opened, Grown, Closed
    <2>3. b \in Blocks /\ b.kind = "tool" /\ b.tool = t /\ args[t] \in Seq(Events)
      BY <1>1, <1>2 DEF Blocks
    <2>4. Unused(client.blocks, t)
      <3>1. t # streaming
        BY <1>5 DEF LeftToFlush
      <3>2. ~Flushed(t, order, cursor)
        BY <1>1 DEF Flushed, CallsKept
      <3> HIDE DEF t
      <3> QED BY <3>1, <3>2 DEF Agree, Unused
    <2> HIDE DEF o, d, c, b
    <2>5. Fitting(protocol, client, o)
      BY <1>3, <2>2, <2>3, <2>4 DEF Fitting
    <2>6. /\ v \in Client /\ v.outcome = "begun" /\ v.blocks = Append(client.blocks, b)
          /\ v.isOpen = TRUE /\ v.current = <<>> /\ v.content = client.content
          /\ v.args = client.args
      <3>1. o.block \in Blocks
        BY <2>2, <2>3
      <3>2. /\ v \in Client /\ v.outcome = client.outcome
            /\ v.blocks = Append(client.blocks, o.block) /\ v.isOpen = TRUE
            /\ v.current = client.current /\ v.content = client.content /\ v.args = client.args
        BY <2>2, <3>1, ThenOpen
      <3> HIDE DEF v
      <3> QED BY <1>3, <2>2, <3>2
    <2> HIDE DEF v
    <2>7. /\ Len(v.blocks) = next + 1 /\ next \in Nat /\ v.blocks[Len(v.blocks)] = b
      BY <1>3, <2>3, <2>6
    <2>8. CASE protocol = "anthropic" /\ args[t] = <<>>
      <3>1. pending' = <<o, c>>
        <4>1. pending' = (<<o>> \o <<>>) \o <<c>>
          BY <2>1, <2>8
        <4>2. <<o>> \o <<>> = <<o>>
          OBVIOUS
        <4> QED BY <4>1, <4>2, After
      <3>2. Fitting(protocol, v, c)
        BY <2>2, <2>6, <2>7, <2>8 DEF Fitting
      <3>3. Fit3(protocol, client, pending') /\ w = Then(v, c)
        BY <2>5, <3>1, <3>2, TwoFrames DEF v
      <3>4. /\ Then(v, c) \in Client /\ Then(v, c).outcome = v.outcome
            /\ Then(v, c).blocks = v.blocks /\ Then(v, c).isOpen = FALSE
            /\ Then(v, c).current = <<>> /\ Then(v, c).content = v.content
            /\ Then(v, c).args = v.args
        BY <2>2, <2>6, ThenClose
      <3>5. client.args = [client.args EXCEPT ![t] = client.args[t] \o args[t]]
        <4>1. client.args \in [Tools -> Seq(Events)]
          BY DEF Client
        <4>2. client.args[t] \o args[t] = client.args[t]
          BY <1>2, <2>8, <4>1, ConcatEmptySeq
        <4> HIDE DEF t
        <4> QED BY <1>2, <4>1, <4>2
      <3> HIDE DEF w
      <3>6. /\ w \in Client /\ w.outcome = "begun" /\ w.isOpen = FALSE /\ w.current = <<>>
            /\ w.content = client.content /\ w.blocks = Append(client.blocks, b)
            /\ w.args = client.args
        BY <2>6, <3>3, <3>4
      <3> QED BY <1>2, <1>5, <3>3, <3>5, <3>6 DEF w, b
    <2>9. CASE ~(protocol = "anthropic" /\ args[t] = <<>>)
      <3>1. pending' = <<o, d, c>>
        <4>1. pending' = (<<o>> \o <<d>>) \o <<c>>
          BY <2>1, <2>9
        <4> QED BY ZenonT(40), <4>1, After
      <3>2. Fitting(protocol, v, d)
        BY <2>2, <2>3, <2>6, <2>7 DEF Fitting
      <3>3. /\ x \in Client /\ x.outcome = "begun" /\ x.blocks = v.blocks /\ x.isOpen = TRUE
            /\ x.current = args[t] /\ x.content = client.content
            /\ x.args = [client.args EXCEPT ![t] = client.args[t] \o args[t]]
        <4>1. d.delta \in Seq(Events) /\ Len(v.blocks) > 0 /\ v.blocks[Len(v.blocks)].kind = "tool"
          BY <2>2, <2>3, <2>7
        <4>2. /\ x \in Client /\ x.outcome = v.outcome /\ x.blocks = v.blocks
              /\ x.isOpen = v.isOpen /\ x.current = v.current \o d.delta
              /\ x.content = v.content
              /\ x.args = [v.args EXCEPT ![v.blocks[Len(v.blocks)].tool] =
                                          v.args[v.blocks[Len(v.blocks)].tool] \o d.delta]
          BY <2>2, <2>6, <4>1, ThenPieces
        <4>3. v.current \o d.delta = args[t]
          BY <2>2, <2>3, <2>6
        <4>4. v.blocks[Len(v.blocks)].tool = t
          BY <2>3, <2>7
        <4> HIDE DEF x, t
        <4> QED BY <2>2, <2>6, <4>2, <4>3, <4>4
      <3> HIDE DEF x
      <3>4. Fitting(protocol, x, c)
        BY <2>2, <2>7, <3>3 DEF Fitting
      <3>5. Fit3(protocol, client, pending') /\ w = Then(x, c)
        BY <2>5, <3>1, <3>2, <3>4, ThreeFrames DEF v, x
      <3>6. /\ Then(x, c) \in Client /\ Then(x, c).outcome = x.outcome
            /\ Then(x, c).blocks = x.blocks /\ Then(x, c).isOpen = FALSE
            /\ Then(x, c).current = <<>> /\ Then(x, c).content = x.content
            /\ Then(x, c).args = x.args
        BY <2>2, <3>3, ThenClose
      <3> HIDE DEF w
      <3>7. /\ w \in Client /\ w.outcome = "begun" /\ w.isOpen = FALSE /\ w.current = <<>>
            /\ w.content = client.content /\ w.blocks = Append(client.blocks, b)
            /\ w.args = [client.args EXCEPT ![t] = client.args[t] \o args[t]]
        BY <2>6, <3>3, <3>5, <3>6
      <3> QED BY <1>2, <1>5, <3>5, <3>7 DEF w, b
    <2> QED BY <2>8, <2>9
  <1> QED BY <1>4, <1>5

-----------------------------------------------------------------------------
(* The frames that are made fit, one after the other, and the harness that *)
(* has got them agrees with the writer.                                    *)
InStep ==
  /\ client \in Client
  /\ phase = "gone" => pending = <<>>
  /\ phase # "gone" => Fit3(protocol, client, pending)
  /\ phase \in {"body", "flush"} => Agree(All3(client, pending))

LEMMA InStepInit == StreamInit => InStep
  <1> SUFFICES ASSUME StreamInit PROVE InStep
    OBVIOUS
  <1>1. /\ client = [outcome |-> "none", blocks |-> <<>>, isOpen |-> FALSE, current |-> <<>>,
                     content |-> <<>>, args |-> [t \in Tools |-> <<>>]]
        /\ pending = <<Begun>> /\ phase = "body" /\ open = NoBlock /\ next = 0 /\ done = <<>>
        /\ protocol \in {"anthropic", "responses"}
    BY DEF StreamInit
  <1>2. <<>> \in Seq(Events) /\ <<>> \in Seq(Blocks)
    OBVIOUS
  <1>3. client \in Client
    BY <1>1, <1>2 DEF Client
  <1> DEFINE w == Then(client, Begun)
  <1>4. Begun.type = "begin" /\ client.outcome = "none"
    BY <1>1 DEF Begun
  <1>5. Fitting(protocol, client, Begun)
    BY <1>4 DEF Fitting
  <1>6. Fit3(protocol, client, pending) /\ All3(client, pending) = w
    BY <1>1, <1>5, OneFrame
  <1>7. /\ w.outcome = "begun" /\ w.blocks = client.blocks /\ w.isOpen = client.isOpen
        /\ w.current = client.current
    BY <1>3, <1>4, ThenBegin
  <1> HIDE DEF w
  <1>8. w.outcome = "begun" /\ w.blocks = <<>> /\ w.isOpen = FALSE /\ w.current = <<>>
    BY <1>1, <1>7
  <1>9. Agree(w)
    BY <1>1, <1>8 DEF Agree, NoBlock, ItemsDone
  <1> QED BY <1>1, <1>3, <1>6, <1>9 DEF InStep

(* While nothing is to be handed on, the harness itself agrees.            *)
LEMMA NothingPending ==
  ASSUME InStep, pending = <<>>, phase \in {"body", "flush"}
  PROVE  client \in Client /\ Agree(client)
  BY DEF InStep, All3

(* An agreement is kept where the writer does nothing.                     *)
LEMMA AgreeStays ==
  ASSUME NEW w, Agree(w), UNCHANGED <<protocol, phase, open, next, done, order, streaming, cursor>>
  PROVE  Agree(w)'
  BY DEF Agree, ItemsDone

LEMMA AgreeThen ==
  ASSUME NEW w, Agree(w)', All3(client', pending') = w
  PROVE  Agree(All3(client, pending))'
  BY DEF Agree

LEMMA AgreeContent ==
  ASSUME StreamTypes, client \in Client, Agree(client), TakeContent,
         NEW w \in Client, w.outcome = "begun", w.isOpen = TRUE,
         IF open.kind = Event.kind
         THEN /\ w.blocks = client.blocks
              /\ w.current = Append(client.current, Event)
         ELSE /\ w.blocks = Append(client.blocks, [kind |-> Event.kind, tool |-> NoTool])
              /\ w.current = <<Event>>
  PROVE  Agree(w)'
  <1> DEFINE e == Event
  <1>1. e \in Events /\ e.kind \in Contents /\ phase = "body"
    BY DEF TakeContent, Take, Event, StreamTypes, EngineTypes
  <1>2. /\ UNCHANGED <<protocol, phase, order, streaming, cursor>>
        /\ open' = [Ensure(e.kind).block EXCEPT !.whole = Append(@, e)]
        /\ next' = IF open.kind = e.kind THEN next ELSE next + 1
        /\ done' = IF open.kind = e.kind THEN done ELSE ItemsDone
    BY DEF TakeContent, Take, calls
  <1>3. /\ client.blocks \in Seq(Blocks) /\ next = Len(client.blocks) /\ next \in Nat
    BY DEF Client, Agree
  <1>4. open \in [kind : Contents \cup {"tool", "none"}, index : Nat, whole : Seq(Events)]
    BY DEF StreamTypes, WriterTypes
  <1> HIDE DEF e
  <1>5. CASE open.kind = e.kind
    <2>1. /\ open'.kind = open.kind /\ open'.index = open.index
          /\ open'.whole = Append(open.whole, e)
      BY <1>2, <1>4, <1>5 DEF Ensure
    <2>2. open'.kind # "none" /\ open'.kind # "tool"
      BY <1>1, <1>5, <2>1 DEF Contents
    <2>3. w.blocks = client.blocks /\ w.current = Append(client.current, e)
      BY <1>5 DEF e
    <2>4. ItemsDone' = ItemsDone
      BY <1>2, <1>5, <2>1 DEF ItemsDone
    <2> QED BY <1>1, <1>2, <1>5, <2>1, <2>2, <2>3, <2>4 DEF Agree
  <1>6. CASE open.kind # e.kind
    <2> DEFINE b == [kind |-> e.kind, tool |-> NoTool]
    <2>1. open'.kind = e.kind /\ open'.index = next /\ open'.whole = <<e>>
      <3>1. open' = [kind |-> e.kind, index |-> next, whole |-> Append(<<>>, e)]
        BY <1>2, <1>6 DEF Ensure
      <3>2. Append(<<>>, e) = <<e>>
        OBVIOUS
      <3> QED BY <3>1, <3>2
    <2>2. open'.kind # "none" /\ open'.kind # "tool"
      BY <1>1, <2>1 DEF Contents
    <2>3. w.blocks = Append(client.blocks, b) /\ w.current = <<e>>
      BY <1>6 DEF e
    <2>4. b \in Blocks /\ b.kind = e.kind
      BY <1>1 DEF Blocks
    <2>5. ItemsDone' = Append(ItemsDone, b)
      BY <1>2, <1>6, <2>1, <2>2 DEF ItemsDone
    <2> HIDE DEF b
    <2>6. /\ Len(w.blocks) = next + 1 /\ w.blocks[next + 1] = b
          /\ \A i \in 1..next : w.blocks[i] = client.blocks[i]
      BY <1>3, <2>3, <2>4
    <2>7. next' = next + 1 /\ done' = ItemsDone
      BY <1>2, <1>6
    <2>8. \A i \in 1..Len(w.blocks) : w.blocks[i].kind = "tool" =>
             w.blocks[i].tool = streaming \/ Flushed(w.blocks[i].tool, order, cursor)
      BY <1>3, <2>1, <2>2, <2>4, <2>6 DEF Agree
    <2>9. protocol = "responses" => w.blocks = ItemsDone'
      BY <2>3, <2>5 DEF Agree
    <2> QED BY <1>1, <1>2, <1>3, <2>1, <2>2, <2>3, <2>4, <2>6, <2>7, <2>8, <2>9 DEF Agree
  <1> QED BY <1>5, <1>6

LEMMA AgreeStart ==
  ASSUME StreamTypes, CallsKept, client \in Client, Agree(client), TakeStart, Event.tool \in Tools,
         NEW w \in Client, w.outcome = "begun", CursorPlace,
         IF protocol = "anthropic" /\ streaming = NoTool
         THEN /\ w.blocks = Append(client.blocks, [kind |-> "tool", tool |-> Event.tool])
              /\ w.isOpen = TRUE /\ w.current = <<>>
         ELSE w = client
  PROVE  Agree(w)'
  <1> DEFINE t == Event.tool
  <1>1. /\ phase = "body" /\ cursor = 1 /\ cursor' = 1
        /\ UNCHANGED <<protocol, phase, done>>
    BY DEF TakeStart, Take, CursorPlace
  <1>2. \A u, o : ~Flushed(u, o, 1)
    BY DEF Flushed
  <1>3. /\ client.blocks \in Seq(Blocks) /\ next = Len(client.blocks) /\ next \in Nat
    BY DEF Client, Agree
  <1>4. t # NoTool
    BY StreamAssumption DEF StreamAssumption
  <1>5. CASE protocol = "anthropic" /\ streaming = NoTool
    <2> DEFINE b == [kind |-> "tool", tool |-> t]
    <2>1. /\ streaming' = t /\ next' = next + 1
          /\ open' = [kind |-> "tool", index |-> next, whole |-> <<>>]
      BY <1>5 DEF TakeStart
    <2>2. w.blocks = Append(client.blocks, b) /\ w.isOpen = TRUE /\ w.current = <<>>
      BY <1>5
    <2>3. b \in Blocks /\ b.kind = "tool" /\ b.tool = t
      BY DEF Blocks
    <2> HIDE DEF b, t
    <2>4. /\ Len(w.blocks) = next + 1 /\ w.blocks[next + 1] = b
          /\ \A i \in 1..next : w.blocks[i] = client.blocks[i]
      BY <1>3, <2>2, <2>3
    <2>5. \A i \in 1..next : client.blocks[i] \in Blocks
      BY <1>3
    <2>6. \A i \in 1..next : client.blocks[i].kind # "tool"
      BY <1>1, <1>2, <1>3, <1>5, <2>5, StreamAssumption
      DEF Agree, Blocks, Contents, StreamAssumption
    <2>7. \A i \in 1..Len(w.blocks) : w.blocks[i].kind = "tool" => w.blocks[i].tool = t
      BY <1>3, <2>3, <2>4, <2>6
    <2> QED BY <1>1, <1>3, <1>4, <1>5, <2>1, <2>2, <2>3, <2>4, <2>7 DEF Agree
  <1>6. CASE ~(protocol = "anthropic" /\ streaming = NoTool)
    <2>1. UNCHANGED <<streaming, open, next>> /\ w = client
      BY <1>6 DEF TakeStart
    <2>2. ItemsDone' = ItemsDone
      BY <1>1, <2>1 DEF ItemsDone
    <2>3. \A i \in 1..Len(w.blocks) : w.blocks[i].kind = "tool" => w.blocks[i].tool = streaming
      BY <1>1, <1>2, <2>1 DEF Agree
    <2> QED BY <1>1, <2>1, <2>2, <2>3 DEF Agree
  <1> QED BY <1>5, <1>6

LEMMA AgreeArgs ==
  ASSUME StreamTypes, client \in Client, Agree(client), TakeArgs,
         NEW w \in Client, w.outcome = "begun", w.blocks = client.blocks,
         w.isOpen = client.isOpen,
         w.current = client.current \/ Streams(Event.tool), CallsKept, Event.tool \in Tools
  PROVE  Agree(w)'
  <1>1. UNCHANGED <<protocol, phase, open, next, order, streaming, done, cursor>> /\ phase = "body"
    BY DEF TakeArgs, Take
  <1>2. protocol = "responses" => w.current = client.current
    BY StreamAssumption DEF CallsKept, Streams, StreamAssumption
  <1>3. w.isOpen = FALSE => w.current = client.current
    BY DEF Streams, Agree
  <1>4. ItemsDone' = ItemsDone
    BY <1>1 DEF ItemsDone
  <1> QED BY <1>1, <1>2, <1>3, <1>4 DEF Agree

LEMMA AgreeFlush ==
  ASSUME StreamTypes, CallsKept, client \in Client, Agree(client), Flush,
         NEW w \in Client, w.outcome = "begun", w.isOpen = FALSE, w.current = <<>>,
         IF LeftToFlush(order[cursor])
         THEN w.blocks = Append(client.blocks, [kind |-> "tool", tool |-> order[cursor]])
         ELSE w = client
  PROVE  Agree(w)'
  <1> DEFINE t == order[cursor]
             b == [kind |-> "tool", tool |-> t]
  <1>1. /\ phase = "flush" /\ cursor' = cursor + 1 /\ cursor \in Nat \ {0} /\ t \in Tools
        /\ UNCHANGED <<protocol, phase, open, order, streaming>>
    BY DEF Flush, calls, StreamTypes, WriterTypes
  <1>2. /\ client.blocks \in Seq(Blocks) /\ next = Len(client.blocks) /\ next \in Nat
        /\ open.kind = "none" /\ ItemsDone = done /\ ItemsDone' = done'
    BY <1>1 DEF Client, Agree, ItemsDone
  <1>3. Flushed(t, order, cursor') /\ \A u : Flushed(u, order, cursor) => Flushed(u, order, cursor')
    BY <1>1 DEF Flushed
  <1>4. CASE LeftToFlush(t)
    <2>1. next' = next + 1 /\ done' = Append(done, b)
      BY <1>4 DEF Flush
    <2>2. w.blocks = Append(client.blocks, b) /\ b \in Blocks /\ b.kind = "tool" /\ b.tool = t
      BY <1>1, <1>4 DEF Blocks
    <2> HIDE DEF b, t
    <2>3. /\ Len(w.blocks) = next + 1 /\ w.blocks[next + 1] = b
          /\ \A i \in 1..next : w.blocks[i] = client.blocks[i]
      BY <1>2, <2>2
    <2>4. \A i \in 1..Len(w.blocks) : w.blocks[i].kind = "tool" =>
             w.blocks[i].tool = streaming \/ Flushed(w.blocks[i].tool, order, cursor')
      BY <1>2, <1>3, <2>2, <2>3 DEF Agree
    <2>5. protocol = "responses" => w.blocks = ItemsDone'
      BY <1>2, <2>1, <2>2 DEF Agree
    <2> QED BY <1>1, <1>2, <2>1, <2>3, <2>4, <2>5 DEF Agree
  <1>5. CASE ~LeftToFlush(t)
    <2>1. UNCHANGED <<next, done>> /\ w = client
      BY <1>5 DEF Flush
    <2>2. \A i \in 1..Len(w.blocks) : w.blocks[i].kind = "tool" =>
             w.blocks[i].tool = streaming \/ Flushed(w.blocks[i].tool, order, cursor')
      BY <1>2, <1>3, <2>1 DEF Agree
    <2> QED BY <1>1, <1>2, <2>1, <2>2 DEF Agree
  <1> QED BY <1>4, <1>5

LEMMA AgreeEnd ==
  ASSUME client \in Client, Agree(client), EndBody,
         NEW w, w.outcome = "begun", w.blocks = client.blocks, w.isOpen = FALSE,
         w.current = <<>>
  PROVE  Agree(w)'
  <1>1. /\ phase' = "flush" /\ open' = NoBlock /\ done' = ItemsDone
        /\ UNCHANGED <<protocol, next, order, streaming, cursor>>
    BY DEF EndBody, calls
  <1>2. open'.kind = "none" /\ ItemsDone' = ItemsDone
    BY <1>1 DEF NoBlock, ItemsDone
  <1> QED BY <1>1, <1>2 DEF Agree

(* A frame that is handed on is one frame less to come.                    *)
LEMMA Yields ==
  ASSUME InStep, Yield
  PROVE  /\ client' = Then(client, Head(pending)) /\ Fitting(protocol, client, Head(pending))
         /\ client' \in Client
         /\ Fit3(protocol, client', pending') /\ All3(client', pending') = All3(client, pending)
         /\ phase # "gone"
  <1> DEFINE f == Head(pending)
             v == Then(client, f)
             q == Tail(pending)
  <1>1. pending # <<>> /\ client' = Received(f) /\ pending' = q
    BY DEF Yield
  <1>2. client \in Client /\ Fit3(protocol, client, pending) /\ phase # "gone"
    BY <1>1 DEF InStep
  <1>3. Fitting(protocol, client, f) /\ Fit2(protocol, v, q)
    BY <1>1, <1>2 DEF Fit3
  <1>4. client' = v
    BY <1>1, <1>2, <1>3, ReceivedThen
  <1>5. v \in Client
    BY <1>2, <1>3, ThenTyped
  <1>6. Fit3(protocol, v, q) /\ All3(v, q) = All2(v, q)
    BY <1>3, Fewer
  <1>7. All3(client, pending) = All2(v, q)
    BY <1>1 DEF All3
  <1> QED BY <1>1, <1>2, <1>3, <1>4, <1>5, <1>6, <1>7

LEMMA InStepStep ==
  StreamTypes /\ CallOrder /\ InStep /\ [StreamNext]_streamVars => InStep'
  <1> SUFFICES ASSUME StreamTypes, CallOrder, InStep, [StreamNext]_streamVars PROVE InStep'
    OBVIOUS
  <1>1. ASSUME client' = client, phase' = phase, phase # "gone", pending = <<>>,
               protocol' = protocol, Fit3(protocol, client, pending'),
               phase' \in {"body", "flush"} => Agree(All3(client, pending))'
        PROVE  InStep'
    BY <1>1 DEF InStep
  <1>2. CallsKept /\ CursorPlace
    BY DEF CallOrder
  <1>3. CASE Engine
    <2>1. UNCHANGED <<protocol, phase, writer, pending, client>>
      BY <1>3, EngineSends DEF StreamTypes
    <2> PICK w : w = All3(client, pending)
      OBVIOUS
    <2>2. Agree(w) => Agree(w)'
      BY <2>1, AgreeStays DEF writer, calls
    <2>3. All3(client', pending') = w
      BY <2>1
    <2>4. Agree(w)' => Agree(All3(client, pending))'
      BY <2>3, AgreeThen
    <2>5. Agree(All3(client, pending)) => Agree(w)
      OBVIOUS
    <2> QED BY <2>1, <2>2, <2>4, <2>5 DEF InStep
  <1>4. CASE TakeContent
    <2>1. /\ pending = <<>> /\ phase = "body" /\ UNCHANGED <<protocol, phase, client>>
      BY <1>4 DEF TakeContent, Take
    <2>2. client \in Client /\ Agree(client)
      BY <2>1, NothingPending
    <2> PICK w : w = All3(client, pending')
      OBVIOUS
    <2>3. Fit3(protocol, client, pending') /\ Agree(w)'
      BY <1>4, <2>2, ContentFrames, AgreeContent
    <2>4. Agree(All3(client, pending))'
      BY <2>1, <2>3, AgreeThen
    <2> QED BY <1>1, <2>1, <2>3, <2>4
  <1>5. CASE TakeStart
    <2>1. /\ pending = <<>> /\ phase = "body" /\ UNCHANGED <<protocol, phase, client>>
      BY <1>5 DEF TakeStart, Take
    <2>2. client \in Client /\ Agree(client)
      BY <2>1, NothingPending
    <2> PICK w : w = All3(client, pending')
      OBVIOUS
    <2>3. Fit3(protocol, client, pending') /\ Agree(w)'
      BY <1>2, <1>5, <2>2, StartFrames, AgreeStart
    <2>4. Agree(All3(client, pending))'
      BY <2>1, <2>3, AgreeThen
    <2> QED BY <1>1, <2>1, <2>3, <2>4
  <1>6. CASE TakeArgs
    <2>1. /\ pending = <<>> /\ phase = "body" /\ UNCHANGED <<protocol, phase, client>>
      BY <1>6 DEF TakeArgs, Take
    <2>2. client \in Client /\ Agree(client)
      BY <2>1, NothingPending
    <2> PICK w : w = All3(client, pending')
      OBVIOUS
    <2>3. Fit3(protocol, client, pending') /\ Agree(w)'
      BY <1>2, <1>6, <2>2, ArgsFrames, AgreeArgs
    <2>4. Agree(All3(client, pending))'
      BY <2>1, <2>3, AgreeThen
    <2> QED BY <1>1, <2>1, <2>3, <2>4
  <1>7. CASE TakeFinish
    <2>1. /\ pending = <<>> /\ phase = "body" /\ UNCHANGED <<protocol, phase, client, pending>>
          /\ UNCHANGED <<open, next, done, order, streaming, cursor>>
      BY <1>7 DEF TakeFinish, Take, calls
    <2>2. client \in Client /\ Agree(client)
      BY <2>1, NothingPending
    <2> PICK w : w = client
      OBVIOUS
    <2>3. Agree(w)'
      BY <2>1, <2>2, AgreeStays
    <2>4. Fit3(protocol, client, pending') /\ All3(client', pending') = w
      BY <2>1 DEF Fit3, All3
    <2>5. Agree(All3(client, pending))'
      BY <2>3, <2>4, AgreeThen
    <2> QED BY <1>1, <2>1, <2>4, <2>5
  <1>8. CASE KeepAlive
    <2>1. /\ pending = <<>> /\ phase = "body" /\ UNCHANGED <<protocol, phase, client, writer>>
          /\ pending' = <<Ping>> /\ Ping.type = "ping"
      BY <1>8 DEF KeepAlive, Ping
    <2>2. client \in Client /\ Agree(client)
      BY <2>1, NothingPending
    <2> PICK w : w = client
      OBVIOUS
    <2>3. Agree(w)'
      BY <2>1, <2>2, AgreeStays DEF writer, calls
    <2>4. Fitting(protocol, client, Ping)
      BY <2>1, <2>2 DEF Fitting, Agree
    <2>5. Fit3(protocol, client, pending') /\ All3(client', pending') = w
      BY <2>1, <2>4, OneFrame, ThenPing
    <2>6. Agree(All3(client, pending))'
      BY <2>3, <2>5, AgreeThen
    <2> QED BY <1>1, <2>1, <2>5, <2>6
  <1>9. CASE EndBody
    <2>1. /\ pending = <<>> /\ phase = "body" /\ phase' = "flush" /\ UNCHANGED <<protocol, client>>
          /\ pending' = Closing
      BY <1>9 DEF EndBody, Drained
    <2>2. client \in Client /\ Agree(client)
      BY <2>1, NothingPending
    <2> PICK w : w = All3(client, pending')
      OBVIOUS
    <2>3. /\ Fit3(protocol, client, pending') /\ w.outcome = "begun" /\ w.blocks = client.blocks
          /\ w.isOpen = FALSE /\ w.current = <<>>
      BY <2>1, <2>2, Shuts
    <2>4. Agree(w)'
      BY <1>9, <2>2, <2>3, AgreeEnd
    <2>5. Agree(All3(client, pending))'
      BY <2>1, <2>4, AgreeThen
    <2> QED BY <2>1, <2>2, <2>3, <2>5 DEF InStep
  <1>10. CASE Fail
    <2>1. /\ pending = <<>> /\ phase = "body" /\ phase' = "over" /\ UNCHANGED <<protocol, client>>
      BY <1>10 DEF Fail, Drained
    <2>2. client \in Client /\ Agree(client)
      BY <2>1, NothingPending
    <2>3. Fit3(protocol, client, pending')
      BY <1>10, <2>2, FailFrames
    <2> QED BY <2>1, <2>2, <2>3 DEF InStep
  <1>11. CASE Flush
    <2>1. /\ pending = <<>> /\ phase = "flush" /\ UNCHANGED <<protocol, phase, client>>
      BY <1>11 DEF Flush
    <2>2. client \in Client /\ Agree(client)
      BY <2>1, NothingPending
    <2> PICK w : w = All3(client, pending')
      OBVIOUS
    <2>3. Fit3(protocol, client, pending') /\ Agree(w)'
      BY <1>2, <1>11, <2>2, FlushFrames, AgreeFlush
    <2>4. Agree(All3(client, pending))'
      BY <2>1, <2>3, AgreeThen
    <2> QED BY <1>1, <2>1, <2>3, <2>4
  <1>12. CASE ConcludeStream
    <2>1. /\ pending = <<>> /\ phase = "flush" /\ phase' = "over" /\ UNCHANGED <<protocol, client>>
      BY <1>12 DEF ConcludeStream
    <2>2. client \in Client /\ Agree(client)
      BY <2>1, NothingPending
    <2>3. Fit3(protocol, client, pending')
      BY <1>12, <2>2, ConcludeFrames
    <2> QED BY <2>1, <2>2, <2>3 DEF InStep
  <1>13. CASE Yield
    <2>1. UNCHANGED <<protocol, phase, writer>>
      BY <1>13 DEF Yield
    <2>2. /\ client' \in Client /\ Fit3(protocol, client', pending') /\ phase # "gone"
          /\ All3(client', pending') = All3(client, pending)
      BY <1>13, Yields
    <2> PICK w : w = All3(client, pending)
      OBVIOUS
    <2>3. Agree(w) => Agree(w)'
      BY <2>1, AgreeStays DEF writer, calls
    <2>4. Agree(w)' => Agree(All3(client, pending))'
      BY <2>2, AgreeThen
    <2>5. Agree(All3(client, pending)) => Agree(w)
      OBVIOUS
    <2> QED BY <2>1, <2>2, <2>3, <2>4, <2>5 DEF InStep
  <1>14. CASE GoAway
    <2>1. phase' = "gone" /\ pending' = <<>> /\ client' = client
      BY <1>14 DEF GoAway
    <2> QED BY <2>1 DEF InStep
  <1>15. CASE CancelPump \/ UNCHANGED streamVars
    <2>1. UNCHANGED <<protocol, phase, writer, pending, client>>
      BY <1>15 DEF CancelPump, streamVars
    <2> PICK w : w = All3(client, pending)
      OBVIOUS
    <2>2. Agree(w) => Agree(w)'
      BY <2>1, AgreeStays DEF writer, calls
    <2>3. All3(client', pending') = w
      BY <2>1
    <2>4. Agree(w)' => Agree(All3(client, pending))'
      BY <2>3, AgreeThen
    <2>5. Agree(All3(client, pending)) => Agree(w)
      OBVIOUS
    <2> QED BY <2>1, <2>2, <2>4, <2>5 DEF InStep
  <1> QED BY <1>3, <1>4, <1>5, <1>6, <1>7, <1>8, <1>9, <1>10, <1>11, <1>12, <1>13, <1>14, <1>15
          DEF StreamNext, Writer

LEMMA Opens ==
  ASSUME NEW v \in Client, NEW f, NEW w, w = Then(v, f), f.type = "open", f.block \in Blocks
  PROVE  /\ w.outcome = v.outcome /\ w.blocks = Append(v.blocks, f.block)
         /\ w.isOpen = TRUE /\ w.current = v.current
  <1> DEFINE x == Then(v, f)
  <1>1. /\ x \in Client /\ x.outcome = v.outcome /\ x.blocks = Append(v.blocks, f.block)
        /\ x.isOpen = TRUE /\ x.current = v.current /\ x.content = v.content
        /\ x.args = v.args
    BY ThenOpen
  <1> HIDE DEF x
  <1> QED BY <1>1 DEF x

LEMMA Adds ==
  ASSUME NEW v \in Client, NEW f, NEW w, w = Then(v, f), f.type = "delta",
         f.delta \in Seq(Events), Len(v.blocks) > 0
  PROVE  /\ w.outcome = v.outcome /\ w.blocks = v.blocks
         /\ w.isOpen = v.isOpen /\ w.current = v.current \o f.delta
  BY ThenDelta

LEMMA Begins ==
  ASSUME NEW v \in Client, NEW f, NEW w, w = Then(v, f), f.type = "begin"
  PROVE  /\ w.outcome = "begun" /\ w.blocks = v.blocks /\ w.isOpen = v.isOpen
         /\ w.current = v.current
  BY ThenBegin

LEMMA Closes ==
  ASSUME NEW v \in Client, NEW f, NEW w, w = Then(v, f), f.type = "close"
  PROVE  /\ w.outcome = v.outcome /\ w.blocks = v.blocks /\ w.isOpen = FALSE
         /\ w.current = <<>>
  BY ThenClose

LEMMA Ends ==
  ASSUME NEW v \in Client, NEW f, NEW w, w = Then(v, f), f.type = "end",
         f.how \in {"stopped", "cut", "error"}
  PROVE  /\ w.outcome = f.how /\ w.blocks = v.blocks /\ w.isOpen = v.isOpen
         /\ w.current = v.current
  BY ThenEnd

LEMMA FrameKeepsPromise ==
  ASSUME client \in Client, NEW f, Fitting(protocol, client, f), client' = Then(client, f)
  PROVE  [Promise!Next]_(Promise!vars)
  <1> PICK v : v = client
    OBVIOUS
  <1> PICK w : w = Then(v, f)
    OBVIOUS
  <1>0. v \in Client /\ Fitting(protocol, v, f) /\ client' = w /\ client = v
    OBVIOUS
  <1> USE DEF Promise!Next, Promise!vars
  <1>1. CASE f.type = "ping"
    <2>1. w = v
      BY <1>0, <1>1, ThenPing
    <2> QED BY <1>0, <2>1
  <1>2. CASE f.type = "begin"
    <2>1. v.outcome = "none"
      BY <1>0, <1>2 DEF Fitting
    <2>2. /\ w.outcome = "begun" /\ w.blocks = v.blocks
          /\ w.isOpen = v.isOpen /\ w.current = v.current
      BY <1>0, <1>2, Begins
    <2>3. Promise!Begin
      BY <1>0, <2>1, <2>2 DEF Promise!Begin
    <2> QED BY <2>3
  <1>3. CASE f.type = "open"
    <2>1. /\ v.outcome = "begun" /\ v.isOpen = FALSE /\ v.current = <<>>
          /\ f.block \in Blocks
          /\ f.block.kind = "tool" => Unused(v.blocks, f.block.tool)
      BY <1>0, <1>3 DEF Fitting
    <2>2. /\ w.outcome = v.outcome /\ w.blocks = Append(v.blocks, f.block)
          /\ w.isOpen = TRUE /\ w.current = v.current
      <3>1. v \in Client /\ w = Then(v, f) /\ f.block \in Blocks
        BY <1>0, <2>1
      <3> QED BY <1>3, <3>1, Opens
    <2>3. v.blocks \in Seq(Blocks)
      BY <1>0 DEF Client
    <2>4. /\ Len(w.blocks) = Len(v.blocks) + 1
          /\ w.blocks[Len(w.blocks)] = f.block
          /\ \A i \in DOMAIN v.blocks : w.blocks[i] = v.blocks[i]
      BY <2>1, <2>2, <2>3
    <2>5. f.block.kind = "tool" => \A i \in DOMAIN v.blocks : v.blocks[i] # f.block
      BY <2>1, <2>3 DEF Unused
    <2>6. Promise!OpenBlock
      BY <1>0, <2>1, <2>2, <2>4, <2>5 DEF Promise!OpenBlock
    <2> QED BY <2>6
  <1>4. CASE f.type = "delta"
    <2>1. v.isOpen = TRUE /\ Len(v.blocks) > 0 /\ f.delta \in Seq(Events)
      BY <1>0, <1>4 DEF Fitting
    <2>2. /\ w.outcome = v.outcome /\ w.blocks = v.blocks
          /\ w.isOpen = v.isOpen /\ w.current = v.current \o f.delta
      BY <1>0, <1>4, <2>1, Adds
    <2>3. v.current \in Seq(Events)
      BY <1>0 DEF Client
    <2>4. /\ Len(v.current) <= Len(w.current)
          /\ \A i \in DOMAIN v.current : w.current[i] = v.current[i]
      <3>1. \A c, d \in Seq(Events) :
              Len(c) <= Len(c \o d) /\ \A i \in DOMAIN c : (c \o d)[i] = c[i]
        OBVIOUS
      <3>2. v.current \in Seq(Events) /\ f.delta \in Seq(Events)
        BY <2>1, <2>3
      <3>3. w.current = v.current \o f.delta
        BY <2>2
      <3>4. /\ Len(v.current) <= Len(v.current \o f.delta)
            /\ \A i \in DOMAIN v.current : (v.current \o f.delta)[i] = v.current[i]
        BY <3>1, <3>2
      <3> QED BY <3>3, <3>4, Zenon
    <2>5. Promise!Grow
      BY <1>0, <2>1, <2>2, <2>4 DEF Promise!Grow
    <2> QED BY <2>5
  <1>5. CASE f.type = "close"
    <2>1. v.isOpen = TRUE
      BY <1>0, <1>5 DEF Fitting
    <2>2. /\ w.outcome = v.outcome /\ w.blocks = v.blocks
          /\ w.isOpen = FALSE /\ w.current = <<>>
      BY ZenonT(40), <1>0, <1>5, Closes
    <2>3. Promise!CloseBlock
      BY <1>0, <2>1, <2>2 DEF Promise!CloseBlock
    <2> QED BY <2>3
  <1>6. CASE f.type = "end"
    <2>1. v.outcome = "begun" /\ v.isOpen = FALSE /\ f.how \in {"stopped", "cut", "error"}
      BY <1>0, <1>6 DEF Fitting
    <2>2. /\ w.outcome = f.how /\ w.blocks = v.blocks
          /\ w.isOpen = v.isOpen /\ w.current = v.current
      BY <1>0, <1>6, <2>1, Ends
    <2>3. Promise!End
      BY <1>0, <2>1, <2>2 DEF Promise!End
    <2> QED BY <2>3
  <1> QED BY <1>0, <1>1, <1>2, <1>3, <1>4, <1>5, <1>6 DEF Fitting

LEMMA PromiseInit == StreamInit => Promise!Init
  BY DEF StreamInit, Promise!Init

LEMMA PromiseStep ==
  ASSUME StreamTypes, InStep, [StreamNext]_streamVars
  PROVE  [Promise!Next]_(Promise!vars)
  <1>1. CASE client' = client
    BY <1>1 DEF Promise!vars
  <1>2. CASE Yield
    BY <1>2, Yields, FrameKeepsPromise DEF InStep
  <1>3. client' = client \/ Yield
    BY EngineSends, Quiet
    DEF StreamNext, Writer, StreamTypes, TakeContent, TakeStart, TakeArgs, TakeFinish, Take,
        EndBody, Fail, Flush, ConcludeStream, KeepAlive, CancelPump, GoAway, streamVars
  <1> QED BY <1>1, <1>2, <1>3

(* The frames a harness gets make a well-formed stream: every frame maps   *)
(* to a step of ContentStream or leaves it alone.                          *)
THEOREM StreamsKeepTheirPromise == StreamSpec => KeepsPromise
  <1>1. StreamSpec => [](StreamTypes /\ CallOrder /\ InStep)
    <2>1. StreamInit => StreamTypes /\ CallOrder /\ InStep
      BY StreamTypesInit, CallOrderInit, InStepInit
    <2>2. StreamTypes /\ CallOrder /\ InStep /\ [StreamNext]_streamVars
            => (StreamTypes /\ CallOrder /\ InStep)'
      BY StreamTypesStep, CallOrderStep, InStepStep
    <2> QED BY <2>1, <2>2, PTL DEF StreamSpec
  <1>2. StreamTypes /\ InStep /\ [StreamNext]_streamVars => [Promise!Next]_(Promise!vars)
    BY PromiseStep
  <1> QED BY <1>1, <1>2, PromiseInit, PTL DEF StreamSpec, KeepsPromise, Promise!Spec

-----------------------------------------------------------------------------
(* Every piece has its place, the pieces of every call are kept in order,  *)
(* a block of a call is closed early only by a text, and the writer        *)
(* flushes once all that the engine sent has been taken.                   *)
Numbered ==
  \A i \in 1..Len(sent) : sent[i].kind \in Contents \cup {"args"} => sent[i].at = i

PiecesKept == \A u \in Tools : Kept(u, order) => Collects(args[u], ArgsTo(u, taken))

ClosedEarly ==
  phase = "body" /\ streaming # NoTool /\ open.kind # "tool" => Interrupted(streaming)

AllTaken == phase = "flush" => taken = Len(sent) /\ pump = "ended"

Pieces == Numbered /\ PiecesKept /\ ClosedEarly /\ AllTaken

(* What a harness has got that has been handed all frames made so far.     *)
Carries(v) ==
  /\ Collects(v.content, ContentTo(taken))
  /\ \A u \in Tools : u # streaming =>
        v.args[u] = IF Flushed(u, order, cursor) THEN args[u] ELSE <<>>
  /\ \A u \in Tools : u = streaming /\ ~Interrupted(u) => v.args[u] = args[u]
  /\ \A u \in Tools : u = streaming \/ Flushed(u, order, cursor) =>
        \E i \in 1..Len(v.blocks) : v.blocks[i].tool = u

Truth(v) ==
  /\ pump = "ended"
  /\ finish = "length" /\ Started = {} => v.outcome = "cut"
  /\ Collects(v.content, ContentTo(Len(sent)))
  /\ \A t \in Tools : ~Interrupted(t) => Collects(v.args[t], ArgsTo(t, Len(sent)))
  /\ \A t \in Started : \E i \in 1..Len(v.blocks) : v.blocks[i].tool = t

Told(v) == v.outcome \in {"stopped", "cut"} => Truth(v)

Shuttered(v) == v.outcome \notin {"none", "begun"} => v.isOpen = FALSE

Verdicts ==
  /\ Shuttered(client) /\ Told(client)
  /\ phase \in {"body", "flush"} => Carries(All3(client, pending))
  /\ phase = "over" => Told(All3(client, pending))

-----------------------------------------------------------------------------
LEMMA CollectsMore ==
  ASSUME EngineTypes, NEW s \in Seq(Events), NEW n \in 1..Len(sent),
         NEW P \in SUBSET (1..(n - 1)), Collects(s, P), sent[n].at = n
  PROVE  Collects(Append(s, sent[n]), P \cup {n})
  <1> DEFINE e == sent[n]
             r == Append(s, e)
  <1>1. e \in Events /\ e.at = n /\ n \in Nat
    BY DEF EngineTypes
  <1>2. sent[e.at] = e
    BY <1>1
  <1> HIDE DEF e
  <1>3. /\ r \in Seq(Events) /\ Len(r) = Len(s) + 1 /\ r[Len(s) + 1] = e
        /\ \A i \in 1..Len(s) : r[i] = s[i]
        /\ DOMAIN r = 1..(Len(s) + 1) /\ DOMAIN s = 1..Len(s) /\ Len(s) \in Nat
    BY <1>1
  <1> HIDE DEF r
  <1>4. \A i \in DOMAIN s : s[i].at \in P /\ s[i] = sent[s[i].at] /\ s[i].at < n
    <2>1. \A p \in P : p < n
      BY <1>1
    <2> QED BY <2>1 DEF Collects
  <1>5. \A i \in DOMAIN r : r[i].at \in P \cup {n} /\ r[i] = sent[r[i].at]
    BY <1>1, <1>2, <1>3, <1>4
  <1>6. \A i, j \in DOMAIN r : i < j => r[i].at < r[j].at
    <2> SUFFICES ASSUME NEW i \in DOMAIN r, NEW j \in DOMAIN r, i < j
                 PROVE  r[i].at < r[j].at
      OBVIOUS
    <2>1. i \in 1..Len(s)
      BY <1>3
    <2>2. CASE j \in 1..Len(s)
      BY <1>3, <2>1, <2>2 DEF Collects
    <2>3. CASE j = Len(s) + 1
      BY <1>1, <1>3, <1>4, <2>1, <2>3
    <2> QED BY <1>3, <2>2, <2>3
  <1>7. \A p \in P \cup {n} : \E i \in DOMAIN r : r[i].at = p
    <2>1. \A p \in P : \E i \in DOMAIN r : r[i].at = p
      BY <1>3 DEF Collects
    <2>2. r[Len(s) + 1].at = n /\ Len(s) + 1 \in DOMAIN r
      BY <1>1, <1>3
    <2> QED BY <2>1, <2>2
  <1>8. Collects(r, P \cup {n})
    BY <1>5, <1>6, <1>7 DEF Collects
  <1> QED BY <1>8 DEF r, e

LEMMA CollectsNone == Collects(<<>>, {})
  BY DEF Collects

(* What has been collected stays so when the engine sends more.            *)
LEMMA CollectsStays ==
  ASSUME EngineTypes, Extends \/ sent' = sent, NEW s, NEW P \in SUBSET (1..Len(sent)),
         Collects(s, P)
  PROVE  Collects(s, P)'
  <1>1. \A p \in P : sent'[p] = sent[p]
    BY DEF Extends
  <1> QED BY <1>1 DEF Collects

LEMMA InterruptedStays ==
  ASSUME EngineTypes, Extends \/ sent' = sent, NEW u, streaming' = streaming, Interrupted(u)
  PROVE  Interrupted(u)'
  <1>1. \A i \in DOMAIN sent : i \in DOMAIN sent' /\ sent'[i] = sent[i]
    BY DEF Extends, EngineTypes
  <1> QED BY <1>1 DEF Interrupted, Starts

(* The places up to one that has been sent already.                        *)
LEMMA PlacesStay ==
  ASSUME EngineTypes, Extends \/ sent' = sent, NEW n \in 0..Len(sent)
  PROVE  /\ ContentTo(n)' = ContentTo(n) /\ ContentTo(n) \subseteq 1..n
         /\ \A u : ArgsTo(u, n)' = ArgsTo(u, n) /\ ArgsTo(u, n) \subseteq 1..n
  <1>1. Len(sent) \in Nat /\ DOMAIN sent = 1..Len(sent)
    BY DEF EngineTypes
  <1>2. DOMAIN sent' = 1..Len(sent') /\ Len(sent') \in Nat /\ Len(sent) <= Len(sent')
    BY <1>1 DEF Extends, EngineTypes
  <1>3. \A i \in 1..n : i \in DOMAIN sent /\ i \in DOMAIN sent' /\ sent'[i] = sent[i]
    BY <1>1, <1>2 DEF Extends
  <1>4. ContentTo(n)' = ContentTo(n) /\ ContentTo(n) \subseteq 1..n
    BY <1>3 DEF ContentTo
  <1>5. ASSUME NEW u PROVE ArgsTo(u, n)' = ArgsTo(u, n) /\ ArgsTo(u, n) \subseteq 1..n
    <2>1. \A j \in 1..n, i \in Nat \ {0} : i < j => i \in 1..n
      BY <1>1
    <2>2. \A j \in 1..n :
            (\E i \in Starts(u) : i < j) <=>
              \E i \in 1..n : i < j /\ sent[i].kind = "start" /\ sent[i].tool = u
      BY <1>1, <2>1 DEF Starts
    <2>3. \A j \in 1..n :
            (\E i \in Starts(u)' : i < j) <=>
              \E i \in 1..n : i < j /\ sent[i].kind = "start" /\ sent[i].tool = u
      BY <1>1, <1>2, <1>3, <2>1 DEF Starts
    <2> QED BY <1>3, <2>2, <2>3 DEF ArgsTo
  <1> QED BY <1>4, <1>5

LEMMA NumberedStep ==
  ASSUME EngineTypes, Numbered, Extends \/ sent' = sent
  PROVE  Numbered'
  <1>1. CASE Extends
    <2>1. \A i \in 1..Len(sent') : i \in 1..Len(sent) \/ i \in (Len(sent) + 1)..Len(sent')
      BY <1>1 DEF EngineTypes, Extends
    <2> QED BY <1>1, <2>1 DEF Extends, Numbered
  <1> QED BY <1>1 DEF Numbered

LEMMA WhoIsKept ==
  ASSUME CallsKept, NEW u
  PROVE  Kept(u, order) <=> \E i \in 1..taken : sent[i].kind = "start" /\ sent[i].tool = u
  <1>1. ASSUME Kept(u, order)
        PROVE  \E i \in 1..taken : sent[i].kind = "start" /\ sent[i].tool = u
    <2> PICK k \in 1..Len(order) : order[k] = u
      BY <1>1 DEF Kept
    <2> QED BY DEF CallsKept
  <1>2. ASSUME NEW i \in 1..taken, sent[i].kind = "start", sent[i].tool = u
        PROVE  Kept(u, order)
    BY <1>2 DEF CallsKept
  <1> QED BY <1>1, <1>2

LEMMA NextPlaces ==
  ASSUME EngineTypes, CallsKept, taken < Len(sent)
  PROVE  /\ ContentTo(taken + 1) = IF sent[taken + 1].kind \in Contents
                                   THEN ContentTo(taken) \cup {taken + 1} ELSE ContentTo(taken)
         /\ \A u : ArgsTo(u, taken + 1) =
                  IF sent[taken + 1].kind = "args" /\ sent[taken + 1].tool = u /\ Kept(u, order)
                  THEN ArgsTo(u, taken) \cup {taken + 1} ELSE ArgsTo(u, taken)
  <1>1. taken \in Nat /\ Len(sent) \in Nat /\ taken + 1 \in 1..Len(sent)
        /\ DOMAIN sent = 1..Len(sent)
    BY DEF EngineTypes
  <1>2. 1..(taken + 1) = (1..taken) \cup {taken + 1}
    BY <1>1
  <1>3. ContentTo(taken + 1) = IF sent[taken + 1].kind \in Contents
                               THEN ContentTo(taken) \cup {taken + 1} ELSE ContentTo(taken)
    BY <1>2 DEF ContentTo
  <1>4. ASSUME NEW u
        PROVE  ArgsTo(u, taken + 1) =
                 IF sent[taken + 1].kind = "args" /\ sent[taken + 1].tool = u /\ Kept(u, order)
                 THEN ArgsTo(u, taken) \cup {taken + 1} ELSE ArgsTo(u, taken)
    <2>1. Kept(u, order) <=> \E i \in 1..taken : sent[i].kind = "start" /\ sent[i].tool = u
      BY WhoIsKept
    <2>2. Kept(u, order) <=> \E i \in Starts(u) : i < taken + 1
      BY <1>1, <2>1 DEF Starts
    <2> QED BY <1>2, <2>2 DEF ArgsTo
  <1> QED BY <1>3, <1>4

LEMMA PiecesInit == StreamInit => Pieces
  <1> SUFFICES ASSUME StreamInit PROVE Pieces
    OBVIOUS
  <1>1. sent = <<>> /\ order = <<>> /\ streaming = NoTool /\ phase = "body"
    BY DEF StreamInit
  <1> QED BY <1>1 DEF Pieces, Numbered, PiecesKept, ClosedEarly, AllTaken, Kept

LEMMA PiecesKeptStays ==
  ASSUME EngineTypes, PiecesKept, Extends \/ sent' = sent, UNCHANGED <<taken, order, args>>
  PROVE  PiecesKept'
  <1> SUFFICES ASSUME NEW u \in Tools, Kept(u, order)
               PROVE  Collects(args[u], ArgsTo(u, taken))'
    BY DEF PiecesKept, Kept
  <1> PICK s : s = args[u]
    OBVIOUS
  <1> PICK n : n = taken
    OBVIOUS
  <1> PICK P : P = ArgsTo(u, n)
    OBVIOUS
  <1>1. n \in 0..Len(sent)
    BY DEF EngineTypes
  <1>2. ArgsTo(u, n)' = P /\ P \subseteq 1..n
    BY <1>1, PlacesStay
  <1>3. P \subseteq 1..Len(sent)
    BY <1>1, <1>2 DEF EngineTypes
  <1>4. Collects(s, P)
    BY DEF PiecesKept
  <1>5. Collects(s, P)'
    BY <1>3, <1>4, CollectsStays
  <1>6. args'[u] = s /\ ArgsTo(u, taken)' = P
    BY <1>2
  <1> QED BY <1>5, <1>6

LEMMA PiecesKeptTake ==
  ASSUME StreamTypes, CallsKept, StartedOnce, Numbered, PiecesKept,
         TakeContent \/ TakeStart \/ TakeArgs \/ TakeFinish
  PROVE  PiecesKept'
  <1> DEFINE n == taken + 1
             e == sent[n]
  <1>1. /\ taken \in Nat /\ n \in 1..Len(sent) /\ taken < Len(sent) /\ taken' = n /\ sent' = sent
        /\ sent \in Seq(Events) /\ taken \in 0..Len(sent) /\ Len(sent) \in Nat
    BY DEF TakeContent, TakeStart, TakeArgs, TakeFinish, Take, StreamTypes, EngineTypes, upstream
  <1>2. e \in Events
    BY <1>1
  <1> SUFFICES ASSUME NEW u \in Tools, Kept(u, order)'
               PROVE  Collects(args'[u], ArgsTo(u, n))
    BY <1>1 DEF PiecesKept, Collects, ArgsTo, Starts
  <1>3. ArgsTo(u, n) = IF e.kind = "args" /\ e.tool = u /\ Kept(u, order)
                       THEN ArgsTo(u, taken) \cup {n} ELSE ArgsTo(u, taken)
    BY <1>1, NextPlaces DEF StreamTypes
  <1>4. Kept(u, order) => Collects(args[u], ArgsTo(u, taken))
    BY DEF PiecesKept
  <1>5. CASE TakeContent \/ TakeFinish
    <2>1. UNCHANGED <<order, args>> /\ e.kind # "args"
      BY <1>5 DEF TakeContent, TakeFinish, Take, Event, Contents, calls
    <2> QED BY <1>3, <1>4, <2>1 DEF Kept
  <1>6. CASE TakeStart
    <2>1. /\ e.kind = "start" /\ order' = Append(order, e.tool)
          /\ args' = [args EXCEPT ![e.tool] = <<>>]
      BY <1>6 DEF TakeStart, Take, Event
    <2>2. ArgsTo(u, n) = ArgsTo(u, taken)
      BY <1>3, <2>1
    <2>3. CASE u = e.tool
      <3>1. args'[u] = <<>>
        BY <2>1, <2>3 DEF StreamTypes, WriterTypes
      <3>2. \A i \in Starts(u) : i = n
        <4>1. \A i \in Starts(u) : i \in 1..Len(sent) /\ sent[i].kind = "start" /\ sent[i].tool = u
          BY <1>1 DEF Starts
        <4>2. n \in 1..Len(sent) /\ sent[n].kind = "start" /\ sent[n].tool = u
          BY <1>1, <2>1, <2>3
        <4> HIDE DEF n
        <4> QED BY <4>1, <4>2 DEF StartedOnce
      <3>3. ArgsTo(u, taken) = {}
        BY <1>1, <3>2 DEF ArgsTo
      <3> QED BY <2>2, <3>1, <3>3, CollectsNone
    <2>4. CASE u # e.tool
      <3>1. args'[u] = args[u]
        BY <2>1, <2>4 DEF StreamTypes, WriterTypes
      <3>2. order \in Seq(Tools) /\ e.tool \in Tools
        BY <1>2, <2>1 DEF StreamTypes, WriterTypes, Events, Contents
      <3> HIDE DEF e
      <3>3. Kept(u, order)
        BY <2>1, <2>4, <3>2 DEF Kept
      <3> QED BY <1>4, <2>2, <3>1, <3>3
    <2> QED BY <2>3, <2>4
  <1>7. CASE TakeArgs
    <2>1. /\ e.kind = "args" /\ order' = order
          /\ args' = IF protocol = "anthropic" \/ IsCall(e.tool)
                     THEN [args EXCEPT ![e.tool] = Append(args[e.tool], e)] ELSE args
      BY <1>7 DEF TakeArgs, Take, Event
    <2>2. Kept(u, order) /\ (u = e.tool => IsCall(e.tool))
      BY <2>1 DEF Kept, IsCall, StreamTypes, WriterTypes
    <2>3. args \in [Tools -> Seq(Events)]
      BY DEF StreamTypes, WriterTypes
    <2>4. CASE u # e.tool
      <3>1. args'[u] = args[u]
        BY <2>1, <2>3, <2>4
      <3> QED BY <1>3, <1>4, <2>2, <2>4, <3>1
    <2>5. CASE u = e.tool
      <3>1. args'[u] = Append(args[u], e)
        BY <2>1, <2>2, <2>3, <2>5
      <3>2. ArgsTo(u, n) = ArgsTo(u, taken) \cup {n}
        BY <1>3, <2>1, <2>2, <2>5
      <3>3. ArgsTo(u, taken) \in SUBSET (1..(n - 1)) /\ e.at = n
        BY <1>1, <2>1 DEF ArgsTo, Numbered
      <3>4. args[u] \in Seq(Events) /\ Collects(args[u], ArgsTo(u, taken))
        BY <1>4, <2>2, <2>3
      <3>5. Collects(Append(args[u], e), ArgsTo(u, taken) \cup {n})
        BY <1>1, <3>3, <3>4, CollectsMore DEF StreamTypes
      <3> QED BY <3>1, <3>2, <3>5
    <2> QED BY <2>4, <2>5
  <1> QED BY <1>5, <1>6, <1>7

LEMMA ClosedEarlyStep ==
  ASSUME StreamTypes, CallsKept, ClosedEarly, [StreamNext]_streamVars
  PROVE  ClosedEarly'
  <1>1. ASSUME Extends \/ sent' = sent, streaming' = streaming,
               phase' = "body" => phase = "body" /\ open' = open
        PROVE  ClosedEarly'
    BY <1>1, InterruptedStays DEF ClosedEarly, StreamTypes
  <1>2. CASE Engine
    BY <1>1, <1>2, EngineSends DEF StreamTypes, writer, calls
  <1>3. CASE TakeContent
    <2>1. /\ sent' = sent /\ streaming' = streaming /\ taken < Len(sent)
          /\ sent[taken + 1].kind \in Contents
      BY <1>3 DEF TakeContent, Take, upstream, calls
    <2>2. ASSUME streaming # NoTool
          PROVE  Interrupted(streaming)
      <3> PICK u : u = streaming
        OBVIOUS
      <3>1. PICK i \in 1..taken : sent[i].kind = "start" /\ sent[i].tool = u
        BY <2>2 DEF CallsKept, Kept
      <3>2. i \in Starts(u) /\ taken + 1 \in DOMAIN sent /\ i < taken + 1
        BY <2>1, <3>1 DEF Starts, StreamTypes, EngineTypes
      <3> QED BY <2>1, <3>2 DEF Interrupted
    <2>3. Interrupted(streaming) => Interrupted(streaming)'
      BY <2>1 DEF Interrupted, Starts
    <2> QED BY <2>1, <2>2, <2>3 DEF ClosedEarly
  <1>4. CASE TakeStart
    <2>1. sent' = sent /\ phase' = phase
      BY <1>4 DEF TakeStart, Take, upstream
    <2>2. CASE UNCHANGED <<streaming, open>>
      BY <1>1, <2>1, <2>2
    <2>3. CASE ~UNCHANGED <<streaming, open>>
      <3>1. open'.kind = "tool"
        BY <1>4, <2>3 DEF TakeStart
      <3> QED BY <3>1 DEF ClosedEarly
    <2> QED BY <2>2, <2>3
  <1>5. CASE TakeArgs \/ TakeFinish
    BY <1>1, <1>5 DEF TakeArgs, TakeFinish, Take, upstream, calls
  <1>6. CASE EndBody \/ Fail \/ Flush \/ ConcludeStream
    BY <1>1, <1>6 DEF EndBody, Fail, Flush, ConcludeStream, upstream, calls, writer
  <1>7. CASE KeepAlive \/ Yield \/ CancelPump \/ GoAway \/ UNCHANGED streamVars
    BY <1>1, <1>7, Quiet DEF writer, calls
  <1> QED BY <1>2, <1>3, <1>4, <1>5, <1>6, <1>7 DEF StreamNext, Writer

LEMMA AllTakenStep ==
  ASSUME StreamTypes, AllTaken, [StreamNext]_streamVars
  PROVE  AllTaken'
  <1>1. CASE Engine
    BY <1>1, EngineSends DEF StreamTypes, AllTaken
  <1>2. CASE TakeContent \/ TakeStart \/ TakeArgs \/ TakeFinish
    BY <1>2 DEF TakeContent, TakeStart, TakeArgs, TakeFinish, Take, AllTaken
  <1>3. CASE EndBody
    BY <1>3 DEF EndBody, Drained, UpstreamDone, AllTaken, upstream
  <1>4. CASE Fail \/ ConcludeStream
    BY <1>4 DEF Fail, ConcludeStream, AllTaken
  <1>5. CASE Flush
    BY <1>5 DEF Flush, AllTaken, upstream
  <1>6. CASE KeepAlive \/ Yield \/ CancelPump \/ GoAway \/ UNCHANGED streamVars
    <2>1. pump' = pump \/ pump # "ended"
      BY <1>6, Quiet
    <2> QED BY <1>6, <2>1, Quiet DEF AllTaken
  <1> QED BY <1>1, <1>2, <1>3, <1>4, <1>5, <1>6 DEF StreamNext, Writer

LEMMA PiecesStep ==
  StreamTypes /\ CallOrder /\ Pieces /\ [StreamNext]_streamVars => Pieces'
  <1> SUFFICES ASSUME StreamTypes, CallOrder, Pieces, [StreamNext]_streamVars PROVE Pieces'
    OBVIOUS
  <1>1. EngineTypes /\ CallsKept /\ StartedOnce /\ Numbered /\ PiecesKept /\ ClosedEarly /\ AllTaken
    BY DEF StreamTypes, CallOrder, Pieces
  <1>2. ClosedEarly' /\ AllTaken'
    BY <1>1, ClosedEarlyStep, AllTakenStep
  <1>3. Extends \/ sent' = sent
    BY <1>1, EngineSends, Quiet
    DEF StreamNext, Writer, TakeContent, TakeStart, TakeArgs, TakeFinish, Take, EndBody, Fail,
        Flush, ConcludeStream, upstream
  <1>4. Numbered'
    BY <1>1, <1>3, NumberedStep
  <1>5. PiecesKept'
    <2>1. CASE TakeContent \/ TakeStart \/ TakeArgs \/ TakeFinish
      BY <1>1, <2>1, PiecesKeptTake
    <2>2. CASE ~(TakeContent \/ TakeStart \/ TakeArgs \/ TakeFinish)
      <3>1. UNCHANGED <<taken, order, args>>
        BY <1>1, <2>2, EngineSends, Quiet
        DEF StreamNext, Writer, EndBody, Fail, Flush, ConcludeStream, calls, writer
      <3> QED BY <1>1, <1>3, <3>1, PiecesKeptStays
    <2> QED BY <2>1, <2>2
  <1> QED BY <1>2, <1>4, <1>5 DEF Pieces

LEMMA CarriesStays ==
  ASSUME EngineTypes, NEW w, Carries(w), Extends \/ sent' = sent,
         UNCHANGED <<order, args, streaming, cursor>>, ContentTo(taken)' = ContentTo(taken)
  PROVE  Carries(w)'
  <1> PICK s : s = w.content
    OBVIOUS
  <1> PICK P : P = ContentTo(taken)
    OBVIOUS
  <1>1. P \in SUBSET (1..Len(sent)) /\ Collects(s, P)
    BY DEF Carries, ContentTo, EngineTypes
  <1>2. Collects(s, P)'
    BY <1>1, CollectsStays
  <1>3. Collects(w.content, ContentTo(taken))'
    BY <1>2
  <1>4. \A u : u = streaming /\ Interrupted(u) => Interrupted(u)'
    BY InterruptedStays
  <1> QED BY <1>3, <1>4 DEF Carries

LEMMA CarriesSame ==
  ASSUME NEW v, NEW w, Carries(v), w.content = v.content, w.args = v.args, w.blocks = v.blocks
  PROVE  Carries(w)
  BY DEF Carries

LEMMA CarriesContent ==
  ASSUME StreamTypes, CallsKept, Numbered, client \in Client, Carries(client), TakeContent,
         NEW w \in Client, w.content = Append(client.content, Event), w.args = client.args,
         w.blocks = client.blocks \/ \E b : w.blocks = Append(client.blocks, b)
  PROVE  Carries(w)'
  <1> DEFINE n == taken + 1
  <1>1. /\ taken \in Nat /\ n \in 1..Len(sent) /\ taken < Len(sent) /\ taken' = n /\ sent' = sent
        /\ Event = sent[n] /\ sent[n].kind \in Contents /\ sent[n].at = n
        /\ UNCHANGED <<order, args, streaming, cursor>>
    BY SMTT(40) DEF TakeContent, Take, Event, upstream, calls, StreamTypes, EngineTypes, Numbered
  <1>2. ContentTo(n) = ContentTo(taken) \cup {n} /\ ContentTo(taken) \in SUBSET (1..(n - 1))
    <2>1. ContentTo(n) = ContentTo(taken) \cup {n}
      BY <1>1, NextPlaces DEF StreamTypes
    <2> QED BY <1>1, <2>1 DEF ContentTo
  <1>3. Collects(w.content, ContentTo(n))
    <2>1. client.content \in Seq(Events) /\ Collects(client.content, ContentTo(taken))
      BY DEF Client, Carries
    <2>2. Collects(Append(client.content, sent[n]), ContentTo(taken) \cup {n})
      BY <1>1, <1>2, <2>1, CollectsMore DEF StreamTypes
    <2> QED BY <1>1, <1>2, <2>2
  <1>4. Collects(w.content, ContentTo(taken))'
    BY <1>1, <1>3 DEF Collects, ContentTo
  <1>5. \A u : Interrupted(u)' <=> Interrupted(u)
    BY <1>1 DEF Interrupted, Starts
  <1>6. \A u : (\E i \in 1..Len(client.blocks) : client.blocks[i].tool = u)
                 => \E i \in 1..Len(w.blocks) : w.blocks[i].tool = u
    <2>1. client.blocks \in Seq(Blocks)
      BY DEF Client
    <2>2. CASE \E b : w.blocks = Append(client.blocks, b)
      <3>1. /\ Len(client.blocks) <= Len(w.blocks)
            /\ \A i \in 1..Len(client.blocks) : w.blocks[i] = client.blocks[i]
        BY <2>1, <2>2
      <3>2. Len(w.blocks) \in Nat /\ Len(client.blocks) \in Nat
        BY <2>1 DEF Client
      <3>3. \A i \in 1..Len(client.blocks) : i \in 1..Len(w.blocks)
        BY <3>1, <3>2
      <3> QED BY <3>1, <3>3
    <2> QED BY <2>2
  <1> QED BY <1>1, <1>4, <1>5, <1>6 DEF Carries

LEMMA CarriesStart ==
  ASSUME StreamTypes, CallsKept, StartedOnce, CursorPlace, client \in Client, Carries(client),
         TakeStart, NEW w \in Client, w.content = client.content, w.args = client.args,
         Event.tool \in Tools,
         IF protocol = "anthropic" /\ streaming = NoTool
         THEN w.blocks = Append(client.blocks, [kind |-> "tool", tool |-> Event.tool])
         ELSE w = client
  PROVE  Carries(w)'
  <1> DEFINE n == taken + 1
             t == Event.tool
  <1>1. /\ taken \in Nat /\ n \in 1..Len(sent) /\ taken < Len(sent) /\ taken' = n /\ sent' = sent
        /\ Event = sent[n] /\ sent[n].kind = "start" /\ cursor = 1 /\ cursor' = 1
        /\ args' = [args EXCEPT ![t] = <<>>]
    BY DEF TakeStart, Take, Event, upstream, StreamTypes, EngineTypes, CursorPlace
  <1>2. t # NoTool /\ t # streaming
    <2>1. t # NoTool
      BY StreamAssumption DEF StreamAssumption
    <2>2. ASSUME t = streaming PROVE FALSE
      <3>1. PICK i \in 1..taken : sent[i].kind = "start" /\ sent[i].tool = t
        BY <2>1, <2>2 DEF CallsKept, Kept
      <3> QED BY <1>1, <3>1 DEF StartedOnce
    <2> QED BY <2>1, <2>2
  <1>3. Collects(w.content, ContentTo(taken))'
    <2>1. sent[n].kind \notin Contents
      BY <1>1 DEF Contents
    <2>2. ContentTo(n) = ContentTo(taken)
      BY <1>1, <2>1, NextPlaces DEF StreamTypes
    <2>3. Collects(w.content, ContentTo(n))
      BY <2>2 DEF Carries
    <2> QED BY <1>1, <2>3 DEF Collects, ContentTo
  <1>4. \A u : Interrupted(u) /\ streaming' = streaming => Interrupted(u)'
    BY <1>1 DEF Interrupted, Starts
  <1>5. (\A u : ~Flushed(u, order, cursor)) /\ \A u : ~Flushed(u, order', cursor')
    BY <1>1 DEF Flushed
  <1>6. \A u \in Tools : u # streaming => client.args[u] = <<>>
    BY <1>5 DEF Carries
  <1>7. args'[t] = <<>> /\ \A u \in Tools : u # t => args'[u] = args[u]
    BY <1>1 DEF StreamTypes, WriterTypes
  <1> HIDE DEF n
  <1>8. CASE protocol = "anthropic" /\ streaming = NoTool
    <2> DEFINE b == [kind |-> "tool", tool |-> t]
    <2>1. streaming' = t
      BY <1>8 DEF TakeStart
    <2>2. w.blocks = Append(client.blocks, b) /\ b \in Blocks /\ b.tool = t
      BY <1>8 DEF Blocks
    <2> HIDE DEF b, t
    <2>3. w.blocks[Len(client.blocks) + 1] = b /\ Len(client.blocks) + 1 \in 1..Len(w.blocks)
      BY <2>2 DEF Client
    <2>4. \A u \in Tools : u # NoTool
      BY StreamAssumption DEF StreamAssumption
    <2>5. \A u \in Tools : w.args[u] = <<>>
      BY <1>6, <1>8, <2>4
    <2>6. \A u \in Tools : u # streaming' =>
             w.args[u] = IF Flushed(u, order', cursor') THEN args'[u] ELSE <<>>
      BY <1>5, <2>5
    <2>7. \A u \in Tools : u = streaming' => w.args[u] = args'[u]
      BY <1>7, <2>1, <2>5
    <2>8. \A u \in Tools : u = streaming' \/ Flushed(u, order', cursor') =>
             \E i \in 1..Len(w.blocks) : w.blocks[i].tool = u
      BY <1>5, <2>1, <2>2, <2>3
    <2> QED BY <1>3, <2>6, <2>7, <2>8 DEF Carries
  <1>9. CASE ~(protocol = "anthropic" /\ streaming = NoTool)
    <2>1. streaming' = streaming /\ w = client
      BY <1>9 DEF TakeStart
    <2> HIDE DEF t
    <2>2. \A u \in Tools : u # streaming =>
             w.args[u] = IF Flushed(u, order', cursor') THEN args'[u] ELSE <<>>
      BY <1>5, <1>6
    <2>3. \A u \in Tools : u = streaming /\ ~Interrupted(u)' => w.args[u] = args'[u]
      BY <1>2, <1>4, <1>7, <2>1 DEF Carries
    <2>4. \A u \in Tools : u = streaming \/ Flushed(u, order', cursor') =>
             \E i \in 1..Len(w.blocks) : w.blocks[i].tool = u
      BY <1>5, <2>1 DEF Carries
    <2> QED BY <1>3, <2>1, <2>2, <2>3, <2>4 DEF Carries
  <1> QED BY <1>8, <1>9

LEMMA CarriesArgs ==
  ASSUME StreamTypes, CallsKept, CursorPlace, ClosedEarly, client \in Client, Carries(client),
         TakeArgs, NEW w \in Client, w.content = client.content, w.blocks = client.blocks,
         Event.tool \in Tools,
         IF Streams(Event.tool)
         THEN w.args = [client.args EXCEPT ![Event.tool] = Append(client.args[Event.tool], Event)]
         ELSE w = client
  PROVE  Carries(w)'
  <1> DEFINE n == taken + 1
             e == Event
             t == e.tool
  <1>1. /\ taken \in Nat /\ n \in 1..Len(sent) /\ taken < Len(sent) /\ taken' = n /\ sent' = sent
        /\ e = sent[n] /\ e.kind = "args" /\ cursor = 1 /\ phase = "body"
        /\ UNCHANGED <<order, streaming, cursor>>
        /\ args' = IF protocol = "anthropic" \/ IsCall(t)
                   THEN [args EXCEPT ![t] = Append(args[t], e)] ELSE args
    BY DEF TakeArgs, Take, Event, upstream, StreamTypes, EngineTypes, CursorPlace
  <1>2. Collects(w.content, ContentTo(taken))'
    <2>1. sent[n].kind \notin Contents
      BY <1>1 DEF Contents
    <2>2. ContentTo(n) = ContentTo(taken)
      BY <1>1, <2>1, NextPlaces DEF StreamTypes
    <2>3. Collects(w.content, ContentTo(n))
      BY <2>2 DEF Carries
    <2> QED BY <1>1, <2>3 DEF Collects, ContentTo
  <1>3. \A u : Interrupted(u)' <=> Interrupted(u)
    BY <1>1 DEF Interrupted, Starts
  <1>4. \A u : ~Flushed(u, order, cursor)
    BY <1>1 DEF Flushed
  <1>5. \A u \in Tools : u # streaming => client.args[u] = <<>>
    BY <1>4 DEF Carries
  <1>6. \A u \in Tools : u # t => w.args[u] = client.args[u] /\ args'[u] = args[u]
    BY <1>1 DEF Client, StreamTypes, WriterTypes
  <1>7. t # streaming => w = client
    BY DEF Streams
  <1>8. \A u \in Tools : u # streaming => w.args[u] = <<>>
    BY <1>5, <1>6, <1>7
  <1>9. ASSUME t = streaming, ~Interrupted(t)
        PROVE  w.args[t] = args'[t]
    <2>1. t # NoTool
      BY StreamAssumption DEF StreamAssumption
    <2>2. Streams(t)
      BY <1>1, <1>9, <2>1 DEF ClosedEarly, Streams
    <2>3. protocol = "anthropic"
      BY <1>9, <2>1 DEF CallsKept
    <2>4. args'[t] = Append(args[t], e)
      BY <1>1, <2>3 DEF StreamTypes, WriterTypes
    <2>5. w.args[t] = Append(client.args[t], e)
      BY <2>2 DEF Client
    <2>6. client.args[t] = args[t]
      BY <1>9 DEF Carries
    <2> QED BY <2>4, <2>5, <2>6
  <1> HIDE DEF e, n
  <1>10. \A u \in Tools : u = streaming /\ ~Interrupted(u) => w.args[u] = args'[u]
    BY <1>6, <1>9 DEF Carries
  <1> QED BY <1>1, <1>2, <1>3, <1>4, <1>8, <1>10 DEF Carries

LEMMA CarriesFlush ==
  ASSUME StreamTypes, CallsKept, client \in Client, Carries(client), Flush,
         NEW w \in Client, w.content = client.content,
         IF LeftToFlush(order[cursor])
         THEN /\ w.blocks = Append(client.blocks, [kind |-> "tool", tool |-> order[cursor]])
              /\ w.args = [client.args EXCEPT ![order[cursor]] =
                                              client.args[order[cursor]] \o args[order[cursor]]]
         ELSE w = client
  PROVE  Carries(w)'
  <1> DEFINE t == order[cursor]
  <1>1. /\ cursor \in Nat \ {0} /\ cursor <= Len(order) /\ cursor' = cursor + 1 /\ t \in Tools
        /\ UNCHANGED <<sent, taken, order, args, streaming>> /\ args[t] \in Seq(Events)
    BY DEF Flush, calls, upstream, StreamTypes, WriterTypes
  <1>2. \A u : Flushed(u, order, cursor') <=> (Flushed(u, order, cursor) \/ u = t)
    BY <1>1 DEF Flushed
  <1>3. \A u : Interrupted(u)' <=> Interrupted(u)
    BY <1>1 DEF Interrupted, Starts
  <1>4. Collects(w.content, ContentTo(taken))'
    BY <1>1 DEF Carries, Collects, ContentTo
  <1>5. CASE LeftToFlush(t)
    <2> DEFINE b == [kind |-> "tool", tool |-> t]
    <2>1. t # streaming
      BY <1>5 DEF LeftToFlush
    <2>2. ~Flushed(t, order, cursor)
      BY <1>1 DEF Flushed, CallsKept
    <2>3. client.args[t] = <<>>
      BY <1>1, <2>1, <2>2 DEF Carries
    <2>4. /\ w.args[t] = client.args[t] \o args[t]
          /\ \A u \in Tools : u # t => w.args[u] = client.args[u]
      BY <1>1, <1>5 DEF Client
    <2>5. w.args[t] = args[t]
      BY <1>1, <2>3, <2>4
    <2>6. w.blocks = Append(client.blocks, b) /\ b \in Blocks /\ b.tool = t
      BY <1>1, <1>5 DEF Blocks
    <2> HIDE DEF b, t
    <2>7. client.blocks \in Seq(Blocks)
      BY DEF Client
    <2>8. /\ Len(w.blocks) = Len(client.blocks) + 1 /\ w.blocks[Len(client.blocks) + 1] = b
          /\ Len(client.blocks) \in Nat
          /\ \A i \in 1..Len(client.blocks) :
                i \in 1..Len(w.blocks) /\ w.blocks[i] = client.blocks[i]
      BY <2>6, <2>7
    <2>9. \A u \in Tools : u # streaming =>
             w.args[u] = IF Flushed(u, order, cursor') THEN args[u] ELSE <<>>
      BY <1>2, <2>4, <2>5 DEF Carries
    <2>10. \A u \in Tools : u = streaming /\ ~Interrupted(u) => w.args[u] = args[u]
      BY <2>1, <2>4 DEF Carries
    <2>11. \A u \in Tools : u = streaming \/ Flushed(u, order, cursor) =>
              \E i \in 1..Len(w.blocks) : w.blocks[i].tool = u
      BY <2>8 DEF Carries
    <2>12. \E i \in 1..Len(w.blocks) : w.blocks[i].tool = t
      BY <2>6, <2>8
    <2>13. \A u \in Tools : u = streaming \/ Flushed(u, order, cursor') =>
              \E i \in 1..Len(w.blocks) : w.blocks[i].tool = u
      BY <1>2, <2>11, <2>12
    <2> QED BY <1>1, <1>3, <1>4, <2>9, <2>10, <2>13 DEF Carries
  <1>6. CASE ~LeftToFlush(t)
    <2>1. w = client /\ t = streaming
      BY <1>6 DEF LeftToFlush
    <2> HIDE DEF t
    <2>2. \A u \in Tools : u # streaming =>
             w.args[u] = IF Flushed(u, order, cursor') THEN args[u] ELSE <<>>
      BY <1>2, <2>1 DEF Carries
    <2>3. \A u \in Tools : u = streaming \/ Flushed(u, order, cursor') =>
              \E i \in 1..Len(w.blocks) : w.blocks[i].tool = u
      BY <1>2, <2>1 DEF Carries
    <2> QED BY <1>1, <1>3, <1>4, <2>1, <2>2, <2>3 DEF Carries
  <1> QED BY <1>5, <1>6

(* A harness that has been told how the stream ended takes nothing more.   *)
LEMMA NothingFits ==
  ASSUME NEW v \in Client, v.outcome \notin {"none", "begun"}, Shuttered(v), NEW how, NEW f
  PROVE  ~Fitting(how, v, f)
  BY DEF Fitting, Shuttered

LEMMA LastWord ==
  ASSUME NEW v \in Client, Shuttered(v), NEW how, NEW f, Fitting(how, v, f)
  PROVE  Shuttered(Then(v, f))
  <1> DEFINE w == Then(v, f)
  <1>1. v.outcome \in {"none", "begun"}
    BY NothingFits
  <1>2. CASE f.type = "end"
    <2>1. v.isOpen = FALSE /\ f.how \in {"stopped", "cut", "error"}
      BY <1>2 DEF Fitting
    <2>2. w.isOpen = v.isOpen
      BY <1>2, <2>1, ThenEnd
    <2> QED BY <2>1, <2>2 DEF Shuttered
  <1>3. CASE f.type # "end"
    <2>1. f.type = "begin" \/ w.outcome = v.outcome
      BY <1>3 DEF Then, Growing, Client
    <2>2. f.type = "begin" => w.outcome = "begun"
      BY ThenBegin
    <2> QED BY <1>1, <2>1, <2>2 DEF Shuttered
  <1> QED BY <1>2, <1>3

(* What a harness has been told stays true.                                *)
LEMMA TruthStays ==
  ASSUME NEW w, Truth(w), UNCHANGED <<sent, pump, finish, streaming>>
  PROVE  Truth(w)'
  <1>1. \A s, P : Collects(s, P)' <=> Collects(s, P)
    BY DEF Collects
  <1>2. \A t : Starts(t)' = Starts(t)
    BY DEF Starts
  <1>3. ContentTo(Len(sent))' = ContentTo(Len(sent)) /\ Started' = Started
    BY DEF ContentTo, Started
  <1>4. \A t : ArgsTo(t, Len(sent))' = ArgsTo(t, Len(sent))
    BY <1>2 DEF ArgsTo
  <1>5. \A t : Interrupted(t)' <=> Interrupted(t)
    BY <1>2 DEF Interrupted
  <1>6. Collects(w.content, ContentTo(Len(sent)))'
    BY <1>1, <1>3 DEF Truth, Collects
  <1>7. \A t \in Tools : ~Interrupted(t)' => Collects(w.args[t], ArgsTo(t, Len(sent)))'
    BY <1>4, <1>5 DEF Truth, Collects
  <1> QED BY <1>3, <1>6, <1>7 DEF Truth

LEMMA ToldStays ==
  ASSUME StreamTypes, NEW w, Told(w), phase \in {"over", "gone"}, [StreamNext]_streamVars
  PROVE  Told(w)'
  <1> SUFFICES ASSUME Truth(w) PROVE Truth(w)'
    BY DEF Told
  <1>1. pump = "ended"
    BY DEF Truth
  <1>2. CASE Engine
    BY <1>1, <1>2, EngineSends, TruthStays DEF StreamTypes, writer, calls
  <1>3. CASE KeepAlive \/ Yield \/ CancelPump \/ GoAway \/ UNCHANGED streamVars
    BY <1>1, <1>3, Quiet, TruthStays DEF writer, calls
  <1> QED
    BY <1>2, <1>3
    DEF StreamNext, Writer, TakeContent, TakeStart, TakeArgs, TakeFinish, Take, EndBody, Fail,
        Drained, Flush, ConcludeStream

LEMMA Concludes ==
  ASSUME StreamTypes, CallOrder, Pieces, client \in Client, Carries(client), ConcludeStream,
         NEW w, w.outcome = Verdict, w.blocks = client.blocks, w.content = client.content,
         w.args = client.args
  PROVE  Truth(w)'
  <1>1. /\ phase = "flush" /\ cursor > Len(order)
        /\ UNCHANGED <<sent, pump, finish, streaming>>
    BY DEF ConcludeStream, upstream, writer, calls
  <1>2. taken = Len(sent) /\ pump = "ended"
    BY <1>1 DEF Pieces, AllTaken
  <1>3. /\ order \in Seq(Tools) /\ Len(order) \in Nat /\ cursor \in Nat
        /\ sent \in Seq(Events) /\ DOMAIN sent = 1..Len(sent)
    BY DEF StreamTypes, EngineTypes, WriterTypes
  <1>4. \A u : Flushed(u, order, cursor) <=> Kept(u, order)
    <2>1. 1..(cursor - 1) = 1..Len(order)
      BY <1>1, <1>3 DEF CallOrder, CursorPlace
    <2> QED BY <2>1 DEF Flushed, Kept
  <1>5. \A u : Kept(u, order) <=> u \in Started
    <2>1. \A u : u \in Started <=> \E i \in 1..taken : sent[i].kind = "start" /\ sent[i].tool = u
      BY <1>2, <1>3 DEF Started
    <2>2. \A u : Kept(u, order) <=> \E i \in 1..taken : sent[i].kind = "start" /\ sent[i].tool = u
      BY WhoIsKept DEF CallOrder
    <2> QED BY <2>1, <2>2
  <1>6. finish = "length" /\ Started = {} => w.outcome = "cut"
    <2>1. ASSUME Started = {} PROVE order = <<>>
      <3>1. ~Kept(order[1], order)
        BY <1>5, <2>1
      <3>2. Len(order) = 0
        BY <1>3, <3>1 DEF Kept
      <3> QED BY <1>3, <3>2
    <2> QED BY <2>1 DEF Verdict
  <1>7. Collects(w.content, ContentTo(Len(sent)))
    BY <1>2 DEF Carries
  <1>8. ASSUME NEW t \in Tools, ~Interrupted(t)
        PROVE  Collects(w.args[t], ArgsTo(t, Len(sent)))
    <2>1. CASE t = streaming
      <3>1. Kept(t, order)
        BY <2>1, StreamAssumption DEF CallOrder, CallsKept, StreamAssumption
      <3>2. w.args[t] = args[t]
        BY <1>8, <2>1 DEF Carries
      <3> QED BY <1>2, <3>1, <3>2 DEF Pieces, PiecesKept
    <2>2. CASE t # streaming /\ Kept(t, order)
      <3>1. w.args[t] = args[t]
        BY <1>4, <2>2 DEF Carries
      <3> QED BY <1>2, <2>2, <3>1 DEF Pieces, PiecesKept
    <2>3. CASE t # streaming /\ ~Kept(t, order)
      <3>1. w.args[t] = <<>>
        BY <1>4, <2>3 DEF Carries
      <3>2. Starts(t) = {}
        BY <1>5, <2>3 DEF Started, Starts
      <3>3. ArgsTo(t, Len(sent)) = {}
        BY <3>2 DEF ArgsTo
      <3> QED BY <3>1, <3>3, CollectsNone
    <2> QED BY <2>1, <2>2, <2>3
  <1>9. \A t \in Started : \E i \in 1..Len(w.blocks) : w.blocks[i].tool = t
    <2> SUFFICES ASSUME NEW t \in Started
                 PROVE  \E i \in 1..Len(w.blocks) : w.blocks[i].tool = t
      OBVIOUS
    <2>1. Flushed(t, order, cursor) /\ t \in Tools
      BY <1>3, <1>4, <1>5 DEF Kept
    <2> QED BY <2>1 DEF Carries
  <1>10. Truth(w)
    BY <1>2, <1>6, <1>7, <1>8, <1>9 DEF Truth
  <1> QED BY <1>1, <1>10, TruthStays

LEMMA VerdictsInit == StreamInit => Verdicts
  <1> SUFFICES ASSUME StreamInit PROVE Verdicts
    OBVIOUS
  <1>1. /\ client = [outcome |-> "none", blocks |-> <<>>, isOpen |-> FALSE, current |-> <<>>,
                     content |-> <<>>, args |-> [t \in Tools |-> <<>>]]
        /\ pending = <<Begun>> /\ phase = "body" /\ taken = 0 /\ cursor = 1
        /\ args = [t \in Tools |-> <<>>] /\ streaming = NoTool
        /\ protocol \in {"anthropic", "responses"}
    BY DEF StreamInit
  <1>2. client \in Client
    BY StreamTypesInit, InStepInit DEF InStep
  <1> DEFINE w == Then(client, Begun)
  <1>3. Begun.type = "begin" /\ client.outcome = "none"
    BY <1>1 DEF Begun
  <1>4. Fitting(protocol, client, Begun)
    BY <1>3 DEF Fitting
  <1>5. All3(client, pending) = w
    BY <1>1, <1>4, OneFrame
  <1>6. w.blocks = client.blocks /\ w.content = client.content /\ w.args = client.args
    BY <1>2, <1>3, ThenBegin
  <1> HIDE DEF w
  <1>7. w.blocks = <<>> /\ w.content = <<>> /\ \A t \in Tools : w.args[t] = <<>>
    BY <1>1, <1>6
  <1>8. ContentTo(taken) = {} /\ \A t : ~Flushed(t, order, cursor)
    BY <1>1 DEF ContentTo, Flushed
  <1>9. \A t \in Tools : t # streaming /\ args[t] = <<>>
    BY <1>1, StreamAssumption DEF StreamAssumption
  <1>10. Carries(w)
    BY <1>7, <1>8, <1>9, CollectsNone DEF Carries
  <1> QED BY <1>1, <1>3, <1>5, <1>10 DEF Verdicts, Shuttered, Told

(* No harness has been told a verdict before the writer has given one.     *)
LEMMA NotYet ==
  ASSUME InStep, Shuttered(client), phase \in {"body", "flush"}
  PROVE  client.outcome \notin {"stopped", "cut"}
  <1> SUFFICES ASSUME client.outcome \in {"stopped", "cut"} PROVE FALSE
    OBVIOUS
  <1>1. client \in Client /\ Fit3(protocol, client, pending)
    BY DEF InStep
  <1>2. ~Fitting(protocol, client, Head(pending))
    BY <1>1, NothingFits
  <1>3. pending = <<>>
    BY <1>1, <1>2 DEF Fit3
  <1> QED BY <1>3, NothingPending DEF Agree

LEMMA CarriesThen ==
  ASSUME NEW w, Carries(w)', All3(client', pending') = w
  PROVE  Carries(All3(client, pending))'
  BY DEF Carries, Collects

LEMMA ToldThen ==
  ASSUME NEW w, Told(w)', All3(client', pending') = w
  PROVE  Told(All3(client, pending))'
  BY DEF Told, Truth, Collects

LEMMA ToldClient ==
  ASSUME NEW w, Told(w)', client' = w
  PROVE  Told(client)'
  BY DEF Told, Truth, Collects

LEMMA ClientStep ==
  ASSUME StreamTypes, InStep, Verdicts, [StreamNext]_streamVars
  PROVE  Shuttered(client)' /\ Told(client)'
  <1>1. Shuttered(client) /\ Told(client) /\ client \in Client
    BY DEF Verdicts, InStep
  <1>2. phase \in {"body", "flush", "over", "gone"}
    BY DEF StreamTypes, WriterTypes
  <1>3. CASE client' = client
    <2>1. Shuttered(client)'
      BY <1>1, <1>3 DEF Shuttered
    <2>2. CASE phase \in {"body", "flush"}
      <3>1. client'.outcome \notin {"stopped", "cut"}
        BY <1>1, <1>3, <2>2, NotYet
      <3> QED BY <2>1, <3>1 DEF Told
    <2>3. CASE phase \in {"over", "gone"}
      <3> PICK w : w = client
        OBVIOUS
      <3>1. Told(w)
        BY <1>1
      <3>2. Told(w)'
        BY <2>3, <3>1, ToldStays
      <3>3. Told(client)'
        BY <1>3, <3>2, ToldClient
      <3> QED BY <2>1, <3>3
    <2> QED BY <1>2, <2>2, <2>3
  <1>4. CASE Yield
    <2>1. /\ client' = Then(client, Head(pending)) /\ Fitting(protocol, client, Head(pending))
          /\ client' \in Client /\ Fit3(protocol, client', pending')
          /\ All3(client', pending') = All3(client, pending) /\ phase # "gone"
      BY <1>4, Yields
    <2>2. Shuttered(client')
      BY <1>1, <2>1, LastWord
    <2>3. ASSUME client'.outcome \in {"stopped", "cut"}
          PROVE  Told(client)'
      <3>1. ~Fitting(protocol, client', Head(pending'))
        BY <2>1, <2>2, <2>3, NothingFits
      <3>2. pending' = <<>>
        BY <2>1, <3>1 DEF Fit3
      <3>3. client' = All3(client, pending)
        BY <2>1, <3>2 DEF All3
      <3>4. phase = "over"
        BY <1>2, <2>1, <2>3, <3>3 DEF InStep, Agree
      <3> PICK w : w = All3(client, pending)
        OBVIOUS
      <3>5. Told(w)
        BY <3>4 DEF Verdicts
      <3>6. Told(w)'
        BY <3>4, <3>5, ToldStays
      <3> QED BY <3>3, <3>6, ToldClient
    <2>4. Shuttered(client)'
      BY <2>2 DEF Shuttered
    <2> QED BY <2>3, <2>4 DEF Told
  <1>5. client' = client \/ Yield
    BY EngineSends, Quiet
    DEF StreamNext, Writer, StreamTypes, TakeContent, TakeStart, TakeArgs, TakeFinish, Take,
        EndBody, Fail, Flush, ConcludeStream, KeepAlive, CancelPump, GoAway, streamVars
  <1> QED BY <1>3, <1>4, <1>5

(* Where the frames still to come make the harness what it would be        *)
(* before, and nothing is taken or sent anew, it carries what it did.      *)
LEMMA CarriesOn ==
  ASSUME EngineTypes, Carries(All3(client, pending)), Extends \/ sent' = sent,
         UNCHANGED <<order, args, streaming, cursor>>, ContentTo(taken)' = ContentTo(taken),
         All3(client', pending') = All3(client, pending)
  PROVE  Carries(All3(client, pending))'
  <1> PICK w : w = All3(client, pending)
    OBVIOUS
  <1>1. Carries(w)
    OBVIOUS
  <1>2. Carries(w)'
    BY <1>1, CarriesStays
  <1> QED BY <1>2, CarriesThen

LEMMA CarriesStep ==
  ASSUME StreamTypes, CallOrder, InStep, Pieces, Verdicts, [StreamNext]_streamVars,
         phase' \in {"body", "flush"}
  PROVE  Carries(All3(client, pending))'
  <1>1. /\ EngineTypes /\ CallsKept /\ StartedOnce /\ CursorPlace /\ Numbered /\ ClosedEarly
        /\ taken \in 0..Len(sent)
    BY DEF StreamTypes, EngineTypes, CallOrder, Pieces
  <1>2. phase \in {"body", "flush"} => Carries(All3(client, pending))
    BY DEF Verdicts
  <1>3. ASSUME Extends \/ sent' = sent, taken' = taken
        PROVE  ContentTo(taken)' = ContentTo(taken)
    <2> PICK n : n = taken
      OBVIOUS
    <2>1. ContentTo(n)' = ContentTo(n)
      BY <1>1, <1>3, PlacesStay
    <2> QED BY <1>3, <2>1
  <1>4. CASE Engine
    <2>1. UNCHANGED <<taken, phase, writer, pending, client>> /\ Extends
      BY <1>1, <1>4, EngineSends
    <2> QED BY <1>1, <1>2, <1>3, <2>1, CarriesOn DEF writer, calls
  <1>5. CASE TakeContent
    <2>1. pending = <<>> /\ phase = "body" /\ client' = client
      BY <1>5 DEF TakeContent, Take
    <2>2. client \in Client /\ Agree(client) /\ Carries(client)
      BY <1>2, <2>1, NothingPending DEF All3
    <2> PICK w : w = All3(client, pending')
      OBVIOUS
    <2>3. /\ w \in Client /\ w.content = Append(client.content, Event) /\ w.args = client.args
          /\ w.blocks = client.blocks \/ \E b : w.blocks = Append(client.blocks, b)
      <3>1. /\ w \in Client /\ w.content = Append(client.content, Event) /\ w.args = client.args
            /\ IF open.kind = Event.kind
               THEN /\ w.blocks = client.blocks
                    /\ w.current = Append(client.current, Event)
               ELSE /\ w.blocks = Append(client.blocks, [kind |-> Event.kind, tool |-> NoTool])
                    /\ w.current = <<Event>>
        BY <1>5, <2>2, ContentFrames
      <3> QED BY <3>1
    <2>4. Carries(w)'
      BY <1>1, <1>5, <2>2, <2>3, CarriesContent
    <2> QED BY <2>1, <2>4, CarriesThen
  <1>6. CASE TakeStart
    <2>1. pending = <<>> /\ phase = "body" /\ client' = client
      BY <1>6 DEF TakeStart, Take
    <2>2. client \in Client /\ Agree(client) /\ Carries(client)
      BY <1>2, <2>1, NothingPending DEF All3
    <2> PICK w : w = All3(client, pending')
      OBVIOUS
    <2>3. /\ w \in Client /\ w.content = client.content /\ w.args = client.args
          /\ Event.tool \in Tools
          /\ IF protocol = "anthropic" /\ streaming = NoTool
             THEN w.blocks = Append(client.blocks, [kind |-> "tool", tool |-> Event.tool])
             ELSE w = client
      BY <1>1, <1>6, <2>2, StartFrames
    <2>4. Carries(w)'
      BY <1>1, <1>6, <2>2, <2>3, CarriesStart
    <2> QED BY <2>1, <2>4, CarriesThen
  <1>7. CASE TakeArgs
    <2>1. pending = <<>> /\ phase = "body" /\ client' = client
      BY <1>7 DEF TakeArgs, Take
    <2>2. client \in Client /\ Agree(client) /\ Carries(client)
      BY <1>2, <2>1, NothingPending DEF All3
    <2> PICK w : w = All3(client, pending')
      OBVIOUS
    <2>3. /\ w \in Client /\ w.content = client.content /\ w.blocks = client.blocks
          /\ Event.tool \in Tools
          /\ IF Streams(Event.tool)
             THEN w.args = [client.args EXCEPT ![Event.tool] =
                                                 Append(client.args[Event.tool], Event)]
             ELSE w = client
      BY <1>7, <2>2, ArgsFrames
    <2>4. Carries(w)'
      BY <1>1, <1>7, <2>2, <2>3, CarriesArgs
    <2> QED BY <2>1, <2>4, CarriesThen
  <1>8. CASE TakeFinish
    <2>1. /\ pending = <<>> /\ phase = "body"
          /\ UNCHANGED <<client, pending, order, args, streaming, cursor>>
          /\ sent' = sent /\ taken' = taken + 1 /\ taken < Len(sent)
          /\ sent[taken + 1].kind \notin Contents
      BY <1>8 DEF TakeFinish, Take, upstream, calls, Contents
    <2>2. ContentTo(taken + 1) = ContentTo(taken)
      BY <1>1, <2>1, NextPlaces
    <2>3. ContentTo(taken)' = ContentTo(taken)
      BY <2>1, <2>2 DEF ContentTo
    <2> QED BY <1>1, <1>2, <2>1, <2>3, CarriesOn
  <1>9. CASE KeepAlive
    <2>1. /\ pending = <<>> /\ phase = "body" /\ UNCHANGED <<sent, taken, writer, client, protocol>>
          /\ pending' = <<Ping>> /\ Ping.type = "ping"
      BY <1>9 DEF KeepAlive, Ping, upstream
    <2>2. client \in Client /\ Agree(client)
      BY <2>1, NothingPending
    <2>3. Fitting(protocol, client, Ping)
      BY <2>1, <2>2 DEF Fitting, Agree
    <2>4. All3(client', pending') = client /\ All3(client, pending) = client
      <3>1. All3(client, <<Ping>>) = Then(client, Ping) /\ Then(client, Ping) = client
        BY <2>1, <2>3, OneFrame, ThenPing
      <3> QED BY <2>1, <3>1 DEF All3
    <2> QED BY <1>1, <1>2, <1>3, <2>1, <2>4, CarriesOn DEF writer, calls
  <1>10. CASE EndBody
    <2>1. /\ pending = <<>> /\ phase = "body"
          /\ UNCHANGED <<sent, taken, order, args, streaming, cursor, client>>
          /\ pending' = Closing
      BY <1>10 DEF EndBody, Drained, upstream, calls
    <2>2. client \in Client /\ Agree(client) /\ Carries(client)
      BY <1>2, <2>1, NothingPending DEF All3
    <2> PICK w : w = All3(client, pending')
      OBVIOUS
    <2>3. w.content = client.content /\ w.args = client.args /\ w.blocks = client.blocks
      BY <2>1, <2>2, Shuts
    <2>4. Carries(w)
      BY <2>2, <2>3, CarriesSame
    <2>5. Carries(w)'
      BY <1>1, <1>3, <2>1, <2>4, CarriesStays
    <2> QED BY <2>1, <2>5, CarriesThen
  <1>11. CASE Flush
    <2>1. pending = <<>> /\ phase = "flush" /\ client' = client
      BY <1>11 DEF Flush
    <2>2. client \in Client /\ Agree(client) /\ Carries(client)
      BY <1>2, <2>1, NothingPending DEF All3
    <2> PICK w : w = All3(client, pending')
      OBVIOUS
    <2>3. /\ w \in Client /\ w.content = client.content
          /\ IF LeftToFlush(order[cursor])
             THEN /\ w.blocks = Append(client.blocks, [kind |-> "tool", tool |-> order[cursor]])
                  /\ w.args = [client.args EXCEPT ![order[cursor]] =
                                                  client.args[order[cursor]] \o args[order[cursor]]]
             ELSE w = client
      BY <1>1, <1>11, <2>2, FlushFrames
    <2>4. Carries(w)'
      BY <1>1, <1>11, <2>2, <2>3, CarriesFlush
    <2> QED BY <2>1, <2>4, CarriesThen
  <1>12. CASE Yield
    <2>1. /\ All3(client', pending') = All3(client, pending)
          /\ UNCHANGED <<sent, taken, phase, writer>>
      BY <1>12, Yields DEF Yield, upstream
    <2> QED BY <1>1, <1>2, <1>3, <2>1, CarriesOn DEF writer, calls
  <1>13. CASE CancelPump \/ UNCHANGED streamVars
    <2>1. UNCHANGED <<sent, taken, phase, writer, pending, client>>
      BY <1>13 DEF CancelPump, streamVars, upstream
    <2> QED BY <1>1, <1>2, <1>3, <2>1, CarriesOn DEF writer, calls
  <1>14. CASE Fail \/ ConcludeStream \/ GoAway
    BY <1>14 DEF Fail, ConcludeStream, GoAway
  <1> QED BY <1>4, <1>5, <1>6, <1>7, <1>8, <1>9, <1>10, <1>11, <1>12, <1>13, <1>14
          DEF StreamNext, Writer

LEMMA ToldStep ==
  ASSUME StreamTypes, CallOrder, InStep, Pieces, Verdicts, [StreamNext]_streamVars, phase' = "over"
  PROVE  Told(All3(client, pending))'
  <1>1. CASE phase = "over"
    <2> PICK w : w = All3(client, pending)
      OBVIOUS
    <2>1. Told(w)
      BY <1>1 DEF Verdicts
    <2>2. Told(w)'
      BY <1>1, <2>1, ToldStays
    <2>3. All3(client', pending') = w
      <3>1. CASE Engine
        BY <3>1, EngineSends DEF StreamTypes
      <3>2. CASE Yield
        BY <3>2, Yields
      <3>3. CASE CancelPump \/ UNCHANGED streamVars
        BY <3>3 DEF CancelPump, streamVars
      <3> QED
        BY <1>1, <3>1, <3>2, <3>3
        DEF StreamNext, Writer, TakeContent, TakeStart, TakeArgs, TakeFinish, Take, KeepAlive,
            EndBody, Fail, Drained, Flush, ConcludeStream, GoAway
    <2> QED BY <2>2, <2>3, ToldThen
  <1>2. CASE Fail
    <2>1. pending = <<>> /\ phase = "body" /\ client' = client
      BY <1>2 DEF Fail, Drained
    <2>2. client \in Client /\ Agree(client)
      BY <2>1, NothingPending
    <2>3. All3(client, pending').outcome = "error"
      BY <1>2, <2>2, FailFrames
    <2> QED BY <2>1, <2>3 DEF Told
  <1>3. CASE ConcludeStream
    <2>1. pending = <<>> /\ phase = "flush" /\ client' = client
      BY <1>3 DEF ConcludeStream
    <2>2. client \in Client /\ Agree(client) /\ Carries(client)
      BY <2>1, NothingPending DEF Verdicts, All3
    <2> PICK w : w = All3(client, pending')
      OBVIOUS
    <2>3. /\ w.outcome = Verdict /\ w.blocks = client.blocks /\ w.content = client.content
          /\ w.args = client.args
      BY <1>3, <2>2, ConcludeFrames
    <2>4. Truth(w)'
      BY <1>3, <2>2, <2>3, Concludes
    <2>5. Told(w)'
      BY <2>4 DEF Told
    <2> QED BY <2>1, <2>5, ToldThen
  <1>4. phase' = phase \/ Fail \/ ConcludeStream \/ phase' \in {"flush", "gone"}
    BY EngineSends, Quiet
    DEF StreamNext, Writer, StreamTypes, TakeContent, TakeStart, TakeArgs, TakeFinish, Take,
        EndBody, Flush
  <1> QED BY <1>1, <1>2, <1>3, <1>4

LEMMA VerdictsStep ==
  StreamTypes /\ CallOrder /\ InStep /\ Pieces /\ Verdicts /\ [StreamNext]_streamVars => Verdicts'
  BY ClientStep, CarriesStep, ToldStep DEF Verdicts

(* A harness that is told how its answer ended has got all that the engine *)
(* sent, in order, and no failure looks like an answer.                    *)
THEOREM HarnessIsToldTheTruth == StreamSpec => []VerdictIsTrue
  <1> DEFINE Inv == StreamTypes /\ CallOrder /\ InStep /\ Pieces /\ Verdicts
  <1>1. StreamInit => Inv
    BY StreamTypesInit, CallOrderInit, InStepInit, PiecesInit, VerdictsInit
  <1>2. Inv /\ [StreamNext]_streamVars => Inv'
    BY StreamTypesStep, CallOrderStep, InStepStep, PiecesStep, VerdictsStep
  <1>3. Inv => VerdictIsTrue
    <2> SUFFICES ASSUME StreamTypes, InStep, Verdicts PROVE VerdictIsTrue
      OBVIOUS
    <2>1. DOMAIN client.blocks = 1..Len(client.blocks)
      BY DEF InStep, Client
    <2> QED BY <2>1 DEF Verdicts, Told, Truth, VerdictIsTrue, Delivered, FailureShows
  <1> HIDE DEF Inv
  <1> QED BY <1>1, <1>2, <1>3, PTL DEF StreamSpec
=============================================================================
