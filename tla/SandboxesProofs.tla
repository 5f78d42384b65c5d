--------------------------- MODULE SandboxesProofs ---------------------------
(***************************************************************************)
(* For any of the troubles of Sandboxes, in any number: a create that      *)
(* raises leaves nothing, what another process gets hold of is whole, and  *)
(* a stop destroys everything.                                             *)
(***************************************************************************)
EXTENDS Sandboxes, TLAPS

Creating == {"base", "derived", "inner", "edge", "egress", "boot", "connect", "ip", "agent",
             "home", "meta", "text"}
Working  == {"ready", "chown", "spec", "chown_spec", "spawn", "waiting", "over", "error"}

(* A sandbox consists of the things of its kind.                           *)
Kinded ==
    /\ kind = "docker" => exists \subseteq Docker /\ pc \notin {"home", "meta", "text"}
    /\ kind = "local" => /\ exists \subseteq Local
                         /\ pc \in {"home", "meta", "text", "gone", "raised", "died"} \cup Working
    /\ kind \in {"docker", "local"} /\ up \subseteq Boxes \cap exists

(* How far creation has come says what exists, of which the rollback       *)
(* knows, and nobody has got hold of it before the agent is to start.      *)
Making ==
    /\ pc \in {"base", "derived", "inner", "home"} => exists = {}
    /\ pc = "edge" => exists = {"inner"}
    /\ pc = "egress" => exists = {"inner", "edge"}
    /\ pc \in {"boot", "connect", "ip", "agent"} => exists = {"inner", "edge", "egress"}
    /\ pc = "boot" => up = {} /\ made = {"inner", "edge"}
    /\ pc \in {"connect", "ip", "agent"} /\ "exit" \notin troubled => up = {"egress"}
    /\ pc \in {"connect", "ip", "agent"} => up \subseteq {"egress"}
    /\ pc = "start" => made = {"inner", "edge", "egress"}
    /\ pc = "meta" => exists = {"home"}
    /\ pc = "text" => exists = {"home", "meta"}
    /\ pc \in Creating =>
         /\ kind = "docker" /\ pc # "boot" => made = exists
         /\ handle = {} /\ stopped = {} /\ look # "ip" /\ ~whole
         /\ \A c \in Clients : todo[c] = {}

(* The rollback has still to remove whatever exists, and an agent that     *)
(* starts is the last of create.                                           *)
Undoing ==
    /\ todo["maker"] # {} => pc \in {"undo", "gone"}
    /\ pc = "undo" /\ troubled \cap {"late", "rm", "hang"} = {} => exists \subseteq todo["maker"]
    /\ kind = "docker" /\ pc \in {"undo", "raised"} /\ "late" \notin troubled =>
         "agent" \notin exists

(* A stop has still to remove all that exists.                             *)
Stopping ==
    /\ "maker" \in stopped => pc = "gone"
    /\ kind = "docker" /\ "rm" \notin troubled =>
         \A c \in Clients :
            todo[c] # {} /\ ~(c = "maker" /\ pc = "undo") => exists \subseteq todo[c]
    /\ kind = "local" /\ "rm" \notin troubled /\ runner = "none" /\ todo["maker"] # {} =>
         exists \subseteq todo["maker"]

(* While nobody stops it, a sandbox that is finished, and one that another *)
(* process has found, is whole.                                            *)
Undisturbed == pc # "gone" /\ todo["other"] = {} /\ "other" \notin stopped

Whole ==
    /\ kind = "docker" /\ Undisturbed /\ troubled \cap {"late", "exit", "hang"} = {} =>
         /\ pc \in Working \cup {"start"} => "agent" \in exists
         /\ "agent" \in exists \/ look = "ip" \/ "other" \in handle =>
              /\ exists = {"inner", "edge", "egress", "agent"}
              /\ up = {"egress", "agent"} \/ (up = {"egress"} /\ pc \in {"start", "died"})
         /\ pc = "start" => "agent" \notin up
    /\ kind = "local" /\ Undisturbed =>
         /\ "other" \in handle => whole
         /\ whole => exists = {"home", "meta"}

IInv == TypeOK /\ Kinded /\ Making /\ Undoing /\ Stopping /\ Whole /\ RolledBack /\ StopDestroys

USE DEF box, run, Boxes, Docker, Local, Things, Clients, Creating, Working

-----------------------------------------------------------------------------
LEMMA Commands ==
    DOMAIN After = {"inner", "edge", "egress", "boot", "connect", "ip", "agent", "start"}
    BY DEF After

LEMMA Starts ==
    /\ Started("boot") = {"egress"} /\ Started("start") = {"agent"}
    /\ \A s : s \notin {"boot", "start"} => Started(s) = {}
    /\ \A s : Started(s) \subseteq Boxes
    BY DEF Started

(* The steps of create, one by one.                                        *)
LEMMA CreateCases ==
    ASSUME CreateStep
    PROVE  /\ UNCHANGED <<kind, images, whole, look, todo, stopped, run, troubled>>
           /\ \/ /\ pc = "inner" /\ pc' = "edge" /\ UNCHANGED <<up, handle>>
                 /\ exists' = exists \cup {"inner"} /\ made' = made \cup {"inner"}
              \/ /\ pc = "edge" /\ pc' = "egress" /\ UNCHANGED <<up, handle>>
                 /\ exists' = exists \cup {"edge"} /\ made' = made \cup {"edge"}
              \/ /\ pc = "egress" /\ pc' = "boot" /\ UNCHANGED <<up, made, handle>>
                 /\ exists' = exists \cup {"egress"}
              \/ /\ pc = "boot" /\ pc' = "connect" /\ UNCHANGED <<exists, handle>>
                 /\ up' = up \cup {"egress"} /\ made' = made \cup {"egress"}
              \/ pc = "connect" /\ pc' = "ip" /\ UNCHANGED <<exists, up, made, handle>>
              \/ pc = "ip" /\ pc' = "agent" /\ UNCHANGED <<exists, up, made, handle>>
              \/ /\ pc = "agent" /\ pc' = "start" /\ UNCHANGED <<up, made, handle>>
                 /\ exists' = exists \cup {"agent"}
              \/ /\ pc = "start" /\ pc' = "ready" /\ handle' = handle \cup {"maker"}
                 /\ up' = up \cup {"agent"} /\ made' = made \cup {"agent"}
                 /\ "agent" \in exists /\ UNCHANGED exists
  <1>1. /\ UNCHANGED <<kind, images, whole, look, todo, stopped, run, troubled>>
        /\ pc = "start" => "agent" \in exists
    BY Starts DEF CreateStep, Effect, Refused
  <1>2. CASE pc = "inner"
    BY <1>1, <1>2, Starts DEF CreateStep, Effect, After
  <1>3. CASE pc = "edge"
    BY <1>1, <1>3, Starts DEF CreateStep, Effect, After
  <1>4. CASE pc = "egress"
    BY <1>1, <1>4, Starts DEF CreateStep, Effect, After
  <1>5. CASE pc = "boot"
    BY <1>1, <1>5, Starts DEF CreateStep, Effect, After
  <1>6. CASE pc = "connect"
    BY <1>1, <1>6, Starts DEF CreateStep, Effect, After
  <1>7. CASE pc = "ip"
    BY <1>1, <1>7, Starts DEF CreateStep, Effect, After
  <1>8. CASE pc = "agent"
    BY <1>1, <1>8, Starts DEF CreateStep, Effect, After
  <1>9. CASE pc = "start"
    BY <1>1, <1>9, Starts DEF CreateStep, Effect, After
  <1> QED BY <1>2, <1>3, <1>4, <1>5, <1>6, <1>7, <1>8, <1>9, Commands DEF CreateStep

(* A step of create that fails: it is not late unless the trouble is.      *)
LEMMA FailCases ==
    ASSUME CreateFails
    PROVE  /\ pc \in DOMAIN After /\ pc' = "undo"
           /\ todo' = [todo EXCEPT !["maker"] = made]
           /\ UNCHANGED <<kind, images, made, handle, look, stopped, run>>
           /\ exists \subseteq exists' /\ exists' \subseteq exists \cup {pc}
           /\ up \subseteq up' /\ up' \subseteq up \cup (Started(pc) \cap exists)
           /\ troubled \subseteq troubled'
           /\ \/ "late" \in troubled' /\ (pc = "start" => "agent" \in exists)
              \/ /\ UNCHANGED box /\ pc \notin {"boot", "start"}
              \/ /\ UNCHANGED box
                 /\ Refused(pc)
  <1>1. \/ /\ (Trouble("fail") /\ Started(pc) = {}) \/ (Refused(pc) /\ Untroubled)
           /\ UNCHANGED box
        \/ /\ Trouble("late") /\ pc # "ip" /\ ~Refused(pc)
           /\ Effect(pc) \/ (Started(pc) # {} /\ UNCHANGED box)
    BY DEF CreateFails
  <1>2. CASE Trouble("fail") /\ Started(pc) = {} /\ UNCHANGED box
    BY <1>2, Starts DEF Trouble, CreateFails
  <1>3. CASE Refused(pc) /\ Untroubled /\ UNCHANGED box
    BY <1>3 DEF Untroubled, CreateFails
  <1>4. CASE Trouble("late") /\ ~Refused(pc) /\ (Effect(pc) \/ UNCHANGED box)
    <2>1. Started(pc) \subseteq exists /\ (pc = "start" => "agent" \in exists)
      BY <1>4, Starts DEF Refused
    <2>2. /\ exists \subseteq exists' /\ exists' \subseteq exists \cup {pc}
          /\ up \subseteq up' /\ up' \subseteq up \cup Started(pc)
      BY <1>4 DEF Effect
    <2> QED BY <1>4, <2>1, <2>2 DEF Trouble, CreateFails
  <1> QED BY <1>1, <1>2, <1>3, <1>4

(* One removal: of a thing, or of none.                                    *)
LEMMA RemoveCases ==
    ASSUME IInv, NEW c \in Clients, Remove(c)
    PROVE  \E t \in todo[c] :
             /\ todo' = [todo EXCEPT ![c] = todo[c] \ {t}]
             /\ \/ exists' = exists \ {t} /\ up' = up \ {t} /\ UNCHANGED troubled
                \/ UNCHANGED <<exists, up, runner>> /\ troubled' = troubled \cup {"rm"}
                \/ /\ UNCHANGED <<exists, up, runner, troubled>>
                   /\ \/ t = "home" /\ runner \in {"spawned", "running"}
                      \/ kind = "local" /\ t \notin exists
                      \/ kind = "docker" /\ todo[c] \cap Boxes = {} /\ ~(exists \subseteq todo[c])
             /\ \/ todo[c] # {t} /\ UNCHANGED <<pc, stopped>>
                \/ /\ todo[c] = {t} /\ c = "maker" /\ pc = "undo"
                   /\ pc' = "raised" /\ UNCHANGED stopped
                \/ /\ todo[c] = {t} /\ ~(c = "maker" /\ pc = "undo")
                   /\ stopped' = stopped \cup {c} /\ UNCHANGED pc
             /\ UNCHANGED <<kind, images, made, handle, look>>
             /\ runner' = "none" => runner = "none"
             /\ whole' => whole
  <1>1. PICK t \in Nexts(c) :
           /\ (~Busy(t) /\ Gone(t) /\ Untroubled) \/ Left(t)
           /\ todo' = [todo EXCEPT ![c] = @ \ {t}]
           /\ IF todo[c] = {t} THEN Ends(c) ELSE UNCHANGED <<pc, stopped>>
           /\ UNCHANGED <<kind, images, made, handle, look>>
    BY DEF Remove
  <1>2. t \in todo[c] /\ (t \notin Boxes => todo[c] \cap Boxes = {})
    BY <1>1 DEF Nexts
  <1>3. \/ exists' = exists \ {t} /\ up' = up \ {t} /\ UNCHANGED troubled
        \/ UNCHANGED <<exists, up, runner>> /\ troubled' = troubled \cup {"rm"}
        \/ /\ UNCHANGED <<exists, up, runner, troubled>>
           /\ Busy(t) \/ (t = "home" /\ runner \in {"spawned", "running"})
    <2>1. CASE ~Busy(t) /\ Gone(t) /\ Untroubled
      BY <2>1 DEF Gone, Untroubled
    <2>2. CASE Left(t)
      <3>1. UNCHANGED <<exists, up, runner>>
        BY <2>2 DEF Left
      <3>2. \/ Busy(t) /\ UNCHANGED troubled
            \/ t = "home" /\ runner \in {"spawned", "running"} /\ UNCHANGED troubled
            \/ troubled' = troubled \cup {"rm"}
        BY <2>2 DEF Left, Trouble, Untroubled
      <3> QED BY <3>1, <3>2
    <2> QED BY <1>1, <2>1, <2>2
  <1>4. Busy(t) => \/ kind = "local" /\ t \notin exists
                   \/ kind = "docker" /\ todo[c] \cap Boxes = {} /\ ~(exists \subseteq todo[c])
    BY <1>2 DEF Busy, IInv, Kinded
  <1>5. runner' = "none" => runner = "none"
    <2>1. CASE Gone(t)
      BY <2>1 DEF Gone
    <2>2. CASE Left(t)
      BY <2>2 DEF Left
    <2> QED BY <1>1, <2>1, <2>2
  <1>6. whole' => whole
    BY <1>1, Zenon DEF Gone, Left
  <1> QED BY <1>1, <1>2, <1>3, <1>4, <1>5, <1>6 DEF Ends

-----------------------------------------------------------------------------
(* The invariant is kept by every step, part by part: by the maker ...     *)

LEMMA BuildImageStep ==
    ASSUME IInv, BuildImage
    PROVE  IInv'
  <1>1. TypeOK'
    <2>1. images' \subseteq {"base", "derived"} /\ pc' \in {"derived", "inner", "raised"}
      BY DEF IInv, TypeOK, BuildImage
    <2>2. troubled' \subseteq Faults
      BY DEF IInv, TypeOK, BuildImage, Untroubled, Trouble
    <2>3. UNCHANGED <<kind, box, made, handle, look, todo, stopped, run>>
      BY DEF BuildImage
    <2> QED BY <2>1, <2>2, <2>3, Commands DEF IInv, TypeOK
  <1>2. Kinded'
    BY DEF IInv, Kinded, BuildImage
  <1>3. Making'
    BY DEF IInv, Making, BuildImage
  <1>4. Undoing'
    BY DEF IInv, Making, Undoing, BuildImage
  <1>5. Stopping'
    BY DEF IInv, Stopping, BuildImage, Untroubled, Trouble
  <1>6. Whole'
    BY DEF IInv, Whole, Undisturbed, BuildImage, Untroubled, Trouble
  <1>7. RolledBack'
    BY DEF IInv, Making, RolledBack, BuildImage
  <1>8. StopDestroys'
    BY DEF IInv, StopDestroys, BuildImage, Untroubled, Trouble
  <1> QED BY <1>1, <1>2, <1>3, <1>4, <1>5, <1>6, <1>7, <1>8 DEF IInv

LEMMA CreateStepStep ==
    ASSUME IInv, CreateStep
    PROVE  IInv'
  <1>1. TypeOK'
    <2>1. joined' \in BOOLEAN /\ UNCHANGED <<whole, spec>>
      BY Zenon DEF IInv, TypeOK, CreateStep, Effect
    <2>2. exists' \subseteq Things /\ made' \subseteq Things /\ handle' \subseteq Clients
      BY CreateCases DEF IInv, TypeOK
    <2>3. up' \subseteq exists'
      BY CreateCases DEF IInv, Kinded, Making
    <2>4. pc' \in {"edge", "egress", "boot", "connect", "ip", "agent", "start", "ready"}
      BY CreateCases
    <2>5. UNCHANGED <<kind, images, whole, look, todo, stopped, run, troubled>>
      BY CreateCases
    <2> QED BY <2>1, <2>2, <2>3, <2>4, <2>5, Commands DEF IInv, TypeOK
  <1>2. Kinded'
    <2>1. up' \subseteq Boxes \cap exists'
      BY CreateCases DEF IInv, Kinded, Making
    <2> QED BY <2>1, CreateCases DEF IInv, Kinded
  <1>3. Making'
    <2>1. /\ kind = "docker" /\ pc \notin {"base", "derived", "home", "meta", "text"}
          /\ pc' \notin {"base", "derived", "inner", "home", "meta", "text"}
      BY CreateCases DEF IInv, Kinded
    <2>2. /\ pc' = "edge" => exists' = {"inner"}
          /\ pc' = "egress" => exists' = {"inner", "edge"}
          /\ pc' \in {"boot", "connect", "ip", "agent"} => exists' = {"inner", "edge", "egress"}
      BY CreateCases DEF IInv, Making
    <2>3. /\ pc' = "boot" => up' = {} /\ made' = {"inner", "edge"}
          /\ pc' = "start" => made' = {"inner", "edge", "egress"}
          /\ pc' \in {"connect", "ip", "agent"} => up' \subseteq {"egress"}
      BY CreateCases, <2>1 DEF IInv, Kinded, Making
    <2>4. pc' \in {"connect", "ip", "agent"} /\ "exit" \notin troubled' => up' = {"egress"}
      BY CreateCases DEF IInv, Making
    <2>5. pc' \in Creating /\ pc' # "boot" => made' = exists'
      BY CreateCases, <2>1 DEF IInv, Making
    <2>6. UNCHANGED <<whole, look, todo, stopped, kind>>
      BY CreateCases
    <2>7. pc' \in Creating => handle' = {} /\ pc \in Creating
      BY CreateCases DEF IInv, Making
    <2> QED BY <2>1, <2>2, <2>3, <2>4, <2>5, <2>6, <2>7 DEF IInv, Making
  <1>4. Undoing'
    BY CreateCases DEF IInv, Making, Undoing
  <1>5. Stopping'
    BY CreateCases DEF IInv, Making, Stopping
  <1>6. Whole'
    <2>1. kind = "docker" /\ UNCHANGED <<kind, look, todo, stopped, troubled, whole>>
      BY CreateCases DEF IInv, Kinded
    <2>2. CASE pc' \in Creating
      BY <2>1, <2>2, CreateCases DEF IInv, Making, Whole
    <2>3. CASE pc = "agent"
      BY <2>1, <2>3, CreateCases DEF IInv, Making, Whole
    <2>4. CASE pc = "start"
      BY <2>1, <2>4, CreateCases DEF IInv, Whole, Undisturbed
    <2> QED BY <2>2, <2>3, <2>4, CreateCases
  <1>7. RolledBack'
    BY CreateCases DEF IInv, RolledBack
  <1>8. StopDestroys'
    BY CreateCases DEF IInv, Making, StopDestroys
  <1> QED BY <1>1, <1>2, <1>3, <1>4, <1>5, <1>6, <1>7, <1>8 DEF IInv

LEMMA CreateFailsStep ==
    ASSUME IInv, CreateFails
    PROVE  IInv'
  <1>0. /\ kind = "docker" /\ pc \in DOMAIN After
        /\ pc \in {"inner", "edge", "egress", "boot", "connect", "ip", "agent", "start"}
    BY FailCases, Commands DEF IInv, Kinded
  <1>1. TypeOK'
    <2>1. joined' \in BOOLEAN /\ UNCHANGED <<whole, spec>>
      <3>1. UNCHANGED box \/ Effect(pc)
        BY Zenon DEF CreateFails
      <3>2. UNCHANGED spec
        BY DEF CreateFails
      <3>3. CASE UNCHANGED <<joined, whole>>
        BY <3>2, <3>3, Zenon DEF IInv, TypeOK
      <3>4. CASE Effect(pc)
        BY <3>2, <3>4, Zenon DEF Effect
      <3> QED BY <3>1, <3>3, <3>4
    <2>2. exists' \subseteq Things /\ up' \subseteq exists'
      <3>1. exists' \subseteq Things
        BY Commands DEF IInv, TypeOK, CreateFails, Effect
      <3>2. up' \subseteq exists'
        BY FailCases DEF IInv, TypeOK
      <3> QED BY <3>1, <3>2
    <2>3. troubled' \subseteq Faults /\ todo' \in [Clients -> SUBSET Things]
      BY DEF IInv, TypeOK, CreateFails, Trouble, Untroubled
    <2>4. pc' = "undo" /\ UNCHANGED <<kind, images, made, handle, look, stopped, run>>
      BY DEF CreateFails
    <2> QED BY <2>1, <2>2, <2>3, <2>4 DEF IInv, TypeOK
  <1>2. Kinded'
    <2>1. exists' \subseteq Docker
      BY <1>0 DEF IInv, Kinded, CreateFails, Effect
    <2>2. up' \subseteq Boxes \cap exists'
      BY FailCases, Starts DEF IInv, Kinded
    <2> QED BY <1>0, <2>1, <2>2, FailCases
            DEF Kinded
  <1>3. Making'
    BY FailCases DEF Making
  <1>4. Undoing'
    <2>1. todo'["maker"] = made
      BY FailCases DEF IInv, TypeOK
    <2>2. CASE "late" \in troubled'
      BY FailCases, <2>1, <2>2 DEF Undoing
    <2>3. CASE UNCHANGED box /\ pc \notin {"boot", "start"}
      BY FailCases, <1>0, <2>1, <2>3 DEF IInv, Making, Undoing
    <2>4. CASE UNCHANGED box /\ Refused(pc)
      <3>1. \/ pc \notin {"boot", "start"}
            \/ pc = "start" /\ "agent" \notin exists
        BY <2>4, Starts DEF Refused, IInv, Making
      <3>2. CASE pc = "start" /\ "agent" \notin exists
        BY FailCases, <1>0, <2>1, <2>4, <3>2 DEF IInv, Making, Undoing, Kinded
      <3> QED BY <2>3, <2>4, <3>1, <3>2
    <2> QED BY <2>2, <2>3, <2>4, FailCases
  <1>5. Stopping'
    <2>1. /\ todo'["other"] = todo["other"]
          /\ "maker" \notin stopped' /\ stopped' = stopped /\ kind' = kind /\ pc' = "undo"
      BY FailCases, <1>0 DEF IInv, TypeOK, Stopping
    <2>2. todo["other"] # {} => exists' = exists
      <3>1. CASE pc = "start"
        <4>1. UNCHANGED exists
          BY <3>1 DEF CreateFails, Effect
        <4> QED BY <4>1
      <3>2. CASE pc # "start"
        BY <1>0, <3>2 DEF IInv, Making
      <3> QED BY <3>1, <3>2
    <2> QED BY <1>0, <2>1, <2>2, FailCases DEF IInv, Stopping
  <1>6. Whole'
    <2>1. CASE "late" \in troubled'
      BY <1>0, <2>1, FailCases DEF Whole
    <2>2. CASE UNCHANGED box
      <3>1. CASE pc # "start"
        BY <1>0, <2>2, <3>1, FailCases DEF IInv, Making, Whole
      <3>2. CASE pc = "start" /\ "agent" \notin exists
        <4>1. todo'["other"] = todo["other"] /\ UNCHANGED stopped
          BY FailCases DEF IInv, TypeOK
        <4> QED BY <1>0, <2>2, <3>2, <4>1, FailCases DEF IInv, Whole, Undisturbed
      <3>3. pc = "start" /\ "late" \notin troubled' => "agent" \notin exists
        BY FailCases, Starts DEF Refused
      <3> QED BY <2>1, <3>1, <3>2, <3>3
    <2> QED BY <2>1, <2>2, FailCases
  <1>7. RolledBack'
    BY FailCases DEF RolledBack
  <1>8. StopDestroys'
    <2>1. CASE pc = "start"
      <3>1. UNCHANGED exists
        BY <2>1 DEF CreateFails, Effect
      <3> QED BY <3>1, <1>0, FailCases DEF IInv, StopDestroys
    <2>2. CASE pc # "start"
      BY <1>0, <2>2, FailCases DEF IInv, Making, StopDestroys
    <2> QED BY <2>1, <2>2
  <1> QED BY <1>1, <1>2, <1>3, <1>4, <1>5, <1>6, <1>7, <1>8 DEF IInv

LEMMA MakerDiesStep ==
    ASSUME IInv, MakerDies
    PROVE  IInv'
  <1>1. TypeOK'
    BY Commands DEF IInv, TypeOK, MakerDies, Trouble
  <1>2. Kinded'
    BY DEF IInv, Kinded, MakerDies
  <1>3. Making'
    BY DEF IInv, Making, MakerDies
  <1>4. Undoing'
    BY DEF IInv, TypeOK, Undoing, MakerDies
  <1>5. Stopping'
    BY DEF IInv, TypeOK, Stopping, MakerDies, Trouble
  <1>6. Whole'
    BY DEF IInv, Whole, Undisturbed, MakerDies, Trouble
  <1>7. RolledBack'
    BY DEF IInv, RolledBack, MakerDies
  <1>8. StopDestroys'
    BY DEF IInv, StopDestroys, MakerDies, Trouble
  <1> QED BY <1>1, <1>2, <1>3, <1>4, <1>5, <1>6, <1>7, <1>8 DEF IInv

LEMMA CreateLocalStep ==
    ASSUME IInv, CreateLocal
    PROVE  IInv'
  <1>1. TypeOK'
    <2>1. whole' \in BOOLEAN
      BY Zenon DEF IInv, TypeOK, CreateLocal
    <2>2. exists' \subseteq Things /\ up' \subseteq exists' /\ handle' \subseteq Clients
      BY DEF IInv, CreateLocal, Kinded, Making
    <2>3. pc' \in {"meta", "text", "ready"}
      BY DEF CreateLocal
    <2>4. UNCHANGED <<kind, images, joined, made, look, todo, stopped, run, troubled>>
      BY DEF CreateLocal
    <2> QED BY <2>1, <2>2, <2>3, <2>4 DEF IInv, TypeOK
  <1>2. Kinded'
    BY DEF IInv, Kinded, CreateLocal
  <1>3. Making'
    <2>1. \/ pc = "home" /\ exists' = {"home"} /\ pc' = "meta" /\ UNCHANGED <<whole, handle>>
          \/ pc = "meta" /\ exists' = exists \cup {"meta"} /\ pc' = "text"
             /\ UNCHANGED <<whole, handle>>
          \/ pc = "text" /\ pc' = "ready"
      BY DEF CreateLocal
    <2>2. UNCHANGED <<kind, made, look, todo, stopped>>
      BY DEF CreateLocal
    <2>3. kind = "local"
      BY <2>1 DEF IInv, Kinded
    <2> QED BY <2>1, <2>2, <2>3 DEF IInv, Making
  <1>4. Undoing'
    BY DEF IInv, Undoing, CreateLocal
  <1>5. Stopping'
    BY DEF IInv, Making, Stopping, CreateLocal
  <1>6. Whole'
    BY DEF IInv, Kinded, Making, Whole, CreateLocal
  <1>7. RolledBack'
    BY DEF IInv, RolledBack, CreateLocal
  <1>8. StopDestroys'
    BY DEF IInv, Making, StopDestroys, CreateLocal
  <1> QED BY <1>1, <1>2, <1>3, <1>4, <1>5, <1>6, <1>7, <1>8 DEF IInv

LEMMA CreateLocalFailsStep ==
    ASSUME IInv, CreateLocalFails
    PROVE  IInv'
  <1>1. TypeOK'
    BY Commands DEF IInv, TypeOK, CreateLocalFails, Trouble
  <1>2. Kinded'
    BY DEF IInv, Kinded, CreateLocalFails
  <1>3. Making'
    BY DEF IInv, Making, CreateLocalFails
  <1>4. Undoing'
    BY DEF IInv, Making, Undoing, CreateLocalFails
  <1>5. Stopping'
    BY DEF IInv, Stopping, CreateLocalFails, Trouble
  <1>6. Whole'
    BY DEF IInv, Whole, Undisturbed, CreateLocalFails, Trouble
  <1>7. RolledBack'
    BY DEF IInv, Kinded, RolledBack, CreateLocalFails
  <1>8. StopDestroys'
    BY DEF IInv, StopDestroys, CreateLocalFails, Trouble
  <1> QED BY <1>1, <1>2, <1>3, <1>4, <1>5, <1>6, <1>7, <1>8 DEF IInv

(* ... by the other process ...                                            *)

LEMMA LookStep ==
    ASSUME IInv, Look
    PROVE  IInv'
  <1>1. TypeOK'
    BY Commands DEF IInv, TypeOK, Look
  <1>2. Kinded'
    BY DEF IInv, Kinded, Look
  <1>3. Making'
    BY DEF IInv, Making, Look
  <1>4. Undoing'
    BY DEF IInv, Undoing, Look
  <1>5. Stopping'
    BY DEF IInv, Stopping, Look
  <1>6. Whole'
    BY DEF IInv, Whole, Undisturbed, Look
  <1>7. RolledBack'
    BY DEF IInv, RolledBack, Look
  <1>8. StopDestroys'
    BY DEF IInv, StopDestroys, Look
  <1> QED BY <1>1, <1>2, <1>3, <1>4, <1>5, <1>6, <1>7, <1>8 DEF IInv

LEMMA GetStep ==
    ASSUME IInv, Get
    PROVE  IInv'
  <1>1. TypeOK'
    BY Commands DEF IInv, TypeOK, Get
  <1>2. Kinded'
    BY DEF IInv, Kinded, Get
  <1>3. Making'
    BY DEF IInv, Making, Get, There
  <1>4. Undoing'
    BY DEF IInv, Undoing, Get, There
  <1>5. Stopping'
    BY DEF IInv, Stopping, Get
  <1>6. Whole'
    BY DEF IInv, Whole, Undisturbed, Get, There
  <1>7. RolledBack'
    BY DEF IInv, RolledBack, Get
  <1>8. StopDestroys'
    BY DEF IInv, StopDestroys, Get
  <1> QED BY <1>1, <1>2, <1>3, <1>4, <1>5, <1>6, <1>7, <1>8 DEF IInv

(* ... by a stop, a rollback ...                                           *)

LEMMA StopStep ==
    ASSUME IInv, NEW c \in Clients, Stop(c)
    PROVE  IInv'
  <1>1. TypeOK'
    BY Commands DEF IInv, TypeOK, Stop
  <1>2. Kinded'
    BY DEF IInv, Kinded, Stop
  <1>3. Making'
    BY DEF IInv, Making, Stop
  <1>4. Undoing'
    BY DEF IInv, Undoing, Stop
  <1>5. Stopping'
    BY DEF IInv, Kinded, Stopping, Stop
  <1>6. Whole'
    BY DEF IInv, Whole, Undisturbed, Stop
  <1>7. RolledBack'
    BY DEF IInv, RolledBack, Stop
  <1>8. StopDestroys'
    BY DEF IInv, StopDestroys, Stop
  <1> QED BY <1>1, <1>2, <1>3, <1>4, <1>5, <1>6, <1>7, <1>8 DEF IInv

LEMMA RemoveStep ==
    ASSUME IInv, NEW c \in Clients, Remove(c)
    PROVE  IInv'
  <1>1. PICK t \in todo[c] :
             /\ todo' = [todo EXCEPT ![c] = todo[c] \ {t}]
             /\ \/ exists' = exists \ {t} /\ up' = up \ {t} /\ UNCHANGED troubled
                \/ UNCHANGED <<exists, up, runner>> /\ troubled' = troubled \cup {"rm"}
                \/ /\ UNCHANGED <<exists, up, runner, troubled>>
                   /\ \/ t = "home" /\ runner \in {"spawned", "running"}
                      \/ kind = "local" /\ t \notin exists
                      \/ kind = "docker" /\ todo[c] \cap Boxes = {} /\ ~(exists \subseteq todo[c])
             /\ \/ todo[c] # {t} /\ UNCHANGED <<pc, stopped>>
                \/ /\ todo[c] = {t} /\ c = "maker" /\ pc = "undo"
                   /\ pc' = "raised" /\ UNCHANGED stopped
                \/ /\ todo[c] = {t} /\ ~(c = "maker" /\ pc = "undo")
                   /\ stopped' = stopped \cup {c} /\ UNCHANGED pc
             /\ UNCHANGED <<kind, images, made, handle, look>>
             /\ runner' = "none" => runner = "none"
             /\ whole' => whole
    BY RemoveCases
  <1>2. /\ \A x \in Clients : todo[x] \subseteq Things
        /\ todo'[c] = todo[c] \ {t} /\ \A x \in Clients : x # c => todo'[x] = todo[x]
        /\ exists' \subseteq exists /\ up' \subseteq up
    BY <1>1 DEF IInv, TypeOK
  <1>0. \/ exists' = exists \ {t}
        \/ "rm" \in troubled'
        \/ exists' = exists /\ t = "home" /\ runner \in {"spawned", "running"}
        \/ exists' = exists /\ kind = "local" /\ t \notin exists
        \/ kind = "docker" /\ ~(exists \subseteq todo[c])
    BY <1>1
  <1>3. TypeOK'
    <2>1. joined' \in BOOLEAN /\ whole' \in BOOLEAN /\ spec' \in BOOLEAN
      BY Zenon DEF IInv, TypeOK, Remove, Gone, Left
    <2>2. /\ dir' \in {"none", "root", "agent"}
          /\ runner' \in {"none", "spawned", "running", "reported", "crashed", "killed"}
      BY DEF IInv, TypeOK, Remove, Gone, Left
    <2>3. troubled' \subseteq Faults
      BY DEF IInv, TypeOK, Remove, Left, Trouble, Untroubled
    <2>4. exists' \subseteq Things /\ up' \subseteq exists'
      BY <1>1 DEF IInv, TypeOK
    <2>5. todo' \in [Clients -> SUBSET Things] /\ stopped' \subseteq Clients
      BY <1>1 DEF IInv, TypeOK
    <2>6. pc' = pc \/ pc' = "raised"
      BY <1>1
    <2> QED BY <1>1, <2>1, <2>2, <2>3, <2>4, <2>5, <2>6 DEF IInv, TypeOK
  <1>4. Kinded'
    BY <1>1, <1>2 DEF IInv, Kinded
  <1>5. Making'
    <2>1. pc \notin Creating
      BY <1>1 DEF IInv, Making
    <2> QED BY <1>1, <2>1 DEF IInv, Making
  <1>6. Undoing'
    <2>1. todo'["maker"] # {} => pc' \in {"undo", "gone"}
      BY <1>1, <1>2 DEF IInv, Undoing
    <2>2. ASSUME pc' = "undo", troubled' \cap {"late", "rm", "hang"} = {}
          PROVE  exists' \subseteq todo'["maker"]
      <3>1. pc = "undo" /\ troubled \cap {"late", "rm", "hang"} = {}
        BY <1>1, <2>2
      <3>2. kind = "docker" /\ exists \subseteq todo["maker"]
        BY <3>1, <1>1 DEF IInv, Kinded, Undoing
      <3>3. CASE c = "other"
        BY <1>2, <3>2, <3>3
      <3>4. CASE c = "maker"
        <4>1. exists' = exists \ {t}
          BY <1>0, <2>2, <3>2, <3>4 DEF IInv, Kinded
        <4> QED BY <3>2, <3>4, <4>1, <1>2
      <3> QED BY <3>3, <3>4
    <2>3. ASSUME kind = "docker", pc' \in {"undo", "raised"}, "late" \notin troubled'
          PROVE  "agent" \notin exists'
      <3>1. pc \in {"undo", "raised"} /\ "late" \notin troubled
        BY <1>1, <2>3
      <3> QED BY <1>2, <2>3, <3>1 DEF IInv, Undoing
    <2> QED BY <1>1, <2>1, <2>2, <2>3 DEF Undoing
  <1>7. Stopping'
    <2>1. "maker" \in stopped' => pc' = "gone"
      BY <1>1 DEF IInv, Undoing, Stopping
    <2>2. ASSUME kind = "docker", "rm" \notin troubled', NEW x \in Clients,
                 todo'[x] # {}, ~(x = "maker" /\ pc' = "undo")
          PROVE  exists' \subseteq todo'[x]
      <3>1. "rm" \notin troubled /\ todo[x] # {} /\ ~(x = "maker" /\ pc = "undo")
        BY <1>1, <1>2, <2>2
      <3>2. exists \subseteq todo[x]
        BY <2>2, <3>1 DEF IInv, Stopping
      <3>3. CASE x = c
        <4>1. exists' = exists \ {t}
          BY <1>1, <2>2, <3>2, <3>3 DEF IInv, Kinded
        <4> QED BY <1>2, <3>2, <3>3, <4>1
      <3>4. CASE x # c
        BY <1>2, <3>2, <3>4
      <3> QED BY <3>3, <3>4
    <2>3. ASSUME kind = "local", "rm" \notin troubled', runner' = "none", todo'["maker"] # {}
          PROVE  exists' \subseteq todo'["maker"]
      <3>1. "rm" \notin troubled /\ runner = "none" /\ todo["maker"] # {}
        BY <1>1, <1>2, <2>3
      <3>2. exists \subseteq todo["maker"]
        BY <2>3, <3>1 DEF IInv, Stopping
      <3>3. exists' = exists \ {t} \/ (t \notin exists /\ exists' = exists)
        BY <1>0, <2>3, <3>1
      <3> QED BY <1>2, <3>2, <3>3
    <2> QED BY <1>1, <2>1, <2>2, <2>3 DEF Stopping
  <1>8. Whole'
    BY <1>1, <1>2 DEF IInv, Kinded, Undoing, Whole, Undisturbed
  <1>9. RolledBack'
    BY <1>1, <1>2 DEF IInv, Kinded, Undoing, RolledBack
  <1>10. StopDestroys'
    <2>1. ASSUME NEW x \in stopped', "rm" \notin troubled',
                 kind = "local" => runner' = "none" /\ x = "maker"
          PROVE  exists' = {}
      <3>1. "rm" \notin troubled /\ (kind = "local" => runner = "none")
        BY <1>1, <2>1
      <3>2. CASE x \in stopped
        BY <1>2, <2>1, <3>1, <3>2 DEF IInv, StopDestroys
      <3>3. CASE x \notin stopped
        <4>1. x = c /\ todo[c] = {t} /\ ~(c = "maker" /\ pc = "undo")
          BY <1>1, <3>3
        <4>2. exists \subseteq {t}
          BY <2>1, <3>1, <4>1 DEF IInv, Kinded, Stopping
        <4>3. exists' = exists \ {t} \/ (t \notin exists /\ exists' = exists)
          BY <1>0, <2>1, <3>1, <4>1, <4>2 DEF IInv, Kinded
        <4> QED BY <4>2, <4>3
      <3> QED BY <3>2, <3>3
    <2> QED BY <1>1, <2>1 DEF StopDestroys
  <1> QED BY <1>3, <1>4, <1>5, <1>6, <1>7, <1>8, <1>9, <1>10 DEF IInv

LEMMA RemoveHangsStep ==
    ASSUME IInv, NEW c \in Clients, RemoveHangs(c)
    PROVE  IInv'
  <1>1. TypeOK'
    BY Commands DEF IInv, TypeOK, RemoveHangs, Trouble
  <1>2. Kinded'
    BY DEF IInv, Kinded, RemoveHangs
  <1>3. Making'
    BY DEF IInv, Making, RemoveHangs
  <1>4. Undoing'
    BY DEF IInv, TypeOK, Undoing, RemoveHangs, Trouble
  <1>5. Stopping'
    BY DEF IInv, TypeOK, Stopping, RemoveHangs, Trouble
  <1>6. Whole'
    BY DEF IInv, Whole, RemoveHangs, Trouble
  <1>7. RolledBack'
    BY DEF IInv, RolledBack, RemoveHangs, Trouble
  <1>8. StopDestroys'
    BY DEF IInv, StopDestroys, RemoveHangs, Trouble
  <1> QED BY <1>1, <1>2, <1>3, <1>4, <1>5, <1>6, <1>7, <1>8 DEF IInv

LEMMA UndoneStep ==
    ASSUME IInv, Undone
    PROVE  IInv'
  <1>1. TypeOK'
    BY Commands DEF IInv, TypeOK, Undone
  <1>2. Kinded'
    BY DEF IInv, Kinded, Undone
  <1>3. Making'
    BY DEF IInv, Making, Undone
  <1>4. Undoing'
    BY DEF IInv, Undoing, Undone
  <1>5. Stopping'
    BY DEF IInv, Stopping, Undone
  <1>6. Whole'
    BY DEF IInv, Whole, Undisturbed, Undone
  <1>7. RolledBack'
    BY DEF IInv, Undoing, RolledBack, Undone
  <1>8. StopDestroys'
    BY DEF IInv, StopDestroys, Undone
  <1> QED BY <1>1, <1>2, <1>3, <1>4, <1>5, <1>6, <1>7, <1>8 DEF IInv

(* ... and while a run is started and goes on.                             *)

LEMMA PutStep ==
    ASSUME IInv, Put
    PROVE  IInv'
  <1>1. TypeOK'
    <2>1. spec' \in BOOLEAN
      BY Zenon DEF IInv, TypeOK, Put
    <2>2. /\ exists' \subseteq Things /\ up' \subseteq exists'
          /\ dir' \in {"none", "root", "agent"} /\ pc' \in {"chown", "chown_spec", "error"}
      BY DEF IInv, TypeOK, Put
    <2>3. UNCHANGED <<kind, images, up, joined, whole, made, handle, look, todo, stopped,
                      runner, troubled>>
      BY DEF Put
    <2> QED BY <2>1, <2>2, <2>3 DEF IInv, TypeOK
  <1>2. Kinded'
    BY DEF IInv, Kinded, Put
  <1>3. Making'
    BY DEF IInv, Making, Put
  <1>4. Undoing'
    BY DEF IInv, Undoing, Put
  <1>5. Stopping'
    BY DEF IInv, Undoing, Stopping, Put
  <1>6. Whole'
    BY DEF IInv, Whole, Undisturbed, Put
  <1>7. RolledBack'
    BY DEF IInv, RolledBack, Put
  <1>8. StopDestroys'
    BY DEF IInv, Stopping, StopDestroys, Put
  <1> QED BY <1>1, <1>2, <1>3, <1>4, <1>5, <1>6, <1>7, <1>8 DEF IInv

LEMMA ChownStep ==
    ASSUME IInv, Chown
    PROVE  IInv'
  <1>1. TypeOK'
    BY Commands DEF IInv, TypeOK, Chown, HandOver, Trouble, Untroubled
  <1>2. Kinded'
    BY DEF IInv, Kinded, Chown
  <1>3. Making'
    BY DEF IInv, Making, Chown
  <1>4. Undoing'
    BY DEF IInv, Undoing, Chown
  <1>5. Stopping'
    BY DEF IInv, Stopping, Chown, Trouble, Untroubled
  <1>6. Whole'
    BY DEF IInv, Whole, Undisturbed, Chown, Trouble, Untroubled
  <1>7. RolledBack'
    BY DEF IInv, RolledBack, Chown
  <1>8. StopDestroys'
    BY DEF IInv, StopDestroys, Chown, Trouble, Untroubled
  <1> QED BY <1>1, <1>2, <1>3, <1>4, <1>5, <1>6, <1>7, <1>8 DEF IInv

LEMMA SpawnStep ==
    ASSUME IInv, Spawn
    PROVE  IInv'
  <1>1. TypeOK'
    BY Commands DEF IInv, TypeOK, Spawn
  <1>2. Kinded'
    BY DEF IInv, Kinded, Spawn
  <1>3. Making'
    BY DEF IInv, Making, Spawn
  <1>4. Undoing'
    BY DEF IInv, Undoing, Spawn
  <1>5. Stopping'
    BY DEF IInv, Stopping, Spawn
  <1>6. Whole'
    BY DEF IInv, Whole, Undisturbed, Spawn
  <1>7. RolledBack'
    BY DEF IInv, RolledBack, Spawn
  <1>8. StopDestroys'
    BY DEF IInv, StopDestroys, Spawn
  <1> QED BY <1>1, <1>2, <1>3, <1>4, <1>5, <1>6, <1>7, <1>8 DEF IInv

LEMMA RunnerStepStep ==
    ASSUME IInv, RunnerStep
    PROVE  IInv'
  <1>1. TypeOK'
    BY Commands DEF IInv, TypeOK, RunnerStep
  <1>2. Kinded'
    BY DEF IInv, Kinded, RunnerStep
  <1>3. Making'
    BY DEF IInv, Making, RunnerStep
  <1>4. Undoing'
    BY DEF IInv, Undoing, RunnerStep
  <1>5. Stopping'
    BY DEF IInv, Stopping, RunnerStep
  <1>6. Whole'
    BY DEF IInv, Whole, Undisturbed, RunnerStep
  <1>7. RolledBack'
    BY DEF IInv, RolledBack, RunnerStep
  <1>8. StopDestroys'
    BY DEF IInv, StopDestroys, RunnerStep
  <1> QED BY <1>1, <1>2, <1>3, <1>4, <1>5, <1>6, <1>7, <1>8 DEF IInv

LEMMA RunnerDiesStep ==
    ASSUME IInv, RunnerDies
    PROVE  IInv'
  <1>1. TypeOK'
    BY Commands DEF IInv, TypeOK, RunnerDies, Trouble
  <1>2. Kinded'
    BY DEF IInv, Kinded, RunnerDies
  <1>3. Making'
    BY DEF IInv, Making, RunnerDies, Trouble
  <1>4. Undoing'
    BY DEF IInv, Undoing, RunnerDies, Trouble
  <1>5. Stopping'
    BY DEF IInv, Stopping, RunnerDies, Trouble
  <1>6. Whole'
    BY DEF IInv, Whole, Undisturbed, RunnerDies, Trouble
  <1>7. RolledBack'
    BY DEF IInv, RolledBack, RunnerDies, Trouble
  <1>8. StopDestroys'
    BY DEF IInv, StopDestroys, RunnerDies, Trouble
  <1> QED BY <1>1, <1>2, <1>3, <1>4, <1>5, <1>6, <1>7, <1>8 DEF IInv

LEMMA WaitStep ==
    ASSUME IInv, Wait
    PROVE  IInv'
  <1>1. TypeOK'
    BY Commands DEF IInv, TypeOK, Wait
  <1>2. Kinded'
    BY DEF IInv, Kinded, Wait
  <1>3. Making'
    BY DEF IInv, Making, Wait
  <1>4. Undoing'
    BY DEF IInv, Undoing, Wait
  <1>5. Stopping'
    BY DEF IInv, Stopping, Wait
  <1>6. Whole'
    BY DEF IInv, Whole, Undisturbed, Wait
  <1>7. RolledBack'
    BY DEF IInv, RolledBack, Wait
  <1>8. StopDestroys'
    BY DEF IInv, StopDestroys, Wait
  <1> QED BY <1>1, <1>2, <1>3, <1>4, <1>5, <1>6, <1>7, <1>8 DEF IInv

LEMMA ExitStep ==
    ASSUME IInv, NEW b \in Boxes, Exit(b)
    PROVE  IInv'
  <1>1. TypeOK'
    BY Commands DEF IInv, TypeOK, Exit, Trouble
  <1>2. Kinded'
    BY DEF IInv, Kinded, Exit
  <1>3. Making'
    BY DEF IInv, Making, Exit, Trouble
  <1>4. Undoing'
    BY DEF IInv, Undoing, Exit, Trouble
  <1>5. Stopping'
    BY DEF IInv, Stopping, Exit, Trouble
  <1>6. Whole'
    BY DEF IInv, Whole, Undisturbed, Exit, Trouble
  <1>7. RolledBack'
    BY DEF IInv, RolledBack, Exit, Trouble
  <1>8. StopDestroys'
    BY DEF IInv, StopDestroys, Exit, Trouble
  <1> QED BY <1>1, <1>2, <1>3, <1>4, <1>5, <1>6, <1>7, <1>8 DEF IInv

-----------------------------------------------------------------------------
LEMMA InitIInv == Init => IInv
  <1> SUFFICES ASSUME Init PROVE IInv
    OBVIOUS
  <1>1. TypeOK
    BY SandboxesAssumption DEF SandboxesAssumption, Init, TypeOK
  <1>2. Kinded /\ Making
    BY SandboxesAssumption DEF SandboxesAssumption, Init, Kinded, Making
  <1>3. Undoing /\ Stopping /\ RolledBack /\ StopDestroys
    BY DEF Init, Undoing, Stopping, RolledBack, StopDestroys
  <1>4. Whole
    BY DEF Init, Whole
  <1> QED BY <1>1, <1>2, <1>3, <1>4 DEF IInv

LEMMA NextIInv == IInv /\ [Next]_vars => IInv'
  <1> SUFFICES ASSUME IInv, [Next]_vars PROVE IInv'
    OBVIOUS
  <1>1. CASE UNCHANGED vars
    BY <1>1 DEF vars, IInv, TypeOK, Kinded, Making, Undoing, Stopping, Whole, Undisturbed,
                RolledBack, StopDestroys
  <1>2. CASE MakerStep
    BY <1>2, BuildImageStep, CreateStepStep, CreateLocalStep, UndoneStep, PutStep, ChownStep,
       SpawnStep, WaitStep DEF MakerStep
  <1>3. CASE CreateFails \/ CreateLocalFails \/ MakerDies
    BY <1>3, CreateFailsStep, CreateLocalFailsStep, MakerDiesStep
  <1>4. CASE Look \/ Get \/ RunnerStep \/ RunnerDies
    BY <1>4, LookStep, GetStep, RunnerStepStep, RunnerDiesStep
  <1>5. ASSUME NEW c \in Clients, Stop(c) \/ Remove(c) \/ RemoveHangs(c)
        PROVE  IInv'
    BY <1>5, StopStep, RemoveStep, RemoveHangsStep
  <1>6. ASSUME NEW b \in Boxes, Exit(b)
        PROVE  IInv'
    BY <1>6, ExitStep
  <1> QED BY <1>1, <1>2, <1>3, <1>4, <1>5, <1>6 DEF Next

LEMMA InductiveIInv == Spec => []IInv
  BY InitIInv, NextIInv, PTL DEF Spec

(* Every variable keeps to its type; what runs exists.                     *)
THEOREM SandboxesTypeCorrect == Spec => []TypeOK
  <1>1. IInv => TypeOK
    BY DEF IInv
  <1> QED BY <1>1, InductiveIInv, PTL

(* DockerSandbox.create leaves nothing behind when it raises, unless the   *)
(* command that failed had its effect, or a removal failed or hung.        *)
THEOREM CreateLeavesNothing == Spec => []RolledBack
  <1>1. IInv => RolledBack
    BY DEF IInv
  <1> QED BY <1>1, InductiveIInv, PTL

(* What list and get give away is a whole sandbox, whatever the maker is   *)
(* at; only its agent may be just about to start, or never do since the    *)
(* maker died.  Until somebody stops it, a container of it exits, or a     *)
(* docker run of create fails half way.                                    *)
THEOREM HandlesAreWhole == Spec => []HandleIsWhole
  <1>1. IInv => HandleIsWhole
    BY DEF IInv, Kinded, Whole, Undisturbed, HandleIsWhole
  <1> QED BY <1>1, InductiveIInv, PTL

(* A stop that has returned has destroyed everything, whoever else stops   *)
(* the sandbox at the same time, unless a removal failed, or the local     *)
(* kind's home was being written to.                                       *)
THEOREM StopsDestroy == Spec => []StopDestroys
  <1>1. IInv => StopDestroys
    BY DEF IInv
  <1> QED BY <1>1, InductiveIInv, PTL
=============================================================================
