------------------------------ MODULE Sandboxes ------------------------------
(***************************************************************************)
(* One sandbox of the docker or the local kind (sandbox/docker.py,         *)
(* sandbox/local.py) and the two processes that have to do with it: the    *)
(* maker, which creates it, starts a run in it and waits for the run       *)
(* (sandbox/base.py), and another one, which finds it with list or get;    *)
(* either may stop it at any moment.                                       *)
(*                                                                         *)
(* A docker sandbox is two networks and two containers, made and removed   *)
(* by one docker command each (docker run creates a container and then     *)
(* starts it); a local one a home and meta.json.  A docker command may     *)
(* fail, fail after having had its effect (a container that was created    *)
(* and did not start, a command that timed out), or be the last one of a   *)
(* process that dies.                                                      *)
(***************************************************************************)
EXTENDS Naturals, FiniteSets

CONSTANTS Kinds, Faults, MaxTroubles

ASSUME SandboxesAssumption ==
    /\ Kinds \subseteq {"docker", "local"}
    /\ Faults \subseteq {"fail", "late", "die", "rm", "hang", "exit", "chown", "kill"}
    /\ MaxTroubles \in Nat

Boxes   == {"egress", "agent"}     \* the containers
Docker  == {"inner", "edge"} \cup Boxes
Local   == {"home", "meta"}
Things  == Docker \cup Local
Clients == {"maker", "other"}

VARIABLES
    kind,
    images,     \* the stages of the image that are built
    exists,     \* the things that exist
    up,         \* containers that run
    joined,     \* the broker is on the edge network
    whole,      \* meta.json is completely written
    made,       \* what create has noted for its rollback
    pc,         \* the maker: create, start, wait
    handle,     \* clients that hold a handle
    look,       \* how far the other process is in list and get
    todo,       \* for each client, what its stop or rollback has still to remove
    stopped,    \* clients whose stop has returned
    dir, spec,  \* the run's directory by its owner; its spec.json is there
    runner,     \* the runner, until it has written a terminal status
    troubled    \* the faults that have happened

box    == <<exists, up, joined, whole>>
run    == <<dir, spec, runner>>
vars   == <<kind, images, box, made, pc, handle, look, todo, stopped, run, troubled>>

Trouble(f) ==
    /\ f \in Faults \ troubled /\ Cardinality(troubled) < MaxTroubles
    /\ troubled' = troubled \cup {f}
Untroubled == UNCHANGED troubled

Init ==
    /\ kind \in Kinds
    /\ images \in {{}, {"base"}, {"base", "derived"}}
    /\ exists = {} /\ up = {} /\ joined = FALSE /\ whole = FALSE
    /\ made = {} /\ pc = (IF kind = "docker" THEN "base" ELSE "home")
    /\ handle = {} /\ look = "idle"
    /\ todo = [c \in Clients |-> {}] /\ stopped = {}
    /\ dir = "none" /\ spec = FALSE /\ runner = "none"
    /\ troubled = {}

-----------------------------------------------------------------------------
(* ensure_image: the base unless it is there, then always the derived      *)
(* stage.  Nothing has been made when a build fails.                       *)
BuildImage ==
    /\ \/ /\ pc = "base"
          /\ IF "base" \in images THEN UNCHANGED images
             ELSE images' = images \cup {"base"}
          /\ pc' = "derived" /\ Untroubled
       \/ /\ pc = "derived" /\ images' = images \cup {"derived"}
          /\ pc' = "inner" /\ Untroubled
       \/ /\ pc \in {"base", "derived"} /\ Trouble("fail")
          /\ pc' = "raised" /\ UNCHANGED images
    /\ UNCHANGED <<kind, box, made, handle, look, todo, stopped, run>>

(* The steps of create, in their order, and what each makes or starts:     *)
(* boot and start are the second halves of the two docker runs.            *)
After == [inner |-> "edge", edge |-> "egress", egress |-> "boot", boot |-> "connect",
          connect |-> "ip", ip |-> "agent", agent |-> "start", start |-> "ready"]

Started(step) == {b \in Boxes : step = (IF b = "egress" THEN "boot" ELSE "start")}

Effect(step) ==
    /\ exists' = exists \cup ({step} \cap Things)
    /\ up' = up \cup Started(step)
    /\ joined' = (joined \/ step = "connect")
    /\ UNCHANGED whole

(* A container that is gone is not started, and a broker that has exited   *)
(* has no address.                                                         *)
Refused(step) == (step = "ip" /\ "egress" \notin up) \/ ~(Started(step) \subseteq exists)

(* A command is noted for the rollback once it has returned.               *)
CreateStep ==
    /\ pc \in DOMAIN After /\ ~Refused(pc)
    /\ Effect(pc)
    /\ made' = made \cup ({pc} \cap (Docker \ Boxes)) \cup Started(pc)
    /\ pc' = After[pc]
    /\ handle' = (IF pc = "start" THEN handle \cup {"maker"} ELSE handle)
    /\ UNCHANGED <<kind, images, look, todo, stopped, run, troubled>>

(* The command raises: without an effect, or with some or all of it but    *)
(* the noting, as a container that was created and does not start.         *)
CreateFails ==
    /\ pc \in DOMAIN After
    /\ \/ /\ (Trouble("fail") /\ Started(pc) = {}) \/ (Refused(pc) /\ Untroubled)
          /\ UNCHANGED box
       \/ /\ Trouble("late") /\ pc # "ip" /\ ~Refused(pc)
          /\ Effect(pc) \/ (Started(pc) # {} /\ UNCHANGED box)
    /\ pc' = "undo"
    /\ todo' = [todo EXCEPT !["maker"] = made]
    /\ UNCHANGED <<kind, images, made, handle, look, stopped, run>>

(* Killed, or interrupted: `except Exception' does not catch that.         *)
MakerDies ==
    /\ pc \notin {"raised", "died"} /\ "maker" \notin stopped
    /\ Trouble("die")
    /\ pc' = (IF pc = "gone" THEN pc ELSE "died") /\ handle' = handle \ {"maker"}
    /\ todo' = [todo EXCEPT !["maker"] = {}]
    /\ UNCHANGED <<kind, images, box, made, look, stopped, run>>

(* LocalSandbox.create: the home, then meta.json, opened and then written. *)
(* It undoes nothing.                                                      *)
CreateLocal ==
    /\ \/ pc = "home" /\ exists' = {"home"} /\ pc' = "meta" /\ UNCHANGED <<whole, handle>>
       \/ pc = "meta" /\ exists' = exists \cup {"meta"} /\ pc' = "text" /\ UNCHANGED <<whole, handle>>
       \/ /\ pc = "text" /\ whole' = TRUE /\ pc' = "ready"
          /\ handle' = handle \cup {"maker"} /\ UNCHANGED exists
    /\ UNCHANGED <<kind, images, up, joined, made, look, todo, stopped, run, troubled>>

CreateLocalFails ==
    /\ pc \in {"home", "meta", "text"} /\ Trouble("fail")
    /\ pc' = "raised"
    /\ UNCHANGED <<kind, images, box, made, handle, look, todo, stopped, run>>

-----------------------------------------------------------------------------
(* list and get, by the other process.                                     *)

(* list names the sandboxes that have a running container, or a meta.json  *)
(* that can be read; an id may be known without it.                        *)
Listed == IF kind = "docker" THEN up # {} ELSE "meta" \in exists /\ whole
Known  == pc \notin {"base", "derived", "inner", "home"}

Look ==
    /\ look = "idle" /\ "other" \notin handle \cup stopped
    /\ Listed \/ Known
    /\ look' = "agent"
    /\ UNCHANGED <<kind, images, box, made, pc, handle, todo, stopped, run, troubled>>

(* (mutant: the broker is what get looks for)                              *)
GetByBroker ==
    \/ kind = "docker" /\ look = "agent" /\ "egress" \in exists
    \/ kind = "docker" /\ look = "ip" /\ "egress" \in up
    \/ kind = "local" /\ look = "agent" /\ "meta" \in exists /\ whole

(* What the next command of get asks for: the agent's container (running   *)
(* or not), the address of the broker (only a running one has one).        *)
There ==
    \/ kind = "docker" /\ look = "agent" /\ "agent" \in exists
    \/ kind = "docker" /\ look = "ip" /\ "egress" \in up
    \/ kind = "local" /\ look = "agent" /\ "meta" \in exists /\ whole

Get ==
    /\ look \in {"agent", "ip"}
    /\ look' = (IF There /\ kind = "docker" /\ look = "agent" THEN "ip" ELSE "idle")
    /\ handle' = (IF There /\ (kind = "local" \/ look = "ip")
                  THEN handle \cup {"other"} ELSE handle)
    /\ UNCHANGED <<kind, images, box, made, pc, todo, stopped, run, troubled>>

-----------------------------------------------------------------------------
(* stop, and the rollback: one removal after the other.                    *)

(* (mutant: in any order)                                                  *)
AnyOrder(c) == todo[c]

(* The containers before their networks; rmtree in the order of the        *)
(* directory.                                                              *)
Nexts(c) == IF todo[c] \cap Boxes # {} THEN todo[c] \cap Boxes ELSE todo[c]

Stop(c) ==
    /\ c \in handle /\ c \notin stopped /\ todo[c] = {}
    /\ c = "maker" => pc \in {"ready", "waiting", "over", "error", "gone"}
    /\ todo' = [todo EXCEPT ![c] = IF kind = "docker" THEN Docker ELSE Local]
    /\ IF c = "maker" THEN pc' = "gone" ELSE UNCHANGED pc
    /\ UNCHANGED <<kind, images, box, made, handle, look, stopped, run, troubled>>

(* A network with a running container on it is not removed.                *)
Busy(t) ==
    \/ t = "inner" /\ up # {}
    \/ t = "edge" /\ joined /\ "egress" \in up

Gone(t) ==
    /\ exists' = exists \ {t} /\ up' = up \ {t}
    /\ joined' = (joined /\ t # "egress")
    /\ whole' = (whole /\ t # "meta")
    /\ runner' = (IF t = "agent" /\ runner \in {"spawned", "running"} THEN "killed" ELSE runner)
    /\ dir' = (IF t \in {"agent", "home"} THEN "none" ELSE dir)
    /\ spec' = (spec /\ t \notin {"agent", "home"})

(* Failures are ignored; a runner of the local kind goes on, and the home  *)
(* it writes to may or may not be removable.                               *)
Left(t) ==
    /\ \/ Busy(t) /\ Untroubled
       \/ t = "home" /\ runner \in {"spawned", "running"} /\ Untroubled
       \/ Trouble("rm")
    /\ UNCHANGED <<box, run>>

Ends(c) ==
    IF c = "maker" /\ pc = "undo" THEN pc' = "raised" /\ UNCHANGED stopped
    ELSE stopped' = stopped \cup {c} /\ UNCHANGED pc

Remove(c) ==
    \E t \in Nexts(c) :
        /\ (~Busy(t) /\ Gone(t) /\ Untroubled) \/ Left(t)
        /\ todo' = [todo EXCEPT ![c] = @ \ {t}]
        /\ IF todo[c] = {t} THEN Ends(c) ELSE UNCHANGED <<pc, stopped>>
        /\ UNCHANGED <<kind, images, made, handle, look>>

(* But a docker command that takes too long raises TimeoutExpired out of   *)
(* both.                                                                   *)
RemoveHangs(c) ==
    /\ todo[c] # {} /\ kind = "docker" /\ Trouble("hang")
    /\ todo' = [todo EXCEPT ![c] = {}]
    /\ pc' = (IF c = "maker" /\ pc = "undo" THEN "raised" ELSE pc)
    /\ UNCHANGED <<kind, images, box, made, handle, look, stopped, run>>

(* A rollback of nothing.                                                  *)
Undone ==
    /\ pc = "undo" /\ todo["maker"] = {}
    /\ pc' = "raised"
    /\ UNCHANGED <<kind, images, box, made, handle, look, todo, stopped, run, troubled>>

-----------------------------------------------------------------------------
(* start and wait, by the maker.                                           *)

Alive == IF kind = "docker" THEN "agent" \in up ELSE TRUE

(* write_file: the file and its parents by root; an error if that fails.   *)
Put ==
    /\ pc \in {"ready", "spec"}
    /\ IF Alive
       THEN /\ dir' = (IF dir = "agent" \/ kind = "local" THEN "agent" ELSE "root")
            /\ spec' = (spec \/ pc = "spec")
            /\ pc' = (IF pc = "ready" THEN "chown" ELSE "chown_spec")
            /\ exists' = (IF kind = "local" THEN exists \cup {"home"} ELSE exists)
       ELSE pc' = "error" /\ UNCHANGED <<dir, spec, exists>>
    /\ UNCHANGED <<kind, images, up, joined, whole, made, handle, look, todo, stopped, runner,
                   troubled>>

(* (mutant: only the file is handed over)                                  *)
HandOverFile == UNCHANGED dir

(* Then chown, of the file and of the directories root had to make.        *)
HandOver == dir' = (IF dir = "root" THEN "agent" ELSE dir)

Chown ==
    /\ pc \in {"chown", "chown_spec"}
    /\ \/ Alive /\ HandOver /\ Untroubled
       \/ ~Alive /\ UNCHANGED <<dir, troubled>>
       \/ Trouble("chown") /\ kind = "docker" /\ UNCHANGED dir
    /\ pc' = (IF pc = "chown" THEN "spec" ELSE "spawn")
    /\ UNCHANGED <<kind, images, box, made, handle, look, todo, stopped, spec, runner>>

Spawn ==
    /\ pc = "spawn"
    /\ IF Alive THEN runner' = "spawned" /\ pc' = "waiting"
       ELSE pc' = "error" /\ UNCHANGED runner
    /\ UNCHANGED <<kind, images, box, made, handle, look, todo, stopped, dir, spec, troubled>>

(* The runner reads its spec.json and writes status.json as the agent's    *)
(* user, at first and at last, or dies of it.                              *)
RunnerStep ==
    /\ runner \in {"spawned", "running"}
    /\ runner' = (IF ~spec \/ dir # "agent" THEN "crashed"
                  ELSE IF runner = "spawned" THEN "running" ELSE "reported")
    /\ UNCHANGED <<kind, images, box, made, pc, handle, look, todo, stopped, dir, spec, troubled>>

(* It is killed in a container that stays up, or cannot write how it ended *)
(* (see Runner): the status stays what it was.                             *)
RunnerDies ==
    /\ runner \in {"spawned", "running"} /\ Trouble("kill")
    /\ runner' = "killed"
    /\ UNCHANGED <<kind, images, box, made, pc, handle, look, todo, stopped, dir, spec>>

(* Run.wait: read_file answers FileNotFoundError, and status "starting",   *)
(* for anything that is wrong.                                             *)
Wait ==
    /\ pc = "waiting" /\ Alive /\ dir # "none" /\ runner = "reported"
    /\ pc' = "over"
    /\ UNCHANGED <<kind, images, box, made, handle, look, todo, stopped, run, troubled>>

(* A container exits: the broker's process, init.sh without a usable       *)
(* iptables, the daemon.                                                   *)
Exit(b) ==
    /\ b \in up /\ Trouble("exit")
    /\ up' = up \ {b}
    /\ runner' = (IF b = "agent" /\ runner \in {"spawned", "running"} THEN "killed" ELSE runner)
    /\ UNCHANGED <<kind, images, exists, joined, whole, made, pc, handle, look, todo, stopped,
                   dir, spec>>

-----------------------------------------------------------------------------
MakerStep == BuildImage \/ CreateStep \/ CreateLocal \/ Undone \/ Put \/ Chown \/ Spawn \/ Wait

Next ==
    \/ MakerStep \/ CreateFails \/ CreateLocalFails \/ MakerDies
    \/ Look \/ Get \/ RunnerStep \/ RunnerDies
    \/ \E c \in Clients : Stop(c) \/ Remove(c) \/ RemoveHangs(c)
    \/ \E b \in Boxes : Exit(b)

Spec == Init /\ [][Next]_vars

(* A process that is in a call goes on with it, and the runner's harness   *)
(* comes to an end.                                                        *)
FairSpec == Spec /\ WF_vars(MakerStep) /\ WF_vars(Remove("maker")) /\ WF_vars(RunnerStep)

-----------------------------------------------------------------------------
TypeOK ==
    /\ kind \in Kinds /\ images \subseteq {"base", "derived"}
    /\ exists \subseteq Things /\ up \subseteq exists /\ joined \in BOOLEAN /\ whole \in BOOLEAN
    /\ made \subseteq Things
    /\ pc \in {"base", "derived", "home", "meta", "text", "ready", "chown", "spec", "chown_spec",
               "spawn", "waiting", "over", "error", "gone", "undo", "raised", "died"}
              \cup DOMAIN After
    /\ handle \subseteq Clients /\ stopped \subseteq Clients
    /\ look \in {"idle", "agent", "ip"}
    /\ todo \in [Clients -> SUBSET Things]
    /\ dir \in {"none", "root", "agent"} /\ spec \in BOOLEAN
    /\ runner \in {"none", "spawned", "running", "reported", "crashed", "killed"}
    /\ troubled \subseteq Faults

(* When create raises, nothing it made is left: the rollback knows of all  *)
(* of it and removes it in an order docker accepts, wherever the failure   *)
(* came.  Not so when the failing command had its effect all the same, or  *)
(* a removal failed or hung (docker.py:231-303).                           *)
RolledBack ==
    kind = "docker" /\ pc = "raised" /\ troubled \cap {"late", "rm", "hang"} = {} => exists = {}

(* What list or get gives to another process is a whole sandbox, however   *)
(* far its maker is (docker.py:307-335, local.py:86-111): all its parts,   *)
(* and its containers run, but for an agent that its maker is just about   *)
(* to start, or died before starting, which get does not look at.  Until a *)
(* stop, a container's end, or a docker run that fails half way and is     *)
(* rolled back (docker.py:296).                                            *)
HandleIsWhole ==
    "other" \in handle /\ troubled \cap {"late", "exit", "hang"} = {}
        /\ pc # "gone" /\ todo["other"] = {} /\ "other" \notin stopped
        => IF kind = "docker"
           THEN /\ exists = {"inner", "edge", "egress", "agent"}
                /\ up = Boxes \/ (up = {"egress"} /\ pc \in {"start", "died"})
           ELSE exists = {"home", "meta"} /\ whole

(* A stop that has returned has destroyed the sandbox and everything it    *)
(* owns (base.py:92-93), whoever else stops it at the same time; except    *)
(* that a removal failed, or that the local kind's home was being written  *)
(* to by the maker or by the runner, which nobody ends.                    *)
StopDestroys ==
    \A c \in stopped :
        "rm" \notin troubled /\ (kind = "local" => runner = "none" /\ c = "maker") => exists = {}

(* Run.wait returns, unless the sandbox is stopped or loses its container, *)
(* the maker dies, write_file's unchecked chown fails and leaves the run's *)
(* directory to root (docker.py:392-419), or the runner ends without       *)
(* having written how, and nobody notices (base.py:288-296).               *)
WaiterReturns ==
    pc = "waiting" ~>
        \/ pc # "waiting"
        \/ stopped # {} \/ (\E c \in Clients : todo[c] # {})
        \/ troubled \cap {"exit", "chown", "hang", "kill"} # {}
=============================================================================
