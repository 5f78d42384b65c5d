------------------------------ MODULE TraceView ------------------------------
(***************************************************************************)
(* One agent's trace, from the runner that writes it to the page that      *)
(* shows it: the controller that started the agent reads it from the       *)
(* sandbox, tick by tick, and appends it to a durable copy on the volume   *)
(* (dynamic.py); the dashboard answers a page from the sandbox while that  *)
(* can be read and from the copy when it cannot (examples/swarm/server.py, *)
(* index.html).  An event is a line of LineBytes bytes: the live trace is  *)
(* read from a byte on, the copy as a whole.                               *)
(***************************************************************************)
EXTENDS Naturals, Sequences, Functions

CONSTANTS
  MaxEvents,
  LineBytes,
  MaxPolls,   (* requests for events a page may have in flight             *)
  Faults,     (* the kinds of failure that may happen                      *)
  MaxFaults

ASSUME TraceViewAssumption ==
  /\ MaxEvents \in Nat \ {0} /\ LineBytes \in Nat \ {0} /\ MaxFaults \in Nat
  /\ MaxPolls \in Nat \ {0}
  /\ Faults \subseteq { "put",     \* a write to the volume raises
                        "read",    \* a file of the volume reads as missing
                        "live",    \* reading in a sandbox that lives raises
                        "crash" }  \* the dashboard, with its controller, dies (not counted)

VARIABLES
  (* the agent's sandbox *)
  run,       (* running, over, or gone with its sandbox                    *)
  written,   (* the events in its trace                                    *)
  (* the volume *)
  copy,      (* traces/<agent>.jsonl                                       *)
  record,    (* agents/<agent>.json: none, or the state it says            *)
  (* the controller *)
  pc,        (* where its tick is, or dead                                 *)
  seen,      (* running, or over as it read last                           *)
  tailed,    (* how many events of the trace it read                       *)
  batch,     (* those it has yet to append                                 *)
  held,      (* the run is one of its workflow's runs (wf.runs)            *)
  (* the page *)
  poll,      (* its requests for events: where each is, the offset it was  *)
             (* sent with, what the reply carries and where that ends      *)
  view,      (* traces.get(id): the events it shows, offset, done, source  *)
  (* bookkeeping of the model *)
  overtaken, (* a live reply was added to a copy shown since it was asked  *)
  nfaults

agent  == <<run, written>>
volume == <<copy, record>>
driver == <<pc, seen, tailed, batch, held>>
page   == <<poll, view, overtaken>>
vars   == <<agent, volume, driver, page, nfaults>>

Polls == 1..MaxPolls

Lines(n) == [i \in 1..n |-> i]

Idle == [at |-> "idle", asked |-> 0, got |-> <<>>, upto |-> 0, done |-> FALSE,
         stale |-> FALSE]

Init ==
  /\ run = "running" /\ written = 0
  /\ copy = <<>> /\ record = "none"
  /\ pc = "refresh" /\ seen = "running" /\ tailed = 0 /\ batch = <<>>
  /\ held = FALSE
  /\ poll = [p \in Polls |-> Idle] /\ overtaken = FALSE
  /\ view = [known |-> FALSE, shown |-> {}, offset |-> 0, done |-> FALSE,
             source |-> "live"]
  /\ nfaults = 0

Fault(kind) ==
  /\ kind \in Faults /\ nfaults < MaxFaults
  /\ nfaults' = nfaults + 1

NoFault == UNCHANGED nfaults

-----------------------------------------------------------------------------
(* The agent: it writes its trace, it ends, its sandbox is gone.           *)
WriteEvent ==
  /\ run = "running" /\ written < MaxEvents
  /\ written' = written + 1
  /\ UNCHANGED <<run, volume, driver, page, nfaults>>

RunEnds ==
  /\ run = "running" /\ run' = "over"
  /\ UNCHANGED <<written, volume, driver, page, nfaults>>

BoxGone ==
  /\ run \in {"running", "over"} /\ run' = "gone"
  /\ UNCHANGED <<written, volume, driver, page, nfaults>>

-----------------------------------------------------------------------------
(* The controller: _refresh, once when the agent was started and then in   *)
(* every tick, also when the agent is over.                                *)
(* (mutant: only while it is not)                                          *)
NextTickUnlessOver == IF seen = "over" THEN "idle" ELSE "refresh"

NextTick == "refresh"

(* The state first, which stays what it was when it cannot be read ...     *)
Refresh ==
  /\ pc = "refresh" /\ pc' = "tail"
  /\ \/ run # "gone" /\ seen' = run /\ NoFault
     \/ run = "gone" /\ UNCHANGED seen /\ NoFault
     \/ run # "gone" /\ UNCHANGED seen /\ Fault("live")
  /\ UNCHANGED <<agent, volume, tailed, batch, held, page>>

(* ... then what is new in the trace ...                                   *)
PublishTrace ==
  /\ pc = "tail"
  /\ \/ /\ run # "gone" /\ NoFault
        /\ batch' = SubSeq(Lines(written), tailed + 1, written)
        /\ tailed' = written
     \/ run = "gone" /\ UNCHANGED <<batch, tailed>> /\ NoFault
     \/ run # "gone" /\ UNCHANGED <<batch, tailed>> /\ Fault("live")
  /\ pc' = IF batch' = <<>> THEN "publish" ELSE "append"
  /\ UNCHANGED <<agent, volume, seen, held, page>>

(* A write that raises ends the tick; when it raises out of _spawn_agent,  *)
(* the run is never one of the workflow's and never refreshed again.       *)
AfterRaise == IF held THEN NextTick ELSE "forgotten"

(* ... which is appended to the copy: the whole file is read, and written  *)
(* again.  A read that fails takes it for empty; when the write raises,    *)
(* the offset in the trace has moved on.                                   *)
AppendEvents ==
  /\ pc = "append" /\ batch' = <<>>
  /\ \/ pc' = "publish" /\ copy' = copy \o batch /\ NoFault
     \/ pc' = "publish" /\ copy' = batch /\ Fault("read")
     \/ pc' = AfterRaise /\ UNCHANGED copy /\ Fault("put")
  /\ UNCHANGED <<agent, record, seen, tailed, held, page>>

PublishAgent ==
  /\ pc = "publish"
  /\ \/ pc' = NextTick /\ record' = seen /\ held' = TRUE /\ NoFault
     \/ pc' = AfterRaise /\ UNCHANGED <<record, held>> /\ Fault("put")
  /\ UNCHANGED <<agent, copy, seen, tailed, batch, page>>

(* The dashboard dies and is started again.  Its next controller knows     *)
(* nothing of the agent; requests that were not answered fail.             *)
Crash ==
  /\ pc # "dead" /\ "crash" \in Faults /\ NoFault
  /\ pc' = "dead" /\ seen' = "running" /\ batch' = <<>> /\ held' = FALSE
  /\ poll' = [p \in Polls |-> IF poll[p].at \in {"live", "whole"} THEN poll[p] ELSE Idle]
  /\ UNCHANGED <<agent, volume, tailed, view, overtaken>>

-----------------------------------------------------------------------------
(* The page learns of the agent and its run from the record.               *)
ListAgent ==
  /\ ~view.known /\ record # "none"
  /\ view' = [view EXCEPT !.known = TRUE]
  /\ UNCHANGED <<agent, volume, driver, poll, overtaken, nfaults>>

(* GET /api/events with the offset of now, whatever is in flight.          *)
Send(p) ==
  /\ view.known
  /\ poll[p].at = "idle" /\ \A q \in 1..(p - 1) : poll[q].at # "idle"
  /\ poll' = [poll EXCEPT ![p] = [Idle EXCEPT !.at = "trace", !.asked = view.offset]]
  /\ UNCHANGED <<agent, volume, driver, view, overtaken, nfaults>>

(* The timer asks until the agent is done ...                              *)
AskEvents(p) == ~view.done /\ Send(p)

(* ... and whoever selects the agent does, done or not.                    *)
SelectAgent(p) == Send(p)

(* read_trace: the lines that begin at or after the offset; the rest of    *)
(* one that was cut does not parse and is passed over.                     *)
Cut(offset) == (offset + LineBytes - 1) \div LineBytes
Fresh(offset) == SubSeq(Lines(written), Cut(offset) + 1, written)

ReadLive(p) ==
  /\ poll[p].at = "trace" /\ run \in {"running", "over"}
  /\ poll' = [poll EXCEPT ![p].at = "state", ![p].got = Fresh(poll[p].asked),
                          ![p].upto = written * LineBytes]
  /\ UNCHANGED <<agent, volume, driver, view, overtaken, nfaults>>

(* Its state is read after the trace.                                      *)
ReadState(p) ==
  /\ poll[p].at = "state" /\ run \in {"running", "over"}
  /\ poll' = [poll EXCEPT ![p].at = "live", ![p].done = (run = "over")]
  /\ UNCHANGED <<agent, volume, driver, view, overtaken, nfaults>>

(* The page adds a live reply to what it shows, whatever that is by now.   *)
AppendToView(p) ==
  /\ poll[p].at = "live" /\ poll' = [poll EXCEPT ![p] = Idle]
  /\ view' = [view EXCEPT !.shown = @ \cup Range(poll[p].got), !.source = "live",
                          !.offset = poll[p].upto, !.done = poll[p].done]
  /\ overtaken' = (overtaken \/ poll[p].stale)
  /\ UNCHANGED <<agent, volume, driver, nfaults>>

(* Either cannot be read: what was read is dropped for the durable copy.   *)
LiveFails(p) ==
  /\ poll[p].at \in {"trace", "state"}
  /\ \/ run = "gone" /\ NoFault
     \/ run # "gone" /\ Fault("live")
  /\ poll' = [poll EXCEPT ![p] = [Idle EXCEPT !.at = "copy"]]
  /\ UNCHANGED <<agent, volume, driver, view, overtaken>>

(* Without one the error is raised, and the page asks again.               *)
NoCopy(p) ==
  /\ poll[p].at = "copy" /\ poll' = [poll EXCEPT ![p] = Idle]
  /\ \/ copy = <<>> /\ NoFault
     \/ copy # <<>> /\ Fault("read")
  /\ UNCHANGED <<agent, volume, driver, view, overtaken>>

ReadCopy(p) ==
  /\ poll[p].at = "copy" /\ copy # <<>>
  /\ poll' = [poll EXCEPT ![p].at = "record", ![p].got = copy,
                          ![p].upto = Len(copy)]
  /\ UNCHANGED <<agent, volume, driver, view, overtaken, nfaults>>

(* An agent without a record is taken for over.                            *)
(* (mutant: only such a one is)                                            *)
DoneWithoutRecord(r) == r = "none"

DoneByRecord(r) == r \in {"none", "over"}

ReadRecord(p) ==
  /\ poll[p].at = "record"
  /\ \E r \in {record, "none"} :
       /\ IF r = record THEN NoFault ELSE Fault("read")
       /\ poll' = [poll EXCEPT ![p].at = "whole", ![p].done = DoneByRecord(r)]
  /\ UNCHANGED <<agent, volume, driver, view, overtaken>>

(* The offset it goes on from is the one the reply says.                   *)
(* (mutant: it is still its own)                                           *)
OffsetKept(p) == view.offset

OffsetTold(p) == poll[p].upto

(* The page shows the copy in place of what it has, if that changed.  What *)
(* else is in flight was asked from where the page is no more.             *)
ReplaceView(p) ==
  /\ poll[p].at = "whole"
  /\ view' = [view EXCEPT
       !.shown = IF view.source = "persisted" /\ Len(poll[p].got) = view.offset
                 THEN @ ELSE Range(poll[p].got),
       !.offset = OffsetTold(p), !.source = "persisted", !.done = poll[p].done]
  /\ poll' = [q \in Polls |-> IF q = p THEN Idle ELSE
                [poll[q] EXCEPT !.stale = (@ \/ poll[q].at \in {"trace", "state", "live"})]]
  /\ overtaken' = FALSE
  /\ UNCHANGED <<agent, volume, driver, nfaults>>

-----------------------------------------------------------------------------
Driver == Refresh \/ PublishTrace \/ AppendEvents \/ PublishAgent

Answer(p) ==
  \/ ReadLive(p) \/ ReadState(p) \/ AppendToView(p) \/ LiveFails(p)
  \/ NoCopy(p) \/ ReadCopy(p) \/ ReadRecord(p) \/ ReplaceView(p)

Timer == \E p \in Polls : AskEvents(p)

Next ==
  \/ WriteEvent \/ RunEnds \/ BoxGone \/ Driver \/ Crash \/ ListAgent \/ Timer
  \/ \E p \in Polls : SelectAgent(p) \/ Answer(p)

Spec == Init /\ [][Next]_vars

(* The controller ticks while it lives, the page asks by its timer, every  *)
(* request is answered or fails.                                           *)
FairSpec ==
  /\ Spec /\ WF_vars(Driver) /\ WF_vars(ListAgent \/ Timer)
  /\ WF_vars(\E p \in Polls : Answer(p))

-----------------------------------------------------------------------------
(* Properties.                                                             *)

Views == [known : BOOLEAN, shown : SUBSET (1..MaxEvents), offset : Nat,
          done : BOOLEAN, source : {"live", "persisted"}]

Requests == [at : {"idle", "trace", "state", "live", "copy", "record", "whole"},
             asked : Nat, got : Seq(1..MaxEvents), upto : Nat, done : BOOLEAN,
             stale : BOOLEAN]

(* Every variable keeps to its type.                                       *)
TypeOK ==
  /\ run \in {"running", "over", "gone"} /\ written \in 0..MaxEvents
  /\ copy \in Seq(1..MaxEvents) /\ batch \in Seq(1..MaxEvents)
  /\ record \in {"none", "running", "over"}
  /\ seen \in {"running", "over"} /\ tailed \in 0..MaxEvents
  /\ pc \in {"refresh", "tail", "append", "publish", "forgotten", "dead"}
  /\ held \in BOOLEAN /\ overtaken \in BOOLEAN
  /\ poll \in [Polls -> Requests] /\ view \in Views
  /\ nfaults \in 0..MaxFaults

(* What the controller read of the trace and lost on the way to the copy,  *)
(* for a read or a write of the volume that failed, or dying.              *)
Lost == (1..tailed) \ (Range(copy) \cup Range(batch))

(* The durable copy catches up with a run that is over, although reading   *)
(* the trace failed when it ended, while its sandbox and the controller    *)
(* live, the volume takes what is appended, and none of the writes of the  *)
(* first refresh raised.                                                   *)
CopyCatchesUp ==
  run = "over" ~> \/ Range(copy) = 1..written \/ Lost # {}
                  \/ run = "gone" \/ pc \in {"dead", "forgotten"}

(* What lies before the offset the page asks from was shown, or is lost to *)
(* the copy, although live reads fail in between, requests overlap and are *)
(* answered in any order, the copy lags behind what was shown, and its     *)
(* offset counts events where the live trace counts bytes.  Events are     *)
(* passed over in one way only: a live reply that a copy overtook, until   *)
(* the page is shown a copy again.                                         *)
NothingSkipped ==
  ~overtaken => \A e \in 1..MaxEvents :
    (e - 1) * LineBytes < view.offset => e \in view.shown \cup Lost

(* The page of an agent recorded as over, with a copy, comes to rest.      *)
ViewSettles == record = "over" /\ copy # <<>> ~> view.done
=============================================================================
