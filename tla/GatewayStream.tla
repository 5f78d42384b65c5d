---------------------------- MODULE GatewayStream ----------------------------
(***************************************************************************)
(* One streamed answer of the gateway: the engine's chat completion        *)
(* (gateway/chat.py), pumped by a task of its own into a queue, is turned  *)
(* into the events of Anthropic Messages (gateway/anthropic.py) or of      *)
(* OpenAI Responses (gateway/responses.py), frame by frame, for a harness  *)
(* that may go away.  Names that most modules have carry the stream's      *)
(* name, so that HarnessProofs extends this module and others.             *)
(***************************************************************************)
EXTENDS Naturals, Sequences

CONSTANTS
  Tools,      (* indices of tool calls                                     *)
  NoTool,
  MaxSent,    (* the engine sends only while it has sent fewer events      *)
  MaxQueue    (* and fewer wait in the queue                               *)

ASSUME StreamAssumption ==
  NoTool \notin Tools /\ MaxSent \in Nat /\ MaxQueue \in Nat

VARIABLES
  protocol,   (* "anthropic" or "responses"                                *)
  (* the engine and the pump; the queue holds what was sent and not taken  *)
  sent, pump, taken,
  (* stream_sse *)
  phase,      (* "body", "flush", "over", "gone"                           *)
  open,       (* the open block                                            *)
  next,       (* the index of the next block                               *)
  order, args, streaming, finish, cursor,
  done,       (* items_done, of which only Responses tells the harness     *)
  pending,    (* frames made and not yielded yet                           *)
  (* the harness *)
  client

upstream   == <<sent, pump>>
calls      == <<order, args, streaming>>
writer     == <<open, next, calls, finish, cursor, done>>
streamVars == <<protocol, upstream, taken, phase, writer, pending, client>>

Contents == {"thinking", "text"}
Reasons  == {"stop", "length"}   \* a refusal is treated as a length

NoBlock == [kind |-> "none", index |-> 0, whole |-> <<>>]

(* The frames, each for the group that always come together.               *)
Begun              == [type |-> "begin"]
Opened(i, k, t)    == [type |-> "open", index |-> i, block |-> [kind |-> k, tool |-> t]]
Grown(i, es)       == [type |-> "delta", index |-> i, delta |-> es]
Closed(i, es)      == [type |-> "close", index |-> i, whole |-> es]
Ended(how, items)  == [type |-> "end", how |-> how, items |-> items]
Ping               == [type |-> "ping"]

StreamInit ==
  /\ protocol \in {"anthropic", "responses"}
  /\ sent = <<>> /\ pump = "running" /\ taken = 0
  /\ phase = "body" /\ open = NoBlock /\ next = 0
  /\ order = <<>> /\ args = [t \in Tools |-> <<>>] /\ streaming = NoTool
  /\ finish = "none" /\ cursor = 1 /\ done = <<>>
  /\ pending = <<Begun>>
  /\ client = [outcome |-> "none", blocks |-> <<>>, isOpen |-> FALSE,
               current |-> <<>>, content |-> <<>>, args |-> [t \in Tools |-> <<>>]]

-----------------------------------------------------------------------------
(* chat.py: stream_events.  A chunk is taken apart into events, numbered   *)
(* here by their place.                                                    *)
Started == {sent[i].tool : i \in {j \in DOMAIN sent : sent[j].kind = "start"}}

Send(events) ==
  /\ pump = "running" /\ Len(sent) < MaxSent /\ Len(sent) - taken < MaxQueue
  /\ sent' = sent \o events
  /\ UNCHANGED <<protocol, pump, taken, phase, writer, pending, client>>

At(k) == Len(sent) + k

SendContent(k) == Send(<<[kind |-> k, at |-> At(1)]>>)

(* A fragment of a tool call: its name starts it, but only the first time. *)
Fresh(t) == t \notin Started

SendCall(t, named, more) ==
  /\ named \/ more
  /\ LET start == IF named /\ Fresh(t) THEN <<[kind |-> "start", tool |-> t]>> ELSE <<>>
         rest  == IF more THEN <<[kind |-> "args", tool |-> t, at |-> At(Len(start) + 1)]>>
                  ELSE <<>>
     IN  Send(start \o rest)

SendFinish(r) == Send(<<[kind |-> "finish", reason |-> r]>>)

UpstreamEnds ==
  /\ pump = "running" /\ pump' \in {"ended", "failed"}
  /\ UNCHANGED <<protocol, sent, taken, phase, writer, pending, client>>

-----------------------------------------------------------------------------
(* close_block and close_content; what they yield, before a block is       *)
(* opened or after the last.                                               *)
Closing == IF open.kind = "none" THEN <<>> ELSE <<Closed(open.index, open.whole)>>

ItemsDone ==
  IF open.kind = "none" THEN done ELSE Append(done, [kind |-> open.kind, tool |-> NoTool])

(* ensure and ensure_content: the block open, or a new one.                *)
(* (mutant: the old one is not closed)                                     *)
EnsureLeavesOpen(k) ==
  IF open.kind = k THEN [block |-> open, frames |-> <<>>]
  ELSE [block |-> [kind |-> k, index |-> next, whole |-> <<>>],
        frames |-> <<Opened(next, k, NoTool)>>]

Ensure(k) ==
  IF open.kind = k THEN [block |-> open, frames |-> <<>>]
  ELSE [block |-> [kind |-> k, index |-> next, whole |-> <<>>],
        frames |-> Closing \o <<Opened(next, k, NoTool)>>]

(* stream_with_keepalive hands out the next event, once the frames of the  *)
(* last one are yielded.                                                   *)
Take(kinds) ==
  /\ phase = "body" /\ pending = <<>>
  /\ taken < Len(sent) /\ sent[taken + 1].kind \in kinds
  /\ taken' = taken + 1
  /\ UNCHANGED <<protocol, upstream, phase, cursor, client>>

Event == sent[taken + 1]

TakeContent ==
  /\ Take(Contents)
  /\ LET e == Event
         b == Ensure(e.kind).block
     IN  /\ open' = [b EXCEPT !.whole = Append(@, e)]
         /\ pending' = Ensure(e.kind).frames \o <<Grown(b.index, <<e>>)>>
         /\ next' = IF open.kind = e.kind THEN next ELSE next + 1
         /\ done' = IF open.kind = e.kind THEN done ELSE ItemsDone
  /\ UNCHANGED <<calls, finish>>

(* Anthropic streams the first tool call in a block of its own, and keeps  *)
(* the others, as Responses keeps all, until the end.                      *)
TakeStart ==
  /\ Take({"start"})
  /\ LET t == Event.tool
     IN  /\ order' = Append(order, t)
         /\ args' = [args EXCEPT ![t] = <<>>]
         /\ IF protocol = "anthropic" /\ streaming = NoTool
            THEN /\ streaming' = t
                 /\ open' = [kind |-> "tool", index |-> next, whole |-> <<>>]
                 /\ next' = next + 1
                 /\ pending' = Closing \o <<Opened(next, "tool", t)>>
            ELSE UNCHANGED <<streaming, open, next, pending>>
  /\ UNCHANGED <<finish, done>>

IsCall(t) == \E i \in DOMAIN order : order[i] = t

Streams(t) == t = streaming /\ open.kind = "tool"

TakeArgs ==
  /\ Take({"args"})
  /\ LET e == Event
     IN  /\ args' = IF protocol = "anthropic" \/ IsCall(e.tool)
                    THEN [args EXCEPT ![e.tool] = Append(@, e)] ELSE args
         /\ pending' = IF Streams(e.tool) THEN <<Grown(open.index, <<e>>)>> ELSE <<>>
  /\ UNCHANGED <<open, next, order, streaming, finish, done>>

TakeFinish ==
  /\ Take({"finish"})
  /\ finish' = Event.reason
  /\ UNCHANGED <<open, next, calls, done, pending>>

KeepAlive ==
  /\ phase = "body" /\ pending = <<>> /\ taken = Len(sent) /\ pump = "running"
  /\ pending' = <<Ping>>
  /\ UNCHANGED <<protocol, upstream, taken, phase, writer, client>>

-----------------------------------------------------------------------------
(* The queue is empty and the pump is through.                             *)
UpstreamDone == pump = "ended"

Drained == phase = "body" /\ pending = <<>> /\ taken = Len(sent)

EndBody ==
  /\ Drained /\ UpstreamDone
  /\ phase' = "flush" /\ pending' = Closing /\ open' = NoBlock /\ done' = ItemsDone
  /\ UNCHANGED <<protocol, upstream, taken, next, calls, finish, cursor, client>>

Fail ==
  /\ Drained /\ pump = "failed"
  /\ phase' = "over" /\ open' = NoBlock /\ done' = ItemsDone
  /\ pending' = Closing \o <<Ended("error", ItemsDone)>>
  /\ UNCHANGED <<protocol, upstream, taken, next, calls, finish, cursor, client>>

(* The tool calls that were not streamed, one block each.                  *)
(* (mutant: if none was)                                                   *)
LeftIfNone(t) == streaming = NoTool

LeftToFlush(t) == t # streaming

Flush ==
  /\ phase = "flush" /\ pending = <<>> /\ cursor <= Len(order)
  /\ LET t == order[cursor]
     IN  IF LeftToFlush(t)
         THEN /\ next' = next + 1
              /\ pending' = <<Opened(next, "tool", t)>>
                   \o (IF protocol = "anthropic" /\ args[t] = <<>> THEN <<>>
                       ELSE <<Grown(next, args[t])>>)
                   \o <<Closed(next, args[t])>>
              /\ done' = Append(done, [kind |-> "tool", tool |-> t])
         ELSE UNCHANGED <<next, pending, done>>
  /\ cursor' = cursor + 1
  /\ UNCHANGED <<protocol, upstream, taken, phase, open, calls, finish, client>>

(* _stop_reason, and the choice of the last event of Responses.            *)
Verdict ==
  IF /\ finish = "length"
     /\ protocol = "anthropic" => order = <<>>
  THEN "cut" ELSE "stopped"

ConcludeStream ==
  /\ phase = "flush" /\ pending = <<>> /\ cursor > Len(order)
  /\ phase' = "over" /\ pending' = <<Ended(Verdict, done)>>
  /\ UNCHANGED <<protocol, upstream, taken, writer, client>>

-----------------------------------------------------------------------------
(* What the harness makes of a frame.  One that does not fit breaks the    *)
(* stream for it.                                                          *)
Last(s) == s[Len(s)]

Fits(f) ==
  CASE f.type = "ping"  -> client.outcome = "begun"
    [] f.type = "begin" -> client.outcome = "none"
    [] f.type = "open"  -> /\ client.outcome = "begun" /\ ~client.isOpen
                           /\ f.index = Len(client.blocks)
    [] f.type = "delta" -> client.isOpen /\ f.index + 1 = Len(client.blocks)
    [] f.type = "close" -> /\ client.isOpen /\ f.index + 1 = Len(client.blocks)
                           /\ protocol = "responses" => f.whole = client.current
    [] f.type = "end"   -> /\ client.outcome = "begun" /\ ~client.isOpen
                           /\ protocol = "responses" => f.items = client.blocks

Grows(f) ==
  LET b == Last(client.blocks)
      c == [client EXCEPT !.current = @ \o f.delta]
  IN  IF b.kind = "tool" THEN [c EXCEPT !.args[b.tool] = @ \o f.delta]
      ELSE [c EXCEPT !.content = @ \o f.delta]

Received(f) ==
  IF ~Fits(f) THEN [client EXCEPT !.outcome = "broken"]
  ELSE CASE f.type = "ping"  -> client
         [] f.type = "begin" -> [client EXCEPT !.outcome = "begun"]
         [] f.type = "open"  -> [client EXCEPT !.blocks = Append(@, f.block), !.isOpen = TRUE]
         [] f.type = "delta" -> Grows(f)
         [] f.type = "close" -> [client EXCEPT !.isOpen = FALSE, !.current = <<>>]
         [] f.type = "end"   -> [client EXCEPT !.outcome = f.how]

Yield ==
  /\ pending # <<>>
  /\ client' = Received(Head(pending))
  /\ pending' = Tail(pending)
  /\ UNCHANGED <<protocol, upstream, taken, phase, writer>>

(* The harness goes away; the generators are dropped and closed, and with  *)
(* them the pump.                                                          *)
GoAway ==
  /\ phase # "gone" /\ ~(phase = "over" /\ pending = <<>>)
  /\ phase' = "gone" /\ pending' = <<>>
  /\ UNCHANGED <<protocol, upstream, taken, writer, client>>

(* (mutant: only after the last frame)                                     *)
ClosedAtEnd == phase = "over"

GeneratorClosed == phase = "gone"

CancelPump ==
  /\ GeneratorClosed /\ pump = "running"
  /\ pump' = "cancelled"
  /\ UNCHANGED <<protocol, sent, taken, phase, writer, pending, client>>

-----------------------------------------------------------------------------
Engine ==
  \/ \E k \in Contents : SendContent(k)
  \/ \E t \in Tools, named, more \in BOOLEAN : SendCall(t, named, more)
  \/ \E r \in Reasons : SendFinish(r)
  \/ UpstreamEnds

Writer ==
  \/ TakeContent \/ TakeStart \/ TakeArgs \/ TakeFinish \/ KeepAlive
  \/ EndBody \/ Fail \/ Flush \/ ConcludeStream \/ Yield \/ CancelPump

StreamNext == Engine \/ Writer \/ GoAway

StreamSpec == StreamInit /\ [][StreamNext]_streamVars

(* The event loop keeps running the writer.  Nothing is assumed of the     *)
(* engine.                                                                 *)
StreamFairSpec == StreamSpec /\ WF_streamVars(Writer)

-----------------------------------------------------------------------------
(* Properties.                                                             *)

(* What reaches the harness is a well-formed stream: blocks are numbered   *)
(* without a gap, never interleave, a call has one block, a whole text is  *)
(* the sum of its pieces, the final list is that of the items seen, and    *)
(* nothing follows the verdict.                                            *)
Promise == INSTANCE ContentStream
             WITH outcome <- client.outcome, blocks <- client.blocks,
                  isOpen <- client.isOpen, current <- client.current
KeepsPromise == Promise!Spec

(* The places of what the engine sent: content, and the pieces of a call    *)
(* from its start on.                                                       *)
ContentTo(n) == {i \in 1..n : sent[i].kind \in Contents}

Starts(t) == {i \in DOMAIN sent : sent[i].kind = "start" /\ sent[i].tool = t}

ArgsTo(t, n) ==
  {j \in 1..n : sent[j].kind = "args" /\ sent[j].tool = t /\ \E i \in Starts(t) : i < j}

(* A sequence of the events at these places, each of them once, in order.  *)
Collects(s, places) ==
  /\ \A i \in DOMAIN s : s[i].at \in places /\ s[i] = sent[s[i].at]
  /\ \A i, j \in DOMAIN s : i < j => s[i].at < s[j].at
  /\ \A p \in places : \E i \in DOMAIN s : s[i].at = p

(* The one call that was streamed while text or reasoning came after it.   *)
Interrupted(t) ==
  /\ t = streaming
  /\ \E i \in Starts(t), j \in DOMAIN sent : i < j /\ sent[j].kind \in Contents

(* A harness that is told how its answer ended has got all of it, every    *)
(* call in the order of the starts; but for the pieces of a streamed call  *)
(* that come after a text has closed its block.                            *)
Delivered ==
  client.outcome \in {"stopped", "cut"} =>
    /\ Collects(client.content, ContentTo(Len(sent)))
    /\ \A t \in Tools : ~Interrupted(t) => Collects(client.args[t], ArgsTo(t, Len(sent)))
    /\ \A t \in Started : \E i \in DOMAIN client.blocks : client.blocks[i].tool = t

(* A failure of the engine never looks like an answer, and a cut off       *)
(* answer without a tool call never like a whole one.                      *)
FailureShows ==
  client.outcome \in {"stopped", "cut"} =>
    /\ pump = "ended"
    /\ finish = "length" /\ Started = {} => client.outcome = "cut"

(* What the harness is told about its answer is true.                      *)
VerdictIsTrue == Delivered /\ FailureShows

(* When the engine is through, or the harness went away, both come to an   *)
(* end: the harness is told, unless it is gone, and no pump reads on.      *)
BothSidesEnd ==
  pump # "running" \/ phase = "gone" ~>
    /\ pump # "running"
    /\ client.outcome \in {"stopped", "cut", "error"} \/ phase = "gone"
=============================================================================
