--------------------------- MODULE TraceViewProofs ---------------------------
(***************************************************************************)
(* For traces and lines of any length and any failures: the variables of   *)
(* TraceView keep to their types, and the page passes over no event.       *)
(***************************************************************************)
EXTENDS TraceView, SequenceTheorems, TLAPS

(* The byte an event's line begins at.                                     *)
Begin(e) == (e - 1) * LineBytes

(* The copy and what is to be appended to it lie behind the controller's   *)
(* place in the trace, the latter beyond as many events as the copy has.   *)
Behind ==
  /\ tailed <= written
  /\ Range(copy) \subseteq 1..tailed /\ Range(batch) \subseteq 1..tailed
  /\ Len(copy) + Len(batch) <= tailed
  /\ \A i \in DOMAIN batch : batch[i] > Len(copy)
  /\ batch # <<>> => pc = "append"

(* A live reply carries all from the offset it was asked for to the one it *)
(* says.                                                                   *)
LiveReply(r) ==
  r.at \in {"state", "live"} =>
    \A e \in 1..MaxEvents : Begin(e) < r.upto => Begin(e) < r.asked \/ e \in Range(r.got)

(* What is missing in the copy another carries is lost.                    *)
CopyReply(r) ==
  r.at \in {"record", "whole"} =>
    /\ r.upto = Len(r.got)
    /\ \A e \in 1..MaxEvents : e <= Len(r.got) => e \in Range(r.got) \cup Lost

(* What lies before byte n was shown, or is lost.                          *)
ShownTo(n) == \A e \in 1..MaxEvents : Begin(e) < n => e \in view.shown \cup Lost

(* Unless a copy came in between, what lies before the offset a request    *)
(* was sent with is still shown.                                           *)
StillShown(r) ==
  r.at \in {"trace", "state", "live"} /\ r.stale = FALSE /\ overtaken = FALSE
    => ShownTo(r.asked)

Replies == \A p \in Polls : LiveReply(poll[p]) /\ CopyReply(poll[p]) /\ StillShown(poll[p])

(* No copy that is shown was added to by a reply from before it.           *)
Persisted == view.source = "persisted" => overtaken = FALSE

Skipless == overtaken = FALSE => ShownTo(view.offset)

IInv == TypeOK /\ Behind /\ Replies /\ Persisted /\ Skipless

USE DEF agent, volume, driver, page

-----------------------------------------------------------------------------
(* Bytes and events.                                                       *)

LEMMA Constants ==
  /\ MaxEvents \in Nat \ {0} /\ LineBytes \in Nat \ {0} /\ MaxFaults \in Nat
  BY TraceViewAssumption DEF TraceViewAssumption

(* An event that begins before byte n is one of the first n ...            *)
LEMMA BeginsBefore ==
  ASSUME NEW e \in 1..MaxEvents, NEW n \in Nat, Begin(e) < n
  PROVE  e <= n
  <1>1. (e - 1) * LineBytes >= e - 1
    BY Constants
  <1> QED BY <1>1, Constants DEF Begin

(* ... and of the first n when it begins before the n-th ends.             *)
LEMMA BeginsWithin ==
  ASSUME NEW e \in 1..MaxEvents, NEW n \in Nat, Begin(e) < n * LineBytes
  PROVE  e <= n
  <1>1. ASSUME e > n PROVE FALSE
    <2>1. e - 1 >= n /\ e - 1 \in Nat
      BY <1>1, Constants
    <2>2. (e - 1) * LineBytes >= n * LineBytes
      BY <2>1, Constants
    <2> QED BY <2>2, Constants DEF Begin
  <1> QED BY <1>1, Constants

LEMMA Quotient ==
  ASSUME NEW m \in Nat, NEW d \in Nat \ {0}
  PROVE  (m \div d) \in Nat /\ d * (m \div d) <= m
  OBVIOUS

(* Reading from a byte on misses no event that begins at or after it.      *)
LEMMA BeginsBeyondCut ==
  ASSUME NEW o \in Nat, NEW e \in 1..MaxEvents, ~(Begin(e) < o)
  PROVE  Cut(o) \in Nat /\ Cut(o) < e
  <1>1. o + LineBytes - 1 \in Nat
    BY Constants
  <1>2. Cut(o) \in Nat /\ LineBytes * Cut(o) <= o + LineBytes - 1
    BY <1>1, Constants, Quotient DEF Cut
  <1>3. ASSUME Cut(o) >= e PROVE FALSE
    <2>1. LineBytes * Cut(o) >= LineBytes * e
      BY <1>2, <1>3, Constants
    <2>2. LineBytes * e = (e - 1) * LineBytes + LineBytes
      BY Constants
    <2> QED BY <2>1, <2>2, <1>2, Constants DEF Begin
  <1> QED BY <1>2, <1>3

LEMMA RangeOfConcat ==
  ASSUME NEW S, NEW s \in Seq(S), NEW t \in Seq(S)
  PROVE  Range(s \o t) = Range(s) \cup Range(t)
  <1>1. /\ DOMAIN (s \o t) = 1..(Len(s) + Len(t)) /\ DOMAIN s = 1..Len(s)
        /\ DOMAIN t = 1..Len(t) /\ Len(s) \in Nat /\ Len(t) \in Nat
    BY ConcatProperties, LenProperties
  <1>2. ASSUME NEW i \in DOMAIN s PROVE (s \o t)[i] = s[i] /\ i \in DOMAIN (s \o t)
    BY <1>1, ConcatProperties
  <1>3. ASSUME NEW i \in DOMAIN t
        PROVE  (s \o t)[Len(s) + i] = t[i] /\ Len(s) + i \in DOMAIN (s \o t)
    BY <1>1, ConcatProperties
  <1>4. ASSUME NEW i \in DOMAIN (s \o t) PROVE (s \o t)[i] \in Range(s) \cup Range(t)
    <2>1. CASE i <= Len(s)
      BY <2>1, <1>1, <1>2 DEF Range
    <2>2. CASE ~(i <= Len(s))
      <3>1. i - Len(s) \in DOMAIN t /\ i = Len(s) + (i - Len(s))
        BY <2>2, <1>1
      <3> QED BY <3>1, <1>3 DEF Range
    <2> QED BY <2>1, <2>2
  <1>5. Range(s) \cup Range(t) \subseteq Range(s \o t)
    <2>1. \A x \in Range(s) : x \in Range(s \o t)
      BY <1>2, Zenon DEF Range
    <2>2. \A x \in Range(t) : x \in Range(s \o t)
      BY <1>3, Zenon DEF Range
    <2> QED BY <2>1, <2>2
  <1>6. Range(s \o t) \subseteq Range(s) \cup Range(t)
    BY <1>4, Zenon DEF Range
  <1> QED BY <1>5, <1>6

(* The part of a trace from some event on.                                 *)
LEMMA RestOfTrace ==
  ASSUME NEW a \in Nat, NEW n \in 0..MaxEvents,
         NEW q, q = SubSeq(Lines(n), a + 1, n)
  PROVE  /\ q \in Seq(1..MaxEvents) /\ (a <= n => Len(q) = n - a)
         /\ \A i \in DOMAIN q : q[i] = a + i /\ q[i] <= n
         /\ \A e \in 1..MaxEvents : a < e /\ e <= n => e \in Range(q)
  <1>1. MaxEvents \in Nat /\ n \in Nat
    BY Constants
  <1>2. Lines(n) = [i \in 1..n |-> i]
    BY DEF Lines
  <1>3. q \in Seq(1..MaxEvents) /\ (a <= n => Len(q) = n - a)
    <2>1. \A i \in (a + 1)..n : Lines(n)[i] \in 1..MaxEvents
      BY <1>1, <1>2
    <2> QED BY <2>1, <1>1, SubSeqProperties
  <1>4. DOMAIN q = 1..Len(q)
    BY <1>3, LenProperties
  <1>5. ASSUME NEW i \in DOMAIN q PROVE q[i] = a + i /\ q[i] <= n
    <2>1. i \in 1..(n - a) /\ a <= n
      BY <1>1, <1>3, <1>4
    <2>2. q[i] = Lines(n)[a + i] /\ a + i \in 1..n
      BY <2>1, <1>1, <1>2
    <2> QED BY <2>2, <1>2
  <1>6. ASSUME NEW e \in 1..MaxEvents, a < e, e <= n PROVE e \in Range(q)
    <2>1. e - a \in DOMAIN q /\ a + (e - a) = e
      BY <1>1, <1>3, <1>4, <1>6
    <2>2. q[e - a] = e
      BY <2>1, <1>5
    <2> QED BY <2>1, <2>2 DEF Range
  <1> QED BY <1>3, <1>5, <1>6

LEMMA RangeOfEmpty == Range(<<>>) = {}
  BY DEF Range

-----------------------------------------------------------------------------
LEMMA IdleRequest ==
  /\ Idle \in Requests /\ Idle.at = "idle" /\ Idle.stale = FALSE
  /\ Idle.got = <<>> /\ Idle.upto = 0
  <1>1. <<>> \in Seq(1..MaxEvents)
    BY EmptySeq
  <1> QED BY <1>1 DEF Idle, Requests

LEMMA InitIInv == Init => IInv
  <1> SUFFICES ASSUME Init PROVE IInv
    OBVIOUS
  <1>1. /\ copy = <<>> /\ batch = <<>> /\ written = 0 /\ tailed = 0
        /\ poll = [p \in Polls |-> Idle] /\ overtaken = FALSE /\ nfaults = 0
        /\ view = [known |-> FALSE, shown |-> {}, offset |-> 0, done |-> FALSE,
                   source |-> "live"]
    BY DEF Init
  <1>2. <<>> \in Seq(1..MaxEvents) /\ Len(<<>>) = 0 /\ DOMAIN <<>> = {}
    BY EmptySeq
  <1>3. TypeOK
    <2>1. view \in Views
      BY <1>1 DEF Views
    <2>2. /\ run \in {"running", "over", "gone"} /\ record = "none" /\ seen = "running"
          /\ pc = "refresh" /\ held = FALSE
      BY DEF Init
    <2>3. poll \in [Polls -> Requests]
      BY <1>1, IdleRequest
    <2>4. held \in BOOLEAN /\ overtaken \in BOOLEAN
      BY <1>1, <2>2
    <2>5. copy \in Seq(1..MaxEvents) /\ batch \in Seq(1..MaxEvents)
      BY <1>1, <1>2
    <2>6. written \in 0..MaxEvents /\ tailed \in 0..MaxEvents /\ nfaults \in 0..MaxFaults
      BY <1>1, Constants
    <2> QED BY <2>1, <2>2, <2>3, <2>4, <2>5, <2>6 DEF TypeOK
  <1>4. Behind
    BY <1>1, <1>2, RangeOfEmpty DEF Behind
  <1>5. view.offset = 0 /\ view.source = "live"
    BY <1>1
  <1>6. \A e \in 1..MaxEvents : ~(Begin(e) < 0)
    <2> TAKE e \in 1..MaxEvents
    <2>1. e - 1 \in Nat /\ LineBytes \in Nat
      BY Constants
    <2> QED BY <2>1 DEF Begin
  <1>7. Replies
    <2>1. \A p \in Polls : poll[p].at = "idle"
      BY <1>1, IdleRequest
    <2> QED BY <2>1 DEF Replies, LiveReply, CopyReply, StillShown
  <1> QED BY <1>3, <1>4, <1>5, <1>6, <1>7 DEF IInv, Persisted, Skipless, ShownTo

-----------------------------------------------------------------------------
(* Types.                                                                  *)

LEMMA FaultType ==
  ASSUME TypeOK, nfaults' = nfaults \/ (nfaults < MaxFaults /\ nfaults' = nfaults + 1)
  PROVE  nfaults' \in 0..MaxFaults
  BY Constants DEF TypeOK

(* What the page shows, field by field, when it takes a live reply ...     *)
LEMMA LiveView ==
  ASSUME TypeOK, NEW p \in Polls, AppendToView(p)
  PROVE  /\ view' \in Views /\ overtaken' \in BOOLEAN
         /\ view'.shown = view.shown \cup Range(poll[p].got)
         /\ view'.offset = poll[p].upto /\ view'.source = "live"
         /\ overtaken' = FALSE => overtaken = FALSE /\ poll[p].stale = FALSE
  <1>1. poll[p] \in Requests /\ view \in Views /\ overtaken \in BOOLEAN
    BY DEF TypeOK
  <1>2. /\ poll[p].got \in Seq(1..MaxEvents) /\ poll[p].upto \in Nat
        /\ poll[p].done \in BOOLEAN /\ poll[p].stale \in BOOLEAN
    BY <1>1 DEF Requests
  <1>3. Range(poll[p].got) \subseteq 1..MaxEvents
    <2>1. \A i \in DOMAIN poll[p].got : poll[p].got[i] \in 1..MaxEvents
      BY <1>2, ElementOfSeq, LenProperties
    <2> QED BY <2>1, Zenon DEF Range
  <1>4. view' = [view EXCEPT !.shown = @ \cup Range(poll[p].got), !.source = "live",
                             !.offset = poll[p].upto, !.done = poll[p].done]
    BY DEF AppendToView
  <1>5. overtaken' = (overtaken \/ poll[p].stale)
    BY DEF AppendToView
  <1>6. overtaken' \in BOOLEAN /\ (overtaken' = FALSE => overtaken = FALSE /\ poll[p].stale = FALSE)
    BY <1>1, <1>2, <1>5
  <1>7. /\ view'.shown = view.shown \cup Range(poll[p].got)
        /\ view'.offset = poll[p].upto /\ view'.source = "live" /\ view' \in Views
    BY <1>1, <1>2, <1>3, <1>4 DEF Views
  <1> QED BY <1>6, <1>7

(* ... and when it takes a copy.                                           *)
LEMMA CopyView ==
  ASSUME TypeOK, NEW p \in Polls, ReplaceView(p)
  PROVE  /\ view' \in Views /\ overtaken' = FALSE
         /\ \/ view'.shown = Range(poll[p].got)
            \/ /\ view'.shown = view.shown /\ view.source = "persisted"
               /\ Len(poll[p].got) = view.offset
         /\ view'.offset = poll[p].upto /\ view'.source = "persisted"
  <1>1. poll[p] \in Requests /\ view \in Views
    BY DEF TypeOK
  <1>2. /\ poll[p].got \in Seq(1..MaxEvents) /\ poll[p].upto \in Nat
        /\ poll[p].done \in BOOLEAN
    BY <1>1 DEF Requests
  <1>3. Range(poll[p].got) \subseteq 1..MaxEvents
    <2>1. \A i \in DOMAIN poll[p].got : poll[p].got[i] \in 1..MaxEvents
      BY <1>2, ElementOfSeq, LenProperties
    <2> QED BY <2>1, Zenon DEF Range
  <1>4. PICK shown \in {view.shown, Range(poll[p].got)} :
          shown = IF view.source = "persisted" /\ Len(poll[p].got) = view.offset
                  THEN view.shown ELSE Range(poll[p].got)
    OBVIOUS
  <1>5. view' = [view EXCEPT !.shown = shown, !.offset = poll[p].upto,
                             !.source = "persisted", !.done = poll[p].done]
    BY <1>4 DEF ReplaceView, OffsetTold
  <1>6. shown \subseteq 1..MaxEvents
    BY <1>1, <1>3, <1>4 DEF Views
  <1>7. /\ view' \in Views /\ view'.shown = shown /\ view'.offset = poll[p].upto
        /\ view'.source = "persisted"
    BY <1>1, <1>2, <1>5, <1>6 DEF Views
  <1>8. overtaken' = FALSE
    BY DEF ReplaceView
  <1> QED BY <1>4, <1>7, <1>8

LEMMA ListView ==
  ASSUME TypeOK, ListAgent
  PROVE  /\ view' \in Views
         /\ view'.shown = view.shown /\ view'.offset = view.offset
         /\ view'.source = view.source
  BY DEF TypeOK, Views, ListAgent

LEMMA DriverType ==
  ASSUME TypeOK, Driver
  PROVE  TypeOK'
  <1>2. CASE Refresh
    <2>1. nfaults' \in 0..MaxFaults
      BY <1>2, FaultType DEF Refresh, Fault, NoFault
    <2> QED BY <1>2, <2>1 DEF TypeOK, Refresh
  <1>3. CASE PublishTrace
    <2>1. nfaults' \in 0..MaxFaults
      BY <1>3, FaultType DEF PublishTrace, Fault, NoFault
    <2>2. batch' \in Seq(1..MaxEvents) /\ tailed' \in 0..MaxEvents
      <3>1. tailed \in Nat /\ written \in 0..MaxEvents
        BY Constants DEF TypeOK
      <3>2. SubSeq(Lines(written), tailed + 1, written) \in Seq(1..MaxEvents)
        BY <3>1, RestOfTrace
      <3> QED BY <1>3, <3>2 DEF TypeOK, PublishTrace
    <2> QED BY <1>3, <2>1, <2>2 DEF TypeOK, PublishTrace
  <1>4. CASE AppendEvents
    <2>1. nfaults' \in 0..MaxFaults
      BY <1>4, FaultType DEF AppendEvents, Fault, NoFault
    <2>2. copy' \in Seq(1..MaxEvents) /\ batch' \in Seq(1..MaxEvents)
      <3>1. /\ batch' = <<>>
            /\ copy' = copy \/ copy' = batch \/ copy' = copy \o batch
        BY <1>4 DEF AppendEvents
      <3>2. copy \o batch \in Seq(1..MaxEvents)
        BY ConcatProperties DEF TypeOK
      <3> QED BY <3>1, <3>2, EmptySeq DEF TypeOK
    <2> QED BY <1>4, <2>1, <2>2 DEF TypeOK, AppendEvents, AfterRaise, NextTick
  <1>5. CASE PublishAgent
    <2>1. nfaults' \in 0..MaxFaults
      BY <1>5, FaultType DEF PublishAgent, Fault, NoFault
    <2> QED BY <1>5, <2>1 DEF TypeOK, PublishAgent, AfterRaise, NextTick
  <1> QED BY <1>2, <1>3, <1>4, <1>5 DEF Driver

(* Steps that change one request only.                                     *)
LEMMA OneRequest ==
  ASSUME TypeOK, NEW p \in Polls, NEW r \in Requests, poll' = [poll EXCEPT ![p] = r]
  PROVE  /\ poll' \in [Polls -> Requests] /\ poll'[p] = r
         /\ \A q \in Polls : q # p => poll'[q] = poll[q]
  BY DEF TypeOK

LEMMA SendRequest ==
  ASSUME TypeOK, NEW p \in Polls, Send(p)
  PROVE  \E r \in Requests :
           /\ poll' = [poll EXCEPT ![p] = r]
           /\ r.at = "trace" /\ r.asked = view.offset
  <1> DEFINE r == [Idle EXCEPT !.at = "trace", !.asked = view.offset]
  <1>1. view.offset \in Nat
    BY DEF TypeOK, Views
  <1>2. r \in Requests /\ r.at = "trace" /\ r.asked = view.offset
    BY <1>1, EmptySeq DEF Idle, Requests
  <1>3. poll' = [poll EXCEPT ![p] = r]
    BY DEF Send
  <1> QED BY <1>2, <1>3

LEMMA ReadLiveRequest ==
  ASSUME TypeOK, NEW p \in Polls, ReadLive(p)
  PROVE  \E r \in Requests :
           /\ poll' = [poll EXCEPT ![p] = r]
           /\ poll[p].at = "trace" /\ r.at = "state" /\ r.asked = poll[p].asked
           /\ r.stale = poll[p].stale /\ r.got = Fresh(poll[p].asked)
           /\ r.upto = written * LineBytes
  <1> DEFINE r == [poll[p] EXCEPT !.at = "state", !.got = Fresh(poll[p].asked),
                                  !.upto = written * LineBytes]
  <1>1. poll[p] \in Requests /\ written \in 0..MaxEvents /\ written \in Nat
    BY Constants DEF TypeOK
  <1>2. poll[p].asked \in Nat
    BY <1>1 DEF Requests
  <1>3. Cut(poll[p].asked) \in Nat
    <2>1. poll[p].asked + LineBytes - 1 \in Nat
      BY <1>2, Constants
    <2> QED BY <2>1, Constants, Quotient DEF Cut
  <1>4. Fresh(poll[p].asked) \in Seq(1..MaxEvents)
    BY <1>1, <1>3, RestOfTrace DEF Fresh
  <1>5. written * LineBytes \in Nat
    BY <1>1, Constants
  <1>6. /\ r \in Requests /\ r.at = "state" /\ r.asked = poll[p].asked
        /\ r.stale = poll[p].stale /\ r.got = Fresh(poll[p].asked)
        /\ r.upto = written * LineBytes
    BY <1>1, <1>4, <1>5 DEF Requests
  <1>7. poll[p].at = "trace" /\ poll' = [poll EXCEPT ![p] = r]
    BY <1>1 DEF ReadLive, TypeOK
  <1> QED BY <1>6, <1>7

LEMMA ReadStateRequest ==
  ASSUME TypeOK, NEW p \in Polls, ReadState(p)
  PROVE  \E r \in Requests :
           /\ poll' = [poll EXCEPT ![p] = r]
           /\ poll[p].at = "state" /\ r.at = "live" /\ r.asked = poll[p].asked
           /\ r.stale = poll[p].stale /\ r.got = poll[p].got /\ r.upto = poll[p].upto
  <1>1. PICK d \in BOOLEAN : d = (run = "over")
    OBVIOUS
  <1> DEFINE r == [poll[p] EXCEPT !.at = "live", !.done = d]
  <1>2. poll[p] \in Requests
    BY DEF TypeOK
  <1>3. /\ r \in Requests /\ r.at = "live" /\ r.asked = poll[p].asked
        /\ r.stale = poll[p].stale /\ r.got = poll[p].got /\ r.upto = poll[p].upto
    BY <1>2 DEF Requests
  <1>4. poll[p].at = "state" /\ poll' = [poll EXCEPT ![p] = r]
    BY <1>1, <1>2 DEF ReadState, TypeOK
  <1> QED BY <1>3, <1>4

LEMMA LiveFailsRequest ==
  ASSUME TypeOK, NEW p \in Polls, LiveFails(p)
  PROVE  \E r \in Requests : poll' = [poll EXCEPT ![p] = r] /\ r.at = "copy"
  <1> DEFINE r == [Idle EXCEPT !.at = "copy"]
  <1>1. r \in Requests /\ r.at = "copy"
    BY EmptySeq DEF Idle, Requests
  <1>2. poll' = [poll EXCEPT ![p] = r]
    BY DEF LiveFails
  <1> QED BY <1>1, <1>2

LEMMA ReadCopyRequest ==
  ASSUME TypeOK, NEW p \in Polls, ReadCopy(p)
  PROVE  \E r \in Requests :
           /\ poll' = [poll EXCEPT ![p] = r]
           /\ r.at = "record" /\ r.got = copy /\ r.upto = Len(copy)
  <1> DEFINE r == [poll[p] EXCEPT !.at = "record", !.got = copy, !.upto = Len(copy)]
  <1>1. poll[p] \in Requests /\ copy \in Seq(1..MaxEvents) /\ Len(copy) \in Nat
    BY LenProperties DEF TypeOK
  <1>2. r \in Requests /\ r.at = "record" /\ r.got = copy /\ r.upto = Len(copy)
    BY <1>1 DEF Requests
  <1>3. poll' = [poll EXCEPT ![p] = r]
    BY <1>1 DEF ReadCopy, TypeOK
  <1> QED BY <1>2, <1>3

LEMMA ReadRecordRequest ==
  ASSUME TypeOK, NEW p \in Polls, ReadRecord(p)
  PROVE  /\ nfaults' \in 0..MaxFaults
         /\ \E r \in Requests :
              /\ poll' = [poll EXCEPT ![p] = r]
              /\ poll[p].at = "record" /\ r.at = "whole"
              /\ r.got = poll[p].got /\ r.upto = poll[p].upto
  <1>1. PICK s \in {record, "none"} :
          /\ IF s = record THEN NoFault ELSE Fault("read")
          /\ poll' = [poll EXCEPT ![p].at = "whole", ![p].done = DoneByRecord(s)]
    BY DEF ReadRecord
  <1>2. PICK d \in BOOLEAN : d = DoneByRecord(s)
    <2>1. DoneByRecord(s) = TRUE \/ DoneByRecord(s) = FALSE
      BY DEF DoneByRecord
    <2> QED BY <2>1
  <1> DEFINE r == [poll[p] EXCEPT !.at = "whole", !.done = d]
  <1>3. poll[p] \in Requests
    BY DEF TypeOK
  <1>4. r \in Requests /\ r.at = "whole" /\ r.got = poll[p].got /\ r.upto = poll[p].upto
    BY <1>3 DEF Requests
  <1>5. poll' = [poll EXCEPT ![p] = r]
    BY <1>1, <1>2, <1>3 DEF TypeOK
  <1>6. nfaults' \in 0..MaxFaults
    BY <1>1, FaultType DEF Fault, NoFault
  <1>7. poll[p].at = "record"
    BY DEF ReadRecord
  <1> QED BY <1>4, <1>5, <1>6, <1>7

(* A reply with the copy ends its request and marks those in flight.       *)
LEMMA MarkRequests ==
  ASSUME TypeOK, NEW p \in Polls, ReplaceView(p), NEW q \in Polls
  PROVE  /\ poll'[q] \in Requests
         /\ q = p => poll'[q] = Idle
         /\ q # p => /\ poll'[q].at = poll[q].at /\ poll'[q].asked = poll[q].asked
                     /\ poll'[q].got = poll[q].got /\ poll'[q].upto = poll[q].upto
                     /\ poll[q].at \in {"trace", "state", "live"} => poll'[q].stale = TRUE
  <1>1. poll[q] \in Requests
    BY DEF TypeOK
  <1>2. poll[q].stale \in BOOLEAN
    BY <1>1 DEF Requests
  <1>3. PICK b \in BOOLEAN :
          b = (poll[q].stale \/ poll[q].at \in {"trace", "state", "live"})
    OBVIOUS
  <1>4. poll'[q] = IF q = p THEN Idle ELSE [poll[q] EXCEPT !.stale = b]
    BY <1>3 DEF ReplaceView
  <1>5. CASE q = p
    BY <1>4, <1>5, IdleRequest
  <1>6. CASE q # p
    <2>1. poll'[q] = [poll[q] EXCEPT !.stale = b]
      BY <1>4, <1>6
    <2> QED BY <2>1, <1>1, <1>3, <1>6 DEF Requests
  <1> QED BY <1>5, <1>6

(* The death of the dashboard ends requests.                               *)
LEMMA DropRequests ==
  ASSUME TypeOK, Crash, NEW q \in Polls
  PROVE  poll'[q] = poll[q] \/ poll'[q] = Idle
  BY DEF Crash

LEMMA PageType ==
  ASSUME TypeOK, NEW p \in Polls, Answer(p) \/ Send(p)
  PROVE  TypeOK'
  <1>1. CASE Send(p)
    <2>1. poll' \in [Polls -> Requests]
      BY <1>1, SendRequest, OneRequest
    <2> QED BY <1>1, <2>1 DEF TypeOK, Send
  <1>2. CASE ReadLive(p)
    <2>1. poll' \in [Polls -> Requests]
      BY <1>2, ReadLiveRequest, OneRequest
    <2> QED BY <1>2, <2>1 DEF TypeOK, ReadLive
  <1>3. CASE ReadState(p)
    <2>1. poll' \in [Polls -> Requests]
      BY <1>3, ReadStateRequest, OneRequest
    <2> QED BY <1>3, <2>1 DEF TypeOK, ReadState
  <1>4. CASE AppendToView(p)
    <2>1. poll' \in [Polls -> Requests]
      BY <1>4, IdleRequest, OneRequest DEF AppendToView
    <2>2. view' \in Views /\ overtaken' \in BOOLEAN
      BY <1>4, LiveView
    <2> QED BY <1>4, <2>1, <2>2 DEF TypeOK, AppendToView
  <1>5. CASE LiveFails(p)
    <2>1. poll' \in [Polls -> Requests]
      BY <1>5, LiveFailsRequest, OneRequest
    <2>2. nfaults' \in 0..MaxFaults
      BY <1>5, FaultType DEF LiveFails, Fault, NoFault
    <2> QED BY <1>5, <2>1, <2>2 DEF TypeOK, LiveFails
  <1>6. CASE NoCopy(p)
    <2>1. poll' \in [Polls -> Requests]
      BY <1>6, IdleRequest, OneRequest DEF NoCopy
    <2>2. nfaults' \in 0..MaxFaults
      BY <1>6, FaultType DEF NoCopy, Fault, NoFault
    <2> QED BY <1>6, <2>1, <2>2 DEF TypeOK, NoCopy
  <1>7. CASE ReadCopy(p)
    <2>1. poll' \in [Polls -> Requests]
      BY <1>7, ReadCopyRequest, OneRequest
    <2> QED BY <1>7, <2>1 DEF TypeOK, ReadCopy
  <1>8. CASE ReadRecord(p)
    <2>1. poll' \in [Polls -> Requests] /\ nfaults' \in 0..MaxFaults
      BY <1>8, ReadRecordRequest, OneRequest
    <2> QED BY <1>8, <2>1 DEF TypeOK, ReadRecord
  <1>9. CASE ReplaceView(p)
    <2>1. poll' \in [Polls -> Requests]
      <3>1. \A q \in Polls : poll'[q] \in Requests
        BY <1>9, MarkRequests
      <3>2. poll' = [q \in Polls |-> poll'[q]]
        BY <1>9 DEF ReplaceView
      <3> QED BY <3>1, <3>2
    <2>2. view' \in Views /\ overtaken' = FALSE
      BY <1>9, CopyView
    <2> QED BY <1>9, <2>1, <2>2 DEF TypeOK, ReplaceView
  <1> QED BY <1>1, <1>2, <1>3, <1>4, <1>5, <1>6, <1>7, <1>8, <1>9 DEF Answer

LEMMA NextCases ==
  ASSUME [Next]_vars
  PROVE  \/ vars' = vars \/ WriteEvent \/ RunEnds \/ BoxGone \/ Driver \/ Crash \/ ListAgent
         \/ \E p \in Polls : Answer(p) \/ Send(p)
  BY DEF Next, Timer, AskEvents, SelectAgent

LEMMA TypeStep ==
  ASSUME TypeOK, [Next]_vars
  PROVE  TypeOK'
  <1>1. CASE vars' = vars
    BY <1>1 DEF vars, TypeOK
  <1>2. CASE WriteEvent
    BY <1>2, Constants DEF TypeOK, WriteEvent
  <1>3. CASE RunEnds \/ BoxGone
    BY <1>3 DEF TypeOK, RunEnds, BoxGone
  <1>4. CASE Crash
    <2>1. poll' \in [Polls -> Requests]
      <3>1. \A q \in Polls : poll'[q] \in Requests
        BY <1>4, DropRequests, IdleRequest DEF TypeOK
      <3>2. poll' = [q \in Polls |-> poll'[q]]
        BY <1>4 DEF Crash
      <3> QED BY <3>1, <3>2
    <2> QED BY <1>4, <2>1, EmptySeq DEF TypeOK, Crash, NoFault
  <1>5. CASE ListAgent
    BY <1>5, ListView DEF TypeOK, ListAgent
  <1> QED BY <1>1, <1>2, <1>3, <1>4, <1>5, NextCases, DriverType, PageType

-----------------------------------------------------------------------------
(* The copy, and what may be lost to it.                                   *)

(* Steps that leave the controller and its copy alone.                     *)
Elsewhere == UNCHANGED <<copy, pc, tailed, batch>>

(* Steps of the page.                                                      *)
OfPage == ListAgent \/ \E p \in Polls : Answer(p) \/ Send(p)

LEMMA PageElsewhere ==
  ASSUME vars' = vars \/ WriteEvent \/ RunEnds \/ BoxGone \/ OfPage
  PROVE  Elsewhere
  BY DEF vars, WriteEvent, RunEnds, BoxGone, OfPage, Answer, Send, ListAgent,
         ReadLive, ReadState, AppendToView, LiveFails, NoCopy, ReadCopy, ReadRecord,
         ReplaceView, Elsewhere

LEMMA WrittenGrows ==
  ASSUME TypeOK, [Next]_vars
  PROVE  written' \in Nat /\ written <= written'
  <1>1. written \in Nat
    BY Constants DEF TypeOK
  <1>2. CASE WriteEvent
    BY <1>1, <1>2 DEF WriteEvent
  <1>3. CASE ~WriteEvent
    <2>1. written' = written
      BY <1>3, NextCases
         DEF vars, RunEnds, BoxGone, Driver, Refresh, PublishTrace, AppendEvents,
             PublishAgent, Crash, ListAgent, Answer, Send, ReadLive, ReadState,
             AppendToView, LiveFails, NoCopy, ReadCopy, ReadRecord, ReplaceView
    <2> QED BY <1>1, <2>1
  <1> QED BY <1>2, <1>3

(* What is read next lies beyond all that was read before.                 *)
LEMMA NewBatch ==
  ASSUME TypeOK, Behind, PublishTrace, tailed' = written
  PROVE  /\ \A i \in DOMAIN batch' : batch'[i] > tailed /\ batch'[i] <= written
         /\ Range(batch') \subseteq (tailed + 1)..written
         /\ Len(copy) + Len(batch') <= written
  <1>1. /\ tailed \in Nat /\ written \in 0..MaxEvents /\ tailed <= written
        /\ Len(copy) \in Nat /\ Len(copy) <= tailed
    BY LenProperties, Constants DEF TypeOK, Behind
  <1>2. batch' = SubSeq(Lines(written), tailed + 1, written) \/ batch' = batch
    BY DEF PublishTrace
  <1>3. CASE batch' = SubSeq(Lines(written), tailed + 1, written)
    <2>1. /\ batch' \in Seq(1..MaxEvents) /\ Len(batch') = written - tailed
          /\ \A i \in DOMAIN batch' : batch'[i] = tailed + i /\ batch'[i] <= written
      <3>1. batch' \in Seq(1..MaxEvents) /\ Len(batch') = written - tailed
        BY <1>1, <1>3, RestOfTrace
      <3>2. \A i \in DOMAIN batch' : batch'[i] = tailed + i /\ batch'[i] <= written
        BY <1>1, <1>3, RestOfTrace, SMTT(60)
      <3> QED BY <3>1, <3>2
    <2>2. DOMAIN batch' = 1..Len(batch')
      BY <2>1, LenProperties
    <2>3. \A i \in DOMAIN batch' : batch'[i] > tailed /\ batch'[i] <= written
      BY <1>1, <2>1, <2>2
    <2>4. \A i \in DOMAIN batch' : batch'[i] \in (tailed + 1)..written
      BY <1>1, <2>1, <2>2
    <2>5. Range(batch') \subseteq (tailed + 1)..written
      BY <2>4, Zenon DEF Range
    <2> QED BY <1>1, <2>1, <2>3, <2>5
  <1>4. CASE batch' = batch
    <2>1. batch = <<>>
      BY DEF Behind, PublishTrace
    <2>2. DOMAIN batch' = {} /\ Len(batch') = 0 /\ Range(batch') = {}
      BY <1>4, <2>1, RangeOfEmpty, EmptySeq
    <2> QED BY <1>1, <2>2
  <1> QED BY <1>2, <1>3, <1>4

(* What the trace's next step reads, or leaves unread.                     *)
LEMMA PublishCases ==
  ASSUME PublishTrace
  PROVE  tailed' = written \/ UNCHANGED <<tailed, batch>>
  BY DEF PublishTrace

LEMMA BehindStep ==
  ASSUME TypeOK, Behind, [Next]_vars
  PROVE  Behind'
  <1>0. /\ tailed \in Nat /\ written \in Nat /\ Len(copy) \in Nat /\ Len(batch) \in Nat
        /\ written' \in Nat /\ written <= written'
    BY LenProperties, WrittenGrows, Constants DEF TypeOK
  <1>1. CASE vars' = vars \/ WriteEvent \/ RunEnds \/ BoxGone \/ OfPage
    <2>1. Elsewhere
      BY <1>1, PageElsewhere
    <2> QED BY <2>1, <1>0 DEF Behind, Elsewhere
  <1>2. CASE Refresh \/ PublishAgent
    <2>1. UNCHANGED <<copy, tailed, batch, written>> /\ pc # "append"
      BY <1>2 DEF Refresh, PublishAgent
    <2> QED BY <2>1 DEF Behind
  <1>3. CASE PublishTrace
    <2>1. UNCHANGED <<copy, written>> /\ pc = "tail" /\ (batch' # <<>> => pc' = "append")
      BY <1>3 DEF PublishTrace
    <2>2. CASE tailed' = written
      <3>1. /\ \A i \in DOMAIN batch' : batch'[i] > tailed
            /\ Range(batch') \subseteq (tailed + 1)..written
            /\ Len(copy) + Len(batch') <= written
        BY <1>3, <2>2, NewBatch
      <3>2. Len(copy) <= tailed /\ tailed <= written /\ Range(copy) \subseteq 1..tailed
        BY <1>0 DEF Behind
      <3>3. Range(copy) \subseteq 1..written /\ Range(batch') \subseteq 1..written
        BY <1>0, <3>1, <3>2
      <3>4. \A i \in DOMAIN batch' : batch'[i] > Len(copy)
        <4> TAKE i \in DOMAIN batch'
        <4>1. batch'[i] \in Range(batch')
          BY DEF Range
        <4> QED BY <4>1, <3>1, <3>2, <1>0
      <3> QED BY <2>1, <2>2, <3>1, <3>3, <3>4, <1>0 DEF Behind
    <2>3. CASE UNCHANGED <<tailed, batch>>
      BY <2>1, <2>3 DEF Behind
    <2> QED BY <1>3, <2>2, <2>3, PublishCases
  <1>4. CASE AppendEvents
    <2>1. /\ UNCHANGED <<tailed, written>> /\ batch' = <<>>
          /\ copy' = copy \/ copy' = batch \/ copy' = copy \o batch
      BY <1>4 DEF AppendEvents
    <2>2. Len(copy') \in Nat /\ Len(copy') <= Len(copy) + Len(batch)
      BY <2>1, <1>0, ConcatProperties DEF TypeOK
    <2>3. Range(copy') \subseteq Range(copy) \cup Range(batch)
      <3>1. Range(copy \o batch) = Range(copy) \cup Range(batch)
        BY RangeOfConcat DEF TypeOK
      <3> QED BY <2>1, <3>1
    <2>4. Len(batch') = 0 /\ DOMAIN batch' = {} /\ Range(batch') = {}
      BY <2>1, EmptySeq, RangeOfEmpty
    <2> QED BY <2>1, <2>2, <2>3, <2>4, <1>0 DEF Behind
  <1>5. CASE Crash
    <2>1. UNCHANGED <<copy, tailed, written>> /\ batch' = <<>>
      BY <1>5 DEF Crash
    <2>2. Len(batch') = 0 /\ DOMAIN batch' = {} /\ Range(batch') = {}
      BY <2>1, EmptySeq, RangeOfEmpty
    <2> QED BY <2>1, <2>2, <1>0 DEF Behind
  <1> QED BY <1>1, <1>2, <1>3, <1>4, <1>5, NextCases DEF Driver, OfPage

(* What is lost stays lost.                                                *)
LEMMA LostGrows ==
  ASSUME TypeOK, Behind, [Next]_vars
  PROVE  Lost \subseteq Lost'
  <1>0. tailed \in Nat /\ written \in Nat /\ tailed <= written
    BY Constants DEF TypeOK, Behind
  <1>1. CASE vars' = vars \/ WriteEvent \/ RunEnds \/ BoxGone \/ OfPage
    <2>1. Elsewhere
      BY <1>1, PageElsewhere
    <2> QED BY <2>1 DEF Lost, Elsewhere
  <1>2. CASE Refresh \/ PublishAgent
    <2>1. UNCHANGED <<copy, tailed, batch>>
      BY <1>2 DEF Refresh, PublishAgent
    <2> QED BY <2>1 DEF Lost
  <1>3. CASE PublishTrace
    <2>1. UNCHANGED copy
      BY <1>3 DEF PublishTrace
    <2>2. CASE tailed' = written
      <3>1. Range(batch') \subseteq (tailed + 1)..written
        BY <1>3, <2>2, NewBatch
      <3> QED BY <2>1, <2>2, <3>1, <1>0 DEF Lost
    <2>3. CASE UNCHANGED <<tailed, batch>>
      BY <2>1, <2>3 DEF Lost
    <2> QED BY <1>3, <2>2, <2>3, PublishCases
  <1>4. CASE AppendEvents
    <2>1. /\ UNCHANGED tailed /\ Range(batch') = {}
          /\ copy' = copy \/ copy' = batch \/ copy' = copy \o batch
      BY <1>4, RangeOfEmpty DEF AppendEvents
    <2>2. Range(copy') \subseteq Range(copy) \cup Range(batch)
      <3>1. Range(copy \o batch) = Range(copy) \cup Range(batch)
        BY RangeOfConcat DEF TypeOK
      <3> QED BY <2>1, <3>1
    <2> QED BY <2>1, <2>2 DEF Lost
  <1>5. CASE Crash
    <2>1. UNCHANGED <<copy, tailed>> /\ Range(batch') = {}
      BY <1>5, RangeOfEmpty DEF Crash
    <2> QED BY <2>1 DEF Lost
  <1> QED BY <1>1, <1>2, <1>3, <1>4, <1>5, NextCases DEF Driver, OfPage

(* As many events as the copy has: what it lacks of the first ones is lost.*)
LEMMA CopyLacksTheLost ==
  ASSUME TypeOK, Behind, NEW e \in 1..MaxEvents, e <= Len(copy)
  PROVE  e \in Range(copy) \cup Lost
  <1>1. tailed \in Nat /\ Len(copy) \in Nat /\ Len(batch) \in Nat /\ Len(copy) <= tailed
    BY LenProperties, Constants DEF TypeOK, Behind
  <1>2. e \in 1..tailed
    BY <1>1, Constants
  <1>3. e \notin Range(batch)
    <2>1. \A x \in Range(batch) : x > Len(copy) /\ x \in 1..tailed
      BY DEF Range, Behind
    <2> QED BY <2>1, <1>1, <1>2
  <1> QED BY <1>2, <1>3 DEF Lost

-----------------------------------------------------------------------------
(* The page.                                                               *)

(* A step that keeps a request, what is shown and whether it was overtaken *)
(* keeps what is said of the request.                                      *)
LEMMA KeptReply ==
  ASSUME TypeOK, Behind, Replies, [Next]_vars, NEW q \in Polls, poll'[q] = poll[q],
         view.shown \subseteq view'.shown, overtaken' = FALSE => overtaken = FALSE
  PROVE  LiveReply(poll[q])' /\ CopyReply(poll[q])' /\ StillShown(poll[q])'
  <1>1. Lost \subseteq Lost'
    BY LostGrows
  <1>2. LiveReply(poll[q]) /\ CopyReply(poll[q]) /\ StillShown(poll[q])
    BY DEF Replies
  <1>3. LiveReply(poll[q])'
    BY <1>2 DEF LiveReply
  <1>4. CopyReply(poll[q])'
    BY <1>1, <1>2 DEF CopyReply
  <1>5. StillShown(poll[q])'
    BY <1>1, <1>2 DEF StillShown, ShownTo
  <1> QED BY <1>3, <1>4, <1>5

(* A request that is nowhere yet, or nowhere any more, says nothing.       *)
LEMMA SilentReply ==
  ASSUME NEW q \in Polls, poll'[q].at \in {"idle", "copy"}
  PROVE  LiveReply(poll[q])' /\ CopyReply(poll[q])' /\ StillShown(poll[q])'
  BY DEF LiveReply, CopyReply, StillShown

(* What a step makes of the one request it is about.                       *)
Answered(p) == LiveReply(poll[p])' /\ CopyReply(poll[p])' /\ StillShown(poll[p])'

LEMMA SendReply ==
  ASSUME IInv, NEW p \in Polls, Send(p), [Next]_vars
  PROVE  Answered(p)
  <1> USE DEF IInv
  <1>1. PICK r \in Requests : /\ poll' = [poll EXCEPT ![p] = r]
                              /\ r.at = "trace" /\ r.asked = view.offset
    BY SendRequest
  <1>2. poll'[p] = r
    BY <1>1, OneRequest
  <1>3. view' = view /\ overtaken' = overtaken /\ Lost \subseteq Lost'
    BY LostGrows DEF Send
  <1>4. StillShown(poll[p])'
    BY <1>1, <1>2, <1>3 DEF StillShown, Skipless, ShownTo
  <1>5. LiveReply(poll[p])' /\ CopyReply(poll[p])'
    BY <1>1, <1>2 DEF LiveReply, CopyReply
  <1> QED BY <1>4, <1>5 DEF Answered

LEMMA ReadLiveReply ==
  ASSUME IInv, NEW p \in Polls, ReadLive(p), [Next]_vars
  PROVE  Answered(p)
  <1> USE DEF IInv
  <1>1. PICK r \in Requests :
           /\ poll' = [poll EXCEPT ![p] = r]
           /\ poll[p].at = "trace" /\ r.at = "state" /\ r.asked = poll[p].asked
           /\ r.stale = poll[p].stale /\ r.got = Fresh(poll[p].asked)
           /\ r.upto = written * LineBytes
    BY ReadLiveRequest
  <1>2. poll'[p] = r
    BY <1>1, OneRequest
  <1>3. view' = view /\ overtaken' = overtaken /\ Lost \subseteq Lost'
    BY LostGrows DEF ReadLive
  <1>4. StillShown(poll[p])'
    <2>1. StillShown(poll[p])
      BY DEF Replies
    <2> QED BY <1>1, <1>2, <1>3, <2>1 DEF StillShown, ShownTo
  <1>5. poll[p].asked \in Nat /\ written \in 0..MaxEvents
    BY DEF TypeOK, Requests
  <1>6. ASSUME NEW e \in 1..MaxEvents, Begin(e) < written * LineBytes,
               ~(Begin(e) < poll[p].asked)
        PROVE  e \in Range(Fresh(poll[p].asked))
    <2>1. e <= written /\ written \in Nat
      BY <1>5, <1>6, BeginsWithin, Constants
    <2>2. Cut(poll[p].asked) \in Nat /\ Cut(poll[p].asked) < e
      BY <1>5, <1>6, BeginsBeyondCut
    <2>3. \A x \in 1..MaxEvents : Cut(poll[p].asked) < x /\ x <= written
                                  => x \in Range(Fresh(poll[p].asked))
      BY <1>5, <2>2, RestOfTrace DEF Fresh
    <2> QED BY <2>1, <2>2, <2>3
  <1>7. LiveReply(r)
    BY <1>1, <1>6 DEF LiveReply
  <1>8. LiveReply(poll[p])' /\ CopyReply(poll[p])'
    BY <1>1, <1>2, <1>7 DEF LiveReply, CopyReply
  <1> QED BY <1>4, <1>8 DEF Answered

LEMMA ReadStateReply ==
  ASSUME IInv, NEW p \in Polls, ReadState(p), [Next]_vars
  PROVE  Answered(p)
  <1> USE DEF IInv
  <1>1. PICK r \in Requests :
           /\ poll' = [poll EXCEPT ![p] = r]
           /\ poll[p].at = "state" /\ r.at = "live" /\ r.asked = poll[p].asked
           /\ r.stale = poll[p].stale /\ r.got = poll[p].got /\ r.upto = poll[p].upto
    BY ReadStateRequest
  <1>2. poll'[p] = r
    BY <1>1, OneRequest
  <1>3. view' = view /\ overtaken' = overtaken /\ Lost \subseteq Lost'
    BY LostGrows DEF ReadState
  <1>4. StillShown(poll[p]) /\ LiveReply(poll[p])
    BY DEF Replies
  <1>5. StillShown(poll[p])'
    BY <1>1, <1>2, <1>3, <1>4 DEF StillShown, ShownTo
  <1>6. LiveReply(poll[p])' /\ CopyReply(poll[p])'
    BY <1>1, <1>2, <1>4 DEF LiveReply, CopyReply
  <1> QED BY <1>5, <1>6 DEF Answered

LEMMA ReadCopyReply ==
  ASSUME IInv, NEW p \in Polls, ReadCopy(p), [Next]_vars
  PROVE  Answered(p)
  <1> USE DEF IInv
  <1>1. PICK r \in Requests :
           /\ poll' = [poll EXCEPT ![p] = r]
           /\ r.at = "record" /\ r.got = copy /\ r.upto = Len(copy)
    BY ReadCopyRequest
  <1>2. poll'[p] = r
    BY <1>1, OneRequest
  <1>3. \A e \in 1..MaxEvents : e <= Len(copy) => e \in Range(copy) \cup Lost
    BY CopyLacksTheLost
  <1>4. Lost \subseteq Lost'
    BY LostGrows
  <1>5. CopyReply(poll[p])'
    BY <1>1, <1>2, <1>3, <1>4 DEF CopyReply
  <1>6. LiveReply(poll[p])' /\ StillShown(poll[p])'
    BY <1>1, <1>2 DEF LiveReply, StillShown
  <1> QED BY <1>5, <1>6 DEF Answered

LEMMA ReadRecordReply ==
  ASSUME IInv, NEW p \in Polls, ReadRecord(p), [Next]_vars
  PROVE  Answered(p)
  <1> USE DEF IInv
  <1>1. PICK r \in Requests :
           /\ poll' = [poll EXCEPT ![p] = r]
           /\ poll[p].at = "record" /\ r.at = "whole"
           /\ r.got = poll[p].got /\ r.upto = poll[p].upto
    BY ReadRecordRequest
  <1>2. poll'[p] = r
    BY <1>1, OneRequest
  <1>3. CopyReply(poll[p])
    BY DEF Replies
  <1>4. Lost \subseteq Lost'
    BY LostGrows
  <1>5. CopyReply(poll[p])'
    BY <1>1, <1>2, <1>3, <1>4 DEF CopyReply
  <1>6. LiveReply(poll[p])' /\ StillShown(poll[p])'
    BY <1>1, <1>2 DEF LiveReply, StillShown
  <1> QED BY <1>5, <1>6 DEF Answered

(* A reply with the copy keeps what the others carry.                      *)
LEMMA MarkedReply ==
  ASSUME IInv, NEW p \in Polls, ReplaceView(p), [Next]_vars, NEW q \in Polls
  PROVE  Answered(q)
  <1> USE DEF IInv
  <1>1. CASE q = p
    <2>1. poll'[q].at = "idle"
      BY <1>1, MarkRequests, IdleRequest
    <2> QED BY <2>1, SilentReply DEF Answered
  <1>2. CASE q # p
    <2>1. /\ poll'[q].at = poll[q].at /\ poll'[q].asked = poll[q].asked
          /\ poll'[q].got = poll[q].got /\ poll'[q].upto = poll[q].upto
          /\ poll[q].at \in {"trace", "state", "live"} => poll'[q].stale = TRUE
      BY <1>2, MarkRequests
    <2>2. LiveReply(poll[q]) /\ CopyReply(poll[q]) /\ Lost \subseteq Lost'
      BY LostGrows DEF Replies
    <2>3. LiveReply(poll[q])'
      BY <2>1, <2>2 DEF LiveReply
    <2>4. CopyReply(poll[q])'
      BY <2>1, <2>2 DEF CopyReply
    <2>5. StillShown(poll[q])'
      BY <2>1 DEF StillShown
    <2> QED BY <2>3, <2>4, <2>5 DEF Answered
  <1> QED BY <1>1, <1>2

(* A step of one request, but for a reply with the copy, leaves the others.*)
LEMMA OthersKept ==
  ASSUME IInv, NEW p \in Polls, Answer(p) \/ Send(p), ~ReplaceView(p), [Next]_vars,
         NEW q \in Polls, q # p
  PROVE  Answered(q)
  <1> USE DEF IInv
  <1>1. poll'[q] = poll[q]
    BY DEF TypeOK, Answer, Send, ReadLive, ReadState, AppendToView, LiveFails, NoCopy,
           ReadCopy, ReadRecord
  <1>2. view.shown \subseteq view'.shown /\ (overtaken' = FALSE => overtaken = FALSE)
    <2>1. CASE AppendToView(p)
      BY <2>1, LiveView
    <2>2. CASE ~AppendToView(p)
      <3>1. view' = view /\ overtaken' = overtaken
        BY <2>2 DEF Answer, Send, ReadLive, ReadState, LiveFails, NoCopy, ReadCopy, ReadRecord
      <3> QED BY <3>1
    <2> QED BY <2>1, <2>2
  <1> QED BY <1>1, <1>2, KeptReply DEF Answered

LEMMA OwnReply ==
  ASSUME IInv, NEW p \in Polls, Answer(p) \/ Send(p), [Next]_vars
  PROVE  Answered(p)
  <1> USE DEF IInv
  <1>1. CASE AppendToView(p) \/ NoCopy(p)
    <2>1. poll'[p] = Idle
      BY <1>1, IdleRequest DEF TypeOK, AppendToView, NoCopy
    <2> QED BY <2>1, IdleRequest, SilentReply DEF Answered
  <1>2. CASE LiveFails(p)
    <2>1. poll'[p].at = "copy"
      BY <1>2, LiveFailsRequest, OneRequest
    <2> QED BY <2>1, SilentReply DEF Answered
  <1> QED BY <1>1, <1>2, SendReply, ReadLiveReply, ReadStateReply, ReadCopyReply,
             ReadRecordReply, MarkedReply DEF Answer

LEMMA RepliesStep ==
  ASSUME IInv, [Next]_vars
  PROVE  Replies'
  <1> USE DEF IInv
  <1> SUFFICES ASSUME NEW q \in Polls PROVE Answered(q)
    BY DEF Replies, Answered
  <1>1. CASE UNCHANGED <<poll, view, overtaken>>
    BY <1>1, KeptReply DEF Answered
  <1>2. CASE WriteEvent \/ RunEnds \/ BoxGone \/ Driver \/ vars' = vars
    BY <1>1, <1>2 DEF WriteEvent, RunEnds, BoxGone, Driver, Refresh, PublishTrace,
                      AppendEvents, PublishAgent, vars
  <1>3. CASE ListAgent
    <2>1. view'.shown = view.shown
      BY <1>3, ListView
    <2>2. poll' = poll /\ overtaken' = overtaken
      BY <1>3 DEF ListAgent
    <2> QED BY <2>1, <2>2, KeptReply DEF Answered
  <1>4. CASE Crash
    <2>1. view' = view /\ overtaken' = overtaken
      BY <1>4 DEF Crash
    <2>2. CASE poll'[q] = poll[q]
      BY <2>1, <2>2, KeptReply DEF Answered
    <2>3. CASE poll'[q] = Idle
      BY <2>3, IdleRequest, SilentReply DEF Answered
    <2> QED BY <1>4, <2>2, <2>3, DropRequests
  <1>5. ASSUME NEW p \in Polls, Answer(p) \/ Send(p) PROVE Answered(q)
    BY <1>5, OwnReply, OthersKept, MarkedReply
  <1> QED BY <1>2, <1>3, <1>4, <1>5, NextCases

(* The steps that change what is shown.                                    *)
LEMMA ViewSteps ==
  ASSUME [Next]_vars, TypeOK,
         \A p \in Polls : ~AppendToView(p) /\ ~ReplaceView(p)
  PROVE  /\ view'.shown = view.shown /\ view'.offset = view.offset
         /\ view'.source = view.source /\ overtaken' = overtaken
  <1>1. CASE ListAgent
    BY <1>1, ListView DEF ListAgent
  <1>2. CASE ~ListAgent
    <2>1. view' = view /\ overtaken' = overtaken
      BY <1>2, NextCases
         DEF vars, WriteEvent, RunEnds, BoxGone, Driver, Refresh, PublishTrace,
             AppendEvents, PublishAgent, Crash, Answer, Send, ReadLive, ReadState,
             LiveFails, NoCopy, ReadCopy, ReadRecord
    <2> QED BY <2>1
  <1> QED BY <1>1, <1>2

LEMMA PersistedStep ==
  ASSUME TypeOK, Persisted, [Next]_vars
  PROVE  Persisted'
  <1>1. CASE \E p \in Polls : AppendToView(p)
    <2>1. view'.source = "live"
      BY <1>1, LiveView
    <2> QED BY <2>1 DEF Persisted
  <1>2. CASE \E p \in Polls : ReplaceView(p)
    <2>1. overtaken' = FALSE
      BY <1>2, CopyView
    <2> QED BY <2>1 DEF Persisted
  <1>3. CASE \A p \in Polls : ~AppendToView(p) /\ ~ReplaceView(p)
    BY <1>3, ViewSteps DEF Persisted
  <1> QED BY <1>1, <1>2, <1>3

LEMMA SkiplessStep ==
  ASSUME IInv, [Next]_vars
  PROVE  Skipless'
  <1> USE DEF IInv
  <1>0. Lost \subseteq Lost'
    BY LostGrows
  <1>1. ASSUME NEW p \in Polls, AppendToView(p) PROVE Skipless'
    <2>1. /\ view'.shown = view.shown \cup Range(poll[p].got)
          /\ view'.offset = poll[p].upto
          /\ overtaken' = FALSE => overtaken = FALSE /\ poll[p].stale = FALSE
      BY <1>1, LiveView
    <2>2. LiveReply(poll[p]) /\ StillShown(poll[p]) /\ poll[p].at = "live"
      BY <1>1 DEF AppendToView, Replies
    <2>3. \A e \in 1..MaxEvents :
            Begin(e) < poll[p].upto => Begin(e) < poll[p].asked \/ e \in Range(poll[p].got)
      BY <2>2 DEF LiveReply
    <2>4. overtaken' = FALSE => ShownTo(poll[p].asked)
      BY <2>1, <2>2 DEF StillShown
    <2> QED BY <2>1, <2>3, <2>4, <1>0 DEF Skipless, ShownTo
  <1>2. ASSUME NEW p \in Polls, ReplaceView(p) PROVE Skipless'
    <2>1. /\ \/ view'.shown = Range(poll[p].got)
             \/ /\ view'.shown = view.shown /\ view.source = "persisted"
                /\ Len(poll[p].got) = view.offset
          /\ view'.offset = poll[p].upto
      BY <1>2, CopyView
    <2>2. /\ poll[p].upto = Len(poll[p].got)
          /\ \A e \in 1..MaxEvents :
               e <= Len(poll[p].got) => e \in Range(poll[p].got) \cup Lost
      BY <1>2 DEF ReplaceView, Replies, CopyReply
    <2>3. Len(poll[p].got) \in Nat
      <3>1. poll[p].got \in Seq(1..MaxEvents)
        BY DEF TypeOK, Requests
      <3> QED BY <3>1, LenProperties
    <2>4. CASE view'.shown = Range(poll[p].got)
      <3>1. \A e \in 1..MaxEvents : Begin(e) < Len(poll[p].got) => e <= Len(poll[p].got)
        BY <2>3, BeginsBefore
      <3> QED BY <2>1, <2>2, <2>4, <3>1, <1>0 DEF Skipless, ShownTo
    <2>5. CASE /\ view'.shown = view.shown /\ view.source = "persisted"
               /\ Len(poll[p].got) = view.offset
      <3>1. ShownTo(view.offset) /\ view'.offset = view.offset
        BY <2>1, <2>2, <2>5 DEF Persisted, Skipless
      <3> QED BY <2>5, <3>1, <1>0 DEF Skipless, ShownTo
    <2> QED BY <2>1, <2>4, <2>5
  <1>3. CASE \A p \in Polls : ~AppendToView(p) /\ ~ReplaceView(p)
    BY <1>3, <1>0, ViewSteps DEF Skipless, ShownTo
  <1> QED BY <1>1, <1>2, <1>3

-----------------------------------------------------------------------------
LEMMA NextIInv == IInv /\ [Next]_vars => IInv'
  BY TypeStep, BehindStep, RepliesStep, PersistedStep, SkiplessStep DEF IInv

LEMMA InductiveIInv == Spec => []IInv
  BY InitIInv, NextIInv, PTL DEF Spec

(* Every variable keeps to its type.                                       *)
THEOREM TraceViewTypeCorrect == Spec => []TypeOK
  <1>1. IInv => TypeOK
    BY DEF IInv
  <1> QED BY <1>1, InductiveIInv, PTL

(* However long traces and lines are, however many requests of the page    *)
(* are in flight, in whatever order they are answered and whatever fails:  *)
(* what lies before the offset the page asks from was shown, or is lost to *)
(* the copy, unless a live reply was added to a copy that was shown since  *)
(* it was asked (_events_payload, _publish_trace, pollSelected).           *)
THEOREM NothingIsSkipped == Spec => []NothingSkipped
  <1>1. IInv => NothingSkipped
    BY DEF IInv, TypeOK, Skipless, ShownTo, NothingSkipped, Begin
  <1> QED BY <1>1, InductiveIInv, PTL
=============================================================================
