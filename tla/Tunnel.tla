-------------------------------- MODULE Tunnel --------------------------------
(***************************************************************************)
(* One connection through the network helpers of a sandbox: the egress     *)
(* broker's forward proxy and its model proxy (net/egress.py), the HTTP    *)
(* and SOCKS listeners of the relay (net/relay.py), and the loopback proxy *)
(* of the dsh harness (harness/_dsh_auth_proxy.py), all over the stream    *)
(* plumbing and the upstream proxy client of net/proxy.py.                 *)
(*                                                                         *)
(* A connection has two ends, client and remote, and two directions, up    *)
(* and down; a direction is a number of chunks and an end of file.  What   *)
(* is listened for, asked and answered is fixed at the start or chosen     *)
(* freely; the bytes are not modelled.  Names that most modules have carry *)
(* the tunnel's name, so that HarnessProofs extends this module and others.*)
(***************************************************************************)
EXTENDS Naturals, Sequences

CONSTANTS
    Listeners,    \* of the five
    Proxies,      \* upstream proxies: none, http, socks5, socks5h
    Answers,      \* what the name service may say: sequences of addresses
    Chunks,       \* bound on what one end sends
    Faults, MaxTroubles

Kinds   == {"forward", "model", "relay_http", "relay_socks", "auth"}

(* An address by where it leads; one of the IPv6 transition addresses has  *)
(* an IPv4 address inside.                                                 *)
Address == [outer : {"global", "local", "metadata"}, inner : {"none"}]
           \cup [outer : {"mapped", "6to4"}, inner : {"global", "local"}]
Nowhere == [outer |-> "none", inner |-> "none"]

ASSUME TunnelAssumption ==
    /\ Listeners \subseteq Kinds
    /\ Proxies \subseteq {"none", "http", "socks5", "socks5h"}
    /\ Answers \subseteq Seq(Address)
    /\ Chunks \in Nat /\ MaxTroubles \in Nat
    /\ Faults \subseteq {"unreachable", "refuse", "shut", "flood", "slow", "reset", "stall"}

VARIABLES
    listener, proxy,  \* who listens, and the upstream proxy it has
    ask,        \* the request: its method, host, whether the policy's lists allow it, and
                \* what is odd about it: a port over 65535, or a name that has no encoding
    dns,        \* what the name service says now
    checked,    \* the address the policy has let through
    dialled,    \* where the connection goes
    stage, hs,  \* the handler, and its exchange with the upstream proxy
    uopen,      \* the handler's own socket to the remote end is open
    reply,      \* what the handler has told the client, or owes it
    put, eof,   \* each direction: chunks its source has sent, and its end of file
    pulled, got,  \* chunks the pipe has read, chunks the destination has
    pipes, why, \* the pipe's state, and what ended it
    told,       \* the destination has seen the end of file
    gone,       \* ends that have reset the connection
    stalled,    \* directions whose destination does not read
    troubles

fixed      == <<listener, proxy, ask>>
handler    == <<checked, dialled, stage, hs, uopen, reply>>
flow       == <<put, eof, pulled, got, pipes, why, told>>
ends       == <<gone, stalled>>
tunnelVars == <<fixed, dns, handler, flow, ends, troubles>>

Dirs   == {"up", "down"}
Src(d) == IF d = "up" THEN "client" ELSE "remote"
Dst(d) == IF d = "up" THEN "remote" ELSE "client"
Trouble(f) == f \in Faults /\ troubles < MaxTroubles /\ troubles' = troubles + 1

Requests == [method : {"CONNECT", "absolute"}, host : {"name", "literal", "model"},
             literal : Address, listed : BOOLEAN, odd : {"no", "port", "name"}]

(* Who looks a name up here: the policy, and the client of a socks5 proxy. *)
LooksUp == ask.host = "name" /\ (listener = "forward" \/ proxy = "socks5")

TunnelInit ==
    /\ listener \in Listeners /\ proxy \in Proxies
    /\ listener \in {"relay_http", "relay_socks"} => proxy # "none"
    /\ listener \in {"model", "auth"} => proxy = "none"
    /\ ask \in Requests
    /\ listener \in {"model", "auth"} =>
          ask.method = "absolute" /\ ask.host = "model" /\ ask.listed
    /\ listener = "relay_socks" => ask.method = "CONNECT"
    /\ listener # "forward" => ask.listed
    /\ ask.odd = "port" => listener = "relay_http" \/ (listener = "forward" /\ ~ask.listed)
    /\ ask.odd = "name" => ask.host = "name"
    /\ ask.host # "literal" => ask.literal = [outer |-> "global", inner |-> "none"]
    /\ dns \in IF LooksUp THEN Answers ELSE {<<>>}
    /\ checked = Nowhere /\ dialled = Nowhere
    /\ stage = "head" /\ hs = "none" /\ uopen = FALSE /\ reply = "none"
    /\ put = [d \in Dirs |-> 0] /\ eof = [d \in Dirs |-> FALSE]
    /\ pulled = put /\ got = put
    /\ pipes = [d \in Dirs |-> "off"] /\ why = [d \in Dirs |-> "none"]
    /\ told = [d \in Dirs |-> FALSE]
    /\ gone = {} /\ stalled = {} /\ troubles = 0

-----------------------------------------------------------------------------
(* The head of the request.                                                *)

Refuse(answer) ==
    /\ stage' = "closed" /\ reply' = answer
    /\ UNCHANGED <<checked, dialled, hs, uopen>>

(* From here on the client waits for an answer.                            *)
Accept == stage' = "dial" /\ reply' = "owed" /\ UNCHANGED <<dialled, hs, uopen>>

(* read_request_head, or the SOCKS greeting and request: nothing came, or  *)
(* something that is no request (SOCKS: 5.7 to a command it has not).      *)
NoHead ==
    /\ stage = "head"
    /\ \E answer \in {"none", "400"} : Refuse(answer)
    /\ UNCHANGED <<fixed, dns, flow, ends, troubles>>

(* address_is_public.                                                      *)
Public(a) ==
    \/ a.outer = "global"
    \/ a.outer \in {"mapped", "6to4"} /\ a.inner = "global"

(* Policy.resolve: ports and hosts on the lists, a literal that is public, *)
(* or the first public address of the name; one that cannot be looked up   *)
(* at all is a bad request.                                                *)
Allowed(a) ==
    /\ ask.listed /\ ask.odd # "name"
    /\ Public(a)
    /\ IF ask.host = "literal" THEN a = ask.literal
       ELSE \E i \in DOMAIN dns : a = dns[i] /\ \A j \in 1..(i - 1) : ~Public(dns[j])

Resolve ==
    /\ stage = "head" /\ listener = "forward"
    /\ \/ \E a \in Address : Allowed(a) /\ checked' = a /\ Accept
       \/ /\ \A a \in Address : ~Allowed(a)
          /\ Refuse(IF ask.listed /\ ask.odd = "name" THEN "400" ELSE "403")
    /\ UNCHANGED <<fixed, dns, flow, ends, troubles>>

(* The relay refuses the model's host and checks nothing else; the model   *)
(* proxy and dsh's know where they go.                                     *)
AcceptHead ==
    /\ stage = "head" /\ listener # "forward"
    /\ IF ask.host = "model" /\ listener \in {"relay_http", "relay_socks"}
       THEN Refuse("403")
       ELSE Accept /\ UNCHANGED checked
    /\ UNCHANGED <<fixed, dns, flow, ends, troubles>>

DnsChanges ==
    /\ stage \in {"head", "dial", "shake"} /\ LooksUp
    /\ dns' \in Answers /\ dns' # dns
    /\ UNCHANGED <<fixed, handler, flow, ends, troubles>>

-----------------------------------------------------------------------------
(* The connection to the remote end, direct or through the upstream proxy. *)

(* The address a socket is opened to, or the proxy is asked for: the       *)
(* checked one, a literal, or a name, which socks5 looks up here and the   *)
(* other proxies on their side.                                            *)
(* (mutant: the forward proxy connects to the name it has checked)         *)
DestinationByName ==
    IF ask.host = "literal" THEN ask.literal ELSE IF dns # <<>> THEN Head(dns) ELSE Nowhere

Destination ==
    IF listener = "forward" THEN checked
    ELSE IF ask.host = "literal" THEN ask.literal
    ELSE IF proxy = "socks5" /\ dns # <<>> THEN Head(dns) ELSE Nowhere

Dial ==
    /\ stage = "dial"
    /\ uopen' = TRUE
    /\ IF proxy = "none"
       THEN dialled' = Destination /\ stage' = "reply" /\ UNCHANGED hs
       ELSE stage' = "shake" /\ hs' = (IF proxy = "http" THEN "request" ELSE "greet")
            /\ UNCHANGED dialled
    /\ UNCHANGED <<fixed, dns, checked, reply, flow, ends, troubles>>

(* No connection, within the timeout or at all.  The model proxy takes a   *)
(* certificate that does not match for a bad request: the error is also a  *)
(* ValueError.                                                             *)
DialFails ==
    /\ stage = "dial" /\ (Trouble("unreachable") \/ Trouble("slow"))
    /\ \E answer \in IF listener = "model" THEN {"400", "502"} ELSE {"502"} : Refuse(answer)
    /\ UNCHANGED <<fixed, dns, flow, ends>>

(* socks5 looks the name up here, and finds no address.                    *)
Unresolved == proxy = "socks5" /\ Destination = Nowhere /\ ask.odd # "name"

(* What the exchange cannot put into bytes: a port for which SOCKS has two *)
(* of them, or a name, to be looked up here or written in a CONNECT.       *)
Unsendable ==
    \/ ask.odd = "port" /\ proxy \in {"socks5", "socks5h"} /\ ~Unresolved
    \/ ask.odd = "name" /\ (proxy = "socks5" \/ (proxy = "http" /\ listener = "relay_socks"))

(* SOCKS: greeting, perhaps user and password, request; HTTP: the request. *)
Shake ==
    /\ stage = "shake"
    /\ \/ hs = "greet" /\ hs' \in {"userpass", "request"} /\ UNCHANGED <<dialled, stage>>
       \/ hs = "userpass" /\ hs' = "request" /\ UNCHANGED <<dialled, stage>>
       \/ hs = "request" /\ ~Unresolved /\ ~Unsendable
          /\ hs' = "done" /\ dialled' = Destination /\ stage' = "reply"
    /\ UNCHANGED <<fixed, dns, checked, uopen, reply, flow, ends, troubles>>

(* What open_connection does when the exchange raises: its writer is       *)
(* closed.                                                                 *)
(* (mutant: only the handlers' finally clauses close)                      *)
LeaveUpstream == UNCHANGED uopen

CloseUpstream == uopen' = FALSE

(* The proxy refuses, resets or says nothing in time, or a name has no     *)
(* address: 502.  A name that has no encoding is a ValueError, which the   *)
(* SOCKS listener does not answer.  Nobody answers the OverflowError of a  *)
(* port, the IncompleteReadError of a proxy that hangs up, and the         *)
(* LimitOverrunError of one whose answer to a CONNECT has no end.          *)
(* (mutant: ProxyError is missing from an except clause)                   *)
RefusalEscapes ==
    /\ stage = "shake" /\ Trouble("refuse") /\ hs' = "failed"
    /\ CloseUpstream
    /\ stage' = "closed"
    /\ UNCHANGED <<fixed, dns, checked, dialled, reply, flow, ends>>

ShakeFails ==
    /\ stage = "shake"
    /\ \/ (Trouble("refuse") \/ Trouble("slow")) /\ reply' = "502" /\ hs' = "failed"
       \/ hs = "request" /\ Unresolved /\ reply' = "502" /\ hs' = "failed" /\ UNCHANGED troubles
       \/ /\ hs = "request" /\ Unsendable
          /\ reply' = (IF ask.odd = "name" /\ listener # "relay_socks" THEN "400" ELSE reply)
          /\ hs' = "unsendable" /\ UNCHANGED troubles
       \/ Trouble("shut") /\ hs' = "shut" /\ UNCHANGED reply
       \/ hs = "request" /\ proxy = "http" /\ Trouble("flood") /\ hs' = "flood" /\ UNCHANGED reply
    /\ CloseUpstream
    /\ stage' = "closed"
    /\ UNCHANGED <<fixed, dns, checked, dialled, flow, ends>>

(* CONNECT is answered, any other request is written to the remote end; an *)
(* end that is gone makes drain raise, before the try that closes the      *)
(* upstream writer, except in handle_socks and the model proxy.            *)
Peer == IF ask.method = "CONNECT" THEN "client" ELSE "remote"
Piped == IF listener = "auth" THEN [up |-> "done", down |-> "reading"]
           ELSE [d \in Dirs |-> "reading"]

Reply ==
    /\ stage = "reply" /\ Peer \notin gone
    /\ reply' = (IF ask.method = "CONNECT" THEN "200" ELSE "forwarded")
    /\ stage' = "splice" /\ pipes' = Piped
    /\ UNCHANGED <<fixed, dns, checked, dialled, hs, uopen, put, eof, pulled, got, why, told,
                   ends, troubles>>

ReplyFails ==
    /\ stage = "reply" /\ Peer \in gone
    /\ stage' = "closed"
    /\ uopen' = (listener \in {"forward", "relay_http"})
    /\ reply' = (IF listener \in {"model", "auth"} THEN "502" ELSE reply)
    /\ UNCHANGED <<fixed, dns, checked, dialled, hs, flow, ends, troubles>>

-----------------------------------------------------------------------------
(* pipe, once in each direction.                                           *)

Piping(d, step) == stage = "splice" /\ pipes[d] = step
Pending(d) == pulled[d] < put[d]

(* write_eof, which a TLS connection (the model's) does not have.          *)
HalfClose(d) == told' = [told EXCEPT ![d] = ~(d = "up" /\ listener = "model")]

PipeEnds(d, reason) ==
    /\ pipes' = [pipes EXCEPT ![d] = "done"]
    /\ why' = [why EXCEPT ![d] = reason]
    /\ HalfClose(d)

ReadChunk(d) ==
    /\ Piping(d, "reading") /\ Pending(d) /\ Src(d) \notin gone
    /\ pulled' = [pulled EXCEPT ![d] = @ + 1]
    /\ pipes' = [pipes EXCEPT ![d] = "writing"]
    /\ UNCHANGED <<fixed, dns, handler, put, eof, got, why, told, ends, troubles>>

(* The end of file, or the loss of the source.                             *)
ReadEnd(d) ==
    /\ Piping(d, "reading")
    /\ \/ Src(d) \in gone /\ PipeEnds(d, "error")
       \/ Src(d) \notin gone /\ ~Pending(d) /\ eof[d] /\ PipeEnds(d, "eof")
    /\ UNCHANGED <<fixed, dns, handler, put, eof, pulled, got, ends, troubles>>

(* Nothing to read for IDLE_TIMEOUT_SECONDS (dsh's proxy: 7200).           *)
(* (mutant: no timeout on the read)                                        *)
ReadForEver(d) == FALSE /\ UNCHANGED tunnelVars

ReadIdle(d) ==
    /\ Piping(d, "reading") /\ ~Pending(d) /\ ~eof[d] /\ Src(d) \notin gone
    /\ PipeEnds(d, "idle")
    /\ UNCHANGED <<fixed, dns, handler, put, eof, pulled, got, ends, troubles>>

(* write and drain, which has no timeout.                                  *)
WriteChunk(d) ==
    /\ Piping(d, "writing")
    /\ IF Dst(d) \in gone THEN PipeEnds(d, "error") /\ UNCHANGED got
       ELSE /\ d \notin stalled
            /\ got' = [got EXCEPT ![d] = @ + 1]
            /\ pipes' = [pipes EXCEPT ![d] = "reading"]
            /\ UNCHANGED <<why, told>>
    /\ UNCHANGED <<fixed, dns, handler, put, eof, pulled, ends, troubles>>

(* splice gathers both.                                                    *)
(* (mutant: wait for the first of the two)                                 *)
OneDone == \E d \in Dirs : pipes[d] = "done"

BothDone == \A d \in Dirs : pipes[d] = "done"

(* The finally clauses.  dsh's proxy answers a failure of the remote end   *)
(* in the middle of a response with a second status line.                  *)
CloseTunnel ==
    /\ stage = "splice" /\ BothDone
    /\ stage' = "closed" /\ uopen' = FALSE
    /\ reply' = (IF listener = "auth" /\ why["down"] \in {"error", "idle"} /\ "client" \notin gone
                 THEN "second" ELSE reply)
    /\ UNCHANGED <<fixed, dns, checked, dialled, hs, flow, ends, troubles>>

-----------------------------------------------------------------------------
(* The two ends.                                                           *)

Connected(p) == p \notin gone /\ IF p = "client" THEN stage # "closed" ELSE uopen

SendChunk(d) ==
    /\ stage = "splice" /\ Connected(Src(d)) /\ ~eof[d] /\ put[d] < Chunks
    /\ listener = "auth" => d = "down"
    /\ put' = [put EXCEPT ![d] = @ + 1]
    /\ UNCHANGED <<fixed, dns, handler, eof, pulled, got, pipes, why, told, ends, troubles>>

SendEof(d) ==
    /\ stage = "splice" /\ Connected(Src(d)) /\ ~eof[d]
    /\ listener = "auth" => d = "down"
    /\ eof' = [eof EXCEPT ![d] = TRUE]
    /\ UNCHANGED <<fixed, dns, handler, put, pulled, got, pipes, why, told, ends, troubles>>

Reset(p) ==
    /\ \/ stage \in {"reply", "splice"}
       \/ p = "client" /\ stage \in {"dial", "shake"}
    /\ Connected(p) /\ Trouble("reset")
    /\ gone' = gone \cup {p}
    /\ UNCHANGED <<fixed, dns, handler, flow, stalled>>

Stall(d) ==
    /\ stage = "splice" /\ d \notin stalled /\ Trouble("stall")
    /\ stalled' = stalled \cup {d}
    /\ UNCHANGED <<fixed, dns, handler, flow, gone>>

-----------------------------------------------------------------------------
HandlerStep == NoHead \/ Resolve \/ AcceptHead \/ Dial \/ Shake \/ ShakeFails \/ Reply
               \/ ReplyFails \/ CloseTunnel
PipeStep(d) == ReadChunk(d) \/ ReadEnd(d) \/ ReadIdle(d) \/ WriteChunk(d)

TunnelNext ==
    \/ HandlerStep \/ DialFails \/ DnsChanges
    \/ \E d \in Dirs : PipeStep(d) \/ SendChunk(d) \/ SendEof(d) \/ Stall(d)
    \/ \E p \in {"client", "remote"} : Reset(p)

TunnelSpec == TunnelInit /\ [][TunnelNext]_tunnelVars

(* The event loop runs what can run, and time passes.  The two ends owe    *)
(* nothing.                                                                *)
TunnelFairSpec == TunnelSpec /\ WF_tunnelVars(HandlerStep) /\ \A d \in Dirs : WF_tunnelVars(PipeStep(d))

-----------------------------------------------------------------------------
TunnelTypeOK ==
    /\ listener \in Listeners /\ proxy \in Proxies /\ ask \in Requests /\ dns \in Answers \cup {<<>>}
    /\ checked \in Address \cup {Nowhere} /\ dialled \in Address \cup {Nowhere}
    /\ stage \in {"head", "dial", "shake", "reply", "splice", "closed"}
    /\ hs \in {"none", "greet", "userpass", "request", "done", "failed", "unsendable", "shut", "flood"}
    /\ uopen \in BOOLEAN
    /\ reply \in {"none", "owed", "400", "403", "502", "200", "forwarded", "second"}
    /\ put \in [Dirs -> 0..Chunks] /\ pulled \in [Dirs -> 0..Chunks] /\ got \in [Dirs -> 0..Chunks]
    /\ eof \in [Dirs -> BOOLEAN] /\ told \in [Dirs -> BOOLEAN]
    /\ pipes \in [Dirs -> {"off", "reading", "writing", "done"}]
    /\ why \in [Dirs -> {"none", "eof", "error", "idle"}]
    /\ gone \subseteq {"client", "remote"} /\ stalled \subseteq Dirs
    /\ troubles \in 0..MaxTroubles

(* The broker connects, or has the upstream proxy connect, to the very     *)
(* address the policy let through, and that address leads, with whatever   *)
(* is inside it, to the public internet, however the name's answer changes *)
(* in between (policy.py:111-116, egress.py:71-85).                        *)
DialsWhatItChecked ==
    listener = "forward" /\ dialled # Nowhere =>
        /\ dialled = checked
        /\ (IF dialled.inner = "none" THEN dialled.outer ELSE dialled.inner) = "global"

(* A handler that has ended has closed its socket to the remote end, also  *)
(* when the exchange with the upstream proxy failed half way.  The one     *)
(* exception is an end lost between the connection and the try that        *)
(* splices: egress.py:103 and :133, relay.py:104 and :132 raise before it. *)
NoUpstreamLeft ==
    stage = "closed" /\ uopen =>
        listener \in {"forward", "relay_http"} /\ Peer \in gone /\ pipes["up"] = "off"

(* A client whose request was understood is told what came of it, once,    *)
(* whichever of the five it asked.  No answer only if an HTTP or SOCKS     *)
(* proxy lost, at that moment, the end it writes to; if the upstream proxy *)
(* hung up or answered without end in the exchange (proxy.py:125, :138);   *)
(* if the port is over 65535 (:148), which only the relay's HTTP listener  *)
(* lets through; or if the SOCKS listener is given a name that cannot be   *)
(* encoded (:124, :191).  A second answer comes only from dsh's proxy      *)
(* (_dsh_auth_proxy.py:86-94), in the middle of a response that broke off. *)
Answered ==
    stage = "closed" =>
        /\ reply = "owed" =>
              \/ Peer \in gone /\ listener \notin {"model", "auth"}
              \/ hs \in {"shut", "flood"} /\ proxy # "none"
              \/ hs = "unsendable" /\ (ask.odd = "port" \/ listener = "relay_socks")
        /\ reply = "second" => listener = "auth" /\ why["down"] # "eof"

Undisturbed(d) == gone = {} /\ stalled = {} /\ why[d] # "idle"

(* What an end sent before its end of file reaches the other, and then the *)
(* end of file does too (not over TLS), whatever becomes of the other      *)
(* direction, unless an end is lost, stops reading or has been idle too    *)
(* long (pipe and splice, proxy.py:391-419).                               *)
DirectionCompletes ==
    \A d \in Dirs :
        stage = "splice" /\ eof[d] ~>
            \/ got[d] = put[d] /\ (told[d] \/ (d = "up" /\ listener = "model"))
            \/ ~Undisturbed(d)

(* A tunnel does not outlive its use: it is closed when both ends are      *)
(* done, lost or silent, unless an end stops reading, which drain waits    *)
(* for without a timeout (proxy.py:400).                                   *)
TunnelEnds == stage = "splice" ~> stage = "closed" \/ stalled # {}
=============================================================================
