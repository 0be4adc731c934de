----------------------------- MODULE AgentProxy -----------------------------
(***************************************************************************)
(* How the agent forwards what arrives through its tunnel: the accept loop *)
(* under serveWithContext, and for each connection a goroutine (proxyTCP   *)
(* or proxyUDP) that dials the target, starts a copier for each direction, *)
(* waits for the first of them to end and closes both sockets, which ends  *)
(* the other one.                                                          *)
(*                                                                         *)
(* A chunk is what one read returns.  A UDP "connection" is what a packet  *)
(* listener accepts: the datagrams of one remote address.  They may be     *)
(* lost, and have no end of stream.                                        *)
(***************************************************************************)
EXTENDS Naturals

CONSTANTS
  Conns,    \* the connections that arrive
  Buffer    \* chunks a socket holds that nobody has read

ASSUME ProxyAssumption == Buffer \in Nat \ {0}

VARIABLES
  tunnel,     \* the type of the tunnel, none before it is open
  cancelled,  \* the context is done
  listening,  \* the tunnel accepts connections
  accepter,   \* the goroutine that runs serveTCP or serveUDP
  server,     \* serveWithContext
  proxy,      \* per connection: where proxyTCP or proxyUDP is
  open,       \* per connection: the agent's open sockets
  broken,     \* per connection: the sockets on which operations fail
  unread,     \* per socket: chunks that have arrived
  finished,   \* sockets whose peer has ended its stream
  copier,     \* per socket: the copier that reads it
  done        \* per connection: what the channel done holds

listenVars == <<cancelled, listening, accepter, server>>
streamVars == <<unread, finished, broken>>
connVars == <<proxy, open, copier, done>>
proxyVars == <<tunnel, listenVars, streamVars, connVars>>

-----------------------------------------------------------------------------
Sockets == {"inbound", "outbound"}
Other(socket) == IF socket = "inbound" THEN "outbound" ELSE "inbound"

ProxyInit ==
  /\ tunnel = "none" /\ cancelled = FALSE /\ listening = FALSE
  /\ accepter = "none" /\ server = "none"
  /\ proxy = [c \in Conns |-> "none"]
  /\ open = [c \in Conns |-> {}] /\ broken = [c \in Conns |-> {}]
  /\ unread = [s \in Conns \X Sockets |-> 0]
  /\ finished = {}
  /\ copier = [s \in Conns \X Sockets |-> "none"]
  /\ done = [c \in Conns |-> 0]

\* The tunnel is open and reported, and runOnce starts to serve.
StartServing(type) ==
  /\ server = "none"
  /\ tunnel' = type
  /\ listening' = TRUE /\ accepter' = "accepting" /\ server' = "serving"
  /\ UNCHANGED <<cancelled, streamVars, connVars>>

\* The retry loop opens the tunnel again; connections of before may be left.
Reopen ==
  /\ server = "returned" /\ ~cancelled
  /\ listening' = TRUE /\ accepter' = "accepting" /\ server' = "serving"
  /\ UNCHANGED <<tunnel, cancelled, streamVars, connVars>>

-----------------------------------------------------------------------------
(* The peers, at the other ends of the two sockets, and the engine         *)

Arrive(c) ==
  /\ listening /\ proxy[c] = "none"
  /\ proxy' = [proxy EXCEPT ![c] = "pending"]
  /\ UNCHANGED <<tunnel, listenVars, streamVars, open, copier, done>>

\* A connection that has arrived has a peer; the target is one once it is dialed.
HasPeer(c, s) == IF s = "inbound" THEN proxy[c] \notin {"none", "gone"} ELSE s \in open[c]

Send(c, s) ==
  /\ HasPeer(c, s) /\ <<c, s>> \notin finished /\ unread[<<c, s>>] < Buffer
  /\ unread' = [unread EXCEPT ![<<c, s>>] = @ + 1]
  /\ UNCHANGED <<tunnel, listenVars, finished, broken, connVars>>

Finish(c, s) ==
  /\ tunnel = "bytestream" /\ HasPeer(c, s) /\ <<c, s>> \notin finished
  /\ finished' = finished \cup {<<c, s>>}
  /\ UNCHANGED <<tunnel, listenVars, unread, broken, connVars>>

\* A reset, an ICMP error, a keepalive that expires, a tunnel that is closed.
Break(c, s) ==
  /\ HasPeer(c, s) /\ s \notin broken[c]
  /\ broken' = [broken EXCEPT ![c] = @ \cup {s}]
  /\ UNCHANGED <<tunnel, listenVars, unread, finished, connVars>>

LoseDatagram(c, s) ==
  /\ tunnel = "datagram" /\ unread[<<c, s>>] > 0
  /\ unread' = [unread EXCEPT ![<<c, s>>] = @ - 1]
  /\ UNCHANGED <<tunnel, listenVars, finished, broken, connVars>>

LoseTunnel ==
  /\ listening /\ listening' = FALSE
  /\ UNCHANGED <<tunnel, cancelled, accepter, server, streamVars, connVars>>

Cancel ==
  /\ tunnel # "none" /\ ~cancelled /\ cancelled' = TRUE
  /\ UNCHANGED <<tunnel, listening, accepter, server, streamVars, connVars>>

-----------------------------------------------------------------------------
(* serveWithContext, serveTCP and serveUDP                                 *)

\* The accept loop starts a goroutine for what it accepts.
Accept(c) ==
  /\ accepter = "accepting" /\ proxy[c] = "pending"
  /\ proxy' = [proxy EXCEPT ![c] = "dialing"]
  /\ open' = [open EXCEPT ![c] = {"inbound"}]
  /\ UNCHANGED <<tunnel, listenVars, streamVars, copier, done>>

\* After a timeout it sleeps and tries again.
AcceptTimesOut ==
  /\ accepter = "accepting" /\ listening
  /\ accepter' = "sleeping"
  /\ UNCHANGED <<tunnel, cancelled, listening, server, streamVars, connVars>>

AcceptAgain ==
  /\ accepter = "sleeping"
  /\ accepter' = "accepting"
  /\ UNCHANGED <<tunnel, cancelled, listening, server, streamVars, connVars>>

\* Any other error ends the loop and goes into errCh, which has room for it.
AcceptFails ==
  /\ accepter = "accepting" /\ ~listening
  /\ accepter' = "ended"
  /\ UNCHANGED <<tunnel, cancelled, listening, server, streamVars, connVars>>

\* Mutant: the listener is left to the deferred close of runOnce.
WaitForAccepter ==
  /\ server = "serving" /\ cancelled
  /\ server' = "draining"
  /\ UNCHANGED <<tunnel, cancelled, listening, accepter, streamVars, connVars>>

\* The context is done: serveWithContext closes the listener and waits for errCh.
StopListening ==
  /\ server = "serving" /\ cancelled
  /\ server' = "draining" /\ listening' = FALSE
  /\ UNCHANGED <<tunnel, cancelled, accepter, streamVars, connVars>>

Return ==
  /\ server \in {"serving", "draining"} /\ accepter = "ended"
  /\ server' = "returned"
  /\ UNCHANGED <<tunnel, cancelled, listening, accepter, streamVars, connVars>>

-----------------------------------------------------------------------------
(* proxyTCP and proxyUDP                                                   *)

DialSucceeds(c) ==
  /\ proxy[c] = "dialing"
  /\ proxy' = [proxy EXCEPT ![c] = "waiting"]
  /\ open' = [open EXCEPT ![c] = Sockets]
  /\ copier' = [s \in Conns \X Sockets |-> IF s[1] = c THEN "reading" ELSE copier[s]]
  /\ UNCHANGED <<tunnel, listenVars, streamVars, done>>

DialFails(c) ==
  /\ proxy[c] = "dialing"
  /\ proxy' = [proxy EXCEPT ![c] = "closing"]
  /\ UNCHANGED <<tunnel, listenVars, streamVars, open, copier, done>>

Usable(c, s) == s \in open[c] /\ s \notin broken[c]

Copy(c, s, to) ==
  /\ copier' = [copier EXCEPT ![<<c, s>>] = to]
  /\ UNCHANGED <<tunnel, listenVars, finished, broken, proxy, open, done>>

\* A copier reads a chunk from its socket ...
Read(c, s) ==
  /\ copier[<<c, s>>] = "reading" /\ Usable(c, s) /\ unread[<<c, s>>] > 0
  /\ unread' = [unread EXCEPT ![<<c, s>>] = @ - 1]
  /\ Copy(c, s, "writing")

\* ... until the stream has ended, or the socket fails or was closed ...
ReadEnds(c, s) ==
  /\ copier[<<c, s>>] = "reading"
  /\ ~Usable(c, s) \/ (<<c, s>> \in finished /\ unread[<<c, s>>] = 0)
  /\ Copy(c, s, "signalling")
  /\ UNCHANGED unread

\* ... and writes it to the other one, whose peer may be slow, ...
Write(c, s) ==
  /\ copier[<<c, s>>] = "writing" /\ Usable(c, Other(s))
  /\ Copy(c, s, "reading")
  /\ UNCHANGED unread

\* ... or that fails or was closed.
WriteFails(c, s) ==
  /\ copier[<<c, s>>] = "writing" /\ ~Usable(c, Other(s))
  /\ Copy(c, s, "signalling")
  /\ UNCHANGED unread

\* Mutant: done has no buffer; to send is to meet the receiver.
SignalReceiver(c, s) ==
  /\ copier[<<c, s>>] = "signalling" /\ proxy[c] = "waiting"
  /\ copier' = [copier EXCEPT ![<<c, s>>] = "ended"]
  /\ proxy' = [proxy EXCEPT ![c] = "closing"]
  /\ UNCHANGED <<tunnel, listenVars, streamVars, open, done>>

\* done <- struct{}{}, for which there is room twice
Signal(c, s) ==
  /\ copier[<<c, s>>] = "signalling" /\ done[c] < 2
  /\ copier' = [copier EXCEPT ![<<c, s>>] = "ended"]
  /\ done' = [done EXCEPT ![c] = @ + 1]
  /\ UNCHANGED <<tunnel, listenVars, streamVars, proxy, open>>

\* Mutant: it returns as soon as the copiers are started.
AwaitNothing(c) ==
  /\ proxy[c] = "waiting"
  /\ proxy' = [proxy EXCEPT ![c] = "closing"]
  /\ UNCHANGED <<tunnel, listenVars, streamVars, open, copier, done>>

\* <-done: one copier has ended.
Await(c) ==
  /\ proxy[c] = "waiting" /\ done[c] > 0
  /\ proxy' = [proxy EXCEPT ![c] = "closing"]
  /\ done' = [done EXCEPT ![c] = @ - 1]
  /\ UNCHANGED <<tunnel, listenVars, streamVars, open, copier>>

\* The deferred closes, the last one first
CloseOutbound(c) ==
  /\ proxy[c] = "closing" /\ "outbound" \in open[c]
  /\ open' = [open EXCEPT ![c] = {"inbound"}]
  /\ UNCHANGED <<tunnel, listenVars, streamVars, proxy, copier, done>>

CloseInbound(c) ==
  /\ proxy[c] = "closing" /\ open[c] = {"inbound"}
  /\ open' = [open EXCEPT ![c] = {}]
  /\ proxy' = [proxy EXCEPT ![c] = "gone"]
  /\ UNCHANGED <<tunnel, listenVars, streamVars, copier, done>>

-----------------------------------------------------------------------------
Serving == AcceptTimesOut \/ AcceptAgain \/ AcceptFails \/ StopListening \/ Return

Copying(c, s) ==
  Read(c, s) \/ ReadEnds(c, s) \/ Write(c, s) \/ WriteFails(c, s) \/ Signal(c, s)

Proxying(c) ==
  \/ DialSucceeds(c) \/ DialFails(c)
  \/ Await(c) \/ CloseOutbound(c) \/ CloseInbound(c)

Peers(c, s) == Send(c, s) \/ Finish(c, s) \/ Break(c, s) \/ LoseDatagram(c, s)

Forward ==
  \/ Serving \/ Reopen \/ Cancel \/ LoseTunnel
  \/ \E c \in Conns : \/ Arrive(c) \/ Accept(c) \/ Proxying(c)
                      \/ \E s \in Sockets : Copying(c, s) \/ Peers(c, s)

ProxyNext == Forward \/ \E type \in {"bytestream", "datagram"} : StartServing(type)

ProxySpec == ProxyInit /\ [][ProxyNext]_proxyVars

\* The goroutines run; a dial ends; a call on a socket that fails returns.  A peer
\* need not read: nothing is assumed of Write.
ProxyFairness ==
  /\ WF_proxyVars(AcceptAgain) /\ WF_proxyVars(AcceptFails)
  /\ WF_proxyVars(StopListening) /\ WF_proxyVars(Return)
  /\ \A c \in Conns :
       /\ WF_proxyVars(Accept(c)) /\ WF_proxyVars(Proxying(c))
       /\ \A s \in Sockets : /\ WF_proxyVars(Read(c, s)) /\ WF_proxyVars(ReadEnds(c, s))
                             /\ WF_proxyVars(WriteFails(c, s)) /\ WF_proxyVars(Signal(c, s))

-----------------------------------------------------------------------------
(* Properties                                                              *)

\* Every variable keeps its type.
ProxyTypeOK ==
  /\ tunnel \in {"none", "bytestream", "datagram"}
  /\ cancelled \in BOOLEAN /\ listening \in BOOLEAN
  /\ accepter \in {"none", "accepting", "sleeping", "ended"}
  /\ server \in {"none", "serving", "draining", "returned"}
  /\ proxy \in [Conns -> {"none", "pending", "dialing", "waiting", "closing", "gone"}]
  /\ open \in [Conns -> {{}, {"inbound"}, Sockets}]
  /\ broken \in [Conns -> SUBSET Sockets]
  /\ unread \in [Conns \X Sockets -> 0 .. Buffer]
  /\ finished \subseteq Conns \X Sockets
  /\ copier \in [Conns \X Sockets ->
                   {"none", "reading", "writing", "signalling", "ended"}]
  /\ done \in [Conns -> 0 .. 2]

\* All that a peer sent before it ended its stream was passed on.
Drained(c, s) ==
  <<c, s>> \in finished /\ unread[<<c, s>>] = 0 /\ copier[<<c, s>>] \in {"signalling", "ended"}

\* The agent does not cut a connection: proxyTCP and proxyUDP close the sockets only
\* after one direction was forwarded to its end or a socket failed.
CutsNothing ==
  [][\A c \in Conns : proxy[c] = "waiting" /\ proxy'[c] # "waiting"
       => broken[c] # {} \/ \E s \in Sockets : Drained(c, s)]_proxyVars

\* When one direction ends, both sockets are closed and both copiers end, even if
\* the peer of the other direction does not read: no goroutine is left behind.
ReleasesConnections ==
  \A c \in Conns : \A s \in Sockets :
    copier[<<c, s>>] = "signalling"
      ~> (proxy[c] = "gone" /\ \A t \in Sockets : copier[<<c, t>>] = "ended")

\* Serving ends when the context is done, whether connections are open or not.
StopsServing == cancelled ~> server = "returned"
=============================================================================
