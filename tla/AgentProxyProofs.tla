-------------------------- MODULE AgentProxyProofs --------------------------
(***************************************************************************)
(* Theorems about AgentProxy: its types, and that the agent cuts no        *)
(* connection, for any set of connections and any size of the buffers.     *)
(***************************************************************************)
EXTENDS AgentProxy, TLAPS

\* The invariant of a connection.  Until the copiers start there is nothing in done;
\* while the proxy waits, both sockets are open, whatever is in done was sent by a
\* copier that has ended, and a copier ends only for a reason.
HasReason(c, s) == broken[c] # {} \/ Drained(c, s)

Justified(c) ==
  /\ proxy[c] \in {"none", "pending", "dialing"} =>
       done[c] = 0 /\ \A s \in Sockets : copier[<<c, s>>] = "none"
  /\ proxy[c] = "waiting" =>
       /\ open[c] = Sockets
       /\ done[c] > 0 => \E s \in Sockets : copier[<<c, s>>] = "ended"
       /\ \A s \in Sockets : copier[<<c, s>>] \in {"signalling", "ended"} => HasReason(c, s)

ProxyInv == ProxyTypeOK /\ \A c \in Conns : Justified(c)

-----------------------------------------------------------------------------
\* The types hold at first.
LEMMA InitTypeOK == ASSUME ProxyInit PROVE ProxyTypeOK
<1>1. open \in [Conns -> {{}, {"inbound"}, Sockets}] /\ broken \in [Conns -> SUBSET Sockets]
  BY DEF ProxyInit
<1>2. unread \in [Conns \X Sockets -> 0 .. Buffer] /\ done \in [Conns -> 0 .. 2]
  BY ProxyAssumption DEF ProxyInit
<1>3. finished \subseteq Conns \X Sockets
  BY DEF ProxyInit
<1> QED BY <1>1, <1>2, <1>3 DEF ProxyInit, ProxyTypeOK

\* What serves keeps the types: StartServing, Reopen and the accept loop.
LEMMA ServingTypeOK ==
  ASSUME ProxyTypeOK,
         \/ Serving \/ Reopen \/ Cancel \/ LoseTunnel
         \/ \E type \in {"bytestream", "datagram"} : StartServing(type)
  PROVE  ProxyTypeOK'
  BY ZenonT(60)
  DEF Serving, AcceptTimesOut, AcceptAgain, AcceptFails, StopListening, Return, Reopen,
      Cancel, LoseTunnel, StartServing, ProxyTypeOK, connVars, streamVars

\* So do the peers.
LEMMA PeersTypeOK ==
  ASSUME ProxyTypeOK, NEW c \in Conns, NEW s \in Sockets, Peers(c, s)
  PROVE  ProxyTypeOK'
<1>1. CASE Send(c, s)
  BY <1>1, ProxyAssumption, SMTT(60) DEF Send, ProxyTypeOK, listenVars, connVars
<1>2. CASE Finish(c, s)
  BY <1>2 DEF Finish, ProxyTypeOK, listenVars, connVars
<1>3. CASE Break(c, s)
  BY <1>3 DEF Break, ProxyTypeOK, listenVars, connVars
<1>4. CASE LoseDatagram(c, s)
  BY <1>4, ProxyAssumption, SMTT(60) DEF LoseDatagram, ProxyTypeOK, listenVars, connVars
<1> QED BY <1>1, <1>2, <1>3, <1>4 DEF Peers

\* So do the goroutine of a connection, and its acceptance.
LEMMA ProxyingTypeOK ==
  ASSUME ProxyTypeOK, NEW c \in Conns, Proxying(c) \/ Arrive(c) \/ Accept(c)
  PROVE  ProxyTypeOK'
<1>1. CASE DialSucceeds(c)
  BY <1>1 DEF DialSucceeds, ProxyTypeOK, listenVars, streamVars
<1>2. CASE Await(c)
  BY <1>2 DEF Await, ProxyTypeOK, listenVars, streamVars
<1>3. CASE DialFails(c) \/ CloseOutbound(c) \/ CloseInbound(c) \/ Arrive(c) \/ Accept(c)
  BY <1>3 DEF DialFails, CloseOutbound, CloseInbound, Arrive, Accept, ProxyTypeOK,
              listenVars, streamVars
<1> QED BY <1>1, <1>2, <1>3 DEF Proxying

\* So do the copiers.
LEMMA CopyingTypeOK ==
  ASSUME ProxyTypeOK, NEW c \in Conns, NEW s \in Sockets, Copying(c, s)
  PROVE  ProxyTypeOK'
<1>1. CASE Read(c, s)
  BY <1>1, ProxyAssumption DEF Read, Copy, ProxyTypeOK, listenVars
<1>2. CASE ReadEnds(c, s) \/ Write(c, s) \/ WriteFails(c, s)
  BY <1>2, ZenonT(60) DEF ReadEnds, Write, WriteFails, Copy, ProxyTypeOK, listenVars
<1>3. CASE Signal(c, s)
  BY <1>3, SMTT(60) DEF Signal, ProxyTypeOK, listenVars, streamVars
<1> QED BY <1>1, <1>2, <1>3 DEF Copying

\* Every step keeps the types.
LEMMA NextTypeOK ==
  ASSUME ProxyTypeOK, [ProxyNext]_proxyVars
  PROVE  ProxyTypeOK'
<1>1. CASE UNCHANGED proxyVars
  BY <1>1 DEF ProxyTypeOK, proxyVars, listenVars, streamVars, connVars
<1>2. CASE ProxyNext
  BY <1>2, ServingTypeOK, PeersTypeOK, ProxyingTypeOK, CopyingTypeOK DEF ProxyNext, Forward
<1> QED BY <1>1, <1>2

\* Every reachable state of the proxying is well typed: done never overflows.
THEOREM ProxyTypeCorrect == ProxySpec => []ProxyTypeOK
  BY InitTypeOK, NextTypeOK, PTL DEF ProxySpec

-----------------------------------------------------------------------------
\* The invariant holds at first.
LEMMA InitJustified == ASSUME ProxyInit PROVE \A c \in Conns : Justified(c)
  BY DEF ProxyInit, Justified, Sockets

\* A connection that a step does not touch stays justified.
LEMMA Untouched ==
  ASSUME NEW c \in Conns, Justified(c),
         proxy'[c] = proxy[c], open'[c] = open[c], done'[c] = done[c],
         broken[c] \subseteq broken'[c], finished \subseteq finished',
         \A s \in Sockets : /\ copier'[<<c, s>>] = copier[<<c, s>>]
                            /\ unread[<<c, s>>] = 0 /\ <<c, s>> \in finished
                                 => unread'[<<c, s>>] = 0
  PROVE  Justified(c)'
  BY DEF Justified, HasReason, Drained

\* What serves touches no connection.
LEMMA ServingJustified ==
  ASSUME \A c \in Conns : Justified(c),
         \/ Serving \/ Reopen \/ Cancel \/ LoseTunnel
         \/ \E type \in {"bytestream", "datagram"} : StartServing(type)
  PROVE  \A c \in Conns : Justified(c)'
<1>1. UNCHANGED <<streamVars, connVars>>
  BY DEF Serving, AcceptTimesOut, AcceptAgain, AcceptFails, StopListening, Return, Reopen,
         Cancel, LoseTunnel, StartServing
<1> QED BY <1>1, Untouched DEF streamVars, connVars

\* A peer sends only before the end of its stream, and loses only what is unread.
LEMMA PeersJustified ==
  ASSUME ProxyTypeOK, \A c \in Conns : Justified(c),
         NEW d \in Conns, NEW t \in Sockets, Peers(d, t)
  PROVE  \A c \in Conns : Justified(c)'
<1> SUFFICES ASSUME NEW c \in Conns PROVE Justified(c)'
  OBVIOUS
<1>1. UNCHANGED connVars
  BY DEF Peers, Send, Finish, Break, LoseDatagram
<1>2. broken[c] \subseteq broken'[c] /\ finished \subseteq finished'
  BY DEF Peers, Send, Finish, Break, LoseDatagram, ProxyTypeOK
<1>3. ASSUME NEW s \in Sockets, unread[<<c, s>>] = 0, <<c, s>> \in finished
      PROVE  unread'[<<c, s>>] = 0
  BY <1>3, ProxyAssumption, SMTT(60) DEF Peers, Send, Finish, Break, LoseDatagram, ProxyTypeOK
<1> QED BY <1>1, <1>2, <1>3, Untouched DEF connVars

\* The goroutine of a connection starts to wait with copiers that are reading.
LEMMA ProxyingJustified ==
  ASSUME ProxyTypeOK, \A c \in Conns : Justified(c),
         NEW d \in Conns, Proxying(d) \/ Arrive(d) \/ Accept(d)
  PROVE  \A c \in Conns : Justified(c)'
<1> SUFFICES ASSUME NEW c \in Conns PROVE Justified(c)'
  OBVIOUS
<1>1. UNCHANGED streamVars
  BY DEF Proxying, DialSucceeds, DialFails, Await, CloseOutbound, CloseInbound, Arrive, Accept
<1>2. CASE c # d
  <2>1. /\ proxy'[c] = proxy[c] /\ open'[c] = open[c] /\ done'[c] = done[c]
        /\ \A s \in Sockets : copier'[<<c, s>>] = copier[<<c, s>>]
    BY <1>2 DEF Proxying, DialSucceeds, DialFails, Await, CloseOutbound, CloseInbound,
                Arrive, Accept, ProxyTypeOK
  <2> QED BY <1>1, <2>1, Untouched DEF streamVars
<1>3. CASE c = d /\ (Arrive(d) \/ Accept(d))
  <2>1. /\ proxy'[c] \in {"pending", "dialing"} /\ proxy[c] \in {"none", "pending"}
        /\ UNCHANGED <<done, copier>>
    BY <1>3 DEF Arrive, Accept, ProxyTypeOK
  <2> QED BY <2>1 DEF Justified
<1>4. CASE c = d /\ DialSucceeds(d)
  <2>1. /\ proxy[c] = "dialing" /\ proxy'[c] = "waiting" /\ open'[c] = Sockets
        /\ UNCHANGED done
        /\ \A s \in Sockets : copier'[<<c, s>>] = "reading"
    BY <1>4 DEF DialSucceeds, ProxyTypeOK
  <2> QED BY <2>1 DEF Justified
<1>5. CASE c = d /\ (DialFails(d) \/ Await(d) \/ CloseOutbound(d) \/ CloseInbound(d))
  <2>1. proxy'[c] \in {"closing", "gone"}
    BY <1>5 DEF DialFails, Await, CloseOutbound, CloseInbound, ProxyTypeOK
  <2> QED BY <2>1 DEF Justified
<1> QED BY <1>2, <1>3, <1>4, <1>5 DEF Proxying

\* A copier ends because a socket that nobody closed fails, or at the end of its stream.
LEMMA CopyingJustified ==
  ASSUME ProxyTypeOK, \A c \in Conns : Justified(c),
         NEW d \in Conns, NEW t \in Sockets, Copying(d, t)
  PROVE  \A c \in Conns : Justified(c)'
<1> SUFFICES ASSUME NEW c \in Conns PROVE Justified(c)'
  OBVIOUS
<1>1. UNCHANGED <<proxy, open, broken, finished>>
  BY DEF Copying, Read, ReadEnds, Write, WriteFails, Signal, Copy, streamVars
<1>2. CASE c # d
  <2>1. /\ done'[c] = done[c]
        /\ \A s \in Sockets : /\ copier'[<<c, s>>] = copier[<<c, s>>]
                               /\ unread'[<<c, s>>] = unread[<<c, s>>]
    BY <1>2 DEF Copying, Read, ReadEnds, Write, WriteFails, Signal, Copy, streamVars,
                ProxyTypeOK
  <2> QED BY <1>1, <2>1, Untouched
<1>3. CASE c = d
  <2> DEFINE Moved(to) == copier' = [copier EXCEPT ![<<c, t>>] = to]
  <2>1. copier[<<c, t>>] # "none" /\ proxy[c] \notin {"none", "pending", "dialing"}
    BY <1>3 DEF Copying, Read, ReadEnds, Write, WriteFails, Signal, Justified
  <2>2. SUFFICES ASSUME proxy[c] = "waiting" PROVE Justified(c)'
    BY <1>1, <2>1 DEF Justified
  <2>3. open[c] = Sockets
    BY <2>2 DEF Justified
  <2>4. CASE Read(c, t) \/ Write(c, t)
    <3>1. copier[<<c, t>>] \notin {"signalling", "ended"}
      BY <2>4 DEF Read, Write
    <3>2. /\ Moved("writing") \/ Moved("reading")
          /\ UNCHANGED done
          /\ \A s \in Sockets : s # t => unread'[<<c, s>>] = unread[<<c, s>>]
      BY <2>4 DEF Read, Write, Copy, ProxyTypeOK
    <3>3. /\ copier'[<<c, t>>] \notin {"signalling", "ended"}
          /\ \A s \in Sockets : s # t => copier'[<<c, s>>] = copier[<<c, s>>]
      BY <3>2 DEF ProxyTypeOK
    <3>4. done'[c] > 0 => \E s \in Sockets : copier'[<<c, s>>] = "ended"
      BY <2>2, <3>1, <3>2, <3>3 DEF Justified
    <3>5. ASSUME NEW s \in Sockets, copier'[<<c, s>>] \in {"signalling", "ended"}
          PROVE  HasReason(c, s)'
      <4>1. s # t /\ HasReason(c, s)
        BY <2>2, <3>3, <3>5 DEF Justified
      <4> QED BY <1>1, <3>2, <3>3, <4>1 DEF HasReason, Drained
    <3> QED BY <1>1, <2>2, <2>3, <3>4, <3>5 DEF Justified
  <2>5. CASE ReadEnds(c, t) \/ WriteFails(c, t)
    <3>1. /\ copier[<<c, t>>] \notin {"signalling", "ended"}
          /\ Moved("signalling") /\ UNCHANGED <<done, unread>>
          /\ broken[c] # {} \/ (<<c, t>> \in finished /\ unread[<<c, t>>] = 0)
      BY <2>3, <2>5 DEF ReadEnds, WriteFails, Copy, Usable, Other, Sockets
    <3>2. /\ copier'[<<c, t>>] = "signalling"
          /\ \A s \in Sockets : s # t => copier'[<<c, s>>] = copier[<<c, s>>]
      BY <3>1 DEF ProxyTypeOK
    <3> QED BY <1>1, <2>2, <3>1, <3>2 DEF Justified, HasReason, Drained
  <2>6. CASE Signal(c, t)
    <3>1. /\ copier[<<c, t>>] = "signalling" /\ Moved("ended") /\ UNCHANGED unread
      BY <2>6 DEF Signal, streamVars
    <3>2. /\ copier'[<<c, t>>] = "ended"
          /\ \A s \in Sockets : s # t => copier'[<<c, s>>] = copier[<<c, s>>]
      BY <3>1 DEF ProxyTypeOK
    <3> QED BY <1>1, <2>2, <3>1, <3>2 DEF Justified, HasReason, Drained
  <2> QED BY <1>3, <2>4, <2>5, <2>6 DEF Copying
<1> QED BY <1>2, <1>3

\* The invariant is inductive.
LEMMA NextProxyInv ==
  ASSUME ProxyInv, [ProxyNext]_proxyVars
  PROVE  ProxyInv'
<1>1. CASE UNCHANGED proxyVars
  <2>1. UNCHANGED <<proxy, open, done, broken, finished, copier, unread>>
    BY <1>1 DEF proxyVars, streamVars, connVars
  <2> QED BY <2>1, NextTypeOK, Untouched DEF ProxyInv
<1>2. CASE ProxyNext
  <2>1. \A c \in Conns : Justified(c)'
    BY <1>2, ServingJustified, PeersJustified, ProxyingJustified, CopyingJustified
       DEF ProxyInv, ProxyNext, Forward
  <2> QED BY <2>1, NextTypeOK DEF ProxyInv
<1> QED BY <1>1, <1>2

\* Only Await ends the wait of a proxy, and there is a reason in done.
LEMMA WaitEndsWithReason ==
  ASSUME ProxyInv, ProxyNext, NEW c \in Conns, proxy[c] = "waiting", proxy'[c] # "waiting"
  PROVE  \E s \in Sockets : HasReason(c, s)
<1>1. Await(c)
  <2>1. ASSUME NEW d \in Conns, Proxying(d) \/ Arrive(d) \/ Accept(d)
        PROVE  Await(c)
    BY <2>1 DEF Proxying, DialSucceeds, DialFails, Await, CloseOutbound, CloseInbound, Arrive,
                Accept, ProxyInv, ProxyTypeOK
  <2>2. ASSUME NEW d \in Conns, NEW s \in Sockets, Copying(d, s) \/ Peers(d, s)
        PROVE  UNCHANGED proxy
    BY <2>2 DEF Copying, Read, ReadEnds, Write, WriteFails, Signal, Copy, Peers, Send, Finish,
                Break, LoseDatagram, connVars
  <2>3. ASSUME \/ Serving \/ Reopen \/ Cancel \/ LoseTunnel
               \/ \E type \in {"bytestream", "datagram"} : StartServing(type)
        PROVE  UNCHANGED proxy
    BY <2>3 DEF Serving, AcceptTimesOut, AcceptAgain, AcceptFails, StopListening, Return,
                Reopen, Cancel, LoseTunnel, StartServing, connVars
  <2> QED BY <2>1, <2>2, <2>3 DEF ProxyNext, Forward
<1> QED BY <1>1 DEF Await, ProxyInv, Justified

\* The agent does not cut a connection of which both sockets work and neither stream
\* has been forwarded to its end.
THEOREM CutsNoConnection == ProxySpec => CutsNothing
<1>1. ProxyInit => ProxyInv
  BY InitTypeOK, InitJustified DEF ProxyInv
<1>2. ProxyInv /\ [ProxyNext]_proxyVars => ProxyInv'
  BY NextProxyInv
<1>3. ProxyInv /\ [ProxyNext]_proxyVars =>
        [\A c \in Conns : proxy[c] = "waiting" /\ proxy'[c] # "waiting"
           => broken[c] # {} \/ \E s \in Sockets : Drained(c, s)]_proxyVars
  BY WaitEndsWithReason DEF HasReason
<1> QED BY <1>1, <1>2, <1>3, PTL DEF ProxySpec, CutsNothing
=============================================================================
