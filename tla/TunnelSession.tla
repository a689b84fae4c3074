---------------------------- MODULE TunnelSession ----------------------------
(***************************************************************************)
(* One agent connection carried by the egress tunnel: the sidecar's half   *)
(* (internal/sidecar/client.go, session.go, proxy.go), the broker's half   *)
(* (internal/broker/broker.go, session.go, tunnelconn.go, resumer.go), the *)
(* tunnel connections between them (internal/tunnel) and, as environment,  *)
(* the agent, the destination and the platform that suspends and resumes   *)
(* the actor.                                                              *)
(*                                                                         *)
(* Every action is one critical section, or a run of statements that no    *)
(* other goroutine can observe half-done.  Where a goroutine releases its  *)
(* mutex with work still to do, the rest is an action of its own; the set  *)
(* Preempt names the places where another goroutine may run in between.    *)
(*                                                                         *)
(* The k-th byte the agent writes is <<0, k>>; the k-th byte the i-th      *)
(* upstream connection yields is <<i, k>>.                                 *)
(***************************************************************************)
EXTENDS ReplayBuffer, FiniteSets

CONSTANTS
    ReqLen, RespLen,   \* bytes of one request, of one response
    Rounds,            \* requests the agent sends on the connection
    Housekeeping,      \* bytes the destination sends after the last response
    UpCap, DownCap,    \* SessionBuffer, SessionBufferBytes
    ReadMax,           \* the 32 KiB buffers handed to Read
    MaxPayload,        \* tunnel.MaxPayload, the bound on one DATA frame
    MaxTunnels,        \* tunnel connections alive at once
    MaxDials,          \* sessions the broker creates for this connection
    MaxFaults,         \* suspends and connection failures
    DialFails,         \* the destination may refuse the connection
    ServerCloses,      \* the destination may close at any time
    AgentCloses,       \* the agent may close before it has its responses
    PoliteSuspend,     \* suspends come when the agent is blocked and attached
    LongWatchdog,      \* MaxSuspendWatchdog outlasts any running reconnect
    Preempt            \* places where another goroutine may run

PreemptionPoints ==
    { "open",          \* OpenSession: session registered, OPEN not sent
      "reattach",      \* connectOnce: conn published, ATTACH not sent
      "writeUp",       \* writeUp: bytes retained, DATA not sent
      "deliverDown",   \* deliverDown: bytes with the agent, ACK not sent
      "onAttachOK",    \* onAttachOK: replay copied, DATA not sent
      "onAttach",      \* onSidecarAttach: snapshot taken, frames not sent
      "onData",        \* onData: upstream written, upstreamWritten not moved
      "dial",          \* dialUpstream: connected, preConn not flushed
      "serveTunnel" }  \* a frame loop held up (by the upstream write of any
                       \* session) past the sidecar's reconnect

ASSUME LengthsAssumption ==
    /\ {ReqLen, RespLen, Rounds, UpCap, DownCap, ReadMax, MaxPayload} \subseteq Nat \ {0}
    /\ {Housekeeping, MaxFaults} \subseteq Nat
    /\ ReadMax <= MaxPayload

ASSUME BoundsAssumption ==
    /\ {MaxTunnels, MaxDials} \subseteq Nat \ {0}
    /\ {DialFails, ServerCloses, AgentCloses, PoliteSuspend, LongWatchdog} \subseteq BOOLEAN
    /\ Preempt \subseteq PreemptionPoints

VARIABLES
    actor,       \* "running" or "suspended", as the platform sees it
    wake,        \* the resumer has a ResumeActor call in flight
    faults,      \* suspends and connection failures so far
    loop,        \* Client.Run: "down", "attach" (in connectOnce), "read" (in readLoop)
    conn,        \* Client.conn, 0 when nil
    cs,          \* the sidecar's clientSession
    agentGot,    \* bytes written to the agent's connection
    agentOpen,   \* the agent still reads its connection
    wout,        \* frame the proxy's goroutine is about to send
    rout,        \* frame the readLoop goroutine is about to send
    link,        \* tunnel connections: "up", "cut" (the two ends disagree) or "ended"
    upq, downq,  \* frames in flight on each, sidecar to broker and back
    pend,        \* the handler each broker frame loop is in the middle of
    bs,          \* every session object the broker created
    cur,         \* the one in Broker.sessions, 0 when there is none
    srv          \* the destination's end of each upstream connection

envVars     == <<actor, wake, faults>>
sidecarVars == <<loop, conn, cs, agentGot, agentOpen, wout, rout>>
brokerVars  == <<pend, bs, cur, srv>>
vars        == <<envVars, sidecarVars, link, upq, downq, brokerVars>>

Tunnels == 1 .. MaxTunnels
Dials   == 1 .. MaxDials
Byte    == Nat \X Nat

-----------------------------------------------------------------------------
(* internal/tunnel/wire.go.  HELLO, PING and PONG carry nothing a session  *)
(* reads: HELLO is part of connecting, and what missed PINGs and PONGs     *)
(* cause is Break, Disconnect and TunnelEnd.  LOST is the CLOSE of a       *)
(* session that could not be dialed or no longer exists; GARBLED is what   *)
(* decodeFrame rejects.                                                    *)
FrameType == {"OPEN", "ATTACH", "ATTACH_OK", "DATA", "ACK", "CLOSE", "LOST", "GARBLED"}

Frame == [type : FrameType, off : Nat, data : Seq(Byte)]

Ctl(type, off) == [type |-> type, off |-> off, data |-> <<>>]
Data(off, p)   == [type |-> "DATA", off |-> off, data |-> p]

(* encodeFrame refuses a DATA frame above MaxPayload after it has put the  *)
(* header in the write buffer; the next frame, at the latest a PING or a   *)
(* PONG, flushes the torn header and decodeFrame fails on what follows.    *)
Oversize(f)  == Len(f.data) > MaxPayload
OnWire(f)    == IF Oversize(f) THEN Ctl("GARBLED", 0) ELSE f

(* WriteFrame on a connection the peer no longer reads: the bytes vanish.  *)
WriteFrame(q, t, f) ==
    IF t # 0 /\ link[t] = "up" THEN [q EXCEPT ![t] = Append(@, OnWire(f))] ELSE q

(* Mutant of Fresh: a replayed frame is taken whole.                       *)
FreshNoDedup(off, p, want) == IF want < off THEN <<>> ELSE p

(* Mutant of Fresh: a frame beyond a gap is taken.                         *)
FreshTakesGap(off, p, want) == IF want < off THEN p ELSE SubSeq(p, want - off + 1, Len(p))

(* onData, deliverDown: the part of a DATA frame not seen before; nothing  *)
(* when the frame is a duplicate or leaves a gap.                          *)
Fresh(off, p, want) ==
    IF want < off THEN <<>> ELSE SubSeq(p, want - off + 1, Len(p))

-----------------------------------------------------------------------------
(* The state of each half.                                                 *)
NewClientSession ==
    [st |-> "none", upBuf |-> NewReplayBuffer, downDelivered |-> 0,
     upClosed |-> FALSE, downClosed |-> FALSE]

(* dial: "none" (no such session yet), "dialing", "flushing" (connected,   *)
(* preConn still to be written), "reading" (readUpstreamLoop runs), "done" *)
NewSession(t) ==
    [dial |-> IF t = 0 THEN "none" ELSE "dialing", tconn |-> t,
     preConn |-> <<>>, downBuf |-> NewReplayBuffer, upstreamWritten |-> 0,
     requestOutstanding |-> FALSE, upClosed |-> FALSE, downClosed |-> FALSE,
     watchdog |-> FALSE]

NewServerConn == [got |-> <<>>, sent |-> 0, eof |-> FALSE, fin |-> FALSE]

Handler == [op : {"onData", "onAttach"}, i : Dials, off : Nat, written : Nat,
            data : Seq(Byte), close : BOOLEAN]

Init ==
    /\ actor = "running" /\ wake = FALSE /\ faults = 0
    /\ loop = "down" /\ conn = 0
    /\ cs = NewClientSession
    /\ agentGot = <<>> /\ agentOpen = TRUE
    /\ wout = <<>> /\ rout = <<>>
    /\ link = [t \in Tunnels |-> "ended"]
    /\ upq = [t \in Tunnels |-> <<>>]
    /\ downq = [t \in Tunnels |-> <<>>]
    /\ pend = [t \in Tunnels |-> <<>>]
    /\ bs = [i \in Dials |-> NewSession(0)]
    /\ cur = 0
    /\ srv = [i \in Dials |-> NewServerConn]

Created   == {i \in Dials : bs[i].dial # "none"}
Connected(s) == s.dial \notin {"none", "dialing"}

(* A closed preemption point is one where the goroutine runs on.           *)
MidWay(p) ==
    CASE p = "open"        -> cs.st = "opening"
      [] p = "reattach"    -> loop = "attach"
      [] p = "writeUp"     -> wout # <<>>
      [] p = "deliverDown" -> rout # <<>> /\ rout[1].type = "ACK"
      [] p = "onAttachOK"  -> rout # <<>> /\ rout[1].type = "DATA"
      [] p = "onAttach"    -> \E t \in Tunnels : pend[t] # <<>> /\ pend[t][1].op = "onAttach"
      [] p = "onData"      -> \E t \in Tunnels : pend[t] # <<>> /\ pend[t][1].op = "onData"
      [] p = "dial"        -> cur # 0 /\ bs[cur].dial = "flushing"
      [] p = "serveTunnel" -> FALSE

LoopsDrained == \A t \in Tunnels : link[t] = "cut" => pend[t] = <<>> /\ upq[t] = <<>>

Settled == \A p \in PreemptionPoints \ Preempt : ~MidWay(p)

-----------------------------------------------------------------------------
(* The sidecar.                                                            *)
Running == actor = "running"

(* Client.send                                                             *)
Send(f) == upq' = WriteFrame(upq, conn, f)

(* Proxy.handle accepted an agent connection; OpenSession registers it ... *)
OpenSession ==
    /\ Settled /\ Running /\ cs.st = "none"
    /\ cs' = [cs EXCEPT !.st = "opening"]
    /\ UNCHANGED <<envVars, loop, conn, agentGot, agentOpen, wout, rout,
                   link, upq, downq, brokerVars>>

(* ... and sends OPEN.                                                     *)
SendOpen ==
    /\ Running /\ cs.st = "opening"
    /\ cs' = [cs EXCEPT !.st = "open"]
    /\ Send(Ctl("OPEN", 0))
    /\ UNCHANGED <<envVars, loop, conn, agentGot, agentOpen, wout, rout,
                   link, downq, brokerVars>>

(* The agent (external) sends the next request once it has the whole       *)
(* response to the last one.                                               *)
Responses   == Len(agentGot) \div RespLen
AgentToSend == (IF Responses < Rounds THEN Responses + 1 ELSE Rounds) * ReqLen - End(cs.upBuf)

AgentBytes(from, n) == [k \in 1 .. n |-> <<0, from + k>>]

(* One turn of writeUp's loop: retain what fits, then send it.  With no    *)
(* free space the goroutine waits for an ACK.  The end of the other        *)
(* direction (onClose) does not stop it.                                   *)
WriteUp(n) ==
    /\ Settled /\ Running /\ cs.st = "open" /\ wout = <<>>
    /\ agentOpen /\ ~cs.upClosed
    /\ n <= AgentToSend /\ n <= ReadMax /\ n <= Free(cs.upBuf, UpCap)
    /\ LET off == End(cs.upBuf)
           chunk == AgentBytes(off, n)
       IN /\ cs' = [cs EXCEPT !.upBuf = AppendTo(@, chunk)]
          /\ wout' = <<Data(off, chunk)>>
    /\ UNCHANGED <<envVars, loop, conn, agentGot, agentOpen, rout,
                   link, upq, downq, brokerVars>>

WriteUpSend ==
    /\ Running /\ wout # <<>>
    /\ Send(wout[1]) /\ wout' = <<>>
    /\ UNCHANGED <<envVars, loop, conn, cs, agentGot, agentOpen, rout,
                   link, downq, brokerVars>>

(* The agent closes its connection, or only the sending half of it, or the *)
(* sidecar closed it (closeAll); the proxy's goroutine reads EOF or an     *)
(* error and calls closeUp.                                                *)
CloseUp(half) ==
    /\ Settled /\ Running /\ cs.st \in {"open", "gone"} /\ wout = <<>> /\ ~cs.upClosed
    /\ \/ cs.st = "gone" \/ cs.downClosed \/ AgentCloses
       \/ Responses >= Rounds
    /\ cs' = [cs EXCEPT !.upClosed = TRUE]
    /\ agentOpen' = (agentOpen /\ half)
    /\ Send(Ctl("CLOSE", 0))
    /\ UNCHANGED <<envVars, loop, conn, agentGot, wout, rout,
                   link, downq, brokerVars>>

(* connectOnce up to the publication of conn; live is the session if there *)
(* is one.  The number of an ended connection names the next one.          *)
Connect(t) ==
    /\ Settled /\ Running /\ loop = "down"
    /\ "serveTunnel" \in Preempt \/ LoopsDrained
    /\ link[t] = "ended" /\ \A u \in 1 .. t - 1 : link[u] # "ended"
    /\ link' = [link EXCEPT ![t] = "up"]
    /\ upq' = [upq EXCEPT ![t] = <<>>]
    /\ downq' = [downq EXCEPT ![t] = <<>>]
    /\ conn' = t
    /\ loop' = IF cs.st \in {"opening", "open"} THEN "attach" ELSE "read"
    /\ UNCHANGED <<envVars, cs, agentGot, agentOpen, wout, rout, brokerVars>>

(* connectOnce: the ATTACH of the live session, on the connection made.    *)
Reattach ==
    /\ Running /\ loop = "attach"
    /\ Send(Ctl("ATTACH", cs.downDelivered))
    /\ loop' = "read"
    /\ UNCHANGED <<envVars, conn, cs, agentGot, agentOpen, wout, rout,
                   link, downq, brokerVars>>

(* readLoop takes the next frame of the current connection.                *)
Receive(type) ==
    /\ Settled /\ Running /\ loop = "read" /\ rout = <<>>
    /\ downq[conn] # <<>> /\ Head(downq[conn]).type = type
    /\ downq' = [downq EXCEPT ![conn] = Tail(@)]

SessionKnown == cs.st \in {"opening", "open"}

(* onUpstreamAck                                                           *)
RecvAck ==
    /\ Receive("ACK")
    /\ cs' = IF SessionKnown
             THEN [cs EXCEPT !.upBuf = TrimTo(@, Head(downq[conn]).off)] ELSE cs
    /\ UNCHANGED <<envVars, loop, conn, agentGot, agentOpen, wout, rout,
                   link, upq, brokerVars>>

(* onAttachOK: trim, copy what the broker has not written, send it later.  *)
RecvAttachOK ==
    /\ Receive("ATTACH_OK")
    /\ LET off == Head(downq[conn]).off
           b   == TrimTo(cs.upBuf, off)
           p   == IF FromOK(b, off) THEN From(b, off) ELSE <<>>
       IN /\ cs' = IF SessionKnown THEN [cs EXCEPT !.upBuf = b] ELSE cs
          /\ rout' = IF SessionKnown /\ p # <<>> THEN <<Data(off, p)>> ELSE <<>>
    /\ UNCHANGED <<envVars, loop, conn, agentGot, agentOpen, wout,
                   link, upq, brokerVars>>

(* deliverDown.  Writing fails once the agent's half is shut (CloseWrite   *)
(* after CLOSE), and may fail once the agent has closed: closeAll.         *)
RecvData(ok) ==
    /\ Receive("DATA")
    /\ LET f == Head(downq[conn])
           p == Fresh(f.off, f.data, cs.downDelivered)
       IN IF ~SessionKnown \/ p = <<>>
          THEN ok /\ UNCHANGED <<cs, agentGot, agentOpen, rout>>
          ELSE IF ok
          THEN /\ ~cs.downClosed
               /\ agentGot' = agentGot \o p
               /\ cs' = [cs EXCEPT !.downDelivered = @ + Len(p)]
               /\ rout' = <<Ctl("ACK", cs.downDelivered + Len(p))>>
               /\ UNCHANGED agentOpen
          ELSE /\ cs.downClosed \/ ~agentOpen
               /\ cs' = [cs EXCEPT !.st = "gone"]
               /\ agentOpen' = FALSE
               /\ UNCHANGED <<agentGot, rout>>
    /\ UNCHANGED <<envVars, loop, conn, wout, link, upq, brokerVars>>

(* onClose: half-close the agent's connection so that it reads EOF.        *)
RecvClose ==
    /\ \E type \in {"CLOSE", "LOST"} : Receive(type)
    /\ cs' = IF SessionKnown THEN [cs EXCEPT !.downClosed = TRUE] ELSE cs
    /\ UNCHANGED <<envVars, loop, conn, agentGot, agentOpen, wout, rout,
                   link, upq, brokerVars>>

(* The ACK of deliverDown, the replay of onAttachOK.                       *)
ReadLoopSend ==
    /\ Running /\ rout # <<>>
    /\ Send(rout[1]) /\ rout' = <<>>
    /\ UNCHANGED <<envVars, loop, conn, cs, agentGot, agentOpen, wout,
                   link, downq, brokerVars>>

(* Mutant of Disconnect: conn is not reset when readLoop returns.          *)
DisconnectKeepsConn ==
    /\ Settled /\ Running /\ loop = "read" /\ rout = <<>>
    /\ link[conn] # "up"
    /\ loop' = "down"
    /\ UNCHANGED <<envVars, conn, cs, agentGot, agentOpen, wout, rout, link,
                   upq, downq, brokerVars>>

(* ReadFrame failed: the connection is dead, pingLoop closed it, or the    *)
(* frame did not decode.  connectOnce drops conn and Run tries again.      *)
Disconnect ==
    /\ Settled /\ Running /\ loop = "read" /\ rout = <<>>
    /\ \/ link[conn] # "up"
       \/ downq[conn] # <<>> /\ Head(downq[conn]).type = "GARBLED"
    /\ loop' = "down" /\ conn' = 0
    /\ link' = [link EXCEPT ![conn] = IF @ = "up" THEN "cut" ELSE @]
    /\ downq' = [downq EXCEPT ![conn] = <<>>]
    /\ UNCHANGED <<envVars, cs, agentGot, agentOpen, wout, rout,
                   upq, brokerVars>>

-----------------------------------------------------------------------------
(* The broker.  A handler is a composition of steps on what it may change: *)
(* the sessions s, the map entry cur, the frames to the sidecar q, and the *)
(* wake-up request w.                                                      *)
Broker == [s |-> bs, cur |-> cur, q |-> downq, w |-> wake]

Commit(B) == bs' = B.s /\ cur' = B.cur /\ downq' = B.q /\ wake' = B.w

(* Broker.wake / resumer.resume: one call per actor is in flight           *)
Wake(B) == [B EXCEPT !.w = TRUE]

(* Mutant of Detach: no wake-up for what is already buffered.              *)
DetachNoWake(B, i, t) ==
    IF B.s[i].tconn # t THEN B ELSE [B EXCEPT !.s[i].tconn = 0]

Detach(B, i, t) ==
    LET s == B.s[i]
        C == [B EXCEPT !.s[i].tconn = 0]
    IN IF s.tconn # t THEN B
       ELSE IF s.requestOutstanding /\ (BufLen(s.downBuf) > 0 \/ s.downClosed)
       THEN Wake(C) ELSE C

(* A write to a connection the peer has left may still succeed.            *)
WriteOutcomes(t) == IF t # 0 /\ link[t] # "up" THEN BOOLEAN ELSE {TRUE}

SendToSidecar(B, i, f, ok) ==
    LET t == B.s[i].tconn
        C == [B EXCEPT !.q = WriteFrame(@, t, f)]
    IN IF t = 0 THEN B
       ELSE IF ok /\ ~Oversize(f) THEN C ELSE Detach(C, i, t)

Destroy(B, i) ==
    [B EXCEPT !.cur = IF @ = i THEN 0 ELSE @, !.s[i].watchdog = FALSE]

MaybeDestroy(B, i) ==
    LET s == B.s[i]
    IN IF s.upClosed /\ s.downClosed /\ BufLen(s.downBuf) = 0
       THEN Destroy(B, i) ELSE B

(* Mutant of CloseUpstream: a close wakes the actor, request or not.       *)
CloseUpstreamAlwaysWakes(B, i, ok) ==
    LET s == B.s[i]
        C == [B EXCEPT !.s[i].downClosed = TRUE]
    IN IF s.downClosed THEN B
       ELSE IF s.tconn # 0
       THEN MaybeDestroy(SendToSidecar(C, i, Ctl("CLOSE", 0), ok), i)
       ELSE MaybeDestroy(Wake(C), i)

CloseUpstream(B, i, ok) ==
    LET s == B.s[i]
        C == [B EXCEPT !.s[i].downClosed = TRUE]
    IN IF s.downClosed THEN B
       ELSE IF s.tconn # 0
       THEN MaybeDestroy(SendToSidecar(C, i, Ctl("CLOSE", 0), ok), i)
       ELSE MaybeDestroy(IF s.requestOutstanding THEN Wake(C) ELSE C, i)

Bind(B, i, t) == [B EXCEPT !.s[i].tconn = t]

(* newSession, the map entry and bind; dialUpstream then runs on its own.  *)
NextDial == Cardinality(Created) + 1
Create(B, t) == [B EXCEPT !.s[NextDial] = NewSession(t), !.cur = NextDial]

(* onSidecarAttach up to its Unlock: what it goes on to send.              *)
AttachHandler(s, i, off) ==
    LET p == IF FromOK(s.downBuf, off) THEN From(s.downBuf, off) ELSE <<>>
    IN [op |-> "onAttach", i |-> i, off |-> off, written |-> s.upstreamWritten,
        data |-> p,
        close |-> s.downClosed /\ End(s.downBuf) = off + Len(p)]

(* serveTunnel takes the next frame of tunnel t.                           *)
Serve(t, type) ==
    /\ Settled
    /\ pend[t] = <<>> /\ upq[t] # <<>> /\ Head(upq[t]).type = type
    /\ upq' = [upq EXCEPT ![t] = Tail(@)]

(* openSession: a duplicate OPEN attaches at zero.                         *)
HandleOpen(t) ==
    /\ Serve(t, "OPEN")
    /\ IF cur # 0
       THEN /\ Commit(Bind(Broker, cur, t))
            /\ pend' = [pend EXCEPT ![t] = <<AttachHandler(bs[cur], cur, 0)>>]
       ELSE /\ NextDial \in Dials
            /\ Commit(Create(Broker, t))
            /\ UNCHANGED pend
    /\ UNCHANGED <<actor, faults, sidecarVars, link, srv>>

(* Mutant of HandleAttach: recreates a session whatever was delivered.     *)
HandleAttachAnyOffset(t) ==
    /\ Serve(t, "ATTACH")
    /\ IF cur # 0
       THEN /\ Commit(Bind(Broker, cur, t))
            /\ pend' = [pend EXCEPT ![t] =
                          <<AttachHandler(bs[cur], cur, Head(upq[t]).off)>>]
       ELSE /\ NextDial \in Dials
            /\ Commit(Create(Broker, t))
            /\ pend' = [pend EXCEPT ![t] =
                          <<AttachHandler(NewSession(t), NextDial, 0)>>]
    /\ UNCHANGED <<actor, faults, sidecarVars, link, srv>>

(* Mutant of HandleAttach: recreates without sending ATTACH_OK.            *)
HandleAttachSilent(t) ==
    /\ Serve(t, "ATTACH")
    /\ LET off == Head(upq[t]).off
       IN IF cur # 0
          THEN /\ Commit(Bind(Broker, cur, t))
               /\ pend' = [pend EXCEPT ![t] = <<AttachHandler(bs[cur], cur, off)>>]
          ELSE /\ off = 0 /\ NextDial \in Dials
               /\ Commit(Create(Broker, t))
               /\ UNCHANGED pend
    /\ UNCHANGED <<actor, faults, sidecarVars, link, srv>>

(* attachSession: bind and replay; a session the broker does not have is   *)
(* recreated when nothing was delivered, refused otherwise.                *)
HandleAttach(t) ==
    /\ Serve(t, "ATTACH")
    /\ LET off == Head(upq[t]).off
       IN IF cur # 0
          THEN /\ Commit(Bind(Broker, cur, t))
               /\ pend' = [pend EXCEPT ![t] = <<AttachHandler(bs[cur], cur, off)>>]
          ELSE IF off = 0
          THEN /\ NextDial \in Dials
               /\ Commit(Create(Broker, t))
               /\ pend' = [pend EXCEPT ![t] =
                             <<AttachHandler(NewSession(t), NextDial, 0)>>]
          ELSE /\ Commit([Broker EXCEPT !.q = WriteFrame(@, t, Ctl("LOST", 0))])
               /\ UNCHANGED pend
    /\ UNCHANGED <<actor, faults, sidecarVars, link, srv>>

(* Mutant of FinishAttach: CLOSE goes out ahead of the replay.             *)
FinishAttachCloseFirst(t, ok) ==
    /\ pend[t] # <<>> /\ pend[t][1].op = "onAttach"
    /\ LET h == pend[t][1]
           B1 == SendToSidecar(Broker, h.i, Ctl("ATTACH_OK", h.written), ok)
           B2 == IF h.close THEN SendToSidecar(B1, h.i, Ctl("CLOSE", 0), ok) ELSE B1
           B3 == IF h.data = <<>> THEN B2
                 ELSE SendToSidecar(B2, h.i, Data(h.off, h.data), ok)
       IN ok \in WriteOutcomes(bs[h.i].tconn) /\ Commit(B3)
    /\ pend' = [pend EXCEPT ![t] = <<>>]
    /\ UNCHANGED <<actor, faults, sidecarVars, link, upq, srv>>

(* onSidecarAttach after its Unlock: three sends to whatever tunnel is     *)
(* bound by then.                                                          *)
FinishAttach(t, ok) ==
    /\ pend[t] # <<>> /\ pend[t][1].op = "onAttach"
    /\ LET h == pend[t][1]
           B1 == SendToSidecar(Broker, h.i, Ctl("ATTACH_OK", h.written), ok)
           B2 == IF h.data = <<>> THEN B1
                 ELSE SendToSidecar(B1, h.i, Data(h.off, h.data), ok)
           B3 == IF h.close THEN SendToSidecar(B2, h.i, Ctl("CLOSE", 0), ok) ELSE B2
       IN ok \in WriteOutcomes(bs[h.i].tconn) /\ Commit(B3)
    /\ pend' = [pend EXCEPT ![t] = <<>>]
    /\ UNCHANGED <<actor, faults, sidecarVars, link, upq, srv>>

(* onData before the dial completed: queue it.                             *)
HandleDataEarly(t) ==
    /\ Serve(t, "DATA") /\ cur # 0 /\ ~Connected(bs[cur])
    /\ LET f == Head(upq[t])
           accepted == bs[cur].upstreamWritten + Len(bs[cur].preConn)
       IN bs' = [bs EXCEPT ![cur].preConn = @ \o Fresh(f.off, f.data, accepted)]
    /\ UNCHANGED <<envVars, sidecarVars, link, downq, pend, cur, srv>>

(* A write on an upstream connection fails once onSidecarClose has shut    *)
(* its sending half (CloseWrite), and may fail once the destination closed *)
(* the connection.                                                         *)
WriteMayFail(c) == c.eof \/ c.fin

(* onData on a connected session, up to the return of upstream.Write.      *)
HandleData(t) ==
    /\ Serve(t, "DATA") /\ cur # 0 /\ Connected(bs[cur])
    /\ LET f == Head(upq[t])
           p == Fresh(f.off, f.data, bs[cur].upstreamWritten)
       IN IF p = <<>> THEN UNCHANGED <<srv, pend>>
          ELSE /\ ~srv[cur].eof
               /\ srv' = [srv EXCEPT ![cur].got = @ \o p]
               /\ pend' = [pend EXCEPT ![t] =
                             <<[op |-> "onData", i |-> cur, off |-> 0, written |-> 0,
                                data |-> p, close |-> FALSE]>>]
    /\ UNCHANGED <<envVars, sidecarVars, link, downq, bs, cur>>

(* ... or upstream.Write fails.                                            *)
HandleDataError(t, ok) ==
    /\ Serve(t, "DATA") /\ cur # 0 /\ Connected(bs[cur]) /\ WriteMayFail(srv[cur])
    /\ LET f == Head(upq[t])
       IN Fresh(f.off, f.data, bs[cur].upstreamWritten) # <<>>
    /\ ok \in WriteOutcomes(bs[cur].tconn)
    /\ Commit(CloseUpstream(Broker, cur, ok))
    /\ UNCHANGED <<actor, faults, sidecarVars, link, pend, srv>>

(* onData after upstream.Write: account for the bytes and acknowledge.     *)
FinishData(t, ok) ==
    /\ pend[t] # <<>> /\ pend[t][1].op = "onData"
    /\ LET h == pend[t][1]
           written == bs[h.i].upstreamWritten + Len(h.data)
           B == [Broker EXCEPT !.s[h.i].upstreamWritten = written,
                               !.s[h.i].requestOutstanding = TRUE,
                               !.s[h.i].watchdog = TRUE]
       IN /\ ok \in WriteOutcomes(bs[h.i].tconn)
          /\ Commit(SendToSidecar(B, h.i, Ctl("ACK", written), ok))
    /\ pend' = [pend EXCEPT ![t] = <<>>]
    /\ UNCHANGED <<actor, faults, sidecarVars, link, upq, srv>>

(* onDownstreamAck                                                         *)
HandleAck(t) ==
    /\ Serve(t, "ACK") /\ cur # 0
    /\ LET b == TrimTo(bs[cur].downBuf, Head(upq[t]).off)
       IN bs' = [bs EXCEPT ![cur].downBuf = b,
                           ![cur].requestOutstanding = @ /\ BufLen(b) # 0]
    /\ UNCHANGED <<envVars, sidecarVars, link, downq, pend, cur, srv>>

(* onSidecarClose: CloseWrite reaches only an upstream already dialed.     *)
HandleClose(t) ==
    /\ Serve(t, "CLOSE") /\ cur # 0
    /\ Commit(MaybeDestroy([Broker EXCEPT !.s[cur].upClosed = TRUE], cur))
    /\ srv' = [srv EXCEPT ![cur].eof = @ \/ Connected(bs[cur])]
    /\ UNCHANGED <<actor, faults, sidecarVars, link, pend>>

(* DATA, ACK and CLOSE for a session lookup does not find.                 *)
HandleUnknown(t) ==
    /\ cur = 0 /\ \E type \in {"DATA", "ACK", "CLOSE"} : Serve(t, type)
    /\ UNCHANGED <<envVars, sidecarVars, link, downq, brokerVars>>

(* serveTunnel returns: the sidecar is gone or silent past the read        *)
(* deadline and every frame that arrived is handled, or a frame did not    *)
(* decode.  detachAll unbinds the session if it is bound here.  (register  *)
(* keeps one session for a key: an older one, destroyed with t still bound *)
(* and replaced on t itself, is unbound here and stays bound in the code.) *)
DetachAll(B, t) ==
    [B EXCEPT !.s = [i \in Dials |-> Detach(B, i, t).s[i]],
              !.w = @ \/ \E i \in Dials : Detach(B, i, t).w]

TunnelEnd(t) ==
    /\ Settled /\ pend[t] = <<>> /\ link[t] # "ended"
    /\ \/ link[t] = "cut" /\ upq[t] = <<>>
       \/ upq[t] # <<>> /\ Head(upq[t]).type = "GARBLED"
    /\ Commit(DetachAll(Broker, t))
    /\ link' = [link EXCEPT ![t] = "ended"]
    /\ upq' = [upq EXCEPT ![t] = <<>>]
    /\ UNCHANGED <<actor, faults, sidecarVars, pend, srv>>

(* dialUpstream                                                            *)
DialOK(i) ==
    /\ Settled /\ cur = i /\ bs[i].dial = "dialing"
    /\ bs' = [bs EXCEPT ![i].dial = IF bs[i].preConn = <<>> THEN "reading" ELSE "flushing",
                        ![i].watchdog = TRUE]
    /\ UNCHANGED <<envVars, sidecarVars, link, upq, downq, pend, cur, srv>>

DialFail(i, ok) ==
    /\ Settled /\ DialFails /\ cur = i /\ bs[i].dial = "dialing"
    /\ ok \in WriteOutcomes(bs[i].tconn)
    /\ Commit(Destroy(SendToSidecar([Broker EXCEPT !.s[i].dial = "done"],
                                    i, Ctl("LOST", 0), ok), i))
    /\ UNCHANGED <<actor, faults, sidecarVars, link, upq, pend, srv>>

FlushPre(i, ok) ==
    /\ cur = i /\ bs[i].dial = "flushing" /\ ~srv[i].eof
    /\ ok \in WriteOutcomes(bs[i].tconn)
    /\ LET written == bs[i].upstreamWritten + Len(bs[i].preConn)
           B == [Broker EXCEPT !.s[i].upstreamWritten = written,
                               !.s[i].preConn = <<>>,
                               !.s[i].requestOutstanding = TRUE,
                               !.s[i].dial = "reading"]
       IN Commit(SendToSidecar(B, i, Ctl("ACK", written), ok))
    /\ srv' = [srv EXCEPT ![i].got = @ \o bs[i].preConn]
    /\ UNCHANGED <<actor, faults, sidecarVars, link, upq, pend>>

(* ... or the write of preConn fails: no reader is started.                *)
FlushError(i, ok) ==
    /\ cur = i /\ bs[i].dial = "flushing" /\ WriteMayFail(srv[i])
    /\ ok \in WriteOutcomes(bs[i].tconn)
    /\ Commit(CloseUpstream([Broker EXCEPT !.s[i].dial = "done"], i, ok))
    /\ UNCHANGED <<actor, faults, sidecarVars, link, upq, pend, srv>>

ServerBytes(i, from, n) == [k \in 1 .. n |-> <<i, from + k>>]

Least(S) == CHOOSE m \in S : \A k \in S : m <= k

(* readUpstreamLoop and one turn of produceDownstream's loop; with no free *)
(* space the goroutine waits for an ACK.                                   *)
Produce(i, ok) ==
    /\ Settled /\ cur = i /\ bs[i].dial = "reading"
    /\ LET s   == bs[i]
           off == End(s.downBuf)
           n   == Least({srv[i].sent - off, ReadMax, Free(s.downBuf, DownCap)})
           p   == ServerBytes(i, off, n)
           B   == [Broker EXCEPT !.s[i].downBuf = AppendTo(@, p),
                                 !.s[i].tconn = IF ok THEN @ ELSE 0,
                                 !.q = WriteFrame(@, s.tconn, Data(off, p))]
       IN /\ n > 0
          /\ ok \in WriteOutcomes(s.tconn)
          /\ Commit(IF B.s[i].tconn = 0 /\ s.requestOutstanding THEN Wake(B) ELSE B)
    /\ UNCHANGED <<actor, faults, sidecarVars, link, upq, pend, srv>>

(* readUpstreamLoop reads EOF or an error.                                 *)
ReadEOF(i, ok) ==
    /\ Settled /\ cur = i /\ bs[i].dial = "reading"
    /\ srv[i].fin /\ End(bs[i].downBuf) = srv[i].sent
    /\ ok \in WriteOutcomes(bs[i].tconn)
    /\ Commit(CloseUpstream([Broker EXCEPT !.s[i].dial = "done"], i, ok))
    /\ UNCHANGED <<actor, faults, sidecarVars, link, upq, pend, srv>>

(* The function armWatchdogLocked schedules.  LongWatchdog: the timer      *)
(* outlasts the reconnects and resumes in progress when it was armed.      *)
WatchdogFire(i) ==
    /\ Settled /\ bs[i].watchdog
    /\ LongWatchdog => actor = "suspended" /\ ~wake /\ bs[i].tconn = 0
    /\ bs' = [bs EXCEPT ![i].watchdog = FALSE]
    /\ wake' = (wake \/ (cur = i /\ bs[i].requestOutstanding /\ bs[i].tconn = 0))
    /\ UNCHANGED <<actor, faults, sidecarVars, link, upq, downq, pend, cur, srv>>

-----------------------------------------------------------------------------
(* The destination (external): a response per whole request, a byte at a   *)
(* time, then Housekeeping bytes; it closes when the agent's half is       *)
(* closed and every request is answered, or at any time if ServerCloses.   *)
(* It never begins an answer before it has the whole request.              *)
ServerOwes(i) ==
    LET answered == Len(srv[i].got) \div ReqLen
    IN (IF answered < Rounds THEN answered * RespLen ELSE Rounds * RespLen + Housekeeping)
       - srv[i].sent

ServerSend(i) ==
    /\ Settled /\ cur = i /\ Connected(bs[i]) /\ ~srv[i].fin /\ ServerOwes(i) > 0
    /\ srv' = [srv EXCEPT ![i].sent = @ + 1]
    /\ UNCHANGED <<envVars, sidecarVars, link, upq, downq, pend, bs, cur>>

ServerClose(i) ==
    /\ Settled /\ cur = i /\ Connected(bs[i]) /\ ~srv[i].fin
    /\ ServerCloses \/ (srv[i].eof /\ ServerOwes(i) = 0)
    /\ srv' = [srv EXCEPT ![i].fin = TRUE]
    /\ UNCHANGED <<envVars, sidecarVars, link, upq, downq, pend, bs, cur>>

(* The platform (external).  A suspend freezes the sidecar and the agent   *)
(* and leaves the tunnel a zombie; any other failure only cuts the tunnel. *)
(* Of the frames in flight each way, a prefix was received.                *)
Cut ==
    /\ Settled /\ faults < MaxFaults /\ faults' = faults + 1
    /\ IF conn # 0 /\ link[conn] = "up"
       THEN /\ link' = [link EXCEPT ![conn] = "cut"]
            /\ \E k \in 0 .. Len(upq[conn]) :
                  upq' = [upq EXCEPT ![conn] = SubSeq(@, 1, k)]
            /\ \E k \in 0 .. Len(downq[conn]) :
                  downq' = [downq EXCEPT ![conn] = SubSeq(@, 1, k)]
       ELSE UNCHANGED <<link, upq, downq>>

(* The suspender waits until the agent has been blocked for a while, and   *)
(* for a grace period after a resume: normally the session is attached and *)
(* what the agent wrote is upstream by then.                               *)
Blocked ==
    /\ wout = <<>> /\ cur # 0 /\ bs[cur].upstreamWritten = End(cs.upBuf)
    /\ conn # 0 /\ bs[cur].tconn = conn /\ link[conn] = "up"

Suspend ==
    /\ Running /\ actor' = "suspended"
    /\ PoliteSuspend => Blocked
    /\ Cut
    /\ UNCHANGED <<wake, sidecarVars, brokerVars>>

Break ==
    /\ Running /\ conn # 0 /\ link[conn] = "up"
    /\ Cut
    /\ UNCHANGED <<actor, wake, sidecarVars, brokerVars>>

(* resumer: ResumeActor returns; it changes nothing for a running actor.   *)
ResumeActor ==
    /\ Settled /\ wake /\ wake' = FALSE /\ actor' = "running"
    /\ UNCHANGED <<faults, sidecarVars, link, upq, downq, brokerVars>>

(* Ingress traffic, or another session, resumes the actor.                 *)
ResumeElsewhere ==
    /\ Settled /\ actor = "suspended" /\ actor' = "running"
    /\ UNCHANGED <<wake, faults, sidecarVars, link, upq, downq, brokerVars>>

-----------------------------------------------------------------------------
(* The goroutines.                                                         *)
ProxyPump == SendOpen \/ WriteUpSend \/ OpenSession \/ \E n \in 1 .. UpCap : WriteUp(n)

ProxyClose == \E half \in BOOLEAN : CloseUp(half)

ClientRun ==
    \/ Reattach \/ ReadLoopSend \/ \E t \in Tunnels : Connect(t)
    \/ RecvAck \/ RecvAttachOK \/ RecvClose \/ Disconnect
    \/ \E ok \in BOOLEAN : RecvData(ok)

ServeTunnel(t) ==
    \/ \E ok \in BOOLEAN : \/ FinishAttach(t, ok) \/ FinishData(t, ok)
                           \/ HandleDataError(t, ok)
    \/ HandleOpen(t) \/ HandleAttach(t) \/ HandleDataEarly(t) \/ HandleData(t)
    \/ HandleAck(t) \/ HandleClose(t) \/ HandleUnknown(t) \/ TunnelEnd(t)

Upstream(i) ==
    \/ DialOK(i)
    \/ \E ok \in BOOLEAN : \/ DialFail(i, ok) \/ FlushPre(i, ok) \/ FlushError(i, ok)
                           \/ Produce(i, ok) \/ ReadEOF(i, ok)

Next ==
    \/ ProxyPump \/ ProxyClose \/ ClientRun
    \/ \E t \in Tunnels : ServeTunnel(t)
    \/ \E i \in Dials : Upstream(i) \/ WatchdogFire(i) \/ ServerSend(i) \/ ServerClose(i)
    \/ ResumeActor \/ ResumeElsewhere \/ Suspend \/ Break

Spec == Init /\ [][Next]_vars

(* Goroutines that can run do run, the destination answers what it has     *)
(* read, and ResumeActor returns.  Nobody has to suspend, cut or close.    *)
Fairness ==
    /\ WF_vars(ProxyPump) /\ WF_vars(ClientRun) /\ WF_vars(ResumeActor)
    /\ \A t \in Tunnels : WF_vars(ServeTunnel(t))
    /\ \A i \in Dials : /\ WF_vars(Upstream(i)) /\ WF_vars(WatchdogFire(i))
                        /\ WF_vars(ServerSend(i))

FairSpec == Spec /\ Fairness
-----------------------------------------------------------------------------
(* Every variable keeps the shape its Go counterpart has: offsets, frames  *)
(* and buffers are well formed, at most one frame is held by a goroutine   *)
(* between an unlock and a send, and tconn names a tunnel or none.         *)
ReplayBufferType == [base : Nat, buf : Seq(Byte)]

ClientSessionType ==
    [st : {"none", "opening", "open", "gone"}, upBuf : ReplayBufferType,
     downDelivered : Nat, upClosed : BOOLEAN, downClosed : BOOLEAN]

SessionType ==
    [dial : {"none", "dialing", "flushing", "reading", "done"},
     tconn : 0 .. MaxTunnels, preConn : Seq(Byte), downBuf : ReplayBufferType,
     upstreamWritten : Nat, requestOutstanding : BOOLEAN, upClosed : BOOLEAN,
     downClosed : BOOLEAN, watchdog : BOOLEAN]

ServerConnType == [got : Seq(Byte), sent : Nat, eof : BOOLEAN, fin : BOOLEAN]

TypeOK ==
    /\ actor \in {"running", "suspended"} /\ wake \in BOOLEAN /\ faults \in Nat
    /\ loop \in {"down", "attach", "read"}
    /\ conn \in 0 .. MaxTunnels /\ (loop = "down" <=> conn = 0)
    /\ cs \in ClientSessionType
    /\ agentGot \in Seq(Byte) /\ agentOpen \in BOOLEAN
    /\ wout \in Seq(Frame) /\ rout \in Seq(Frame)
    /\ link \in [Tunnels -> {"up", "cut", "ended"}]
    /\ upq \in [Tunnels -> Seq(Frame)] /\ downq \in [Tunnels -> Seq(Frame)]
    /\ pend \in [Tunnels -> Seq(Handler)]
    /\ bs \in [Dials -> SessionType]
    /\ cur \in 0 .. MaxDials
    /\ srv \in [Dials -> ServerConnType]

(* The agent reads its upstream byte stream from the first byte on, each   *)
(* byte once and in order, whatever was cut, replayed or recreated in      *)
(* between (deliverDown, onSidecarAttach).                                 *)
AgentInOrder == \A k \in DOMAIN agentGot : agentGot[k][2] = k

(* Bytes of two upstream connections are never spliced into one stream,    *)
(* although attachSession recreates a session it does not know.            *)
AgentOneStream == \A k \in DOMAIN agentGot : agentGot[k][1] = agentGot[1][1]

(* The broker keeps every byte it read until the agent has it: nothing the *)
(* agent lacks was trimmed from downBuf (onDownstreamAck).                 *)
UndeliveredRetained == cur # 0 => bs[cur].downBuf.base <= cs.downDelivered

(* The destination reads what the agent wrote, each byte once and in order *)
(* (onData: "replayed DATA after a reconnect is de-duplicated by offset"). *)
UpstreamInOrder ==
    \A i \in Dials : \A k \in DOMAIN srv[i].got : srv[i].got[k] = <<0, k>>

(* The sidecar forgets a byte of the agent's only once the destination has *)
(* it (onUpstreamAck, onAttachOK).                                         *)
UnwrittenRetained ==
    \A k \in 1 .. cs.upBuf.base :
        \E i \in Dials : \E n \in DOMAIN srv[i].got : srv[i].got[n] = <<0, k>>

(* An actor is not left suspended while the destination's answer waits for *)
(* it in the broker: a wake-up is under way or the watchdog will start one *)
(* ("no bug can strand an actor with a request in flight").                *)
AgentWaits == End(cs.upBuf) > Responses * ReqLen /\ agentOpen /\ ~cs.upClosed

AnswerWaits ==
    /\ cur # 0 /\ bs[cur].tconn = 0
    /\ End(bs[cur].downBuf) > cs.downDelivered \/ bs[cur].downClosed

NotStranded ==
    actor = "suspended" /\ AgentWaits /\ AnswerWaits
        => wake \/ (bs[cur].watchdog /\ bs[cur].requestOutstanding)

(* Once every response is delivered and acknowledged the session stays     *)
(* quiescent: what the destination still sends on the idle connection, or  *)
(* its close, wakes nobody.                                                *)
Quiescent ==
    cur # 0 /\ bs[cur].downBuf.base >= Rounds * RespLen /\ ~bs[cur].requestOutstanding

QuiescentNoWake ==
    [][Quiescent /\ ~wake => ~wake' /\ ~bs'[cur].requestOutstanding]_vars

(* Every request the agent handed over is answered, or the agent is told   *)
(* that it will not be.                                                    *)
ResponseDelivered ==
    \A r \in 1 .. Rounds :
        (End(cs.upBuf) = r * ReqLen)
            ~> (Len(agentGot) >= r * RespLen \/ cs.downClosed \/ cs.upClosed)
=============================================================================
