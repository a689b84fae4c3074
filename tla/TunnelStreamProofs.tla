------------------------- MODULE TunnelStreamProofs -------------------------
(***************************************************************************)
(* The agent never reads bytes of two upstream connections as one stream,  *)
(* although attachSession recreates a session the broker does not have.    *)
(* This holds as long as no broker frame loop outlives the tunnel          *)
(* connection that replaces it ("serveTunnel" closed): a frame loop held   *)
(* up with OPEN and DATA unread can otherwise recreate the session behind  *)
(* the back of the connection in use.                                      *)
(***************************************************************************)
EXTENDS TunnelSessionProofs

-----------------------------------------------------------------------------
(* The inductive invariant.                                                *)

(* The sidecar's frames wait on one connection only, the current one while *)
(* there is one.                                                           *)
OneLine ==
    /\ \A t \in Tunnels : /\ link[t] = "up" => conn = t
                          /\ link[t] = "ended" => upq[t] = <<>>
                          /\ upq[t] # <<>> /\ conn # 0 => conn = t
    /\ \A t, u \in Tunnels : upq[t] # <<>> /\ upq[u] # <<>> => t = u

(* The frames on which the broker creates a session it does not have.      *)
Restart(f) == f.type = "OPEN" \/ (f.type = "ATTACH" /\ f.off = 0)

HasRestart(q) == \E m \in 1 .. Len(q) : Restart(q[m])

(* No byte is acknowledged ahead of such a frame.                          *)
Begun(q) ==
    \A m \in 1 .. Len(q) : Restart(q[m]) =>
        \A k \in 1 .. m : q[k].type = "ACK" => q[k].off = 0

NoData(q) == \A k \in 1 .. Len(q) : q[k].type # "DATA"

(* A session whose upstream connection has yielded a byte, and those       *)
(* sessions of the broker.                                                 *)
Yielded(s) == End(s.downBuf) > 0
Sources(S) == {i \in Dials : Yielded(S[i])}

Of(p, Y)      == \A k \in 1 .. Len(p) : p[k][1] \in Y
Carries(q, Y) == \A k \in 1 .. Len(q) : Of(q[k].data, Y)
Replays(h, Y) == \A k \in 1 .. Len(h) : h[k].op = "onAttach" => Of(h[k].data, Y)

(* Of the sessions at most one has yielded anything; it is the one in the  *)
(* map, or the map is empty and the agent has acknowledged part of it.     *)
OneSource(S, c) ==
    /\ \A i \in Dials : Yielded(S[i]) => c = i \/ (c = 0 /\ S[i].downBuf.base > 0)
    /\ \A i, j \in Dials : Yielded(S[i]) /\ Yielded(S[j]) => i = j
    /\ \A i \in Dials : S[i].dial \in {"none", "dialing", "flushing"} => ~Yielded(S[i])

Owned(S) == \A i \in Dials : Of(S[i].downBuf.buf, {i})

StreamOK(B) ==
    /\ OneSource(B.s, B.cur) /\ Owned(B.s)
    /\ \A t \in Tunnels : Carries(B.q[t], Sources(B.s))

(* Before OPEN is sent nothing has moved in either direction.              *)
Untouched(s, c) == s.preConn = <<>> /\ ~Yielded(s) /\ c.got = <<>> /\ c.sent = 0

Opened == cs.st \notin {"none", "opening"}

Early ==
    ~Opened =>
        /\ cs.upBuf = NewReplayBuffer /\ cs.downDelivered = 0
        /\ wout = <<>> /\ NoData(rout)
        /\ \A t \in Tunnels : NoData(upq[t])
        /\ \A i \in Dials : Untouched(bs[i], srv[i])

Begins ==
    \A t \in Tunnels :
        Begun(upq[t]) /\ (HasRestart(upq[t]) => \A i \in Dials : bs[i].downBuf.base = 0)

OInv ==
    /\ OneLine /\ Early /\ Begins /\ StreamOK(Broker)
    /\ ~HasRestart(wout) /\ ~HasRestart(rout)
    /\ \A t \in Tunnels : Replays(pend[t], Sources(bs))
    /\ Of(agentGot, Sources(bs))

-----------------------------------------------------------------------------
(* Queues.                                                                 *)

(* An empty queue promises nothing.                                        *)
LEMMA EmptyQueue ==
    /\ Begun(<<>>) /\ ~HasRestart(<<>>) /\ NoData(<<>>)
    /\ \A Y : Carries(<<>>, Y) /\ Of(<<>>, Y) /\ Replays(<<>>, Y)
  BY DEF Begun, HasRestart, NoData, Carries, Of, Replays

(* The frame loop took the first frame.                                    *)
LEMMA TailQueue ==
    ASSUME NEW q \in Seq(Frame), q # <<>>
    PROVE  /\ Begun(q) => Begun(Tail(q))
           /\ HasRestart(Tail(q)) => HasRestart(q)
           /\ Restart(Head(q)) => HasRestart(q)
           /\ NoData(q) => NoData(Tail(q)) /\ Head(q).type # "DATA"
           /\ \A Y : Carries(q, Y) => Carries(Tail(q), Y) /\ Of(Head(q).data, Y)
           /\ Begun(q) /\ HasRestart(Tail(q)) /\ Head(q).type = "ACK" => Head(q).off = 0
  <1> DEFINE r == Tail(q)
  <1>1. Head(q) = q[1] /\ 1 \in 1 .. Len(q) /\ Len(q) \in Nat /\ Len(r) = Len(q) - 1
    OBVIOUS
  <1>2. \A k \in 1 .. Len(r) : k + 1 \in 1 .. Len(q) /\ r[k] = q[k + 1]
    OBVIOUS
  <1> HIDE DEF r
  <1>3. Begun(q) => Begun(r)
    <2> SUFFICES ASSUME Begun(q), NEW m \in 1 .. Len(r), Restart(r[m]),
                        NEW k \in 1 .. m, r[k].type = "ACK"
                 PROVE  r[k].off = 0
      BY DEF Begun
    <2>1. k \in 1 .. Len(r) /\ k + 1 \in 1 .. m + 1
      BY <1>1
    <2> QED
      BY <1>2, <2>1 DEF Begun
  <1>4. HasRestart(r) => HasRestart(q)
    BY <1>2 DEF HasRestart
  <1>5. NoData(q) => NoData(r) /\ q[1].type # "DATA"
    BY <1>1, <1>2 DEF NoData
  <1>6. ASSUME NEW Y, Carries(q, Y)
        PROVE  Carries(r, Y) /\ Of(q[1].data, Y)
    BY <1>1, <1>2, <1>6 DEF Carries
  <1>7. ASSUME Begun(q), HasRestart(r), q[1].type = "ACK"
        PROVE  q[1].off = 0
    <2>1. PICK m \in 1 .. Len(r) : Restart(r[m])
      BY <1>7 DEF HasRestart
    <2>2. m + 1 \in 1 .. Len(q) /\ Restart(q[m + 1]) /\ 1 \in 1 .. m + 1
      BY <1>2, <2>1
    <2> QED
      BY <1>7, <2>2 DEF Begun
  <1> QED
    BY <1>1, <1>3, <1>4, <1>5, <1>6, <1>7 DEF r, HasRestart

(* A prefix arrived.                                                       *)
LEMMA PrefixQueue ==
    ASSUME NEW q \in Seq(Frame), NEW n \in 0 .. Len(q)
    PROVE  /\ Begun(q) => Begun(SubSeq(q, 1, n))
           /\ HasRestart(SubSeq(q, 1, n)) => HasRestart(q)
           /\ NoData(q) => NoData(SubSeq(q, 1, n))
           /\ \A Y : Carries(q, Y) => Carries(SubSeq(q, 1, n), Y)
           /\ SubSeq(q, 1, n) # <<>> => q # <<>>
  <1> DEFINE r == SubSeq(q, 1, n)
  <1>1. Len(r) = n /\ r \in Seq(Frame) /\ (q = <<>> => r = <<>>)
    OBVIOUS
  <1>2. \A k \in 1 .. Len(r) : k \in 1 .. Len(q) /\ r[k] = q[k] /\ 1 .. k \subseteq 1 .. Len(r)
    OBVIOUS
  <1> HIDE DEF r
  <1>3. Begun(q) => Begun(r)
    BY <1>2 DEF Begun
  <1>4. HasRestart(r) => HasRestart(q)
    BY <1>2 DEF HasRestart
  <1>5. NoData(q) => NoData(r)
    BY <1>2 DEF NoData
  <1>6. \A Y : Carries(q, Y) => Carries(r, Y)
    BY <1>2 DEF Carries
  <1> QED
    BY <1>1, <1>3, <1>4, <1>5, <1>6 DEF r

(* A frame joins a queue.                                                  *)
LEMMA AppendQueue ==
    ASSUME NEW q \in Seq(Frame), NEW f \in Frame
    PROVE  /\ Begun(q) /\ (Restart(f) => AcksOK(q, 0)) => Begun(Append(q, f))
           /\ HasRestart(Append(q, f)) => HasRestart(q) \/ Restart(f)
           /\ NoData(q) /\ f.type # "DATA" => NoData(Append(q, f))
           /\ \A Y : Carries(q, Y) /\ Of(f.data, Y) => Carries(Append(q, f), Y)
  <1> DEFINE r == Append(q, f)
             n == Len(q) + 1
  <1>1. Len(r) = n /\ Len(q) \in Nat
    OBVIOUS
  <1>2. \A k \in 1 .. Len(r) : \/ k \in 1 .. Len(q) /\ r[k] = q[k]
                               \/ k = n /\ r[k] = f
    OBVIOUS
  <1> HIDE DEF r
  <1>3. ASSUME Begun(q), Restart(f) => AcksOK(q, 0)
        PROVE  Begun(r)
    <2> SUFFICES ASSUME NEW m \in 1 .. Len(r), Restart(r[m]),
                        NEW k \in 1 .. m, r[k].type = "ACK"
                 PROVE  r[k].off = 0
      BY DEF Begun
    <2>1. k \in 1 .. Len(r)
      BY <1>1
    <2>2. CASE m \in 1 .. Len(q)
      BY <1>1, <1>2, <1>3, <2>1, <2>2 DEF Begun
    <2>3. CASE m = n
      <3>1. r[m] = f /\ f.type # "ACK"
        BY <1>1, <1>2, <2>3 DEF Restart
      <3>2. k \in 1 .. Len(q) /\ r[k] = q[k] /\ q[k].off <= 0 /\ q[k] \in Frame
        BY <1>2, <1>3, <2>1, <3>1 DEF AcksOK
      <3>3. q[k].off \in Nat
        BY <3>2 DEF Frame
      <3> QED
        BY <3>2, <3>3
    <2> QED
      BY <1>2, <2>2, <2>3
  <1>4. HasRestart(r) => HasRestart(q) \/ Restart(f)
    BY <1>2 DEF HasRestart
  <1>5. NoData(q) /\ f.type # "DATA" => NoData(r)
    BY <1>2 DEF NoData
  <1>6. \A Y : Carries(q, Y) /\ Of(f.data, Y) => Carries(r, Y)
    BY <1>2 DEF Carries
  <1> QED
    BY <1>3, <1>4, <1>5, <1>6 DEF r

(* What encodeFrame puts on the wire is the frame, or a torn one.          *)
LEMMA OnWireQueue ==
    ASSUME NEW f \in Frame
    PROVE  /\ OnWire(f) \in Frame
           /\ OnWire(f).type \in {f.type, "GARBLED"} /\ (Restart(OnWire(f)) => Restart(f))
           /\ \A Y : Of(f.data, Y) => Of(OnWire(f).data, Y)
  <1>1. Ctl("GARBLED", 0) \in Frame /\ Ctl("GARBLED", 0).type = "GARBLED"
        /\ Ctl("GARBLED", 0).data = <<>>
    BY CtlFrame DEF FrameType, Ctl
  <1> QED
    BY <1>1, OnWireFrame, EmptyQueue DEF OnWire, Restart

(* More sources never invalidate what a queue carries.                     *)
LEMMA MoreSources ==
    ASSUME NEW Y, NEW Z, Y \subseteq Z
    PROVE  /\ \A p : Of(p, Y) => Of(p, Z)
           /\ \A q : Carries(q, Y) => Carries(q, Z)
           /\ \A h : Replays(h, Y) => Replays(h, Z)
  BY DEF Of, Carries, Replays

-----------------------------------------------------------------------------
(* One line.                                                               *)

(* Steps that leave the connections alone and send nothing.                *)
LEMMA LineKept ==
    ASSUME OneLine, UNCHANGED <<link, conn>>,
           \A t \in Tunnels : upq'[t] # <<>> => upq[t] # <<>>
    PROVE  OneLine'
  BY DEF OneLine

(* Client.send writes to the connection in use.                            *)
LEMMA LineSend ==
    ASSUME IInv, OneLine, UNCHANGED <<link, conn>>, NEW f, Send(f)
    PROVE  OneLine'
  <1>1. CASE conn # 0 /\ link[conn] = "up"
    <2>1. conn \in Tunnels /\ upq \in [Tunnels -> Seq(Frame)]
          /\ link \in [Tunnels -> {"up", "cut", "ended"}]
      BY <1>1, SidecarFacts
    <2>2. \A t \in Tunnels : t # conn => upq'[t] = upq[t]
      BY <1>1, <2>1 DEF Send, WriteFrame
    <2> QED
      BY <1>1, <2>1, <2>2 DEF OneLine
  <1>2. CASE ~(conn # 0 /\ link[conn] = "up")
    BY <1>2 DEF Send, WriteFrame, OneLine
  <1> QED
    BY <1>1, <1>2

(* connectOnce: the frame loops of older connections are done.             *)
LEMMA LineConnect ==
    ASSUME IInv, OneLine, "serveTunnel" \notin Preempt, NEW t \in Tunnels, Connect(t)
    PROVE  OneLine'
  <1>1. conn = 0 /\ link \in [Tunnels -> {"up", "cut", "ended"}]
        /\ upq \in [Tunnels -> Seq(Frame)]
    BY SidecarFacts DEF Connect
  <1>2. \A u \in Tunnels : link[u] # "up" /\ upq[u] = <<>>
    BY <1>1 DEF OneLine, Connect, LoopsDrained, Tunnels
  <1>3. conn' = t /\ link' = [link EXCEPT ![t] = "up"] /\ upq' = [upq EXCEPT ![t] = <<>>]
    BY DEF Connect
  <1> QED
    BY <1>1, <1>2, <1>3 DEF OneLine

(* readLoop returned.                                                      *)
LEMMA LineDisconnect ==
    ASSUME IInv, OneLine, Disconnect
    PROVE  OneLine'
  <1>1. conn \in Tunnels /\ link \in [Tunnels -> {"up", "cut", "ended"}]
    BY SidecarFacts DEF Disconnect
  <1>2. conn' = 0 /\ upq' = upq /\ 0 \notin Tunnels
        /\ link' = [link EXCEPT ![conn] = IF @ = "up" THEN "cut" ELSE @]
    BY DEF Disconnect, Tunnels
  <1> QED
    BY <1>1, <1>2 DEF OneLine

(* The tunnel is cut.                                                      *)
LEMMA LineCut ==
    ASSUME IInv, OneLine, Cut, conn' = conn
    PROVE  OneLine'
  <1>1. CASE conn # 0 /\ link[conn] = "up"
    <2>1. conn \in Tunnels /\ link \in [Tunnels -> {"up", "cut", "ended"}]
          /\ upq \in [Tunnels -> Seq(Frame)]
      BY <1>1, SidecarFacts
    <2>2. PICK k \in 0 .. Len(upq[conn]) : upq' = [upq EXCEPT ![conn] = SubSeq(@, 1, k)]
      BY <1>1 DEF Cut
    <2>3. \A t \in Tunnels : upq'[t] # <<>> => upq[t] # <<>>
      BY <2>1, <2>2, PrefixQueue
    <2>4. link' = [link EXCEPT ![conn] = "cut"]
      BY <1>1 DEF Cut
    <2> QED
      BY <2>1, <2>3, <2>4 DEF OneLine
  <1>2. CASE ~(conn # 0 /\ link[conn] = "up")
    BY <1>2, LineKept DEF Cut
  <1> QED
    BY <1>1, <1>2

(* serveTunnel returned.                                                   *)
LEMMA LineEnd ==
    ASSUME IInv, OneLine, NEW t \in Tunnels, TunnelEnd(t)
    PROVE  OneLine'
  <1>1. link \in [Tunnels -> {"up", "cut", "ended"}] /\ upq \in [Tunnels -> Seq(Frame)]
    BY SidecarFacts
  <1>2. conn' = conn /\ link' = [link EXCEPT ![t] = "ended"] /\ upq' = [upq EXCEPT ![t] = <<>>]
    BY DEF TunnelEnd, sidecarVars
  <1> QED
    BY <1>1, <1>2 DEF OneLine

(* serveTunnel took a frame.                                               *)
LEMMA LineServe ==
    ASSUME IInv, OneLine, NEW t \in Tunnels, NEW type, Serve(t, type), UNCHANGED <<link, conn>>
    PROVE  OneLine'
  <1>1. upq \in [Tunnels -> Seq(Frame)] /\ upq[t] # <<>>
        /\ upq' = [upq EXCEPT ![t] = Tail(@)]
    BY SidecarFacts DEF Serve
  <1> QED
    BY <1>1, LineKept

(* Every step keeps it.                                                    *)
LEMMA NextOneLine ==
    ASSUME IInv, OneLine, "serveTunnel" \notin Preempt, [Next]_vars
    PROVE  OneLine'
  <1>1. ASSUME UNCHANGED <<link, upq, conn>>
        PROVE  OneLine'
    BY <1>1, LineKept
  <1>2. CASE UNCHANGED vars
    BY <1>1, <1>2 DEF vars, sidecarVars
  <1>3. CASE ProxyPump \/ ProxyClose
    <2>1. CASE OpenSession \/ \E n \in 1 .. UpCap : WriteUp(n)
      BY <1>1, <2>1 DEF OpenSession, WriteUp
    <2>2. CASE SendOpen \/ WriteUpSend \/ \E half \in BOOLEAN : CloseUp(half)
      BY <2>2, LineSend DEF SendOpen, WriteUpSend, CloseUp
    <2> QED
      BY <1>3, <2>1, <2>2 DEF ProxyPump, ProxyClose
  <1>4. CASE ClientRun
    <2>1. CASE Reattach \/ ReadLoopSend
      BY <2>1, LineSend DEF Reattach, ReadLoopSend
    <2>2. CASE RecvAck \/ RecvAttachOK \/ RecvClose \/ \E ok \in BOOLEAN : RecvData(ok)
      BY <1>1, <2>2 DEF RecvAck, RecvAttachOK, RecvClose, RecvData
    <2> QED
      BY <1>4, <2>1, <2>2, LineConnect, LineDisconnect DEF ClientRun
  <1>5. ASSUME NEW t \in Tunnels, ServeTunnel(t)
        PROVE  OneLine'
    <2>1. CASE \E ok \in BOOLEAN : FinishAttach(t, ok) \/ FinishData(t, ok)
      BY <1>1, <2>1 DEF FinishAttach, FinishData, sidecarVars
    <2>2. CASE \/ \E ok \in BOOLEAN : HandleDataError(t, ok)
               \/ HandleOpen(t) \/ HandleAttach(t) \/ HandleDataEarly(t) \/ HandleData(t)
               \/ HandleAck(t) \/ HandleClose(t) \/ HandleUnknown(t)
      <3>1. (\E type : Serve(t, type)) /\ UNCHANGED <<link, conn>>
        BY <2>2 DEF HandleDataError, HandleOpen, HandleAttach, HandleDataEarly, HandleData,
                    HandleAck, HandleClose, HandleUnknown, sidecarVars
      <3> QED
        BY <3>1, LineServe
    <2> QED
      BY <1>5, <2>1, <2>2, LineEnd DEF ServeTunnel
  <1>6. ASSUME NEW i \in Dials,
               Upstream(i) \/ WatchdogFire(i) \/ ServerSend(i) \/ ServerClose(i)
        PROVE  OneLine'
    BY <1>1, <1>6 DEF Upstream, DialOK, DialFail, FlushPre, FlushError, Produce, ReadEOF,
                      WatchdogFire, ServerSend, ServerClose, sidecarVars
  <1>7. CASE ResumeActor \/ ResumeElsewhere \/ Suspend \/ Break
    BY <1>1, <1>7, LineCut DEF ResumeActor, ResumeElsewhere, Suspend, Break, sidecarVars
  <1> QED
    BY <1>2, <1>3, <1>4, <1>5, <1>6, <1>7 DEF Next

-----------------------------------------------------------------------------
(* The broker's building blocks: they leave what was read from upstream    *)
(* where it is, and drop a session from the map only when nothing of it is *)
(* unacknowledged.                                                         *)
Pending(s) == s.dial \in {"none", "dialing", "flushing"}

SameStreams(B, C) ==
    \A i \in Dials : /\ C.s[i].downBuf = B.s[i].downBuf
                     /\ Pending(C.s[i]) => Pending(B.s[i])
                     /\ ~Opened /\ B.s[i].preConn = <<>> => C.s[i].preConn = <<>>

Keeps(B, C) == StreamOK(C) /\ SameStreams(B, C)

(* What a step on the broker's state has to show.                          *)
LEMMA KeepsRule ==
    ASSUME NEW B, NEW C, StreamOK(B), SameStreams(B, C),
           \/ C.cur = B.cur
           \/ C.cur = 0 /\ \A i \in Dials : B.cur = i /\ Yielded(B.s[i])
                                              => B.s[i].downBuf.base > 0,
           \A t \in Tunnels : Carries(C.q[t], Sources(B.s))
    PROVE  Keeps(B, C)
  <1>1. \A i \in Dials : Yielded(C.s[i]) <=> Yielded(B.s[i])
    BY DEF SameStreams, Yielded
  <1>2. Sources(C.s) = Sources(B.s)
    BY <1>1 DEF Sources
  <1>3. \A i \in Dials : C.s[i].downBuf.base = B.s[i].downBuf.base
    BY DEF SameStreams
  <1>4. OneSource(C.s, C.cur)
    BY <1>1, <1>3 DEF StreamOK, OneSource, SameStreams, Pending
  <1>5. Owned(C.s)
    BY DEF StreamOK, Owned, SameStreams
  <1> QED
    BY <1>2, <1>4, <1>5 DEF StreamOK, Keeps

(* Building blocks compose.                                                *)
LEMMA KeepsTrans ==
    ASSUME NEW B, NEW C, NEW D, Keeps(B, C), Keeps(C, D)
    PROVE  Keeps(B, D)
  BY DEF Keeps, SameStreams

(* A block that changes fields of one session other than downBuf.          *)
LEMMA KeepsSession ==
    ASSUME NEW B \in BrokerType, StreamOK(B), NEW i \in Dials, NEW s \in SessionType,
           s.downBuf = B.s[i].downBuf, Pending(s) => Pending(B.s[i]),
           ~Opened /\ B.s[i].preConn = <<>> => s.preConn = <<>>
    PROVE  Keeps(B, [B EXCEPT !.s[i] = s])
  <1> DEFINE C == [B EXCEPT !.s[i] = s]
  <1>1. C.cur = B.cur /\ C.q = B.q /\ C.s = [B.s EXCEPT ![i] = s] /\ B.s \in [Dials -> SessionType]
    BY DEF BrokerType
  <1> HIDE DEF C
  <1>2. SameStreams(B, C)
    BY <1>1 DEF SameStreams
  <1>3. \A t \in Tunnels : Carries(C.q[t], Sources(B.s))
    BY <1>1 DEF StreamOK
  <1>4. Keeps(B, C)
    BY <1>1, <1>2, <1>3, KeepsRule
  <1> QED
    BY <1>4 DEF C

(* Broker.wake.                                                            *)
LEMMA KeepsWake ==
    ASSUME NEW B \in BrokerType, StreamOK(B)
    PROVE  Keeps(B, Wake(B))
  <1>1. Wake(B).s = B.s /\ Wake(B).cur = B.cur /\ Wake(B).q = B.q
    BY DEF Wake, BrokerType
  <1>2. SameStreams(B, Wake(B))
    BY <1>1 DEF SameStreams
  <1> QED
    BY <1>1, <1>2, KeepsRule DEF StreamOK

(* bind, and the first half of detach.                                     *)
LEMMA KeepsRebind ==
    ASSUME NEW B \in BrokerType, StreamOK(B), NEW i \in Dials, NEW t \in 0 .. MaxTunnels
    PROVE  Keeps(B, [B EXCEPT !.s[i].tconn = t])
  <1> DEFINE s == [B.s[i] EXCEPT !.tconn = t]
  <1>1. B.s[i] \in SessionType
    BY DEF BrokerType
  <1>2. /\ s \in SessionType /\ s.downBuf = B.s[i].downBuf
        /\ s.dial = B.s[i].dial /\ s.preConn = B.s[i].preConn
    BY <1>1 DEF SessionType
  <1>3. Keeps(B, [B EXCEPT !.s[i] = s])
    BY <1>2, KeepsSession DEF Pending
  <1> QED
    BY <1>3

(* The flags of a session.                                                 *)
LEMMA KeepsFlags ==
    ASSUME NEW B \in BrokerType, StreamOK(B), NEW i \in Dials, NEW v \in BOOLEAN
    PROVE  /\ Keeps(B, [B EXCEPT !.s[i].downClosed = v])
           /\ Keeps(B, [B EXCEPT !.s[i].upClosed = v])
           /\ Keeps(B, [B EXCEPT !.s[i].watchdog = v])
  <1> DEFINE s1 == [B.s[i] EXCEPT !.downClosed = v]
             s2 == [B.s[i] EXCEPT !.upClosed = v]
             s3 == [B.s[i] EXCEPT !.watchdog = v]
  <1>1. B.s[i] \in SessionType
    BY DEF BrokerType
  <1>2. \A s \in {s1, s2, s3} : /\ s \in SessionType /\ s.downBuf = B.s[i].downBuf
                                /\ s.dial = B.s[i].dial /\ s.preConn = B.s[i].preConn
    BY <1>1 DEF SessionType
  <1>3. \A s \in {s1, s2, s3} : Keeps(B, [B EXCEPT !.s[i] = s])
    BY <1>2, KeepsSession DEF Pending
  <1>4. /\ [B EXCEPT !.s[i].downClosed = v] = [B EXCEPT !.s[i] = s1]
        /\ [B EXCEPT !.s[i].upClosed = v] = [B EXCEPT !.s[i] = s2]
        /\ [B EXCEPT !.s[i].watchdog = v] = [B EXCEPT !.s[i] = s3]
    OBVIOUS
  <1> QED
    BY <1>3, <1>4

(* session.detach.                                                         *)
LEMMA KeepsDetach ==
    ASSUME NEW B, NEW d \in Nat, BrokerOK(B, d), StreamOK(B), NEW i \in Dials,
           NEW t \in 0 .. MaxTunnels
    PROVE  Keeps(B, Detach(B, i, t))
  <1> DEFINE C == [B EXCEPT !.s[i].tconn = 0]
  <1>1. B \in BrokerType /\ 0 \in 0 .. MaxTunnels
    BY BoundsAssumption DEF BrokerOK
  <1>2. Keeps(B, C) /\ StreamOK(C)
    BY <1>1, KeepsRebind DEF Keeps
  <1>3. C \in BrokerType
    BY <1>1, RebindOK DEF BrokerOK
  <1>4. Keeps(B, Wake(C))
    <2> HIDE DEF C
    <2> QED
      BY <1>2, <1>3, KeepsWake, KeepsTrans
  <1>5. Keeps(B, B)
    BY DEF Keeps, SameStreams
  <1>6. Detach(B, i, t) \in {B, C, Wake(C)}
    BY DEF Detach
  <1> QED
    BY <1>2, <1>4, <1>5, <1>6

(* A frame written to a tunnel carries bytes of a source.                  *)
LEMMA KeepsWrite ==
    ASSUME NEW B, NEW d \in Nat, BrokerOK(B, d), StreamOK(B), NEW t \in 0 .. MaxTunnels,
           NEW f \in Frame, Of(f.data, Sources(B.s))
    PROVE  Keeps(B, [B EXCEPT !.q = WriteFrame(@, t, f)])
  <1> DEFINE C == [B EXCEPT !.q = WriteFrame(@, t, f)]
             Y == Sources(B.s)
  <1>1. B \in BrokerType /\ B.q \in [Tunnels -> Seq(Frame)]
    BY DEF BrokerOK, BrokerType
  <1>2. C.s = B.s /\ C.cur = B.cur /\ C.q = WriteFrame(B.q, t, f)
    BY <1>1 DEF BrokerType
  <1> HIDE DEF C, Y
  <1>3. ASSUME NEW u \in Tunnels
        PROVE  Carries(C.q[u], Y)
    <2>1. Carries(B.q[u], Y)
      BY DEF StreamOK, Y
    <2>2. Carries(Append(B.q[u], OnWire(f)), Y)
      BY <1>1, <2>1, OnWireQueue, AppendQueue DEF Y
    <2> QED
      BY <1>1, <1>2, <2>1, <2>2, WriteFrameAt
  <1>4. SameStreams(B, C)
    BY <1>2 DEF SameStreams
  <1>5. Keeps(B, C)
    BY <1>2, <1>3, <1>4, KeepsRule DEF Y
  <1> QED
    BY <1>5 DEF C

(* session.sendToSidecar.                                                  *)
LEMMA KeepsSend ==
    ASSUME NEW B, NEW d \in Nat, BrokerOK(B, d), StreamOK(B), NEW i \in Dials,
           NEW f \in Frame, Positioned(f.data, f.off), Of(f.data, Sources(B.s)),
           NEW ok \in BOOLEAN
    PROVE  Keeps(B, SendToSidecar(B, i, f, ok))
  <1> DEFINE t == B.s[i].tconn
             C == [B EXCEPT !.q = WriteFrame(@, t, f)]
  <1>1. t \in 0 .. MaxTunnels /\ B.q \in [Tunnels -> Seq(Frame)] /\ B \in BrokerType
        /\ \A u \in Tunnels : QueueOK(B.q[u])
    BY DEF BrokerOK, BrokerType, SessionType
  <1>2. BrokerOK(C, d)
    BY <1>1, WriteFrameType, WriteFrameQueues DEF BrokerOK, BrokerType
  <1>3. Keeps(B, C)
    BY <1>1, KeepsWrite
  <1> HIDE DEF C
  <1>4. Keeps(B, Detach(C, i, t))
    BY <1>1, <1>2, <1>3, KeepsDetach, KeepsTrans DEF Keeps
  <1>5. Keeps(B, B)
    BY DEF Keeps, SameStreams
  <1>6. SendToSidecar(B, i, f, ok) \in {B, C, Detach(C, i, t)}
    BY DEF SendToSidecar, C
  <1> QED
    BY <1>3, <1>4, <1>5, <1>6

(* A control frame carries no bytes.                                       *)
LEMMA KeepsSendCtl ==
    ASSUME NEW B, NEW d \in Nat, BrokerOK(B, d), StreamOK(B), NEW i \in Dials,
           NEW type \in FrameType, NEW off \in Nat, NEW ok \in BOOLEAN
    PROVE  /\ Keeps(B, SendToSidecar(B, i, Ctl(type, off), ok))
           /\ BrokerOK(SendToSidecar(B, i, Ctl(type, off), ok), d)
  <1> DEFINE f == Ctl(type, off)
  <1>1. f \in Frame /\ Positioned(f.data, f.off) /\ f.data = <<>>
    BY CtlFrame DEF Ctl
  <1>2. Of(f.data, Sources(B.s))
    BY <1>1, EmptyQueue
  <1> HIDE DEF f
  <1>3. Keeps(B, SendToSidecar(B, i, f, ok)) /\ BrokerOK(SendToSidecar(B, i, f, ok), d)
    BY <1>1, <1>2, KeepsSend, SendToSidecarOK
  <1> QED
    BY <1>3 DEF f

(* session.destroy: of a session that yielded nothing, or has nothing      *)
(* unacknowledged.                                                         *)
LEMMA KeepsDestroy ==
    ASSUME NEW B, NEW d \in Nat, BrokerOK(B, d), StreamOK(B), NEW i \in Dials,
           Yielded(B.s[i]) => B.s[i].downBuf.base > 0
    PROVE  Keeps(B, Destroy(B, i))
  <1> DEFINE C == [B EXCEPT !.s[i].watchdog = FALSE]
             D == Destroy(B, i)
  <1>1. B \in BrokerType
    BY DEF BrokerOK
  <1>2. Keeps(B, C) /\ C.s = [B.s EXCEPT ![i].watchdog = FALSE]
    BY <1>1, KeepsFlags DEF BrokerType
  <1>3. D.s = C.s /\ D.q = B.q /\ D.cur = IF B.cur = i THEN 0 ELSE B.cur
    BY <1>1 DEF Destroy, BrokerType
  <1> HIDE DEF C, D
  <1>4. SameStreams(B, D)
    BY <1>2, <1>3 DEF Keeps, SameStreams
  <1>5. \A t \in Tunnels : Carries(D.q[t], Sources(B.s))
    BY <1>3 DEF StreamOK
  <1>6. Keeps(B, D)
    BY <1>3, <1>4, <1>5, KeepsRule
  <1> QED
    BY <1>6 DEF D

(* session.maybeDestroy: only when downBuf is drained.                     *)
LEMMA KeepsMaybeDestroy ==
    ASSUME NEW B, NEW d \in Nat, BrokerOK(B, d), StreamOK(B), NEW i \in Dials
    PROVE  Keeps(B, MaybeDestroy(B, i))
  <1>1. Keeps(B, B)
    BY DEF Keeps, SameStreams
  <1>2. B.s[i].downBuf \in ReplayBufferType
    BY DEF BrokerOK, BrokerType, SessionType
  <1>3. BufLen(B.s[i].downBuf) = 0 => (Yielded(B.s[i]) => B.s[i].downBuf.base > 0)
    BY <1>2 DEF Yielded, End, ReplayBufferType
  <1> QED
    BY <1>1, <1>3, KeepsDestroy DEF MaybeDestroy

(* session.closeUpstream.                                                  *)
LEMMA KeepsCloseUpstream ==
    ASSUME NEW B, NEW d \in Nat, BrokerOK(B, d), StreamOK(B), NEW i \in Dials,
           NEW ok \in BOOLEAN
    PROVE  Keeps(B, CloseUpstream(B, i, ok))
  <1> DEFINE C == [B EXCEPT !.s[i].downClosed = TRUE]
             D == SendToSidecar(C, i, Ctl("CLOSE", 0), ok)
  <1>1. BrokerOK(C, d) /\ Keeps(B, C)
    BY CloseFlagsOK, KeepsFlags DEF BrokerOK
  <1>2. CloseUpstream(B, i, ok) \in {B, MaybeDestroy(C, i), MaybeDestroy(D, i),
                                     MaybeDestroy(Wake(C), i)}
    BY DEF CloseUpstream
  <1> HIDE DEF C
  <1>3. BrokerOK(D, d) /\ Keeps(B, D)
    BY <1>1, KeepsSendCtl, KeepsTrans DEF Keeps, FrameType
  <1>4. BrokerOK(Wake(C), d) /\ Keeps(B, Wake(C))
    BY <1>1, WakeOK, KeepsWake, KeepsTrans DEF Keeps, BrokerOK
  <1> HIDE DEF D
  <1>5. Keeps(B, B)
    BY DEF Keeps, SameStreams
  <1>6. \A E \in {C, D, Wake(C)} : Keeps(B, MaybeDestroy(E, i))
    BY <1>1, <1>3, <1>4, KeepsMaybeDestroy, KeepsTrans DEF Keeps
  <1> QED
    BY <1>2, <1>5, <1>6

(* tunnelConn.detachAll.                                                   *)
LEMMA KeepsDetachAll ==
    ASSUME NEW B, NEW d \in Nat, BrokerOK(B, d), StreamOK(B), NEW t \in Tunnels
    PROVE  Keeps(B, DetachAll(B, t))
  <1> DEFINE C == DetachAll(B, t)
  <1>1. \A i \in Dials : Keeps(B, Detach(B, i, t))
    BY KeepsDetach DEF Tunnels
  <1>2. C.cur = B.cur /\ C.q = B.q /\ C.s = [i \in Dials |-> Detach(B, i, t).s[i]]
    BY DEF DetachAll, BrokerOK, BrokerType
  <1> HIDE DEF C
  <1>3. SameStreams(B, C)
    BY <1>1, <1>2 DEF Keeps, SameStreams
  <1>4. Keeps(B, C)
    BY <1>2, <1>3, KeepsRule DEF StreamOK
  <1> QED
    BY <1>4 DEF C

-----------------------------------------------------------------------------
(* Buffers.                                                                *)

(* A suffix holds bytes of the same sources.                               *)
LEMMA SuffixOf ==
    ASSUME NEW p \in Seq(Byte), NEW m \in 1 .. Len(p) + 1, NEW Y, Of(p, Y)
    PROVE  /\ Of(SubSeq(p, m, Len(p)), Y)
           /\ Len(SubSeq(p, m, Len(p))) = Len(p) - m + 1
  <1> DEFINE q == SubSeq(p, m, Len(p))
  <1>3. Len(q) = Len(p) - m + 1
    OBVIOUS
  <1>1. \A k \in 1 .. Len(q) : m + k - 1 \in 1 .. Len(p) /\ q[k] = p[m + k - 1]
    OBVIOUS
  <1> HIDE DEF q
  <1>2. Of(q, Y)
    BY <1>1 DEF Of
  <1> QED
    BY <1>2, <1>3 DEF q

(* ReplayBuffer.TrimTo keeps End, and does nothing at offset zero.         *)
LEMMA TrimToOf ==
    ASSUME NEW b \in ReplayBufferType, NEW off \in Nat, NEW Y, Of(b.buf, Y)
    PROVE  /\ Of(TrimTo(b, off).buf, Y) /\ End(TrimTo(b, off)) = End(b)
           /\ off = 0 => TrimTo(b, off) = b
  <1>1. b.base \in Nat /\ b.buf \in Seq(Byte) /\ Len(b.buf) \in Nat
    BY DEF ReplayBufferType
  <1>2. CASE off <= b.base
    BY <1>2 DEF TrimTo
  <1>3. CASE off > b.base /\ off >= End(b)
    <2>1. TrimTo(b, off) = [base |-> End(b), buf |-> <<>>]
      BY <1>1, <1>3 DEF TrimTo
    <2>2. End(b) \in Nat
      BY <1>1 DEF End, BufLen
    <2>3. TrimTo(b, off).buf = <<>> /\ TrimTo(b, off).base = End(b)
      BY <2>1
    <2>4. End(TrimTo(b, off)) = End(b) + 0
      BY <2>3 DEF End, BufLen
    <2> QED
      BY <1>1, <1>3, <2>2, <2>3, <2>4, EmptyQueue
  <1>4. CASE off > b.base /\ off < End(b)
    <2> DEFINE m == off - b.base + 1
               q == SubSeq(b.buf, m, Len(b.buf))
    <2>1. m \in 1 .. Len(b.buf) + 1
      BY <1>1, <1>4 DEF End, BufLen
    <2>2. TrimTo(b, off) = [base |-> off, buf |-> q]
      BY <1>1, <1>4 DEF TrimTo, End, BufLen
    <2>3. Len(q) = Len(b.buf) - m + 1 /\ Of(q, Y)
      BY <1>1, <2>1, SuffixOf
    <2> HIDE DEF q
    <2>4. TrimTo(b, off).base = off /\ TrimTo(b, off).buf = q
      BY <2>2
    <2>5. End(TrimTo(b, off)) = off + Len(q)
      BY <2>4 DEF End, BufLen
    <2> QED
      BY <1>1, <1>4, <2>3, <2>4, <2>5 DEF End, BufLen
  <1> QED
    BY <1>1, <1>2, <1>3, <1>4 DEF End, BufLen

(* What onSidecarAttach replays are bytes of the session's own connection. *)
LEMMA AttachReplays ==
    ASSUME NEW s \in SessionType, NEW i \in Dials, NEW off \in Nat, NEW Y,
           Of(s.downBuf.buf, {i}), Yielded(s) => i \in Y
    PROVE  Replays(<<AttachHandler(s, i, off)>>, Y)
  <1> DEFINE b == s.downBuf
             p == IF FromOK(b, off) THEN From(b, off) ELSE <<>>
             h == AttachHandler(s, i, off)
  <1>1. b.base \in Nat /\ b.buf \in Seq(Byte) /\ Len(b.buf) \in Nat
    BY DEF SessionType, ReplayBufferType
  <1>2. Of(p, Y)
    <2>1. CASE FromOK(b, off)
      <3> DEFINE m == off - b.base + 1
      <3>6. p = SubSeq(b.buf, m, Len(b.buf))
        BY <2>1 DEF From, BufLen
      <3>7. m \in 1 .. Len(b.buf) + 1
        <4> HIDE DEF b
        <4> QED
          BY <1>1, <2>1 DEF FromOK, End, BufLen
      <3>1. m \in 1 .. Len(b.buf) + 1 /\ p = SubSeq(b.buf, m, Len(b.buf))
        BY <3>6, <3>7
      <3> HIDE DEF b, m, p
      <3>5. Of(b.buf, {i})
        BY DEF b
      <3>2. Of(p, {i}) /\ Len(p) = Len(b.buf) - m + 1
        BY <1>1, <3>1, <3>5, SuffixOf
      <3>3. Len(p) \in Nat /\ Len(p) <= Len(b.buf)
        BY <1>1, <3>1, <3>2
      <3>4. 1 .. Len(p) # {} => i \in Y
        BY <1>1, <3>3 DEF Yielded, End, BufLen, b
      <3> QED
        BY <3>2, <3>4 DEF Of
    <2>2. CASE ~FromOK(b, off)
      BY <2>2, EmptyQueue
    <2> QED
      BY <2>1, <2>2
  <1>3. h.data = p
    BY DEF AttachHandler
  <1> HIDE DEF h, p
  <1>4. Replays(<<h>>, Y)
    BY <1>2, <1>3 DEF Replays
  <1> QED
    BY <1>4 DEF h

-----------------------------------------------------------------------------
(* Steps of the broker.                                                    *)
Drains(q, r) ==
    /\ Begun(q) => Begun(r)
    /\ HasRestart(r) => HasRestart(q)
    /\ NoData(q) => NoData(r)

(* What a step of the broker has to show.                                  *)
LEMMA BrokerStream ==
    ASSUME OInv, OneLine', UNCHANGED sidecarVars,
           StreamOK(Broker'), Sources(bs) \subseteq Sources(bs'),
           \A t \in Tunnels : Drains(upq[t], upq'[t]),
           \A t \in Tunnels :
              HasRestart(upq'[t]) => \A i \in Dials : bs'[i].downBuf.base = 0,
           ~Opened => \A i \in Dials : Untouched(bs'[i], srv'[i]),
           \A t \in Tunnels : Replays(pend'[t], Sources(bs'))
    PROVE  OInv'
  <1>1. cs' = cs /\ wout' = wout /\ rout' = rout /\ agentGot' = agentGot
    BY DEF sidecarVars
  <1>2. Early'
    BY <1>1 DEF OInv, Early, Opened, Drains
  <1>3. Begins'
    BY DEF OInv, Begins, Drains
  <1>4. Of(agentGot', Sources(bs'))
    BY <1>1, MoreSources DEF OInv
  <1> QED
    BY <1>1, <1>2, <1>3, <1>4 DEF OInv

(* A step made of building blocks.                                         *)
LEMMA KeepsStep ==
    ASSUME OInv, OneLine', UNCHANGED sidecarVars, NEW B, Keeps(Broker, B),
           Commit(B), B \in BrokerType,
           \A t \in Tunnels : Drains(upq[t], upq'[t]),
           ~Opened => \A i \in Dials : srv'[i].got = srv[i].got /\ srv'[i].sent = srv[i].sent,
           \A t \in Tunnels : Replays(pend'[t], Sources(bs))
    PROVE  OInv'
  <1>1. Broker' = B /\ bs' = B.s /\ Broker.s = bs
    BY DEF Broker, Commit, BrokerType
  <1>2. StreamOK(Broker') /\ SameStreams(Broker, B)
    BY <1>1 DEF Keeps
  <1>3. \A i \in Dials : bs'[i].downBuf = bs[i].downBuf
    BY <1>1, <1>2 DEF SameStreams
  <1>4. Sources(bs') = Sources(bs)
    BY <1>3 DEF Sources, Yielded
  <1>5. ~Opened => \A i \in Dials : Untouched(bs'[i], srv'[i])
    BY <1>1, <1>2, <1>3 DEF OInv, Early, Untouched, SameStreams, Yielded
  <1>6. \A t \in Tunnels : HasRestart(upq'[t]) => \A i \in Dials : bs'[i].downBuf.base = 0
    BY <1>3 DEF OInv, Begins, Drains
  <1> QED
    BY <1>2, <1>4, <1>5, <1>6, BrokerStream

(* serveTunnel took a frame off tunnel t.                                  *)
LEMMA ServeStream ==
    ASSUME IInv, OInv, NEW t \in Tunnels, NEW type, Serve(t, type)
    PROVE  /\ \A u \in Tunnels : Drains(upq[u], upq'[u])
           /\ type = "DATA" => Opened
           /\ Restart(Head(upq[t])) => \A i \in Dials : bs[i].downBuf.base = 0
           /\ type = "ACK" /\ (\E u \in Tunnels : HasRestart(upq'[u])) => Head(upq[t]).off = 0
  <1>1. upq \in [Tunnels -> Seq(Frame)] /\ upq[t] # <<>> /\ Head(upq[t]).type = type
        /\ upq' = [upq EXCEPT ![t] = Tail(upq[t])]
    BY SidecarFacts DEF Serve
  <1>2. \A u \in Tunnels : Drains(upq[u], upq'[u])
    BY <1>1, TailQueue DEF Drains
  <1>3. type = "DATA" => Opened
    BY <1>1, TailQueue DEF OInv, Early
  <1>4. Restart(Head(upq[t])) => \A i \in Dials : bs[i].downBuf.base = 0
    BY <1>1, TailQueue DEF OInv, Begins
  <1>5. ASSUME type = "ACK", NEW u \in Tunnels, HasRestart(upq'[u])
        PROVE  Head(upq[t]).off = 0
    <2>1. HasRestart(upq[u])
      BY <1>2, <1>5 DEF Drains
    <2>2. upq[u] # <<>>
      BY <2>1, EmptyQueue
    <2>3. u = t
      BY <1>1, <2>2 DEF OInv, OneLine
    <2>4. Begun(upq[t]) /\ HasRestart(Tail(upq[t]))
      BY <1>1, <1>5, <2>3 DEF OInv, Begins
    <2> QED
      BY <1>1, <1>5, <2>4, TailQueue
  <1> QED
    BY <1>2, <1>3, <1>4, <1>5

(* Nothing was served.                                                     *)
LEMMA NotServed ==
    ASSUME upq' = upq
    PROVE  \A t \in Tunnels : Drains(upq[t], upq'[t])
  BY DEF Drains

(* What OInv says of the broker.                                           *)
LEMMA StreamFacts ==
    ASSUME IInv, OInv
    PROVE  /\ StreamOK(Broker) /\ OneSource(bs, cur) /\ Owned(bs)
           /\ Broker \in BrokerType /\ Broker.s = bs /\ Broker.q = downq /\ Broker.cur = cur
           /\ \A t \in Tunnels : Replays(pend[t], Sources(bs))
           /\ \A t \in Tunnels : Carries(downq[t], Sources(bs))
  <1>1. Broker.s = bs /\ Broker.q = downq /\ Broker.cur = cur
    BY DEF Broker
  <1>2. StreamOK(Broker) /\ Broker \in BrokerType
    BY DEF OInv, IInv, BrokerOK
  <1> QED
    BY <1>1, <1>2 DEF StreamOK, OInv

(* A frame loop enters or leaves a handler.                                *)
LEMMA PendReplays ==
    ASSUME IInv, NEW Y, \A t \in Tunnels : Replays(pend[t], Y),
           NEW t \in Tunnels, NEW h, Replays(h, Y), pend' = [pend EXCEPT ![t] = h]
    PROVE  \A u \in Tunnels : Replays(pend'[u], Y)
  BY BrokerFacts

(* newSession: the broker has no session and none of the old ones yielded  *)
(* a byte, so the new one starts the agent's stream.                       *)
LEMMA CreateStream ==
    ASSUME IInv, OInv, OneLine', UNCHANGED sidecarVars, cur = 0, NextDial \in Dials,
           NEW t \in Tunnels, Commit(Create(Broker, t)), srv' = srv,
           \A i \in Dials : bs[i].downBuf.base = 0,
           \A u \in Tunnels : Drains(upq[u], upq'[u]),
           \A u \in Tunnels : Replays(pend[u], {}) => Replays(pend'[u], {})
    PROVE  OInv'
  <1> DEFINE s == NewSession(t)
  <1>1. bs \in [Dials -> SessionType] /\ 0 \notin Dials
    BY BrokerFacts DEF Dials
  <1>2. bs' = [bs EXCEPT ![NextDial] = s] /\ cur' = NextDial /\ downq' = downq
    BY DEF Commit, Create, Broker
  <1>3. s.downBuf = NewReplayBuffer /\ s.preConn = <<>>
    BY NewSessionOK DEF Tunnels, NewSession
  <1> HIDE DEF s
  <1>4. s.downBuf.base = 0 /\ s.downBuf.buf = <<>> /\ ~Yielded(s)
    BY <1>3 DEF NewReplayBuffer, Yielded, End, BufLen
  <1>5. \A i \in Dials : ~Yielded(bs[i])
    BY <1>1, StreamFacts DEF OneSource
  <1>6. \A i \in Dials : ~Yielded(bs'[i]) /\ bs'[i].downBuf.base = 0
    BY <1>1, <1>2, <1>4, <1>5
  <1>7. Sources(bs) = {} /\ Sources(bs') = {}
    BY <1>5, <1>6 DEF Sources
  <1>8. Owned(bs')
    BY <1>1, <1>2, <1>4, StreamFacts, EmptyQueue DEF Owned
  <1>9. StreamOK(Broker')
    <2>1. OneSource(bs', cur')
      BY <1>6 DEF OneSource
    <2>2. \A u \in Tunnels : Carries(downq'[u], Sources(bs'))
      BY <1>2, <1>7, StreamFacts
    <2> QED
      BY <1>8, <2>1, <2>2 DEF StreamOK, Broker
  <1>10. ~Opened => \A i \in Dials : Untouched(bs'[i], srv'[i])
    BY <1>1, <1>2, <1>3, <1>4 DEF OInv, Early, Untouched
  <1>11. \A u \in Tunnels : Replays(pend'[u], Sources(bs'))
    BY <1>7, StreamFacts
  <1> QED
    BY <1>6, <1>7, <1>9, <1>10, <1>11, BrokerStream

(* bind and onSidecarAttach on the session in the map.                     *)
LEMMA AttachStream ==
    ASSUME IInv, OInv, OneLine', UNCHANGED sidecarVars, cur # 0, NEW t \in Tunnels,
           NEW off \in Nat, Commit(Bind(Broker, cur, t)), srv' = srv,
           pend' = [pend EXCEPT ![t] = <<AttachHandler(bs[cur], cur, off)>>],
           \A u \in Tunnels : Drains(upq[u], upq'[u])
    PROVE  OInv'
  <1>1. cur \in Dials /\ bs[cur] \in SessionType /\ t \in 0 .. MaxTunnels
    BY BrokerFacts DEF Tunnels
  <1>2. Keeps(Broker, Bind(Broker, cur, t))
    BY <1>1, StreamFacts, KeepsRebind DEF Bind
  <1>3. Bind(Broker, cur, t) \in BrokerType
    BY <1>1, BrokerFacts, BindOK DEF BrokerOK
  <1>4. Replays(<<AttachHandler(bs[cur], cur, off)>>, Sources(bs))
    <2>1. Of(bs[cur].downBuf.buf, {cur}) /\ (Yielded(bs[cur]) => cur \in Sources(bs))
      BY <1>1, StreamFacts DEF Owned, Sources
    <2> QED
      BY <1>1, <2>1, AttachReplays
  <1>5. \A u \in Tunnels : Replays(pend'[u], Sources(bs))
    BY <1>4, StreamFacts, PendReplays
  <1> QED
    BY <1>2, <1>3, <1>5, KeepsStep

(* openSession.                                                            *)
LEMMA HandleOpenStream ==
    ASSUME IInv, OInv, OneLine', NEW t \in Tunnels, HandleOpen(t)
    PROVE  OInv'
  <1>1. Serve(t, "OPEN") /\ UNCHANGED sidecarVars /\ srv' = srv
    BY DEF HandleOpen
  <1>2. Restart(Head(upq[t]))
    BY <1>1 DEF Serve, Restart
  <1>3. /\ \A u \in Tunnels : Drains(upq[u], upq'[u])
        /\ \A i \in Dials : bs[i].downBuf.base = 0
    BY <1>1, <1>2, ServeStream
  <1>4. CASE cur # 0
    BY <1>1, <1>3, <1>4, AttachStream DEF HandleOpen
  <1>5. CASE cur = 0
    BY <1>1, <1>3, <1>5, CreateStream DEF HandleOpen
  <1> QED
    BY <1>4, <1>5

(* attachSession.                                                          *)
LEMMA HandleAttachStream ==
    ASSUME IInv, OInv, OneLine', NEW t \in Tunnels, HandleAttach(t)
    PROVE  OInv'
  <1> DEFINE off == Head(upq[t]).off
  <1>1. Serve(t, "ATTACH") /\ UNCHANGED sidecarVars /\ srv' = srv
    BY DEF HandleAttach
  <1>2. \A u \in Tunnels : Drains(upq[u], upq'[u])
    BY <1>1, ServeStream
  <1>3. off \in Nat
    BY <1>1, ServeOK DEF Frame
  <1>4. CASE cur # 0
    BY <1>1, <1>2, <1>3, <1>4, AttachStream DEF HandleAttach
  <1>5. CASE cur = 0 /\ off = 0
    <2> DEFINE h == AttachHandler(NewSession(t), NextDial, 0)
    <2>1. Restart(Head(upq[t]))
      BY <1>1, <1>5 DEF Serve, Restart
    <2>2. \A i \in Dials : bs[i].downBuf.base = 0
      BY <1>1, <2>1, ServeStream
    <2>3. NextDial \in Dials /\ Commit(Create(Broker, t)) /\ pend' = [pend EXCEPT ![t] = <<h>>]
      BY <1>5 DEF HandleAttach
    <2>4. NewSession(t) \in SessionType /\ NewSession(t).downBuf = NewReplayBuffer
      BY NewSessionOK DEF Tunnels
    <2>5. ~Yielded(NewSession(t)) /\ NewSession(t).downBuf.buf = <<>>
      BY <2>4 DEF NewReplayBuffer, Yielded, End, BufLen
    <2>6. Replays(<<h>>, {})
      BY <2>3, <2>4, <2>5, AttachReplays, EmptyQueue
    <2> HIDE DEF h
    <2>7. \A u \in Tunnels : Replays(pend[u], {}) => Replays(pend'[u], {})
      BY <2>3, <2>6, BrokerFacts
    <2> QED
      BY <1>1, <1>2, <1>5, <2>2, <2>3, <2>7, CreateStream
  <1>6. CASE cur = 0 /\ off # 0
    <2> DEFINE f == Ctl("LOST", 0)
               B == [Broker EXCEPT !.q = WriteFrame(@, t, f)]
    <2>1. f \in Frame /\ f.data = <<>> /\ t \in 0 .. MaxTunnels
      BY CtlFrame DEF FrameType, Tunnels, Ctl
    <2>2. Of(f.data, Sources(Broker.s))
      BY <2>1, EmptyQueue
    <2>3. Commit(B) /\ pend' = pend
      BY <1>6 DEF HandleAttach
    <2> HIDE DEF f
    <2>4. Keeps(Broker, B)
      BY <2>1, <2>2, BrokerFacts, StreamFacts, KeepsWrite
    <2>5. B \in BrokerType
      BY <2>1, StreamFacts, WriteFrameType DEF BrokerType
    <2> HIDE DEF B
    <2> QED
      BY <1>1, <1>2, <2>3, <2>4, <2>5, StreamFacts, KeepsStep
  <1> QED
    BY <1>4, <1>5, <1>6

(* onSidecarAttach after its Unlock.                                       *)
LEMMA FinishAttachStream ==
    ASSUME IInv, OInv, OneLine', NEW t \in Tunnels, NEW ok \in BOOLEAN, FinishAttach(t, ok)
    PROVE  OInv'
  <1> DEFINE d == cs.downDelivered
             h == pend[t][1]
             B1 == SendToSidecar(Broker, h.i, Ctl("ATTACH_OK", h.written), ok)
             B2 == IF h.data = <<>> THEN B1
                   ELSE SendToSidecar(B1, h.i, Data(h.off, h.data), ok)
             B3 == IF h.close THEN SendToSidecar(B2, h.i, Ctl("CLOSE", 0), ok) ELSE B2
  <1>1. h \in Handler /\ HandlerOK(h) /\ h.op = "onAttach" /\ 1 \in 1 .. Len(pend[t])
    BY BrokerFacts DEF FinishAttach
  <1>2. h.i \in Dials /\ h.written \in Nat /\ h.off \in Nat /\ h.data \in Seq(Byte)
        /\ Positioned(h.data, h.off)
    BY <1>1 DEF Handler, HandlerOK
  <1>3. Of(h.data, Sources(bs))
    BY <1>1, StreamFacts DEF Replays
  <1>4. Commit(B3) /\ UNCHANGED <<sidecarVars, upq, srv>> /\ pend' = [pend EXCEPT ![t] = <<>>]
    BY DEF FinishAttach
  <1>5. d \in Nat /\ BrokerOK(Broker, d) /\ StreamOK(Broker) /\ Keeps(Broker, Broker)
    BY BrokerFacts, StreamFacts DEF Keeps, SameStreams
  <1>6. BrokerOK(B1, d) /\ Keeps(Broker, B1)
    BY <1>2, <1>5, KeepsSendCtl DEF FrameType
  <1> HIDE DEF d, h, B1
  <1>7. Sources(B1.s) = Sources(bs)
    BY <1>6 DEF Keeps, SameStreams, Broker, Sources, Yielded
  <1>8. Data(h.off, h.data) \in Frame /\ Data(h.off, h.data).data = h.data
        /\ Data(h.off, h.data).off = h.off
    BY <1>2, DataFrame
  <1>9. BrokerOK(B2, d) /\ Keeps(Broker, B2)
    BY <1>2, <1>3, <1>5, <1>6, <1>7, <1>8, SendToSidecarOK, KeepsSend, KeepsTrans DEF Keeps
  <1> HIDE DEF B2
  <1>10. BrokerOK(B3, d) /\ Keeps(Broker, B3)
    <2> DEFINE C == SendToSidecar(B2, h.i, Ctl("CLOSE", 0), ok)
    <2>1. StreamOK(B2) /\ "CLOSE" \in FrameType /\ 0 \in Nat
      BY <1>9 DEF Keeps, FrameType
    <2>2. BrokerOK(C, d) /\ Keeps(B2, C)
      BY <1>2, <1>5, <1>9, <2>1, KeepsSendCtl
    <2> HIDE DEF C
    <2>3. Keeps(Broker, C)
      BY <1>9, <2>2, KeepsTrans
    <2> QED
      BY <1>9, <2>2, <2>3 DEF C
  <1> HIDE DEF B3
  <1>11. \A u \in Tunnels : Replays(pend'[u], Sources(bs))
    BY <1>4, StreamFacts, PendReplays, EmptyQueue
  <1> QED
    BY <1>4, <1>10, <1>11, NotServed, KeepsStep DEF BrokerOK

(* A step that sends nothing and leaves every downBuf and the map alone.   *)
LEMMA LocalStream ==
    ASSUME IInv, OInv, OneLine', UNCHANGED <<sidecarVars, downq, cur>>,
           \A i \in Dials : /\ bs'[i].downBuf = bs[i].downBuf
                            /\ Pending(bs'[i]) => Pending(bs[i])
                            /\ ~Opened /\ bs[i].preConn = <<>> => bs'[i].preConn = <<>>,
           \A t \in Tunnels : Drains(upq[t], upq'[t]),
           ~Opened => \A i \in Dials : srv'[i].got = srv[i].got /\ srv'[i].sent = srv[i].sent,
           \A t \in Tunnels : Replays(pend'[t], Sources(bs))
    PROVE  OInv'
  <1>1. \A i \in Dials : Yielded(bs'[i]) <=> Yielded(bs[i])
    BY DEF Yielded
  <1>2. Sources(bs') = Sources(bs)
    BY <1>1 DEF Sources
  <1>3. OneSource(bs', cur') /\ Owned(bs')
    BY <1>1, StreamFacts DEF OneSource, Owned, Pending
  <1>4. StreamOK(Broker')
    BY <1>2, <1>3, StreamFacts DEF StreamOK, Broker
  <1>5. ~Opened => \A i \in Dials : Untouched(bs'[i], srv'[i])
    BY <1>1 DEF OInv, Early, Untouched
  <1>6. \A t \in Tunnels : HasRestart(upq'[t]) => \A i \in Dials : bs'[i].downBuf.base = 0
    BY DEF OInv, Begins, Drains
  <1> QED
    BY <1>2, <1>4, <1>5, <1>6, BrokerStream

(* onData before the dial completed.                                       *)
LEMMA HandleDataEarlyStream ==
    ASSUME IInv, OInv, OneLine', NEW t \in Tunnels, HandleDataEarly(t)
    PROVE  OInv'
  <1> DEFINE f == Head(upq[t])
             p == bs[cur].preConn \o
                    Fresh(f.off, f.data, bs[cur].upstreamWritten + Len(bs[cur].preConn))
  <1>1. Serve(t, "DATA") /\ UNCHANGED <<sidecarVars, downq, cur, pend, srv>>
    BY DEF HandleDataEarly
  <1>2. Opened /\ \A u \in Tunnels : Drains(upq[u], upq'[u])
    BY <1>1, ServeStream
  <1>3. cur \in Dials /\ bs \in [Dials -> SessionType]
    BY BrokerFacts DEF HandleDataEarly
  <1>4. bs' = [bs EXCEPT ![cur].preConn = p]
    BY DEF HandleDataEarly
  <1> HIDE DEF p
  <1>5. \A i \in Dials : bs'[i].downBuf = bs[i].downBuf /\ bs'[i].dial = bs[i].dial
    BY <1>3, <1>4 DEF SessionType
  <1> QED
    BY <1>1, <1>2, <1>5, StreamFacts, LocalStream DEF Pending

(* onData up to the return of upstream.Write.                              *)
LEMMA HandleDataStream ==
    ASSUME IInv, OInv, OneLine', NEW t \in Tunnels, HandleData(t)
    PROVE  OInv'
  <1> DEFINE f == Head(upq[t])
             p == Fresh(f.off, f.data, bs[cur].upstreamWritten)
             h == [op |-> "onData", i |-> cur, off |-> 0, written |-> 0,
                   data |-> p, close |-> FALSE]
  <1>1. Serve(t, "DATA") /\ UNCHANGED <<sidecarVars, downq, cur, bs>>
    BY DEF HandleData
  <1>2. Opened /\ \A u \in Tunnels : Drains(upq[u], upq'[u])
    BY <1>1, ServeStream
  <1>3. pend' = pend \/ pend' = [pend EXCEPT ![t] = <<h>>]
    BY DEF HandleData
  <1>4. Replays(<<h>>, Sources(bs))
    BY DEF Replays
  <1> HIDE DEF h
  <1>5. \A u \in Tunnels : Replays(pend'[u], Sources(bs))
    BY <1>3, <1>4, StreamFacts, PendReplays
  <1> QED
    BY <1>1, <1>2, <1>5, LocalStream

(* ... and when the write fails.                                           *)
LEMMA HandleDataErrorStream ==
    ASSUME IInv, OInv, OneLine', NEW t \in Tunnels, NEW ok \in BOOLEAN, HandleDataError(t, ok)
    PROVE  OInv'
  <1> DEFINE B == CloseUpstream(Broker, cur, ok)
  <1>1. Serve(t, "DATA") /\ UNCHANGED <<sidecarVars, pend, srv>> /\ Commit(B) /\ cur \in Dials
    BY BrokerFacts DEF HandleDataError
  <1>2. \A u \in Tunnels : Drains(upq[u], upq'[u])
    BY <1>1, ServeStream
  <1>3. Keeps(Broker, B) /\ B \in BrokerType
    BY <1>1, BrokerFacts, StreamFacts, KeepsCloseUpstream, CloseUpstreamOK DEF BrokerOK
  <1> HIDE DEF B
  <1> QED
    BY <1>1, <1>2, <1>3, StreamFacts, KeepsStep

(* Some fields of a session change, then a control frame is sent for it.   *)
LEMMA SessionThenCtl ==
    ASSUME IInv, OInv, NEW i \in Dials, NEW s \in SessionType,
           s.downBuf = bs[i].downBuf, Pending(s) => Pending(bs[i]),
           ~Opened /\ bs[i].preConn = <<>> => s.preConn = <<>>,
           NEW type \in FrameType, NEW off \in Nat, NEW ok \in BOOLEAN
    PROVE  LET B == SendToSidecar([Broker EXCEPT !.s[i] = s], i, Ctl(type, off), ok)
           IN  BrokerOK(B, cs.downDelivered) /\ Keeps(Broker, B)
  <1> DEFINE C == [Broker EXCEPT !.s[i] = s]
             B == SendToSidecar(C, i, Ctl(type, off), ok)
             d == cs.downDelivered
  <1>1. d \in Nat /\ BrokerOK(C, d)
    BY BrokerFacts, BrokerUpdateOK
  <1>2. Keeps(Broker, C)
    BY StreamFacts, KeepsSession
  <1> HIDE DEF C, d
  <1>3. BrokerOK(B, d) /\ Keeps(C, B)
    BY <1>1, <1>2, KeepsSendCtl DEF Keeps
  <1> HIDE DEF B
  <1>4. Keeps(Broker, B)
    BY <1>2, <1>3, KeepsTrans
  <1> QED
    BY <1>3, <1>4 DEF B, C, d

(* onData after upstream.Write.                                            *)
LEMMA FinishDataStream ==
    ASSUME IInv, OInv, OneLine', NEW t \in Tunnels, NEW ok \in BOOLEAN, FinishData(t, ok)
    PROVE  OInv'
  <1> DEFINE h == pend[t][1]
             i == h.i
             written == bs[i].upstreamWritten + Len(h.data)
             s == [bs[i] EXCEPT !.upstreamWritten = written,
                                !.requestOutstanding = TRUE, !.watchdog = TRUE]
             B == SendToSidecar([Broker EXCEPT !.s[i] = s], i, Ctl("ACK", written), ok)
  <1>1. h \in Handler
    BY BrokerFacts DEF FinishData
  <1>2. i \in Dials /\ h.data \in Seq(Byte)
    BY <1>1 DEF Handler
  <1>3. bs[i] \in SessionType /\ bs \in [Dials -> SessionType] /\ Broker.s = bs
    BY <1>2, BrokerFacts DEF Broker
  <1>4. written \in Nat
    BY <1>2, <1>3 DEF SessionType
  <1>5. Commit(B)
    <2>1. [Broker EXCEPT !.s[i].upstreamWritten = written,
                        !.s[i].requestOutstanding = TRUE, !.s[i].watchdog = TRUE]
            = [Broker EXCEPT !.s[i] = s]
      <3> HIDE DEF written, i
      <3>1. [bs EXCEPT ![i].upstreamWritten = written,
                       ![i].requestOutstanding = TRUE, ![i].watchdog = TRUE]
              = [bs EXCEPT ![i] = s]
        BY <1>2, <1>3 DEF SessionType
      <3> QED
        BY <1>3, <3>1 DEF Broker
    <2> QED
      BY <2>1 DEF FinishData
  <1> HIDE DEF written
  <1>6. s \in SessionType /\ s.downBuf = bs[i].downBuf /\ s.dial = bs[i].dial
        /\ s.preConn = bs[i].preConn
    BY <1>3, <1>4 DEF SessionType
  <1> HIDE DEF s
  <1>7. BrokerOK(B, cs.downDelivered) /\ Keeps(Broker, B)
    BY <1>2, <1>4, <1>6, SessionThenCtl DEF Pending, FrameType
  <1> HIDE DEF B
  <1>8. UNCHANGED <<sidecarVars, upq, srv>> /\ pend' = [pend EXCEPT ![t] = <<>>]
    BY DEF FinishData
  <1>9. \A u \in Tunnels : Replays(pend'[u], Sources(bs))
    BY <1>8, StreamFacts, PendReplays, EmptyQueue
  <1> QED
    BY <1>5, <1>7, <1>8, <1>9, NotServed, KeepsStep DEF BrokerOK

(* onDownstreamAck: what it drops, the agent has; the frames still to be   *)
(* served cannot recreate the session.                                     *)
LEMMA HandleAckStream ==
    ASSUME IInv, OInv, OneLine', NEW t \in Tunnels, HandleAck(t)
    PROVE  OInv'
  <1> DEFINE off == Head(upq[t]).off
             b == TrimTo(bs[cur].downBuf, off)
             r == bs[cur].requestOutstanding /\ BufLen(b) # 0
  <1>1. Serve(t, "ACK") /\ UNCHANGED <<sidecarVars, downq, cur, pend, srv>>
    BY DEF HandleAck
  <1>2. cur \in Dials /\ bs \in [Dials -> SessionType] /\ 0 \notin Dials
    BY BrokerFacts DEF HandleAck, Dials
  <1>3. off \in Nat
    BY <1>1, ServeOK DEF Frame
  <1>4. bs[cur].downBuf \in ReplayBufferType /\ Of(bs[cur].downBuf.buf, {cur})
    BY <1>2, StreamFacts DEF SessionType, Owned
  <1>5. /\ Of(b.buf, {cur}) /\ End(b) = End(bs[cur].downBuf)
        /\ off = 0 => b = bs[cur].downBuf
    BY <1>3, <1>4, TrimToOf
  <1>6. bs' = [bs EXCEPT ![cur].downBuf = b, ![cur].requestOutstanding = r]
    BY <1>2 DEF HandleAck
  <1>7. /\ \A u \in Tunnels : Drains(upq[u], upq'[u])
        /\ (\E u \in Tunnels : HasRestart(upq'[u])) => off = 0
    BY <1>1, ServeStream
  <1> HIDE DEF off, b, r
  <1>8. /\ \A i \in Dials : bs'[i].dial = bs[i].dial /\ bs'[i].preConn = bs[i].preConn
        /\ \A i \in Dials : i # cur => bs'[i] = bs[i]
        /\ bs'[cur].downBuf = b
    BY <1>2, <1>6 DEF SessionType
  <1>9. \A i \in Dials : Yielded(bs'[i]) <=> Yielded(bs[i])
    BY <1>2, <1>5, <1>8 DEF Yielded
  <1>10. Sources(bs') = Sources(bs)
    BY <1>9 DEF Sources
  <1>11. OneSource(bs', cur')
    BY <1>1, <1>2, <1>8, <1>9, StreamFacts DEF OneSource
  <1>12. Owned(bs')
    BY <1>2, <1>5, <1>8, StreamFacts DEF Owned
  <1>13. StreamOK(Broker')
    BY <1>1, <1>10, <1>11, <1>12, StreamFacts DEF StreamOK, Broker
  <1>14. ~Opened => \A i \in Dials : Untouched(bs'[i], srv'[i])
    BY <1>1, <1>8, <1>9 DEF OInv, Early, Untouched
  <1>15. \A u \in Tunnels : HasRestart(upq'[u]) => \A i \in Dials : bs'[i].downBuf.base = 0
    <2> SUFFICES ASSUME NEW u \in Tunnels, HasRestart(upq'[u]), NEW i \in Dials
                 PROVE  bs'[i].downBuf.base = 0
      OBVIOUS
    <2>1. bs[i].downBuf.base = 0
      BY <1>7 DEF OInv, Begins, Drains
    <2>2. bs'[i].downBuf = bs[i].downBuf
      BY <1>5, <1>7, <1>8
    <2> QED
      BY <2>1, <2>2
  <1> QED
    BY <1>1, <1>7, <1>10, <1>13, <1>14, <1>15, StreamFacts, BrokerStream

(* onSidecarClose.                                                         *)
LEMMA HandleCloseStream ==
    ASSUME IInv, OInv, OneLine', NEW t \in Tunnels, HandleClose(t)
    PROVE  OInv'
  <1> DEFINE C == [Broker EXCEPT !.s[cur].upClosed = TRUE]
             B == MaybeDestroy(C, cur)
  <1>1. Serve(t, "CLOSE") /\ UNCHANGED <<sidecarVars, pend>> /\ Commit(B)
    BY DEF HandleClose
  <1>2. cur \in Dials /\ srv \in [Dials -> ServerConnType] /\ cs.downDelivered \in Nat
    BY BrokerFacts DEF HandleClose
  <1>3. \A u \in Tunnels : Drains(upq[u], upq'[u])
    BY <1>1, ServeStream
  <1>4. BrokerOK(C, cs.downDelivered) /\ Keeps(Broker, C)
    BY <1>2, BrokerFacts, StreamFacts, CloseFlagsOK, KeepsFlags
  <1> HIDE DEF C
  <1>5. B \in BrokerType /\ Keeps(Broker, B)
    BY <1>2, <1>4, DestroyOK, KeepsMaybeDestroy, KeepsTrans DEF Keeps, BrokerOK
  <1> HIDE DEF B
  <1>6. \A i \in Dials : srv'[i].got = srv[i].got /\ srv'[i].sent = srv[i].sent
    BY <1>2 DEF HandleClose, ServerConnType
  <1> QED
    BY <1>1, <1>3, <1>5, <1>6, StreamFacts, KeepsStep

(* lookup finds no session.                                                *)
LEMMA HandleUnknownStream ==
    ASSUME IInv, OInv, OneLine', NEW t \in Tunnels, HandleUnknown(t)
    PROVE  OInv'
  <1>1. PICK type \in {"DATA", "ACK", "CLOSE"} : Serve(t, type)
    BY DEF HandleUnknown
  <1>2. \A u \in Tunnels : Drains(upq[u], upq'[u])
    BY <1>1, ServeStream
  <1>3. UNCHANGED <<sidecarVars, downq, cur, bs, pend, srv>>
    BY DEF HandleUnknown, brokerVars
  <1> QED
    BY <1>2, <1>3, StreamFacts, LocalStream

(* serveTunnel returns.                                                    *)
LEMMA TunnelEndStream ==
    ASSUME IInv, OInv, OneLine', NEW t \in Tunnels, TunnelEnd(t)
    PROVE  OInv'
  <1> DEFINE B == DetachAll(Broker, t)
  <1>1. UNCHANGED <<sidecarVars, pend, srv>> /\ Commit(B) /\ upq' = [upq EXCEPT ![t] = <<>>]
    BY DEF TunnelEnd
  <1>2. \A u \in Tunnels : Drains(upq[u], upq'[u])
    BY <1>1, SidecarFacts, EmptyQueue DEF Drains
  <1>3. B \in BrokerType /\ Keeps(Broker, B)
    BY BrokerFacts, StreamFacts, DetachAllOK, KeepsDetachAll DEF BrokerOK
  <1> HIDE DEF B
  <1> QED
    BY <1>1, <1>2, <1>3, StreamFacts, KeepsStep

-----------------------------------------------------------------------------
(* Steps of a session's goroutines and of the destination.                 *)

(* dialUpstream connected.                                                 *)
LEMMA DialOKStream ==
    ASSUME IInv, OInv, OneLine', NEW i \in Dials, DialOK(i)
    PROVE  OInv'
  <1> DEFINE v == IF bs[i].preConn = <<>> THEN "reading" ELSE "flushing"
  <1>1. UNCHANGED <<sidecarVars, downq, cur, pend, srv>> /\ upq' = upq
        /\ bs' = [bs EXCEPT ![i].dial = v, ![i].watchdog = TRUE] /\ Pending(bs[i])
    BY DEF DialOK, Pending
  <1> HIDE DEF v
  <1>2. /\ \A j \in Dials : bs'[j].downBuf = bs[j].downBuf /\ bs'[j].preConn = bs[j].preConn
        /\ \A j \in Dials : j # i => bs'[j] = bs[j]
    BY <1>1, BrokerFacts DEF SessionType
  <1> QED
    BY <1>1, <1>2, NotServed, StreamFacts, LocalStream

(* The dial goroutine of session i ends.                                   *)
LEMMA KeepsDialDone ==
    ASSUME IInv, OInv, NEW i \in Dials
    PROVE  LET B == [Broker EXCEPT !.s[i].dial = "done"]
           IN  BrokerOK(B, cs.downDelivered) /\ Keeps(Broker, B)
  <1> DEFINE s == [bs[i] EXCEPT !.dial = "done"]
  <1>1. bs[i] \in SessionType /\ Broker.s = bs
    BY BrokerFacts DEF Broker
  <1>2. s \in SessionType /\ s.downBuf = bs[i].downBuf /\ s.preConn = bs[i].preConn
        /\ ~Pending(s)
    BY <1>1 DEF SessionType, Pending
  <1>3. Keeps(Broker, [Broker EXCEPT !.s[i] = s])
    BY <1>1, <1>2, StreamFacts, KeepsSession
  <1>4. [Broker EXCEPT !.s[i].dial = "done"] = [Broker EXCEPT !.s[i] = s]
    BY <1>1
  <1> QED
    BY <1>3, <1>4, DialMoves

(* dialUpstream failed: the session it destroys has yielded nothing.       *)
LEMMA DialFailStream ==
    ASSUME IInv, OInv, OneLine', NEW i \in Dials, NEW ok \in BOOLEAN, DialFail(i, ok)
    PROVE  OInv'
  <1> DEFINE d == cs.downDelivered
             B1 == [Broker EXCEPT !.s[i].dial = "done"]
             B2 == SendToSidecar(B1, i, Ctl("LOST", 0), ok)
             B3 == Destroy(B2, i)
  <1>1. UNCHANGED <<sidecarVars, pend, srv>> /\ upq' = upq /\ Commit(B3) /\ Pending(bs[i])
    BY DEF DialFail, Pending
  <1>2. d \in Nat /\ BrokerOK(B1, d) /\ Keeps(Broker, B1)
    BY KeepsDialDone, BrokerFacts
  <1> HIDE DEF B1, d
  <1>3. "LOST" \in FrameType /\ StreamOK(B1)
    BY <1>2 DEF FrameType, Keeps
  <1>4. BrokerOK(B2, d) /\ Keeps(B1, B2)
    BY <1>2, <1>3, KeepsSendCtl
  <1> HIDE DEF B2
  <1>5. Keeps(Broker, B2)
    BY <1>2, <1>4, KeepsTrans
  <1>6. ~Yielded(B2.s[i])
    <2>1. ~Yielded(bs[i])
      BY <1>1, StreamFacts DEF OneSource, Pending
    <2>2. B2.s[i].downBuf = bs[i].downBuf
      BY <1>5 DEF Keeps, SameStreams, Broker
    <2> QED
      BY <2>1, <2>2 DEF Yielded
  <1>7. B3 \in BrokerType /\ Keeps(B2, B3)
    BY <1>2, <1>4, <1>5, <1>6, DestroyOK, KeepsDestroy DEF Keeps, BrokerOK
  <1> HIDE DEF B3
  <1>8. Keeps(Broker, B3)
    BY <1>5, <1>7, KeepsTrans
  <1> QED
    BY <1>1, <1>7, <1>8, NotServed, StreamFacts, KeepsStep

(* The write of preConn failed, or readUpstreamLoop read EOF.              *)
LEMMA UpstreamClosedStream ==
    ASSUME IInv, OInv, OneLine', NEW i \in Dials, NEW ok \in BOOLEAN,
           FlushError(i, ok) \/ ReadEOF(i, ok)
    PROVE  OInv'
  <1> DEFINE d == cs.downDelivered
             B1 == [Broker EXCEPT !.s[i].dial = "done"]
             B2 == CloseUpstream(B1, i, ok)
  <1>1. UNCHANGED <<sidecarVars, pend, srv>> /\ upq' = upq /\ Commit(B2)
    BY DEF FlushError, ReadEOF
  <1>2. d \in Nat /\ BrokerOK(B1, d) /\ Keeps(Broker, B1)
    BY KeepsDialDone, BrokerFacts
  <1> HIDE DEF B1, d
  <1>3. B2 \in BrokerType /\ Keeps(B1, B2)
    BY <1>2, CloseUpstreamOK, KeepsCloseUpstream DEF Keeps, BrokerOK
  <1> HIDE DEF B2
  <1>4. Keeps(Broker, B2)
    BY <1>2, <1>3, KeepsTrans
  <1> QED
    BY <1>1, <1>3, <1>4, NotServed, StreamFacts, KeepsStep

(* preConn is written.                                                     *)
LEMMA FlushPreStream ==
    ASSUME IInv, OInv, OneLine', NEW i \in Dials, NEW ok \in BOOLEAN, FlushPre(i, ok)
    PROVE  OInv'
  <1> DEFINE written == bs[i].upstreamWritten + Len(bs[i].preConn)
             e == <<>>
             s == [bs[i] EXCEPT !.upstreamWritten = written, !.preConn = e,
                                !.requestOutstanding = TRUE, !.dial = "reading"]
             B == SendToSidecar([Broker EXCEPT !.s[i] = s], i, Ctl("ACK", written), ok)
  <1>1. bs[i] \in SessionType /\ bs \in [Dials -> SessionType] /\ Broker.s = bs
        /\ srv \in [Dials -> ServerConnType]
    BY BrokerFacts DEF Broker
  <1>2. written \in Nat /\ bs[i].preConn \in Seq(Byte) /\ e \in Seq(Byte)
    BY <1>1 DEF SessionType
  <1>3. Commit(B)
    <2>1. [Broker EXCEPT !.s[i].upstreamWritten = written, !.s[i].preConn = e,
                         !.s[i].requestOutstanding = TRUE, !.s[i].dial = "reading"]
            = [Broker EXCEPT !.s[i] = s]
      <3> HIDE DEF written, e
      <3>1. [bs EXCEPT ![i].upstreamWritten = written, ![i].preConn = e,
                       ![i].requestOutstanding = TRUE, ![i].dial = "reading"]
              = [bs EXCEPT ![i] = s]
        BY <1>1 DEF SessionType
      <3> QED
        BY <1>1, <3>1 DEF Broker
    <2> QED
      BY <2>1 DEF FlushPre
  <1>4. ~Opened => \A j \in Dials : srv'[j].got = srv[j].got /\ srv'[j].sent = srv[j].sent
    <2> SUFFICES ASSUME ~Opened
                 PROVE  \A j \in Dials : srv'[j].got = srv[j].got /\ srv'[j].sent = srv[j].sent
      OBVIOUS
    <2>1. bs[i].preConn = <<>> /\ srv[i].got = <<>>
      BY DEF OInv, Early, Untouched
    <2>2. srv' = [srv EXCEPT ![i].got = <<>> \o <<>>] /\ <<>> \o <<>> = <<>>
      BY <2>1 DEF FlushPre
    <2> QED
      BY <1>1, <2>1, <2>2 DEF ServerConnType
  <1> HIDE DEF written
  <1>5. s \in SessionType
    <2> HIDE DEF e
    <2> QED
      BY <1>1, <1>2 DEF SessionType
  <1>6. s.downBuf = bs[i].downBuf /\ s.preConn = <<>> /\ ~Pending(s)
    BY <1>1 DEF SessionType, Pending
  <1> HIDE DEF s
  <1>7. BrokerOK(B, cs.downDelivered) /\ Keeps(Broker, B)
    BY <1>2, <1>5, <1>6, SessionThenCtl DEF FrameType
  <1> HIDE DEF B
  <1>8. UNCHANGED <<sidecarVars, pend>> /\ upq' = upq
    BY DEF FlushPre
  <1> QED
    BY <1>3, <1>4, <1>7, <1>8, NotServed, StreamFacts, KeepsStep DEF BrokerOK

(* The watchdog.                                                           *)
LEMMA WatchdogStream ==
    ASSUME IInv, OInv, OneLine', NEW i \in Dials, WatchdogFire(i)
    PROVE  OInv'
  <1>1. UNCHANGED <<sidecarVars, downq, cur, pend, srv>> /\ upq' = upq
        /\ bs' = [bs EXCEPT ![i].watchdog = FALSE]
    BY DEF WatchdogFire
  <1>2. \A j \in Dials : /\ bs'[j].downBuf = bs[j].downBuf /\ bs'[j].preConn = bs[j].preConn
                         /\ bs'[j].dial = bs[j].dial
    BY <1>1, BrokerFacts DEF SessionType
  <1> QED
    BY <1>1, <1>2, NotServed, StreamFacts, LocalStream DEF Pending

(* The destination answers nothing it has not been asked.                  *)
LEMMA ServerStream ==
    ASSUME IInv, OInv, OneLine', NEW i \in Dials, ServerSend(i) \/ ServerClose(i)
    PROVE  OInv'
  <1>1. UNCHANGED <<sidecarVars, downq, cur, pend, bs>> /\ upq' = upq
    BY DEF ServerSend, ServerClose
  <1>2. CASE ServerSend(i)
    <2>1. ASSUME ~Opened
          PROVE  FALSE
      <3>1. srv[i].got = <<>> /\ srv[i].sent = 0
        BY <2>1 DEF OInv, Early, Untouched
      <3>2. /\ ReqLen \in Nat \ {0} /\ RespLen \in Nat /\ Rounds \in Nat \ {0}
        BY LengthsAssumption
      <3>3. Len(srv[i].got) \div ReqLen = 0
        BY <3>1, <3>2
      <3>4. ServerOwes(i) = 0 * RespLen - 0
        BY <3>1, <3>2, <3>3 DEF ServerOwes
      <3>5. ServerOwes(i) > 0
        BY <1>2 DEF ServerSend
      <3> QED
        BY <3>2, <3>4, <3>5
    <2> QED
      BY <1>1, <2>1, NotServed, StreamFacts, LocalStream
  <1>3. CASE ServerClose(i)
    <2>1. \A j \in Dials : srv'[j].got = srv[j].got /\ srv'[j].sent = srv[j].sent
      BY <1>3, BrokerFacts DEF ServerClose, ServerConnType
    <2> QED
      BY <1>1, <2>1, NotServed, StreamFacts, LocalStream
  <1> QED
    BY <1>2, <1>3

(* Least is a lower bound.                                                 *)
LEMMA LeastBound ==
    ASSUME NEW a \in Int, NEW b \in Int, NEW c \in Int
    PROVE  Least({a, b, c}) <= a
  <1>1. \E m \in {a, b, c} : \A k \in {a, b, c} : m <= k
    <2>1. CASE a <= b /\ a <= c
      BY <2>1
    <2>2. CASE b <= a /\ b <= c
      BY <2>2
    <2>3. CASE c <= a /\ c <= b
      BY <2>3
    <2> QED
      BY <2>1, <2>2, <2>3
  <1> QED
    BY <1>1 DEF Least

(* The bytes of connection i.                                              *)
LEMMA ServerBytesOf ==
    ASSUME NEW i \in Dials, NEW from \in Nat, NEW n \in Nat
    PROVE  Len(ServerBytes(i, from, n)) = n /\ Of(ServerBytes(i, from, n), {i})
  <1> DEFINE p == ServerBytes(i, from, n)
  <1>1. p = [k \in 1 .. n |-> <<i, from + k>>] /\ p \in Seq(Byte)
    BY ServerBytesOK DEF ServerBytes
  <1> HIDE DEF p
  <1>2. Len(p) = n /\ \A k \in 1 .. n : p[k][1] = i
    BY <1>1
  <1> QED
    BY <1>2 DEF Of, p

(* Appending bytes of the same source.                                     *)
LEMMA ConcatOf ==
    ASSUME NEW p \in Seq(Byte), NEW q \in Seq(Byte), NEW Y, Of(p, Y), Of(q, Y)
    PROVE  Of(p \o q, Y) /\ Len(p \o q) = Len(p) + Len(q)
  <1>1. Len(p \o q) = Len(p) + Len(q) /\ Len(p) \in Nat /\ Len(q) \in Nat
    OBVIOUS
  <1>2. ASSUME NEW k \in 1 .. Len(p \o q)
        PROVE  (p \o q)[k][1] \in Y
    <2>1. CASE k <= Len(p)
      BY <1>1, <2>1 DEF Of
    <2>2. CASE k > Len(p)
      <3>1. k - Len(p) \in 1 .. Len(q) /\ (p \o q)[k] = q[k - Len(p)]
        BY <1>1, <2>2
      <3> QED
        BY <3>1 DEF Of
    <2> QED
      BY <2>1, <2>2
  <1> QED
    BY <1>1, <1>2 DEF Of

(* produceDownstream: the session in the map is the only one that yields.  *)
LEMMA ProduceStream ==
    ASSUME IInv, OInv, OneLine', NEW i \in Dials, NEW ok \in BOOLEAN, Produce(i, ok)
    PROVE  OInv'
  <1> DEFINE b   == bs[i].downBuf
             off == End(b)
             n   == Least({srv[i].sent - off, ReadMax, Free(b, DownCap)})
             p   == ServerBytes(i, off, n)
             t   == bs[i].tconn
             u   == IF ok THEN t ELSE 0
             c   == AppendTo(b, p)
             f   == Data(off, p)
  <1>1. bs[i] \in SessionType /\ bs \in [Dials -> SessionType] /\ srv[i] \in ServerConnType
        /\ downq \in [Tunnels -> Seq(Frame)] /\ 0 \notin Dials
    <2>1. 0 \notin Dials
      BY DEF Dials
    <2> QED
      BY <2>1, BrokerFacts, SidecarFacts
  <1>2. b \in ReplayBufferType /\ t \in 0 .. MaxTunnels /\ srv[i].sent \in Nat
    BY <1>1 DEF SessionType, ServerConnType
  <1>3. b.base \in Nat /\ b.buf \in Seq(Byte) /\ off \in Nat /\ off = b.base + Len(b.buf)
    <2>1. b.base \in Nat /\ b.buf \in Seq(Byte)
      BY <1>2 DEF ReplayBufferType
    <2>2. off = b.base + Len(b.buf)
      BY DEF End, BufLen
    <2> HIDE DEF off, b
    <2> QED
      BY <2>1, <2>2
  <1>4. srv[i].sent - off \in Int /\ ReadMax \in Int /\ Free(b, DownCap) \in Int
    <2>1. ReadMax \in Nat /\ DownCap \in Nat
      BY LengthsAssumption
    <2> HIDE DEF b, off
    <2> QED
      BY <1>2, <1>3, <2>1 DEF Free, BufLen
  <1>5. n > 0 /\ n <= srv[i].sent - off /\ n \in Int
    BY <1>4, LeastBound, LeastOfThree DEF Produce
  <1>6. n \in Nat
    <2> HIDE DEF n
    <2> QED
      BY <1>5
  <1>7. p \in Seq(Byte) /\ Len(p) = n /\ Of(p, {i})
    BY <1>3, <1>6, ServerBytesOK, ServerBytesOf
  <1>8. /\ UNCHANGED <<sidecarVars, pend, srv>> /\ upq' = upq
        /\ cur' = cur /\ cur = i /\ bs[i].dial = "reading"
    BY DEF Produce, Commit, Wake, Broker
  <1>9. bs' = [bs EXCEPT ![i].downBuf = c, ![i].tconn = u] /\ downq' = WriteFrame(downq, t, f)
    BY <1>1 DEF Produce, Commit, Wake, Broker
  <1>10. Opened
    <2> SUFFICES ASSUME ~Opened
                 PROVE  FALSE
      OBVIOUS
    <2>1. srv[i].sent = 0
      BY DEF OInv, Early, Untouched
    <2> HIDE DEF n, off
    <2> QED
      BY <1>3, <1>5, <2>1
  <1> HIDE DEF n, p, off
  <1>11. c = [base |-> b.base, buf |-> b.buf \o p]
    BY <1>2, <1>7, AppendToIs
  <1>12. Of(b.buf, {i})
    BY StreamFacts DEF Owned
  <1>13. c.base = b.base /\ Of(c.buf, {i}) /\ End(c) > 0
    <2> HIDE DEF b
    <2>1. Of(b.buf \o p, {i}) /\ Len(b.buf \o p) = Len(b.buf) + n
      BY <1>3, <1>7, <1>12, ConcatOf
    <2>2. c.base = b.base /\ c.buf = b.buf \o p
      BY <1>11
    <2> QED
      BY <1>3, <1>5, <1>6, <2>1, <2>2 DEF End, BufLen
  <1> HIDE DEF c, u
  <1>14. /\ \A j \in Dials : j # i => bs'[j] = bs[j]
         /\ bs'[i].downBuf = c /\ bs'[i].dial = "reading"
    BY <1>1, <1>8, <1>9 DEF SessionType
  <1>15. \A j \in Dials : j # i => ~Yielded(bs[j]) /\ ~Yielded(bs'[j])
    BY <1>1, <1>8, <1>14, StreamFacts DEF OneSource
  <1>16. Sources(bs) \subseteq Sources(bs') /\ Yielded(bs'[i]) /\ Sources(bs') = {i}
    BY <1>13, <1>14, <1>15 DEF Sources, Yielded
  <1>17. OneSource(bs', cur')
    BY <1>8, <1>14, <1>15 DEF OneSource
  <1>18. Owned(bs')
    BY <1>13, <1>14, StreamFacts DEF Owned
  <1>19. \A v \in Tunnels : Carries(downq'[v], Sources(bs'))
    <2> TAKE v \in Tunnels
    <2>1. Carries(downq[v], Sources(bs'))
      BY <1>16, StreamFacts, MoreSources
    <2>2. f \in Frame /\ Of(f.data, Sources(bs'))
      BY <1>3, <1>7, <1>16, DataFrame
    <2> HIDE DEF f
    <2>3. Carries(Append(downq[v], OnWire(f)), Sources(bs'))
      BY <1>1, <2>1, <2>2, OnWireQueue, AppendQueue
    <2> QED
      BY <1>1, <1>2, <1>9, <2>1, <2>2, <2>3, WriteFrameAt
  <1>20. StreamOK(Broker')
    BY <1>17, <1>18, <1>19 DEF StreamOK, Broker
  <1>21. \A v \in Tunnels : HasRestart(upq'[v]) => \A j \in Dials : bs'[j].downBuf.base = 0
    BY <1>8, <1>13, <1>14 DEF OInv, Begins
  <1>22. \A v \in Tunnels : Replays(pend'[v], Sources(bs'))
    BY <1>8, <1>16, StreamFacts, MoreSources
  <1> QED
    BY <1>8, <1>10, <1>16, <1>20, <1>21, <1>22, NotServed, BrokerStream

-----------------------------------------------------------------------------
(* Steps of the sidecar and of the platform.                               *)

(* What they have to show.                                                 *)
LEMMA SidecarStream ==
    ASSUME IInv, OInv, OneLine', UNCHANGED brokerVars,
           \A t \in Tunnels : Carries(downq'[t], Sources(bs)), Of(agentGot', Sources(bs)),
           \A t \in Tunnels : /\ Begun(upq'[t])
                              /\ HasRestart(upq'[t])
                                   => \A i \in Dials : bs[i].downBuf.base = 0,
           ~HasRestart(wout'), ~HasRestart(rout'), Early'
    PROVE  OInv'
  <1>1. pend' = pend /\ bs' = bs /\ cur' = cur /\ srv' = srv
    BY DEF brokerVars
  <1>2. StreamOK(Broker')
    BY <1>1, StreamFacts DEF StreamOK, Broker
  <1>3. Begins'
    BY <1>1 DEF Begins
  <1> QED
    BY <1>1, <1>2, <1>3, StreamFacts DEF OInv

(* Frames to the broker only leave.                                        *)
LEMMA DrainsBegins ==
    ASSUME OInv, \A t \in Tunnels : Drains(upq[t], upq'[t])
    PROVE  /\ \A t \in Tunnels : /\ Begun(upq'[t])
                                 /\ HasRestart(upq'[t])
                                      => \A i \in Dials : bs[i].downBuf.base = 0
           /\ ~Opened => \A t \in Tunnels : NoData(upq'[t])
  BY DEF OInv, Begins, Drains, Early

(* Client.send: OPEN and ATTACH(0) are sent while nothing was delivered.   *)
LEMMA SendStream ==
    ASSUME IInv, OInv, NEW f \in Frame, Restart(f) => cs.downDelivered = 0, Send(f)
    PROVE  /\ \A t \in Tunnels : /\ Begun(upq'[t])
                                 /\ HasRestart(upq'[t])
                                      => \A i \in Dials : bs[i].downBuf.base = 0
           /\ ~Opened /\ f.type # "DATA" => \A t \in Tunnels : NoData(upq'[t])
  <1>1. upq \in [Tunnels -> Seq(Frame)] /\ conn \in 0 .. MaxTunnels
        /\ upq' = WriteFrame(upq, conn, f)
    BY SidecarFacts DEF Send
  <1>2. Restart(f) => \A t \in Tunnels : AcksOK(upq[t], 0)
    BY SidecarFacts
  <1>3. Restart(f) => \A i \in Dials : bs[i].downBuf.base = 0
    <2> SUFFICES ASSUME cs.downDelivered = 0, NEW i \in Dials
                 PROVE  bs[i].downBuf.base = 0
      OBVIOUS
    <2>1. bs[i].downBuf.base <= 0 /\ bs[i] \in SessionType
      BY BrokerFacts
    <2>2. bs[i].downBuf.base \in Nat
      BY <2>1 DEF SessionType, ReplayBufferType
    <2> QED
      BY <2>1, <2>2
  <1>4. ASSUME NEW t \in Tunnels
        PROVE  /\ Begun(upq'[t])
               /\ HasRestart(upq'[t]) => \A i \in Dials : bs[i].downBuf.base = 0
               /\ ~Opened /\ f.type # "DATA" => NoData(upq'[t])
    <2> DEFINE g == OnWire(f)
    <2>1. g \in Frame /\ (Restart(g) => Restart(f)) /\ g.type \in {f.type, "GARBLED"}
      BY OnWireQueue
    <2> HIDE DEF g
    <2>2. /\ Begun(upq[t]) /\ (~Opened => NoData(upq[t]))
          /\ HasRestart(upq[t]) => \A i \in Dials : bs[i].downBuf.base = 0
      BY DEF OInv, Begins, Early
    <2>3. upq'[t] \in {upq[t], Append(upq[t], g)}
      BY <1>1, WriteFrameAt DEF g
    <2>4. CASE upq'[t] = upq[t]
      BY <2>2, <2>4
    <2>5. CASE upq'[t] = Append(upq[t], g)
      BY <1>1, <1>2, <1>3, <2>1, <2>2, <2>5, AppendQueue
    <2> QED
      BY <2>3, <2>4, <2>5
  <1> QED
    BY <1>4

(* A queue of one frame.                                                   *)
LEMMA OneQueue ==
    ASSUME NEW f
    PROVE  /\ HasRestart(<<f>>) => Restart(f)
           /\ f.type # "DATA" => NoData(<<f>>)
  BY DEF HasRestart, NoData

(* What OInv says of the sidecar.                                          *)
LEMMA HeldFacts ==
    ASSUME IInv, OInv
    PROVE  /\ \A t \in Tunnels : Carries(downq[t], Sources(bs))
           /\ Of(agentGot, Sources(bs))
           /\ ~HasRestart(wout) /\ ~HasRestart(rout)
           /\ wout # <<>> => ~Restart(wout[1])
           /\ rout # <<>> => ~Restart(rout[1])
           /\ wout # <<>> => Opened
           /\ ~Opened /\ rout # <<>> => rout[1].type # "DATA"
  <1>1. wout \in Seq(Frame) /\ rout \in Seq(Frame) /\ ~HasRestart(wout) /\ ~HasRestart(rout)
    BY SidecarFacts DEF OInv
  <1>2. /\ wout # <<>> => 1 \in 1 .. Len(wout)
        /\ rout # <<>> => 1 \in 1 .. Len(rout)
    BY <1>1
  <1>3. ~Opened => wout = <<>> /\ NoData(rout)
    BY DEF OInv, Early
  <1> QED
    BY <1>1, <1>2, <1>3, StreamFacts DEF OInv, HasRestart, NoData

(* OpenSession registers the session.                                      *)
LEMMA OpenSessionStream ==
    ASSUME IInv, OInv, OneLine', OpenSession
    PROVE  OInv'
  <1>1. /\ UNCHANGED <<agentGot, wout, rout, upq, downq, brokerVars>>
        /\ cs' = [cs EXCEPT !.st = "opening"] /\ ~Opened
    BY DEF OpenSession, Opened
  <1>2. cs'.upBuf = cs.upBuf /\ cs'.downDelivered = cs.downDelivered
    BY <1>1, SidecarFacts DEF ClientSessionType
  <1>3. Early'
    BY <1>1, <1>2 DEF OInv, Early, brokerVars
  <1> QED
    BY <1>1, <1>3, NotServed, DrainsBegins, HeldFacts, SidecarStream

(* OPEN is sent.                                                           *)
LEMMA SendOpenStream ==
    ASSUME IInv, OInv, OneLine', SendOpen
    PROVE  OInv'
  <1>1. /\ UNCHANGED <<agentGot, wout, rout, downq, brokerVars>>
        /\ cs' = [cs EXCEPT !.st = "open"] /\ ~Opened /\ Send(Ctl("OPEN", 0))
    BY DEF SendOpen, Opened
  <1>2. Opened'
    BY <1>1, SidecarFacts DEF ClientSessionType, Opened
  <1>3. Ctl("OPEN", 0) \in Frame /\ cs.downDelivered = 0
    BY <1>1, CtlFrame DEF OInv, Early, FrameType
  <1>4. Early'
    BY <1>2 DEF Early
  <1> QED
    BY <1>1, <1>3, <1>4, SendStream, HeldFacts, SidecarStream

(* writeUp retains a chunk.                                                *)
LEMMA WriteUpStream ==
    ASSUME IInv, OInv, OneLine', NEW n, WriteUp(n)
    PROVE  OInv'
  <1> DEFINE off == End(cs.upBuf)
             chunk == AgentBytes(off, n)
             b == AppendTo(cs.upBuf, chunk)
  <1>1. /\ UNCHANGED <<agentGot, rout, upq, downq, brokerVars>> /\ cs.st = "open"
        /\ cs' = [cs EXCEPT !.upBuf = b] /\ wout' = <<Data(off, chunk)>>
    BY DEF WriteUp
  <1> HIDE DEF b
  <1>2. Opened'
    BY <1>1, SidecarFacts DEF ClientSessionType, Opened
  <1>3. ~HasRestart(wout')
    BY <1>1, OneQueue DEF Restart, Data
  <1>4. Early'
    BY <1>2 DEF Early
  <1> QED
    BY <1>1, <1>3, <1>4, NotServed, DrainsBegins, HeldFacts, SidecarStream

(* ... and sends it.                                                       *)
LEMMA WriteUpSendStream ==
    ASSUME IInv, OInv, OneLine', WriteUpSend
    PROVE  OInv'
  <1>1. /\ UNCHANGED <<cs, agentGot, rout, downq, brokerVars>>
        /\ wout # <<>> /\ wout' = <<>> /\ Send(wout[1])
    BY DEF WriteUpSend
  <1>2. wout[1] \in Frame /\ ~Restart(wout[1]) /\ Opened
    BY <1>1, SidecarFacts, HeldFacts
  <1>3. Early'
    BY <1>1, <1>2 DEF Early, Opened
  <1>4. ~HasRestart(wout')
    BY <1>1, EmptyQueue
  <1> QED
    BY <1>1, <1>2, <1>3, <1>4, SendStream, HeldFacts, SidecarStream

(* The ACK of deliverDown, or the replay of onAttachOK, is sent.           *)
LEMMA ReadLoopSendStream ==
    ASSUME IInv, OInv, OneLine', ReadLoopSend
    PROVE  OInv'
  <1>1. /\ UNCHANGED <<cs, agentGot, wout, downq, brokerVars>>
        /\ rout # <<>> /\ rout' = <<>> /\ Send(rout[1])
    BY DEF ReadLoopSend
  <1>2. rout[1] \in Frame /\ ~Restart(rout[1]) /\ (~Opened => rout[1].type # "DATA")
    BY <1>1, SidecarFacts, HeldFacts
  <1>3. ~Opened => \A t \in Tunnels : NoData(upq'[t])
    BY <1>1, <1>2, SendStream
  <1>4. ~HasRestart(rout') /\ NoData(rout')
    BY <1>1, EmptyQueue
  <1>5. Early'
    BY <1>1, <1>3, <1>4 DEF OInv, Early, Opened, brokerVars
  <1> QED
    BY <1>1, <1>2, <1>4, <1>5, SendStream, HeldFacts, SidecarStream

(* closeUp.                                                                *)
LEMMA CloseUpStream ==
    ASSUME IInv, OInv, OneLine', NEW half, CloseUp(half)
    PROVE  OInv'
  <1>1. /\ UNCHANGED <<agentGot, wout, rout, downq, brokerVars>>
        /\ cs' = [cs EXCEPT !.upClosed = TRUE] /\ Opened /\ Send(Ctl("CLOSE", 0))
    BY DEF CloseUp, Opened
  <1>2. Opened'
    BY <1>1, SidecarFacts DEF ClientSessionType, Opened
  <1>3. Ctl("CLOSE", 0) \in Frame /\ ~Restart(Ctl("CLOSE", 0))
    BY CtlFrame DEF FrameType, Restart
  <1>4. Early'
    BY <1>2 DEF Early
  <1> QED
    BY <1>1, <1>3, <1>4, SendStream, HeldFacts, SidecarStream

(* A new connection starts empty.                                          *)
LEMMA ConnectStream ==
    ASSUME IInv, OInv, OneLine', NEW t \in Tunnels, Connect(t)
    PROVE  OInv'
  <1>1. /\ UNCHANGED <<cs, agentGot, wout, rout, brokerVars>>
        /\ upq' = [upq EXCEPT ![t] = <<>>] /\ downq' = [downq EXCEPT ![t] = <<>>]
    BY DEF Connect
  <1>2. \A u \in Tunnels : Drains(upq[u], upq'[u]) /\ Carries(downq'[u], Sources(bs))
    BY <1>1, SidecarFacts, HeldFacts, EmptyQueue DEF Drains
  <1>3. Early'
    BY <1>1, <1>2, DrainsBegins DEF OInv, Early, Opened, brokerVars
  <1> QED
    BY <1>1, <1>2, <1>3, DrainsBegins, HeldFacts, SidecarStream

(* ATTACH with what was delivered.                                         *)
LEMMA ReattachStream ==
    ASSUME IInv, OInv, OneLine', Reattach
    PROVE  OInv'
  <1> DEFINE f == Ctl("ATTACH", cs.downDelivered)
  <1>1. UNCHANGED <<cs, agentGot, wout, rout, downq, brokerVars>> /\ Send(f)
    BY DEF Reattach
  <1>2. f \in Frame /\ f.type = "ATTACH" /\ f.off = cs.downDelivered
    BY SidecarFacts, CtlFrame DEF FrameType
  <1> HIDE DEF f
  <1>3. Restart(f) => cs.downDelivered = 0
    BY <1>2 DEF Restart
  <1>4. ~Opened => \A t \in Tunnels : NoData(upq'[t])
    BY <1>1, <1>2, <1>3, SendStream
  <1>5. Early'
    BY <1>1, <1>4 DEF OInv, Early, Opened, brokerVars
  <1> QED
    BY <1>1, <1>2, <1>3, <1>5, SendStream, HeldFacts, SidecarStream

(* readLoop took a frame.                                                  *)
LEMMA ReceiveStream ==
    ASSUME IInv, OInv, NEW type, Receive(type)
    PROVE  /\ \A t \in Tunnels : Carries(downq'[t], Sources(bs))
           /\ Of(Head(downq[conn]).data, Sources(bs))
  <1>1. conn \in Tunnels /\ downq \in [Tunnels -> Seq(Frame)] /\ downq[conn] # <<>>
        /\ downq' = [downq EXCEPT ![conn] = Tail(downq[conn])]
    BY SidecarFacts DEF Receive
  <1>2. /\ Carries(Tail(downq[conn]), Sources(bs))
        /\ Of(Head(downq[conn]).data, Sources(bs))
    BY <1>1, HeldFacts, TailQueue
  <1> QED
    BY <1>1, <1>2, HeldFacts

(* Trimming an empty buffer that starts the stream changes nothing.        *)
LEMMA TrimNew ==
    ASSUME NEW off \in Nat
    PROVE  /\ TrimTo(NewReplayBuffer, off) = NewReplayBuffer
           /\ FromOK(NewReplayBuffer, off) => From(NewReplayBuffer, off) = <<>>
  <1>1. NewReplayBuffer.base = 0 /\ NewReplayBuffer.buf = <<>> /\ End(NewReplayBuffer) = 0
        /\ BufLen(NewReplayBuffer) = 0
    BY DEF NewReplayBuffer, End, BufLen
  <1>2. TrimTo(NewReplayBuffer, off) = NewReplayBuffer
    <2>1. CASE off = 0
      BY <1>1, <2>1 DEF TrimTo
    <2>2. CASE off > 0
      <3>1. TrimTo(NewReplayBuffer, off) = [base |-> 0, buf |-> <<>>]
        BY <1>1, <2>2 DEF TrimTo
      <3> QED
        BY <3>1 DEF NewReplayBuffer
    <2> QED
      BY <2>1, <2>2
  <1>3. FromOK(NewReplayBuffer, off) => From(NewReplayBuffer, off) = <<>>
    <2> SUFFICES ASSUME FromOK(NewReplayBuffer, off)
                 PROVE  From(NewReplayBuffer, off) = <<>>
      OBVIOUS
    <2>1. off = 0
      BY <1>1 DEF FromOK
    <2>2. From(NewReplayBuffer, off) = SubSeq(<<>>, 1, 0)
      BY <1>1, <2>1 DEF From
    <2> QED
      BY <2>2
  <1> QED
    BY <1>2, <1>3

(* onUpstreamAck.                                                          *)
LEMMA RecvAckStream ==
    ASSUME IInv, OInv, OneLine', RecvAck
    PROVE  OInv'
  <1> DEFINE off == Head(downq[conn]).off
             b == TrimTo(cs.upBuf, off)
  <1>1. /\ UNCHANGED <<agentGot, wout, rout, upq, brokerVars>> /\ Receive("ACK")
        /\ cs' = cs \/ cs' = [cs EXCEPT !.upBuf = b]
    BY DEF RecvAck
  <1>2. off \in Nat /\ \A t \in Tunnels : Carries(downq'[t], Sources(bs))
    BY <1>1, ReceiveOK, ReceiveStream
  <1>3. ~Opened => b = cs.upBuf
    BY <1>2, TrimNew DEF OInv, Early
  <1> HIDE DEF b
  <1>4. /\ cs'.st = cs.st /\ cs'.downDelivered = cs.downDelivered
        /\ ~Opened => cs'.upBuf = cs.upBuf
    BY <1>1, <1>3, SidecarFacts DEF ClientSessionType
  <1>5. Early'
    BY <1>1, <1>4 DEF OInv, Early, Opened, brokerVars
  <1> QED
    BY <1>1, <1>2, <1>5, NotServed, DrainsBegins, HeldFacts, SidecarStream

(* onAttachOK.                                                             *)
LEMMA RecvAttachOKStream ==
    ASSUME IInv, OInv, OneLine', RecvAttachOK
    PROVE  OInv'
  <1> DEFINE off == Head(downq[conn]).off
             b == TrimTo(cs.upBuf, off)
             p == IF FromOK(b, off) THEN From(b, off) ELSE <<>>
  <1>1. /\ UNCHANGED <<agentGot, wout, upq, brokerVars>> /\ Receive("ATTACH_OK")
        /\ cs' = cs \/ cs' = [cs EXCEPT !.upBuf = b]
        /\ rout' = <<>> \/ (p # <<>> /\ rout' = <<Data(off, p)>>)
    BY DEF RecvAttachOK
  <1>2. off \in Nat /\ \A t \in Tunnels : Carries(downq'[t], Sources(bs))
    BY <1>1, ReceiveOK, ReceiveStream
  <1>3. ~Opened => b = cs.upBuf /\ p = <<>>
    BY <1>2, TrimNew DEF OInv, Early
  <1> HIDE DEF b, p, off
  <1>4. /\ cs'.st = cs.st /\ cs'.downDelivered = cs.downDelivered
        /\ ~Opened => cs'.upBuf = cs.upBuf
    BY <1>1, <1>3, SidecarFacts DEF ClientSessionType
  <1>5. ~HasRestart(rout') /\ (~Opened => NoData(rout'))
    <2>1. ~Restart(Data(off, p))
      BY DEF Data, Restart
    <2> QED
      BY <1>1, <1>3, <2>1, OneQueue, EmptyQueue
  <1>6. Early'
    BY <1>1, <1>4, <1>5 DEF OInv, Early, Opened, brokerVars
  <1> QED
    BY <1>1, <1>2, <1>5, <1>6, NotServed, DrainsBegins, HeldFacts, SidecarStream

(* What deliverDown takes of a frame are bytes of the same source.         *)
LEMMA FreshOf ==
    ASSUME NEW p \in Seq(Byte), NEW off \in Nat, NEW want \in Nat, NEW Y, Of(p, Y)
    PROVE  Of(Fresh(off, p, want), Y)
  <1> DEFINE m == want - off + 1
  <1>1. CASE want < off
    BY <1>1, EmptyQueue DEF Fresh
  <1>2. CASE want >= off /\ m <= Len(p) + 1
    <2>1. m \in 1 .. Len(p) + 1 /\ Fresh(off, p, want) = SubSeq(p, m, Len(p))
      BY <1>2 DEF Fresh
    <2> QED
      BY <2>1, SuffixOf
  <1>3. CASE want >= off /\ m > Len(p) + 1
    <2>1. Fresh(off, p, want) = <<>>
      BY <1>3 DEF Fresh
    <2> QED
      BY <2>1, EmptyQueue
  <1> QED
    BY <1>1, <1>2, <1>3

(* deliverDown.                                                            *)
LEMMA RecvDataStream ==
    ASSUME IInv, OInv, OneLine', NEW ok \in BOOLEAN, RecvData(ok)
    PROVE  OInv'
  <1> DEFINE f == Head(downq[conn])
             d == cs.downDelivered
             p == Fresh(f.off, f.data, d)
             e == d + Len(p)
             g == Ctl("ACK", e)
  <1>1. UNCHANGED <<wout, upq, brokerVars>> /\ Receive("DATA")
    BY DEF RecvData
  <1>2. f.off \in Nat /\ f.data \in Seq(Byte) /\ d \in Nat /\ Of(f.data, Sources(bs))
        /\ \A t \in Tunnels : Carries(downq'[t], Sources(bs))
    BY <1>1, ReceiveOK, ReceiveStream, SidecarFacts
  <1>3. p \in Seq(Byte) /\ Of(p, Sources(bs))
    BY <1>2, FreshPositioned, FreshOf
  <1>4. \/ cs' = cs /\ agentGot' = agentGot /\ rout' = rout
        \/ /\ agentGot' = agentGot \o p /\ cs' = [cs EXCEPT !.downDelivered = e]
           /\ rout' = <<g>> /\ p # <<>>
        \/ cs' = [cs EXCEPT !.st = "gone"] /\ agentGot' = agentGot /\ rout' = rout
    BY DEF RecvData
  <1> HIDE DEF f, p
  <1>5. p # <<>> => Opened
    <2> SUFFICES ASSUME ~Opened, p # <<>>
                 PROVE  FALSE
      OBVIOUS
    <2>1. Sources(bs) = {}
      BY DEF OInv, Early, Untouched, Sources
    <2>2. 1 \in 1 .. Len(p)
      BY <1>3
    <2> QED
      BY <1>3, <2>1, <2>2 DEF Of
  <1>6. CASE cs' = cs /\ agentGot' = agentGot /\ rout' = rout
    <2>1. Early'
      BY <1>1, <1>6 DEF OInv, Early, Opened, brokerVars
    <2> QED
      BY <1>1, <1>2, <1>6, <2>1, NotServed, DrainsBegins, HeldFacts, SidecarStream
  <1>7. CASE cs' = [cs EXCEPT !.st = "gone"] /\ agentGot' = agentGot /\ rout' = rout
    <2>1. Early'
      BY <1>7, SidecarFacts DEF Early, Opened, ClientSessionType
    <2> QED
      BY <1>1, <1>2, <1>7, <2>1, NotServed, DrainsBegins, HeldFacts, SidecarStream
  <1>8. CASE /\ agentGot' = agentGot \o p /\ cs' = [cs EXCEPT !.downDelivered = e]
             /\ rout' = <<g>> /\ p # <<>>
    <2> HIDE DEF e
    <2>1. cs'.st = cs.st
      BY <1>8, SidecarFacts DEF ClientSessionType
    <2>2. Early'
      BY <1>5, <1>8, <2>1 DEF Early, Opened
    <2>3. Of(agentGot', Sources(bs))
      BY <1>3, <1>8, SidecarFacts, HeldFacts, ConcatOf
    <2>4. g.type = "ACK"
      BY DEF Ctl
    <2> HIDE DEF g
    <2>5. ~HasRestart(rout')
      BY <1>8, <2>4, OneQueue DEF Restart
    <2> QED
      BY <1>1, <1>2, <2>2, <2>3, <2>5, NotServed, DrainsBegins, HeldFacts, SidecarStream
  <1> QED
    BY <1>4, <1>6, <1>7, <1>8

(* onClose.                                                                *)
LEMMA RecvCloseStream ==
    ASSUME IInv, OInv, OneLine', RecvClose
    PROVE  OInv'
  <1>1. PICK type \in {"CLOSE", "LOST"} : Receive(type)
    BY DEF RecvClose
  <1>2. /\ UNCHANGED <<agentGot, wout, rout, upq, brokerVars>>
        /\ cs' = cs \/ cs' = [cs EXCEPT !.downClosed = TRUE]
    BY DEF RecvClose
  <1>3. cs'.st = cs.st /\ cs'.upBuf = cs.upBuf /\ cs'.downDelivered = cs.downDelivered
    BY <1>2, SidecarFacts DEF ClientSessionType
  <1>4. Early'
    BY <1>2, <1>3 DEF OInv, Early, Opened, brokerVars
  <1> QED
    BY <1>1, <1>2, <1>4, ReceiveStream, NotServed, DrainsBegins, HeldFacts, SidecarStream

(* readLoop returned.                                                      *)
LEMMA DisconnectStream ==
    ASSUME IInv, OInv, OneLine', Disconnect
    PROVE  OInv'
  <1>1. /\ UNCHANGED <<cs, agentGot, wout, rout, upq, brokerVars>>
        /\ downq' = [downq EXCEPT ![conn] = <<>>]
    BY DEF Disconnect
  <1>2. \A u \in Tunnels : Carries(downq'[u], Sources(bs))
    BY <1>1, SidecarFacts, HeldFacts, EmptyQueue
  <1>3. Early'
    BY <1>1 DEF OInv, Early, Opened, brokerVars
  <1> QED
    BY <1>1, <1>2, <1>3, NotServed, DrainsBegins, HeldFacts, SidecarStream

(* Suspends, failures and resumes.                                         *)
LEMMA PlatformStream ==
    ASSUME IInv, OInv, OneLine', Suspend \/ Break \/ ResumeActor \/ ResumeElsewhere
    PROVE  OInv'
  <1>1. UNCHANGED <<cs, agentGot, wout, rout, brokerVars>>
    BY DEF Suspend, Break, ResumeActor, ResumeElsewhere, sidecarVars
  <1>2. \A u \in Tunnels : Drains(upq[u], upq'[u]) /\ Carries(downq'[u], Sources(bs))
    <2>1. CASE (Suspend \/ Break) /\ conn # 0 /\ link[conn] = "up"
      <3>1. conn \in Tunnels /\ Cut /\ upq \in [Tunnels -> Seq(Frame)]
            /\ downq \in [Tunnels -> Seq(Frame)]
        BY <2>1, SidecarFacts DEF Suspend, Break
      <3>2. PICK k \in 0 .. Len(upq[conn]) :
               upq' = [upq EXCEPT ![conn] = SubSeq(upq[conn], 1, k)]
        BY <2>1, <3>1 DEF Cut
      <3>3. PICK m \in 0 .. Len(downq[conn]) :
               downq' = [downq EXCEPT ![conn] = SubSeq(downq[conn], 1, m)]
        BY <2>1, <3>1 DEF Cut
      <3>4. \A u \in Tunnels : Drains(upq[u], upq'[u])
        BY <3>1, <3>2, PrefixQueue DEF Drains
      <3>5. \A u \in Tunnels : Carries(downq'[u], Sources(bs))
        BY <3>1, <3>3, HeldFacts, PrefixQueue
      <3> QED
        BY <3>4, <3>5
    <2>2. CASE ~((Suspend \/ Break) /\ conn # 0 /\ link[conn] = "up")
      <3>1. upq' = upq /\ downq' = downq
        BY <2>2 DEF Suspend, Break, ResumeActor, ResumeElsewhere, Cut
      <3> QED
        BY <3>1, NotServed, HeldFacts
    <2> QED
      BY <2>1, <2>2
  <1>3. Early'
    BY <1>1, <1>2, DrainsBegins DEF OInv, Early, Opened, brokerVars
  <1> QED
    BY <1>1, <1>2, <1>3, DrainsBegins, HeldFacts, SidecarStream

-----------------------------------------------------------------------------
(* The initial states satisfy the invariant.                               *)
LEMMA InitOInv ==
    ASSUME Init
    PROVE  OInv
  <1>1. /\ \A i \in Dials : bs[i] = NewSession(0) /\ srv[i] = NewServerConn
        /\ cur = 0 /\ cs = NewClientSession /\ wout = <<>> /\ rout = <<>> /\ agentGot = <<>>
        /\ conn = 0
        /\ \A t \in Tunnels : /\ upq[t] = <<>> /\ downq[t] = <<>> /\ pend[t] = <<>>
                              /\ link[t] = "ended"
    BY DEF Init
  <1>2. NewSession(0).downBuf.base = 0 /\ NewSession(0).downBuf.buf = <<>>
        /\ NewSession(0).preConn = <<>> /\ ~Yielded(NewSession(0))
    BY DEF NewSession, NewReplayBuffer, Yielded, End, BufLen
  <1>3. OneLine
    BY <1>1 DEF OneLine
  <1>4. Early
    BY <1>1, <1>2, EmptyQueue DEF Early, NewClientSession, Untouched, NewServerConn
  <1>5. Begins
    BY <1>1, EmptyQueue DEF Begins
  <1>6. OneSource(bs, cur) /\ Owned(bs)
    BY <1>1, <1>2, EmptyQueue DEF OneSource, Owned
  <1>7. StreamOK(Broker)
    BY <1>1, <1>6, EmptyQueue DEF StreamOK, Broker
  <1> QED
    BY <1>1, <1>3, <1>4, <1>5, <1>7, EmptyQueue DEF OInv

(* Every step keeps it.                                                    *)
LEMMA NextOInv ==
    ASSUME IInv, OInv, "serveTunnel" \notin Preempt, [Next]_vars
    PROVE  OInv'
  <1>1. OneLine'
    BY NextOneLine DEF OInv
  <1>2. CASE ProxyPump \/ ProxyClose
    BY <1>1, <1>2, OpenSessionStream, SendOpenStream, WriteUpStream, WriteUpSendStream,
       CloseUpStream DEF ProxyPump, ProxyClose
  <1>3. CASE ClientRun
    BY <1>1, <1>3, ConnectStream, ReattachStream, RecvAckStream, RecvAttachOKStream,
       RecvDataStream, RecvCloseStream, ReadLoopSendStream, DisconnectStream DEF ClientRun
  <1>4. ASSUME NEW t \in Tunnels, ServeTunnel(t)
        PROVE  OInv'
    BY <1>1, <1>4, HandleOpenStream, HandleAttachStream, FinishAttachStream,
       HandleDataEarlyStream, HandleDataStream, HandleDataErrorStream, FinishDataStream,
       HandleAckStream, HandleCloseStream, HandleUnknownStream, TunnelEndStream
       DEF ServeTunnel
  <1>5. ASSUME NEW i \in Dials,
               Upstream(i) \/ WatchdogFire(i) \/ ServerSend(i) \/ ServerClose(i)
        PROVE  OInv'
    BY <1>1, <1>5, DialOKStream, DialFailStream, FlushPreStream, UpstreamClosedStream,
       ProduceStream, WatchdogStream, ServerStream DEF Upstream
  <1>6. CASE UNCHANGED vars
    <2>1. UNCHANGED <<sidecarVars, downq, cur, bs, pend, srv>> /\ upq' = upq
      BY <1>6 DEF vars, brokerVars
    <2> QED
      BY <1>1, <2>1, NotServed, StreamFacts, LocalStream
  <1> QED
    BY <1>1, <1>2, <1>3, <1>4, <1>5, <1>6, PlatformStream DEF Next

(* AgentOneStream: bytes of two upstream connections are never spliced,    *)
(* with every other preemption point open and whatever the numbers of      *)
(* failures, tunnels and sessions (attachSession, deliverDown).            *)
THEOREM AgentReadsOneStream ==
    ASSUME "serveTunnel" \notin Preempt
    PROVE  Spec => []AgentOneStream
  <1>1. Init => IInv /\ OInv
    BY InitIInv, InitOInv
  <1>2. IInv /\ OInv /\ [Next]_vars => (IInv /\ OInv)'
    BY NextIInv, NextOInv
  <1>3. IInv /\ OInv => AgentOneStream
    <2> SUFFICES ASSUME IInv, OInv, NEW k \in DOMAIN agentGot
                 PROVE  agentGot[k][1] = agentGot[1][1]
      BY DEF AgentOneStream
    <2>1. agentGot \in Seq(Byte) /\ Of(agentGot, Sources(bs))
      BY SidecarFacts, HeldFacts
    <2>2. k \in 1 .. Len(agentGot) /\ 1 \in 1 .. Len(agentGot)
      BY <2>1
    <2>3. agentGot[k][1] \in Sources(bs) /\ agentGot[1][1] \in Sources(bs)
      BY <2>1, <2>2 DEF Of
    <2> QED
      BY <2>3, StreamFacts DEF OneSource, Sources
  <1> QED
    BY <1>1, <1>2, <1>3, PTL DEF Spec
=============================================================================
