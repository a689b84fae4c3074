------------------------- MODULE TunnelSessionProofs -------------------------
(***************************************************************************)
(* For every value of the constants, and with every preemption point open: *)
(* the agent reads its upstream byte stream in order, and the broker never *)
(* forgets a byte the agent lacks.                                         *)
(***************************************************************************)
EXTENDS TunnelSession, SequenceTheorems, TLAPS

-----------------------------------------------------------------------------
(* The inductive invariant.  A buffer, a frame and a pending replay hold   *)
(* the bytes their offsets say they hold.                                  *)
Positioned(p, off) == \A k \in 1 .. Len(p) : p[k][2] = off + k

BufferOK(b) == Positioned(b.buf, b.base)

QueueOK(q) == \A k \in 1 .. Len(q) : Positioned(q[k].data, q[k].off)

HandlerOK(h) == h.op = "onAttach" => Positioned(h.data, h.off)

(* An acknowledgement in flight never exceeds what the agent has.          *)
AcksOK(q, d) == \A k \in 1 .. Len(q) : q[k].type = "ACK" => q[k].off <= d

BrokerType ==
    [s : [Dials -> SessionType], cur : 0 .. MaxDials,
     q : [Tunnels -> Seq(Frame)], w : BOOLEAN]

BrokerOK(B, d) ==
    /\ B \in BrokerType
    /\ \A i \in Dials : BufferOK(B.s[i].downBuf) /\ B.s[i].downBuf.base <= d
    /\ \A t \in Tunnels : QueueOK(B.q[t])

IInv ==
    /\ TypeOK
    /\ BrokerOK(Broker, cs.downDelivered)
    /\ \A t \in Tunnels : \A k \in 1 .. Len(pend[t]) : HandlerOK(pend[t][k])
    /\ \A t \in Tunnels : AcksOK(upq[t], cs.downDelivered)
    /\ AcksOK(wout, cs.downDelivered) /\ AcksOK(rout, cs.downDelivered)
    /\ Positioned(agentGot, 0) /\ Len(agentGot) = cs.downDelivered

-----------------------------------------------------------------------------
(* Replay buffers.                                                         *)

(* NewReplayBuffer is well formed.                                         *)
LEMMA NewBufferOK ==
    NewReplayBuffer \in ReplayBufferType /\ BufferOK(NewReplayBuffer)
  BY DEF NewReplayBuffer, ReplayBufferType, BufferOK, Positioned

(* A suffix of positioned bytes is positioned.                             *)
LEMMA SuffixPositioned ==
    ASSUME NEW p \in Seq(Byte), NEW off \in Nat, Positioned(p, off),
           NEW m \in 1 .. Len(p) + 1
    PROVE  /\ SubSeq(p, m, Len(p)) \in Seq(Byte)
           /\ Len(SubSeq(p, m, Len(p))) = Len(p) - m + 1
           /\ Positioned(SubSeq(p, m, Len(p)), off + m - 1)
  <1> DEFINE q == SubSeq(p, m, Len(p))
  <1>1. q \in Seq(Byte) /\ Len(q) = Len(p) - m + 1
    OBVIOUS
  <1>2. \A k \in 1 .. Len(q) : q[k] = p[m + k - 1]
    OBVIOUS
  <1>3. \A k \in 1 .. Len(q) : m + k - 1 \in 1 .. Len(p)
    BY <1>1
  <1>4. Positioned(q, off + m - 1)
    BY <1>1, <1>2, <1>3 DEF Positioned
  <1> QED
    BY <1>1, <1>4

(* Appending bytes that continue a stream keeps it positioned.             *)
LEMMA ConcatPositioned ==
    ASSUME NEW p \in Seq(Byte), NEW q \in Seq(Byte), NEW off \in Nat,
           Positioned(p, off), Positioned(q, off + Len(p))
    PROVE  /\ p \o q \in Seq(Byte) /\ Len(p \o q) = Len(p) + Len(q)
           /\ Positioned(p \o q, off)
  <1>1. p \o q \in Seq(Byte) /\ Len(p \o q) = Len(p) + Len(q)
    OBVIOUS
  <1>2. ASSUME NEW k \in 1 .. Len(p \o q)
        PROVE  (p \o q)[k][2] = off + k
    <2>1. CASE k <= Len(p)
      BY <2>1, <1>1 DEF Positioned
    <2>2. CASE k > Len(p)
      <3>1. k - Len(p) \in 1 .. Len(q) /\ (p \o q)[k] = q[k - Len(p)]
        BY <2>2, <1>1
      <3> QED
        BY <3>1 DEF Positioned
    <2> QED
      BY <2>1, <2>2
  <1> QED
    BY <1>1, <1>2 DEF Positioned

(* TrimTo drops a prefix: what is left keeps its offsets, and End.         *)
LEMMA TrimToOK ==
    ASSUME NEW b \in ReplayBufferType, NEW off \in Nat, BufferOK(b)
    PROVE  /\ TrimTo(b, off) \in ReplayBufferType
           /\ BufferOK(TrimTo(b, off))
           /\ \A d \in Nat : b.base <= d /\ off <= d => TrimTo(b, off).base <= d
  <1> USE DEF ReplayBufferType
  <1>1. CASE off <= b.base
    BY <1>1 DEF TrimTo
  <1>2. CASE off > b.base /\ off >= End(b)
    BY <1>2 DEF TrimTo, End, BufLen, BufferOK, Positioned
  <1>3. CASE off > b.base /\ off < End(b)
    <2> DEFINE m == off - b.base + 1
    <2>1. m \in 1 .. Len(b.buf) + 1 /\ b.base + m - 1 = off
      BY <1>3 DEF End, BufLen
    <2>2. TrimTo(b, off) = [base |-> off, buf |-> SubSeq(b.buf, m, Len(b.buf))]
      BY <1>3 DEF TrimTo, End, BufLen
    <2>3. SubSeq(b.buf, m, Len(b.buf)) \in Seq(Byte)
          /\ Positioned(SubSeq(b.buf, m, Len(b.buf)), b.base + m - 1)
      BY <2>1, SuffixPositioned DEF BufferOK
    <2> QED
      BY <2>1, <2>2, <2>3 DEF BufferOK
  <1> QED
    BY <1>1, <1>2, <1>3 DEF End, BufLen

(* From returns the bytes at the offset asked for.                         *)
LEMMA FromPositioned ==
    ASSUME NEW b \in ReplayBufferType, NEW off \in Nat, BufferOK(b), FromOK(b, off)
    PROVE  From(b, off) \in Seq(Byte) /\ Positioned(From(b, off), off)
  <1> DEFINE m == off - b.base + 1
  <1>1. m \in 1 .. Len(b.buf) + 1 /\ b.base + m - 1 = off
    BY DEF FromOK, End, BufLen, ReplayBufferType
  <1>2. From(b, off) = SubSeq(b.buf, m, Len(b.buf))
    BY DEF From, BufLen
  <1> QED
    BY <1>1, <1>2, SuffixPositioned DEF BufferOK, ReplayBufferType

(* What onData and deliverDown take of a positioned frame continues the    *)
(* stream at the offset they want.                                         *)
LEMMA FreshPositioned ==
    ASSUME NEW p \in Seq(Byte), NEW off \in Nat, NEW want \in Nat
    PROVE  /\ Fresh(off, p, want) \in Seq(Byte)
           /\ Positioned(p, off) => Positioned(Fresh(off, p, want), want)
  <1> DEFINE m == want - off + 1
  <1>1. CASE want < off
    BY <1>1 DEF Fresh, Positioned
  <1>2. CASE want >= off /\ m <= Len(p) + 1
    <2>1. m \in 1 .. Len(p) + 1 /\ off + m - 1 = want
      BY <1>2
    <2>2. Fresh(off, p, want) = SubSeq(p, m, Len(p))
      BY <1>2 DEF Fresh
    <2>3. SubSeq(p, m, Len(p)) \in Seq(Byte)
      BY <2>1
    <2> QED
      BY <2>1, <2>2, <2>3, SuffixPositioned
  <1>3. CASE want >= off /\ m > Len(p) + 1
    <2>1. Fresh(off, p, want) = <<>>
      BY <1>3 DEF Fresh
    <2> QED
      BY <2>1 DEF Positioned
  <1> QED
    BY <1>1, <1>2, <1>3

-----------------------------------------------------------------------------
(* Frames and queues.                                                      *)

(* Control frames are frames, and carry no bytes.                          *)
LEMMA CtlFrame ==
    ASSUME NEW type \in FrameType, NEW off \in Nat
    PROVE  /\ Ctl(type, off) \in Frame
           /\ Positioned(Ctl(type, off).data, Ctl(type, off).off)
           /\ Ctl(type, off).type = type /\ Ctl(type, off).off = off
  BY DEF Ctl, Frame, Positioned

(* A DATA frame built from positioned bytes is well formed.                *)
LEMMA DataFrame ==
    ASSUME NEW off \in Nat, NEW p \in Seq(Byte)
    PROVE  /\ Data(off, p) \in Frame
           /\ Data(off, p).off = off /\ Data(off, p).data = p
           /\ Data(off, p).type = "DATA"
  BY DEF Data, Frame, FrameType

(* What encodeFrame puts on the wire claims no more than the frame.        *)
LEMMA OnWireFrame ==
    ASSUME NEW f \in Frame
    PROVE  /\ OnWire(f) \in Frame
           /\ Positioned(f.data, f.off) => Positioned(OnWire(f).data, OnWire(f).off)
           /\ OnWire(f).type = "ACK" => f.type = "ACK" /\ OnWire(f).off = f.off
  <1>1. Ctl("GARBLED", 0) \in Frame /\ Ctl("GARBLED", 0).type = "GARBLED"
        /\ Positioned(Ctl("GARBLED", 0).data, Ctl("GARBLED", 0).off)
    BY CtlFrame DEF FrameType
  <1> QED
    BY <1>1 DEF OnWire

(* WriteFrame keeps the type of the queues.                                *)
LEMMA WriteFrameType ==
    ASSUME NEW q \in [Tunnels -> Seq(Frame)], NEW t \in 0 .. MaxTunnels, NEW f \in Frame
    PROVE  WriteFrame(q, t, f) \in [Tunnels -> Seq(Frame)]
  <1>1. OnWire(f) \in Frame
    BY OnWireFrame
  <1>2. \A u \in Tunnels : Append(q[u], OnWire(f)) \in Seq(Frame)
    BY <1>1
  <1> QED
    BY <1>2 DEF WriteFrame

(* The queue written to gets the frame at its end, the others nothing.     *)
LEMMA WriteFrameAt ==
    ASSUME NEW q \in [Tunnels -> Seq(Frame)], NEW t \in 0 .. MaxTunnels, NEW f \in Frame,
           NEW u \in Tunnels
    PROVE  WriteFrame(q, t, f)[u] \in {q[u], Append(q[u], OnWire(f))}
  BY DEF WriteFrame

(* A queue stays well formed when a well-formed frame joins it.            *)
LEMMA AppendOK ==
    ASSUME NEW q \in Seq(Frame), NEW f \in Frame
    PROVE  /\ QueueOK(q) /\ Positioned(f.data, f.off) => QueueOK(Append(q, f))
           /\ \A d \in Nat : AcksOK(q, d) /\ (f.type = "ACK" => f.off <= d)
                               => AcksOK(Append(q, f), d)
  <1> DEFINE r == Append(q, f)
  <1>1. Len(r) = Len(q) + 1 /\ Len(q) \in Nat
    OBVIOUS
  <1>2. \A k \in 1 .. Len(r) : (k \in 1 .. Len(q) /\ r[k] = q[k]) \/ r[k] = f
    OBVIOUS
  <1> HIDE DEF r
  <1>3. QueueOK(q) /\ Positioned(f.data, f.off) => QueueOK(r)
    BY <1>2 DEF QueueOK
  <1>4. \A d \in Nat : AcksOK(q, d) /\ (f.type = "ACK" => f.off <= d) => AcksOK(r, d)
    BY <1>2 DEF AcksOK
  <1> QED
    BY <1>3, <1>4 DEF r

(* WriteFrame keeps every queue positioned.                                *)
LEMMA WriteFrameQueues ==
    ASSUME NEW q \in [Tunnels -> Seq(Frame)], NEW t \in 0 .. MaxTunnels, NEW f \in Frame,
           \A u \in Tunnels : QueueOK(q[u]), Positioned(f.data, f.off)
    PROVE  \A u \in Tunnels : QueueOK(WriteFrame(q, t, f)[u])
  <1> TAKE u \in Tunnels
  <1>1. OnWire(f) \in Frame /\ Positioned(OnWire(f).data, OnWire(f).off)
    BY OnWireFrame
  <1>2. QueueOK(Append(q[u], OnWire(f)))
    BY <1>1, AppendOK
  <1> QED
    BY <1>2, WriteFrameAt

(* WriteFrame adds no acknowledgement above what was delivered.            *)
LEMMA WriteFrameAcks ==
    ASSUME NEW q \in [Tunnels -> Seq(Frame)], NEW t \in 0 .. MaxTunnels, NEW f \in Frame,
           NEW d \in Nat, \A u \in Tunnels : AcksOK(q[u], d), f.type = "ACK" => f.off <= d
    PROVE  \A u \in Tunnels : AcksOK(WriteFrame(q, t, f)[u], d)
  <1> TAKE u \in Tunnels
  <1>1. OnWire(f) \in Frame /\ (OnWire(f).type = "ACK" => OnWire(f).off <= d)
    BY OnWireFrame
  <1>2. AcksOK(Append(q[u], OnWire(f)), d)
    BY <1>1, AppendOK
  <1> QED
    BY <1>2, WriteFrameAt

(* Taking a frame off a queue keeps it well formed.                        *)
LEMMA TailOK ==
    ASSUME NEW q \in Seq(Frame), q # <<>>
    PROVE  /\ Tail(q) \in Seq(Frame) /\ Head(q) \in Frame /\ Head(q) = q[1]
           /\ QueueOK(q) => QueueOK(Tail(q)) /\ Positioned(Head(q).data, Head(q).off)
           /\ \A d \in Nat : AcksOK(q, d)
                 => AcksOK(Tail(q), d) /\ (Head(q).type = "ACK" => Head(q).off <= d)
  <1> DEFINE r == Tail(q)
  <1>1. r \in Seq(Frame) /\ Head(q) \in Frame /\ Head(q) = q[1] /\ 1 \in 1 .. Len(q)
    OBVIOUS
  <1>2. \A k \in 1 .. Len(r) : k + 1 \in 1 .. Len(q) /\ r[k] = q[k + 1]
    OBVIOUS
  <1> HIDE DEF r
  <1>3. QueueOK(q) => QueueOK(r) /\ Positioned(q[1].data, q[1].off)
    BY <1>1, <1>2 DEF QueueOK
  <1>4. \A d \in Nat : AcksOK(q, d) => AcksOK(r, d) /\ (q[1].type = "ACK" => q[1].off <= d)
    BY <1>1, <1>2 DEF AcksOK
  <1> QED
    BY <1>1, <1>3, <1>4 DEF r

(* Cutting a queue short keeps it well formed.                             *)
LEMMA PrefixOK ==
    ASSUME NEW q \in Seq(Frame), NEW k \in 0 .. Len(q)
    PROVE  /\ SubSeq(q, 1, k) \in Seq(Frame)
           /\ QueueOK(q) => QueueOK(SubSeq(q, 1, k))
           /\ \A d \in Nat : AcksOK(q, d) => AcksOK(SubSeq(q, 1, k), d)
  <1> DEFINE r == SubSeq(q, 1, k)
  <1>1. r \in Seq(Frame)
    OBVIOUS
  <1>2. \A m \in 1 .. Len(r) : m \in 1 .. Len(q) /\ r[m] = q[m]
    OBVIOUS
  <1> HIDE DEF r
  <1>3. QueueOK(q) => QueueOK(r)
    BY <1>2 DEF QueueOK
  <1>4. \A d \in Nat : AcksOK(q, d) => AcksOK(r, d)
    BY <1>2 DEF AcksOK
  <1> QED
    BY <1>1, <1>3, <1>4 DEF r

-----------------------------------------------------------------------------
(* The broker's building blocks keep BrokerOK.                             *)

(* newSession starts with an empty downBuf.                                *)
LEMMA NewSessionOK ==
    ASSUME NEW t \in 0 .. MaxTunnels
    PROVE  /\ NewSession(t) \in SessionType
           /\ NewSession(t).downBuf = NewReplayBuffer
  BY NewBufferOK, BoundsAssumption DEF NewSession, SessionType

(* Any update of one session that keeps the type and the buffer's order.   *)
LEMMA SessionUpdateOK ==
    ASSUME NEW B, NEW d \in Nat, BrokerOK(B, d), NEW i \in Dials, NEW s \in SessionType,
           BufferOK(s.downBuf), s.downBuf.base <= d
    PROVE  BrokerOK([B EXCEPT !.s[i] = s], d)
  BY DEF BrokerOK, BrokerType

(* Rebinding a session, or setting one of its flags, leaves downBuf alone. *)
LEMMA RebindOK ==
    ASSUME NEW B, NEW d \in Nat, BrokerOK(B, d), NEW i \in Dials, NEW t \in 0 .. MaxTunnels
    PROVE  BrokerOK([B EXCEPT !.s[i].tconn = t], d)
  <1> DEFINE s == [B.s[i] EXCEPT !.tconn = t]
  <1>1. B.s[i] \in SessionType /\ BufferOK(B.s[i].downBuf) /\ B.s[i].downBuf.base <= d
    BY DEF BrokerOK, BrokerType
  <1>2. s \in SessionType /\ s.downBuf = B.s[i].downBuf
    BY <1>1 DEF SessionType
  <1>3. BrokerOK([B EXCEPT !.s[i] = s], d)
    BY <1>1, <1>2, SessionUpdateOK
  <1> QED
    BY <1>3

(* onSidecarClose, closeUpstream, destroy: the flags they set.             *)
LEMMA CloseFlagsOK ==
    ASSUME NEW B, NEW d \in Nat, BrokerOK(B, d), NEW i \in Dials, NEW v \in BOOLEAN
    PROVE  /\ BrokerOK([B EXCEPT !.s[i].downClosed = v], d)
           /\ BrokerOK([B EXCEPT !.s[i].upClosed = v], d)
           /\ BrokerOK([B EXCEPT !.s[i].watchdog = v], d)
  <1> DEFINE s1 == [B.s[i] EXCEPT !.downClosed = v]
             s2 == [B.s[i] EXCEPT !.upClosed = v]
             s3 == [B.s[i] EXCEPT !.watchdog = v]
  <1>1. B.s[i] \in SessionType /\ BufferOK(B.s[i].downBuf) /\ B.s[i].downBuf.base <= d
    BY DEF BrokerOK, BrokerType
  <1>2. s1 \in SessionType /\ s1.downBuf = B.s[i].downBuf
    BY <1>1 DEF SessionType
  <1>3. s2 \in SessionType /\ s2.downBuf = B.s[i].downBuf
    BY <1>1 DEF SessionType
  <1>4. s3 \in SessionType /\ s3.downBuf = B.s[i].downBuf
    BY <1>1 DEF SessionType
  <1>5. BrokerOK([B EXCEPT !.s[i] = s1], d)
    BY <1>1, <1>2, SessionUpdateOK
  <1>6. BrokerOK([B EXCEPT !.s[i] = s2], d)
    BY <1>1, <1>3, SessionUpdateOK
  <1>7. BrokerOK([B EXCEPT !.s[i] = s3], d)
    BY <1>1, <1>4, SessionUpdateOK
  <1> QED
    BY <1>5, <1>6, <1>7

(* Broker.wake changes no session.                                         *)
LEMMA WakeOK ==
    ASSUME NEW B, NEW d \in Nat, BrokerOK(B, d)
    PROVE  BrokerOK(Wake(B), d)
  BY DEF BrokerOK, BrokerType, Wake

(* session.detach.                                                         *)
LEMMA DetachOK ==
    ASSUME NEW B, NEW d \in Nat, BrokerOK(B, d), NEW i \in Dials, NEW t \in Tunnels
    PROVE  BrokerOK(Detach(B, i, t), d)
  <1>1. BrokerOK([B EXCEPT !.s[i].tconn = 0], d)
    BY RebindOK, BoundsAssumption
  <1> QED
    BY <1>1, WakeOK DEF Detach

(* session.sendToSidecar, for any well-formed frame.                       *)
LEMMA SendToSidecarOK ==
    ASSUME NEW B, NEW d \in Nat, BrokerOK(B, d), NEW i \in Dials, NEW f \in Frame,
           Positioned(f.data, f.off), NEW ok \in BOOLEAN
    PROVE  BrokerOK(SendToSidecar(B, i, f, ok), d)
  <1> DEFINE t == B.s[i].tconn
             C == [B EXCEPT !.q = WriteFrame(@, t, f)]
  <1>1. t \in 0 .. MaxTunnels /\ B.q \in [Tunnels -> Seq(Frame)]
        /\ \A u \in Tunnels : QueueOK(B.q[u])
    BY DEF BrokerOK, BrokerType, SessionType
  <1>2. BrokerOK(C, d)
    BY <1>1, WriteFrameType, WriteFrameQueues DEF BrokerOK, BrokerType
  <1>3. t # 0 => t \in Tunnels
    BY <1>1 DEF Tunnels
  <1> QED
    BY <1>1, <1>2, <1>3, DetachOK DEF SendToSidecar

(* session.destroy and maybeDestroy.                                       *)
LEMMA DestroyOK ==
    ASSUME NEW B, NEW d \in Nat, BrokerOK(B, d), NEW i \in Dials
    PROVE  BrokerOK(Destroy(B, i), d) /\ BrokerOK(MaybeDestroy(B, i), d)
  <1> DEFINE C == [B EXCEPT !.s[i].watchdog = FALSE]
  <1>1. BrokerOK(Destroy(B, i), d)
    <2>1. BrokerOK(C, d)
      BY CloseFlagsOK
    <2> DEFINE c == IF C.cur = i THEN 0 ELSE C.cur
    <2>2. Destroy(B, i) = [C EXCEPT !.cur = c]
      BY DEF Destroy, BrokerOK, BrokerType
    <2>3. c \in 0 .. MaxDials
      BY <2>1, BoundsAssumption DEF BrokerOK, BrokerType
    <2> HIDE DEF C, c
    <2> QED
      BY <2>1, <2>2, <2>3 DEF BrokerOK, BrokerType
  <1> QED
    BY <1>1 DEF MaybeDestroy

(* session.closeUpstream.                                                  *)
LEMMA CloseUpstreamOK ==
    ASSUME NEW B, NEW d \in Nat, BrokerOK(B, d), NEW i \in Dials, NEW ok \in BOOLEAN
    PROVE  BrokerOK(CloseUpstream(B, i, ok), d)
  <1> DEFINE C == [B EXCEPT !.s[i].downClosed = TRUE]
  <1>1. BrokerOK(C, d)
    BY CloseFlagsOK
  <1>2. Ctl("CLOSE", 0) \in Frame /\ Positioned(Ctl("CLOSE", 0).data, Ctl("CLOSE", 0).off)
    BY CtlFrame DEF FrameType
  <1>3. BrokerOK(SendToSidecar(C, i, Ctl("CLOSE", 0), ok), d)
    BY <1>1, <1>2, SendToSidecarOK
  <1>4. BrokerOK(Wake(C), d)
    BY <1>1, WakeOK
  <1> QED
    BY <1>1, <1>3, <1>4, DestroyOK DEF CloseUpstream

(* session.bind.                                                           *)
LEMMA BindOK ==
    ASSUME NEW B, NEW d \in Nat, BrokerOK(B, d), NEW i \in Dials, NEW t \in Tunnels
    PROVE  BrokerOK(Bind(B, i, t), d)
  BY RebindOK DEF Bind, Tunnels

(* openSession for a session the broker does not have.                     *)
LEMMA CreateOK ==
    ASSUME NEW B, NEW d \in Nat, BrokerOK(B, d), NextDial \in Dials, NEW t \in Tunnels
    PROVE  BrokerOK(Create(B, t), d)
  <1>1. NewSession(t) \in SessionType /\ BufferOK(NewSession(t).downBuf)
        /\ NewSession(t).downBuf.base <= d
    BY NewSessionOK, NewBufferOK DEF Tunnels, NewReplayBuffer
  <1> DEFINE C == [B EXCEPT !.s[NextDial] = NewSession(t)]
  <1>2. BrokerOK(C, d)
    BY <1>1, SessionUpdateOK
  <1>3. Create(B, t) = [C EXCEPT !.cur = NextDial]
    BY DEF Create, BrokerOK, BrokerType
  <1>4. NextDial \in 0 .. MaxDials
    BY BoundsAssumption DEF Dials
  <1> HIDE DEF C
  <1> QED
    BY <1>2, <1>3, <1>4 DEF BrokerOK, BrokerType

(* The replay onSidecarAttach copies is positioned at its offset.          *)
LEMMA AttachHandlerOK ==
    ASSUME NEW s \in SessionType, BufferOK(s.downBuf), NEW i \in Dials, NEW off \in Nat
    PROVE  AttachHandler(s, i, off) \in Handler /\ HandlerOK(AttachHandler(s, i, off))
  <1> DEFINE p == IF FromOK(s.downBuf, off) THEN From(s.downBuf, off) ELSE <<>>
  <1>1. s.downBuf \in ReplayBufferType /\ s.upstreamWritten \in Nat /\ s.downClosed \in BOOLEAN
    BY DEF SessionType
  <1>2. p \in Seq(Byte) /\ Positioned(p, off)
    BY <1>1, FromPositioned DEF Positioned
  <1> QED
    BY <1>1, <1>2 DEF AttachHandler, Handler, HandlerOK

-----------------------------------------------------------------------------
(* Initial states.                                                         *)

(* The initial states satisfy the invariant.                               *)
THEOREM InitIInv == Init => IInv
  <1> SUFFICES ASSUME Init PROVE IInv
    OBVIOUS
  <1> USE DEF Init
  <1>0. 0 \in 0 .. MaxDials /\ 0 \in 0 .. MaxTunnels
    BY BoundsAssumption
  <1>1. NewSession(0) \in SessionType /\ BufferOK(NewSession(0).downBuf)
        /\ NewSession(0).downBuf.base = 0
    BY <1>0, NewSessionOK, NewBufferOK DEF NewReplayBuffer
  <1>2. cs \in ClientSessionType /\ cs.downDelivered = 0
    BY NewBufferOK DEF NewClientSession, ClientSessionType
  <1>3. NewServerConn \in ServerConnType
    BY DEF NewServerConn, ServerConnType
  <1>4. /\ bs \in [Dials -> SessionType] /\ srv \in [Dials -> ServerConnType]
        /\ downq \in [Tunnels -> Seq(Frame)] /\ upq \in [Tunnels -> Seq(Frame)]
        /\ pend \in [Tunnels -> Seq(Handler)]
        /\ wout \in Seq(Frame) /\ rout \in Seq(Frame) /\ agentGot \in Seq(Byte)
    BY <1>1, <1>3
  <1>7. TypeOK
    BY <1>0, <1>2, <1>4 DEF TypeOK
  <1>5. Broker \in BrokerType
    BY <1>0, <1>4 DEF Broker, BrokerType
  <1>6. BrokerOK(Broker, cs.downDelivered)
    BY <1>1, <1>2, <1>5 DEF Broker, BrokerOK, QueueOK
  <1> QED
    BY <1>2, <1>6, <1>7 DEF IInv, AcksOK, Positioned

-----------------------------------------------------------------------------
(* A step of the broker: it commits a BrokerOK result, leaves the sidecar  *)
(* alone, and only takes frames off the queues to the broker.              *)
LEMMA CommitStep ==
    ASSUME IInv, NEW B, BrokerOK(B, cs.downDelivered), Commit(B),
           UNCHANGED <<actor, faults, sidecarVars>>,
           link' \in [Tunnels -> {"up", "cut", "ended"}],
           upq' \in [Tunnels -> Seq(Frame)],
           \A t \in Tunnels : AcksOK(upq'[t], cs.downDelivered),
           pend' \in [Tunnels -> Seq(Handler)],
           \A t \in Tunnels : \A k \in 1 .. Len(pend'[t]) : HandlerOK(pend'[t][k]),
           srv' \in [Dials -> ServerConnType]
    PROVE  IInv'
  <1>1. Broker' = B
    BY DEF Broker, Commit, BrokerOK, BrokerType
  <1>2. cs' = cs /\ BrokerOK(B, cs'.downDelivered)
    BY DEF sidecarVars
  <1>3. BrokerOK(Broker', cs'.downDelivered)
    BY <1>1, <1>2
  <1>4. bs' \in [Dials -> SessionType] /\ cur' \in 0 .. MaxDials
        /\ downq' \in [Tunnels -> Seq(Frame)] /\ wake' \in BOOLEAN
    BY DEF Commit, BrokerOK, BrokerType
  <1>5. /\ actor' = actor /\ faults' = faults /\ loop' = loop /\ conn' = conn /\ cs' = cs
        /\ agentGot' = agentGot /\ agentOpen' = agentOpen /\ wout' = wout /\ rout' = rout
    BY DEF sidecarVars
  <1>6. TypeOK
    BY DEF IInv
  <1>7. TypeOK'
    BY <1>4, <1>5, <1>6 DEF TypeOK
  <1>8. /\ AcksOK(wout, cs.downDelivered) /\ AcksOK(rout, cs.downDelivered)
        /\ Positioned(agentGot, 0) /\ Len(agentGot) = cs.downDelivered
    BY DEF IInv
  <1> QED
    BY <1>3, <1>5, <1>7, <1>8 DEF IInv

(* serveTunnel took a frame off tunnel t.                                  *)
LEMMA ServeOK ==
    ASSUME IInv, NEW t \in Tunnels, NEW type, Serve(t, type)
    PROVE  /\ upq' \in [Tunnels -> Seq(Frame)]
           /\ \A u \in Tunnels : AcksOK(upq'[u], cs.downDelivered)
           /\ Head(upq[t]) \in Frame
           /\ type = "ACK" => Head(upq[t]).off <= cs.downDelivered
           /\ pend[t] = <<>>
  <1>1. upq[t] \in Seq(Frame) /\ upq[t] # <<>> /\ AcksOK(upq[t], cs.downDelivered)
        /\ cs.downDelivered \in Nat /\ upq \in [Tunnels -> Seq(Frame)]
    BY DEF IInv, TypeOK, Serve, ClientSessionType
  <1>2. Tail(upq[t]) \in Seq(Frame) /\ Head(upq[t]) \in Frame
        /\ AcksOK(Tail(upq[t]), cs.downDelivered)
        /\ (Head(upq[t]).type = "ACK" => Head(upq[t]).off <= cs.downDelivered)
    BY <1>1, TailOK
  <1>3. upq' = [upq EXCEPT ![t] = Tail(upq[t])]
    BY DEF Serve
  <1>4. \A u \in Tunnels : AcksOK(upq[u], cs.downDelivered)
    BY DEF IInv
  <1> QED
    BY <1>1, <1>2, <1>3, <1>4 DEF Serve

(* A frame loop starts or ends a handler.                                  *)
LEMMA PendOK ==
    ASSUME IInv, NEW t \in Tunnels, NEW p \in Seq(Handler),
           \A k \in 1 .. Len(p) : HandlerOK(p[k]), pend' = [pend EXCEPT ![t] = p]
    PROVE  /\ pend' \in [Tunnels -> Seq(Handler)]
           /\ \A u \in Tunnels : \A k \in 1 .. Len(pend'[u]) : HandlerOK(pend'[u][k])
  BY DEF IInv, TypeOK

(* A frame loop enters a handler.                                          *)
LEMMA PendStart ==
    ASSUME IInv, NEW t \in Tunnels, NEW h \in Handler, HandlerOK(h),
           pend' = [pend EXCEPT ![t] = <<h>>]
    PROVE  /\ pend' \in [Tunnels -> Seq(Handler)]
           /\ \A u \in Tunnels : \A k \in 1 .. Len(pend'[u]) : HandlerOK(pend'[u][k])
  <1>1. <<h>> \in Seq(Handler) /\ \A k \in 1 .. Len(<<h>>) : HandlerOK(<<h>>[k])
    OBVIOUS
  <1> QED
    BY <1>1, PendOK

(* A frame loop leaves its handler.                                        *)
LEMMA PendEnd ==
    ASSUME IInv, NEW t \in Tunnels, pend' = [pend EXCEPT ![t] = <<>>]
    PROVE  /\ pend' \in [Tunnels -> Seq(Handler)]
           /\ \A u \in Tunnels : \A k \in 1 .. Len(pend'[u]) : HandlerOK(pend'[u][k])
  <1>1. <<>> \in Seq(Handler) /\ \A k \in 1 .. Len(<<>>) : HandlerOK(<<>>[k])
    OBVIOUS
  <1> QED
    BY <1>1, PendOK

(* What IInv says of the broker's state, in the form the steps use.        *)
LEMMA BrokerFacts ==
    ASSUME IInv
    PROVE  /\ BrokerOK(Broker, cs.downDelivered) /\ cs.downDelivered \in Nat
           /\ bs \in [Dials -> SessionType] /\ srv \in [Dials -> ServerConnType]
           /\ \A i \in Dials : BufferOK(bs[i].downBuf)
                               /\ bs[i].downBuf.base <= cs.downDelivered
           /\ cur \in 0 .. MaxDials /\ (cur # 0 => cur \in Dials)
           /\ link \in [Tunnels -> {"up", "cut", "ended"}]
           /\ upq \in [Tunnels -> Seq(Frame)]
           /\ \A t \in Tunnels : AcksOK(upq[t], cs.downDelivered)
           /\ pend \in [Tunnels -> Seq(Handler)]
           /\ \A t \in Tunnels : \A k \in 1 .. Len(pend[t]) : HandlerOK(pend[t][k])
  <1>1. BrokerOK(Broker, cs.downDelivered)
    BY DEF IInv
  <1>2. \A i \in Dials : BufferOK(bs[i].downBuf) /\ bs[i].downBuf.base <= cs.downDelivered
    BY <1>1 DEF BrokerOK, Broker
  <1> QED
    BY <1>1, <1>2 DEF IInv, TypeOK, ClientSessionType, Dials

-----------------------------------------------------------------------------
(* One lemma per action of the broker.                                     *)

(* HandleOpen keeps the invariant.                                         *)
LEMMA HandleOpenStep ==
    ASSUME IInv, NEW t \in Tunnels, HandleOpen(t)
    PROVE  IInv'
  <1> USE DEF HandleOpen
  <1>1. CASE cur # 0
    <2>1. BrokerOK(Bind(Broker, cur, t), cs.downDelivered)
      BY <1>1, BrokerFacts, BindOK
    <2>2. AttachHandler(bs[cur], cur, 0) \in Handler /\ HandlerOK(AttachHandler(bs[cur], cur, 0))
      BY <1>1, BrokerFacts, AttachHandlerOK
    <2>3. pend' = [pend EXCEPT ![t] = <<AttachHandler(bs[cur], cur, 0)>>]
      BY <1>1
    <2>4. /\ pend' \in [Tunnels -> Seq(Handler)]
          /\ \A u \in Tunnels : \A k \in 1 .. Len(pend'[u]) : HandlerOK(pend'[u][k])
      BY <2>2, <2>3, PendStart
    <2> QED
      BY <1>1, <2>1, <2>4, BrokerFacts, ServeOK, CommitStep
  <1>2. CASE cur = 0
    <2>1. BrokerOK(Create(Broker, t), cs.downDelivered)
      BY <1>2, BrokerFacts, CreateOK
    <2> QED
      BY <1>2, <2>1, BrokerFacts, ServeOK, CommitStep
  <1> QED
    BY <1>1, <1>2

(* HandleAttach keeps the invariant.                                       *)
LEMMA HandleAttachStep ==
    ASSUME IInv, NEW t \in Tunnels, HandleAttach(t)
    PROVE  IInv'
  <1> DEFINE off == Head(upq[t]).off
  <1>0. off \in Nat
    BY ServeOK DEF HandleAttach, Frame
  <1>1. CASE cur # 0
    <2>1. BrokerOK(Bind(Broker, cur, t), cs.downDelivered)
      BY <1>1, BrokerFacts, BindOK
    <2>2. AttachHandler(bs[cur], cur, off) \in Handler
          /\ HandlerOK(AttachHandler(bs[cur], cur, off))
      BY <1>0, <1>1, BrokerFacts, AttachHandlerOK
    <2>3. pend' = [pend EXCEPT ![t] = <<AttachHandler(bs[cur], cur, off)>>]
      BY <1>1 DEF HandleAttach
    <2>4. /\ pend' \in [Tunnels -> Seq(Handler)]
          /\ \A u \in Tunnels : \A k \in 1 .. Len(pend'[u]) : HandlerOK(pend'[u][k])
      BY <2>2, <2>3, PendStart
    <2> QED
      BY <1>1, <2>1, <2>4, BrokerFacts, ServeOK, CommitStep DEF HandleAttach
  <1>2. CASE cur = 0 /\ off = 0
    <2>1. BrokerOK(Create(Broker, t), cs.downDelivered) /\ NextDial \in Dials
      BY <1>2, BrokerFacts, CreateOK DEF HandleAttach
    <2>2. AttachHandler(NewSession(t), NextDial, 0) \in Handler
          /\ HandlerOK(AttachHandler(NewSession(t), NextDial, 0))
      BY <2>1, NewSessionOK, NewBufferOK, AttachHandlerOK DEF Tunnels
    <2>3. pend' = [pend EXCEPT ![t] = <<AttachHandler(NewSession(t), NextDial, 0)>>]
      BY <1>2 DEF HandleAttach
    <2>4. /\ pend' \in [Tunnels -> Seq(Handler)]
          /\ \A u \in Tunnels : \A k \in 1 .. Len(pend'[u]) : HandlerOK(pend'[u][k])
      BY <2>2, <2>3, PendStart
    <2> QED
      BY <1>2, <2>1, <2>4, BrokerFacts, ServeOK, CommitStep DEF HandleAttach
  <1>3. CASE cur = 0 /\ off # 0
    <2> DEFINE f == Ctl("LOST", 0)
               B == [Broker EXCEPT !.q = WriteFrame(@, t, f)]
    <2>1. f \in Frame /\ Positioned(f.data, f.off) /\ t \in 0 .. MaxTunnels
      BY CtlFrame DEF FrameType, Tunnels
    <2>2. BrokerOK(B, cs.downDelivered)
      BY <2>1, BrokerFacts, WriteFrameType, WriteFrameQueues DEF BrokerOK, BrokerType
    <2>3. Commit(B)
      BY <1>3 DEF HandleAttach
    <2> QED
      BY <1>3, <2>2, <2>3, BrokerFacts, ServeOK, CommitStep DEF HandleAttach
  <1> QED
    BY <1>1, <1>2, <1>3

(* FinishAttach keeps the invariant.                                       *)
LEMMA FinishAttachStep ==
    ASSUME IInv, NEW t \in Tunnels, NEW ok \in BOOLEAN, FinishAttach(t, ok)
    PROVE  IInv'
  <1> DEFINE d == cs.downDelivered
             h == pend[t][1]
             B1 == SendToSidecar(Broker, h.i, Ctl("ATTACH_OK", h.written), ok)
             B2 == IF h.data = <<>> THEN B1
                   ELSE SendToSidecar(B1, h.i, Data(h.off, h.data), ok)
             B3 == IF h.close THEN SendToSidecar(B2, h.i, Ctl("CLOSE", 0), ok) ELSE B2
  <1>1. h \in Handler /\ HandlerOK(h) /\ h.op = "onAttach"
    BY BrokerFacts DEF FinishAttach
  <1>2. h.i \in Dials /\ h.written \in Nat /\ h.off \in Nat /\ h.data \in Seq(Byte)
        /\ Positioned(h.data, h.off)
    BY <1>1 DEF Handler, HandlerOK
  <1>3. Ctl("ATTACH_OK", h.written) \in Frame /\ Ctl("CLOSE", 0) \in Frame
        /\ Positioned(Ctl("ATTACH_OK", h.written).data, Ctl("ATTACH_OK", h.written).off)
        /\ Positioned(Ctl("CLOSE", 0).data, Ctl("CLOSE", 0).off)
    BY <1>2, CtlFrame DEF FrameType
  <1>4. Data(h.off, h.data) \in Frame
        /\ Positioned(Data(h.off, h.data).data, Data(h.off, h.data).off)
    BY <1>2, DataFrame
  <1>5. BrokerOK(B1, d)
    BY <1>2, <1>3, BrokerFacts, SendToSidecarOK
  <1>6. BrokerOK(B2, d)
    BY <1>2, <1>4, <1>5, BrokerFacts, SendToSidecarOK
  <1>7. BrokerOK(B3, d)
    BY <1>2, <1>3, <1>6, BrokerFacts, SendToSidecarOK
  <1>8. Commit(B3)
    BY DEF FinishAttach
  <1> HIDE DEF B3
  <1> QED
    BY <1>7, <1>8, BrokerFacts, PendEnd, CommitStep DEF FinishAttach

(* A step that changes one session and nothing else the sidecar sees.      *)
LEMMA SessionCommit ==
    ASSUME IInv, NEW i \in Dials, NEW s \in SessionType,
           BufferOK(s.downBuf), s.downBuf.base <= cs.downDelivered,
           bs' = [bs EXCEPT ![i] = s], wake' \in BOOLEAN,
           UNCHANGED <<cur, downq>>
    PROVE  \E B : BrokerOK(B, cs.downDelivered) /\ Commit(B)
  <1> DEFINE B1 == [Broker EXCEPT !.s[i] = s]
             B  == [s |-> B1.s, cur |-> B1.cur, q |-> B1.q, w |-> wake']
  <1>1. BrokerOK(B1, cs.downDelivered)
    BY BrokerFacts, SessionUpdateOK
  <1>2. B1.s = bs' /\ B1.cur = cur /\ B1.q = downq
    BY DEF Broker
  <1>3. Commit(B)
    BY <1>2 DEF Commit
  <1>4. BrokerOK(B, cs.downDelivered)
    <2> HIDE DEF B1
    <2> QED
      BY <1>1 DEF BrokerOK, BrokerType
  <1> QED
    BY <1>3, <1>4

(* HandleDataEarly keeps the invariant.                                    *)
LEMMA HandleDataEarlyStep ==
    ASSUME IInv, NEW t \in Tunnels, HandleDataEarly(t)
    PROVE  IInv'
  <1> DEFINE f == Head(upq[t])
             accepted == bs[cur].upstreamWritten + Len(bs[cur].preConn)
             p == Fresh(f.off, f.data, accepted)
             s == [bs[cur] EXCEPT !.preConn = @ \o p]
  <1>1. cur \in Dials /\ bs[cur] \in SessionType
    BY BrokerFacts DEF HandleDataEarly
  <1>2. f \in Frame
    BY ServeOK DEF HandleDataEarly
  <1>3. f.off \in Nat /\ f.data \in Seq(Byte)
    BY <1>2 DEF Frame
  <1>4. bs[cur].preConn \in Seq(Byte) /\ accepted \in Nat
    BY <1>1 DEF SessionType
  <1>9. p \in Seq(Byte)
    BY <1>3, <1>4, FreshPositioned
  <1>7. bs[cur].preConn \o p \in Seq(Byte)
    <2> HIDE DEF p
    <2> QED
      BY <1>4, <1>9
  <1>8. s \in SessionType /\ s.downBuf = bs[cur].downBuf
    <2> HIDE DEF p
    <2> QED
      BY <1>1, <1>7 DEF SessionType
  <1>5. bs' = [bs EXCEPT ![cur] = s] /\ wake' = wake /\ wake \in BOOLEAN
    BY DEF HandleDataEarly, envVars, IInv, TypeOK
  <1> HIDE DEF s
  <1>6. PICK B : BrokerOK(B, cs.downDelivered) /\ Commit(B)
    BY <1>1, <1>5, <1>8, BrokerFacts, SessionCommit DEF HandleDataEarly
  <1> QED
    BY <1>6, BrokerFacts, ServeOK, CommitStep DEF HandleDataEarly, envVars

(* A step that changes one session, and takes at most a frame off a queue  *)
(* to the broker.                                                          *)
LEMMA SessionStep ==
    ASSUME IInv, NEW i \in Dials, NEW s \in SessionType,
           BufferOK(s.downBuf), s.downBuf.base <= cs.downDelivered,
           bs' = [bs EXCEPT ![i] = s], wake' \in BOOLEAN,
           upq' \in [Tunnels -> Seq(Frame)],
           \A t \in Tunnels : AcksOK(upq'[t], cs.downDelivered),
           UNCHANGED <<actor, faults, sidecarVars, link, downq, pend, cur, srv>>
    PROVE  IInv'
  <1>1. PICK B : BrokerOK(B, cs.downDelivered) /\ Commit(B)
    BY SessionCommit
  <1> QED
    BY <1>1, BrokerFacts, CommitStep

(* A step of the destination's end.                                        *)
LEMMA ServerStep ==
    ASSUME IInv, NEW i \in Dials, NEW c \in ServerConnType, srv' = [srv EXCEPT ![i] = c],
           UNCHANGED <<envVars, sidecarVars, link, upq, downq, pend, bs, cur>>
    PROVE  IInv'
  <1>1. Commit(Broker) /\ UNCHANGED <<actor, faults>>
    BY DEF Commit, Broker, envVars
  <1>2. srv' \in [Dials -> ServerConnType]
    BY BrokerFacts
  <1> QED
    BY <1>1, <1>2, BrokerFacts, CommitStep

(* Bytes arriving at the destination.                                      *)
LEMMA ServerGot ==
    ASSUME IInv, NEW i \in Dials, NEW p \in Seq(Byte), srv' = [srv EXCEPT ![i].got = @ \o p]
    PROVE  srv' \in [Dials -> ServerConnType]
  <1> DEFINE c == [srv[i] EXCEPT !.got = srv[i].got \o p]
  <1>1. srv[i] \in ServerConnType /\ srv \in [Dials -> ServerConnType]
    BY BrokerFacts
  <1>2. srv[i].got \o p \in Seq(Byte)
    BY <1>1 DEF ServerConnType
  <1>3. c \in ServerConnType
    BY <1>1, <1>2 DEF ServerConnType
  <1>4. srv' = [srv EXCEPT ![i] = c]
    BY <1>1 DEF ServerConnType
  <1> HIDE DEF c
  <1> QED
    BY <1>1, <1>3, <1>4

(* HandleData keeps the invariant.                                         *)
LEMMA HandleDataStep ==
    ASSUME IInv, NEW t \in Tunnels, HandleData(t)
    PROVE  IInv'
  <1> DEFINE f == Head(upq[t])
             p == Fresh(f.off, f.data, bs[cur].upstreamWritten)
             h == [op |-> "onData", i |-> cur, off |-> 0, written |-> 0,
                   data |-> p, close |-> FALSE]
  <1>1. cur \in Dials /\ bs[cur] \in SessionType
    BY BrokerFacts DEF HandleData
  <1>2. f \in Frame
    BY ServeOK DEF HandleData
  <1>3. f.off \in Nat /\ f.data \in Seq(Byte) /\ bs[cur].upstreamWritten \in Nat
    BY <1>1, <1>2 DEF Frame, SessionType
  <1>4. p \in Seq(Byte)
    BY <1>3, FreshPositioned
  <1>5. Commit(Broker) /\ UNCHANGED <<actor, faults, sidecarVars>> /\ link' = link
    BY DEF HandleData, Commit, Broker, envVars
  <1>6. upq' \in [Tunnels -> Seq(Frame)] /\ \A u \in Tunnels : AcksOK(upq'[u], cs.downDelivered)
    BY ServeOK DEF HandleData
  <1>7. CASE p = <<>>
    <2>1. srv' = srv /\ pend' = pend
      BY <1>7 DEF HandleData
    <2> QED
      BY <2>1, <1>5, <1>6, BrokerFacts, CommitStep
  <1>8. CASE p # <<>>
    <2>1. srv' = [srv EXCEPT ![cur].got = @ \o p] /\ pend' = [pend EXCEPT ![t] = <<h>>]
      BY <1>8 DEF HandleData
    <2> HIDE DEF p
    <2>2. h \in Handler /\ HandlerOK(h)
      BY <1>1, <1>4 DEF Handler, HandlerOK
    <2> HIDE DEF h
    <2>3. srv' \in [Dials -> ServerConnType]
      BY <1>1, <1>4, <2>1, ServerGot
    <2>4. /\ pend' \in [Tunnels -> Seq(Handler)]
          /\ \A u \in Tunnels : \A k \in 1 .. Len(pend'[u]) : HandlerOK(pend'[u][k])
      BY <2>1, <2>2, PendStart
    <2> QED
      BY <2>3, <2>4, <1>5, <1>6, BrokerFacts, CommitStep
  <1> QED
    BY <1>7, <1>8

(* HandleDataError keeps the invariant.                                    *)
LEMMA HandleDataErrorStep ==
    ASSUME IInv, NEW t \in Tunnels, NEW ok \in BOOLEAN, HandleDataError(t, ok)
    PROVE  IInv'
  <1>1. BrokerOK(CloseUpstream(Broker, cur, ok), cs.downDelivered)
    BY BrokerFacts, CloseUpstreamOK DEF HandleDataError
  <1> QED
    BY <1>1, BrokerFacts, ServeOK, CommitStep DEF HandleDataError

(* An update of one session that leaves downBuf alone.                     *)
LEMMA BrokerUpdateOK ==
    ASSUME IInv, NEW i \in Dials, NEW s \in SessionType, s.downBuf = bs[i].downBuf
    PROVE  BrokerOK([Broker EXCEPT !.s[i] = s], cs.downDelivered)
  BY BrokerFacts, SessionUpdateOK

(* FinishData keeps the invariant.                                         *)
LEMMA FinishDataStep ==
    ASSUME IInv, NEW t \in Tunnels, NEW ok \in BOOLEAN, FinishData(t, ok)
    PROVE  IInv'
  <1> DEFINE h == pend[t][1]
             i == h.i
             written == bs[i].upstreamWritten + Len(h.data)
             s == [bs[i] EXCEPT !.upstreamWritten = written,
                                !.requestOutstanding = TRUE, !.watchdog = TRUE]
             B == [Broker EXCEPT !.s[i] = s]
  <1>1. h \in Handler
    BY BrokerFacts DEF FinishData
  <1>2. i \in Dials /\ h.data \in Seq(Byte)
    BY <1>1 DEF Handler
  <1>3. bs[i] \in SessionType
    BY <1>2, BrokerFacts
  <1>4. written \in Nat
    BY <1>2, <1>3 DEF SessionType
  <1>5. Commit(SendToSidecar(B, i, Ctl("ACK", written), ok))
    <2>1. [Broker EXCEPT !.s[i].upstreamWritten = written,
                        !.s[i].requestOutstanding = TRUE, !.s[i].watchdog = TRUE] = B
      <3> HIDE DEF written, i
      <3>1. Broker.s = bs /\ bs \in [Dials -> SessionType] /\ i \in Dials
        BY <1>2, BrokerFacts DEF Broker
      <3>2. [bs EXCEPT ![i].upstreamWritten = written,
                       ![i].requestOutstanding = TRUE, ![i].watchdog = TRUE]
              = [bs EXCEPT ![i] = s]
        BY <1>3, <3>1 DEF SessionType
      <3> QED
        BY <3>1, <3>2 DEF Broker
    <2> QED
      BY <2>1 DEF FinishData
  <1> HIDE DEF written
  <1>6. s \in SessionType /\ s.downBuf = bs[i].downBuf
    BY <1>3, <1>4 DEF SessionType
  <1> HIDE DEF s
  <1>7. BrokerOK(B, cs.downDelivered)
    BY <1>2, <1>6, BrokerUpdateOK
  <1> HIDE DEF B
  <1>8. Ctl("ACK", written) \in Frame
        /\ Positioned(Ctl("ACK", written).data, Ctl("ACK", written).off)
    BY <1>4, CtlFrame DEF FrameType
  <1>9. BrokerOK(SendToSidecar(B, i, Ctl("ACK", written), ok), cs.downDelivered)
    BY <1>2, <1>7, <1>8, BrokerFacts, SendToSidecarOK
  <1> QED
    BY <1>5, <1>9, BrokerFacts, PendEnd, CommitStep DEF FinishData

(* HandleAck keeps the invariant.                                          *)
LEMMA HandleAckStep ==
    ASSUME IInv, NEW t \in Tunnels, HandleAck(t)
    PROVE  IInv'
  <1> DEFINE off == Head(upq[t]).off
             b == TrimTo(bs[cur].downBuf, off)
             s == [bs[cur] EXCEPT !.downBuf = b,
                                  !.requestOutstanding = @ /\ BufLen(b) # 0]
  <1>1. cur \in Dials /\ bs[cur] \in SessionType /\ BufferOK(bs[cur].downBuf)
        /\ bs[cur].downBuf.base <= cs.downDelivered /\ cs.downDelivered \in Nat
        /\ bs \in [Dials -> SessionType]
    BY BrokerFacts DEF HandleAck
  <1>2. off \in Nat /\ off <= cs.downDelivered
    BY ServeOK DEF HandleAck, Frame
  <1>3. bs[cur].downBuf \in ReplayBufferType /\ bs[cur].requestOutstanding \in BOOLEAN
    BY <1>1 DEF SessionType
  <1>4. b \in ReplayBufferType /\ BufferOK(b) /\ b.base <= cs.downDelivered
    BY <1>1, <1>2, <1>3, TrimToOK
  <1>5. bs' = [bs EXCEPT ![cur].downBuf = b,
                         ![cur].requestOutstanding = @ /\ BufLen(b) # 0]
    BY DEF HandleAck
  <1> HIDE DEF b
  <1>6. bs' = [bs EXCEPT ![cur] = s]
    BY <1>1, <1>5 DEF SessionType
  <1>7. s \in SessionType /\ s.downBuf = b
    BY <1>1, <1>3, <1>4 DEF SessionType
  <1> HIDE DEF s
  <1>8. wake' \in BOOLEAN /\ UNCHANGED <<actor, faults>>
    BY DEF HandleAck, envVars, IInv, TypeOK
  <1> QED
    BY <1>1, <1>4, <1>6, <1>7, <1>8, ServeOK, SessionStep DEF HandleAck

(* HandleClose keeps the invariant.                                        *)
LEMMA HandleCloseStep ==
    ASSUME IInv, NEW t \in Tunnels, HandleClose(t)
    PROVE  IInv'
  <1> DEFINE B == [Broker EXCEPT !.s[cur].upClosed = TRUE]
             c == [srv[cur] EXCEPT !.eof = @ \/ Connected(bs[cur])]
  <1>1. cur \in Dials /\ srv[cur] \in ServerConnType /\ srv \in [Dials -> ServerConnType]
    BY BrokerFacts DEF HandleClose
  <1>2. BrokerOK(MaybeDestroy(B, cur), cs.downDelivered)
    BY <1>1, BrokerFacts, CloseFlagsOK, DestroyOK
  <1>3. Commit(MaybeDestroy(B, cur))
    BY DEF HandleClose
  <1>4. srv' = [srv EXCEPT ![cur] = c]
    BY <1>1 DEF HandleClose, ServerConnType
  <1>5. c \in ServerConnType
    BY <1>1 DEF ServerConnType, Connected
  <1> HIDE DEF B, c
  <1>6. srv' \in [Dials -> ServerConnType]
    BY <1>1, <1>4, <1>5
  <1> QED
    BY <1>2, <1>3, <1>6, BrokerFacts, ServeOK, CommitStep DEF HandleClose

(* HandleUnknown keeps the invariant.                                      *)
LEMMA HandleUnknownStep ==
    ASSUME IInv, NEW t \in Tunnels, HandleUnknown(t)
    PROVE  IInv'
  <1>1. PICK type \in {"DATA", "ACK", "CLOSE"} : Serve(t, type)
    BY DEF HandleUnknown
  <1>2. Commit(Broker) /\ UNCHANGED <<actor, faults, sidecarVars>> /\ link' = link
        /\ pend' = pend /\ srv' = srv
    BY DEF HandleUnknown, Commit, Broker, envVars, brokerVars
  <1> QED
    BY <1>1, <1>2, BrokerFacts, ServeOK, CommitStep

(* tunnelConn.detachAll.                                                   *)
LEMMA DetachAllOK ==
    ASSUME NEW B, NEW d \in Nat, BrokerOK(B, d), NEW t \in Tunnels
    PROVE  BrokerOK(DetachAll(B, t), d)
  <1> DEFINE S == [i \in Dials |-> Detach(B, i, t).s[i]]
             w == B.w \/ \E i \in Dials : Detach(B, i, t).w
  <1>1. \A i \in Dials : BrokerOK(Detach(B, i, t), d)
    BY DetachOK
  <1>2. \A i \in Dials : /\ Detach(B, i, t).s[i] \in SessionType
                         /\ BufferOK(Detach(B, i, t).s[i].downBuf)
                         /\ Detach(B, i, t).s[i].downBuf.base <= d
    BY <1>1 DEF BrokerOK, BrokerType
  <1>3. S \in [Dials -> SessionType] /\ w \in BOOLEAN
    BY <1>2 DEF BrokerOK, BrokerType
  <1>4. \A i \in Dials : BufferOK(S[i].downBuf) /\ S[i].downBuf.base <= d
    BY <1>2
  <1>5. DetachAll(B, t) = [B EXCEPT !.s = S, !.w = w]
    BY DEF DetachAll
  <1> HIDE DEF S, w
  <1> QED
    BY <1>3, <1>4, <1>5 DEF BrokerOK, BrokerType

(* TunnelEnd keeps the invariant.                                          *)
LEMMA TunnelEndStep ==
    ASSUME IInv, NEW t \in Tunnels, TunnelEnd(t)
    PROVE  IInv'
  <1>1. BrokerOK(DetachAll(Broker, t), cs.downDelivered)
    BY BrokerFacts, DetachAllOK
  <1>2. link' \in [Tunnels -> {"up", "cut", "ended"}]
    BY BrokerFacts DEF TunnelEnd
  <1>3. <<>> \in Seq(Frame) /\ AcksOK(<<>>, cs.downDelivered)
    BY DEF AcksOK
  <1>4. upq' \in [Tunnels -> Seq(Frame)] /\ \A u \in Tunnels : AcksOK(upq'[u], cs.downDelivered)
    BY <1>3, BrokerFacts DEF TunnelEnd
  <1> QED
    BY <1>1, <1>2, <1>4, BrokerFacts, CommitStep DEF TunnelEnd

(* DialOK keeps the invariant.                                             *)
LEMMA DialOKStep ==
    ASSUME IInv, NEW i \in Dials, DialOK(i)
    PROVE  IInv'
  <1> DEFINE v == IF bs[i].preConn = <<>> THEN "reading" ELSE "flushing"
             s == [bs[i] EXCEPT !.dial = v, !.watchdog = TRUE]
  <1>1. bs[i] \in SessionType /\ bs \in [Dials -> SessionType]
    BY BrokerFacts
  <1>2. v \in {"reading", "flushing"} /\ bs' = [bs EXCEPT ![i].dial = v, ![i].watchdog = TRUE]
    BY DEF DialOK
  <1> HIDE DEF v
  <1>3. bs' = [bs EXCEPT ![i] = s]
    BY <1>1, <1>2 DEF SessionType
  <1>4. s \in SessionType /\ s.downBuf = bs[i].downBuf
    BY <1>1, <1>2 DEF SessionType
  <1> HIDE DEF s
  <1>5. wake' \in BOOLEAN /\ UNCHANGED <<actor, faults>>
    BY DEF DialOK, envVars, IInv, TypeOK
  <1> QED
    BY <1>3, <1>4, <1>5, BrokerFacts, SessionStep DEF DialOK

(* The dial goroutine of session i moves on.                               *)
LEMMA DialMoves ==
    ASSUME IInv, NEW i \in Dials
    PROVE  BrokerOK([Broker EXCEPT !.s[i].dial = "done"], cs.downDelivered)
  <1> DEFINE s == [bs[i] EXCEPT !.dial = "done"]
  <1>1. bs[i] \in SessionType /\ bs \in [Dials -> SessionType] /\ Broker.s = bs
    BY BrokerFacts DEF Broker
  <1>2. s \in SessionType /\ s.downBuf = bs[i].downBuf
    BY <1>1 DEF SessionType
  <1>3. BrokerOK([Broker EXCEPT !.s[i] = s], cs.downDelivered)
    BY <1>2, BrokerUpdateOK
  <1> QED
    BY <1>1, <1>3

(* DialFail keeps the invariant.                                           *)
LEMMA DialFailStep ==
    ASSUME IInv, NEW i \in Dials, NEW ok \in BOOLEAN, DialFail(i, ok)
    PROVE  IInv'
  <1> DEFINE B1 == [Broker EXCEPT !.s[i].dial = "done"]
             B2 == SendToSidecar(B1, i, Ctl("LOST", 0), ok)
  <1>1. BrokerOK(B1, cs.downDelivered)
    BY DialMoves
  <1>2. Ctl("LOST", 0) \in Frame /\ Positioned(Ctl("LOST", 0).data, Ctl("LOST", 0).off)
    BY CtlFrame DEF FrameType
  <1>3. Commit(Destroy(B2, i))
    BY DEF DialFail
  <1> HIDE DEF B1
  <1>4. BrokerOK(B2, cs.downDelivered)
    BY <1>1, <1>2, BrokerFacts, SendToSidecarOK
  <1> HIDE DEF B2
  <1>5. BrokerOK(Destroy(B2, i), cs.downDelivered)
    BY <1>4, BrokerFacts, DestroyOK
  <1> QED
    BY <1>3, <1>5, BrokerFacts, CommitStep DEF DialFail

(* FlushError keeps the invariant.                                         *)
LEMMA FlushErrorStep ==
    ASSUME IInv, NEW i \in Dials, NEW ok \in BOOLEAN, FlushError(i, ok)
    PROVE  IInv'
  <1> DEFINE B1 == [Broker EXCEPT !.s[i].dial = "done"]
  <1>1. BrokerOK(CloseUpstream(B1, i, ok), cs.downDelivered)
    BY DialMoves, BrokerFacts, CloseUpstreamOK
  <1>2. Commit(CloseUpstream(B1, i, ok))
    BY DEF FlushError
  <1> HIDE DEF B1
  <1> QED
    BY <1>1, <1>2, BrokerFacts, CommitStep DEF FlushError

(* ReadEOF keeps the invariant.                                            *)
LEMMA ReadEOFStep ==
    ASSUME IInv, NEW i \in Dials, NEW ok \in BOOLEAN, ReadEOF(i, ok)
    PROVE  IInv'
  <1> DEFINE B1 == [Broker EXCEPT !.s[i].dial = "done"]
  <1>1. BrokerOK(CloseUpstream(B1, i, ok), cs.downDelivered)
    BY DialMoves, BrokerFacts, CloseUpstreamOK
  <1>2. Commit(CloseUpstream(B1, i, ok))
    BY DEF ReadEOF
  <1> HIDE DEF B1
  <1> QED
    BY <1>1, <1>2, BrokerFacts, CommitStep DEF ReadEOF

(* FlushPre keeps the invariant.                                           *)
LEMMA FlushPreStep ==
    ASSUME IInv, NEW i \in Dials, NEW ok \in BOOLEAN, FlushPre(i, ok)
    PROVE  IInv'
  <1> DEFINE written == bs[i].upstreamWritten + Len(bs[i].preConn)
             s == [bs[i] EXCEPT !.upstreamWritten = written, !.preConn = <<>>,
                                !.requestOutstanding = TRUE, !.dial = "reading"]
             B == [Broker EXCEPT !.s[i] = s]
  <1>1. bs[i] \in SessionType /\ bs \in [Dials -> SessionType] /\ Broker.s = bs
    BY BrokerFacts DEF Broker
  <1>2. written \in Nat /\ bs[i].preConn \in Seq(Byte)
    BY <1>1 DEF SessionType
  <1>3. srv' \in [Dials -> ServerConnType]
    BY <1>2, ServerGot DEF FlushPre
  <1>4. Commit(SendToSidecar(B, i, Ctl("ACK", written), ok))
    <2>1. [Broker EXCEPT !.s[i].upstreamWritten = written, !.s[i].preConn = <<>>,
                         !.s[i].requestOutstanding = TRUE, !.s[i].dial = "reading"] = B
      <3> HIDE DEF written
      <3>1. [bs EXCEPT ![i].upstreamWritten = written, ![i].preConn = <<>>,
                       ![i].requestOutstanding = TRUE, ![i].dial = "reading"]
              = [bs EXCEPT ![i] = s]
        BY <1>1 DEF SessionType
      <3> QED
        BY <1>1, <3>1 DEF Broker
    <2> QED
      BY <2>1 DEF FlushPre
  <1> HIDE DEF written
  <1>5. s \in SessionType /\ s.downBuf = bs[i].downBuf
    <2> DEFINE s1 == [bs[i] EXCEPT !.upstreamWritten = written, !.requestOutstanding = TRUE]
               e  == <<>>
    <2>1. s1 \in SessionType /\ s1.downBuf = bs[i].downBuf
      BY <1>1, <1>2 DEF SessionType
    <2>2. e \in Seq(Byte)
      OBVIOUS
    <2>3. s = [s1 EXCEPT !.preConn = e, !.dial = "reading"]
      BY <1>1 DEF SessionType
    <2> HIDE DEF s1, e, s
    <2> QED
      BY <2>1, <2>2, <2>3 DEF SessionType
  <1> HIDE DEF s
  <1>6. BrokerOK(B, cs.downDelivered)
    BY <1>5, BrokerUpdateOK
  <1> HIDE DEF B
  <1>7. Ctl("ACK", written) \in Frame
        /\ Positioned(Ctl("ACK", written).data, Ctl("ACK", written).off)
    BY <1>2, CtlFrame DEF FrameType
  <1>8. BrokerOK(SendToSidecar(B, i, Ctl("ACK", written), ok), cs.downDelivered)
    BY <1>6, <1>7, BrokerFacts, SendToSidecarOK
  <1> QED
    BY <1>3, <1>4, <1>8, BrokerFacts, CommitStep DEF FlushPre

(* Least picks a lower bound of three numbers.                             *)
LEMMA LeastOfThree ==
    ASSUME NEW a \in Int, NEW b \in Int, NEW c \in Int
    PROVE  Least({a, b, c}) \in Int
  <1>1. \E m \in {a, b, c} : \A k \in {a, b, c} : m <= k
    <2>1. CASE a <= b /\ a <= c
      BY <2>1
    <2>2. CASE b <= a /\ b <= c
      BY <2>2
    <2>3. CASE c <= a /\ c <= b
      BY <2>3
    <2> QED
      BY <2>1, <2>2, <2>3
  <1>2. Least({a, b, c}) \in {a, b, c}
    BY <1>1 DEF Least
  <1> QED
    BY <1>2

(* What readUpstreamLoop reads continues downBuf.                          *)
LEMMA ServerBytesOK ==
    ASSUME NEW i \in Dials, NEW from \in Nat, NEW n \in Nat
    PROVE  /\ ServerBytes(i, from, n) \in Seq(Byte)
           /\ Positioned(ServerBytes(i, from, n), from)
  <1> DEFINE p == ServerBytes(i, from, n)
  <1>1. \A k \in 1 .. n : <<i, from + k>> \in Byte
    BY DEF Byte, Dials
  <1>2. p = [k \in 1 .. n |-> <<i, from + k>>]
    BY DEF ServerBytes
  <1> HIDE DEF p
  <1>5. p \in [1 .. n -> Byte]
    BY <1>1, <1>2
  <1>3. p \in Seq(Byte) /\ Len(p) = n
    BY <1>5, SeqDef
  <1>4. \A k \in 1 .. n : p[k][2] = from + k
    BY <1>2
  <1> QED
    BY <1>3, <1>4 DEF Positioned, p

(* ReplayBuffer.Append                                                     *)
LEMMA AppendToIs ==
    ASSUME NEW b \in ReplayBufferType, NEW p \in Seq(Byte)
    PROVE  AppendTo(b, p) = [base |-> b.base, buf |-> b.buf \o p]
  <1> DEFINE x == b.buf \o p
  <1>1. AppendTo(b, p) = [b EXCEPT !.buf = x]
    BY DEF AppendTo
  <1> HIDE DEF x
  <1>2. [b EXCEPT !.buf = x] = [base |-> b.base, buf |-> x]
    BY DEF ReplayBufferType
  <1> QED
    BY <1>1, <1>2 DEF x

(* Produce keeps the invariant.                                            *)
LEMMA ProduceStep ==
    ASSUME IInv, NEW i \in Dials, NEW ok \in BOOLEAN, Produce(i, ok)
    PROVE  IInv'
  <1> DEFINE d   == cs.downDelivered
             b   == bs[i].downBuf
             off == End(b)
             n   == Least({srv[i].sent - off, ReadMax, Free(b, DownCap)})
             p   == ServerBytes(i, off, n)
             t   == bs[i].tconn
             u   == IF ok THEN t ELSE 0
             c   == AppendTo(b, p)
             s   == [bs[i] EXCEPT !.downBuf = c, !.tconn = u]
             B1  == [Broker EXCEPT !.s[i] = s]
             B2  == [B1 EXCEPT !.q = WriteFrame(downq, t, Data(off, p))]
  <1>1. bs[i] \in SessionType /\ bs \in [Dials -> SessionType] /\ Broker.s = bs
        /\ BufferOK(b) /\ b.base <= d /\ srv[i] \in ServerConnType /\ d \in Nat
    BY BrokerFacts DEF Broker
  <1>2. b \in ReplayBufferType /\ t \in 0 .. MaxTunnels /\ srv[i].sent \in Nat
    BY <1>1 DEF SessionType, ServerConnType
  <1>3. b.base \in Nat /\ b.buf \in Seq(Byte) /\ off \in Nat /\ off = b.base + Len(b.buf)
    BY <1>2 DEF ReplayBufferType, End, BufLen
  <1>4. n \in Nat /\ n > 0
    <2>1. n > 0
      BY DEF Produce
    <2>2. srv[i].sent - off \in Int /\ ReadMax \in Int /\ Free(b, DownCap) \in Int
      <3>1. ReadMax \in Nat /\ DownCap \in Nat
        BY LengthsAssumption
      <3> HIDE DEF b, off
      <3> QED
        BY <1>2, <1>3, <3>1 DEF Free, BufLen
    <2>3. n \in Int
      BY <2>2, LeastOfThree
    <2> HIDE DEF n
    <2> QED
      BY <2>1, <2>3
  <1>5. p \in Seq(Byte) /\ Positioned(p, off)
    BY <1>3, <1>4, ServerBytesOK
  <1>6. Commit(B2) \/ Commit(Wake(B2))
    <2>1. [Broker EXCEPT !.s[i].downBuf = AppendTo(@, p), !.s[i].tconn = IF ok THEN @ ELSE 0,
                         !.q = WriteFrame(@, t, Data(off, p))] = B2
      <3> HIDE DEF p, off
      <3>1. [bs EXCEPT ![i].downBuf = AppendTo(@, p), ![i].tconn = IF ok THEN @ ELSE 0]
              = [bs EXCEPT ![i] = s]
        BY <1>1 DEF SessionType
      <3> QED
        BY <1>1, <3>1 DEF Broker
    <2> QED
      BY <2>1 DEF Produce
  <1> HIDE DEF n, p, off
  <1>7. c = [base |-> b.base, buf |-> b.buf \o p]
    BY <1>2, <1>5, AppendToIs
  <1>8. b.buf \o p \in Seq(Byte) /\ Positioned(b.buf \o p, b.base)
    BY <1>1, <1>3, <1>5, ConcatPositioned DEF BufferOK
  <1>9. c \in ReplayBufferType /\ BufferOK(c) /\ c.base = b.base
    BY <1>3, <1>7, <1>8 DEF ReplayBufferType, BufferOK
  <1> HIDE DEF c
  <1>10. u \in 0 .. MaxTunnels
    BY <1>2, BoundsAssumption
  <1> HIDE DEF u
  <1>11. s \in SessionType /\ s.downBuf = c
    BY <1>1, <1>9, <1>10 DEF SessionType
  <1> HIDE DEF s
  <1>12. BrokerOK(B1, d) /\ B1.q = downq
    BY <1>1, <1>9, <1>11, BrokerFacts, SessionUpdateOK DEF Broker
  <1>13. Data(off, p) \in Frame /\ Positioned(Data(off, p).data, Data(off, p).off)
    BY <1>3, <1>5, DataFrame
  <1> HIDE DEF B1
  <1>14. BrokerOK(B2, d)
    BY <1>2, <1>12, <1>13, WriteFrameType, WriteFrameQueues DEF BrokerOK, BrokerType
  <1> HIDE DEF B2, d
  <1>15. BrokerOK(Wake(B2), d)
    BY <1>1, <1>14, WakeOK
  <1>16. \E C : BrokerOK(C, d) /\ Commit(C)
    BY <1>6, <1>14, <1>15
  <1> QED
    BY <1>16, BrokerFacts, CommitStep DEF Produce, d

(* WatchdogFire keeps the invariant.                                       *)
LEMMA WatchdogFireStep ==
    ASSUME IInv, NEW i \in Dials, WatchdogFire(i)
    PROVE  IInv'
  <1> DEFINE s == [bs[i] EXCEPT !.watchdog = FALSE]
  <1>1. bs[i] \in SessionType /\ bs \in [Dials -> SessionType]
    BY BrokerFacts
  <1>2. bs' = [bs EXCEPT ![i] = s]
    BY <1>1 DEF WatchdogFire
  <1>3. s \in SessionType /\ s.downBuf = bs[i].downBuf
    BY <1>1 DEF SessionType
  <1> HIDE DEF s
  <1>4. wake' \in BOOLEAN
    BY <1>1 DEF WatchdogFire, SessionType, IInv, TypeOK
  <1> QED
    BY <1>2, <1>3, <1>4, BrokerFacts, SessionStep DEF WatchdogFire

(* ServerSend keeps the invariant.                                         *)
LEMMA ServerSendStep ==
    ASSUME IInv, NEW i \in Dials, ServerSend(i) \/ ServerClose(i)
    PROVE  IInv'
  <1>1. srv[i] \in ServerConnType /\ srv \in [Dials -> ServerConnType]
    BY BrokerFacts
  <1>2. CASE ServerSend(i)
    <2> DEFINE k == srv[i].sent + 1
               c == [srv[i] EXCEPT !.sent = k]
    <2>3. k \in Nat
      BY <1>1 DEF ServerConnType
    <2>1. c \in ServerConnType
      <3> HIDE DEF k
      <3> QED
        BY <1>1, <2>3 DEF ServerConnType
    <2>2. srv' = [srv EXCEPT ![i] = c]
      BY <1>1, <1>2 DEF ServerSend, ServerConnType
    <2> HIDE DEF c
    <2> QED
      BY <1>2, <2>1, <2>2, ServerStep DEF ServerSend
  <1>3. CASE ServerClose(i)
    <2> DEFINE c == [srv[i] EXCEPT !.fin = TRUE]
    <2>1. c \in ServerConnType
      BY <1>1 DEF ServerConnType
    <2>2. srv' = [srv EXCEPT ![i] = c]
      BY <1>1, <1>3 DEF ServerClose, ServerConnType
    <2> HIDE DEF c
    <2> QED
      BY <1>3, <2>1, <2>2, ServerStep DEF ServerClose
  <1> QED
    BY <1>2, <1>3

-----------------------------------------------------------------------------
(* Steps of the sidecar and of the platform leave the broker's sessions    *)
(* alone.                                                                  *)
LEMMA SidecarFacts ==
    ASSUME IInv
    PROVE  /\ actor \in {"running", "suspended"} /\ wake \in BOOLEAN /\ faults \in Nat
           /\ loop \in {"down", "attach", "read"} /\ conn \in 0 .. MaxTunnels
           /\ (loop = "down" <=> conn = 0) /\ (conn # 0 => conn \in Tunnels)
           /\ cs \in ClientSessionType /\ cs.downDelivered \in Nat
           /\ cs.upBuf \in ReplayBufferType
           /\ agentGot \in Seq(Byte) /\ agentOpen \in BOOLEAN
           /\ wout \in Seq(Frame) /\ rout \in Seq(Frame)
           /\ link \in [Tunnels -> {"up", "cut", "ended"}]
           /\ upq \in [Tunnels -> Seq(Frame)] /\ downq \in [Tunnels -> Seq(Frame)]
           /\ \A t \in Tunnels : AcksOK(upq[t], cs.downDelivered)
           /\ \A t \in Tunnels : QueueOK(downq[t])
           /\ AcksOK(wout, cs.downDelivered) /\ AcksOK(rout, cs.downDelivered)
           /\ Positioned(agentGot, 0) /\ Len(agentGot) = cs.downDelivered
  <1>1. \A t \in Tunnels : QueueOK(downq[t])
    BY DEF IInv, BrokerOK, Broker
  <1> QED
    BY <1>1 DEF IInv, TypeOK, ClientSessionType, Tunnels

(* Acknowledgements stay valid when more is delivered.                     *)
LEMMA AcksMonotone ==
    ASSUME NEW q \in Seq(Frame), NEW d \in Nat, NEW e \in Nat, d <= e, AcksOK(q, d)
    PROVE  AcksOK(q, e)
  <1> SUFFICES ASSUME NEW k \in 1 .. Len(q), q[k].type = "ACK"
               PROVE  q[k].off <= e
    BY DEF AcksOK
  <1>1. q[k].off <= d /\ q[k] \in Frame
    BY DEF AcksOK
  <1>2. q[k].off \in Nat
    BY <1>1 DEF Frame
  <1> QED
    BY <1>1, <1>2

(* A step that changes the sidecar, with the broker left alone.            *)
LEMMA SidecarStep ==
    ASSUME IInv,
           actor' \in {"running", "suspended"}, wake' \in BOOLEAN, faults' \in Nat,
           loop' \in {"down", "attach", "read"}, conn' \in 0 .. MaxTunnels,
           loop' = "down" <=> conn' = 0,
           cs' \in ClientSessionType, cs.downDelivered <= cs'.downDelivered,
           agentGot' \in Seq(Byte), agentOpen' \in BOOLEAN,
           wout' \in Seq(Frame), rout' \in Seq(Frame),
           link' \in [Tunnels -> {"up", "cut", "ended"}],
           upq' \in [Tunnels -> Seq(Frame)], downq' \in [Tunnels -> Seq(Frame)],
           \A t \in Tunnels : QueueOK(downq'[t]),
           \A t \in Tunnels : AcksOK(upq'[t], cs'.downDelivered),
           AcksOK(wout', cs'.downDelivered), AcksOK(rout', cs'.downDelivered),
           Positioned(agentGot', 0), Len(agentGot') = cs'.downDelivered,
           pend' = pend, bs' = bs, cur' = cur, srv' = srv
    PROVE  IInv'
  <1>1. TypeOK'
    BY DEF IInv, TypeOK
  <1>2. cs.downDelivered \in Nat /\ cs'.downDelivered \in Nat
    BY DEF IInv, TypeOK, ClientSessionType
  <1>3. \A i \in Dials : /\ BufferOK(bs[i].downBuf) /\ bs[i].downBuf.base <= cs.downDelivered
                         /\ bs[i].downBuf.base \in Nat
    BY BrokerFacts DEF SessionType, ReplayBufferType
  <1>4. \A i \in Dials : BufferOK(bs'[i].downBuf) /\ bs'[i].downBuf.base <= cs'.downDelivered
    BY <1>2, <1>3
  <1>5. Broker' \in BrokerType
    BY BrokerFacts DEF Broker, BrokerType
  <1>6. BrokerOK(Broker', cs'.downDelivered)
    BY <1>4, <1>5 DEF BrokerOK, Broker
  <1>7. \A t \in Tunnels : \A k \in 1 .. Len(pend'[t]) : HandlerOK(pend'[t][k])
    BY BrokerFacts
  <1> QED
    BY <1>1, <1>6, <1>7 DEF IInv

(* Client.send                                                             *)
LEMMA SendOK ==
    ASSUME IInv, NEW f \in Frame, f.type = "ACK" => f.off <= cs.downDelivered, Send(f)
    PROVE  /\ upq' \in [Tunnels -> Seq(Frame)]
           /\ \A t \in Tunnels : AcksOK(upq'[t], cs.downDelivered)
  BY SidecarFacts, WriteFrameType, WriteFrameAcks DEF Send

(* OpenSession keeps the invariant.                                        *)
LEMMA OpenSessionStep ==
    ASSUME IInv, OpenSession
    PROVE  IInv'
  <1>1. cs' \in ClientSessionType /\ cs'.downDelivered = cs.downDelivered
    BY SidecarFacts DEF OpenSession, ClientSessionType
  <1>2. /\ actor' = actor /\ wake' = wake /\ faults' = faults /\ loop' = loop /\ conn' = conn
        /\ agentGot' = agentGot /\ agentOpen' = agentOpen /\ wout' = wout /\ rout' = rout
        /\ link' = link /\ upq' = upq /\ downq' = downq
        /\ pend' = pend /\ bs' = bs /\ cur' = cur /\ srv' = srv
    BY DEF OpenSession, envVars, brokerVars
  <1> QED
    BY <1>1, <1>2, SidecarFacts, SidecarStep

(* SendOpen keeps the invariant.                                           *)
LEMMA SendOpenStep ==
    ASSUME IInv, SendOpen
    PROVE  IInv'
  <1>1. cs' \in ClientSessionType /\ cs'.downDelivered = cs.downDelivered
    BY SidecarFacts DEF SendOpen, ClientSessionType
  <1>2. /\ actor' = actor /\ wake' = wake /\ faults' = faults /\ loop' = loop /\ conn' = conn
        /\ agentGot' = agentGot /\ agentOpen' = agentOpen /\ wout' = wout /\ rout' = rout
        /\ link' = link /\ downq' = downq
        /\ pend' = pend /\ bs' = bs /\ cur' = cur /\ srv' = srv
    BY DEF SendOpen, envVars, brokerVars
  <1>3. Ctl("OPEN", 0) \in Frame /\ Ctl("OPEN", 0).type # "ACK"
    BY CtlFrame DEF FrameType
  <1>4. upq' \in [Tunnels -> Seq(Frame)] /\ \A t \in Tunnels : AcksOK(upq'[t], cs.downDelivered)
    BY <1>3, SendOK DEF SendOpen
  <1> QED
    BY <1>1, <1>2, <1>4, SidecarFacts, SidecarStep

(* What the agent writes is a sequence of bytes.                           *)
LEMMA AgentBytesType ==
    ASSUME NEW from \in Nat, NEW n \in Nat
    PROVE  AgentBytes(from, n) \in Seq(Byte)
  <1> DEFINE p == AgentBytes(from, n)
  <1>1. \A k \in 1 .. n : <<0, from + k>> \in Byte
    BY DEF Byte
  <1>2. p = [k \in 1 .. n |-> <<0, from + k>>]
    BY DEF AgentBytes
  <1> HIDE DEF p
  <1>3. p \in [1 .. n -> Byte]
    BY <1>1, <1>2
  <1>4. p \in Seq(Byte)
    BY <1>3, SeqDef
  <1> QED
    BY <1>4 DEF p

(* A queue of one frame that acknowledges no more than it may.             *)
LEMMA OneFrame ==
    ASSUME NEW f \in Frame, NEW d \in Nat, f.type = "ACK" => f.off <= d
    PROVE  <<f>> \in Seq(Frame) /\ AcksOK(<<f>>, d)
  BY DEF AcksOK

(* An empty queue is well formed.                                          *)
LEMMA NoFrames ==
    ASSUME NEW d \in Nat
    PROVE  <<>> \in Seq(Frame) /\ AcksOK(<<>>, d) /\ QueueOK(<<>>)
  BY DEF AcksOK, QueueOK

(* WriteUp keeps the invariant.                                            *)
LEMMA WriteUpStep ==
    ASSUME IInv, NEW n \in 1 .. UpCap, WriteUp(n)
    PROVE  IInv'
  <1> DEFINE off == End(cs.upBuf)
             chunk == AgentBytes(off, n)
             b == AppendTo(cs.upBuf, chunk)
  <1>0. n \in Nat
    OBVIOUS
  <1>1. off \in Nat /\ cs.upBuf.buf \in Seq(Byte) /\ cs.upBuf.base \in Nat
    BY SidecarFacts DEF ReplayBufferType, End, BufLen
  <1>2. chunk \in Seq(Byte)
    BY <1>0, <1>1, AgentBytesType
  <1>3. cs' = [cs EXCEPT !.upBuf = b] /\ wout' = <<Data(off, chunk)>>
    BY DEF WriteUp
  <1> HIDE DEF off, chunk
  <1>4. b = [base |-> cs.upBuf.base, buf |-> cs.upBuf.buf \o chunk]
    BY <1>2, SidecarFacts, AppendToIs
  <1>5. cs.upBuf.buf \o chunk \in Seq(Byte)
    BY <1>1, <1>2
  <1>6. b \in ReplayBufferType
    BY <1>1, <1>4, <1>5 DEF ReplayBufferType
  <1> HIDE DEF b
  <1>7. cs' \in ClientSessionType /\ cs'.downDelivered = cs.downDelivered
    BY <1>3, <1>6, SidecarFacts DEF ClientSessionType
  <1>8. Data(off, chunk) \in Frame /\ Data(off, chunk).type # "ACK"
    BY <1>1, <1>2, DataFrame
  <1>9. wout' \in Seq(Frame) /\ AcksOK(wout', cs.downDelivered)
    BY <1>3, <1>8, SidecarFacts, OneFrame
  <1>10. /\ actor' = actor /\ wake' = wake /\ faults' = faults /\ loop' = loop /\ conn' = conn
         /\ agentGot' = agentGot /\ agentOpen' = agentOpen /\ rout' = rout
         /\ link' = link /\ upq' = upq /\ downq' = downq
         /\ pend' = pend /\ bs' = bs /\ cur' = cur /\ srv' = srv
    BY DEF WriteUp, envVars, brokerVars
  <1> QED
    BY <1>7, <1>9, <1>10, SidecarFacts, SidecarStep

(* A held frame is sent.                                                   *)
LEMMA HeldFrame ==
    ASSUME IInv, NEW q \in Seq(Frame), AcksOK(q, cs.downDelivered), q # <<>>, Send(q[1])
    PROVE  /\ upq' \in [Tunnels -> Seq(Frame)]
           /\ \A t \in Tunnels : AcksOK(upq'[t], cs.downDelivered)
  <1>1. q[1] \in Frame /\ (q[1].type = "ACK" => q[1].off <= cs.downDelivered)
    BY SidecarFacts, TailOK
  <1> QED
    BY <1>1, SendOK

(* WriteUpSend keeps the invariant.                                        *)
LEMMA WriteUpSendStep ==
    ASSUME IInv, WriteUpSend
    PROVE  IInv'
  <1>1. upq' \in [Tunnels -> Seq(Frame)] /\ \A t \in Tunnels : AcksOK(upq'[t], cs.downDelivered)
    BY SidecarFacts, HeldFrame DEF WriteUpSend
  <1>2. /\ actor' = actor /\ wake' = wake /\ faults' = faults /\ loop' = loop /\ conn' = conn
        /\ agentGot' = agentGot /\ agentOpen' = agentOpen /\ wout' = <<>> /\ rout' = rout
        /\ link' = link /\ downq' = downq /\ cs' = cs
        /\ pend' = pend /\ bs' = bs /\ cur' = cur /\ srv' = srv
    BY DEF WriteUpSend, envVars, brokerVars
  <1>3. wout' \in Seq(Frame) /\ AcksOK(wout', cs.downDelivered)
    BY <1>2, SidecarFacts, NoFrames
  <1> QED
    BY <1>1, <1>2, <1>3, SidecarFacts, SidecarStep

(* ReadLoopSend keeps the invariant.                                       *)
LEMMA ReadLoopSendStep ==
    ASSUME IInv, ReadLoopSend
    PROVE  IInv'
  <1>1. upq' \in [Tunnels -> Seq(Frame)] /\ \A t \in Tunnels : AcksOK(upq'[t], cs.downDelivered)
    BY SidecarFacts, HeldFrame DEF ReadLoopSend
  <1>2. /\ actor' = actor /\ wake' = wake /\ faults' = faults /\ loop' = loop /\ conn' = conn
        /\ agentGot' = agentGot /\ agentOpen' = agentOpen /\ wout' = wout /\ rout' = <<>>
        /\ link' = link /\ downq' = downq /\ cs' = cs
        /\ pend' = pend /\ bs' = bs /\ cur' = cur /\ srv' = srv
    BY DEF ReadLoopSend, envVars, brokerVars
  <1>3. rout' \in Seq(Frame) /\ AcksOK(rout', cs.downDelivered)
    BY <1>2, SidecarFacts, NoFrames
  <1> QED
    BY <1>1, <1>2, <1>3, SidecarFacts, SidecarStep

(* CloseUp keeps the invariant.                                            *)
LEMMA CloseUpStep ==
    ASSUME IInv, NEW half \in BOOLEAN, CloseUp(half)
    PROVE  IInv'
  <1>1. cs' \in ClientSessionType /\ cs'.downDelivered = cs.downDelivered
    BY SidecarFacts DEF CloseUp, ClientSessionType
  <1>2. /\ actor' = actor /\ wake' = wake /\ faults' = faults /\ loop' = loop /\ conn' = conn
        /\ agentGot' = agentGot /\ agentOpen' \in BOOLEAN /\ wout' = wout /\ rout' = rout
        /\ link' = link /\ downq' = downq
        /\ pend' = pend /\ bs' = bs /\ cur' = cur /\ srv' = srv
    BY DEF CloseUp, envVars, brokerVars
  <1>3. Ctl("CLOSE", 0) \in Frame /\ Ctl("CLOSE", 0).type # "ACK"
    BY CtlFrame DEF FrameType
  <1>4. upq' \in [Tunnels -> Seq(Frame)] /\ \A t \in Tunnels : AcksOK(upq'[t], cs.downDelivered)
    BY <1>3, SendOK DEF CloseUp
  <1> QED
    BY <1>1, <1>2, <1>4, SidecarFacts, SidecarStep

(* Connect keeps the invariant.                                            *)
LEMMA ConnectStep ==
    ASSUME IInv, NEW t \in Tunnels, Connect(t)
    PROVE  IInv'
  <1>1. /\ actor' = actor /\ wake' = wake /\ faults' = faults
        /\ agentGot' = agentGot /\ agentOpen' = agentOpen /\ wout' = wout /\ rout' = rout
        /\ cs' = cs /\ pend' = pend /\ bs' = bs /\ cur' = cur /\ srv' = srv
    BY DEF Connect, envVars, brokerVars
  <1>2. loop' \in {"attach", "read"} /\ conn' \in 1 .. MaxTunnels
    BY DEF Connect, Tunnels
  <1>3. link' \in [Tunnels -> {"up", "cut", "ended"}]
    BY SidecarFacts DEF Connect
  <1>4. <<>> \in Seq(Frame) /\ AcksOK(<<>>, cs.downDelivered) /\ QueueOK(<<>>)
    BY SidecarFacts, NoFrames
  <1>5. upq' \in [Tunnels -> Seq(Frame)] /\ \A u \in Tunnels : AcksOK(upq'[u], cs.downDelivered)
    BY <1>4, SidecarFacts DEF Connect
  <1>6. downq' \in [Tunnels -> Seq(Frame)] /\ \A u \in Tunnels : QueueOK(downq'[u])
    BY <1>4, SidecarFacts DEF Connect
  <1>7. loop' \in {"down", "attach", "read"} /\ conn' \in 0 .. MaxTunnels
        /\ (loop' = "down" <=> conn' = 0)
    BY <1>2
  <1> QED
    BY <1>1, <1>3, <1>5, <1>6, <1>7, SidecarFacts, SidecarStep

(* Reattach keeps the invariant.                                           *)
LEMMA ReattachStep ==
    ASSUME IInv, Reattach
    PROVE  IInv'
  <1> DEFINE f == Ctl("ATTACH", cs.downDelivered)
  <1>1. /\ actor' = actor /\ wake' = wake /\ faults' = faults /\ conn' = conn
        /\ agentGot' = agentGot /\ agentOpen' = agentOpen /\ wout' = wout /\ rout' = rout
        /\ cs' = cs /\ link' = link /\ downq' = downq
        /\ pend' = pend /\ bs' = bs /\ cur' = cur /\ srv' = srv
    BY DEF Reattach, envVars, brokerVars
  <1>2. f \in Frame /\ f.type # "ACK"
    BY SidecarFacts, CtlFrame DEF FrameType
  <1>3. upq' \in [Tunnels -> Seq(Frame)] /\ \A u \in Tunnels : AcksOK(upq'[u], cs.downDelivered)
    BY <1>2, SendOK DEF Reattach
  <1>4. loop' = "read" /\ conn # 0
    BY SidecarFacts DEF Reattach
  <1> QED
    BY <1>1, <1>3, <1>4, SidecarFacts, SidecarStep

(* readLoop took a frame off the connection.                               *)
LEMMA ReceiveOK ==
    ASSUME IInv, NEW type, Receive(type)
    PROVE  /\ downq' \in [Tunnels -> Seq(Frame)] /\ \A u \in Tunnels : QueueOK(downq'[u])
           /\ Head(downq[conn]) \in Frame /\ Head(downq[conn]).off \in Nat
           /\ Head(downq[conn]).data \in Seq(Byte)
           /\ Positioned(Head(downq[conn]).data, Head(downq[conn]).off)
           /\ rout = <<>>
  <1>1. conn \in Tunnels
    BY SidecarFacts DEF Receive
  <1>2. downq[conn] \in Seq(Frame) /\ downq[conn] # <<>> /\ QueueOK(downq[conn])
    BY <1>1, SidecarFacts DEF Receive
  <1>3. /\ Tail(downq[conn]) \in Seq(Frame) /\ QueueOK(Tail(downq[conn]))
        /\ Head(downq[conn]) \in Frame
        /\ Positioned(Head(downq[conn]).data, Head(downq[conn]).off)
    BY <1>2, TailOK
  <1>4. downq' = [downq EXCEPT ![conn] = Tail(downq[conn])]
    BY DEF Receive
  <1>5. downq' \in [Tunnels -> Seq(Frame)] /\ \A u \in Tunnels : QueueOK(downq'[u])
    BY <1>1, <1>3, <1>4, SidecarFacts
  <1>6. Head(downq[conn]).off \in Nat /\ Head(downq[conn]).data \in Seq(Byte)
    BY <1>3 DEF Frame
  <1> QED
    BY <1>3, <1>5, <1>6 DEF Receive

(* TrimTo keeps the type of a buffer, whatever it holds.                   *)
LEMMA TrimToType ==
    ASSUME NEW b \in ReplayBufferType, NEW off \in Nat
    PROVE  TrimTo(b, off) \in ReplayBufferType
  <1>1. b.base \in Nat /\ b.buf \in Seq(Byte) /\ Len(b.buf) \in Nat
    BY DEF ReplayBufferType
  <1>2. CASE off <= b.base
    BY <1>2 DEF TrimTo
  <1>3. CASE off > b.base /\ off >= End(b)
    <2>1. TrimTo(b, off) = [base |-> End(b), buf |-> <<>>]
      BY <1>1, <1>3 DEF TrimTo
    <2>2. End(b) \in Nat /\ <<>> \in Seq(Byte)
      BY <1>1 DEF End, BufLen
    <2> QED
      BY <2>1, <2>2 DEF ReplayBufferType
  <1>4. CASE off > b.base /\ off < End(b)
    <2> DEFINE q == SubSeq(b.buf, off - b.base + 1, Len(b.buf))
    <2>1. TrimTo(b, off) = [base |-> off, buf |-> q]
      BY <1>1, <1>4 DEF TrimTo, End, BufLen
    <2>2. q \in Seq(Byte)
      BY <1>1, <1>4 DEF End, BufLen
    <2> HIDE DEF q
    <2> QED
      BY <2>1, <2>2 DEF ReplayBufferType
  <1> QED
    BY <1>1, <1>2, <1>3, <1>4 DEF End, BufLen

(* From returns a sequence of bytes.                                       *)
LEMMA FromType ==
    ASSUME NEW b \in ReplayBufferType, NEW off \in Nat, FromOK(b, off)
    PROVE  From(b, off) \in Seq(Byte)
  <1>1. b.base \in Nat /\ b.buf \in Seq(Byte) /\ Len(b.buf) \in Nat
    BY DEF ReplayBufferType
  <1>2. From(b, off) = SubSeq(b.buf, off - b.base + 1, Len(b.buf))
    BY DEF From, BufLen
  <1> QED
    BY <1>1, <1>2 DEF FromOK, End, BufLen

(* RecvAck keeps the invariant.                                            *)
LEMMA RecvAckStep ==
    ASSUME IInv, RecvAck
    PROVE  IInv'
  <1> DEFINE b == TrimTo(cs.upBuf, Head(downq[conn]).off)
  <1>1. b \in ReplayBufferType
    BY SidecarFacts, ReceiveOK, TrimToType DEF RecvAck
  <1>2. cs' = cs \/ cs' = [cs EXCEPT !.upBuf = b]
    BY DEF RecvAck
  <1> HIDE DEF b
  <1>3. cs' \in ClientSessionType /\ cs'.downDelivered = cs.downDelivered
    BY <1>1, <1>2, SidecarFacts DEF ClientSessionType
  <1>4. /\ actor' = actor /\ wake' = wake /\ faults' = faults /\ loop' = loop /\ conn' = conn
        /\ agentGot' = agentGot /\ agentOpen' = agentOpen /\ wout' = wout /\ rout' = rout
        /\ link' = link /\ upq' = upq
        /\ pend' = pend /\ bs' = bs /\ cur' = cur /\ srv' = srv
    BY DEF RecvAck, envVars, brokerVars
  <1>5. downq' \in [Tunnels -> Seq(Frame)] /\ \A u \in Tunnels : QueueOK(downq'[u])
    BY ReceiveOK DEF RecvAck
  <1> QED
    BY <1>3, <1>4, <1>5, SidecarFacts, SidecarStep

(* RecvAttachOK keeps the invariant.                                       *)
LEMMA RecvAttachOKStep ==
    ASSUME IInv, RecvAttachOK
    PROVE  IInv'
  <1> DEFINE off == Head(downq[conn]).off
             b == TrimTo(cs.upBuf, off)
             p == IF FromOK(b, off) THEN From(b, off) ELSE <<>>
  <1>1. off \in Nat
    BY ReceiveOK DEF RecvAttachOK
  <1>2. b \in ReplayBufferType
    BY <1>1, SidecarFacts, TrimToType
  <1>3. p \in Seq(Byte)
    <2> HIDE DEF b, off
    <2> QED
      BY <1>1, <1>2, FromType
  <1>4. (cs' = cs \/ cs' = [cs EXCEPT !.upBuf = b]) /\ (rout' = <<Data(off, p)>> \/ rout' = <<>>)
    BY DEF RecvAttachOK
  <1> HIDE DEF off, b, p
  <1>5. cs' \in ClientSessionType /\ cs'.downDelivered = cs.downDelivered
    BY <1>2, <1>4, SidecarFacts DEF ClientSessionType
  <1>6. Data(off, p) \in Frame /\ Data(off, p).type # "ACK"
    BY <1>1, <1>3, DataFrame
  <1>7. rout' \in Seq(Frame) /\ AcksOK(rout', cs.downDelivered)
    <2>1. cs.downDelivered \in Nat
      BY SidecarFacts
    <2>2. CASE rout' = <<Data(off, p)>>
      BY <1>6, <2>1, <2>2, OneFrame
    <2>3. CASE rout' = <<>>
      BY <2>1, <2>3, NoFrames
    <2> QED
      BY <1>4, <2>2, <2>3
  <1>8. /\ actor' = actor /\ wake' = wake /\ faults' = faults /\ loop' = loop /\ conn' = conn
        /\ agentGot' = agentGot /\ agentOpen' = agentOpen /\ wout' = wout
        /\ link' = link /\ upq' = upq
        /\ pend' = pend /\ bs' = bs /\ cur' = cur /\ srv' = srv
    BY DEF RecvAttachOK, envVars, brokerVars
  <1>9. downq' \in [Tunnels -> Seq(Frame)] /\ \A u \in Tunnels : QueueOK(downq'[u])
    BY ReceiveOK DEF RecvAttachOK
  <1> QED
    BY <1>5, <1>7, <1>8, <1>9, SidecarFacts, SidecarStep

(* deliverDown: what the agent is given continues what it has, and the     *)
(* acknowledgement says so.                                                *)
LEMMA RecvDataStep ==
    ASSUME IInv, NEW ok \in BOOLEAN, RecvData(ok)
    PROVE  IInv'
  <1> DEFINE f == Head(downq[conn])
             d == cs.downDelivered
             p == Fresh(f.off, f.data, d)
             e == d + Len(p)
  <1>1. /\ actor' = actor /\ wake' = wake /\ faults' = faults /\ loop' = loop /\ conn' = conn
        /\ wout' = wout /\ link' = link /\ upq' = upq
        /\ pend' = pend /\ bs' = bs /\ cur' = cur /\ srv' = srv
    BY DEF RecvData, envVars, brokerVars
  <1>2. downq' \in [Tunnels -> Seq(Frame)] /\ \A u \in Tunnels : QueueOK(downq'[u])
    BY ReceiveOK DEF RecvData
  <1>3. f.off \in Nat /\ f.data \in Seq(Byte) /\ Positioned(f.data, f.off) /\ d \in Nat
    BY ReceiveOK, SidecarFacts DEF RecvData
  <1>4. p \in Seq(Byte) /\ Positioned(p, d)
    BY <1>3, FreshPositioned
  <1>5. \/ cs' = cs /\ agentGot' = agentGot /\ agentOpen' = agentOpen /\ rout' = rout
        \/ /\ agentGot' = agentGot \o p /\ cs' = [cs EXCEPT !.downDelivered = e]
           /\ rout' = <<Ctl("ACK", e)>> /\ agentOpen' = agentOpen
        \/ /\ cs' = [cs EXCEPT !.st = "gone"] /\ agentOpen' = FALSE
           /\ agentGot' = agentGot /\ rout' = rout
    BY DEF RecvData
  <1> HIDE DEF f, p
  <1>6. CASE cs' = cs /\ agentGot' = agentGot /\ agentOpen' = agentOpen /\ rout' = rout
    BY <1>1, <1>2, <1>6, SidecarFacts, SidecarStep
  <1>7. CASE /\ cs' = [cs EXCEPT !.st = "gone"] /\ agentOpen' = FALSE
             /\ agentGot' = agentGot /\ rout' = rout
    <2>1. cs' \in ClientSessionType /\ cs'.downDelivered = d
      BY <1>7, SidecarFacts DEF ClientSessionType
    <2>2. agentOpen' \in BOOLEAN /\ agentGot' = agentGot /\ rout' = rout
      BY <1>7
    <2> QED
      BY <1>1, <1>2, <2>1, <2>2, SidecarFacts, SidecarStep
  <1>8. CASE /\ agentGot' = agentGot \o p /\ cs' = [cs EXCEPT !.downDelivered = e]
             /\ rout' = <<Ctl("ACK", e)>> /\ agentOpen' = agentOpen
    <2>1. e \in Nat /\ d <= e
      BY <1>3, <1>4
    <2>2. agentGot' \in Seq(Byte) /\ Positioned(agentGot', 0) /\ Len(agentGot') = e
      <3>1. agentGot \in Seq(Byte) /\ Positioned(agentGot, 0) /\ Len(agentGot) = d
        BY SidecarFacts
      <3>2. Positioned(p, 0 + Len(agentGot))
        BY <1>3, <1>4, <3>1
      <3> QED
        BY <1>4, <1>8, <3>1, <3>2, ConcatPositioned
    <2> HIDE DEF e
    <2>3. cs' \in ClientSessionType /\ cs'.downDelivered = e
      BY <1>8, <2>1, SidecarFacts DEF ClientSessionType
    <2>4. Ctl("ACK", e) \in Frame /\ Ctl("ACK", e).off = e
      BY <2>1, CtlFrame DEF FrameType
    <2>5. rout' \in Seq(Frame) /\ AcksOK(rout', e)
      BY <1>8, <2>1, <2>4, OneFrame
    <2>6. AcksOK(wout, e) /\ \A u \in Tunnels : AcksOK(upq[u], e)
      BY <1>3, <2>1, SidecarFacts, AcksMonotone
    <2> QED
      BY <1>1, <1>2, <1>8, <2>1, <2>2, <2>3, <2>5, <2>6, SidecarFacts, SidecarStep
  <1> QED
    BY <1>5, <1>6, <1>7, <1>8

(* RecvClose keeps the invariant.                                          *)
LEMMA RecvCloseStep ==
    ASSUME IInv, RecvClose
    PROVE  IInv'
  <1>1. PICK type \in {"CLOSE", "LOST"} : Receive(type)
    BY DEF RecvClose
  <1>2. downq' \in [Tunnels -> Seq(Frame)] /\ \A u \in Tunnels : QueueOK(downq'[u])
    BY <1>1, ReceiveOK
  <1>3. cs' \in ClientSessionType /\ cs'.downDelivered = cs.downDelivered
    BY SidecarFacts DEF RecvClose, ClientSessionType
  <1>4. /\ actor' = actor /\ wake' = wake /\ faults' = faults /\ loop' = loop /\ conn' = conn
        /\ agentGot' = agentGot /\ agentOpen' = agentOpen /\ wout' = wout /\ rout' = rout
        /\ link' = link /\ upq' = upq
        /\ pend' = pend /\ bs' = bs /\ cur' = cur /\ srv' = srv
    BY DEF RecvClose, envVars, brokerVars
  <1> QED
    BY <1>2, <1>3, <1>4, SidecarFacts, SidecarStep

(* Disconnect keeps the invariant.                                         *)
LEMMA DisconnectStep ==
    ASSUME IInv, Disconnect
    PROVE  IInv'
  <1>1. conn \in Tunnels
    BY SidecarFacts DEF Disconnect
  <1>2. /\ actor' = actor /\ wake' = wake /\ faults' = faults /\ loop' = "down" /\ conn' = 0
        /\ agentGot' = agentGot /\ agentOpen' = agentOpen /\ wout' = wout /\ rout' = rout
        /\ cs' = cs /\ upq' = upq
        /\ pend' = pend /\ bs' = bs /\ cur' = cur /\ srv' = srv
    BY DEF Disconnect, envVars, brokerVars
  <1>3. link' \in [Tunnels -> {"up", "cut", "ended"}]
    BY <1>1, SidecarFacts DEF Disconnect
  <1>4. <<>> \in Seq(Frame) /\ QueueOK(<<>>)
    BY SidecarFacts, NoFrames
  <1>5. downq' \in [Tunnels -> Seq(Frame)] /\ \A u \in Tunnels : QueueOK(downq'[u])
    BY <1>4, SidecarFacts DEF Disconnect
  <1>6. 0 \in 0 .. MaxTunnels
    BY BoundsAssumption
  <1> QED
    BY <1>2, <1>3, <1>5, <1>6, SidecarFacts, SidecarStep

(* A cut keeps a prefix of what is in flight.                              *)
LEMMA CutOK ==
    ASSUME IInv, Cut
    PROVE  /\ faults' \in Nat
           /\ link' \in [Tunnels -> {"up", "cut", "ended"}]
           /\ upq' \in [Tunnels -> Seq(Frame)]
           /\ \A u \in Tunnels : AcksOK(upq'[u], cs.downDelivered)
           /\ downq' \in [Tunnels -> Seq(Frame)] /\ \A u \in Tunnels : QueueOK(downq'[u])
  <1>1. faults' \in Nat
    BY SidecarFacts DEF Cut
  <1>2. CASE conn # 0 /\ link[conn] = "up"
    <2>1. conn \in Tunnels
      BY <1>2, SidecarFacts
    <2>2. PICK k \in 0 .. Len(upq[conn]) : upq' = [upq EXCEPT ![conn] = SubSeq(upq[conn], 1, k)]
      BY <1>2 DEF Cut
    <2>3. PICK m \in 0 .. Len(downq[conn]) :
             downq' = [downq EXCEPT ![conn] = SubSeq(downq[conn], 1, m)]
      BY <1>2 DEF Cut
    <2>4. /\ SubSeq(upq[conn], 1, k) \in Seq(Frame)
          /\ AcksOK(SubSeq(upq[conn], 1, k), cs.downDelivered)
      BY <2>1, <2>2, SidecarFacts, PrefixOK
    <2>5. SubSeq(downq[conn], 1, m) \in Seq(Frame) /\ QueueOK(SubSeq(downq[conn], 1, m))
      BY <2>1, <2>3, SidecarFacts, PrefixOK
    <2>6. link' \in [Tunnels -> {"up", "cut", "ended"}]
      BY <1>2, SidecarFacts DEF Cut
    <2>7. upq' \in [Tunnels -> Seq(Frame)] /\ \A u \in Tunnels : AcksOK(upq'[u], cs.downDelivered)
      BY <2>1, <2>2, <2>4, SidecarFacts
    <2>8. downq' \in [Tunnels -> Seq(Frame)] /\ \A u \in Tunnels : QueueOK(downq'[u])
      BY <2>1, <2>3, <2>5, SidecarFacts
    <2> QED
      BY <1>1, <2>6, <2>7, <2>8
  <1>3. CASE ~(conn # 0 /\ link[conn] = "up")
    <2>1. link' = link /\ upq' = upq /\ downq' = downq
      BY <1>3 DEF Cut
    <2> QED
      BY <1>1, <2>1, SidecarFacts
  <1> QED
    BY <1>2, <1>3

(* Suspend, Break, ResumeActor and ResumeElsewhere keep the invariant.     *)
LEMMA PlatformStep ==
    ASSUME IInv, Suspend \/ Break \/ ResumeActor \/ ResumeElsewhere
    PROVE  IInv'
  <1>1. /\ loop' = loop /\ conn' = conn /\ cs' = cs
        /\ agentGot' = agentGot /\ agentOpen' = agentOpen /\ wout' = wout /\ rout' = rout
        /\ pend' = pend /\ bs' = bs /\ cur' = cur /\ srv' = srv
    BY DEF Suspend, Break, ResumeActor, ResumeElsewhere, sidecarVars, brokerVars
  <1>2. actor' \in {"running", "suspended"} /\ wake' \in BOOLEAN
    BY SidecarFacts DEF Suspend, Break, ResumeActor, ResumeElsewhere
  <1>3. CASE Suspend \/ Break
    <2>1. Cut
      BY <1>3 DEF Suspend, Break
    <2> QED
      BY <1>1, <1>2, <2>1, CutOK, SidecarFacts, SidecarStep
  <1>4. CASE ResumeActor \/ ResumeElsewhere
    <2>1. faults' = faults /\ link' = link /\ upq' = upq /\ downq' = downq
      BY <1>4 DEF ResumeActor, ResumeElsewhere
    <2> QED
      BY <1>1, <1>2, <2>1, SidecarFacts, SidecarStep
  <1> QED
    BY <1>3, <1>4

-----------------------------------------------------------------------------
(* Every step keeps the invariant.                                         *)

(* Stuttering keeps the invariant.                                         *)
LEMMA StutterStep ==
    ASSUME IInv, UNCHANGED vars
    PROVE  IInv'
  <1>1. Commit(Broker) /\ UNCHANGED <<actor, faults, sidecarVars, link, upq, pend, srv>>
    BY DEF vars, envVars, brokerVars, Commit, Broker
  <1> QED
    BY <1>1, BrokerFacts, CommitStep

(* The steps of the proxy's goroutines keep the invariant.                 *)
LEMMA ProxyStep ==
    ASSUME IInv, ProxyPump \/ ProxyClose
    PROVE  IInv'
  BY OpenSessionStep, SendOpenStep, WriteUpStep, WriteUpSendStep, CloseUpStep
     DEF ProxyPump, ProxyClose

(* The steps of Client.Run keep the invariant.                             *)
LEMMA ClientRunStep ==
    ASSUME IInv, ClientRun
    PROVE  IInv'
  BY ConnectStep, ReattachStep, RecvAckStep, RecvAttachOKStep, RecvDataStep, RecvCloseStep,
     ReadLoopSendStep, DisconnectStep DEF ClientRun

(* The steps of Broker.serveTunnel keep the invariant.                     *)
LEMMA ServeTunnelStep ==
    ASSUME IInv, NEW t \in Tunnels, ServeTunnel(t)
    PROVE  IInv'
  BY HandleOpenStep, HandleAttachStep, FinishAttachStep, HandleDataEarlyStep, HandleDataStep,
     HandleDataErrorStep, FinishDataStep, HandleAckStep, HandleCloseStep, HandleUnknownStep,
     TunnelEndStep DEF ServeTunnel

(* The steps of a session's goroutines and of the destination keep it.     *)
LEMMA UpstreamStep ==
    ASSUME IInv, NEW i \in Dials,
           Upstream(i) \/ WatchdogFire(i) \/ ServerSend(i) \/ ServerClose(i)
    PROVE  IInv'
  BY DialOKStep, DialFailStep, FlushPreStep, FlushErrorStep, ProduceStep, ReadEOFStep,
     WatchdogFireStep, ServerSendStep DEF Upstream

(* Every step of the sidecar, the broker and their environment keeps it.   *)
THEOREM NextIInv == IInv /\ [Next]_vars => IInv'
  <1> SUFFICES ASSUME IInv, [Next]_vars PROVE IInv'
    OBVIOUS
  <1>1. CASE Next
    BY <1>1, ProxyStep, ClientRunStep, ServeTunnelStep, UpstreamStep, PlatformStep DEF Next
  <1>2. CASE UNCHANGED vars
    BY <1>2, StutterStep
  <1> QED
    BY <1>1, <1>2

(* IInv holds in every reachable state, with every preemption point open   *)
(* and whatever the lengths, capacities and numbers of failures.           *)
THEOREM Invariance == Spec => []IInv
  BY InitIInv, NextIInv, PTL DEF Spec

(* The state of both halves stays well typed.                              *)
THEOREM TypeCorrect == Spec => []TypeOK
  <1>1. IInv => TypeOK
    BY DEF IInv
  <1> QED
    BY <1>1, Invariance, PTL

(* The agent reads its upstream byte stream in order, each byte once       *)
(* (deliverDown, onSidecarAttach).                                         *)
THEOREM AgentReadsInOrder == Spec => []AgentInOrder
  <1>1. IInv => AgentInOrder
    BY DEF IInv, AgentInOrder, Positioned, TypeOK
  <1> QED
    BY <1>1, Invariance, PTL

(* Nothing the agent lacks is ever trimmed from downBuf (onDownstreamAck). *)
THEOREM BrokerRetains == Spec => []UndeliveredRetained
  <1>1. IInv => UndeliveredRetained
    BY BrokerFacts DEF UndeliveredRetained
  <1> QED
    BY <1>1, Invariance, PTL
=============================================================================
