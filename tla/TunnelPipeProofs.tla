-------------------------- MODULE TunnelPipeProofs --------------------------
(***************************************************************************)
(* What the tunnel promises to both ends of the connection.                *)
(*                                                                         *)
(* An answered session stays quiet: once the agent has every response and  *)
(* the broker knows it, neither what the destination sends on the idle     *)
(* connection nor its close wakes the actor.  Shown for a connection that  *)
(* is dialed once and has one writer at a time.                            *)
(*                                                                         *)
(* The tunnel refines BytePipe: a pipe each way that neither loses, nor    *)
(* repeats, nor invents a byte, and whose end comes after the last byte.   *)
(*                                                                         *)
(* A suspended actor is woken for the answer the broker holds.             *)
(***************************************************************************)
EXTENDS TunnelUpstreamProofs, TunnelPipe

-----------------------------------------------------------------------------
(* The inductive invariant.                                                *)

(* What the destination has sent at most when it has read n bytes.         *)
Owed(n) ==
    IF n \div ReqLen < Rounds THEN (n \div ReqLen) * RespLen ELSE Rounds * RespLen + Housekeeping

(* The frames of q carry nothing beyond the first e bytes of the agent's.  *)
Within(q, e) == \A k \in 1 .. Len(q) : q[k].data # <<>> => q[k].off + Len(q[k].data) <= e

(* Session s and the destination's end c of it have no more than the agent *)
(* wrote, and the responses to what they have.                             *)
SupplyOK(s, c, e) ==
    /\ Len(c.got) <= e
    /\ Unflushed(s) => s.upstreamWritten + Len(s.preConn) <= e
    /\ s.dial = "flushing" => s.preConn # <<>>
    /\ c.sent <= Owed(Len(c.got))
    /\ End(s.downBuf) <= c.sent

(* A write in progress is of a request whose response is outstanding.      *)
Unanswered(h, S) == \A i \in Dials : Writes(h, i) => S[i].downBuf.base < Rounds * RespLen

QInv ==
    /\ End(cs.upBuf) <= Rounds * ReqLen
    /\ Within(wout, End(cs.upBuf)) /\ Within(rout, End(cs.upBuf))
    /\ \A t \in Tunnels : Within(upq[t], End(cs.upBuf))
    /\ \A i \in Dials : SupplyOK(bs[i], srv[i], End(cs.upBuf))
    /\ \A t \in Tunnels : Unanswered(pend[t], bs)

-----------------------------------------------------------------------------
(* Requests and responses.                                                 *)

(* Whole requests in n bytes.                                              *)
LEMMA DivFacts ==
    ASSUME NEW n \in Nat, NEW q \in Nat \ {0}
    PROVE  n \div q \in Nat /\ (n \div q) * q <= n /\ n < (n \div q + 1) * q
  OBVIOUS

(* Multiplying keeps the order.                                            *)
LEMMA TimesMono ==
    ASSUME NEW a \in Nat, NEW b \in Nat, NEW q \in Nat, a <= b
    PROVE  a * q \in Nat /\ a * q <= b * q
  OBVIOUS

(* A smaller product has a smaller factor.                                 *)
LEMMA TimesStrict ==
    ASSUME NEW a \in Nat, NEW b \in Nat, NEW q \in Nat \ {0}, a * q < b * q
    PROVE  a < b
  OBVIOUS

(* More bytes hold no fewer requests.                                      *)
LEMMA OwedMonotone ==
    ASSUME NEW m \in Nat, NEW n \in Nat, m <= n
    PROVE  Owed(m) \in Nat /\ Owed(m) <= Owed(n)
  <1> DEFINE a == m \div ReqLen
             b == n \div ReqLen
  <1>1. ReqLen \in Nat \ {0} /\ RespLen \in Nat \ {0} /\ Rounds \in Nat \ {0}
        /\ Housekeeping \in Nat
    BY LengthsAssumption
  <1>2. a \in Nat /\ b \in Nat /\ a * ReqLen <= m /\ n < (b + 1) * ReqLen
    BY <1>1, DivFacts
  <1>3. a * ReqLen < (b + 1) * ReqLen
    BY <1>1, <1>2
  <1>4. a <= b
    BY <1>1, <1>2, <1>3, TimesStrict
  <1>5. Rounds * RespLen \in Nat /\ (a <= Rounds => a * RespLen <= Rounds * RespLen)
        /\ a * RespLen \in Nat /\ a * RespLen <= b * RespLen
    BY <1>1, <1>2, <1>4, TimesMono
  <1>6. Owed(m) = (IF a < Rounds THEN a * RespLen ELSE Rounds * RespLen + Housekeeping)
        /\ Owed(n) = (IF b < Rounds THEN b * RespLen ELSE Rounds * RespLen + Housekeeping)
    BY DEF Owed
  <1> HIDE DEF a, b
  <1> QED
    BY <1>1, <1>2, <1>4, <1>5, <1>6

(* With a request missing, a response is missing.                          *)
LEMMA OwedBelow ==
    ASSUME NEW n \in Nat, n < Rounds * ReqLen
    PROVE  Owed(n) < Rounds * RespLen
  <1> DEFINE a == n \div ReqLen
  <1>1. ReqLen \in Nat \ {0} /\ RespLen \in Nat \ {0} /\ Rounds \in Nat \ {0}
    BY LengthsAssumption
  <1>2. a \in Nat /\ a * ReqLen <= n
    BY <1>1, DivFacts
  <1>3. a * ReqLen < Rounds * ReqLen
    BY <1>1, <1>2
  <1>4. a < Rounds
    BY <1>1, <1>2, <1>3, TimesStrict
  <1>5. Owed(n) = a * RespLen
    BY <1>4 DEF Owed
  <1>6. (a + 1) * RespLen <= Rounds * RespLen /\ (a + 1) * RespLen = a * RespLen + RespLen
    BY <1>1, <1>2, <1>4, TimesMono
  <1> HIDE DEF a
  <1> QED
    BY <1>1, <1>2, <1>5, <1>6

-----------------------------------------------------------------------------
(* The broker's building blocks: they leave what a session holds alone,    *)
(* and wake the actor only if a request is outstanding.                    *)
SameSupply(s, r) ==
    /\ r.dial = s.dial /\ r.preConn = s.preConn /\ r.upstreamWritten = s.upstreamWritten
    /\ r.downBuf = s.downBuf /\ (r.requestOutstanding <=> s.requestOutstanding)

Idle(S) == \A i \in Dials : ~S[i].requestOutstanding

Calm(B, C) ==
    /\ \A i \in Dials : SameSupply(B.s[i], C.s[i])
    /\ Idle(B.s) /\ ~B.w => ~C.w

(* A block that does nothing.                                              *)
LEMMA CalmRefl ==
    ASSUME NEW B
    PROVE  Calm(B, B)
  BY DEF Calm, SameSupply

(* Building blocks compose.                                                *)
LEMMA CalmTrans ==
    ASSUME NEW B, NEW C, NEW D, Calm(B, C), Calm(C, D)
    PROVE  Calm(B, D)
  BY DEF Calm, SameSupply, Idle

(* A block that changes other fields of one session.                       *)
LEMMA CalmSession ==
    ASSUME NEW B \in BrokerType, NEW i \in Dials, NEW s, SameSupply(B.s[i], s)
    PROVE  Calm(B, [B EXCEPT !.s[i] = s])
  <1> DEFINE C == [B EXCEPT !.s[i] = s]
  <1>1. C.w = B.w /\ C.s = [B.s EXCEPT ![i] = s] /\ B.s \in [Dials -> SessionType]
    BY DEF BrokerType
  <1> HIDE DEF C
  <1>2. \A j \in Dials : SameSupply(B.s[j], C.s[j])
    BY <1>1 DEF SameSupply
  <1>3. Calm(B, C)
    BY <1>1, <1>2 DEF Calm
  <1> QED
    BY <1>3 DEF C

(* Broker.wake, for an outstanding request.                                *)
LEMMA CalmWake ==
    ASSUME NEW B \in BrokerType, NEW i \in Dials, B.s[i].requestOutstanding
    PROVE  Calm(B, Wake(B))
  <1>1. Wake(B).s = B.s
    BY DEF Wake, BrokerType
  <1>2. ~Idle(B.s)
    BY DEF Idle
  <1> QED
    BY <1>1, <1>2 DEF Calm, SameSupply

(* bind, and the first half of detach.                                     *)
LEMMA CalmRebind ==
    ASSUME NEW B \in BrokerType, NEW i \in Dials, NEW t \in 0 .. MaxTunnels
    PROVE  LET C == [B EXCEPT !.s[i].tconn = t]
           IN  Calm(B, C) /\ C.s[i].requestOutstanding = B.s[i].requestOutstanding
  <1> DEFINE s == [B.s[i] EXCEPT !.tconn = t]
             C == [B EXCEPT !.s[i] = s]
  <1>1. B.s[i] \in SessionType /\ B.s \in [Dials -> SessionType]
    BY DEF BrokerType
  <1>2. SameSupply(B.s[i], s) /\ s.requestOutstanding = B.s[i].requestOutstanding
    BY <1>1 DEF SessionType, SameSupply
  <1>3. C.s[i] = s
    BY <1>1 DEF BrokerType
  <1>4. Calm(B, C)
    BY <1>2, CalmSession
  <1> QED
    BY <1>2, <1>3, <1>4

(* The flags of a session.                                                 *)
LEMMA CalmFlags ==
    ASSUME NEW B \in BrokerType, NEW i \in Dials, NEW v \in BOOLEAN
    PROVE  /\ Calm(B, [B EXCEPT !.s[i].downClosed = v])
           /\ Calm(B, [B EXCEPT !.s[i].upClosed = v])
           /\ Calm(B, [B EXCEPT !.s[i].watchdog = v])
           /\ [B EXCEPT !.s[i].downClosed = v].s[i].requestOutstanding
                 = B.s[i].requestOutstanding
  <1> DEFINE s1 == [B.s[i] EXCEPT !.downClosed = v]
             s2 == [B.s[i] EXCEPT !.upClosed = v]
             s3 == [B.s[i] EXCEPT !.watchdog = v]
             C  == [B EXCEPT !.s[i] = s1]
  <1>1. B.s[i] \in SessionType /\ B.s \in [Dials -> SessionType]
    BY DEF BrokerType
  <1>2. (\A s \in {s1, s2, s3} : SameSupply(B.s[i], s))
        /\ s1.requestOutstanding = B.s[i].requestOutstanding
    BY <1>1 DEF SessionType, SameSupply
  <1>3. \A s \in {s1, s2, s3} : Calm(B, [B EXCEPT !.s[i] = s])
    BY <1>2, CalmSession
  <1>4. /\ [B EXCEPT !.s[i].downClosed = v] = C
        /\ [B EXCEPT !.s[i].upClosed = v] = [B EXCEPT !.s[i] = s2]
        /\ [B EXCEPT !.s[i].watchdog = v] = [B EXCEPT !.s[i] = s3]
    OBVIOUS
  <1>5. C.s[i] = s1
    BY <1>1 DEF BrokerType
  <1> QED
    BY <1>2, <1>3, <1>4, <1>5

(* session.detach.                                                         *)
LEMMA CalmDetach ==
    ASSUME NEW B, NEW d \in Nat, BrokerOK(B, d), NEW i \in Dials, NEW t \in 0 .. MaxTunnels
    PROVE  Calm(B, Detach(B, i, t))
  <1> DEFINE C == [B EXCEPT !.s[i].tconn = 0]
  <1>1. B \in BrokerType /\ 0 \in 0 .. MaxTunnels
    BY BoundsAssumption DEF BrokerOK
  <1>2. Calm(B, C) /\ C.s[i].requestOutstanding = B.s[i].requestOutstanding
    BY <1>1, CalmRebind
  <1>3. C \in BrokerType
    BY <1>1, RebindOK DEF BrokerOK
  <1>4. Detach(B, i, t) \in {B, C} \/ (B.s[i].requestOutstanding /\ Detach(B, i, t) = Wake(C))
    BY DEF Detach
  <1> HIDE DEF C
  <1>5. B.s[i].requestOutstanding => Calm(B, Wake(C))
    BY <1>2, <1>3, CalmWake, CalmTrans
  <1> QED
    BY <1>2, <1>4, <1>5, CalmRefl

(* session.sendToSidecar.                                                  *)
LEMMA CalmSend ==
    ASSUME NEW B, NEW d \in Nat, BrokerOK(B, d), NEW i \in Dials,
           NEW f \in Frame, Positioned(f.data, f.off), NEW ok \in BOOLEAN
    PROVE  /\ Calm(B, SendToSidecar(B, i, f, ok))
           /\ BrokerOK(SendToSidecar(B, i, f, ok), d)
  <1> DEFINE t == B.s[i].tconn
             C == [B EXCEPT !.q = WriteFrame(@, t, f)]
  <1>1. t \in 0 .. MaxTunnels /\ B.q \in [Tunnels -> Seq(Frame)] /\ B \in BrokerType
        /\ \A u \in Tunnels : QueueOK(B.q[u])
    BY DEF BrokerOK, BrokerType, SessionType
  <1>2. BrokerOK(C, d)
    BY <1>1, WriteFrameType, WriteFrameQueues DEF BrokerOK, BrokerType
  <1>3. SendToSidecar(B, i, f, ok) \in {B, C, Detach(C, i, t)}
    BY DEF SendToSidecar
  <1>4. C.s = B.s /\ C.w = B.w
    BY <1>1 DEF BrokerType
  <1> HIDE DEF C, t
  <1>5. Calm(B, C)
    BY <1>4 DEF Calm, SameSupply
  <1>6. Calm(B, Detach(C, i, t))
    BY <1>1, <1>2, <1>5, CalmDetach, CalmTrans
  <1> QED
    BY <1>3, <1>5, <1>6, CalmRefl, SendToSidecarOK

(* A control frame.                                                        *)
LEMMA CalmSendCtl ==
    ASSUME NEW B, NEW d \in Nat, BrokerOK(B, d), NEW i \in Dials,
           NEW type \in FrameType, NEW off \in Nat, NEW ok \in BOOLEAN
    PROVE  /\ Calm(B, SendToSidecar(B, i, Ctl(type, off), ok))
           /\ BrokerOK(SendToSidecar(B, i, Ctl(type, off), ok), d)
  <1> DEFINE f == Ctl(type, off)
  <1>1. f \in Frame /\ Positioned(f.data, f.off)
    BY CtlFrame
  <1> HIDE DEF f
  <1>2. Calm(B, SendToSidecar(B, i, f, ok)) /\ BrokerOK(SendToSidecar(B, i, f, ok), d)
    BY <1>1, CalmSend
  <1> QED
    BY <1>2 DEF f

(* session.destroy and maybeDestroy.                                       *)
LEMMA CalmDestroy ==
    ASSUME NEW B, NEW d \in Nat, BrokerOK(B, d), NEW i \in Dials
    PROVE  Calm(B, Destroy(B, i)) /\ Calm(B, MaybeDestroy(B, i))
  <1> DEFINE C == [B EXCEPT !.s[i].watchdog = FALSE]
             D == Destroy(B, i)
  <1>1. B \in BrokerType
    BY DEF BrokerOK
  <1>2. Calm(B, C) /\ C.s = [B.s EXCEPT ![i].watchdog = FALSE]
    BY <1>1, CalmFlags DEF BrokerType
  <1>3. D.s = C.s /\ D.w = B.w
    BY <1>1 DEF Destroy, BrokerType
  <1>4. MaybeDestroy(B, i) \in {B, D}
    BY DEF MaybeDestroy
  <1> HIDE DEF C, D
  <1>5. Calm(B, D)
    BY <1>2, <1>3 DEF Calm
  <1> QED
    BY <1>4, <1>5, CalmRefl DEF D

(* session.closeUpstream.                                                  *)
LEMMA CalmCloseUpstream ==
    ASSUME NEW B, NEW d \in Nat, BrokerOK(B, d), NEW i \in Dials, NEW ok \in BOOLEAN
    PROVE  Calm(B, CloseUpstream(B, i, ok))
  <1> DEFINE C == [B EXCEPT !.s[i].downClosed = TRUE]
             D == SendToSidecar(C, i, Ctl("CLOSE", 0), ok)
  <1>1. BrokerOK(C, d) /\ Calm(B, C) /\ C.s[i].requestOutstanding = B.s[i].requestOutstanding
    <2>1. B \in BrokerType
      BY DEF BrokerOK
    <2> QED
      BY <2>1, CloseFlagsOK, CalmFlags
  <1>2. \/ CloseUpstream(B, i, ok) \in {B, MaybeDestroy(C, i), MaybeDestroy(D, i)}
        \/ B.s[i].requestOutstanding /\ CloseUpstream(B, i, ok) = MaybeDestroy(Wake(C), i)
    BY DEF CloseUpstream
  <1> HIDE DEF C
  <1>3. BrokerOK(D, d) /\ Calm(B, D)
    <2>1. "CLOSE" \in FrameType
      BY DEF FrameType
    <2>2. BrokerOK(D, d) /\ Calm(C, D)
      BY <1>1, <2>1, CalmSendCtl
    <2> QED
      BY <1>1, <2>2, CalmTrans
  <1>4. B.s[i].requestOutstanding => BrokerOK(Wake(C), d) /\ Calm(B, Wake(C))
    BY <1>1, WakeOK, CalmWake, CalmTrans DEF BrokerOK
  <1> HIDE DEF D
  <1>5. \A E : BrokerOK(E, d) /\ Calm(B, E) => Calm(B, MaybeDestroy(E, i))
    BY CalmDestroy, CalmTrans
  <1> QED
    BY <1>1, <1>2, <1>3, <1>4, <1>5, CalmRefl

(* tunnelConn.detachAll.                                                   *)
LEMMA CalmDetachAll ==
    ASSUME NEW B, NEW d \in Nat, BrokerOK(B, d), NEW t \in Tunnels
    PROVE  Calm(B, DetachAll(B, t))
  <1> DEFINE C == DetachAll(B, t)
  <1>1. \A i \in Dials : Calm(B, Detach(B, i, t))
    BY CalmDetach DEF Tunnels
  <1>2. C.s = [i \in Dials |-> Detach(B, i, t).s[i]]
        /\ (C.w <=> B.w \/ \E i \in Dials : Detach(B, i, t).w)
    BY DEF DetachAll, BrokerOK, BrokerType
  <1> HIDE DEF C
  <1>3. Calm(B, C)
    BY <1>1, <1>2 DEF Calm
  <1> QED
    BY <1>3 DEF C

-----------------------------------------------------------------------------
(* Frames of the agent's bytes.                                            *)

(* The end of a buffer is a number.                                        *)
LEMMA EndNat ==
    ASSUME NEW b \in ReplayBufferType
    PROVE  b.base \in Nat /\ End(b) \in Nat /\ b.base <= End(b)
  <1>1. b.base \in Nat /\ b.buf \in Seq(Byte)
    BY DEF ReplayBufferType
  <1>2. Len(b.buf) \in Nat
    BY <1>1
  <1> QED
    BY <1>1, <1>2 DEF End, BufLen

(* A frame that stays within e bytes, held alone or not at all.            *)
LEMMA WithinOne ==
    ASSUME NEW e \in Nat
    PROVE  /\ Within(<<>>, e)
           /\ \A f : (f.data # <<>> => f.off + Len(f.data) <= e) => Within(<<f>>, e)
           /\ \A type, off : Ctl(type, off).data = <<>> /\ Within(<<Ctl(type, off)>>, e)
  <1>1. Within(<<>>, e)
    BY DEF Within
  <1>2. ASSUME NEW f, f.data # <<>> => f.off + Len(f.data) <= e
        PROVE  Within(<<f>>, e)
    BY <1>2 DEF Within
  <1>3. \A type, off : Ctl(type, off).data = <<>>
    BY DEF Ctl
  <1> QED
    BY <1>1, <1>2, <1>3

(* The first frame was taken.                                              *)
LEMMA WithinTail ==
    ASSUME NEW q \in Seq(Frame), q # <<>>, NEW e \in Nat, Within(q, e)
    PROVE  /\ Within(Tail(q), e)
           /\ Head(q).data # <<>> => Head(q).off + Len(Head(q).data) <= e
  <1> DEFINE r == Tail(q)
  <1>1. Head(q) = q[1] /\ 1 \in 1 .. Len(q)
    OBVIOUS
  <1>2. \A k \in 1 .. Len(r) : k + 1 \in 1 .. Len(q) /\ r[k] = q[k + 1]
    OBVIOUS
  <1> HIDE DEF r
  <1>3. Within(r, e) /\ (q[1].data # <<>> => q[1].off + Len(q[1].data) <= e)
    BY <1>1, <1>2 DEF Within
  <1> QED
    BY <1>1, <1>3 DEF r

(* A prefix arrived.                                                       *)
LEMMA WithinPrefix ==
    ASSUME NEW q \in Seq(Frame), NEW n \in 0 .. Len(q), NEW e \in Nat, Within(q, e)
    PROVE  Within(SubSeq(q, 1, n), e)
  <1> DEFINE r == SubSeq(q, 1, n)
  <1>1. \A k \in 1 .. Len(r) : k \in 1 .. Len(q) /\ r[k] = q[k]
    OBVIOUS
  <1> HIDE DEF r
  <1>2. Within(r, e)
    BY <1>1 DEF Within
  <1> QED
    BY <1>2 DEF r

(* The agent wrote more.                                                   *)
LEMMA WithinMore ==
    ASSUME NEW q \in Seq(Frame), NEW d \in Nat, NEW e \in Nat, d <= e, Within(q, d)
    PROVE  Within(q, e)
  <1> SUFFICES ASSUME NEW k \in 1 .. Len(q), q[k].data # <<>>
               PROVE  q[k].off + Len(q[k].data) <= e
    BY DEF Within
  <1>1. q[k] \in Frame
    OBVIOUS
  <1>2. q[k].off \in Nat /\ q[k].data \in Seq(Byte)
    BY <1>1 DEF Frame
  <1>3. Len(q[k].data) \in Nat /\ q[k].off + Len(q[k].data) <= d
    BY <1>2 DEF Within
  <1> QED
    BY <1>2, <1>3

(* A frame, or what is left of it on the wire, joins a queue.              *)
LEMMA WithinAppend ==
    ASSUME NEW q \in Seq(Frame), NEW f \in Frame, NEW e \in Nat, Within(q, e),
           f.data # <<>> => f.off + Len(f.data) <= e
    PROVE  Within(Append(q, OnWire(f)), e)
  <1> DEFINE g == OnWire(f)
             r == Append(q, g)
  <1>1. Ctl("GARBLED", 0).data = <<>>
    BY DEF Ctl
  <1>2. (g = f \/ g.data = <<>>) /\ g \in Frame
    BY <1>1, OnWireFrame DEF OnWire
  <1> HIDE DEF g
  <1>3. \A k \in 1 .. Len(r) : (k \in 1 .. Len(q) /\ r[k] = q[k]) \/ r[k] = g
    BY <1>2
  <1> HIDE DEF r
  <1>4. Within(r, e)
    BY <1>2, <1>3 DEF Within
  <1> QED
    BY <1>4 DEF r, g

(* Client.send.                                                            *)
LEMMA WithinSend ==
    ASSUME IInv, QInv, NEW f \in Frame, Send(f),
           f.data # <<>> => f.off + Len(f.data) <= End(cs.upBuf)
    PROVE  \A t \in Tunnels : Within(upq'[t], End(cs.upBuf))
  <1> SUFFICES ASSUME NEW t \in Tunnels
               PROVE  Within(upq'[t], End(cs.upBuf))
    OBVIOUS
  <1>1. upq[t] \in Seq(Frame) /\ upq \in [Tunnels -> Seq(Frame)] /\ conn \in 0 .. MaxTunnels
        /\ End(cs.upBuf) \in Nat /\ Within(upq[t], End(cs.upBuf))
    BY SidecarFacts, EndNat DEF QInv
  <1>2. Within(Append(upq[t], OnWire(f)), End(cs.upBuf))
    BY <1>1, WithinAppend
  <1> QED
    BY <1>1, <1>2, WriteFrameAt DEF Send

(* What onData takes of a frame ends within the frame.                     *)
LEMMA FreshWithin ==
    ASSUME NEW p \in Seq(Byte), NEW off \in Nat, NEW want \in Nat, NEW e \in Nat,
           p # <<>> => off + Len(p) <= e
    PROVE  LET r == Fresh(off, p, want)
           IN  /\ r \in Seq(Byte) /\ Len(r) \in Nat
               /\ r # <<>> => want + Len(r) <= e /\ Len(r) > 0
  <1> DEFINE m == want - off + 1
             r == Fresh(off, p, want)
  <1>1. CASE want < off \/ m > Len(p)
    <2>1. r = <<>>
      BY <1>1 DEF Fresh
    <2> QED
      BY <2>1
  <1>2. CASE want >= off /\ m <= Len(p)
    <2>1. m \in 1 .. Len(p) /\ p # <<>> /\ Len(p) \in Nat
      BY <1>2
    <2>2. r = SubSeq(p, m, Len(p))
      BY <1>2 DEF Fresh
    <2>3. r \in Seq(Byte) /\ Len(r) = Len(p) - m + 1
      BY <2>1, <2>2
    <2>4. Len(r) \in Nat /\ Len(r) > 0 /\ want + Len(r) = off + Len(p)
      BY <2>1, <2>3
    <2> QED
      BY <2>1, <2>3, <2>4
  <1> QED
    BY <1>1, <1>2

-----------------------------------------------------------------------------
(* Steps of the sidecar and of the platform.                               *)

(* What QInv says, with the types it is about.                             *)
LEMMA QFacts ==
    ASSUME IInv, QInv
    PROVE  /\ End(cs.upBuf) \in Nat /\ Rounds * ReqLen \in Nat /\ Rounds * RespLen \in Nat
           /\ End(cs.upBuf) <= Rounds * ReqLen
           /\ Within(wout, End(cs.upBuf)) /\ Within(rout, End(cs.upBuf))
           /\ \A t \in Tunnels : Within(upq[t], End(cs.upBuf)) /\ Unanswered(pend[t], bs)
           /\ \A i \in Dials : SupplyOK(bs[i], srv[i], End(cs.upBuf))
  <1>1. End(cs.upBuf) \in Nat
    BY SidecarFacts, EndNat
  <1>2. Rounds * ReqLen \in Nat /\ Rounds * RespLen \in Nat
    BY LengthsAssumption, TimesMono
  <1> QED
    BY <1>1, <1>2 DEF QInv

(* The types of what SupplyOK relates.                                     *)
LEMMA SupplyTypes ==
    ASSUME NEW s \in SessionType, NEW c \in ServerConnType
    PROVE  /\ Len(c.got) \in Nat /\ c.sent \in Nat /\ c.got \in Seq(Byte)
           /\ s.upstreamWritten \in Nat /\ s.preConn \in Seq(Byte) /\ Len(s.preConn) \in Nat
           /\ s.downBuf \in ReplayBufferType /\ s.downBuf.base \in Nat
           /\ End(s.downBuf) \in Nat /\ s.downBuf.base <= End(s.downBuf)
  <1>1. c.got \in Seq(Byte) /\ c.sent \in Nat /\ s.preConn \in Seq(Byte)
        /\ s.upstreamWritten \in Nat /\ s.downBuf \in ReplayBufferType
    BY DEF SessionType, ServerConnType
  <1>2. Len(c.got) \in Nat /\ Len(s.preConn) \in Nat
    BY <1>1
  <1> QED
    BY <1>1, <1>2, EndNat

(* The agent wrote more.                                                   *)
LEMMA SupplyMore ==
    ASSUME NEW s \in SessionType, NEW c \in ServerConnType, NEW d \in Nat, NEW e \in Nat,
           d <= e, SupplyOK(s, c, d)
    PROVE  SupplyOK(s, c, e)
  BY SupplyTypes DEF SupplyOK

(* What a step of the sidecar has to show.                                 *)
LEMMA SidecarQ ==
    ASSUME IInv, IInv', QInv, UNCHANGED brokerVars,
           End(cs.upBuf) <= End(cs'.upBuf), End(cs'.upBuf) <= Rounds * ReqLen,
           Within(wout', End(cs'.upBuf)), Within(rout', End(cs'.upBuf)),
           \A t \in Tunnels : Within(upq'[t], End(cs'.upBuf))
    PROVE  QInv'
  <1>1. pend' = pend /\ bs' = bs /\ srv' = srv
    BY DEF brokerVars
  <1>2. End(cs.upBuf) \in Nat /\ End(cs'.upBuf) \in Nat
    BY QFacts, EndNat DEF IInv, TypeOK, ClientSessionType
  <1>3. \A i \in Dials : bs[i] \in SessionType /\ srv[i] \in ServerConnType
    BY BrokerFacts
  <1>4. \A i \in Dials : SupplyOK(bs[i], srv[i], End(cs'.upBuf))
    BY <1>2, <1>3, QFacts, SupplyMore
  <1> QED
    BY <1>1, <1>4 DEF QInv

(* ... when it leaves the end of upBuf alone.                              *)
LEMMA SameEndQ ==
    ASSUME IInv, IInv', QInv, UNCHANGED brokerVars, End(cs'.upBuf) = End(cs.upBuf),
           Within(wout', End(cs.upBuf)), Within(rout', End(cs.upBuf)),
           \A t \in Tunnels : Within(upq'[t], End(cs.upBuf))
    PROVE  QInv'
  <1>1. End(cs.upBuf) <= End(cs'.upBuf) /\ End(cs'.upBuf) <= Rounds * ReqLen
    BY QFacts
  <1> QED
    BY <1>1, SidecarQ

(* OpenSession registers the session, and sends OPEN.                      *)
LEMMA OpenQ ==
    ASSUME IInv, IInv', QInv, OpenSession \/ SendOpen
    PROVE  QInv'
  <1>1. UNCHANGED <<wout, rout, brokerVars>>
    BY DEF OpenSession, SendOpen
  <1>2. cs' = [cs EXCEPT !.st = "opening"] \/ cs' = [cs EXCEPT !.st = "open"]
    BY DEF OpenSession, SendOpen
  <1>3. cs'.upBuf = cs.upBuf
    BY <1>2, SidecarFacts DEF ClientSessionType
  <1>4. \A t \in Tunnels : Within(upq'[t], End(cs.upBuf))
    <2>1. CASE OpenSession
      BY <2>1, QFacts DEF OpenSession
    <2>2. CASE SendOpen
      <3>1. Ctl("OPEN", 0) \in Frame /\ Ctl("OPEN", 0).data = <<>>
        BY CtlFrame DEF FrameType, Ctl
      <3> QED
        BY <2>2, <3>1, WithinSend DEF SendOpen
    <2> QED
      BY <2>1, <2>2
  <1> QED
    BY <1>1, <1>3, <1>4, QFacts, SameEndQ

(* The agent has at most Rounds requests to send.                          *)
LEMMA AgentToSendBound ==
    ASSUME IInv
    PROVE  AgentToSend \in Int /\ End(cs.upBuf) + AgentToSend <= Rounds * ReqLen
  <1> DEFINE r == Responses
             k == IF r < Rounds THEN r + 1 ELSE Rounds
  <1>1. Rounds \in Nat /\ ReqLen \in Nat /\ RespLen \in Nat \ {0}
    BY LengthsAssumption
  <1>2. Len(agentGot) \in Nat /\ End(cs.upBuf) \in Nat
    BY SidecarFacts, EndNat
  <1>3. r \in Nat
    BY <1>1, <1>2, DivFacts DEF Responses
  <1> HIDE DEF r
  <1>4. k \in Nat /\ k <= Rounds
    BY <1>1, <1>3
  <1>5. AgentToSend = k * ReqLen - End(cs.upBuf)
    BY DEF AgentToSend, r
  <1> HIDE DEF k
  <1>6. k * ReqLen \in Nat /\ k * ReqLen <= Rounds * ReqLen /\ Rounds * ReqLen \in Nat
    BY <1>1, <1>4, TimesMono
  <1> QED
    BY <1>2, <1>5, <1>6

(* A chunk has the length asked for.                                       *)
LEMMA AgentBytesLen ==
    ASSUME NEW from \in Nat, NEW n \in Nat
    PROVE  Len(AgentBytes(from, n)) = n
  <1> DEFINE p == AgentBytes(from, n)
  <1>1. p \in Seq(Byte) /\ p = [k \in 1 .. n |-> <<0, from + k>>]
    BY AgentBytesType DEF AgentBytes
  <1> HIDE DEF p
  <1>2. Len(p) = n
    BY <1>1
  <1> QED
    BY <1>2 DEF p

(* writeUp retains a chunk of what the agent has to send.                  *)
LEMMA WriteUpQ ==
    ASSUME IInv, IInv', QInv, NEW n \in 1 .. UpCap, WriteUp(n)
    PROVE  QInv'
  <1> DEFINE b == cs.upBuf
             off == End(b)
             chunk == AgentBytes(off, n)
             c == AppendTo(b, chunk)
  <1>1. n \in Nat /\ n > 0 /\ b \in ReplayBufferType /\ off \in Nat
    BY SidecarFacts, EndNat
  <1>2. b.base \in Nat /\ b.buf \in Seq(Byte) /\ off = b.base + Len(b.buf)
    BY <1>1 DEF ReplayBufferType, End, BufLen
  <1>3. cs' = [cs EXCEPT !.upBuf = c] /\ wout' = <<Data(off, chunk)>>
        /\ UNCHANGED <<rout, upq, brokerVars>> /\ n <= AgentToSend
    BY DEF WriteUp
  <1>4. chunk \in Seq(Byte) /\ Len(chunk) = n
    <2> HIDE DEF off
    <2> QED
      BY <1>1, AgentBytesUp, AgentBytesLen
  <1> HIDE DEF chunk
  <1>5. c = [base |-> b.base, buf |-> b.buf \o chunk]
    BY <1>1, <1>4, AppendToIs
  <1>6. cs'.upBuf = c
    BY <1>3, SidecarFacts DEF ClientSessionType
  <1>7. c.base = b.base /\ c.buf = b.buf \o chunk
    BY <1>5
  <1> HIDE DEF c
  <1>8. Len(b.buf \o chunk) = Len(b.buf) + n /\ Len(b.buf) \in Nat
    BY <1>2, <1>4
  <1>9. End(c) = off + n
    BY <1>1, <1>2, <1>7, <1>8 DEF End, BufLen
  <1> HIDE DEF off, b
  <1>10. off + n \in Nat /\ off <= off + n /\ off + n <= Rounds * ReqLen
    BY <1>1, <1>3, AgentToSendBound, QFacts DEF off, b
  <1>11. Within(wout', off + n)
    <2> DEFINE f == Data(off, chunk)
    <2>1. f.off = off /\ f.data = chunk
      BY DEF Data
    <2> HIDE DEF f
    <2>2. f.data # <<>> => f.off + Len(f.data) <= off + n
      BY <1>1, <1>4, <2>1
    <2> QED
      BY <1>3, <1>10, <2>2, WithinOne DEF f
  <1>12. Within(rout', off + n) /\ \A t \in Tunnels : Within(upq'[t], off + n)
    <2>1. rout \in Seq(Frame) /\ upq \in [Tunnels -> Seq(Frame)]
      BY SidecarFacts
    <2>2. Within(rout, off) /\ \A t \in Tunnels : Within(upq[t], off)
      BY QFacts DEF off, b
    <2> QED
      BY <1>1, <1>3, <1>10, <2>1, <2>2, WithinMore
  <1> QED
    BY <1>3, <1>6, <1>9, <1>10, <1>11, <1>12, SidecarQ DEF off, b

(* A held frame, CLOSE or ATTACH is sent.                                  *)
LEMMA SendStepQ ==
    ASSUME IInv, IInv', QInv,
           WriteUpSend \/ ReadLoopSend \/ Reattach \/ \E half \in BOOLEAN : CloseUp(half)
    PROVE  QInv'
  <1> DEFINE e == End(cs.upBuf)
  <1>1. UNCHANGED brokerVars
    BY DEF WriteUpSend, ReadLoopSend, Reattach, CloseUp
  <1>2. e \in Nat /\ Within(wout, e) /\ Within(rout, e) /\ wout \in Seq(Frame)
        /\ rout \in Seq(Frame)
    BY QFacts, SidecarFacts
  <1>3. Within(wout', e) /\ Within(rout', e)
    BY <1>2, WithinOne DEF WriteUpSend, ReadLoopSend, Reattach, CloseUp
  <1>4. cs'.upBuf = cs.upBuf
    <2>1. cs' = cs \/ cs' = [cs EXCEPT !.upClosed = TRUE]
      BY DEF WriteUpSend, ReadLoopSend, Reattach, CloseUp
    <2> QED
      BY <2>1, SidecarFacts DEF ClientSessionType
  <1>5. ASSUME NEW q \in Seq(Frame), q # <<>>, Within(q, e)
        PROVE  q[1] \in Frame /\ (q[1].data # <<>> => q[1].off + Len(q[1].data) <= e)
    <2>1. 1 \in 1 .. Len(q) /\ q[1] \in Frame
      BY <1>5
    <2> QED
      BY <1>5, <2>1 DEF Within
  <1>6. \A t \in Tunnels : Within(upq'[t], e)
    <2>1. CASE WriteUpSend
      BY <1>2, <1>5, <2>1, WithinSend DEF WriteUpSend
    <2>2. CASE ReadLoopSend
      BY <1>2, <1>5, <2>2, WithinSend DEF ReadLoopSend
    <2>3. CASE Reattach
      <3> DEFINE f == Ctl("ATTACH", cs.downDelivered)
      <3>1. f \in Frame /\ f.data = <<>>
        BY SidecarFacts, CtlFrame DEF FrameType, Ctl
      <3> HIDE DEF f
      <3>2. Send(f)
        BY <2>3 DEF Reattach, f
      <3> QED
        BY <3>1, <3>2, WithinSend
    <2>4. CASE \E half \in BOOLEAN : CloseUp(half)
      <3> DEFINE f == Ctl("CLOSE", 0)
      <3>1. f \in Frame /\ f.data = <<>>
        BY CtlFrame DEF FrameType, Ctl
      <3> HIDE DEF f
      <3>2. Send(f)
        BY <2>4 DEF CloseUp, f
      <3> QED
        BY <3>1, <3>2, WithinSend
    <2> QED
      BY <2>1, <2>2, <2>3, <2>4
  <1> QED
    BY <1>1, <1>3, <1>4, <1>6, SameEndQ

(* A connection is made or dropped.                                        *)
LEMMA ConnectQ ==
    ASSUME IInv, IInv', QInv, Disconnect \/ \E t \in Tunnels : Connect(t)
    PROVE  QInv'
  <1>1. UNCHANGED <<cs, wout, rout, brokerVars>>
    BY DEF Disconnect, Connect
  <1>2. upq' = upq \/ \E t \in Tunnels : upq' = [upq EXCEPT ![t] = <<>>]
    BY DEF Disconnect, Connect
  <1>3. \A u \in Tunnels : Within(upq'[u], End(cs.upBuf))
    BY <1>2, SidecarFacts, QFacts, WithinOne
  <1> QED
    BY <1>1, <1>3, QFacts, SameEndQ

(* What an acknowledgement drops from upBuf is at its front.               *)
LEMMA TrimEnd ==
    ASSUME NEW b \in ReplayBufferType, NEW off \in Nat
    PROVE  TrimTo(b, off) \in ReplayBufferType /\ End(TrimTo(b, off)) = End(b)
  <1>1. b.base \in Nat /\ b.buf \in Seq(Byte) /\ Len(b.buf) \in Nat
    BY DEF ReplayBufferType
  <1>2. CASE off <= b.base
    BY <1>2, TrimToType DEF TrimTo
  <1>3. CASE off > b.base /\ off >= End(b)
    <2>1. TrimTo(b, off) = [base |-> End(b), buf |-> <<>>] /\ End(b) \in Nat
      BY <1>1, <1>3 DEF TrimTo, End, BufLen
    <2> QED
      BY <2>1, TrimToType DEF End, BufLen
  <1>4. CASE off > b.base /\ off < End(b)
    <2> DEFINE m == off - b.base + 1
               q == SubSeq(b.buf, m, Len(b.buf))
    <2>1. TrimTo(b, off) = [base |-> off, buf |-> q]
      BY <1>1, <1>4 DEF TrimTo, End, BufLen
    <2>2. m \in 1 .. Len(b.buf)
      BY <1>1, <1>4 DEF End, BufLen
    <2>3. Len(q) = Len(b.buf) - m + 1
      BY <1>1, <2>2
    <2> HIDE DEF q
    <2>4. TrimTo(b, off).base = off /\ TrimTo(b, off).buf = q
      BY <2>1
    <2>5. End(TrimTo(b, off)) = off + Len(q) /\ End(b) = b.base + Len(b.buf)
      BY <2>4 DEF End, BufLen
    <2>6. off + Len(q) = b.base + Len(b.buf)
      BY <1>1, <2>3
    <2> QED
      BY <2>5, <2>6, TrimToType
  <1> QED
    BY <1>1, <1>2, <1>3, <1>4 DEF End, BufLen

(* What onAttachOK replays ends where upBuf ends.                          *)
LEMMA FromEnd ==
    ASSUME NEW b \in ReplayBufferType, NEW off \in Nat, FromOK(b, off)
    PROVE  From(b, off) \in Seq(Byte) /\ off + Len(From(b, off)) = End(b)
  <1> DEFINE m == off - b.base + 1
             q == SubSeq(b.buf, m, Len(b.buf))
  <1>1. b.base \in Nat /\ b.buf \in Seq(Byte) /\ Len(b.buf) \in Nat
    BY DEF ReplayBufferType
  <1>2. m \in 1 .. Len(b.buf) + 1
    BY <1>1 DEF FromOK, End, BufLen
  <1>3. From(b, off) = q
    BY DEF From, BufLen
  <1>4. Len(q) = Len(b.buf) - m + 1
    BY <1>1, <1>2
  <1> HIDE DEF q
  <1>5. off + Len(q) = b.base + Len(b.buf)
    BY <1>1, <1>4
  <1> QED
    BY <1>3, <1>5, FromType DEF End, BufLen

(* onUpstreamAck, onAttachOK, deliverDown and onClose.                     *)
LEMMA RecvQ ==
    ASSUME IInv, IInv', QInv,
           RecvAck \/ RecvAttachOK \/ RecvClose \/ \E ok \in BOOLEAN : RecvData(ok)
    PROVE  QInv'
  <1> DEFINE e == End(cs.upBuf)
             f == Head(downq[conn])
             b == TrimTo(cs.upBuf, f.off)
             p == IF FromOK(b, f.off) THEN From(b, f.off) ELSE <<>>
             g == cs.downDelivered + Len(Fresh(f.off, f.data, cs.downDelivered))
  <1>1. UNCHANGED <<wout, upq, brokerVars>>
    BY DEF RecvAck, RecvAttachOK, RecvClose, RecvData
  <1>2. f.off \in Nat
    BY ReceiveOK DEF RecvAck, RecvAttachOK, RecvClose, RecvData
  <1>3. e \in Nat /\ Within(rout, e)
    BY QFacts
  <1>4. b \in ReplayBufferType /\ End(b) = e
    BY <1>2, SidecarFacts, TrimEnd
  <1>5. /\ \/ cs' = cs \/ cs' = [cs EXCEPT !.upBuf = b] \/ cs' = [cs EXCEPT !.downDelivered = g]
           \/ cs' = [cs EXCEPT !.st = "gone"] \/ cs' = [cs EXCEPT !.downClosed = TRUE]
        /\ rout' = rout \/ rout' = <<>> \/ rout' = <<Ctl("ACK", g)>> \/ rout' = <<Data(f.off, p)>>
    BY DEF RecvAck, RecvAttachOK, RecvClose, RecvData
  <1> HIDE DEF b, f, g
  <1>6. cs'.upBuf = cs.upBuf \/ cs'.upBuf = b
    BY <1>5, SidecarFacts DEF ClientSessionType
  <1>7. Within(<<Data(f.off, p)>>, e)
    <2> DEFINE d == Data(f.off, p)
    <2>1. d.off = f.off /\ d.data = p
      BY DEF Data
    <2>2. p # <<>> => f.off + Len(p) <= e
      <3>1. CASE FromOK(b, f.off)
        BY <1>2, <1>3, <1>4, <3>1, FromEnd
      <3> QED
        BY <3>1
    <2> HIDE DEF d, p
    <2> QED
      BY <1>3, <2>1, <2>2, WithinOne DEF d
  <1> HIDE DEF p
  <1>8. Within(rout', e)
    BY <1>3, <1>5, <1>7, WithinOne
  <1> QED
    BY <1>1, <1>4, <1>6, <1>8, QFacts, SameEndQ

(* Suspends, failures and resumes.                                         *)
LEMMA PlatformQ ==
    ASSUME IInv, IInv', QInv, Suspend \/ Break \/ ResumeActor \/ ResumeElsewhere
    PROVE  QInv'
  <1>1. UNCHANGED <<cs, wout, rout, brokerVars>>
    BY DEF Suspend, Break, ResumeActor, ResumeElsewhere, sidecarVars
  <1>2. \A u \in Tunnels : Within(upq'[u], End(cs.upBuf))
    <2>1. CASE (Suspend \/ Break) /\ conn # 0 /\ link[conn] = "up"
      <3>1. conn \in Tunnels /\ Cut /\ upq \in [Tunnels -> Seq(Frame)]
        BY <2>1, SidecarFacts DEF Suspend, Break
      <3>2. PICK k \in 0 .. Len(upq[conn]) :
               upq' = [upq EXCEPT ![conn] = SubSeq(upq[conn], 1, k)]
        BY <2>1, <3>1 DEF Cut
      <3>3. Within(SubSeq(upq[conn], 1, k), End(cs.upBuf))
        BY <3>1, QFacts, WithinPrefix
      <3> QED
        BY <3>1, <3>2, <3>3, QFacts
    <2>2. CASE ~((Suspend \/ Break) /\ conn # 0 /\ link[conn] = "up")
      <3>1. upq' = upq
        BY <2>2 DEF Suspend, Break, ResumeActor, ResumeElsewhere, Cut
      <3> QED
        BY <3>1, QFacts
    <2> QED
      BY <2>1, <2>2
  <1> QED
    BY <1>1, <1>2, QFacts, SameEndQ

-----------------------------------------------------------------------------
(* Steps of the broker: besides QInv, that nothing wakes the actor while   *)
(* every session is answered.                                              *)
Resting ==
    ~wake /\ \A i \in Dials : ~bs[i].requestOutstanding /\ bs[i].downBuf.base >= Rounds * RespLen

StaysQuiet == Resting => ~wake' /\ Idle(bs')

(* What a step of the broker has to show.                                  *)
LEMMA StepQ ==
    ASSUME QInv, UNCHANGED sidecarVars,
           \A t \in Tunnels : Within(upq'[t], End(cs.upBuf)),
           \A i \in Dials : SupplyOK(bs'[i], srv'[i], End(cs.upBuf)),
           \A t \in Tunnels : Unanswered(pend'[t], bs')
    PROVE  QInv'
  <1>1. cs' = cs /\ wout' = wout /\ rout' = rout
    BY DEF sidecarVars
  <1> QED
    BY <1>1 DEF QInv

(* ... when it is a change B of the broker and building blocks after it.   *)
LEMMA CommitQ ==
    ASSUME QInv, UNCHANGED sidecarVars, NEW B, NEW C, Calm(B, C), Commit(C),
           \A t \in Tunnels : Within(upq'[t], End(cs.upBuf)),
           \A i \in Dials : SupplyOK(B.s[i], srv'[i], End(cs.upBuf)),
           \A t \in Tunnels : Unanswered(pend'[t], B.s),
           Resting => Idle(B.s) /\ ~B.w
    PROVE  QInv' /\ StaysQuiet
  <1>1. bs' = C.s /\ wake' = C.w
    BY DEF Commit
  <1>2. \A i \in Dials : SameSupply(B.s[i], bs'[i])
    BY <1>1 DEF Calm
  <1>3. \A i \in Dials : SupplyOK(bs'[i], srv'[i], End(cs.upBuf))
    BY <1>2 DEF SupplyOK, SameSupply, Unflushed
  <1>4. \A t \in Tunnels : Unanswered(pend'[t], bs')
    BY <1>2 DEF Unanswered, SameSupply
  <1>5. StaysQuiet
    BY <1>1, <1>2 DEF StaysQuiet, Calm, Idle, SameSupply
  <1> QED
    BY <1>3, <1>4, <1>5, StepQ

(* ... when it is made of building blocks only.                            *)
LEMMA CalmQ ==
    ASSUME IInv, QInv, UNCHANGED sidecarVars, NEW C, Calm(Broker, C), Commit(C),
           \A t \in Tunnels : Within(upq'[t], End(cs.upBuf)),
           \A i \in Dials : srv'[i].got = srv[i].got /\ srv'[i].sent = srv[i].sent,
           \A t \in Tunnels : pend'[t] = pend[t] \/ Passive(pend'[t])
    PROVE  QInv' /\ StaysQuiet
  <1>1. Broker.s = bs /\ Broker.w = wake
    BY DEF Broker
  <1>2. \A i \in Dials : SupplyOK(bs[i], srv'[i], End(cs.upBuf))
    BY QFacts DEF SupplyOK
  <1>3. \A t \in Tunnels : Unanswered(pend'[t], bs)
    BY QFacts DEF Unanswered, Passive
  <1>4. Resting => Idle(bs) /\ ~wake
    BY DEF Resting, Idle
  <1> QED
    BY <1>1, <1>2, <1>3, <1>4, CommitQ

(* serveTunnel took a frame off tunnel t.                                  *)
LEMMA ServeQ ==
    ASSUME IInv, UInv, QInv, OneWriterAtATime, NEW t \in Tunnels, NEW type, Serve(t, type)
    PROVE  /\ \A u \in Tunnels : Within(upq'[u], End(cs.upBuf)) /\ Passive(pend[u])
           /\ LET f == Head(upq[t])
              IN  /\ f.off \in Nat /\ f.data \in Seq(Byte)
                  /\ f.data # <<>> => f.off + Len(f.data) <= End(cs.upBuf)
           /\ pend[t] = <<>> /\ Settled
  <1>1. upq \in [Tunnels -> Seq(Frame)] /\ upq[t] # <<>> /\ pend[t] = <<>> /\ Settled
        /\ upq' = [upq EXCEPT ![t] = Tail(upq[t])]
    BY SidecarFacts DEF Serve
  <1>2. /\ Within(Tail(upq[t]), End(cs.upBuf))
        /\ Head(upq[t]).data # <<>>
             => Head(upq[t]).off + Len(Head(upq[t]).data) <= End(cs.upBuf)
    BY <1>1, QFacts, WithinTail
  <1>3. Head(upq[t]) \in Frame
    BY ServeOK
  <1>4. Head(upq[t]).off \in Nat /\ Head(upq[t]).data \in Seq(Byte)
    BY <1>3 DEF Frame
  <1>5. \A u \in Tunnels : Passive(pend[u])
    BY NoWriter DEF Passive
  <1> QED
    BY <1>1, <1>2, <1>4, <1>5, QFacts

(* A session whose responses are all acknowledged has taken everything the *)
(* agent will ever send.                                                   *)
LEMMA Answered ==
    ASSUME IInv, QInv, NEW i \in Dials, bs[i].downBuf.base >= Rounds * RespLen
    PROVE  Len(srv[i].got) = End(cs.upBuf)
  <1> DEFINE n == Len(srv[i].got)
  <1>1. bs[i] \in SessionType /\ srv[i] \in ServerConnType
    BY BrokerFacts
  <1>2. n \in Nat /\ srv[i].sent \in Nat /\ bs[i].downBuf.base \in Nat
        /\ End(bs[i].downBuf) \in Nat /\ bs[i].downBuf.base <= End(bs[i].downBuf)
    BY <1>1, SupplyTypes
  <1>3. n <= End(cs.upBuf) /\ srv[i].sent <= Owed(n) /\ End(bs[i].downBuf) <= srv[i].sent
        /\ End(cs.upBuf) \in Nat /\ End(cs.upBuf) <= Rounds * ReqLen
        /\ Rounds * ReqLen \in Nat /\ Rounds * RespLen \in Nat
    BY QFacts DEF SupplyOK
  <1> HIDE DEF n
  <1>4. Owed(n) \in Nat
    BY <1>2, OwedMonotone
  <1>5. ~(Owed(n) < Rounds * RespLen)
    BY <1>2, <1>3, <1>4
  <1>6. ~(n < Rounds * ReqLen)
    BY <1>2, <1>5, OwedBelow
  <1>7. n = End(cs.upBuf)
    BY <1>2, <1>3, <1>6
  <1> QED
    BY <1>7 DEF n

(* newSession: it starts with nothing.                                     *)
LEMMA CreateQ ==
    ASSUME IInv, QInv, UNCHANGED <<sidecarVars, srv>>, NextDial \in Dials,
           NEW t \in Tunnels, Commit(Create(Broker, t)),
           \A u \in Tunnels : Within(upq'[u], End(cs.upBuf)) /\ Passive(pend'[u])
    PROVE  QInv' /\ StaysQuiet
  <1> DEFINE c == NextDial
             s == NewSession(t)
  <1>1. bs' = [bs EXCEPT ![c] = s] /\ wake' = wake /\ bs \in [Dials -> SessionType]
        /\ c \in Dials
    BY BrokerFacts DEF Commit, Create, Broker
  <1>2. s.dial = "dialing" /\ s.preConn = <<>> /\ s.upstreamWritten = 0
        /\ s.downBuf = NewReplayBuffer /\ s.requestOutstanding = FALSE
    BY DEF NewSession, Tunnels
  <1>3. End(NewReplayBuffer) = 0 /\ Len(<<>>) = 0
    BY DEF End, BufLen, NewReplayBuffer
  <1> HIDE DEF c, s
  <1>4. SupplyOK(s, srv[c], End(cs.upBuf))
    <2>1. SupplyOK(bs[c], srv[c], End(cs.upBuf)) /\ srv[c] \in ServerConnType
          /\ bs[c] \in SessionType /\ End(cs.upBuf) \in Nat
      BY <1>1, QFacts, BrokerFacts
    <2>2. srv[c].sent \in Nat
      BY <2>1, SupplyTypes
    <2>3. s.upstreamWritten + Len(s.preConn) = 0 /\ End(s.downBuf) = 0
      BY <1>2, <1>3
    <2> QED
      BY <1>2, <2>1, <2>2, <2>3 DEF SupplyOK
  <1>5. \A i \in Dials : SupplyOK(bs'[i], srv'[i], End(cs.upBuf))
    BY <1>1, <1>4, QFacts
  <1>6. StaysQuiet
    BY <1>1, <1>2 DEF StaysQuiet, Resting, Idle
  <1>7. \A u \in Tunnels : Unanswered(pend'[u], bs')
    BY DEF Unanswered, Passive
  <1> QED
    BY <1>5, <1>6, <1>7, StepQ

(* The session in the map is bound and attached.                           *)
LEMMA BindQ ==
    ASSUME IInv, QInv, UNCHANGED <<sidecarVars, srv>>, cur # 0, NEW t \in Tunnels,
           Commit(Bind(Broker, cur, t)),
           \A u \in Tunnels : Within(upq'[u], End(cs.upBuf)) /\ Passive(pend'[u])
    PROVE  QInv' /\ StaysQuiet
  <1>1. cur \in Dials /\ t \in 0 .. MaxTunnels /\ Broker \in BrokerType
    BY BrokerFacts DEF Tunnels, BrokerOK
  <1>2. Calm(Broker, Bind(Broker, cur, t))
    BY <1>1, CalmRebind DEF Bind
  <1> QED
    BY <1>2, CalmQ

(* openSession and attachSession.                                          *)
LEMMA HandleAttachQ ==
    ASSUME IInv, UInv, QInv, OneWriterAtATime, NEW t \in Tunnels,
           HandleOpen(t) \/ HandleAttach(t)
    PROVE  QInv' /\ StaysQuiet
  <1>1. UNCHANGED <<sidecarVars, srv>> /\ (Serve(t, "OPEN") \/ Serve(t, "ATTACH"))
    BY DEF HandleOpen, HandleAttach
  <1>2. \A u \in Tunnels : Within(upq'[u], End(cs.upBuf)) /\ Passive(pend[u])
    BY <1>1, ServeQ
  <1>3. pend \in [Tunnels -> Seq(Handler)]
    BY BrokerFacts
  <1>4. \/ pend' = pend
        \/ \E s, i, off : pend' = [pend EXCEPT ![t] = <<AttachHandler(s, i, off)>>]
    BY DEF HandleOpen, HandleAttach
  <1>5. ASSUME NEW s, NEW i, NEW off
        PROVE  Passive(<<AttachHandler(s, i, off)>>)
    <2> DEFINE h == AttachHandler(s, i, off)
    <2>1. h.op = "onAttach"
      BY DEF AttachHandler
    <2> HIDE DEF h
    <2>2. Passive(<<h>>)
      BY <2>1 DEF Passive, Writes
    <2> QED
      BY <2>2 DEF h
  <1>6. \A u \in Tunnels : Passive(pend'[u])
    <2>1. CASE pend' = pend
      BY <1>2, <2>1
    <2>2. CASE pend' # pend
      <3>1. PICK s, i, off : pend' = [pend EXCEPT ![t] = <<AttachHandler(s, i, off)>>]
        BY <1>4, <2>2
      <3> DEFINE h == <<AttachHandler(s, i, off)>>
      <3>2. Passive(h) /\ pend' = [pend EXCEPT ![t] = h]
        BY <1>5, <3>1
      <3> HIDE DEF h
      <3> QED
        BY <1>2, <1>3, <3>2
    <2> QED
      BY <2>1, <2>2
  <1>7. CASE cur # 0
    <2>1. Commit(Bind(Broker, cur, t))
      BY <1>7 DEF HandleOpen, HandleAttach
    <2> QED
      BY <1>1, <1>2, <1>6, <1>7, <2>1, BindQ
  <1>8. CASE cur = 0
    <2>1. \/ NextDial \in Dials /\ Commit(Create(Broker, t))
          \/ Commit([Broker EXCEPT !.q = WriteFrame(@, t, Ctl("LOST", 0))])
      BY <1>8 DEF HandleOpen, HandleAttach
    <2>2. CASE NextDial \in Dials /\ Commit(Create(Broker, t))
      BY <1>1, <1>2, <1>6, <2>2, CreateQ
    <2>3. CASE Commit([Broker EXCEPT !.q = WriteFrame(@, t, Ctl("LOST", 0))])
      <3> DEFINE q == WriteFrame(downq, t, Ctl("LOST", 0))
                 B == [Broker EXCEPT !.q = q]
      <3>1. Commit(B)
        BY <2>3 DEF Broker
      <3>2. B.s = Broker.s /\ B.w = Broker.w
        BY DEF Broker
      <3> HIDE DEF B
      <3>3. Calm(Broker, B)
        BY <3>2 DEF Calm, SameSupply
      <3> QED
        BY <1>1, <1>2, <1>6, <3>1, <3>3, CalmQ
    <2> QED
      BY <2>1, <2>2, <2>3
  <1> QED
    BY <1>7, <1>8

(* onSidecarAttach after its Unlock.                                       *)
LEMMA FinishAttachQ ==
    ASSUME IInv, QInv, NEW t \in Tunnels, NEW ok \in BOOLEAN, FinishAttach(t, ok)
    PROVE  QInv' /\ StaysQuiet
  <1> DEFINE d == cs.downDelivered
             h == pend[t][1]
             i == h.i
             g == Data(h.off, h.data)
             B1 == SendToSidecar(Broker, i, Ctl("ATTACH_OK", h.written), ok)
             B2 == IF h.data = <<>> THEN B1 ELSE SendToSidecar(B1, i, g, ok)
             B3 == IF h.close THEN SendToSidecar(B2, i, Ctl("CLOSE", 0), ok) ELSE B2
  <1>1. h \in Handler /\ HandlerOK(h) /\ h.op = "onAttach" /\ pend[t] \in Seq(Handler)
        /\ 1 \in 1 .. Len(pend[t]) /\ pend \in [Tunnels -> Seq(Handler)]
    BY BrokerFacts DEF FinishAttach
  <1>2. i \in Dials /\ h.written \in Nat /\ h.off \in Nat /\ h.data \in Seq(Byte)
        /\ Positioned(h.data, h.off)
    BY <1>1 DEF Handler, HandlerOK
  <1>3. g \in Frame /\ Positioned(g.data, g.off)
    BY <1>2, DataFrame
  <1>4. Commit(B3) /\ UNCHANGED <<sidecarVars, upq, srv>> /\ pend' = [pend EXCEPT ![t] = <<>>]
    BY DEF FinishAttach
  <1>5. "ATTACH_OK" \in FrameType /\ "CLOSE" \in FrameType /\ d \in Nat /\ BrokerOK(Broker, d)
    BY BrokerFacts DEF FrameType
  <1> HIDE DEF h, i, d, g
  <1>6. BrokerOK(B1, d) /\ Calm(Broker, B1)
    BY <1>2, <1>5, CalmSendCtl
  <1> HIDE DEF B1
  <1>7. BrokerOK(SendToSidecar(B1, i, g, ok), d) /\ Calm(B1, SendToSidecar(B1, i, g, ok))
    BY <1>2, <1>3, <1>5, <1>6, CalmSend
  <1>8. BrokerOK(B2, d) /\ Calm(Broker, B2)
    BY <1>6, <1>7, CalmTrans
  <1> HIDE DEF B2
  <1>9. Calm(B2, SendToSidecar(B2, i, Ctl("CLOSE", 0), ok))
    BY <1>2, <1>5, <1>8, CalmSendCtl
  <1>10. Calm(Broker, B3)
    BY <1>8, <1>9, CalmTrans
  <1> HIDE DEF B3
  <1>11. \A u \in Tunnels : pend'[u] = pend[u] \/ Passive(pend'[u])
    BY <1>1, <1>4 DEF Passive, Writes
  <1> QED
    BY <1>4, <1>10, <1>11, QFacts, CalmQ

(* onData before the dial completed: what is queued the agent wrote.       *)
LEMMA HandleDataEarlyQ ==
    ASSUME IInv, UInv, QInv, OneWriterAtATime, NEW t \in Tunnels, HandleDataEarly(t)
    PROVE  QInv' /\ StaysQuiet
  <1> DEFINE f == Head(upq[t])
             e == End(cs.upBuf)
             s == bs[cur]
             want == s.upstreamWritten + Len(s.preConn)
             q == Fresh(f.off, f.data, want)
             r == s.preConn \o q
  <1>1. Serve(t, "DATA") /\ UNCHANGED <<sidecarVars, downq, cur, pend, srv, wake>>
        /\ cur \in Dials /\ bs' = [bs EXCEPT ![cur].preConn = r]
        /\ bs \in [Dials -> SessionType] /\ s.dial \in {"none", "dialing"}
    BY BrokerFacts DEF HandleDataEarly, Connected, envVars
  <1>2. f.off \in Nat /\ f.data \in Seq(Byte) /\ (f.data # <<>> => f.off + Len(f.data) <= e)
        /\ e \in Nat /\ \A u \in Tunnels : Within(upq'[u], e) /\ Passive(pend[u])
    BY <1>1, ServeQ, QFacts
  <1>3. s.preConn \in Seq(Byte) /\ s.upstreamWritten \in Nat /\ Len(s.preConn) \in Nat
        /\ SupplyOK(s, srv[cur], e)
    BY <1>1, QFacts DEF SessionType
  <1>4. want <= e
    BY <1>1, <1>3 DEF SupplyOK, Unflushed
  <1> HIDE DEF f, e, s
  <1>5. want \in Nat
    BY <1>3
  <1> HIDE DEF want
  <1>6. q \in Seq(Byte) /\ Len(q) \in Nat /\ (q # <<>> => want + Len(q) <= e)
    BY <1>2, <1>5, FreshWithin
  <1>7. Len(r) = Len(s.preConn) + Len(q) /\ (q = <<>> => Len(q) = 0)
    BY <1>3, <1>6
  <1> HIDE DEF q
  <1>8. s.upstreamWritten + Len(r) <= e
    <2>1. s.upstreamWritten + Len(r) = want + Len(q)
      BY <1>3, <1>6, <1>7 DEF want
    <2> QED
      BY <1>2, <1>4, <1>5, <1>6, <1>7, <2>1
  <1> HIDE DEF r
  <1>9. /\ \A i \in Dials : i # cur => bs'[i] = bs[i]
        /\ bs'[cur].preConn = r /\ bs'[cur].upstreamWritten = s.upstreamWritten
        /\ bs'[cur].dial = s.dial /\ bs'[cur].downBuf = s.downBuf
        /\ \A i \in Dials : bs'[i].requestOutstanding = bs[i].requestOutstanding
    BY <1>1 DEF SessionType, s
  <1>10. SupplyOK(bs'[cur], srv[cur], e)
    BY <1>1, <1>3, <1>8, <1>9 DEF SupplyOK
  <1>11. \A i \in Dials : SupplyOK(bs'[i], srv'[i], e)
    BY <1>1, <1>9, <1>10, QFacts DEF e
  <1>12. StaysQuiet
    BY <1>1, <1>9 DEF StaysQuiet, Resting, Idle
  <1>13. \A u \in Tunnels : Unanswered(pend'[u], bs')
    BY <1>1, <1>2 DEF Unanswered, Passive
  <1> QED
    BY <1>1, <1>2, <1>11, <1>12, <1>13, StepQ DEF e

(* onData up to the return of upstream.Write: what the destination still   *)
(* takes belongs to a request that is not answered.                        *)
LEMMA HandleDataQ ==
    ASSUME IInv, UInv, QInv, OneWriterAtATime, NEW t \in Tunnels, HandleData(t)
    PROVE  QInv' /\ StaysQuiet
  <1> DEFINE f == Head(upq[t])
             c == cur
             e == End(cs.upBuf)
             w == bs[c].upstreamWritten
             q == Fresh(f.off, f.data, w)
             got == srv[c].got
             h == [op |-> "onData", i |-> c, off |-> 0, written |-> 0,
                   data |-> q, close |-> FALSE]
  <1>1. Serve(t, "DATA") /\ UNCHANGED <<sidecarVars, downq, cur, bs, wake>> /\ c \in Dials
    BY BrokerFacts DEF HandleData, envVars
  <1>2. f.off \in Nat /\ f.data \in Seq(Byte) /\ (f.data # <<>> => f.off + Len(f.data) <= e)
        /\ e \in Nat /\ \A u \in Tunnels : Within(upq'[u], e) /\ Passive(pend[u])
    BY <1>1, ServeQ, QFacts
  <1>3. got \in Seq(Byte) /\ w \in Nat /\ Len(got) = w
    BY <1>1, <1>2, UpFacts DEF Counted, Passive
  <1>4. q \in Seq(Byte) /\ Len(q) \in Nat /\ (q # <<>> => w + Len(q) <= e /\ Len(q) > 0)
    <2> HIDE DEF f, w, e
    <2> QED
      BY <1>2, <1>3, FreshWithin
  <1>5. StaysQuiet
    BY <1>1 DEF StaysQuiet, Resting, Idle
  <1>6. CASE q = <<>>
    <2>1. srv' = srv /\ pend' = pend
      BY <1>6 DEF HandleData
    <2> QED
      BY <1>1, <1>2, <1>5, <2>1, QFacts, StepQ
  <1>7. CASE q # <<>>
    <2>1. srv' = [srv EXCEPT ![c].got = got \o q] /\ pend' = [pend EXCEPT ![t] = <<h>>]
      BY <1>7 DEF HandleData
    <2>2. srv \in [Dials -> ServerConnType] /\ pend \in [Tunnels -> Seq(Handler)]
          /\ bs \in [Dials -> SessionType]
      BY BrokerFacts
    <2>3. h.op = "onData" /\ h.i = c
      OBVIOUS
    <2>4. bs[c].downBuf.base < Rounds * RespLen
      <3>1. Len(got) # e
        <4> HIDE DEF w, e, q, got
        <4> QED
          BY <1>2, <1>3, <1>4, <1>7
      <3>2. bs[c].downBuf.base \in Nat /\ Rounds * RespLen \in Nat
        BY <1>1, <2>2, SupplyTypes, QFacts
      <3> QED
        BY <1>1, <3>1, <3>2, Answered
    <2> HIDE DEF f, q, h, got, w, c
    <2>5. Len(got \o q) = w + Len(q) /\ Len(got) <= Len(got \o q) /\ Len(got \o q) <= e
          /\ Len(got \o q) \in Nat
      <3>1. Len(got \o q) = Len(got) + Len(q)
        BY <1>3, <1>4
      <3> HIDE DEF e
      <3> QED
        BY <1>2, <1>3, <1>4, <1>7, <3>1
    <2>6. /\ \A i \in Dials : i # c => srv'[i] = srv[i]
          /\ srv'[c].got = got \o q /\ srv'[c].sent = srv[c].sent
      BY <1>1, <2>1, <2>2 DEF ServerConnType
    <2>7. SupplyOK(bs[c], srv'[c], e)
      <3>1. SupplyOK(bs[c], srv[c], e) /\ srv[c].sent \in Nat
        BY <1>1, <2>2, QFacts, SupplyTypes
      <3>2. Owed(Len(got)) \in Nat /\ Owed(Len(got)) <= Owed(Len(got \o q))
            /\ Owed(Len(got \o q)) \in Nat
        BY <1>3, <2>5, OwedMonotone
      <3>3. srv[c].sent <= Owed(Len(got))
        BY <3>1 DEF SupplyOK, got
      <3>4. srv[c].sent <= Owed(Len(got \o q))
        BY <3>1, <3>2, <3>3
      <3> QED
        BY <2>5, <2>6, <3>1, <3>4 DEF SupplyOK
    <2>8. \A i \in Dials : SupplyOK(bs'[i], srv'[i], e)
      BY <1>1, <2>6, <2>7, QFacts
    <2>9. \A u \in Tunnels : Unanswered(pend'[u], bs')
      <3>1. Unanswered(<<h>>, bs)
        BY <2>3, <2>4 DEF Unanswered, Writes
      <3> QED
        BY <1>1, <2>1, <2>2, <3>1, QFacts
    <2> QED
      BY <1>1, <1>2, <1>5, <2>8, <2>9, StepQ
  <1> QED
    BY <1>6, <1>7

(* ... and when the write fails.                                           *)
LEMMA HandleDataErrorQ ==
    ASSUME IInv, UInv, QInv, OneWriterAtATime, NEW t \in Tunnels, NEW ok \in BOOLEAN,
           HandleDataError(t, ok)
    PROVE  QInv' /\ StaysQuiet
  <1> DEFINE B == CloseUpstream(Broker, cur, ok)
  <1>1. Serve(t, "DATA") /\ UNCHANGED <<sidecarVars, pend, srv>> /\ Commit(B) /\ cur \in Dials
    BY BrokerFacts DEF HandleDataError
  <1>2. Calm(Broker, B)
    BY <1>1, BrokerFacts, CalmCloseUpstream
  <1> HIDE DEF B
  <1> QED
    BY <1>1, <1>2, ServeQ, CalmQ

(* onData after upstream.Write: it cannot be of an answered session.       *)
LEMMA FinishDataQ ==
    ASSUME IInv, UInv, QInv, NEW t \in Tunnels, NEW ok \in BOOLEAN, FinishData(t, ok)
    PROVE  QInv' /\ StaysQuiet
  <1> DEFINE h == pend[t][1]
             i == h.i
             w == bs[i].upstreamWritten + Len(h.data)
             s == [bs[i] EXCEPT !.upstreamWritten = w,
                                !.requestOutstanding = TRUE, !.watchdog = TRUE]
             B == [Broker EXCEPT !.s[i] = s]
             C == SendToSidecar(B, i, Ctl("ACK", w), ok)
  <1>1. h \in Handler /\ pend \in [Tunnels -> Seq(Handler)]
    BY BrokerFacts DEF FinishData
  <1>2. i \in Dials /\ h.data \in Seq(Byte) /\ Writes(pend[t], i)
    BY <1>1 DEF Handler, FinishData, Writes
  <1>3. bs[i] \in SessionType /\ bs \in [Dials -> SessionType] /\ Broker.s = bs
        /\ cs.downDelivered \in Nat /\ "ACK" \in FrameType
    BY <1>2, BrokerFacts DEF Broker, FrameType
  <1>4. w \in Nat
    BY <1>2, <1>3 DEF SessionType
  <1>5. Commit(C)
    <2>1. [Broker EXCEPT !.s[i].upstreamWritten = w,
                         !.s[i].requestOutstanding = TRUE, !.s[i].watchdog = TRUE] = B
      <3> HIDE DEF w, i
      <3>1. [bs EXCEPT ![i].upstreamWritten = w,
                       ![i].requestOutstanding = TRUE, ![i].watchdog = TRUE]
              = [bs EXCEPT ![i] = s]
        BY <1>2, <1>3 DEF SessionType
      <3> QED
        BY <1>3, <3>1 DEF Broker
    <2> QED
      BY <2>1 DEF FinishData
  <1>6. UNCHANGED <<sidecarVars, upq, srv>> /\ pend' = [pend EXCEPT ![t] = <<>>]
    BY DEF FinishData
  <1>7. ~Unflushed(bs[i])
    BY <1>2, UpFacts DEF Counted
  <1>8. bs[i].downBuf.base < Rounds * RespLen /\ bs[i].downBuf.base \in Nat
        /\ Rounds * RespLen \in Nat /\ SupplyOK(bs[i], srv[i], End(cs.upBuf))
    BY <1>2, <1>3, QFacts, SupplyTypes, BrokerFacts DEF Unanswered
  <1> HIDE DEF w
  <1>9. s \in SessionType /\ s.downBuf = bs[i].downBuf /\ s.dial = bs[i].dial
    BY <1>3, <1>4 DEF SessionType
  <1>10. B.s = [bs EXCEPT ![i] = s]
    BY <1>3 DEF Broker
  <1> HIDE DEF s, i, h
  <1>11. BrokerOK(B, cs.downDelivered)
    BY <1>2, <1>9, BrokerUpdateOK
  <1> HIDE DEF B
  <1>12. Calm(B, C)
    BY <1>2, <1>3, <1>4, <1>11, CalmSendCtl
  <1> HIDE DEF C
  <1>13. SupplyOK(s, srv[i], End(cs.upBuf))
    BY <1>7, <1>8, <1>9 DEF SupplyOK, Unflushed
  <1>14. \A j \in Dials : SupplyOK(B.s[j], srv'[j], End(cs.upBuf))
    BY <1>2, <1>3, <1>6, <1>10, <1>13, QFacts
  <1>15. \A j \in Dials : B.s[j].downBuf = bs[j].downBuf
    BY <1>2, <1>3, <1>9, <1>10
  <1>16. \A u \in Tunnels : Unanswered(pend'[u], B.s)
    BY <1>1, <1>6, <1>15, QFacts DEF Unanswered, Writes
  <1>17. ~Resting
    BY <1>2, <1>8 DEF Resting
  <1> QED
    BY <1>5, <1>6, <1>12, <1>14, <1>16, <1>17, QFacts, CommitQ

(* preConn is written: it cannot be of an answered session.                *)
LEMMA FlushPreQ ==
    ASSUME IInv, UInv, QInv, NEW i \in Dials, NEW ok \in BOOLEAN, FlushPre(i, ok)
    PROVE  QInv' /\ StaysQuiet
  <1> DEFINE pre == bs[i].preConn
             got == srv[i].got
             w == bs[i].upstreamWritten + Len(pre)
             z == <<>>
             s == [bs[i] EXCEPT !.upstreamWritten = w, !.preConn = z,
                                !.requestOutstanding = TRUE, !.dial = "reading"]
             B == [Broker EXCEPT !.s[i] = s]
             C == SendToSidecar(B, i, Ctl("ACK", w), ok)
             e == End(cs.upBuf)
  <1>1. bs[i] \in SessionType /\ bs \in [Dials -> SessionType] /\ Broker.s = bs
        /\ srv \in [Dials -> ServerConnType] /\ cs.downDelivered \in Nat /\ "ACK" \in FrameType
    BY BrokerFacts DEF Broker, FrameType
  <1>2. bs[i].upstreamWritten \in Nat /\ pre \in Seq(Byte) /\ z \in Seq(Byte)
        /\ Len(pre) \in Nat
    BY <1>1 DEF SessionType
  <1>3. Commit(C)
    <2>1. [Broker EXCEPT !.s[i].upstreamWritten = w, !.s[i].preConn = z,
                         !.s[i].requestOutstanding = TRUE, !.s[i].dial = "reading"] = B
      <3> HIDE DEF w, z
      <3>1. [bs EXCEPT ![i].upstreamWritten = w, ![i].preConn = z,
                       ![i].requestOutstanding = TRUE, ![i].dial = "reading"]
              = [bs EXCEPT ![i] = s]
        BY <1>1 DEF SessionType
      <3> QED
        BY <1>1, <3>1 DEF Broker
    <2> QED
      BY <2>1 DEF FlushPre
  <1>4. /\ UNCHANGED <<sidecarVars, pend, upq>> /\ bs[i].dial = "flushing"
        /\ srv' = [srv EXCEPT ![i].got = got \o pre]
    BY DEF FlushPre
  <1>5. Unflushed(bs[i]) /\ Counted(i) /\ got \in Seq(Byte) /\ SupplyOK(bs[i], srv[i], e)
        /\ e \in Nat
    BY <1>4, UpFacts, QFacts DEF Unflushed
  <1>6. Len(got) = bs[i].upstreamWritten
    BY <1>5 DEF Counted
  <1>7. w <= e /\ pre # <<>> /\ srv[i].sent <= Owed(Len(got)) /\ srv[i].sent \in Nat
        /\ End(bs[i].downBuf) <= srv[i].sent
    BY <1>1, <1>4, <1>5, SupplyTypes DEF SupplyOK
  <1>8. w = Len(got) + Len(pre)
    BY <1>6
  <1>9. w \in Nat /\ Len(got) < w /\ Len(got) \in Nat
    <2> HIDE DEF w, got, pre
    <2> QED
      BY <1>2, <1>5, <1>7, <1>8
  <1> HIDE DEF w
  <1>10. s \in SessionType
    <2> HIDE DEF z
    <2> QED
      BY <1>1, <1>2, <1>9 DEF SessionType
  <1>11. s.downBuf = bs[i].downBuf /\ s.dial = "reading"
    BY <1>1 DEF SessionType
  <1>12. B.s = [bs EXCEPT ![i] = s]
    BY <1>1 DEF Broker
  <1> HIDE DEF s
  <1>13. BrokerOK(B, cs.downDelivered)
    BY <1>10, <1>11, BrokerUpdateOK
  <1> HIDE DEF B
  <1>14. Calm(B, C)
    BY <1>1, <1>9, <1>13, CalmSendCtl
  <1> HIDE DEF C
  <1>15. Len(got \o pre) = w
    BY <1>2, <1>5, <1>8
  <1>16. ~Resting
    <2>1. Len(got) # e
      <3> HIDE DEF e, got
      <3> QED
        BY <1>5, <1>7, <1>9
    <2> QED
      BY <2>1, Answered DEF Resting
  <1> HIDE DEF pre
  <1>17. srv'[i].got = got \o pre /\ srv'[i].sent = srv[i].sent
         /\ \A j \in Dials : j # i => srv'[j] = srv[j]
    BY <1>1, <1>4 DEF ServerConnType
  <1> HIDE DEF got, e
  <1>18. Owed(Len(got)) \in Nat /\ Owed(w) \in Nat /\ Owed(Len(got)) <= Owed(w)
    BY <1>9, OwedMonotone
  <1>19. SupplyOK(s, srv'[i], e)
    <2>1. srv[i].sent <= Owed(w)
      BY <1>7, <1>18
    <2> QED
      BY <1>7, <1>11, <1>15, <1>17, <2>1 DEF SupplyOK, Unflushed
  <1>20. \A j \in Dials : SupplyOK(B.s[j], srv'[j], e)
    BY <1>1, <1>12, <1>17, <1>19, QFacts DEF e
  <1>21. \A j \in Dials : B.s[j].downBuf = bs[j].downBuf
    BY <1>1, <1>11, <1>12
  <1>22. \A u \in Tunnels : Unanswered(pend'[u], B.s)
    BY <1>4, <1>21, QFacts DEF Unanswered
  <1> QED
    BY <1>3, <1>4, <1>14, <1>16, <1>20, <1>22, QFacts, CommitQ DEF e

(* onDownstreamAck, and a frame for no session.                            *)
LEMMA HandleAckQ ==
    ASSUME IInv, UInv, QInv, OneWriterAtATime, NEW t \in Tunnels,
           HandleAck(t) \/ HandleUnknown(t)
    PROVE  QInv' /\ StaysQuiet
  <1>1. (\E type : Serve(t, type)) /\ UNCHANGED <<sidecarVars, pend, srv, wake>>
    BY DEF HandleAck, HandleUnknown, envVars, brokerVars
  <1>2. Head(upq[t]).off \in Nat
        /\ \A u \in Tunnels : Within(upq'[u], End(cs.upBuf)) /\ Passive(pend[u])
    BY <1>1, ServeQ
  <1>3. \A u \in Tunnels : Unanswered(pend'[u], bs')
    BY <1>1, <1>2 DEF Unanswered, Passive
  <1>4. CASE HandleUnknown(t)
    <2>1. bs' = bs
      BY <1>4 DEF HandleUnknown, brokerVars
    <2>2. StaysQuiet
      BY <1>1, <2>1 DEF StaysQuiet, Resting, Idle
    <2> QED
      BY <1>1, <1>2, <1>3, <2>1, <2>2, QFacts, StepQ
  <1>5. CASE HandleAck(t)
    <2> DEFINE b == TrimTo(bs[cur].downBuf, Head(upq[t]).off)
               r == bs[cur].requestOutstanding /\ BufLen(b) # 0
    <2>1. cur \in Dials /\ bs \in [Dials -> SessionType]
      BY <1>5, BrokerFacts DEF HandleAck
    <2>2. bs' = [bs EXCEPT ![cur].downBuf = b, ![cur].requestOutstanding = r]
      BY <1>5, <2>1 DEF HandleAck
    <2>3. bs[cur].downBuf \in ReplayBufferType
      BY <2>1 DEF SessionType
    <2>4. End(b) = End(bs[cur].downBuf)
      BY <1>2, <2>3, TrimEnd
    <2>5. r => bs[cur].requestOutstanding
      OBVIOUS
    <2> HIDE DEF b, r
    <2>6. /\ \A i \in Dials : i # cur => bs'[i] = bs[i]
          /\ bs'[cur].preConn = bs[cur].preConn /\ bs'[cur].dial = bs[cur].dial
          /\ bs'[cur].upstreamWritten = bs[cur].upstreamWritten
          /\ bs'[cur].downBuf = b /\ bs'[cur].requestOutstanding = r
      BY <2>1, <2>2 DEF SessionType
    <2>7. SupplyOK(bs'[cur], srv[cur], End(cs.upBuf))
      BY <2>1, <2>4, <2>6, QFacts DEF SupplyOK, Unflushed
    <2>8. \A i \in Dials : SupplyOK(bs'[i], srv'[i], End(cs.upBuf))
      BY <1>1, <2>6, <2>7, QFacts
    <2>9. StaysQuiet
      <3>1. ASSUME Resting, NEW i \in Dials
            PROVE  ~bs'[i].requestOutstanding
        BY <2>1, <2>5, <2>6, <3>1 DEF Resting
      <3> QED
        BY <1>1, <3>1 DEF StaysQuiet, Resting, Idle
    <2> QED
      BY <1>1, <1>2, <1>3, <2>8, <2>9, StepQ
  <1> QED
    BY <1>4, <1>5

(* onSidecarClose.                                                         *)
LEMMA HandleCloseQ ==
    ASSUME IInv, UInv, QInv, OneWriterAtATime, NEW t \in Tunnels, HandleClose(t)
    PROVE  QInv' /\ StaysQuiet
  <1> DEFINE C == [Broker EXCEPT !.s[cur].upClosed = TRUE]
             B == MaybeDestroy(C, cur)
  <1>1. Serve(t, "CLOSE") /\ UNCHANGED <<sidecarVars, pend>> /\ Commit(B)
    BY DEF HandleClose
  <1>2. cur \in Dials /\ srv \in [Dials -> ServerConnType] /\ cs.downDelivered \in Nat
        /\ Broker \in BrokerType
    BY BrokerFacts DEF HandleClose, BrokerOK
  <1>3. BrokerOK(C, cs.downDelivered) /\ Calm(Broker, C)
    BY <1>2, BrokerFacts, CloseFlagsOK, CalmFlags
  <1> HIDE DEF C
  <1>4. Calm(Broker, B)
    BY <1>2, <1>3, CalmDestroy, CalmTrans
  <1> HIDE DEF B
  <1>5. \A i \in Dials : srv'[i].got = srv[i].got /\ srv'[i].sent = srv[i].sent
    BY <1>2 DEF HandleClose, ServerConnType
  <1> QED
    BY <1>1, <1>4, <1>5, ServeQ, CalmQ

(* serveTunnel returns.                                                    *)
LEMMA TunnelEndQ ==
    ASSUME IInv, QInv, NEW t \in Tunnels, TunnelEnd(t)
    PROVE  QInv' /\ StaysQuiet
  <1> DEFINE B == DetachAll(Broker, t)
  <1>1. UNCHANGED <<sidecarVars, pend, srv>> /\ Commit(B) /\ upq' = [upq EXCEPT ![t] = <<>>]
    BY DEF TunnelEnd
  <1>2. \A u \in Tunnels : Within(upq'[u], End(cs.upBuf))
    BY <1>1, SidecarFacts, QFacts, WithinOne
  <1>3. Calm(Broker, B)
    BY BrokerFacts, CalmDetachAll
  <1> HIDE DEF B
  <1> QED
    BY <1>1, <1>2, <1>3, CalmQ

(* dialUpstream connected.                                                 *)
LEMMA DialOKQ ==
    ASSUME IInv, QInv, NEW i \in Dials, DialOK(i)
    PROVE  QInv' /\ StaysQuiet
  <1> DEFINE v == IF bs[i].preConn = <<>> THEN "reading" ELSE "flushing"
  <1>1. UNCHANGED <<sidecarVars, upq, pend, srv, wake>> /\ bs[i].dial = "dialing"
        /\ bs' = [bs EXCEPT ![i].dial = v, ![i].watchdog = TRUE]
        /\ bs \in [Dials -> SessionType]
    BY BrokerFacts DEF DialOK, envVars
  <1>2. v \in {"reading", "flushing"} /\ (v = "flushing" => bs[i].preConn # <<>>)
    OBVIOUS
  <1> HIDE DEF v
  <1>3. /\ \A j \in Dials : j # i => bs'[j] = bs[j]
        /\ bs'[i].dial = v /\ bs'[i].preConn = bs[i].preConn
        /\ bs'[i].upstreamWritten = bs[i].upstreamWritten
        /\ \A j \in Dials : /\ bs'[j].downBuf = bs[j].downBuf
                            /\ bs'[j].requestOutstanding = bs[j].requestOutstanding
    BY <1>1 DEF SessionType
  <1>4. SupplyOK(bs'[i], srv[i], End(cs.upBuf))
    BY <1>1, <1>2, <1>3, QFacts DEF SupplyOK, Unflushed
  <1>5. \A j \in Dials : SupplyOK(bs'[j], srv'[j], End(cs.upBuf))
    BY <1>1, <1>3, <1>4, QFacts
  <1>6. \A u \in Tunnels : Unanswered(pend'[u], bs')
    BY <1>1, <1>3, QFacts DEF Unanswered
  <1>7. StaysQuiet
    BY <1>1, <1>3 DEF StaysQuiet, Resting, Idle
  <1> QED
    BY <1>1, <1>5, <1>6, <1>7, QFacts, StepQ

(* The dial goroutine of session i ends.                                   *)
LEMMA DialDoneQ ==
    ASSUME IInv, QInv, NEW i \in Dials
    PROVE  LET B == [Broker EXCEPT !.s[i].dial = "done"]
           IN  /\ \A j \in Dials : SupplyOK(B.s[j], srv[j], End(cs.upBuf))
               /\ \A t \in Tunnels : Unanswered(pend[t], B.s)
               /\ Resting => Idle(B.s) /\ ~B.w
               /\ BrokerOK(B, cs.downDelivered)
  <1> DEFINE B == [Broker EXCEPT !.s[i].dial = "done"]
  <1>1. bs \in [Dials -> SessionType] /\ B.s = [bs EXCEPT ![i].dial = "done"] /\ B.w = wake
    BY BrokerFacts DEF Broker
  <1>2. BrokerOK(B, cs.downDelivered)
    BY DialMoves
  <1> HIDE DEF B
  <1>3. /\ \A j \in Dials : j # i => B.s[j] = bs[j]
        /\ B.s[i].dial = "done"
        /\ \A j \in Dials : /\ B.s[j].downBuf = bs[j].downBuf
                            /\ B.s[j].requestOutstanding = bs[j].requestOutstanding
    BY <1>1 DEF SessionType
  <1>4. SupplyOK(B.s[i], srv[i], End(cs.upBuf))
    BY <1>3, QFacts DEF SupplyOK, Unflushed
  <1>5. \A j \in Dials : SupplyOK(B.s[j], srv[j], End(cs.upBuf))
    BY <1>3, <1>4, QFacts
  <1>6. \A t \in Tunnels : Unanswered(pend[t], B.s)
    BY <1>3, QFacts DEF Unanswered
  <1>7. Resting => Idle(B.s) /\ ~B.w
    BY <1>1, <1>3 DEF Resting, Idle
  <1> QED
    BY <1>2, <1>5, <1>6, <1>7 DEF B

(* The dial failed, the write of preConn failed, or readUpstreamLoop read  *)
(* EOF.                                                                    *)
LEMMA UpstreamDoneQ ==
    ASSUME IInv, QInv, NEW i \in Dials, NEW ok \in BOOLEAN,
           DialFail(i, ok) \/ FlushError(i, ok) \/ ReadEOF(i, ok)
    PROVE  QInv' /\ StaysQuiet
  <1> DEFINE d == cs.downDelivered
             B == [Broker EXCEPT !.s[i].dial = "done"]
             C == SendToSidecar(B, i, Ctl("LOST", 0), ok)
  <1>1. UNCHANGED <<sidecarVars, upq, pend, srv>>
        /\ (Commit(Destroy(C, i)) \/ Commit(CloseUpstream(B, i, ok)))
    BY DEF DialFail, FlushError, ReadEOF
  <1>2. /\ \A j \in Dials : SupplyOK(B.s[j], srv[j], End(cs.upBuf))
        /\ \A t \in Tunnels : Unanswered(pend[t], B.s)
        /\ Resting => Idle(B.s) /\ ~B.w
        /\ BrokerOK(B, d)
    BY DialDoneQ
  <1>3. d \in Nat /\ "LOST" \in FrameType
    BY BrokerFacts DEF FrameType
  <1> HIDE DEF B, d
  <1>4. BrokerOK(C, d) /\ Calm(B, C)
    BY <1>2, <1>3, CalmSendCtl
  <1> HIDE DEF C
  <1>5. Calm(B, Destroy(C, i)) /\ Calm(B, CloseUpstream(B, i, ok))
    BY <1>2, <1>3, <1>4, CalmDestroy, CalmTrans, CalmCloseUpstream
  <1>6. ASSUME NEW D, Calm(B, D), Commit(D)
        PROVE  QInv' /\ StaysQuiet
    BY <1>1, <1>2, <1>6, QFacts, CommitQ
  <1> QED
    BY <1>1, <1>5, <1>6

(* The least of three numbers is at most each of them.                     *)
LEMMA LeastAtMost ==
    ASSUME NEW a \in Int, NEW b \in Int, NEW c \in Int
    PROVE  Least({a, b, c}) \in Int /\ Least({a, b, c}) <= a
  <1>1. \E m \in {a, b, c} : \A k \in {a, b, c} : m <= k
    <2>1. CASE a <= b /\ a <= c
      BY <2>1
    <2>2. CASE b <= a /\ b <= c
      BY <2>2
    <2>3. CASE c <= a /\ c <= b
      BY <2>3
    <2> QED
      BY <2>1, <2>2, <2>3
  <1> QED
    BY <1>1 DEF Least

(* produceDownstream: it reads what the destination sent, and wakes the    *)
(* actor for an outstanding request only.                                  *)
LEMMA ProduceQ ==
    ASSUME IInv, QInv, NEW i \in Dials, NEW ok \in BOOLEAN, Produce(i, ok)
    PROVE  QInv' /\ StaysQuiet
  <1> DEFINE b   == bs[i].downBuf
             off == End(b)
             n   == Least({srv[i].sent - off, ReadMax, Free(b, DownCap)})
             p   == ServerBytes(i, off, n)
             u   == IF ok THEN bs[i].tconn ELSE 0
             c   == AppendTo(b, p)
  <1>1. bs[i] \in SessionType /\ bs \in [Dials -> SessionType] /\ srv[i] \in ServerConnType
    BY BrokerFacts
  <1>2. b \in ReplayBufferType /\ srv[i].sent \in Nat /\ off \in Nat
    BY <1>1, SupplyTypes
  <1>3. srv[i].sent - off \in Int /\ ReadMax \in Int /\ Free(b, DownCap) \in Int
    <2>1. ReadMax \in Nat /\ DownCap \in Nat /\ b.buf \in Seq(Byte)
      BY <1>2, LengthsAssumption DEF ReplayBufferType
    <2> HIDE DEF b, off
    <2> QED
      BY <1>2, <2>1 DEF Free, BufLen
  <1>4. n > 0 /\ n \in Int /\ n <= srv[i].sent - off
    BY <1>3, LeastAtMost DEF Produce
  <1>5. n \in Nat
    <2> HIDE DEF n
    <2> QED
      BY <1>4
  <1>6. p \in Seq(Byte) /\ Len(p) = n
    <2> HIDE DEF n, off
    <2>1. p \in Seq(Byte) /\ p = [k \in 1 .. n |-> <<i, off + k>>]
      BY <1>2, <1>5, ServerBytesOK DEF ServerBytes
    <2> HIDE DEF p
    <2> QED
      BY <1>5, <2>1
  <1>7. c = [base |-> b.base, buf |-> b.buf \o p]
    <2> HIDE DEF p, b
    <2> QED
      BY <1>2, <1>6, AppendToIs
  <1>8. bs' = [bs EXCEPT ![i].downBuf = c, ![i].tconn = u]
        /\ (wake' => wake \/ bs[i].requestOutstanding)
        /\ UNCHANGED <<sidecarVars, upq, pend, srv>>
    BY <1>1 DEF Produce, Commit, Wake, Broker
  <1>9. c.base = b.base /\ End(c) <= srv[i].sent
    <2> HIDE DEF p, n, off, c
    <2>1. c.base = b.base /\ c.buf = b.buf \o p
      BY <1>7
    <2>2. b.base \in Nat /\ b.buf \in Seq(Byte) /\ off = b.base + Len(b.buf)
      BY <1>2 DEF ReplayBufferType, off, End, BufLen
    <2> HIDE DEF b
    <2>3. Len(b.buf \o p) = Len(b.buf) + n /\ Len(b.buf) \in Nat
      BY <1>6, <2>2
    <2>4. End(c) = off + n
      BY <1>2, <1>5, <2>1, <2>2, <2>3 DEF End, BufLen
    <2> QED
      BY <1>2, <1>4, <1>5, <2>1, <2>4
  <1> HIDE DEF c, u, n, p
  <1>10. /\ \A j \in Dials : j # i => bs'[j] = bs[j]
         /\ bs'[i].dial = bs[i].dial /\ bs'[i].preConn = bs[i].preConn
         /\ bs'[i].upstreamWritten = bs[i].upstreamWritten /\ bs'[i].downBuf = c
         /\ \A j \in Dials : bs'[j].requestOutstanding = bs[j].requestOutstanding
    BY <1>1, <1>8 DEF SessionType
  <1>11. SupplyOK(bs'[i], srv[i], End(cs.upBuf))
    BY <1>9, <1>10, QFacts DEF SupplyOK, Unflushed
  <1>12. \A j \in Dials : SupplyOK(bs'[j], srv'[j], End(cs.upBuf))
    BY <1>8, <1>10, <1>11, QFacts
  <1>13. \A t \in Tunnels : Unanswered(pend'[t], bs')
    <2>1. \A j \in Dials : bs'[j].downBuf.base = bs[j].downBuf.base
      BY <1>9, <1>10
    <2> QED
      BY <1>8, <2>1, QFacts DEF Unanswered
  <1>14. StaysQuiet
    BY <1>8, <1>10 DEF StaysQuiet, Resting, Idle
  <1> QED
    BY <1>8, <1>12, <1>13, <1>14, QFacts, StepQ

(* The watchdog, and the destination's own steps: it sends what it owes.   *)
LEMMA OtherQ ==
    ASSUME IInv, QInv, NEW i \in Dials, WatchdogFire(i) \/ ServerSend(i) \/ ServerClose(i)
    PROVE  QInv' /\ StaysQuiet
  <1>1. UNCHANGED <<sidecarVars, upq, pend>> /\ (wake' => wake \/ bs[i].requestOutstanding)
    <2>1. CASE WatchdogFire(i)
      BY <2>1, Zenon DEF WatchdogFire
    <2>2. CASE ServerSend(i) \/ ServerClose(i)
      <3>1. UNCHANGED <<sidecarVars, upq, pend, envVars>>
        BY <2>2 DEF ServerSend, ServerClose
      <3> QED
        BY <3>1 DEF envVars
    <2> QED
      BY <2>1, <2>2
  <1>2. bs \in [Dials -> SessionType] /\ srv \in [Dials -> ServerConnType]
    BY BrokerFacts
  <1>3. \A j \in Dials : SameSupply(bs[j], bs'[j])
    <2>1. CASE bs' = bs
      BY <2>1 DEF SameSupply
    <2>2. CASE bs' = [bs EXCEPT ![i].watchdog = FALSE]
      BY <1>2, <2>2 DEF SessionType, SameSupply
    <2> QED
      BY <2>1, <2>2 DEF WatchdogFire, ServerSend, ServerClose
  <1>4. \A j \in Dials : SupplyOK(bs[j], srv'[j], End(cs.upBuf))
    <2>1. CASE srv' = srv
      BY <2>1, QFacts
    <2>2. CASE srv' = [srv EXCEPT ![i].fin = TRUE]
      <3>1. \A j \in Dials : srv'[j].got = srv[j].got /\ srv'[j].sent = srv[j].sent
        BY <1>2, <2>2 DEF ServerConnType
      <3> QED
        BY <3>1, QFacts DEF SupplyOK
    <2>3. CASE ServerSend(i)
      <3> DEFINE m == srv[i].sent
                 g == Len(srv[i].got)
      <3>1. srv' = [srv EXCEPT ![i].sent = m + 1] /\ ServerOwes(i) > 0
        BY <2>3 DEF ServerSend
      <3>2. ServerOwes(i) = Owed(g) - m
        BY DEF ServerOwes, Owed
      <3>3. g \in Nat /\ m \in Nat /\ bs[i] \in SessionType /\ End(bs[i].downBuf) \in Nat
        BY <1>2, SupplyTypes
      <3>4. SupplyOK(bs[i], srv[i], End(cs.upBuf))
        BY QFacts
      <3>5. /\ \A j \in Dials : j # i => srv'[j] = srv[j]
            /\ srv'[i].got = srv[i].got /\ srv'[i].sent = m + 1
        BY <1>2, <3>1 DEF ServerConnType
      <3>6. Owed(g) \in Nat
        BY <3>3, OwedMonotone
      <3>7. m + 1 <= Owed(g) /\ End(bs[i].downBuf) <= m
        <4>1. End(bs[i].downBuf) <= m
          BY <3>4 DEF SupplyOK
        <4> HIDE DEF m, g
        <4> QED
          BY <3>1, <3>2, <3>3, <3>6, <4>1
      <3>8. SupplyOK(bs[i], srv'[i], End(cs.upBuf))
        <4>1. End(bs[i].downBuf) <= m + 1
          <5> HIDE DEF m
          <5> QED
            BY <3>3, <3>7
        <4> QED
          BY <3>4, <3>5, <3>7, <4>1 DEF SupplyOK
      <3> QED
        BY <3>5, <3>8, QFacts
    <2> QED
      BY <2>1, <2>2, <2>3 DEF WatchdogFire, ServerClose
  <1>5. \A j \in Dials : SupplyOK(bs'[j], srv'[j], End(cs.upBuf))
    BY <1>3, <1>4 DEF SupplyOK, SameSupply, Unflushed
  <1>6. \A u \in Tunnels : Unanswered(pend'[u], bs')
    BY <1>1, <1>3, QFacts DEF Unanswered, SameSupply
  <1>7. StaysQuiet
    BY <1>1, <1>3 DEF StaysQuiet, Resting, Idle, SameSupply
  <1> QED
    BY <1>1, <1>5, <1>6, <1>7, QFacts, StepQ

-----------------------------------------------------------------------------
(* The invariant.                                                          *)

(* Nothing is written, queued or owed at first.                            *)
LEMMA InitQInv ==
    ASSUME Init
    PROVE  QInv
  <1>1. /\ \A i \in Dials : bs[i] = NewSession(0) /\ srv[i] = NewServerConn
        /\ cs = NewClientSession /\ wout = <<>> /\ rout = <<>>
        /\ \A t \in Tunnels : upq[t] = <<>> /\ pend[t] = <<>>
    BY DEF Init
  <1>2. /\ NewSession(0).dial = "none" /\ NewSession(0).preConn = <<>>
        /\ NewSession(0).upstreamWritten = 0 /\ End(NewSession(0).downBuf) = 0
        /\ NewServerConn.got = <<>> /\ NewServerConn.sent = 0
        /\ End(NewClientSession.upBuf) = 0
    BY DEF NewSession, NewServerConn, NewClientSession, NewReplayBuffer, End, BufLen
  <1>3. Rounds * ReqLen \in Nat /\ Owed(0) \in Nat
    BY LengthsAssumption, TimesMono, OwedMonotone
  <1>4. Within(<<>>, 0)
    BY DEF Within
  <1>5. ASSUME NEW i \in Dials
        PROVE  SupplyOK(bs[i], srv[i], 0)
    <2>1. /\ Len(srv[i].got) = 0 /\ srv[i].sent = 0 /\ End(bs[i].downBuf) = 0
          /\ bs[i].dial = "none" /\ bs[i].upstreamWritten = 0 /\ Len(bs[i].preConn) = 0
      BY <1>1, <1>2
    <2> QED
      BY <1>3, <2>1 DEF SupplyOK
  <1>6. \A t \in Tunnels : Unanswered(pend[t], bs)
    BY <1>1 DEF Unanswered, Writes
  <1> QED
    BY <1>1, <1>2, <1>3, <1>4, <1>5, <1>6 DEF QInv

(* A step of a tunnel's frame loop.                                        *)
LEMMA ServeTunnelQ ==
    ASSUME IInv, UInv, QInv, OneWriterAtATime, NEW t \in Tunnels, ServeTunnel(t)
    PROVE  QInv' /\ StaysQuiet
  BY HandleAttachQ, FinishAttachQ, HandleDataEarlyQ, HandleDataQ, HandleDataErrorQ,
     FinishDataQ, HandleAckQ, HandleCloseQ, TunnelEndQ DEF ServeTunnel

(* A step of a session's own goroutine or timer, or of its destination.    *)
LEMMA UpstreamQ ==
    ASSUME IInv, UInv, QInv, NEW i \in Dials,
           Upstream(i) \/ WatchdogFire(i) \/ ServerSend(i) \/ ServerClose(i)
    PROVE  QInv' /\ StaysQuiet
  BY DialOKQ, FlushPreQ, UpstreamDoneQ, ProduceQ, OtherQ DEF Upstream

(* A step that is not the broker's leaves its sessions and the wake-up.    *)
LEMMA ElsewhereQuiet ==
    ASSUME ProxyPump \/ ProxyClose \/ ClientRun \/ UNCHANGED vars
           \/ ResumeActor \/ ResumeElsewhere \/ Suspend \/ Break
    PROVE  StaysQuiet
  <1>1. bs' = bs /\ (wake' = wake \/ wake' = FALSE)
    <2>1. CASE ProxyPump \/ ProxyClose
      BY <2>1 DEF ProxyPump, ProxyClose, SendOpen, WriteUpSend, OpenSession, WriteUp, CloseUp,
         envVars, brokerVars
    <2>2. CASE ClientRun
      BY <2>2 DEF ClientRun, Reattach, ReadLoopSend, Connect, RecvAck, RecvAttachOK, RecvClose,
         Disconnect, RecvData, envVars, brokerVars
    <2>3. CASE ResumeActor \/ ResumeElsewhere \/ Suspend \/ Break
      BY <2>3 DEF ResumeActor, ResumeElsewhere, Suspend, Break, brokerVars
    <2>4. CASE UNCHANGED vars
      BY <2>4 DEF vars, envVars, brokerVars
    <2> QED
      BY <2>1, <2>2, <2>3, <2>4
  <1> QED
    BY <1>1 DEF StaysQuiet, Resting, Idle

(* Every step keeps QInv, and leaves answered sessions quiet.              *)
LEMMA NextQInv ==
    ASSUME IInv, IInv', UInv, QInv, OneWriterAtATime, [Next]_vars
    PROVE  QInv' /\ StaysQuiet
  <1>1. CASE ProxyPump \/ ProxyClose
    BY <1>1, OpenQ, WriteUpQ, SendStepQ, ElsewhereQuiet DEF ProxyPump, ProxyClose
  <1>2. CASE ClientRun
    BY <1>2, SendStepQ, ConnectQ, RecvQ, ElsewhereQuiet DEF ClientRun
  <1>3. CASE ResumeActor \/ ResumeElsewhere \/ Suspend \/ Break
    BY <1>3, PlatformQ, ElsewhereQuiet
  <1>4. CASE UNCHANGED vars
    <2>1. UNCHANGED <<cs, wout, rout, upq, brokerVars>>
      BY <1>4 DEF vars, sidecarVars
    <2> QED
      BY <1>4, <2>1, QFacts, SameEndQ, ElsewhereQuiet
  <1> QED
    BY <1>1, <1>2, <1>3, <1>4, ServeTunnelQ, UpstreamQ DEF Next

(* QInv is an invariant, if a session has one writer at a time.            *)
THEOREM SupplyInvariance ==
    ASSUME OneWriterAtATime
    PROVE  Spec => [](IInv /\ UInv /\ QInv)
  <1>1. Init => IInv /\ UInv /\ QInv
    BY InitIInv, InitUInv, InitQInv
  <1>2. IInv /\ UInv /\ QInv /\ [Next]_vars => (IInv /\ UInv /\ QInv)'
    BY NextIInv, NextUInv, NextQInv
  <1> QED
    BY <1>1, <1>2, PTL DEF Spec

(* QuiescentNoWake: once the broker has the agent's acknowledgement of     *)
(* every response, no step of it wakes the actor or makes a request        *)
(* outstanding again: not detach or closeUpstream with housekeeping bytes  *)
(* or the destination's close in hand, not produceDownstream, not the      *)
(* watchdog, and not a replayed DATA frame (onData), of which nothing is   *)
(* left to write.                                                          *)
THEOREM AnsweredStaysQuiet ==
    ASSUME OneWriterAtATime, MaxDials = 1
    PROVE  Spec => QuiescentNoWake
  <1>1. IInv /\ UInv /\ QInv /\ (IInv /\ UInv /\ QInv)' /\ [Next]_vars
        => [Quiescent /\ ~wake => ~wake' /\ ~bs'[cur].requestOutstanding]_vars
    <2> SUFFICES ASSUME IInv, IInv', UInv, QInv, [Next]_vars, Quiescent, ~wake
                 PROVE  ~wake' /\ ~bs'[cur].requestOutstanding
      OBVIOUS
    <2>1. cur \in Dials /\ Dials = {cur}
      BY BrokerFacts DEF Quiescent, Dials
    <2>2. Resting
      BY <2>1 DEF Resting, Quiescent
    <2>3. StaysQuiet
      BY NextQInv
    <2> QED
      BY <2>1, <2>2, <2>3 DEF StaysQuiet, Idle
  <1> QED
    BY <1>1, SupplyInvariance, PTL DEF Spec, QuiescentNoWake

-----------------------------------------------------------------------------
(* The session implements the byte pipes of BytePipe, for a connection     *)
(* that is dialed once, and an agent that does not close before it has its *)
(* responses.                                                              *)
Orderly ==
    /\ OneWriterAtATime /\ "onAttach" \notin Preempt
    /\ DialFails = FALSE /\ AgentCloses = FALSE /\ MaxDials = 1

(* Bytes of the destination's, and frames, queued or in a handler, that    *)
(* carry only such and none beyond the first e of them.                    *)
Ours(p)       == \A k \in 1 .. Len(p) : p[k][1] = 1
Upto(f)       == f.off + Len(f.data)
FrameIn(f, e) == Ours(f.data) /\ (f.data # <<>> => Upto(f) <= e)

(* Only DATA frames carry bytes, and a CLOSE is sent when there is an end. *)
Closing(f)      == f.type \in {"CLOSE", "LOST"}
Kind(f, fin)    == (f.data # <<>> => f.type = "DATA") /\ (Closing(f) => fin)
Tidy(q, e, fin) == \A k \in 1 .. Len(q) : FrameIn(q[k], e) /\ Kind(q[k], fin)

(* An agent that has d bytes has e of them once it has read the first n    *)
(* frames of q, provided there is no gap: every DATA frame of q begins     *)
(* where the agent is by then, at the latest, and a CLOSE comes when it    *)
(* has all of m bytes.                                                     *)
Reach(q, n, d, e) == e <= d \/ \E j \in 1 .. n : q[j].data # <<>> /\ e <= Upto(q[j])
Flow(q, d, m) ==
    \A k \in 1 .. Len(q) : /\ q[k].data # <<>> => Reach(q, k - 1, d, q[k].off)
                           /\ Closing(q[k]) => Reach(q, k - 1, d, m)

(* The frame loop that is inside onSidecarAttach, and the frames that lead *)
(* there.                                                                  *)
Attaching(h) == h # <<>> /\ h[1].op = "onAttach"
Attaches(f)  == f.type \in {"OPEN", "ATTACH"}

(* The sidecar reads for the agent; the broker sends to where it reads.    *)
Live       == conn # 0 /\ cs.st # "gone"
Reading(s) == conn # 0 /\ s.tconn = conn /\ link[conn] = "up"

Sound(B) ==
    /\ \A t \in Tunnels : Tidy(B.q[t], End(B.s[1].downBuf), srv[1].fin)
    /\ Live => Flow(B.q[conn], cs.downDelivered, srv[1].sent)

Caught(B) ==
    Live /\ Reading(B.s[1])
        => Reach(B.q[conn], Len(B.q[conn]), cs.downDelivered, End(B.s[1].downBuf))

(* A replay not sent yet goes up to what is buffered, if it will be read.  *)
Resends(h, s) ==
    /\ FrameIn(h, End(s.downBuf)) /\ (h.close => s.downClosed)
    /\ Reading(s) => h.off <= cs.downDelivered /\ Upto(h) = End(s.downBuf)

Downstream ==
    /\ Ours(bs[1].downBuf.buf) /\ Ours(agentGot) /\ cs.downDelivered <= End(bs[1].downBuf)
    /\ Sound(Broker)
    /\ (\A t \in Tunnels : ~Attaching(pend[t])) => Caught(Broker)
    /\ \A t \in Tunnels : Attaching(pend[t]) => Resends(pend[t][1], bs[1])

(* The end of session s, c being the destination's end of it and u the     *)
(* entry of the broker's table.                                            *)
Ending(s, c, u) ==
    /\ s.downClosed => c.fin /\ End(s.downBuf) = c.sent
    /\ s.dial # "none" /\ u = 0 => s.downClosed /\ BufLen(s.downBuf) = 0
    /\ Unflushed(s) => c.sent = 0 /\ ~c.fin
    /\ s.tconn # 0 => link[s.tconn] # "ended"

(* What an ATTACH (or OPEN) on its way asks for is still retained, and no  *)
(* ACK that is served before it will change that.  A tunnel that ended     *)
(* carries nothing; one that is up is the sidecar's.                       *)
AcksUpto(q, n, a) == \A j \in 1 .. n : q[j].type = "ACK" => q[j].off <= a

Asks(U, t, d, b) ==
    \A k \in 1 .. Len(U[t]) : Attaches(U[t][k]) =>
        /\ b <= U[t][k].off /\ U[t][k].off <= d /\ (U[t][k].type = "OPEN" => U[t][k].off = 0)
        /\ AcksUpto(U[t], k, U[t][k].off)
        /\ \A u \in Tunnels : u # t => AcksUpto(U[u], Len(U[u]), U[t][k].off)

Asked ==
    /\ conn # 0 => Asks(upq, conn, cs.downDelivered, bs[1].downBuf.base)
    /\ \A k \in 1 .. Len(wout) : ~Attaches(wout[k])
    /\ \A k \in 1 .. Len(rout) : ~Attaches(rout[k])
    /\ \A t \in Tunnels : (link[t] = "ended" => upq[t] = <<>>) /\ (link[t] = "up" => conn = t)

(* The agent is at most one request ahead of its responses.                *)
Paced ==
    /\ End(cs.upBuf) <= (Responses + 1) * ReqLen
    /\ cs.st \in {"none", "opening"} => End(cs.upBuf) = 0

(* The sending half of the upstream connection is shut for a CLOSE of the  *)
(* sidecar's, and the agent's side has come to an end only when it has     *)
(* every response or the destination closed.                               *)
Shut(q)   == \E k \in 1 .. Len(q) : q[k].type = "CLOSE"
Satisfied == srv[1].fin \/ Rounds * RespLen <= cs.downDelivered

HalfClosed ==
    /\ (srv[1].eof \/ \E t \in Tunnels : Shut(upq[t])) => cs.upClosed
    /\ ~Shut(wout) /\ ~Shut(rout)
    /\ (cs.upClosed \/ cs.downClosed \/ cs.st = "gone" \/ ~agentOpen) => Satisfied

DInv == Downstream /\ Ending(bs[1], srv[1], cur) /\ Asked /\ Paced /\ HalfClosed

-----------------------------------------------------------------------------
(* Queues of frames for the agent.                                         *)

(* The types of what Reach compares.                                       *)
LEMMA UptoNat ==
    ASSUME NEW f \in Frame
    PROVE  Upto(f) \in Nat /\ f.off \in Nat /\ f.data \in Seq(Byte) /\ f.off <= Upto(f)
  BY DEF Upto, Frame

(* The agent got further, or more frames follow.                           *)
LEMMA ReachMore ==
    ASSUME NEW q, NEW m \in Nat, NEW n \in Nat, m <= n, NEW c \in Nat, NEW d \in Nat, c <= d,
           NEW e \in Nat, Reach(q, m, c, e)
    PROVE  Reach(q, n, d, e)
  BY DEF Reach

(* A byte before one that is reached.                                      *)
LEMMA ReachLess ==
    ASSUME NEW q \in Seq(Frame), NEW n \in 0 .. Len(q), NEW d \in Nat, NEW e \in Nat,
           NEW c \in Nat, c <= e, Reach(q, n, d, e)
    PROVE  Reach(q, n, d, c)
  <1>1. CASE e <= d
    BY <1>1 DEF Reach
  <1>2. ASSUME NEW j \in 1 .. n, q[j].data # <<>>, e <= Upto(q[j])
        PROVE  Reach(q, n, d, c)
    <2>1. q[j] \in Frame
      OBVIOUS
    <2>2. Upto(q[j]) \in Nat
      BY <2>1, UptoNat
    <2>3. c <= Upto(q[j])
      BY <1>2, <2>2
    <2> QED
      BY <1>2, <2>3 DEF Reach
  <1> QED
    BY <1>1, <1>2 DEF Reach

(* The frames that Reach looks at are the same.                            *)
LEMMA ReachSame ==
    ASSUME NEW q, NEW r, NEW n \in Nat, \A j \in 1 .. n : r[j] = q[j], NEW d, NEW e,
           Reach(q, n, d, e)
    PROVE  Reach(r, n, d, e)
  BY DEF Reach

(* The agent has read the first frame.                                     *)
LEMMA ReachTail ==
    ASSUME NEW q \in Seq(Frame), q # <<>>, NEW n \in 1 .. Len(q),
           NEW c \in Nat, NEW d \in Nat, c <= d, q[1].data # <<>> => Upto(q[1]) <= d,
           NEW e \in Nat, Reach(q, n, c, e)
    PROVE  Reach(Tail(q), n - 1, d, e)
  <1> DEFINE r == Tail(q)
  <1>1. \A j \in 1 .. Len(q) : q[j] \in Frame
    OBVIOUS
  <1>2. CASE e <= c
    BY <1>2 DEF Reach
  <1>3. ASSUME NEW j \in 1 .. n, q[j].data # <<>>, e <= Upto(q[j])
        PROVE  Reach(r, n - 1, d, e)
    <2>1. CASE j = 1
      <3>1. Upto(q[1]) \in Nat
        BY <1>1, UptoNat
      <3>2. e <= d
        BY <1>3, <2>1, <3>1
      <3> QED
        BY <3>2 DEF Reach
    <2>2. CASE j # 1
      <3>1. j - 1 \in 1 .. n - 1 /\ r[j - 1] = q[j]
        BY <2>2
      <3> HIDE DEF r
      <3> QED
        BY <1>3, <3>1 DEF Reach
    <2> QED
      BY <2>1, <2>2
  <1> QED
    BY <1>2, <1>3 DEF Reach

(* ... and goes on with the others.                                        *)
LEMMA FlowTail ==
    ASSUME NEW q \in Seq(Frame), q # <<>>, NEW c \in Nat, NEW d \in Nat, c <= d,
           q[1].data # <<>> => Upto(q[1]) <= d, NEW m \in Nat, Flow(q, c, m)
    PROVE  Flow(Tail(q), d, m)
  <1> SUFFICES ASSUME NEW k \in 1 .. Len(Tail(q))
               PROVE  /\ Tail(q)[k].data # <<>> => Reach(Tail(q), k - 1, d, Tail(q)[k].off)
                      /\ Closing(Tail(q)[k]) => Reach(Tail(q), k - 1, d, m)
    BY DEF Flow
  <1>1. k + 1 \in 1 .. Len(q) /\ Tail(q)[k] = q[k + 1] /\ k \in 1 .. Len(q)
    OBVIOUS
  <1>2. q[k + 1] \in Frame /\ (k + 1) - 1 = k
    BY <1>1
  <1>3. q[k + 1].off \in Nat
    BY <1>2, UptoNat
  <1>4. q[k + 1].data # <<>> => Reach(q, k, c, q[k + 1].off)
    BY <1>1, <1>2 DEF Flow
  <1>5. Closing(q[k + 1]) => Reach(q, k, c, m)
    BY <1>1, <1>2 DEF Flow
  <1> QED
    BY <1>1, <1>3, <1>4, <1>5, ReachTail

(* A prefix arrived.                                                       *)
LEMMA FlowPrefix ==
    ASSUME NEW q \in Seq(Frame), NEW n \in 0 .. Len(q), NEW d, NEW m, Flow(q, d, m)
    PROVE  Flow(SubSeq(q, 1, n), d, m)
  <1> DEFINE r == SubSeq(q, 1, n)
  <1>1. Len(r) = n /\ \A j \in 1 .. n : r[j] = q[j] /\ j \in 1 .. Len(q)
    OBVIOUS
  <1> HIDE DEF r
  <1>2. ASSUME NEW k \in 1 .. n
        PROVE  /\ r[k].data # <<>> => Reach(r, k - 1, d, r[k].off)
               /\ Closing(r[k]) => Reach(r, k - 1, d, m)
    <2>1. k - 1 \in Nat /\ \A j \in 1 .. k - 1 : r[j] = q[j]
      BY <1>1
    <2>2. /\ q[k].data # <<>> => Reach(q, k - 1, d, q[k].off)
          /\ Closing(q[k]) => Reach(q, k - 1, d, m)
      BY <1>1 DEF Flow
    <2> QED
      BY <1>1, <2>1, <2>2, ReachSame
  <1>3. Flow(r, d, m)
    BY <1>1, <1>2 DEF Flow
  <1> QED
    BY <1>3 DEF r

(* One more frame is sent.                                                 *)
LEMMA FlowAppend ==
    ASSUME NEW q \in Seq(Frame), NEW f \in Frame, NEW d, NEW m, Flow(q, d, m),
           f.data # <<>> => Reach(q, Len(q), d, f.off),
           Closing(f) => Reach(q, Len(q), d, m)
    PROVE  Flow(Append(q, f), d, m)
  <1> DEFINE r == Append(q, f)
             n == Len(q)
  <1>1. n \in Nat /\ Len(r) = n + 1 /\ r[n + 1] = f /\ \A j \in 1 .. n : r[j] = q[j]
    OBVIOUS
  <1> HIDE DEF r, n
  <1>2. ASSUME NEW k \in 1 .. n + 1
        PROVE  /\ r[k].data # <<>> => Reach(r, k - 1, d, r[k].off)
               /\ Closing(r[k]) => Reach(r, k - 1, d, m)
    <2>1. k - 1 \in Nat /\ \A j \in 1 .. k - 1 : r[j] = q[j]
      BY <1>1
    <2>2. CASE k = n + 1
      <3>1. /\ f.data # <<>> => Reach(q, k - 1, d, f.off)
            /\ Closing(f) => Reach(q, k - 1, d, m)
        BY <1>1, <2>2 DEF n
      <3> QED
        BY <1>1, <2>1, <2>2, <3>1, ReachSame
    <2>3. CASE k # n + 1
      <3>1. k \in 1 .. n /\ r[k] = q[k]
        BY <1>1, <2>3
      <3>2. /\ q[k].data # <<>> => Reach(q, k - 1, d, q[k].off)
            /\ Closing(q[k]) => Reach(q, k - 1, d, m)
        BY <3>1 DEF Flow, n
      <3> QED
        BY <2>1, <3>1, <3>2, ReachSame
    <2> QED
      BY <2>2, <2>3
  <1>3. Flow(r, d, m)
    BY <1>1, <1>2 DEF Flow
  <1> QED
    BY <1>3 DEF r

(* What the agent has then.                                                *)
LEMMA ReachAppend ==
    ASSUME NEW q \in Seq(Frame), NEW f \in Frame, NEW d \in Nat, NEW e \in Nat,
           Reach(q, Len(q), d, e) \/ (f.data # <<>> /\ e <= Upto(f))
    PROVE  Reach(Append(q, f), Len(Append(q, f)), d, e)
  <1> DEFINE r == Append(q, f)
             n == Len(q)
  <1>1. n \in Nat /\ Len(r) = n + 1 /\ r[n + 1] = f /\ \A j \in 1 .. n : r[j] = q[j]
    OBVIOUS
  <1> HIDE DEF r, n
  <1>2. CASE Reach(q, n, d, e)
    <2>1. Reach(r, n, d, e)
      BY <1>1, <1>2, ReachSame
    <2> QED
      BY <1>1, <2>1, ReachMore DEF r
  <1>3. CASE f.data # <<>> /\ e <= Upto(f)
    <2>1. Reach(r, n + 1, d, e)
      BY <1>1, <1>3 DEF Reach
    <2> QED
      BY <1>1, <2>1 DEF r
  <1> QED
    BY <1>2, <1>3 DEF n

(* A queue stays tidy when its first frame is taken,                       *)
LEMMA TidyTail ==
    ASSUME NEW q \in Seq(Frame), q # <<>>, NEW e, NEW fin, Tidy(q, e, fin)
    PROVE  Tidy(Tail(q), e, fin)
  <1>1. \A k \in 1 .. Len(Tail(q)) : k + 1 \in 1 .. Len(q) /\ Tail(q)[k] = q[k + 1]
    OBVIOUS
  <1> QED
    BY <1>1 DEF Tidy

(* ... when a prefix of it arrives,                                        *)
LEMMA TidyPrefix ==
    ASSUME NEW q \in Seq(Frame), NEW n \in 0 .. Len(q), NEW e, NEW fin, Tidy(q, e, fin)
    PROVE  Tidy(SubSeq(q, 1, n), e, fin)
  <1>1. Len(SubSeq(q, 1, n)) = n
        /\ \A j \in 1 .. n : SubSeq(q, 1, n)[j] = q[j] /\ j \in 1 .. Len(q)
    OBVIOUS
  <1> QED
    BY <1>1 DEF Tidy

(* ... when a tidy frame is sent,                                          *)
LEMMA TidyAppend ==
    ASSUME NEW q \in Seq(Frame), NEW f \in Frame, NEW e, NEW fin, Tidy(q, e, fin),
           FrameIn(f, e), Kind(f, fin)
    PROVE  Tidy(Append(q, f), e, fin)
  <1>1. Len(Append(q, f)) = Len(q) + 1 /\ Append(q, f)[Len(q) + 1] = f
        /\ \A j \in 1 .. Len(q) : Append(q, f)[j] = q[j]
    OBVIOUS
  <1>2. \A k \in 1 .. Len(q) + 1 : k \in 1 .. Len(q) \/ k = Len(q) + 1
    OBVIOUS
  <1> QED
    BY <1>1, <1>2 DEF Tidy

(* ... and when the broker buffers more or the destination closes.         *)
LEMMA TidyMore ==
    ASSUME NEW q \in Seq(Frame), NEW e \in Nat, NEW g \in Nat, e <= g, NEW fin \in BOOLEAN,
           NEW end \in BOOLEAN, fin => end, Tidy(q, e, fin)
    PROVE  Tidy(q, g, end)
  <1> SUFFICES ASSUME NEW k \in 1 .. Len(q)
               PROVE  FrameIn(q[k], g) /\ Kind(q[k], end)
    BY DEF Tidy
  <1>1. q[k] \in Frame
    OBVIOUS
  <1>2. Upto(q[k]) \in Nat
    BY <1>1, UptoNat
  <1>3. FrameIn(q[k], e) /\ Kind(q[k], fin)
    BY DEF Tidy
  <1>4. FrameIn(q[k], g)
    BY <1>2, <1>3 DEF FrameIn
  <1> QED
    BY <1>3, <1>4 DEF Kind

-----------------------------------------------------------------------------
(* What the broker sends.                                                  *)

(* A connection that is dialed once has one session.                       *)
LEMMA OneDial ==
    ASSUME Orderly
    PROVE  Dials = {1} /\ OneWriterAtATime
  BY DEF Orderly, Dials

(* The types of the downstream direction.                                  *)
LEMMA DownTypes ==
    ASSUME IInv, Orderly
    PROVE  /\ bs[1] \in SessionType /\ srv[1] \in ServerConnType
           /\ srv[1].sent \in Nat /\ srv[1].fin \in BOOLEAN /\ cs.downDelivered \in Nat
           /\ bs[1].downBuf \in ReplayBufferType /\ End(bs[1].downBuf) \in Nat
           /\ bs[1].downBuf.base \in Nat /\ bs[1].downBuf.base <= End(bs[1].downBuf)
           /\ bs[1].downBuf.base <= cs.downDelivered
           /\ conn \in 0 .. MaxTunnels /\ (conn # 0 => conn \in Tunnels)
           /\ \A t \in Tunnels : downq[t] \in Seq(Frame) /\ upq[t] \in Seq(Frame)
           /\ Broker \in BrokerType /\ Broker.s = bs /\ Broker.q = downq
           /\ cur \in {0, 1}
  <1>1. 1 \in Dials /\ Dials = {1}
    BY OneDial
  <1>2. bs[1] \in SessionType /\ srv[1] \in ServerConnType
        /\ bs[1].downBuf.base <= cs.downDelivered /\ (cur # 0 => cur \in Dials)
    BY <1>1, BrokerFacts
  <1>3. srv[1].fin \in BOOLEAN
    BY <1>2 DEF ServerConnType
  <1>4. Broker \in BrokerType /\ Broker.s = bs /\ Broker.q = downq
    BY BrokerFacts DEF BrokerOK, Broker
  <1> QED
    BY <1>1, <1>2, <1>3, <1>4, SupplyTypes, SidecarFacts

(* A broker's view of the one session.                                     *)
LEMMA ViewTypes ==
    ASSUME Orderly, NEW B \in BrokerType
    PROVE  /\ B.s[1] \in SessionType /\ B.s[1].tconn \in 0 .. MaxTunnels
           /\ B.s[1].downBuf \in ReplayBufferType /\ End(B.s[1].downBuf) \in Nat
           /\ B.s \in [Dials -> SessionType]
           /\ B.q \in [Tunnels -> Seq(Frame)] /\ \A t \in Tunnels : B.q[t] \in Seq(Frame)
  <1>1. B.s \in [Dials -> SessionType] /\ B.q \in [Tunnels -> Seq(Frame)] /\ 1 \in Dials
    BY OneDial DEF BrokerType
  <1>2. B.s[1] \in SessionType
    BY <1>1
  <1>3. B.s[1].tconn \in 0 .. MaxTunnels /\ B.s[1].downBuf \in ReplayBufferType
    BY <1>2 DEF SessionType
  <1> QED
    BY <1>1, <1>2, <1>3, EndNat

(* session.sendToSidecar and detach touch nothing of a session but tconn,  *)
(* and unbind it when the frame is too large to send.                      *)
Unbound(s, r) == \E t \in {s.tconn, 0} : r = [s EXCEPT !.tconn = t]

(* session.detach unbinds the session and sends nothing.                   *)
LEMMA DetachShape ==
    ASSUME Orderly, NEW B \in BrokerType, NEW t \in Tunnels
    PROVE  LET C == Detach(B, 1, t)
           IN  /\ C \in BrokerType /\ Unbound(B.s[1], C.s[1]) /\ C.q = B.q /\ C.cur = B.cur
               /\ C.s[1].tconn # t
  <1> DEFINE s == B.s[1]
             D == [B EXCEPT !.s[1].tconn = 0]
             E == Wake(D)
  <1>1. s \in SessionType /\ 1 \in Dials /\ B.s \in [Dials -> SessionType] /\ 0 \notin Tunnels
        /\ 0 \in 0 .. MaxTunnels /\ s = [s EXCEPT !.tconn = s.tconn]
    BY ViewTypes, OneDial, BoundsAssumption DEF Tunnels, SessionType
  <1>2. [s EXCEPT !.tconn = 0] \in SessionType
    BY <1>1 DEF SessionType
  <1>3. D \in BrokerType /\ D.s[1] = [s EXCEPT !.tconn = 0] /\ D.q = B.q /\ D.cur = B.cur
    BY <1>1, <1>2 DEF BrokerType
  <1> HIDE DEF D
  <1>4. E \in BrokerType /\ E.s = D.s /\ E.q = D.q /\ E.cur = D.cur
    BY <1>3 DEF BrokerType, Wake
  <1>5. D.s[1].tconn = 0 /\ Unbound(s, s) /\ Unbound(s, D.s[1])
    BY <1>1, <1>3 DEF Unbound, SessionType
  <1>6. CASE s.tconn # t
    BY <1>1, <1>5, <1>6 DEF Detach
  <1>7. CASE s.tconn = t
    <2>1. Detach(B, 1, t) \in {D, E}
      BY <1>7 DEF Detach, D
    <2> QED
      BY <1>1, <1>3, <1>4, <1>5, <2>1
  <1> QED
    BY <1>6, <1>7

(* session.sendToSidecar.                                                  *)
LEMMA SendShape ==
    ASSUME Orderly, NEW B \in BrokerType, NEW f \in Frame, NEW ok \in BOOLEAN
    PROVE  LET C == SendToSidecar(B, 1, f, ok)
           IN  /\ C \in BrokerType /\ Unbound(B.s[1], C.s[1]) /\ C.cur = B.cur
               /\ C.q = WriteFrame(B.q, B.s[1].tconn, f)
               /\ Oversize(f) => C.s[1].tconn = 0
  <1> DEFINE t == B.s[1].tconn
             D == [B EXCEPT !.q = WriteFrame(@, t, f)]
  <1>1. t \in 0 .. MaxTunnels /\ B.q \in [Tunnels -> Seq(Frame)] /\ B.s[1] \in SessionType
        /\ (t # 0 => t \in Tunnels)
    BY ViewTypes DEF Tunnels
  <1>2. WriteFrame(B.q, t, f) \in [Tunnels -> Seq(Frame)]
    BY <1>1, WriteFrameType
  <1>3. D \in BrokerType /\ D.s = B.s /\ D.q = WriteFrame(B.q, t, f) /\ D.cur = B.cur
    BY <1>2 DEF BrokerType
  <1>4. Unbound(B.s[1], B.s[1])
    BY <1>1 DEF Unbound, SessionType
  <1> HIDE DEF D
  <1>5. CASE t = 0
    <2>1. WriteFrame(B.q, t, f) = B.q /\ SendToSidecar(B, 1, f, ok) = B
      BY <1>5 DEF WriteFrame, SendToSidecar
    <2> QED
      BY <1>4, <1>5, <2>1
  <1>6. CASE t # 0 /\ ok /\ ~Oversize(f)
    <2>1. SendToSidecar(B, 1, f, ok) = D
      BY <1>6 DEF SendToSidecar, D
    <2> QED
      BY <1>3, <1>4, <1>6, <2>1
  <1>7. CASE t # 0 /\ ~(ok /\ ~Oversize(f))
    <2>1. SendToSidecar(B, 1, f, ok) = Detach(D, 1, t)
      BY <1>7 DEF SendToSidecar, D
    <2>2. t \in Tunnels
      BY <1>1, <1>7
    <2> DEFINE F == Detach(D, 1, t)
    <2>3. /\ F \in BrokerType /\ Unbound(D.s[1], F.s[1]) /\ F.q = D.q /\ F.cur = D.cur
          /\ F.s[1].tconn # t
      BY <1>3, <2>2, DetachShape
    <2> HIDE DEF F
    <2>4. F.s[1].tconn \in {t, 0}
      BY <1>1, <1>3, <2>3 DEF Unbound, SessionType
    <2> QED
      BY <1>3, <2>1, <2>3, <2>4 DEF F
  <1> QED
    BY <1>5, <1>6, <1>7

(* What Unbound leaves of a session.                                       *)
LEMMA UnboundSame ==
    ASSUME NEW s \in SessionType, NEW r, Unbound(s, r)
    PROVE  /\ r \in SessionType /\ r.downBuf = s.downBuf /\ r.downClosed = s.downClosed
           /\ r.dial = s.dial /\ r.upClosed = s.upClosed
           /\ r.tconn \in {s.tconn, 0} /\ (Reading(r) => Reading(s))
  <1>1. PICK t \in {s.tconn, 0} : r = [s EXCEPT !.tconn = t]
    BY DEF Unbound
  <1>2. t \in 0 .. MaxTunnels
    BY BoundsAssumption DEF SessionType
  <1>3. /\ r \in SessionType /\ r.downBuf = s.downBuf /\ r.downClosed = s.downClosed
        /\ r.dial = s.dial /\ r.upClosed = s.upClosed /\ r.tconn = t
    BY <1>1, <1>2 DEF SessionType
  <1> QED
    BY <1>1, <1>3 DEF Reading

(* What goes on the wire carries no more than the frame.                   *)
LEMMA OnWireIn ==
    ASSUME NEW f \in Frame, NEW e, NEW fin
    PROVE  /\ OnWire(f) \in Frame /\ (FrameIn(f, e) => FrameIn(OnWire(f), e))
           /\ (Kind(f, fin) => Kind(OnWire(f), fin))
           /\ OnWire(f).data # <<>> \/ Closing(OnWire(f)) => OnWire(f) = f
           /\ ~Oversize(f) => OnWire(f) = f
  <1> DEFINE g == Ctl("GARBLED", 0)
  <1>1. g.data = <<>> /\ g.type = "GARBLED"
    BY DEF Ctl
  <1>2. FrameIn(g, e) /\ Kind(g, fin) /\ ~Closing(g)
    BY <1>1 DEF FrameIn, Kind, Closing, Ours
  <1>3. OnWire(f) \in Frame
    BY OnWireFrame
  <1> HIDE DEF g
  <1> QED
    BY <1>1, <1>2, <1>3 DEF OnWire, g

(* The tunnel written to, while it is up, gets the frame at the end.       *)
LEMMA WriteFrameIs ==
    ASSUME NEW q \in [Tunnels -> Seq(Frame)], NEW t \in 0 .. MaxTunnels, NEW f,
           NEW u \in Tunnels
    PROVE  WriteFrame(q, t, f)[u]
             = IF t = u /\ link[u] = "up" THEN Append(q[u], OnWire(f)) ELSE q[u]
  <1>1. u # 0
    BY DEF Tunnels
  <1>2. CASE t = u /\ link[u] = "up"
    BY <1>1, <1>2 DEF WriteFrame
  <1>3. CASE t # u
    BY <1>3 DEF WriteFrame
  <1>4. CASE t = u /\ link[u] # "up"
    BY <1>4 DEF WriteFrame
  <1> QED
    BY <1>2, <1>3, <1>4

(* A frame that begins no later than where the agent is by then, and a     *)
(* CLOSE behind everything the destination sent, keep the queues sound;    *)
(* the agent is caught up if it was, or if the frame goes to the end.      *)
LEMMA SendDown ==
    ASSUME IInv, Orderly, NEW B \in BrokerType, NEW f \in Frame, NEW ok \in BOOLEAN,
           Sound(B), FrameIn(f, End(B.s[1].downBuf)), Kind(f, srv[1].fin),
           Live /\ Reading(B.s[1]) =>
               /\ f.data # <<>> => Reach(B.q[conn], Len(B.q[conn]), cs.downDelivered, f.off)
               /\ Closing(f) => Reach(B.q[conn], Len(B.q[conn]), cs.downDelivered, srv[1].sent)
    PROVE  LET C == SendToSidecar(B, 1, f, ok)
           IN  /\ C \in BrokerType /\ Unbound(B.s[1], C.s[1]) /\ C.cur = B.cur /\ Sound(C)
               /\ Caught(B) \/ (f.data # <<>> /\ End(B.s[1].downBuf) <= Upto(f)) => Caught(C)
  <1> DEFINE C == SendToSidecar(B, 1, f, ok)
             t == B.s[1].tconn
             g == OnWire(f)
             e == End(B.s[1].downBuf)
             d == cs.downDelivered
  <1>1. /\ C \in BrokerType /\ Unbound(B.s[1], C.s[1]) /\ C.cur = B.cur
        /\ C.q = WriteFrame(B.q, t, f) /\ (Oversize(f) => C.s[1].tconn = 0)
    BY SendShape
  <1>2. /\ g \in Frame /\ FrameIn(g, e) /\ Kind(g, srv[1].fin)
        /\ (g.data # <<>> \/ Closing(g) => g = f) /\ (~Oversize(f) => g = f)
    BY OnWireIn
  <1>3. B.s[1] \in SessionType /\ B.q \in [Tunnels -> Seq(Frame)] /\ t \in 0 .. MaxTunnels
        /\ e \in Nat /\ d \in Nat /\ (conn # 0 => conn \in Tunnels) /\ srv[1].sent \in Nat
        /\ \A u \in Tunnels : B.q[u] \in Seq(Frame)
    BY ViewTypes, DownTypes
  <1>4. End(C.s[1].downBuf) = e /\ C.s[1].tconn \in {t, 0}
        /\ (Reading(C.s[1]) => Reading(B.s[1]))
    BY <1>1, <1>3, UnboundSame
  <1> HIDE DEF C, g, d, e
  <1>5. \A u \in Tunnels : C.q[u] = IF t = u /\ link[u] = "up" THEN Append(B.q[u], g) ELSE B.q[u]
    BY <1>1, <1>3, WriteFrameIs DEF g
  <1>6. ASSUME NEW u \in Tunnels
        PROVE  Tidy(C.q[u], e, srv[1].fin)
    <2>1. Tidy(B.q[u], e, srv[1].fin)
      BY DEF Sound, e
    <2>2. Tidy(Append(B.q[u], g), e, srv[1].fin)
      BY <1>2, <1>3, <2>1, TidyAppend
    <2> QED
      BY <1>5, <2>1, <2>2
  <1>7. ASSUME Live PROVE Flow(C.q[conn], d, srv[1].sent)
    <2>1. conn \in Tunnels /\ Flow(B.q[conn], d, srv[1].sent)
      BY <1>3, <1>7 DEF Live, Sound, d
    <2>2. CASE Reading(B.s[1])
      <3>1. /\ g.data # <<>> => Reach(B.q[conn], Len(B.q[conn]), d, g.off)
            /\ Closing(g) => Reach(B.q[conn], Len(B.q[conn]), d, srv[1].sent)
        BY <1>2, <1>7, <2>2 DEF d
      <3>2. Flow(Append(B.q[conn], g), d, srv[1].sent)
        BY <1>2, <1>3, <2>1, <3>1, FlowAppend
      <3> QED
        BY <1>5, <2>1, <3>2
    <2>3. CASE ~Reading(B.s[1])
      <3>1. ~(t = conn /\ link[conn] = "up")
        BY <1>7, <2>3 DEF Reading, Live
      <3>2. C.q[conn] = B.q[conn]
        BY <1>5, <2>1, <3>1
      <3> QED
        BY <2>1, <3>2
    <2> QED
      BY <2>2, <2>3
  <1>8. Sound(C)
    BY <1>4, <1>6, <1>7 DEF Sound, d
  <1>9. ASSUME Caught(B) \/ (f.data # <<>> /\ e <= Upto(f)), Live, Reading(C.s[1])
        PROVE  Reach(C.q[conn], Len(C.q[conn]), d, e)
    <2>1. conn \in Tunnels /\ t = conn /\ link[conn] = "up" /\ Reading(B.s[1])
      BY <1>3, <1>4, <1>9 DEF Reading
    <2>2. g = f
      BY <1>1, <1>2, <1>9, <2>1 DEF Reading
    <2>3. C.q[conn] = Append(B.q[conn], f)
      BY <1>5, <2>1, <2>2
    <2>4. Reach(B.q[conn], Len(B.q[conn]), d, e) \/ (f.data # <<>> /\ e <= Upto(f))
      BY <1>9, <2>1 DEF Caught, d, e
    <2> QED
      BY <1>3, <2>1, <2>3, <2>4, ReachAppend
  <1>10. Caught(B) \/ (f.data # <<>> /\ e <= Upto(f)) => Caught(C)
    BY <1>4, <1>9 DEF Caught, d
  <1> QED
    BY <1>1, <1>8, <1>10 DEF C, e

(* A frame without bytes that ends nothing.                                *)
LEMMA SendCtlDown ==
    ASSUME IInv, Orderly, NEW B \in BrokerType, Sound(B), NEW ok \in BOOLEAN,
           NEW type \in {"ACK", "ATTACH_OK"}, NEW off \in Nat
    PROVE  LET C == SendToSidecar(B, 1, Ctl(type, off), ok)
           IN  /\ C \in BrokerType /\ Unbound(B.s[1], C.s[1]) /\ C.cur = B.cur /\ Sound(C)
               /\ Caught(B) => Caught(C)
  <1> DEFINE f == Ctl(type, off)
  <1>1. f \in Frame /\ f.data = <<>> /\ f.type = type
    BY CtlFrame DEF FrameType, Ctl
  <1>2. FrameIn(f, End(B.s[1].downBuf)) /\ Kind(f, srv[1].fin) /\ ~Closing(f)
    BY <1>1 DEF FrameIn, Kind, Closing, Ours
  <1> HIDE DEF f
  <1> QED
    BY <1>1, <1>2, SendDown DEF f

(* CLOSE, sent when everything the destination sent is on its way.         *)
LEMMA SendCloseDown ==
    ASSUME IInv, Orderly, NEW B \in BrokerType, Sound(B), Caught(B), NEW ok \in BOOLEAN,
           srv[1].fin, End(B.s[1].downBuf) = srv[1].sent
    PROVE  LET C == SendToSidecar(B, 1, Ctl("CLOSE", 0), ok)
           IN  /\ C \in BrokerType /\ Unbound(B.s[1], C.s[1]) /\ C.cur = B.cur /\ Sound(C)
               /\ Caught(C)
  <1> DEFINE f == Ctl("CLOSE", 0)
  <1>1. f \in Frame /\ f.data = <<>> /\ f.type = "CLOSE"
    BY CtlFrame DEF FrameType, Ctl
  <1>2. FrameIn(f, End(B.s[1].downBuf)) /\ Kind(f, srv[1].fin)
    BY <1>1 DEF FrameIn, Kind, Closing, Ours
  <1>3. Live /\ Reading(B.s[1])
            => Reach(B.q[conn], Len(B.q[conn]), cs.downDelivered, srv[1].sent)
    BY DEF Caught
  <1> HIDE DEF f
  <1> QED
    BY <1>1, <1>2, <1>3, SendDown DEF f

(* Nothing is sent, and the session is bound where it was or nowhere.      *)
LEMMA SoundSame ==
    ASSUME NEW B, NEW C, C.q = B.q, C.s[1].downBuf = B.s[1].downBuf,
           C.s[1].tconn \in {B.s[1].tconn, 0}
    PROVE  (Sound(B) => Sound(C)) /\ (Caught(B) => Caught(C))
  <1>1. Reading(C.s[1]) => Reading(B.s[1])
    BY DEF Reading
  <1> QED
    BY <1>1 DEF Sound, Caught

(* What a handler leaves of a session that goes on or ends.                *)
Goes(s, r) ==
    /\ r.downBuf = s.downBuf /\ r.tconn \in {s.tconn, 0} /\ (s.downClosed => r.downClosed)
    /\ (Unflushed(r) => Unflushed(s)) /\ (r.dial # "none" => s.dial # "none")

(* Goes is transitive.                                                     *)
LEMMA GoesTrans ==
    ASSUME NEW s, NEW r, NEW q, Goes(s, r), Goes(r, q)
    PROVE  Goes(s, q)
  BY DEF Goes

(* session.maybeDestroy.                                                   *)
LEMMA DestroyDown ==
    ASSUME Orderly, NEW B \in BrokerType
    PROVE  LET C == MaybeDestroy(B, 1)
           IN  /\ C \in BrokerType /\ Goes(B.s[1], C.s[1]) /\ C.q = B.q
               /\ C.s[1].downClosed = B.s[1].downClosed
               /\ \/ C.cur = B.cur
                  \/ C.cur = 0 /\ C.s[1].downClosed /\ BufLen(C.s[1].downBuf) = 0
  <1> DEFINE s == B.s[1]
             C == Destroy(B, 1)
             r == [s EXCEPT !.watchdog = FALSE]
  <1>1. s \in SessionType /\ 1 \in Dials /\ B.s \in [Dials -> SessionType] /\ 0 \in 0 .. MaxDials
    BY ViewTypes, OneDial, BoundsAssumption
  <1>2. r \in SessionType /\ r.downBuf = s.downBuf /\ r.downClosed = s.downClosed
        /\ r.dial = s.dial /\ r.tconn = s.tconn
    BY <1>1 DEF SessionType
  <1>3. C \in BrokerType /\ C.s[1] = r /\ C.q = B.q
        /\ C.cur = IF B.cur = 1 THEN 0 ELSE B.cur
    BY <1>1, <1>2 DEF Destroy, BrokerType
  <1>4. Goes(s, s) /\ Goes(s, r)
    BY <1>2 DEF Goes, Unflushed
  <1> HIDE DEF C, r
  <1>5. CASE s.upClosed /\ s.downClosed /\ BufLen(s.downBuf) = 0
    <2>1. MaybeDestroy(B, 1) = C
      BY <1>5 DEF MaybeDestroy, C
    <2> QED
      BY <1>2, <1>3, <1>4, <1>5, <2>1
  <1>6. CASE ~(s.upClosed /\ s.downClosed /\ BufLen(s.downBuf) = 0)
    BY <1>4, <1>6 DEF MaybeDestroy
  <1> QED
    BY <1>5, <1>6

(* session.closeUpstream, called when the broker has read the end.         *)
LEMMA CloseDown ==
    ASSUME IInv, Orderly, NEW B \in BrokerType, Sound(B), Caught(B), NEW ok \in BOOLEAN,
           srv[1].fin, End(B.s[1].downBuf) = srv[1].sent
    PROVE  LET C == CloseUpstream(B, 1, ok)
           IN  /\ C \in BrokerType /\ Goes(B.s[1], C.s[1]) /\ C.s[1].downClosed
               /\ C.cur = B.cur \/ (C.cur = 0 /\ BufLen(C.s[1].downBuf) = 0)
               /\ Sound(C) /\ Caught(C)
  <1> DEFINE s == B.s[1]
             r == [s EXCEPT !.downClosed = TRUE]
             D == [B EXCEPT !.s[1].downClosed = TRUE]
             F == SendToSidecar(D, 1, Ctl("CLOSE", 0), ok)
             G == IF s.requestOutstanding THEN Wake(D) ELSE D
  <1>1. s \in SessionType /\ 1 \in Dials /\ B.s \in [Dials -> SessionType]
    BY ViewTypes, OneDial
  <1>2. r \in SessionType /\ r.downBuf = s.downBuf /\ r.downClosed = TRUE
        /\ r.dial = s.dial /\ r.tconn = s.tconn
    BY <1>1 DEF SessionType
  <1>3. D \in BrokerType /\ D.s[1] = r /\ D.q = B.q /\ D.cur = B.cur
    BY <1>1, <1>2 DEF BrokerType
  <1>4. Goes(s, s) /\ Goes(s, r)
    BY <1>2 DEF Goes, Unflushed
  <1> HIDE DEF D, r
  <1>5. Sound(D) /\ Caught(D)
    BY <1>2, <1>3, SoundSame
  <1>6. F \in BrokerType /\ Unbound(r, F.s[1]) /\ F.cur = B.cur /\ Sound(F) /\ Caught(F)
    BY <1>2, <1>3, <1>5, SendCloseDown
  <1>7. Wake(D) \in BrokerType /\ Wake(D).s = D.s /\ Wake(D).q = D.q /\ Wake(D).cur = D.cur
    BY <1>3 DEF Wake, BrokerType
  <1>8. Sound(Wake(D)) /\ Caught(Wake(D))
    BY <1>5, <1>7, SoundSame
  <1>9. G \in BrokerType /\ G.s[1] = r /\ G.cur = B.cur /\ Sound(G) /\ Caught(G)
    BY <1>3, <1>5, <1>7, <1>8
  <1> HIDE DEF F, G
  <1>10. Goes(s, F.s[1]) /\ F.s[1].downClosed
    <2>1. F.s[1].downBuf = r.downBuf /\ F.s[1].downClosed = r.downClosed
          /\ F.s[1].dial = r.dial /\ F.s[1].tconn \in {r.tconn, 0}
      BY <1>2, <1>6, UnboundSame
    <2> QED
      BY <1>2, <2>1 DEF Goes, Unflushed
  <1>11. ASSUME NEW H \in {F, G}
         PROVE  LET C == MaybeDestroy(H, 1)
                IN  /\ C \in BrokerType /\ Goes(s, C.s[1]) /\ C.s[1].downClosed
                    /\ C.cur = B.cur \/ (C.cur = 0 /\ BufLen(C.s[1].downBuf) = 0)
                    /\ Sound(C) /\ Caught(C)
    <2> DEFINE C == MaybeDestroy(H, 1)
    <2>1. /\ H \in BrokerType /\ Goes(s, H.s[1]) /\ H.s[1].downClosed /\ H.cur = B.cur
          /\ Sound(H) /\ Caught(H)
      BY <1>2, <1>4, <1>6, <1>9, <1>10
    <2>2. /\ C \in BrokerType /\ Goes(H.s[1], C.s[1]) /\ C.q = H.q
          /\ C.s[1].downClosed = H.s[1].downClosed
          /\ C.cur = H.cur \/ (C.cur = 0 /\ C.s[1].downClosed /\ BufLen(C.s[1].downBuf) = 0)
      BY <2>1, DestroyDown
    <2> HIDE DEF C
    <2>3. Sound(C) /\ Caught(C)
      BY <2>1, <2>2, SoundSame DEF Goes
    <2>4. Goes(s, C.s[1])
      BY <2>1, <2>2, GoesTrans
    <2> QED
      BY <2>1, <2>2, <2>3, <2>4 DEF C
  <1>12. CASE s.downClosed
    BY <1>4, <1>12 DEF CloseUpstream
  <1>13. CASE ~s.downClosed
    <2>1. CloseUpstream(B, 1, ok) \in {MaybeDestroy(F, 1), MaybeDestroy(G, 1)}
      BY <1>13 DEF CloseUpstream, F, G, D
    <2> QED
      BY <1>11, <2>1
  <1> QED
    BY <1>12, <1>13

-----------------------------------------------------------------------------
(* The agent's pace.                                                       *)

(* More bytes hold no fewer units.                                         *)
LEMMA DivMono ==
    ASSUME NEW m \in Nat, NEW n \in Nat, m <= n, NEW q \in Nat \ {0}
    PROVE  m \div q \in Nat /\ n \div q \in Nat /\ m \div q <= n \div q
  <1> DEFINE a == m \div q
             b == n \div q
  <1>1. a \in Nat /\ b \in Nat /\ a * q <= m /\ n < (b + 1) * q
    BY DivFacts
  <1> HIDE DEF a, b
  <1>2. a * q \in Nat /\ (b + 1) * q \in Nat
    BY <1>1, TimesMono
  <1>3. a * q < (b + 1) * q
    BY <1>1, <1>2
  <1>4. a < b + 1
    BY <1>1, <1>3, TimesStrict
  <1> QED
    BY <1>1, <1>4 DEF a, b

(* A step after which the agent has written no more and read no less.      *)
LEMMA PacedRule ==
    ASSUME IInv, IInv', Paced, End(cs'.upBuf) = End(cs.upBuf), Len(agentGot) <= Len(agentGot'),
           cs'.st \in {"none", "opening"} => cs.st \in {"none", "opening"}
    PROVE  Paced'
  <1> DEFINE r == Responses
             n == Responses'
  <1>1. ReqLen \in Nat /\ RespLen \in Nat \ {0}
    BY LengthsAssumption
  <1>2. Len(agentGot) \in Nat /\ End(cs.upBuf) \in Nat /\ Len(agentGot') \in Nat
    BY SidecarFacts, EndNat DEF IInv, TypeOK
  <1>3. r \in Nat /\ n \in Nat /\ r <= n
    BY <1>1, <1>2, DivMono DEF Responses
  <1>4. End(cs.upBuf) <= (r + 1) * ReqLen /\ n = Responses'
    BY DEF Paced
  <1> HIDE DEF r, n
  <1>5. (r + 1) * ReqLen <= (n + 1) * ReqLen /\ (r + 1) * ReqLen \in Nat
        /\ (n + 1) * ReqLen \in Nat
    BY <1>1, <1>3, TimesMono
  <1>6. End(cs'.upBuf) <= (n + 1) * ReqLen
    BY <1>2, <1>4, <1>5
  <1> QED
    BY <1>4, <1>6 DEF Paced

(* writeUp goes no further than the request the agent is at.               *)
LEMMA WriteUpEnd ==
    ASSUME IInv, NEW n \in 1 .. UpCap, WriteUp(n)
    PROVE  /\ End(cs'.upBuf) = End(cs.upBuf) + n
           /\ End(cs'.upBuf) <= (Responses + 1) * ReqLen
           /\ cs'.st = "open" /\ cs'.downDelivered = cs.downDelivered
           /\ cs'.downClosed = cs.downClosed /\ cs.st = "open"
  <1> DEFINE b == cs.upBuf
             off == End(b)
             chunk == AgentBytes(off, n)
             c == AppendTo(b, chunk)
             k == IF Responses < Rounds THEN Responses + 1 ELSE Rounds
  <1>1. n \in Nat /\ n > 0 /\ b \in ReplayBufferType /\ off \in Nat
    BY SidecarFacts, EndNat
  <1>2. b.base \in Nat /\ b.buf \in Seq(Byte) /\ off = b.base + Len(b.buf)
    BY <1>1 DEF ReplayBufferType, End, BufLen
  <1>3. cs' = [cs EXCEPT !.upBuf = c] /\ n <= AgentToSend /\ cs.st = "open"
    BY DEF WriteUp
  <1>4. chunk \in Seq(Byte) /\ Len(chunk) = n
    <2> HIDE DEF off
    <2> QED
      BY <1>1, AgentBytesUp, AgentBytesLen
  <1> HIDE DEF chunk
  <1>5. c = [base |-> b.base, buf |-> b.buf \o chunk]
    BY <1>1, <1>4, AppendToIs
  <1>6. /\ cs'.upBuf = c /\ cs'.st = cs.st /\ cs'.downDelivered = cs.downDelivered
        /\ cs'.downClosed = cs.downClosed
    BY <1>3, SidecarFacts DEF ClientSessionType
  <1>7. c.base = b.base /\ c.buf = b.buf \o chunk
    BY <1>5
  <1> HIDE DEF c
  <1>8. Len(b.buf \o chunk) = Len(b.buf) + n /\ Len(b.buf) \in Nat
    BY <1>2, <1>4
  <1>9. End(c) = off + n
    BY <1>1, <1>2, <1>7, <1>8 DEF End, BufLen
  <1>10. Rounds \in Nat /\ ReqLen \in Nat /\ Responses \in Nat
    BY SidecarFacts, LengthsAssumption, DivFacts DEF Responses
  <1>11. AgentToSend = k * ReqLen - off
    BY DEF AgentToSend
  <1>12. k \in Nat /\ k <= Responses + 1
    BY <1>10
  <1> HIDE DEF k, off
  <1>13. k * ReqLen \in Nat /\ k * ReqLen <= (Responses + 1) * ReqLen
         /\ (Responses + 1) * ReqLen \in Nat
    BY <1>10, <1>12, TimesMono
  <1>14. off + n <= (Responses + 1) * ReqLen
    BY <1>1, <1>3, <1>11, <1>13
  <1> QED
    BY <1>3, <1>6, <1>9, <1>14 DEF off

(* What readLoop makes of a frame.                                         *)
LEMMA RecvShape ==
    ASSUME IInv, RecvAck \/ RecvAttachOK \/ RecvClose \/ \E ok \in BOOLEAN : RecvData(ok)
    PROVE  /\ End(cs'.upBuf) = End(cs.upBuf)
           /\ cs'.st = cs.st \/ cs'.st = "gone"
           /\ Len(agentGot) <= Len(agentGot')
           /\ cs.downDelivered <= cs'.downDelivered
           /\ UNCHANGED <<conn, loop, wout, link, upq, brokerVars>>
           /\ rout' \in {rout, <<>>} \/ \E off, p : rout' \in {<<Ctl("ACK", off)>>, <<Data(off, p)>>}
  <1> DEFINE e == End(cs.upBuf)
             d == cs.downDelivered
             f == Head(downq[conn])
             b == TrimTo(cs.upBuf, f.off)
             p == IF FromOK(b, f.off) THEN From(b, f.off) ELSE <<>>
             r == Fresh(f.off, f.data, d)
             g == d + Len(r)
  <1>1. f.off \in Nat /\ f.data \in Seq(Byte) /\ d \in Nat /\ agentGot \in Seq(Byte)
    BY ReceiveOK, SidecarFacts DEF RecvAck, RecvAttachOK, RecvClose, RecvData
  <1>2. b \in ReplayBufferType /\ End(b) = e /\ e \in Nat
    BY <1>1, SidecarFacts, TrimEnd, EndNat
  <1>3. r \in Seq(Byte)
    BY <1>1, FreshPositioned
  <1>4. Len(agentGot) <= Len(agentGot \o r) /\ g \in Nat /\ d <= g
    BY <1>1, <1>3
  <1>5. /\ \/ cs' = cs \/ cs' = [cs EXCEPT !.upBuf = b] \/ cs' = [cs EXCEPT !.downDelivered = g]
           \/ cs' = [cs EXCEPT !.st = "gone"] \/ cs' = [cs EXCEPT !.downClosed = TRUE]
        /\ rout' = rout \/ rout' = <<>> \/ rout' = <<Ctl("ACK", g)>> \/ rout' = <<Data(f.off, p)>>
        /\ agentGot' = agentGot \/ agentGot' = agentGot \o r
        /\ UNCHANGED <<conn, loop, wout, link, upq, brokerVars>>
    BY DEF RecvAck, RecvAttachOK, RecvClose, RecvData
  <1> HIDE DEF b, f, g, p, r
  <1>6. /\ cs'.upBuf = cs.upBuf \/ cs'.upBuf = b
        /\ cs'.st = cs.st \/ cs'.st = "gone"
        /\ cs'.downDelivered = d \/ cs'.downDelivered = g
    BY <1>5, SidecarFacts DEF ClientSessionType
  <1>7. Len(agentGot) \in Nat
    BY <1>1
  <1> QED
    BY <1>1, <1>2, <1>4, <1>5, <1>6, <1>7

(* A step of the broker, of the destination or of the platform.            *)
LEMMA BrokerStill ==
    ASSUME \/ \E t \in Tunnels : ServeTunnel(t)
           \/ \E i \in Dials : Upstream(i) \/ WatchdogFire(i) \/ ServerSend(i) \/ ServerClose(i)
           \/ ResumeActor \/ ResumeElsewhere \/ Suspend \/ Break \/ UNCHANGED vars
    PROVE  UNCHANGED sidecarVars
  <1>1. ASSUME NEW t \in Tunnels, ServeTunnel(t) PROVE UNCHANGED sidecarVars
    BY <1>1 DEF ServeTunnel, FinishAttach, FinishData, HandleDataError, HandleOpen, HandleAttach,
       HandleDataEarly, HandleData, HandleAck, HandleClose, HandleUnknown, TunnelEnd
  <1>2. ASSUME NEW i \in Dials,
               Upstream(i) \/ WatchdogFire(i) \/ ServerSend(i) \/ ServerClose(i)
        PROVE  UNCHANGED sidecarVars
    BY <1>2 DEF Upstream, DialOK, DialFail, FlushPre, FlushError, Produce, ReadEOF, WatchdogFire,
       ServerSend, ServerClose
  <1>3. CASE ResumeActor \/ ResumeElsewhere \/ Suspend \/ Break \/ UNCHANGED vars
    BY <1>3 DEF ResumeActor, ResumeElsewhere, Suspend, Break, vars
  <1> QED
    BY <1>1, <1>2, <1>3

(* Every step keeps the pace.                                              *)
LEMMA NextPaced ==
    ASSUME IInv, IInv', Paced, [Next]_vars
    PROVE  Paced'
  <1>0. cs \in ClientSessionType /\ Len(agentGot) \in Nat
    BY SidecarFacts
  <1>1. ASSUME NEW n \in 1 .. UpCap, WriteUp(n) PROVE Paced'
    <2>1. agentGot' = agentGot
      BY <1>1 DEF WriteUp
    <2>2. Responses' = Responses
      BY <2>1 DEF Responses
    <2> QED
      BY <1>1, <2>2, WriteUpEnd DEF Paced
  <1>2. CASE SendOpen \/ WriteUpSend \/ OpenSession \/ ProxyClose
    <2>1. agentGot' = agentGot
          /\ \/ cs' = cs \/ cs' = [cs EXCEPT !.upClosed = TRUE]
             \/ cs.st = "none" /\ cs' = [cs EXCEPT !.st = "opening"]
             \/ cs' = [cs EXCEPT !.st = "open"]
      BY <1>2 DEF SendOpen, WriteUpSend, OpenSession, ProxyClose, CloseUp
    <2>2. cs'.upBuf = cs.upBuf
          /\ (cs'.st \in {"none", "opening"} => cs.st \in {"none", "opening"})
      BY <1>0, <2>1 DEF ClientSessionType
    <2> QED
      BY <1>0, <2>1, <2>2, PacedRule
  <1>3. CASE ClientRun
    <2>1. CASE RecvAck \/ RecvAttachOK \/ RecvClose \/ \E ok \in BOOLEAN : RecvData(ok)
      BY <2>1, RecvShape, PacedRule
    <2>2. CASE Reattach \/ ReadLoopSend \/ Disconnect \/ \E t \in Tunnels : Connect(t)
      <3>1. cs' = cs /\ agentGot' = agentGot
        BY <2>2 DEF Reattach, ReadLoopSend, Disconnect, Connect
      <3> QED
        BY <1>0, <3>1, PacedRule
    <2> QED
      BY <1>3, <2>1, <2>2 DEF ClientRun
  <1>4. CASE UNCHANGED sidecarVars
    <2>1. cs' = cs /\ agentGot' = agentGot
      BY <1>4 DEF sidecarVars
    <2> QED
      BY <1>0, <2>1, PacedRule
  <1> QED
    BY <1>1, <1>2, <1>3, <1>4, BrokerStill DEF Next, ProxyPump

-----------------------------------------------------------------------------
(* What is asked of the broker.                                            *)

(* Some of the frames of q, without a gap: one was taken, or a prefix or   *)
(* nothing is left.                                                        *)
Part(v, q) ==
    \E a \in Nat : /\ a + Len(v) <= Len(q)
                   /\ \A k \in 1 .. Len(v) : v[k] = q[k + a]

(* The parts of a queue that steps leave.                                  *)
LEMMA Parts ==
    ASSUME NEW q \in Seq(Frame)
    PROVE  /\ Part(q, q) /\ Part(<<>>, q) /\ (q # <<>> => Part(Tail(q), q))
           /\ \A n \in 0 .. Len(q) : Part(SubSeq(q, 1, n), q)
  <1>1. Part(q, q)
    <2>1. 0 + Len(q) <= Len(q) /\ \A k \in 1 .. Len(q) : q[k] = q[k + 0]
      OBVIOUS
    <2> QED
      BY <2>1 DEF Part
  <1>2. Part(<<>>, q)
    <2>1. 0 + Len(<<>>) <= Len(q) /\ \A k \in 1 .. Len(<<>>) : <<>>[k] = q[k + 0]
      OBVIOUS
    <2> QED
      BY <2>1 DEF Part
  <1>3. ASSUME q # <<>> PROVE Part(Tail(q), q)
    <2>1. 1 + Len(Tail(q)) <= Len(q) /\ \A k \in 1 .. Len(Tail(q)) : Tail(q)[k] = q[k + 1]
      BY <1>3
    <2> QED
      BY <2>1 DEF Part
  <1>4. ASSUME NEW n \in 0 .. Len(q) PROVE Part(SubSeq(q, 1, n), q)
    <2> DEFINE v == SubSeq(q, 1, n)
    <2>1. Len(v) = n /\ \A k \in 1 .. n : v[k] = q[k]
      OBVIOUS
    <2> HIDE DEF v
    <2>2. 0 + Len(v) <= Len(q) /\ \A k \in 1 .. Len(v) : v[k] = q[k + 0]
      BY <2>1
    <2>3. Part(v, q)
      BY <2>2 DEF Part
    <2> QED
      BY <2>3 DEF v
  <1> QED
    BY <1>1, <1>2, <1>3, <1>4

(* ACKs of a part.                                                         *)
LEMMA AcksPart ==
    ASSUME NEW q \in Seq(Frame), NEW v \in Seq(Frame), Part(v, q), NEW c,
           AcksUpto(q, Len(q), c)
    PROVE  AcksUpto(v, Len(v), c)
  <1>1. PICK a \in Nat : a + Len(v) <= Len(q) /\ \A k \in 1 .. Len(v) : v[k] = q[k + a]
    BY DEF Part
  <1>2. \A j \in 1 .. Len(v) : j + a \in 1 .. Len(q)
    BY <1>1
  <1> QED
    BY <1>1, <1>2 DEF AcksUpto

(* Parts of the queues ask for nothing new.                                *)
LEMMA AsksPart ==
    ASSUME NEW U \in [Tunnels -> Seq(Frame)], NEW V \in [Tunnels -> Seq(Frame)],
           \A u \in Tunnels : Part(V[u], U[u]), NEW t \in Tunnels, NEW d, NEW b, Asks(U, t, d, b)
    PROVE  Asks(V, t, d, b)
  <1>1. PICK a \in Nat : /\ a + Len(V[t]) <= Len(U[t])
                         /\ \A k \in 1 .. Len(V[t]) : V[t][k] = U[t][k + a]
    BY DEF Part
  <1>2. ASSUME NEW k \in 1 .. Len(V[t]), Attaches(V[t][k])
        PROVE  /\ b <= V[t][k].off /\ V[t][k].off <= d
               /\ V[t][k].type = "OPEN" => V[t][k].off = 0
               /\ AcksUpto(V[t], k, V[t][k].off)
               /\ \A u \in Tunnels : u # t => AcksUpto(V[u], Len(V[u]), V[t][k].off)
    <2> DEFINE c == V[t][k].off
    <2>1. k + a \in 1 .. Len(U[t]) /\ V[t][k] = U[t][k + a]
      BY <1>1
    <2>2. /\ b <= c /\ c <= d /\ AcksUpto(U[t], k + a, c) /\ (V[t][k].type = "OPEN" => c = 0)
          /\ \A u \in Tunnels : u # t => AcksUpto(U[u], Len(U[u]), c)
      BY <1>2, <2>1 DEF Asks
    <2>3. \A j \in 1 .. k : j + a \in 1 .. k + a /\ j \in 1 .. Len(V[t])
      BY <2>1
    <2> HIDE DEF c
    <2>4. AcksUpto(V[t], k, c)
      BY <1>1, <2>2, <2>3 DEF AcksUpto
    <2>5. \A u \in Tunnels : u # t => AcksUpto(V[u], Len(V[u]), c)
      BY <2>2, AcksPart
    <2> QED
      BY <2>2, <2>4, <2>5 DEF c
  <1> QED
    BY <1>2 DEF Asks

(* The agent got more, or an older byte is retained.                       *)
LEMMA AsksMore ==
    ASSUME NEW U \in [Tunnels -> Seq(Frame)], NEW t \in Tunnels, NEW d \in Nat, NEW e \in Nat,
           d <= e, NEW b \in Nat, NEW c \in Nat, c <= b, Asks(U, t, d, b)
    PROVE  Asks(U, t, e, c)
  <1>1. \A k \in 1 .. Len(U[t]) : U[t][k] \in Frame
    OBVIOUS
  <1>2. \A k \in 1 .. Len(U[t]) : U[t][k].off \in Nat
    BY <1>1, UptoNat
  <1> QED
    BY <1>2 DEF Asks

(* A frame is sent on the connection: no ATTACH, or one that asks for what *)
(* the broker still has, whatever ACKs are on their way.                   *)
LEMMA AsksSend ==
    ASSUME IInv, Orderly, conn # 0, Asks(upq, conn, cs.downDelivered, bs[1].downBuf.base),
           NEW f \in Frame, Send(f), Attaches(f) => f.off = cs.downDelivered,
           f.type = "OPEN" => f.off = 0
    PROVE  Asks(upq', conn, cs.downDelivered, bs[1].downBuf.base)
  <1> DEFINE d == cs.downDelivered
             b == bs[1].downBuf.base
             q == upq[conn]
             g == OnWire(f)
             r == Append(q, g)
             n == Len(q)
  <1>1. conn \in Tunnels /\ q \in Seq(Frame) /\ b <= d /\ d \in Nat /\ b \in Nat
        /\ upq \in [Tunnels -> Seq(Frame)] /\ conn \in 0 .. MaxTunnels
        /\ \A u \in Tunnels : upq[u] \in Seq(Frame) /\ AcksOK(upq[u], d)
    BY DownTypes, SidecarFacts
  <1>2. \A u \in Tunnels : upq'[u] = IF conn = u /\ link[u] = "up" THEN Append(upq[u], g) ELSE upq[u]
    BY <1>1, WriteFrameIs DEF Send
  <1>3. CASE link[conn] # "up"
    <2>1. \A u \in Tunnels : upq'[u] = upq[u]
      BY <1>2, <1>3
    <2> QED
      BY <1>1, <2>1 DEF Asks
  <1>4. CASE link[conn] = "up"
    <2>1. upq'[conn] = r /\ \A u \in Tunnels : u # conn => upq'[u] = upq[u]
      BY <1>1, <1>2, <1>4
    <2>2. g \in Frame /\ (Attaches(g) => g = f)
      BY OnWireFrame DEF OnWire, Ctl, Attaches
    <2>3. n \in Nat /\ Len(r) = n + 1 /\ r[n + 1] = g /\ \A k \in 1 .. n : r[k] = q[k]
      BY <1>1, <2>2
    <2>4. \A u \in Tunnels : AcksUpto(upq[u], Len(upq[u]), d)
      BY <1>1 DEF AcksOK, AcksUpto
    <2> HIDE DEF r, g
    <2>5. ASSUME NEW k \in 1 .. Len(r), Attaches(r[k])
          PROVE  /\ b <= r[k].off /\ r[k].off <= d /\ AcksUpto(r, k, r[k].off)
                 /\ r[k].type = "OPEN" => r[k].off = 0
                 /\ \A u \in Tunnels : u # conn => AcksUpto(upq'[u], Len(upq'[u]), r[k].off)
      <3>1. CASE k \in 1 .. n
        <4>1. r[k] = q[k] /\ \A j \in 1 .. k : r[j] = q[j]
          BY <2>3, <3>1
        <4>2. /\ b <= q[k].off /\ q[k].off <= d /\ AcksUpto(q, k, q[k].off)
              /\ q[k].type = "OPEN" => q[k].off = 0
              /\ \A u \in Tunnels : u # conn => AcksUpto(upq[u], Len(upq[u]), q[k].off)
          BY <1>1, <2>5, <3>1, <4>1 DEF Asks
        <4> QED
          BY <2>1, <4>1, <4>2 DEF AcksUpto
      <3>2. CASE k = n + 1
        <4>1. r[k] = f /\ f.off = d /\ f.type # "ACK" /\ (f.type = "OPEN" => f.off = 0)
          BY <2>2, <2>3, <2>5, <3>2 DEF Attaches
        <4>2. \A j \in 1 .. n : q[j].type = "ACK" => q[j].off <= d
          BY <1>1, <2>4 DEF AcksUpto
        <4>3. AcksUpto(r, k, d)
          <5> SUFFICES ASSUME NEW j \in 1 .. n + 1, r[j].type = "ACK" PROVE r[j].off <= d
            BY <3>2 DEF AcksUpto
          <5>1. j # n + 1
            BY <3>2, <4>1
          <5>2. j \in 1 .. n /\ r[j] = q[j]
            BY <2>3, <5>1
          <5> QED
            BY <4>2, <5>2
        <4>4. \A u \in Tunnels : u # conn => AcksUpto(upq'[u], Len(upq'[u]), d)
          BY <2>1, <2>4
        <4>5. r[k].off = d
          BY <4>1
        <4> QED
          BY <1>1, <4>1, <4>3, <4>4, <4>5
      <3> QED
        BY <2>3, <2>5, <3>1, <3>2
    <2> QED
      BY <2>1, <2>5 DEF Asks
  <1> QED
    BY <1>3, <1>4

(* Frames are taken or lost, and the broker has what it had.               *)
LEMMA AskedPart ==
    ASSUME IInv, IInv', Orderly, Asked, conn' = conn,
           \A k \in 1 .. Len(wout') : ~Attaches(wout'[k]),
           \A k \in 1 .. Len(rout') : ~Attaches(rout'[k]),
           \A u \in Tunnels : Part(upq'[u], upq[u]),
           cs.downDelivered <= cs'.downDelivered, bs'[1].downBuf.base <= bs[1].downBuf.base,
           \A t \in Tunnels : link'[t] = "ended" => upq'[t] = <<>>,
           \A t \in Tunnels : link'[t] = "up" => link[t] = "up"
    PROVE  Asked'
  <1>1. ASSUME conn # 0 PROVE Asks(upq', conn, cs'.downDelivered, bs'[1].downBuf.base)
    <2>1. conn \in Tunnels /\ upq \in [Tunnels -> Seq(Frame)] /\ upq' \in [Tunnels -> Seq(Frame)]
          /\ cs.downDelivered \in Nat /\ cs'.downDelivered \in Nat
      BY <1>1, SidecarFacts DEF IInv, TypeOK, ClientSessionType
    <2>2. bs[1].downBuf.base \in Nat /\ bs'[1] \in SessionType
      <3>1. bs' \in [Dials -> SessionType] /\ 1 \in Dials
        BY OneDial DEF IInv, TypeOK
      <3>2. bs'[1] \in SessionType
        BY <3>1
      <3> QED
        BY <3>2, DownTypes
    <2>3. bs'[1].downBuf \in ReplayBufferType
      BY <2>2 DEF SessionType
    <2>4. bs'[1].downBuf.base \in Nat
      BY <2>3, EndNat
    <2> DEFINE V == upq'
               d == cs.downDelivered
               e == cs'.downDelivered
               b == bs[1].downBuf.base
               c == bs'[1].downBuf.base
    <2>5. Asks(V, conn, d, b)
      BY <1>1, <2>1, AsksPart DEF Asked
    <2>6. conn \in Tunnels /\ V \in [Tunnels -> Seq(Frame)] /\ d \in Nat /\ e \in Nat /\ d <= e
          /\ b \in Nat /\ c \in Nat /\ c <= b
      BY <2>1, <2>2, <2>4
    <2> HIDE DEF V, d, e, b, c
    <2>7. Asks(V, conn, e, c)
      BY <2>5, <2>6, AsksMore
    <2> QED
      BY <2>7 DEF V, e, c
  <1> QED
    BY <1>1 DEF Asked

(* A frame is sent.                                                        *)
LEMMA AskedSend ==
    ASSUME IInv, Orderly, Asked, NEW f \in Frame, Send(f),
           Attaches(f) => f.off = cs.downDelivered, f.type = "OPEN" => f.off = 0,
           UNCHANGED <<conn, link, bs>>,
           cs'.downDelivered = cs.downDelivered,
           wout' \in {wout, <<>>}, rout' \in {rout, <<>>}
    PROVE  Asked'
  <1>1. upq \in [Tunnels -> Seq(Frame)] /\ conn \in 0 .. MaxTunnels
    BY SidecarFacts
  <1>2. \A u \in Tunnels : link[u] = "ended" => upq'[u] = <<>>
    BY <1>1, WriteFrameIs DEF Send, Asked
  <1>3. conn # 0 => Asks(upq', conn, cs.downDelivered, bs[1].downBuf.base)
    BY AsksSend DEF Asked
  <1> QED
    BY <1>2, <1>3 DEF Asked

(* Nothing goes down before the agent has written.                         *)
LEMMA NothingYet ==
    ASSUME IInv, QInv, Orderly, Downstream, Paced, cs.st \in {"none", "opening"}
    PROVE  cs.downDelivered = 0 /\ End(bs[1].downBuf) = 0
  <1> DEFINE c == srv[1]
             e == End(bs[1].downBuf)
  <1>1. End(cs.upBuf) = 0
    BY DEF Paced
  <1>2. c.sent \in Nat /\ e \in Nat /\ c \in ServerConnType /\ cs.downDelivered \in Nat
        /\ cs.downDelivered <= e
    BY DownTypes DEF Downstream
  <1>3. SupplyOK(bs[1], c, 0)
    BY <1>1, OneDial, QFacts
  <1>4. c.got \in Seq(Byte)
    BY <1>2 DEF ServerConnType
  <1>5. Len(c.got) = 0
    BY <1>3, <1>4 DEF SupplyOK
  <1>6. Owed(0) = 0
    <2>1. ReqLen \in Nat \ {0} /\ RespLen \in Nat \ {0} /\ Rounds \in Nat \ {0}
      BY LengthsAssumption
    <2>2. 0 \div ReqLen = 0
      BY <2>1
    <2> QED
      BY <2>1, <2>2 DEF Owed
  <1> QED
    BY <1>2, <1>3, <1>5, <1>6 DEF SupplyOK

(* A frame that is held is no ATTACH.                                      *)
LEMMA NoAttach ==
    /\ \A off : ~Attaches(Ctl("ACK", off)) /\ ~Attaches(Ctl("CLOSE", off))
    /\ \A off, p : ~Attaches(Data(off, p))
    /\ \A f : ~Attaches(f) => f.type # "OPEN"
    /\ \A off : \A k \in 1 .. Len(<<Ctl("ACK", off)>>) : ~Attaches(<<Ctl("ACK", off)>>[k])
    /\ \A off, p : \A k \in 1 .. Len(<<Data(off, p)>>) : ~Attaches(<<Data(off, p)>>[k])
    /\ \A k \in 1 .. Len(<<>>) : ~Attaches(<<>>[k])
  <1>1. \A off : ~Attaches(Ctl("ACK", off)) /\ ~Attaches(Ctl("CLOSE", off))
    BY DEF Ctl, Attaches
  <1>2. \A off, p : ~Attaches(Data(off, p))
    BY DEF Data, Attaches
  <1>3. \A f : ~Attaches(f) => f.type # "OPEN"
    BY DEF Attaches
  <1> QED
    BY <1>1, <1>2, <1>3

(* The steps of the proxy's goroutines.                                    *)
LEMMA ProxyAsked ==
    ASSUME IInv, IInv', QInv, Orderly, DInv, ProxyPump \/ ProxyClose
    PROVE  Asked'
  <1>1. Asked /\ Downstream /\ Paced /\ cs \in ClientSessionType
        /\ wout \in Seq(Frame) /\ upq \in [Tunnels -> Seq(Frame)] /\ cs.downDelivered \in Nat
    BY SidecarFacts DEF DInv
  <1>2. CASE OpenSession \/ \E n \in 1 .. UpCap : WriteUp(n)
    <2>1. UNCHANGED <<conn, rout, upq, link, bs>>
          /\ (wout' = wout \/ \E off, p : wout' = <<Data(off, p)>>)
          /\ (\E b : cs' = [cs EXCEPT !.upBuf = b] \/ cs' = [cs EXCEPT !.st = b])
      BY <1>2 DEF OpenSession, WriteUp, brokerVars
    <2>2. cs'.downDelivered = cs.downDelivered
      BY <1>1, <2>1 DEF ClientSessionType
    <2>3. \A u \in Tunnels : Part(upq'[u], upq[u])
      BY <1>1, <2>1, Parts
    <2>4. \A k \in 1 .. Len(wout') : ~Attaches(wout'[k])
      BY <1>1, <2>1, NoAttach DEF Asked
    <2> QED
      BY <1>1, <2>1, <2>2, <2>3, <2>4, AskedPart, DownTypes DEF Asked
  <1>3. CASE SendOpen
    <2> DEFINE f == Ctl("OPEN", 0)
    <2>1. cs.downDelivered = 0
      BY <1>1, <1>3, NothingYet DEF SendOpen
    <2>2. f \in Frame /\ f.off = 0
      BY CtlFrame DEF FrameType
    <2>3. Send(f) /\ UNCHANGED <<conn, link, bs, wout, rout>> /\ cs' = [cs EXCEPT !.st = "open"]
      BY <1>3 DEF SendOpen, brokerVars
    <2>4. cs'.downDelivered = cs.downDelivered
      BY <1>1, <2>3 DEF ClientSessionType
    <2> HIDE DEF f
    <2> QED
      BY <1>1, <2>1, <2>2, <2>3, <2>4, AskedSend
  <1>4. CASE WriteUpSend
    <2>1. 1 \in 1 .. Len(wout) /\ wout[1] \in Frame
      BY <1>1, <1>4 DEF WriteUpSend
    <2>2. ~Attaches(wout[1])
      BY <1>1, <2>1 DEF Asked
    <2>3. Send(wout[1]) /\ UNCHANGED <<conn, link, bs, cs, rout>> /\ wout' = <<>>
      BY <1>4 DEF WriteUpSend, brokerVars
    <2> QED
      BY <1>1, <2>1, <2>2, <2>3, AskedSend, NoAttach
  <1>5. ASSUME NEW half \in BOOLEAN, CloseUp(half) PROVE Asked'
    <2> DEFINE f == Ctl("CLOSE", 0)
    <2>1. f \in Frame /\ ~Attaches(f) /\ f.type # "OPEN"
      BY CtlFrame, NoAttach DEF FrameType
    <2>2. Send(f) /\ UNCHANGED <<conn, link, bs, wout, rout>>
          /\ cs' = [cs EXCEPT !.upClosed = TRUE]
      BY <1>5 DEF CloseUp, brokerVars
    <2>3. cs'.downDelivered = cs.downDelivered
      BY <1>1, <2>2 DEF ClientSessionType
    <2> HIDE DEF f
    <2> QED
      BY <1>1, <2>1, <2>2, <2>3, AskedSend
  <1> QED
    BY <1>2, <1>3, <1>4, <1>5 DEF ProxyPump, ProxyClose

(* The steps of Client.Run.                                                *)
LEMMA ClientAsked ==
    ASSUME IInv, IInv', Orderly, Asked, ClientRun
    PROVE  Asked'
  <1>1. /\ rout \in Seq(Frame) /\ upq \in [Tunnels -> Seq(Frame)] /\ cs.downDelivered \in Nat
        /\ bs[1].downBuf.base \in Nat /\ link \in [Tunnels -> {"up", "cut", "ended"}]
        /\ \A u \in Tunnels : Part(upq[u], upq[u])
    BY SidecarFacts, DownTypes, Parts
  <1>2. CASE RecvAck \/ RecvAttachOK \/ RecvClose \/ \E ok \in BOOLEAN : RecvData(ok)
    <2>1. UNCHANGED <<conn, wout, link, upq, bs>> /\ cs.downDelivered <= cs'.downDelivered
      BY <1>2, RecvShape DEF brokerVars
    <2>2. rout' \in {rout, <<>>} \/ \E off, p : rout' \in {<<Ctl("ACK", off)>>, <<Data(off, p)>>}
      BY <1>2, RecvShape
    <2>3. \A k \in 1 .. Len(rout') : ~Attaches(rout'[k])
      BY <2>2, NoAttach DEF Asked
    <2> QED
      BY <1>1, <2>1, <2>3, AskedPart DEF Asked
  <1>3. CASE Reattach
    <2> DEFINE f == Ctl("ATTACH", cs.downDelivered)
    <2>1. f \in Frame /\ f.off = cs.downDelivered /\ f.type # "OPEN"
      BY <1>1, CtlFrame DEF FrameType
    <2>2. Send(f) /\ UNCHANGED <<conn, link, bs, cs, wout, rout>>
      BY <1>3 DEF Reattach, brokerVars
    <2> HIDE DEF f
    <2> QED
      BY <2>1, <2>2, AskedSend
  <1>4. CASE ReadLoopSend
    <2>1. 1 \in 1 .. Len(rout) /\ rout[1] \in Frame
      BY <1>1, <1>4 DEF ReadLoopSend
    <2>2. ~Attaches(rout[1])
      BY <2>1 DEF Asked
    <2>3. Send(rout[1]) /\ UNCHANGED <<conn, link, bs, cs, wout>> /\ rout' = <<>>
      BY <1>4 DEF ReadLoopSend, brokerVars
    <2> QED
      BY <2>1, <2>2, <2>3, AskedSend, NoAttach
  <1>5. CASE Disconnect
    <2>1. conn' = 0 /\ UNCHANGED <<wout, rout, upq>>
          /\ link' = [link EXCEPT ![conn] = IF @ = "up" THEN "cut" ELSE @]
      BY <1>5 DEF Disconnect
    <2>2. \A t \in Tunnels : link'[t] = "ended" => link[t] = "ended"
      BY <1>1, <2>1
    <2>3. \A t \in Tunnels : link'[t] # "up"
      BY <1>1, <2>1 DEF Asked
    <2> QED
      BY <2>1, <2>2, <2>3 DEF Asked
  <1>6. ASSUME NEW t \in Tunnels, Connect(t) PROVE Asked'
    <2>1. conn' = t /\ UNCHANGED <<wout, rout>> /\ upq' = [upq EXCEPT ![t] = <<>>]
          /\ link' = [link EXCEPT ![t] = "up"]
      BY <1>6 DEF Connect
    <2>2. upq'[t] = <<>> /\ \A u \in Tunnels : link'[u] = "ended" => upq'[u] = <<>>
      BY <1>1, <2>1 DEF Asked
    <2>4. \A u \in Tunnels : link'[u] = "up" => u = t
      <3>1. conn = 0 /\ 0 \notin Tunnels
        BY <1>6, SidecarFacts DEF Connect, Tunnels
      <3> QED
        BY <1>1, <2>1, <3>1 DEF Asked
    <2>3. Asks(upq', t, cs'.downDelivered, bs'[1].downBuf.base)
      BY <2>2 DEF Asks
    <2> QED
      BY <2>1, <2>2, <2>3, <2>4 DEF Asked
  <1> QED
    BY <1>2, <1>3, <1>4, <1>5, <1>6 DEF ClientRun

(* The platform.                                                           *)
LEMMA PlatformAsked ==
    ASSUME IInv, IInv', Orderly, Asked,
           ResumeActor \/ ResumeElsewhere \/ Suspend \/ Break \/ UNCHANGED vars
    PROVE  Asked'
  <1>1. /\ upq \in [Tunnels -> Seq(Frame)] /\ cs.downDelivered \in Nat
        /\ bs[1].downBuf.base \in Nat /\ link \in [Tunnels -> {"up", "cut", "ended"}]
        /\ \A u \in Tunnels : Part(upq[u], upq[u])
    BY SidecarFacts, DownTypes, Parts
  <1>2. UNCHANGED <<conn, cs, wout, rout, bs>>
    BY DEF ResumeActor, ResumeElsewhere, Suspend, Break, vars, sidecarVars, brokerVars
  <1>3. /\ \A u \in Tunnels : Part(upq'[u], upq[u])
        /\ \A t \in Tunnels : link'[t] = "ended" => upq'[t] = <<>>
        /\ \A t \in Tunnels : link'[t] = "up" => link[t] = "up"
    <2>1. CASE (Suspend \/ Break) /\ conn # 0 /\ link[conn] = "up"
      <3>1. conn \in Tunnels /\ Cut
        BY <2>1, SidecarFacts DEF Suspend, Break
      <3>2. PICK k \in 0 .. Len(upq[conn]) :
               upq' = [upq EXCEPT ![conn] = SubSeq(upq[conn], 1, k)]
        BY <2>1, <3>1 DEF Cut
      <3>3. link' = [link EXCEPT ![conn] = "cut"]
        BY <2>1, <3>1 DEF Cut
      <3>4. Part(SubSeq(upq[conn], 1, k), upq[conn])
        BY <1>1, <3>1, Parts
      <3> QED
        BY <1>1, <3>1, <3>2, <3>3, <3>4 DEF Asked
    <2>2. CASE ~((Suspend \/ Break) /\ conn # 0 /\ link[conn] = "up")
      <3>1. upq' = upq /\ link' = link
        BY <2>2 DEF Suspend, Break, ResumeActor, ResumeElsewhere, Cut, vars
      <3> QED
        BY <1>1, <3>1 DEF Asked
    <2> QED
      BY <2>1, <2>2
  <1> QED
    BY <1>1, <1>2, <1>3, AskedPart DEF Asked

(* serveTunnel took a frame.                                               *)
LEMMA ServePart ==
    ASSUME IInv, Orderly, Asked, NEW t \in Tunnels, NEW type, Serve(t, type)
    PROVE  /\ \A u \in Tunnels : Part(upq'[u], upq[u])
           /\ \A u \in Tunnels : link[u] = "ended" => upq'[u] = <<>>
           /\ link[t] # "ended" /\ Head(upq[t]) = upq[t][1] /\ 1 \in 1 .. Len(upq[t])
           /\ upq[t][1] \in Frame /\ upq[t][1].type = type
  <1>1. upq \in [Tunnels -> Seq(Frame)] /\ upq[t] # <<>> /\ upq[t] \in Seq(Frame)
        /\ upq' = [upq EXCEPT ![t] = Tail(upq[t])] /\ Head(upq[t]).type = type
    BY SidecarFacts DEF Serve
  <1>2. \A u \in Tunnels : link[u] = "ended" => upq[u] = <<>>
    BY DEF Asked
  <1>3. \A u \in Tunnels : upq'[u] = IF u = t THEN Tail(upq[t]) ELSE upq[u]
    BY <1>1
  <1>4. \A u \in Tunnels : Part(upq'[u], upq[u])
    BY <1>1, <1>3, Parts
  <1>5. link[t] # "ended"
    BY <1>1, <1>2
  <1>6. Head(upq[t]) = upq[t][1] /\ 1 \in 1 .. Len(upq[t]) /\ upq[t][1] \in Frame
    BY <1>1
  <1> QED
    BY <1>1, <1>2, <1>3, <1>4, <1>5, <1>6

(* A step of the broker, of the session or of its destination that trims   *)
(* nothing.                                                                *)
LEMMA BrokerAsked ==
    ASSUME IInv, IInv', Orderly, Asked, UNCHANGED <<sidecarVars, link>>,
           upq' = upq \/ \E t \in Tunnels : \E type : Serve(t, type),
           bs'[1].downBuf.base <= bs[1].downBuf.base
    PROVE  Asked'
  <1>1. UNCHANGED <<conn, cs, wout, rout>> /\ cs.downDelivered \in Nat
    BY SidecarFacts DEF sidecarVars
  <1>2. /\ \A u \in Tunnels : Part(upq'[u], upq[u])
        /\ \A u \in Tunnels : link[u] = "ended" => upq'[u] = <<>>
    BY ServePart, Parts, SidecarFacts DEF Asked
  <1> QED
    BY <1>1, <1>2, AskedPart DEF Asked

-----------------------------------------------------------------------------
(* The downstream direction.                                               *)

(* The parts of Downstream.                                                *)
LEMMA DownFacts ==
    ASSUME Downstream
    PROVE  /\ Ours(bs[1].downBuf.buf) /\ Ours(agentGot)
           /\ cs.downDelivered <= End(bs[1].downBuf)
           /\ \A t \in Tunnels : Tidy(downq[t], End(bs[1].downBuf), srv[1].fin)
           /\ Live => Flow(downq[conn], cs.downDelivered, srv[1].sent)
           /\ Sound(Broker) /\ ((\A t \in Tunnels : ~Attaching(pend[t])) => Caught(Broker))
  <1>1. Broker.s = bs /\ Broker.q = downq
    BY DEF Broker
  <1> QED
    BY <1>1 DEF Downstream, Sound

(* What a step of the broker has to show.                                  *)
LEMMA DownRule ==
    ASSUME Downstream, NEW B, Commit(B), UNCHANGED <<sidecarVars, link>>,
           srv'[1].fin = srv[1].fin, srv'[1].sent = srv[1].sent,
           Ours(B.s[1].downBuf.buf), cs.downDelivered <= End(B.s[1].downBuf), Sound(B),
           (\A t \in Tunnels : ~Attaching(pend'[t])) => Caught(B),
           \A t \in Tunnels : Attaching(pend'[t]) => Resends(pend'[t][1], B.s[1])
    PROVE  Downstream'
  <1>1. /\ conn' = conn /\ cs' = cs /\ agentGot' = agentGot /\ link' = link
        /\ bs' = B.s /\ Broker'.s = B.s /\ Broker'.q = B.q
    BY DEF sidecarVars, Commit, Broker
  <1>2. Live' = Live /\ \A s : Reading(s)' = Reading(s)
    BY <1>1 DEF Live, Reading
  <1>3. Sound(Broker)'
    BY <1>1, <1>2 DEF Sound
  <1>4. (\A t \in Tunnels : ~Attaching(pend'[t])) => Caught(Broker)'
    BY <1>1, <1>2 DEF Caught, Reading
  <1>5. \A t \in Tunnels : Attaching(pend'[t]) => Resends(pend[t][1], bs[1])'
    BY <1>1 DEF Resends, Reading
  <1> QED
    BY <1>1, <1>3, <1>4, <1>5 DEF Downstream

(* A handler sent what it had to, the others go on.                        *)
LEMMA SentDown ==
    ASSUME IInv, Orderly, Downstream, NEW B, Commit(B), UNCHANGED <<sidecarVars, link>>,
           srv'[1].fin = srv[1].fin, srv'[1].sent = srv[1].sent, Sound(B), Goes(bs[1], B.s[1]),
           (\A t \in Tunnels : ~Attaching(pend'[t])) => Caught(B),
           \A t \in Tunnels : Attaching(pend'[t]) => pend'[t] = pend[t]
    PROVE  Downstream'
  <1>1. Reading(B.s[1]) => Reading(bs[1])
    BY DEF Goes, Reading
  <1>2. \A t \in Tunnels : Attaching(pend'[t]) => Resends(pend[t][1], bs[1])
    BY DEF Downstream
  <1>3. \A t \in Tunnels : Attaching(pend'[t]) => Resends(pend'[t][1], B.s[1])
    BY <1>1, <1>2 DEF Resends, Goes
  <1> QED
    BY <1>3, DownFacts, DownRule DEF Goes

(* Nothing is sent, and no more is read.                                   *)
LEMMA KeptDown ==
    ASSUME Downstream, UNCHANGED <<conn, agentGot, downq>>,
           cs'.downDelivered = cs.downDelivered, cs'.st # "gone" => cs.st # "gone",
           End(bs'[1].downBuf) = End(bs[1].downBuf), Ours(bs'[1].downBuf.buf),
           bs[1].downClosed => bs'[1].downClosed,
           srv'[1].fin = srv[1].fin, srv'[1].sent = srv[1].sent,
           (conn # 0 /\ bs'[1].tconn = conn /\ link'[conn] = "up") => Reading(bs[1]),
           \A t \in Tunnels : Attaching(pend'[t]) => pend'[t] = pend[t],
           (\A t \in Tunnels : ~Attaching(pend'[t])) => (\A t \in Tunnels : ~Attaching(pend[t]))
    PROVE  Downstream'
  <1>1. Broker'.s = bs' /\ Broker'.q = downq /\ Broker.s = bs /\ Broker.q = downq
    BY DEF Broker
  <1>2. (Live' => Live) /\ (Reading(bs[1])' => Reading(bs[1]))
    BY DEF Live, Reading
  <1>3. Sound(Broker)'
    BY <1>1, <1>2, DownFacts DEF Sound
  <1>4. (\A t \in Tunnels : ~Attaching(pend'[t])) => Caught(Broker)'
    <2> SUFFICES ASSUME \A t \in Tunnels : ~Attaching(pend'[t]), Live', Reading(bs[1])'
                 PROVE  Reach(downq[conn], Len(downq[conn]), cs.downDelivered, End(bs[1].downBuf))
      BY <1>1 DEF Caught
    <2>1. Caught(Broker)
      BY DownFacts
    <2> QED
      BY <1>1, <1>2, <2>1 DEF Caught
  <1>5. \A t \in Tunnels : Attaching(pend'[t]) => Resends(pend[t][1], bs[1])'
    BY <1>2 DEF Resends, Downstream
  <1> QED
    BY <1>3, <1>4, <1>5, DownFacts DEF Downstream

(* What deliverDown takes of a frame that leaves no gap goes to the end of *)
(* it.                                                                     *)
LEMMA FreshEnd ==
    ASSUME NEW p \in Seq(Byte), NEW off \in Nat, NEW want \in Nat
    PROVE  LET r == Fresh(off, p, want)
           IN  /\ r \in Seq(Byte) /\ Len(r) \in Nat /\ (Ours(p) => Ours(r))
               /\ r # <<>> => want + Len(r) = off + Len(p) /\ p # <<>>
               /\ r = <<>> /\ off <= want => off + Len(p) <= want
  <1> DEFINE m == want - off + 1
             r == Fresh(off, p, want)
  <1>1. CASE want < off \/ m > Len(p)
    <2>1. r = <<>>
      BY <1>1 DEF Fresh
    <2> QED
      BY <1>1, <2>1 DEF Ours
  <1>2. CASE want >= off /\ m <= Len(p)
    <2>1. m \in 1 .. Len(p) /\ p # <<>> /\ Len(p) \in Nat
      BY <1>2
    <2>2. r = SubSeq(p, m, Len(p))
      BY <1>2 DEF Fresh
    <2>3. r \in Seq(Byte) /\ Len(r) = Len(p) - m + 1 /\ \A k \in 1 .. Len(r) : r[k] = p[m + k - 1]
      BY <2>1, <2>2
    <2>4. Len(r) \in Nat /\ Len(r) > 0 /\ want + Len(r) = off + Len(p)
      BY <2>1, <2>3
    <2>5. \A k \in 1 .. Len(r) : m + k - 1 \in 1 .. Len(p)
      BY <2>1, <2>3
    <2>6. Ours(p) => Ours(r)
      BY <2>3, <2>5 DEF Ours
    <2>7. r # <<>>
      BY <2>4
    <2> QED
      BY <2>1, <2>3, <2>4, <2>6, <2>7
  <1> QED
    BY <1>1, <1>2

(* Bytes of the destination's, one after the other.                        *)
LEMMA ConcatOurs ==
    ASSUME NEW p \in Seq(Byte), NEW q \in Seq(Byte), Ours(p), Ours(q)
    PROVE  Ours(p \o q)
  <1> SUFFICES ASSUME NEW k \in 1 .. Len(p \o q) PROVE (p \o q)[k][1] = 1
    BY DEF Ours
  <1>1. Len(p \o q) = Len(p) + Len(q)
    OBVIOUS
  <1>2. CASE k <= Len(p)
    BY <1>2, <1>1 DEF Ours
  <1>3. CASE k > Len(p)
    <2>1. k - Len(p) \in 1 .. Len(q) /\ (p \o q)[k] = q[k - Len(p)]
      BY <1>1, <1>3
    <2> QED
      BY <2>1 DEF Ours
  <1> QED
    BY <1>2, <1>3

(* The agent has all of the frame that readLoop took, and nothing beyond   *)
(* what the broker has read.                                               *)
LEMMA ReadDown ==
    ASSUME IInv, QInv, Orderly, DInv,
           RecvAck \/ RecvAttachOK \/ RecvClose \/ \E ok \in BOOLEAN : RecvData(ok)
    PROVE  /\ conn \in Tunnels /\ downq[conn] # <<>>
           /\ downq' = [downq EXCEPT ![conn] = Tail(downq[conn])]
           /\ Ours(agentGot') /\ cs'.downDelivered <= End(bs[1].downBuf)
           /\ Live' => (downq[conn][1].data # <<>> => Upto(downq[conn][1]) <= cs'.downDelivered)
  <1> DEFINE q == downq[conn]
             f == Head(q)
             d == cs.downDelivered
             e == End(bs[1].downBuf)
             p == Fresh(f.off, f.data, d)
  <1>1. PICK type \in {"ACK", "ATTACH_OK", "DATA", "CLOSE", "LOST"} : Receive(type)
    BY DEF RecvAck, RecvAttachOK, RecvClose, RecvData
  <1>2. conn \in Tunnels /\ q # <<>> /\ f.type = type
        /\ downq' = [downq EXCEPT ![conn] = Tail(downq[conn])]
    BY <1>1, SidecarFacts DEF Receive
  <1>3. q \in Seq(Frame) /\ d \in Nat /\ e \in Nat /\ agentGot \in Seq(Byte)
        /\ cs \in ClientSessionType
    BY <1>2, DownTypes, SidecarFacts
  <1>4. 1 \in 1 .. Len(q) /\ f = q[1] /\ f \in Frame
    BY <1>2, <1>3
  <1>5. f.off \in Nat /\ f.data \in Seq(Byte) /\ Upto(f) \in Nat /\ f.off <= Upto(f)
    BY <1>4, UptoNat
  <1>6. FrameIn(f, e) /\ Kind(f, srv[1].fin) /\ Ours(agentGot) /\ d <= e /\ Downstream /\ Paced
    BY <1>2, <1>4, DownFacts DEF DInv, Tidy
  <1>7. p \in Seq(Byte) /\ Len(p) \in Nat /\ Ours(p)
        /\ (p # <<>> => d + Len(p) = Upto(f) /\ f.data # <<>>)
        /\ (p = <<>> /\ f.off <= d => Upto(f) <= d)
    BY <1>3, <1>5, <1>6, FreshEnd DEF FrameIn, Upto
  <1> HIDE DEF f, q, p, d, e
  <1>8. CASE type # "DATA"
    <2>1. f.data = <<>>
      BY <1>2, <1>6, <1>8 DEF Kind
    <2>2. RecvAck \/ RecvAttachOK \/ RecvClose
      BY <1>2, <1>8 DEF RecvData, Receive, f, q
    <2>3. agentGot' = agentGot
          /\ \E b : cs' = cs \/ cs' = [cs EXCEPT !.upBuf = b] \/ cs' = [cs EXCEPT !.downClosed = TRUE]
      BY <2>2 DEF RecvAck, RecvAttachOK, RecvClose
    <2>4. cs'.downDelivered = d
      BY <1>3, <2>3 DEF ClientSessionType, d
    <2> QED
      BY <1>2, <1>4, <1>6, <2>1, <2>3, <2>4 DEF q, e
  <1>9. ASSUME NEW ok \in BOOLEAN, RecvData(ok)
        PROVE  /\ Ours(agentGot') /\ cs'.downDelivered <= e
               /\ Live' => (f.data # <<>> => Upto(f) <= cs'.downDelivered)
    <2>1. CASE ~SessionKnown \/ p = <<>>
      <3>1. cs' = cs /\ agentGot' = agentGot /\ conn' = conn
        BY <1>9, <2>1 DEF RecvData, p, f, q, d
      <3>2. ASSUME Live', f.data # <<>> PROVE Upto(f) <= d
        <4>1. Live
          BY <3>1, <3>2 DEF Live
        <4>2. CASE cs.st = "none"
          <5>1. e = 0 /\ d = 0
            BY <1>6, <4>2, NothingYet DEF e, d
          <5> QED
            BY <1>5, <1>6, <3>2, <5>1 DEF FrameIn
        <4>3. CASE cs.st # "none"
          <5>1. cs.st \in {"opening", "open"}
            BY <1>3, <4>1, <4>3 DEF Live, ClientSessionType
          <5>2. p = <<>>
            BY <2>1, <5>1 DEF SessionKnown
          <5>3. Flow(q, d, srv[1].sent)
            BY <1>6, <4>1, DownFacts DEF q, d
          <5>4. Reach(q, 1 - 1, d, q[1].off)
            BY <1>4, <3>2, <5>3 DEF Flow
          <5>5. f.off <= d
            BY <1>4, <5>4 DEF Reach
          <5> QED
            BY <1>7, <5>2, <5>5
        <4> QED
          BY <4>2, <4>3
      <3> QED
        BY <1>6, <3>1, <3>2 DEF d
    <2>2. CASE SessionKnown /\ p # <<>> /\ ok
      <3>1. agentGot' = agentGot \o p /\ cs' = [cs EXCEPT !.downDelivered = d + Len(p)]
        BY <1>9, <2>2 DEF RecvData, p, f, q, d
      <3>2. cs'.downDelivered = d + Len(p)
        BY <1>3, <3>1 DEF ClientSessionType
      <3>3. Ours(agentGot')
        BY <1>3, <1>6, <1>7, <3>1, ConcatOurs
      <3>4. d + Len(p) = Upto(f) /\ Upto(f) <= e
        BY <1>6, <1>7, <2>2 DEF FrameIn
      <3> QED
        BY <1>5, <3>2, <3>3, <3>4
    <2>3. CASE SessionKnown /\ p # <<>> /\ ~ok
      <3>1. agentGot' = agentGot /\ cs' = [cs EXCEPT !.st = "gone"]
        BY <1>9, <2>3 DEF RecvData, p, f, q, d
      <3>2. cs'.downDelivered = d /\ cs'.st = "gone"
        BY <1>3, <3>1 DEF ClientSessionType, d
      <3> QED
        BY <1>6, <3>1, <3>2 DEF Live
    <2> QED
      BY <2>1, <2>2, <2>3
  <1>10. CASE type = "DATA"
    <2>1. \E ok \in BOOLEAN : RecvData(ok)
      BY <1>2, <1>10 DEF RecvAck, RecvAttachOK, RecvClose, Receive, f, q
    <2> QED
      BY <1>2, <1>4, <1>9, <2>1 DEF q, e
  <1> QED
    BY <1>8, <1>10

(* onUpstreamAck, onAttachOK, deliverDown and onClose.                     *)
LEMMA RecvDown ==
    ASSUME IInv, IInv', QInv, Orderly, DInv,
           RecvAck \/ RecvAttachOK \/ RecvClose \/ \E ok \in BOOLEAN : RecvData(ok)
    PROVE  Downstream'
  <1> DEFINE q == downq[conn]
             c == cs.downDelivered
             d == cs'.downDelivered
             e == End(bs[1].downBuf)
  <1>1. /\ conn \in Tunnels /\ q # <<>> /\ downq' = [downq EXCEPT ![conn] = Tail(q)]
        /\ Ours(agentGot') /\ d <= e /\ (Live' => (q[1].data # <<>> => Upto(q[1]) <= d))
    BY ReadDown
  <1>2. /\ cs'.st = cs.st \/ cs'.st = "gone"
        /\ c <= d /\ conn' = conn /\ link' = link /\ pend' = pend /\ bs' = bs /\ srv' = srv
    BY RecvShape DEF brokerVars
  <1>3. Downstream /\ q \in Seq(Frame) /\ c \in Nat /\ e \in Nat /\ srv[1].sent \in Nat
        /\ downq \in [Tunnels -> Seq(Frame)] /\ \A t \in Tunnels : downq[t] \in Seq(Frame)
    BY <1>1, DownTypes, SidecarFacts DEF DInv
  <1>4. d \in Nat
    BY DEF IInv, TypeOK, ClientSessionType
  <1>5. (Live' => Live) /\ \A s : Reading(s)' = Reading(s)
    BY <1>2 DEF Live, Reading
  <1>6. Broker'.s = bs /\ Broker'.q = downq' /\ Broker.s = bs /\ Broker.q = downq
    BY <1>2 DEF Broker
  <1>7. downq'[conn] = Tail(q) /\ \A t \in Tunnels : t # conn => downq'[t] = downq[t]
    BY <1>1, <1>3
  <1> HIDE DEF q, c, d, e
  <1>8. \A t \in Tunnels : Tidy(downq'[t], e, srv[1].fin)
    <2>1. \A t \in Tunnels : Tidy(downq[t], e, srv[1].fin)
      BY <1>3, DownFacts DEF e
    <2>2. Tidy(Tail(q), e, srv[1].fin)
      BY <1>1, <1>3, <2>1, TidyTail DEF q
    <2> QED
      BY <1>1, <1>7, <2>1, <2>2
  <1>9. Live' => Flow(downq'[conn], d, srv[1].sent)
    <2> SUFFICES ASSUME Live' PROVE Flow(Tail(q), d, srv[1].sent)
      BY <1>7
    <2>1. Flow(q, c, srv[1].sent)
      BY <1>3, <1>5, DownFacts DEF q, c
    <2> QED
      BY <1>1, <1>2, <1>3, <1>4, <2>1, FlowTail
  <1>10. Sound(Broker)'
    BY <1>2, <1>6, <1>8, <1>9 DEF Sound, e, d
  <1>11. (\A t \in Tunnels : ~Attaching(pend'[t])) => Caught(Broker)'
    <2> SUFFICES ASSUME \A t \in Tunnels : ~Attaching(pend[t]), Live', Reading(bs[1])'
                 PROVE  Reach(Tail(q), Len(Tail(q)), d, e)
      BY <1>2, <1>6, <1>7 DEF Caught, d, e
    <2>1. Caught(Broker)
      BY <1>3, DownFacts
    <2>2. Reach(q, Len(q), c, e)
      BY <1>2, <1>5, <1>6, <2>1 DEF Caught, q, c, e
    <2>3. Len(q) \in 1 .. Len(q) /\ Len(Tail(q)) = Len(q) - 1
      BY <1>1, <1>3
    <2>4. Reach(Tail(q), Len(q) - 1, d, e)
      BY <1>1, <1>2, <1>3, <1>4, <2>2, <2>3, ReachTail
    <2> QED
      BY <2>3, <2>4
  <1>12. ASSUME NEW t \in Tunnels, Attaching(pend[t]) PROVE Resends(pend[t][1], bs[1])'
    <2> DEFINE h == pend[t][1]
    <2>1. Resends(h, bs[1])
      BY <1>3, <1>12 DEF Downstream
    <2>2. h.off \in Nat
      <3>1. pend[t] \in Seq(Handler) /\ pend[t] # <<>>
        BY <1>12, BrokerFacts DEF Attaching
      <3>2. h \in Handler
        BY <3>1
      <3> QED
        BY <3>2 DEF Handler
    <2>3. pend'[t][1] = h
      BY <1>2
    <2> HIDE DEF h
    <2>4. Reading(bs[1]) => h.off <= d
      BY <1>2, <1>3, <1>4, <2>1, <2>2 DEF Resends, c
    <2> QED
      BY <1>2, <1>5, <2>1, <2>3, <2>4 DEF Resends, d
  <1> QED
    BY <1>1, <1>2, <1>10, <1>11, <1>12, DownFacts, <1>3 DEF Downstream, d, e

(* The proxy's goroutines, and sends of the readLoop.                      *)
LEMMA ProxyDown ==
    ASSUME IInv, Downstream, ProxyPump \/ ProxyClose \/ Reattach \/ ReadLoopSend
    PROVE  Downstream'
  <1>1. cs \in ClientSessionType
    BY SidecarFacts
  <1>2. UNCHANGED <<conn, agentGot, downq, link, brokerVars>>
        /\ \E b : \/ cs' = cs \/ cs' = [cs EXCEPT !.upClosed = b] \/ cs' = [cs EXCEPT !.upBuf = b]
                  \/ cs.st = "none" /\ cs' = [cs EXCEPT !.st = "opening"]
                  \/ cs.st = "opening" /\ cs' = [cs EXCEPT !.st = "open"]
    BY DEF ProxyPump, ProxyClose, SendOpen, WriteUpSend, OpenSession, WriteUp, CloseUp, Reattach,
       ReadLoopSend
  <1>3. cs'.downDelivered = cs.downDelivered /\ (cs'.st # "gone" => cs.st # "gone")
    BY <1>1, <1>2 DEF ClientSessionType
  <1>4. UNCHANGED <<pend, bs, srv>>
    BY <1>2 DEF brokerVars
  <1> QED
    BY <1>2, <1>3, <1>4, KeptDown, DownFacts DEF Reading

(* A new connection carries nothing, and no session is bound to it yet.    *)
LEMMA ConnectDown ==
    ASSUME IInv, Orderly, DInv, NEW t \in Tunnels, Connect(t)
    PROVE  Downstream'
  <1>1. /\ link[t] = "ended" /\ link' = [link EXCEPT ![t] = "up"] /\ conn' = t
        /\ downq' = [downq EXCEPT ![t] = <<>>] /\ UNCHANGED <<cs, agentGot, brokerVars>>
    BY DEF Connect
  <1>2. UNCHANGED <<pend, bs, srv>>
    BY <1>1 DEF brokerVars
  <1>3. Downstream /\ bs[1].tconn # t
    <2>1. t # 0 /\ Ending(bs[1], srv[1], cur) /\ Downstream
      BY DEF Tunnels, DInv
    <2> QED
      BY <1>1, <2>1 DEF Ending
  <1>4. downq'[t] = <<>> /\ \A u \in Tunnels : u # t => downq'[u] = downq[u]
    BY <1>1, SidecarFacts
  <1>5. Broker'.s = bs /\ Broker'.q = downq' /\ ~Reading(bs[1])'
    BY <1>1, <1>2, <1>3 DEF Broker, Reading
  <1>6. Tidy(<<>>, End(bs[1].downBuf), srv[1].fin)
        /\ Flow(<<>>, cs.downDelivered, srv[1].sent)
    BY DEF Tidy, Flow
  <1>7. \A u \in Tunnels : Tidy(downq'[u], End(bs[1].downBuf), srv[1].fin)
    BY <1>3, <1>4, <1>6, DownFacts
  <1>8. Sound(Broker)'
    BY <1>1, <1>2, <1>4, <1>5, <1>6, <1>7 DEF Sound
  <1>9. Caught(Broker)'
    BY <1>2, <1>5 DEF Caught, Reading
  <1>10. \A u \in Tunnels : Attaching(pend[u]) => Resends(pend[u][1], bs[1])'
    BY <1>2, <1>3, <1>5 DEF Resends, Downstream
  <1> QED
    BY <1>1, <1>2, <1>3, <1>8, <1>9, <1>10, DownFacts DEF Downstream

(* The connection is dropped.                                              *)
LEMMA DisconnectDown ==
    ASSUME IInv, Orderly, Downstream, Disconnect
    PROVE  Downstream'
  <1>1. /\ conn' = 0 /\ downq' = [downq EXCEPT ![conn] = <<>>]
        /\ UNCHANGED <<cs, agentGot, pend, bs, srv>>
    BY DEF Disconnect, brokerVars
  <1>2. \A u \in Tunnels : downq'[u] \in {<<>>, downq[u]}
    BY <1>1, SidecarFacts
  <1>3. Tidy(<<>>, End(bs[1].downBuf), srv[1].fin)
    BY DEF Tidy
  <1>4. Broker'.s = bs /\ Broker'.q = downq' /\ ~Live' /\ ~Reading(bs[1])'
    BY <1>1 DEF Broker, Reading, Live
  <1>5. Sound(Broker)' /\ Caught(Broker)'
    BY <1>1, <1>2, <1>3, <1>4, DownFacts DEF Sound, Caught
  <1>6. \A u \in Tunnels : Attaching(pend[u]) => Resends(pend[u][1], bs[1])'
    BY <1>1, <1>4 DEF Resends, Downstream
  <1> QED
    BY <1>1, <1>5, <1>6, DownFacts DEF Downstream

(* Suspends, failures and resumes: a prefix arrives, and nothing after it. *)
LEMMA PlatformDown ==
    ASSUME IInv, Orderly, Downstream,
           ResumeActor \/ ResumeElsewhere \/ Suspend \/ Break \/ UNCHANGED vars
    PROVE  Downstream'
  <1>1. UNCHANGED <<conn, cs, agentGot, pend, bs, srv>>
    BY DEF ResumeActor, ResumeElsewhere, Suspend, Break, vars, sidecarVars, brokerVars
  <1>2. CASE (Suspend \/ Break) /\ conn # 0 /\ link[conn] = "up"
    <2>1. conn \in Tunnels /\ Cut /\ downq \in [Tunnels -> Seq(Frame)] /\ downq[conn] \in Seq(Frame)
      BY <1>2, SidecarFacts DEF Suspend, Break
    <2>2. PICK k \in 0 .. Len(downq[conn]) :
             downq' = [downq EXCEPT ![conn] = SubSeq(downq[conn], 1, k)]
      BY <1>2, <2>1 DEF Cut
    <2>3. link'[conn] = "cut"
      BY <1>2, <2>1, SidecarFacts DEF Cut
    <2> DEFINE r == SubSeq(downq[conn], 1, k)
    <2>4. downq'[conn] = r /\ \A t \in Tunnels : t # conn => downq'[t] = downq[t]
      BY <2>1, <2>2
    <2>5. Tidy(r, End(bs[1].downBuf), srv[1].fin)
      BY <2>1, <2>2, TidyPrefix, DownFacts
    <2>6. Live => Flow(r, cs.downDelivered, srv[1].sent)
      BY <2>1, <2>2, FlowPrefix, DownFacts
    <2> HIDE DEF r
    <2>7. Broker'.s = bs /\ Broker'.q = downq' /\ Live' = Live /\ ~Reading(bs[1])'
      BY <1>1, <2>3 DEF Broker, Reading, Live
    <2>8. \A t \in Tunnels : Tidy(downq'[t], End(bs[1].downBuf), srv[1].fin)
      BY <2>4, <2>5, DownFacts
    <2>9. Sound(Broker)' /\ Caught(Broker)'
      BY <1>1, <2>4, <2>6, <2>7, <2>8 DEF Sound, Caught
    <2>10. \A u \in Tunnels : Attaching(pend[u]) => Resends(pend[u][1], bs[1])'
      BY <1>1, <2>7 DEF Resends, Downstream
    <2> QED
      BY <1>1, <2>9, <2>10, DownFacts DEF Downstream
  <1>3. CASE ~((Suspend \/ Break) /\ conn # 0 /\ link[conn] = "up")
    <2>1. downq' = downq /\ link' = link
      BY <1>3 DEF Suspend, Break, ResumeActor, ResumeElsewhere, Cut, vars
    <2> QED
      BY <1>1, <2>1, KeptDown, DownFacts DEF Reading
  <1> QED
    BY <1>2, <1>3

-----------------------------------------------------------------------------
(* One lemma per action.                                                   *)

(* The steps of the sidecar and of the platform.                           *)
LEMMA ElsewhereD ==
    ASSUME IInv, IInv', QInv, Orderly, DInv,
           \/ ProxyPump \/ ProxyClose \/ ClientRun \/ UNCHANGED vars
           \/ ResumeActor \/ ResumeElsewhere \/ Suspend \/ Break
    PROVE  Downstream' /\ Ending(bs[1], srv[1], cur)' /\ Asked'
  <1>1. Downstream /\ Asked /\ Ending(bs[1], srv[1], cur)
    BY DEF DInv
  <1>2. Asked'
    BY <1>1, ProxyAsked, ClientAsked, PlatformAsked
  <1>3. Downstream'
    BY <1>1, RecvDown, ProxyDown, ConnectDown, DisconnectDown, PlatformDown DEF ClientRun
  <1>4. UNCHANGED <<bs, srv, cur>>
    <2>1. CASE ProxyPump \/ ProxyClose
      BY <2>1 DEF ProxyPump, ProxyClose, SendOpen, WriteUpSend, OpenSession, WriteUp, CloseUp,
         brokerVars
    <2>2. CASE ClientRun
      BY <2>2 DEF ClientRun, Reattach, ReadLoopSend, Connect, RecvAck, RecvAttachOK, RecvClose,
         Disconnect, RecvData, brokerVars
    <2>3. CASE ResumeActor \/ ResumeElsewhere \/ Suspend \/ Break \/ UNCHANGED vars
      BY <2>3 DEF ResumeActor, ResumeElsewhere, Suspend, Break, brokerVars, vars
    <2> QED
      BY <2>1, <2>2, <2>3
  <1>5. \A t \in Tunnels : link'[t] = "ended" => link[t] = "ended"
    <2>1. \/ link' = link
          \/ \E t \in Tunnels : link' = [link EXCEPT ![t] = "up"] \/ link' = [link EXCEPT ![t] = "cut"]
      <3>1. CASE ProxyPump \/ ProxyClose
        BY <3>1 DEF ProxyPump, ProxyClose, SendOpen, WriteUpSend, OpenSession, WriteUp, CloseUp
      <3>2. CASE ClientRun /\ ~Disconnect
        BY <3>2 DEF ClientRun, Reattach, ReadLoopSend, Connect, RecvAck, RecvAttachOK, RecvClose,
           RecvData
      <3>3. CASE Disconnect
        <4>1. conn \in Tunnels /\ link' = [link EXCEPT ![conn] = IF @ = "up" THEN "cut" ELSE @]
          BY <3>3, SidecarFacts DEF Disconnect
        <4>2. link' = [link EXCEPT ![conn] = "cut"] \/ link' = link
          BY <4>1, SidecarFacts
        <4> QED
          BY <4>1, <4>2
      <3>4. CASE Suspend \/ Break
        BY <3>4, SidecarFacts DEF Suspend, Break, Cut
      <3>5. CASE ResumeActor \/ ResumeElsewhere \/ UNCHANGED vars
        BY <3>5 DEF ResumeActor, ResumeElsewhere, vars
      <3> QED
        BY <3>1, <3>2, <3>3, <3>4, <3>5
    <2> QED
      BY <2>1, SidecarFacts
  <1>6. bs[1].tconn # 0 => bs[1].tconn \in Tunnels
    BY DownTypes DEF SessionType, Tunnels
  <1>7. Ending(bs[1], srv[1], cur)'
    BY <1>1, <1>4, <1>5, <1>6 DEF Ending
  <1> QED
    BY <1>2, <1>3, <1>7

(* The end of a session that goes on or ends.                              *)
LEMMA GoesEnding ==
    ASSUME Ending(bs[1], srv[1], cur), Goes(bs[1], bs'[1]), link' = link,
           srv'[1].fin = srv[1].fin, srv'[1].sent = srv[1].sent,
           bs'[1].downClosed
               => bs[1].downClosed \/ (srv[1].fin /\ End(bs[1].downBuf) = srv[1].sent),
           cur' = cur \/ (bs'[1].downClosed /\ BufLen(bs'[1].downBuf) = 0)
    PROVE  Ending(bs[1], srv[1], cur)'
  <1>1. bs'[1].downClosed => srv'[1].fin /\ End(bs'[1].downBuf) = srv'[1].sent
    BY DEF Ending, Goes
  <1>2. bs'[1].dial # "none" /\ cur' = 0 => bs'[1].downClosed /\ BufLen(bs'[1].downBuf) = 0
    BY DEF Ending, Goes
  <1>3. Unflushed(bs'[1]) => srv'[1].sent = 0 /\ ~srv'[1].fin
    BY DEF Ending, Goes
  <1>4. bs'[1].tconn # 0 => link'[bs'[1].tconn] # "ended"
    BY DEF Ending, Goes
  <1> QED
    BY <1>1, <1>2, <1>3, <1>4 DEF Ending

(* A handler that sends to the sidecar.                                    *)
LEMMA GoesStep ==
    ASSUME IInv, IInv', Orderly, DInv, NEW B \in BrokerType, Commit(B),
           UNCHANGED <<sidecarVars, link>>, srv'[1].fin = srv[1].fin, srv'[1].sent = srv[1].sent,
           Sound(B), Goes(bs[1], B.s[1]), (\A t \in Tunnels : ~Attaching(pend'[t])) => Caught(B),
           \A t \in Tunnels : Attaching(pend'[t]) => pend'[t] = pend[t],
           upq' = upq \/ \E t \in Tunnels : \E type : Serve(t, type),
           B.s[1].downClosed
               => bs[1].downClosed \/ (srv[1].fin /\ End(bs[1].downBuf) = srv[1].sent),
           B.cur = cur \/ (B.s[1].downClosed /\ BufLen(B.s[1].downBuf) = 0)
    PROVE  Downstream' /\ Ending(bs[1], srv[1], cur)' /\ Asked'
  <1>1. bs' = B.s /\ cur' = B.cur /\ link' = link
    BY DEF Commit
  <1>2. Downstream /\ Asked /\ Ending(bs[1], srv[1], cur)
    BY DEF DInv
  <1>3. bs'[1].downBuf.base <= bs[1].downBuf.base
    BY <1>1, DownTypes DEF Goes
  <1> QED
    BY <1>1, <1>2, <1>3, SentDown, GoesEnding, BrokerAsked

(* A handler that sends nothing.                                           *)
LEMMA QuietStep ==
    ASSUME IInv, IInv', Orderly, DInv, UNCHANGED <<sidecarVars, link, downq>>,
           srv'[1].fin = srv[1].fin, srv'[1].sent = srv[1].sent, Goes(bs[1], bs'[1]),
           \A t \in Tunnels : \/ pend'[t] = pend[t]
                              \/ ~Attaching(pend'[t]) /\ ~Attaching(pend[t]),
           upq' = upq \/ \E t \in Tunnels : \E type : Serve(t, type),
           bs'[1].downClosed => bs[1].downClosed,
           cur' = cur \/ (bs'[1].downClosed /\ BufLen(bs'[1].downBuf) = 0)
    PROVE  Downstream' /\ Ending(bs[1], srv[1], cur)' /\ Asked'
  <1>1. conn' = conn /\ cs' = cs /\ agentGot' = agentGot /\ link' = link /\ downq' = downq
    BY DEF sidecarVars
  <1>2. Downstream /\ Asked /\ Ending(bs[1], srv[1], cur)
    BY DEF DInv
  <1>3. bs'[1].downBuf = bs[1].downBuf /\ bs'[1].downBuf.base <= bs[1].downBuf.base
    BY DownTypes DEF Goes
  <1>4. conn # 0 /\ bs'[1].tconn = conn /\ link'[conn] = "up" => Reading(bs[1])
    BY <1>1 DEF Goes, Reading
  <1>5. Downstream'
    <2>1. (\A t \in Tunnels : ~Attaching(pend'[t])) => (\A t \in Tunnels : ~Attaching(pend[t]))
      OBVIOUS
    <2>2. \A t \in Tunnels : Attaching(pend'[t]) => pend'[t] = pend[t]
      OBVIOUS
    <2>3. bs[1].downClosed => bs'[1].downClosed
      BY DEF Goes
    <2> QED
      BY <1>1, <1>2, <1>3, <1>4, <2>1, <2>2, <2>3, KeptDown, DownFacts
  <1> QED
    BY <1>2, <1>3, <1>5, GoesEnding, BrokerAsked

(* No frame loop is inside onSidecarAttach when another goroutine runs.    *)
LEMMA NoneAttaching ==
    ASSUME Orderly, Settled
    PROVE  \A t \in Tunnels : ~Attaching(pend[t])
  BY DEF Orderly, Settled, MidWay, PreemptionPoints, Attaching

(* onData before the dial completed, and a frame for no session.           *)
LEMMA HandleDataEarlyD ==
    ASSUME IInv, IInv', Orderly, DInv, NEW t \in Tunnels, HandleDataEarly(t) \/ HandleUnknown(t)
    PROVE  Downstream' /\ Ending(bs[1], srv[1], cur)' /\ Asked'
  <1>1. bs \in [Dials -> SessionType] /\ 1 \in Dials /\ cur \in {0, 1} /\ bs[1] \in SessionType
    BY BrokerFacts, OneDial, DownTypes
  <1>2. /\ UNCHANGED <<sidecarVars, link, downq, pend, cur, srv>> /\ \E type : Serve(t, type)
        /\ bs' = bs \/ \E p : cur # 0 /\ bs' = [bs EXCEPT ![cur].preConn = p]
    BY DEF HandleDataEarly, HandleUnknown, brokerVars
  <1>3. bs'[1] = bs[1] \/ \E p : bs'[1] = [bs[1] EXCEPT !.preConn = p]
    BY <1>1, <1>2
  <1>4. Goes(bs[1], bs'[1]) /\ bs'[1].downClosed = bs[1].downClosed
    BY <1>1, <1>3 DEF Goes, SessionType, Unflushed
  <1> QED
    BY <1>2, <1>4, QuietStep

(* onData up to the return of upstream.Write.                              *)
LEMMA HandleDataD ==
    ASSUME IInv, IInv', Orderly, DInv, NEW t \in Tunnels, HandleData(t)
    PROVE  Downstream' /\ Ending(bs[1], srv[1], cur)' /\ Asked'
  <1>1. srv \in [Dials -> ServerConnType] /\ 1 \in Dials /\ cur \in {0, 1}
        /\ pend \in [Tunnels -> Seq(Handler)] /\ bs[1] \in SessionType
    BY BrokerFacts, OneDial, DownTypes
  <1> DEFINE p == Fresh(Head(upq[t]).off, Head(upq[t]).data, bs[cur].upstreamWritten)
             h == [op |-> "onData", i |-> cur, off |-> 0, written |-> 0, data |-> p,
                   close |-> FALSE]
  <1>2. /\ UNCHANGED <<sidecarVars, link, downq, cur, bs>> /\ Serve(t, "DATA") /\ cur # 0
        /\ \/ UNCHANGED <<srv, pend>>
           \/ srv' = [srv EXCEPT ![cur].got = @ \o p] /\ pend' = [pend EXCEPT ![t] = <<h>>]
    BY DEF HandleData
  <1>3. srv'[1].fin = srv[1].fin /\ srv'[1].sent = srv[1].sent
    <2> HIDE DEF p
    <2>1. cur = 1 /\ srv[1] \in ServerConnType
      BY <1>1, <1>2
    <2>2. srv'[1] = srv[1] \/ srv'[1] = [srv[1] EXCEPT !.got = @ \o p]
      BY <1>1, <1>2, <2>1
    <2> QED
      BY <2>1, <2>2 DEF ServerConnType
  <1>4. \A u \in Tunnels : \/ pend'[u] = pend[u]
                           \/ ~Attaching(pend'[u]) /\ ~Attaching(pend[u])
    <2>1. h.op = "onData" /\ pend[t] = <<>>
      BY <1>2 DEF Serve
    <2> HIDE DEF h
    <2>2. ~Attaching(<<h>>) /\ ~Attaching(<<>>)
      BY <2>1 DEF Attaching
    <2> QED
      BY <1>1, <1>2, <2>1, <2>2
  <1>5. Goes(bs[1], bs'[1])
    BY <1>2 DEF Goes
  <1> QED
    BY <1>2, <1>3, <1>4, <1>5, QuietStep

(* onSidecarClose.                                                         *)
LEMMA HandleCloseD ==
    ASSUME IInv, IInv', Orderly, DInv, NEW t \in Tunnels, HandleClose(t)
    PROVE  Downstream' /\ Ending(bs[1], srv[1], cur)' /\ Asked'
  <1>1. srv \in [Dials -> ServerConnType] /\ 1 \in Dials /\ cur \in {0, 1} /\ Broker \in BrokerType
        /\ bs[1] \in SessionType /\ Broker.s = bs /\ Broker.q = downq /\ Broker.cur = cur
    BY BrokerFacts, OneDial, DownTypes DEF Broker
  <1>2. cur = 1 /\ Serve(t, "CLOSE") /\ UNCHANGED <<sidecarVars, link, pend>>
        /\ Commit(MaybeDestroy([Broker EXCEPT !.s[1].upClosed = TRUE], 1))
        /\ srv' = [srv EXCEPT ![1].eof = @ \/ Connected(bs[1])]
    BY <1>1 DEF HandleClose
  <1> DEFINE B == [Broker EXCEPT !.s[1].upClosed = TRUE]
             C == MaybeDestroy(B, 1)
             r == [bs[1] EXCEPT !.upClosed = TRUE]
  <1>3. r \in SessionType /\ Goes(bs[1], r) /\ r.downClosed = bs[1].downClosed
    BY <1>1 DEF SessionType, Goes, Unflushed
  <1>4. B \in BrokerType /\ B.s[1] = r /\ B.q = downq /\ B.cur = cur
    BY <1>1, <1>3 DEF BrokerType
  <1> HIDE DEF B, r
  <1>5. /\ Goes(B.s[1], C.s[1]) /\ C.q = B.q /\ C.s[1].downClosed = B.s[1].downClosed
        /\ C.cur = B.cur \/ (C.s[1].downClosed /\ BufLen(C.s[1].downBuf) = 0)
    BY <1>4, DestroyDown
  <1> HIDE DEF C
  <1>6. bs' = C.s /\ cur' = C.cur /\ downq' = C.q
    BY <1>2 DEF Commit, C, B
  <1>7. Goes(bs[1], bs'[1])
    BY <1>3, <1>4, <1>5, <1>6, GoesTrans
  <1>8. srv'[1].fin = srv[1].fin /\ srv'[1].sent = srv[1].sent
    BY <1>1, <1>2 DEF ServerConnType
  <1> QED
    BY <1>2, <1>3, <1>4, <1>5, <1>6, <1>7, <1>8, QuietStep

(* dialUpstream connected, and the watchdog.                               *)
LEMMA DialOKD ==
    ASSUME IInv, IInv', Orderly, DInv, NEW i \in Dials, DialOK(i) \/ WatchdogFire(i)
    PROVE  Downstream' /\ Ending(bs[1], srv[1], cur)' /\ Asked'
  <1>1. bs \in [Dials -> SessionType] /\ i = 1 /\ 1 \in Dials /\ bs[1] \in SessionType
    BY BrokerFacts, OneDial, DownTypes
  <1>2. /\ UNCHANGED <<sidecarVars, link, upq, downq, pend, cur, srv>>
        /\ \/ bs' = [bs EXCEPT ![1].watchdog = FALSE]
           \/ /\ bs[1].dial = "dialing"
              /\ \E d : bs' = [bs EXCEPT ![1].dial = d, ![1].watchdog = TRUE]
    BY <1>1 DEF DialOK, WatchdogFire
  <1>3. \/ bs'[1] = [bs[1] EXCEPT !.watchdog = FALSE]
        \/ /\ bs[1].dial = "dialing"
           /\ \E d : bs'[1] = [bs[1] EXCEPT !.dial = d, !.watchdog = TRUE]
    BY <1>1, <1>2
  <1>4. /\ bs'[1].downBuf = bs[1].downBuf /\ bs'[1].tconn = bs[1].tconn
        /\ bs'[1].downClosed = bs[1].downClosed
        /\ bs'[1].dial = bs[1].dial \/ bs[1].dial = "dialing"
    BY <1>1, <1>3 DEF SessionType
  <1>5. Goes(bs[1], bs'[1])
    BY <1>4 DEF Goes, Unflushed
  <1> QED
    BY <1>2, <1>4, <1>5, QuietStep

(* A session that is unbound, or not, goes on.                             *)
LEMMA UnboundGoes ==
    ASSUME NEW s \in SessionType, NEW r, Unbound(s, r)
    PROVE  Goes(s, r) /\ r.downClosed = s.downClosed
  BY UnboundSame DEF Goes, Unflushed

(* The session counts what it wrote and acknowledges it.                   *)
LEMMA AckedD ==
    ASSUME IInv, IInv', Orderly, DInv, NEW s \in SessionType, Goes(bs[1], s),
           s.downClosed = bs[1].downClosed, NEW w \in Nat, NEW ok \in BOOLEAN,
           Commit(SendToSidecar([Broker EXCEPT !.s[1] = s], 1, Ctl("ACK", w), ok)),
           UNCHANGED <<sidecarVars, link, upq>>,
           srv'[1].fin = srv[1].fin, srv'[1].sent = srv[1].sent,
           \A t \in Tunnels : \/ pend'[t] = pend[t]
                              \/ ~Attaching(pend'[t]) /\ ~Attaching(pend[t])
    PROVE  Downstream' /\ Ending(bs[1], srv[1], cur)' /\ Asked'
  <1> DEFINE B == [Broker EXCEPT !.s[1] = s]
             C == SendToSidecar(B, 1, Ctl("ACK", w), ok)
  <1>1. 1 \in Dials /\ Broker \in BrokerType /\ Broker.s = bs /\ Broker.q = downq /\ Broker.cur = cur
    BY OneDial, DownTypes DEF Broker
  <1>2. B \in BrokerType /\ B.s[1] = s /\ B.q = Broker.q /\ B.cur = cur
    BY <1>1 DEF BrokerType
  <1> HIDE DEF B
  <1>3. Downstream
    BY DEF DInv
  <1>4. (Sound(Broker) => Sound(B)) /\ (Caught(Broker) => Caught(B))
    BY <1>1, <1>2, SoundSame DEF Goes
  <1>5. Sound(B)
    BY <1>3, <1>4, DownFacts
  <1>6. /\ C \in BrokerType /\ Unbound(B.s[1], C.s[1]) /\ C.cur = B.cur /\ Sound(C)
        /\ Caught(B) => Caught(C)
    BY <1>2, <1>5, SendCtlDown
  <1>7. Commit(C)
    BY DEF B
  <1> HIDE DEF C
  <1>8. Goes(bs[1], C.s[1]) /\ C.s[1].downClosed = bs[1].downClosed
    BY <1>2, <1>6, UnboundGoes, GoesTrans
  <1>9. (\A t \in Tunnels : ~Attaching(pend'[t])) => Caught(C)
    BY <1>3, <1>4, <1>6, DownFacts
  <1>10. \A t \in Tunnels : Attaching(pend'[t]) => pend'[t] = pend[t]
    OBVIOUS
  <1> QED
    BY <1>2, <1>6, <1>7, <1>8, <1>9, <1>10, GoesStep

(* onData after upstream.Write.                                            *)
LEMMA FinishDataD ==
    ASSUME IInv, IInv', Orderly, DInv, NEW t \in Tunnels, NEW ok \in BOOLEAN, FinishData(t, ok)
    PROVE  Downstream' /\ Ending(bs[1], srv[1], cur)' /\ Asked'
  <1> DEFINE h == pend[t][1]
             w == bs[1].upstreamWritten + Len(h.data)
             s == [bs[1] EXCEPT !.upstreamWritten = w,
                                !.requestOutstanding = TRUE, !.watchdog = TRUE]
  <1>1. h \in Handler /\ pend \in [Tunnels -> Seq(Handler)] /\ h.op = "onData"
        /\ bs[1] \in SessionType /\ bs \in [Dials -> SessionType] /\ Broker.s = bs /\ Dials = {1}
    BY BrokerFacts, DownTypes, OneDial DEF FinishData
  <1>2. h.i = 1 /\ h.data \in Seq(Byte)
    BY <1>1 DEF Handler
  <1>3. w \in Nat
    BY <1>1, <1>2 DEF SessionType
  <1>4. Commit(SendToSidecar([Broker EXCEPT !.s[1] = s], 1, Ctl("ACK", w), ok))
    <2>1. [Broker EXCEPT !.s[1].upstreamWritten = w,
                         !.s[1].requestOutstanding = TRUE, !.s[1].watchdog = TRUE]
            = [Broker EXCEPT !.s[1] = s]
      <3> HIDE DEF w
      <3>1. [bs EXCEPT ![1].upstreamWritten = w,
                       ![1].requestOutstanding = TRUE, ![1].watchdog = TRUE]
              = [bs EXCEPT ![1] = s]
        BY <1>1 DEF SessionType
      <3> QED
        BY <1>1, <3>1 DEF Broker
    <2> QED
      BY <1>2, <2>1 DEF FinishData
  <1>5. UNCHANGED <<sidecarVars, link, upq, srv>> /\ pend' = [pend EXCEPT ![t] = <<>>]
    BY DEF FinishData
  <1> HIDE DEF w
  <1>6. s \in SessionType /\ s.downBuf = bs[1].downBuf /\ s.dial = bs[1].dial
        /\ s.tconn = bs[1].tconn /\ s.downClosed = bs[1].downClosed
    BY <1>1, <1>3 DEF SessionType
  <1> HIDE DEF s
  <1>7. Goes(bs[1], s)
    BY <1>6 DEF Goes, Unflushed
  <1>8. \A u \in Tunnels : pend'[u] = pend[u] \/ (~Attaching(pend'[u]) /\ ~Attaching(pend[u]))
    BY <1>1, <1>5 DEF Attaching
  <1> QED
    BY <1>3, <1>4, <1>5, <1>6, <1>7, <1>8, AckedD

(* preConn is written.                                                     *)
LEMMA FlushPreD ==
    ASSUME IInv, IInv', Orderly, DInv, NEW i \in Dials, NEW ok \in BOOLEAN, FlushPre(i, ok)
    PROVE  Downstream' /\ Ending(bs[1], srv[1], cur)' /\ Asked'
  <1> DEFINE pre == bs[1].preConn
             w == bs[1].upstreamWritten + Len(pre)
             e == <<>>
             s == [bs[1] EXCEPT !.upstreamWritten = w, !.preConn = e,
                                !.requestOutstanding = TRUE, !.dial = "reading"]
  <1>1. bs[1] \in SessionType /\ bs \in [Dials -> SessionType] /\ Broker.s = bs
        /\ srv \in [Dials -> ServerConnType] /\ srv[1] \in ServerConnType /\ 1 \in Dials
    BY BrokerFacts, DownTypes, OneDial
  <1>2. FlushPre(1, ok)
    BY OneDial
  <1>3. w \in Nat /\ e \in Seq(Byte)
    BY <1>1 DEF SessionType
  <1>4. Commit(SendToSidecar([Broker EXCEPT !.s[1] = s], 1, Ctl("ACK", w), ok))
    <2>1. [Broker EXCEPT !.s[1].upstreamWritten = w, !.s[1].preConn = e,
                         !.s[1].requestOutstanding = TRUE, !.s[1].dial = "reading"]
            = [Broker EXCEPT !.s[1] = s]
      <3> HIDE DEF w, e
      <3>1. [bs EXCEPT ![1].upstreamWritten = w, ![1].preConn = e,
                       ![1].requestOutstanding = TRUE, ![1].dial = "reading"]
              = [bs EXCEPT ![1] = s]
        BY <1>1 DEF SessionType
      <3> QED
        BY <1>1, <3>1 DEF Broker
    <2> QED
      BY <1>2, <2>1 DEF FlushPre
  <1>5. /\ UNCHANGED <<sidecarVars, link, pend, upq>> /\ bs[1].dial = "flushing"
        /\ srv' = [srv EXCEPT ![1].got = @ \o pre]
    BY <1>2 DEF FlushPre
  <1> HIDE DEF w, e, pre
  <1>6. s \in SessionType /\ s.downBuf = bs[1].downBuf /\ s.dial = "reading"
        /\ s.tconn = bs[1].tconn /\ s.downClosed = bs[1].downClosed
    BY <1>1, <1>3 DEF SessionType
  <1> HIDE DEF s
  <1>7. Goes(bs[1], s)
    BY <1>5, <1>6 DEF Goes, Unflushed
  <1>8. srv'[1].fin = srv[1].fin /\ srv'[1].sent = srv[1].sent
    BY <1>1, <1>5 DEF ServerConnType
  <1> QED
    BY <1>3, <1>4, <1>5, <1>6, <1>7, <1>8, AckedD

(* While the destination lacks bytes that the agent wrote, the broker has  *)
(* read, and the agent has, everything the destination sent.               *)
LEMMA AllRead ==
    ASSUME IInv, QInv, Orderly, DInv, Len(srv[1].got) < End(cs.upBuf)
    PROVE  End(bs[1].downBuf) = srv[1].sent
  <1> DEFINE n == Len(srv[1].got)
             a == n \div ReqLen
             r == Responses
             e == End(cs.upBuf)
             m == Len(agentGot)
  <1>1. /\ srv[1].sent \in Nat /\ End(bs[1].downBuf) \in Nat /\ cs.downDelivered \in Nat
        /\ n \in Nat /\ 1 \in Dials /\ m = cs.downDelivered
    BY DownTypes, SupplyTypes, OneDial DEF IInv
  <1>2. ReqLen \in Nat \ {0} /\ RespLen \in Nat \ {0} /\ Rounds \in Nat \ {0}
    BY LengthsAssumption
  <1>3. e \in Nat /\ e <= Rounds * ReqLen /\ srv[1].sent <= Owed(n) /\ End(bs[1].downBuf) <= srv[1].sent
    BY <1>1, QFacts DEF SupplyOK
  <1>4. e <= (r + 1) * ReqLen /\ cs.downDelivered <= End(bs[1].downBuf)
    BY DownFacts DEF DInv, Paced
  <1>5. a \in Nat /\ a * ReqLen <= n
    BY <1>1, <1>2, DivFacts
  <1>6. r \in Nat /\ r * RespLen <= m
    BY <1>1, <1>2, DivFacts DEF Responses
  <1>7. n < e
    OBVIOUS
  <1> HIDE DEF n, a, r, e, m
  <1>8. a < Rounds
    <2>1. a * ReqLen < Rounds * ReqLen
      <3>1. a * ReqLen \in Nat /\ Rounds * ReqLen \in Nat
        BY <1>2, <1>5
      <3> QED
        BY <1>1, <1>3, <1>5, <1>7, <3>1
    <2> QED
      BY <1>2, <1>5, <2>1, TimesStrict
  <1>9. a <= r
    <2>1. a * ReqLen < (r + 1) * ReqLen
      <3>1. a * ReqLen \in Nat /\ (r + 1) * ReqLen \in Nat
        BY <1>2, <1>5, <1>6
      <3> QED
        BY <1>1, <1>3, <1>4, <1>5, <1>7, <3>1
    <2>2. r + 1 \in Nat
      BY <1>6
    <2>3. a < r + 1
      BY <1>2, <1>5, <2>1, <2>2, TimesStrict
    <2> QED
      BY <1>5, <1>6, <2>3
  <1>10. Owed(n) = a * RespLen
    BY <1>8 DEF Owed, a
  <1>11. a * RespLen \in Nat /\ a * RespLen <= r * RespLen /\ r * RespLen \in Nat
    <2>1. RespLen \in Nat
      BY <1>2
    <2> QED
      BY <1>5, <1>6, <1>9, <2>1, TimesMono
  <1> QED
    BY <1>1, <1>3, <1>4, <1>6, <1>10, <1>11

(* closeUpstream, when the broker has read everything there was.           *)
LEMMA ClosedD ==
    ASSUME IInv, IInv', Orderly, DInv, Settled, NEW s \in SessionType, Goes(bs[1], s),
           NEW ok \in BOOLEAN, srv[1].fin, End(bs[1].downBuf) = srv[1].sent,
           Commit(CloseUpstream([Broker EXCEPT !.s[1] = s], 1, ok)),
           UNCHANGED <<sidecarVars, link, pend, srv>>,
           upq' = upq \/ \E t \in Tunnels : \E type : Serve(t, type)
    PROVE  Downstream' /\ Ending(bs[1], srv[1], cur)' /\ Asked'
  <1> DEFINE B == [Broker EXCEPT !.s[1] = s]
             C == CloseUpstream(B, 1, ok)
  <1>1. 1 \in Dials /\ Broker \in BrokerType /\ Broker.s = bs /\ Broker.q = downq /\ Broker.cur = cur
    BY OneDial, DownTypes DEF Broker
  <1>2. B \in BrokerType /\ B.s[1] = s /\ B.q = Broker.q /\ B.cur = cur
    BY <1>1 DEF BrokerType
  <1> HIDE DEF B
  <1>3. Downstream
    BY DEF DInv
  <1>4. Sound(B) /\ Caught(B)
    <2>1. (Sound(Broker) => Sound(B)) /\ (Caught(Broker) => Caught(B))
      BY <1>1, <1>2, SoundSame DEF Goes
    <2> QED
      BY <1>3, <2>1, DownFacts, NoneAttaching
  <1>5. End(B.s[1].downBuf) = srv[1].sent
    BY <1>2 DEF Goes
  <1>6. /\ C \in BrokerType /\ Goes(B.s[1], C.s[1]) /\ C.s[1].downClosed /\ Sound(C) /\ Caught(C)
        /\ C.cur = B.cur \/ (C.cur = 0 /\ BufLen(C.s[1].downBuf) = 0)
    BY <1>2, <1>4, <1>5, CloseDown
  <1>7. Commit(C)
    BY DEF B
  <1> HIDE DEF C
  <1>8. Goes(bs[1], C.s[1])
    BY <1>2, <1>6, GoesTrans
  <1> QED
    BY <1>2, <1>6, <1>7, <1>8, GoesStep

(* The sending half of the upstream connection is shut while the           *)
(* destination lacks bytes, or preConn is not written, only if the         *)
(* destination has closed.                                                 *)
LEMMA EndedEarly ==
    ASSUME IInv, QInv, Orderly, DInv, srv[1].eof, Len(srv[1].got) < End(cs.upBuf) \/ srv[1].sent = 0
    PROVE  srv[1].fin
  <1> SUFFICES ASSUME ~srv[1].fin
               PROVE  FALSE
    OBVIOUS
  <1> DEFINE n == Len(srv[1].got)
             m == Rounds * RespLen
             l == Rounds * ReqLen
  <1>1. /\ srv[1].sent \in Nat /\ End(bs[1].downBuf) \in Nat /\ cs.downDelivered \in Nat
        /\ n \in Nat /\ 1 \in Dials
    BY DownTypes, SupplyTypes, OneDial
  <1>2. m \in Nat /\ l \in Nat /\ End(cs.upBuf) \in Nat /\ End(cs.upBuf) <= l
        /\ srv[1].sent <= Owed(n) /\ End(bs[1].downBuf) <= srv[1].sent
    BY <1>1, QFacts DEF SupplyOK
  <1>3. m > 0
    <2>1. Rounds \in Nat \ {0} /\ RespLen \in Nat \ {0}
      BY LengthsAssumption
    <2> QED
      BY <2>1
  <1>4. cs.downDelivered <= End(bs[1].downBuf) /\ m <= cs.downDelivered
    BY DownFacts DEF DInv, HalfClosed, Satisfied
  <1>5. n < End(cs.upBuf) => Owed(n) < m /\ Owed(n) \in Nat
    <2>1. n < End(cs.upBuf) => n < l
      BY <1>1, <1>2
    <2> QED
      BY <1>1, <2>1, OwedBelow, OwedMonotone DEF l, m
  <1> HIDE DEF n, m, l
  <1>6. CASE srv[1].sent = 0
    BY <1>1, <1>2, <1>3, <1>4, <1>6
  <1>7. CASE n < End(cs.upBuf)
    BY <1>1, <1>2, <1>4, <1>5, <1>7
  <1> QED
    BY <1>6, <1>7 DEF n

(* upstream.Write fails: the destination has closed.  A write after        *)
(* CloseWrite would fail too, but then nothing is left to write.           *)
LEMMA HandleDataErrorD ==
    ASSUME IInv, IInv', UInv, QInv, Orderly, DInv, NEW t \in Tunnels, NEW ok \in BOOLEAN,
           HandleDataError(t, ok)
    PROVE  Downstream' /\ Ending(bs[1], srv[1], cur)' /\ Asked'
  <1> DEFINE f == Head(upq[t])
  <1>1. bs[1] \in SessionType /\ Broker \in BrokerType /\ Broker.s = bs /\ cur \in {0, 1}
        /\ 1 \in Dials /\ OneWriterAtATime
    BY DownTypes, OneDial
  <1>2. /\ cur = 1 /\ Serve(t, "DATA") /\ Settled /\ (srv[1].eof \/ srv[1].fin)
        /\ Fresh(f.off, f.data, bs[1].upstreamWritten) # <<>>
        /\ Commit(CloseUpstream(Broker, 1, ok)) /\ UNCHANGED <<sidecarVars, link, pend, srv>>
    BY <1>1 DEF HandleDataError, WriteMayFail, Serve
  <1>3. [Broker EXCEPT !.s[1] = bs[1]] = Broker
    <2>1. [bs EXCEPT ![1] = bs[1]] = bs
      BY <1>1, BrokerFacts
    <2> QED
      BY <1>1, <2>1 DEF Broker
  <1>4. Goes(bs[1], bs[1])
    BY DEF Goes
  <1>5. /\ f.off \in Nat /\ f.data \in Seq(Byte)
        /\ f.data # <<>> => f.off + Len(f.data) <= End(cs.upBuf)
    BY <1>1, <1>2, ServeQ
  <1>6. Len(srv[1].got) = bs[1].upstreamWritten /\ bs[1].upstreamWritten \in Nat
    BY <1>1, <1>2, NoWriter, UpFacts DEF Counted
  <1>7. Len(srv[1].got) < End(cs.upBuf)
    <2> DEFINE w == bs[1].upstreamWritten
               e == End(cs.upBuf)
               p == Fresh(f.off, f.data, w)
    <2>1. e \in Nat /\ w \in Nat
      BY <1>6, QFacts
    <2> HIDE DEF f, w, e
    <2>2. p \in Seq(Byte) /\ Len(p) \in Nat /\ (p # <<>> => w + Len(p) <= e /\ Len(p) > 0)
      BY <1>5, <2>1, FreshWithin DEF e
    <2>3. p # <<>>
      BY <1>2 DEF w
    <2> HIDE DEF p
    <2>4. w < e
      BY <2>1, <2>2, <2>3
    <2> QED
      BY <1>6, <2>4 DEF w, e
  <1>8. End(bs[1].downBuf) = srv[1].sent /\ srv[1].fin
    BY <1>2, <1>7, AllRead, EndedEarly
  <1>9. Commit(CloseUpstream([Broker EXCEPT !.s[1] = bs[1]], 1, ok))
    BY <1>2, <1>3
  <1> QED
    BY <1>1, <1>2, <1>4, <1>8, <1>9, ClosedD

(* readUpstreamLoop reads EOF.  The write of preConn does not fail: with   *)
(* "dial" closed, neither side closes before it is written.                *)
LEMMA ReadEOFD ==
    ASSUME IInv, IInv', QInv, Orderly, DInv, NEW i \in Dials, NEW ok \in BOOLEAN,
           ReadEOF(i, ok) \/ FlushError(i, ok)
    PROVE  Downstream' /\ Ending(bs[1], srv[1], cur)' /\ Asked'
  <1> DEFINE s == [bs[1] EXCEPT !.dial = "done"]
  <1>1. bs[1] \in SessionType /\ bs \in [Dials -> SessionType] /\ Broker.s = bs /\ i = 1 /\ 1 \in Dials
    BY DownTypes, OneDial, BrokerFacts
  <1>2. ~FlushError(1, ok)
    BY EndedEarly DEF DInv, Ending, Unflushed, FlushError, WriteMayFail
  <1>3. /\ Settled /\ bs[1].dial = "reading" /\ srv[1].fin /\ End(bs[1].downBuf) = srv[1].sent
        /\ Commit(CloseUpstream([Broker EXCEPT !.s[1].dial = "done"], 1, ok))
        /\ UNCHANGED <<sidecarVars, link, upq, pend, srv>>
    BY <1>1, <1>2 DEF ReadEOF
  <1>4. [Broker EXCEPT !.s[1].dial = "done"] = [Broker EXCEPT !.s[1] = s]
    BY <1>1 DEF Broker
  <1>5. s \in SessionType /\ Goes(bs[1], s)
    BY <1>1, <1>3 DEF SessionType, Goes, Unflushed
  <1> HIDE DEF s
  <1> QED
    BY <1>3, <1>4, <1>5, ClosedD

(* The end of bytes of the destination's.                                  *)
LEMMA SuffixOurs ==
    ASSUME NEW p \in Seq(Byte), Ours(p), NEW m \in 1 .. Len(p) + 1
    PROVE  Ours(SubSeq(p, m, Len(p)))
  <1> DEFINE r == SubSeq(p, m, Len(p))
  <1>1. Len(r) = Len(p) - m + 1
    OBVIOUS
  <1>2. \A k \in 1 .. Len(r) : r[k] = p[m + k - 1] /\ m + k - 1 \in 1 .. Len(p)
    BY <1>1
  <1> HIDE DEF r
  <1>3. Ours(r)
    BY <1>2 DEF Ours
  <1> QED
    BY <1>3 DEF r

(* What TrimTo leaves and From returns of a buffer of such bytes.          *)
LEMMA BufferOurs ==
    ASSUME NEW b \in ReplayBufferType, NEW off \in Nat, Ours(b.buf)
    PROVE  Ours(TrimTo(b, off).buf) /\ (FromOK(b, off) => Ours(From(b, off)))
  <1> DEFINE m == off - b.base + 1
             q == SubSeq(b.buf, m, Len(b.buf))
  <1>1. b.base \in Nat /\ b.buf \in Seq(Byte) /\ Len(b.buf) \in Nat
    BY DEF ReplayBufferType
  <1>2. m \in 1 .. Len(b.buf) + 1 => Ours(q)
    BY <1>1, SuffixOurs
  <1>3. TrimTo(b, off) \in {b, [base |-> End(b), buf |-> <<>>]}
        \/ (m \in 1 .. Len(b.buf) + 1 /\ TrimTo(b, off) = [base |-> off, buf |-> q])
    BY <1>1 DEF TrimTo, End, BufLen
  <1>4. FromOK(b, off) => m \in 1 .. Len(b.buf) + 1 /\ From(b, off) = q
    BY <1>1 DEF FromOK, From, End, BufLen
  <1>5. Ours(<<>>)
    BY DEF Ours
  <1> HIDE DEF m, q
  <1> QED
    BY <1>2, <1>3, <1>4, <1>5

(* onDownstreamAck drops nothing that an ATTACH on its way asks for.       *)
LEMMA AckAsked ==
    ASSUME IInv, IInv', Orderly, Asked, UNCHANGED <<sidecarVars, link>>, NEW t \in Tunnels,
           Serve(t, "ACK"), NEW c \in Nat, bs'[1].downBuf.base = c,
           \A a \in Nat : bs[1].downBuf.base <= a /\ upq[t][1].off <= a => c <= a
    PROVE  Asked'
  <1> DEFINE V == upq'
             d == cs.downDelivered
             b == bs[1].downBuf.base
             g == upq[t][1]
  <1>1. /\ \A u \in Tunnels : Part(V[u], upq[u])
        /\ \A u \in Tunnels : link[u] = "ended" => V[u] = <<>>
        /\ 1 \in 1 .. Len(upq[t]) /\ g \in Frame /\ g.type = "ACK" /\ upq[t] # <<>>
    BY ServePart DEF Serve
  <1>2. UNCHANGED <<conn, wout, rout, link>> /\ cs' = cs
    BY DEF sidecarVars
  <1>3. upq \in [Tunnels -> Seq(Frame)] /\ V \in [Tunnels -> Seq(Frame)]
        /\ V = [upq EXCEPT ![t] = Tail(@)] /\ g.off \in Nat
    BY <1>1, UptoNat DEF IInv, TypeOK, Serve
  <1> HIDE DEF V, d, b, g
  <1>4. ASSUME conn # 0 PROVE Asks(V, conn, d, c)
    <2>1. conn \in Tunnels /\ Asks(upq, conn, d, b)
      BY <1>4, DownTypes DEF Asked, d, b
    <2>2. Asks(V, conn, d, b)
      BY <1>1, <1>3, <2>1, AsksPart
    <2> SUFFICES ASSUME NEW k \in 1 .. Len(V[conn]), Attaches(V[conn][k])
                 PROVE  c <= V[conn][k].off
      BY <2>2 DEF Asks
    <2> DEFINE a == V[conn][k].off
    <2>3. b <= a /\ a \in Nat
      <3>1. V[conn] \in Seq(Frame)
        BY <1>3, <2>1
      <3>2. V[conn][k] \in Frame
        BY <3>1
      <3> QED
        BY <2>2, <3>2, UptoNat DEF Asks
    <2>4. g.off <= a
      <3>1. CASE t = conn
        <4>1. V[conn] = Tail(upq[conn]) /\ upq[conn] \in Seq(Frame) /\ upq[conn] # <<>>
          BY <1>1, <1>3, <2>1, <3>1
        <4>2. k + 1 \in 1 .. Len(upq[conn]) /\ V[conn][k] = upq[conn][k + 1] /\ 1 \in 1 .. k + 1
          BY <4>1
        <4>3. AcksUpto(upq[conn], k + 1, a)
          BY <2>1, <4>2 DEF Asks
        <4> QED
          BY <1>1, <3>1, <4>2, <4>3 DEF AcksUpto, g
      <3>2. CASE t # conn
        <4>1. AcksUpto(V[t], Len(V[t]), a)
          BY <2>2, <3>2 DEF Asks
        <4>2. V[conn] = upq[conn]
          BY <1>3, <2>1, <3>2
        <4>3. AcksUpto(upq[t], Len(upq[t]), a)
          BY <2>1, <3>2, <4>2 DEF Asks
        <4> QED
          BY <1>1, <4>3 DEF AcksUpto, g
      <3> QED
        BY <3>1, <3>2
    <2> QED
      BY <2>3, <2>4 DEF b, g
  <1>5. conn' = conn /\ wout' = wout /\ rout' = rout /\ link' = link /\ upq' = V
        /\ cs'.downDelivered = d
    BY <1>2 DEF V, d
  <1> QED
    BY <1>1, <1>4, <1>5 DEF Asked

(* onDownstreamAck.                                                        *)
LEMMA HandleAckD ==
    ASSUME IInv, IInv', Orderly, DInv, NEW t \in Tunnels, HandleAck(t)
    PROVE  Downstream' /\ Ending(bs[1], srv[1], cur)' /\ Asked'
  <1> DEFINE off == upq[t][1].off
             b == bs[1].downBuf
             c == TrimTo(b, off)
             v == bs[1].requestOutstanding /\ BufLen(c) # 0
             s == [bs[1] EXCEPT !.downBuf = c, !.requestOutstanding = v]
  <1>1. /\ bs \in [Dials -> SessionType] /\ 1 \in Dials /\ cur \in {0, 1} /\ bs[1] \in SessionType
        /\ b \in ReplayBufferType /\ BufferOK(b)
    BY BrokerFacts, OneDial, DownTypes
  <1>2. Downstream /\ Asked /\ Ending(bs[1], srv[1], cur)
    BY DEF DInv
  <1>3. /\ cur = 1 /\ Serve(t, "ACK") /\ UNCHANGED <<sidecarVars, link, downq, pend, cur, srv>>
        /\ bs' = [bs EXCEPT ![1].downBuf = TrimTo(bs[1].downBuf, Head(upq[t]).off),
                            ![1].requestOutstanding =
                               @ /\ BufLen(TrimTo(bs[1].downBuf, Head(upq[t]).off)) # 0]
    BY <1>1 DEF HandleAck
  <1>4. Head(upq[t]) = upq[t][1] /\ off \in Nat
    <2>1. Head(upq[t]) = upq[t][1] /\ upq[t][1] \in Frame
      BY <1>2, <1>3, ServePart
    <2> QED
      BY <2>1, UptoNat
  <1>5. /\ c \in ReplayBufferType /\ End(c) = End(b) /\ Ours(c.buf) /\ c.base \in Nat
        /\ \A a \in Nat : b.base <= a /\ off <= a => c.base <= a
    <2> HIDE DEF off, b
    <2>1. Ours(b.buf)
      BY <1>2, DownFacts DEF b
    <2>2. c \in ReplayBufferType
      BY <1>1, <1>4, TrimEnd
    <2> QED
      BY <1>1, <1>4, <2>1, <2>2, TrimEnd, BufferOurs, TrimToOK, EndNat
  <1>6. bs'[1] = s
    BY <1>1, <1>3, <1>4
  <1> HIDE DEF c, v
  <1>7. s.downBuf = c /\ s.downClosed = bs[1].downClosed /\ s.tconn = bs[1].tconn /\ s.dial = bs[1].dial
    BY <1>1 DEF SessionType
  <1> HIDE DEF s, off, b
  <1>8. UNCHANGED <<conn, agentGot>> /\ cs' = cs /\ link' = link
    BY <1>3 DEF sidecarVars
  <1>9. Downstream'
    <2>1. (conn # 0 /\ bs'[1].tconn = conn /\ link'[conn] = "up") => Reading(bs[1])
      BY <1>6, <1>7, <1>8 DEF Reading
    <2> QED
      BY <1>2, <1>3, <1>5, <1>6, <1>7, <1>8, <2>1, KeptDown DEF b
  <1>10. Asked'
    <2>1. \A a \in Nat : bs[1].downBuf.base <= a /\ upq[t][1].off <= a => c.base <= a
      BY <1>5 DEF b, off
    <2>2. bs'[1].downBuf.base = c.base
      BY <1>6, <1>7
    <2> QED
      BY <1>2, <1>3, <1>5, <2>1, <2>2, AckAsked
  <1>11. Ending(bs[1], srv[1], cur)'
    <2>1. srv' = srv /\ cur' = 1 /\ cur = 1 /\ End(c) = End(bs[1].downBuf)
      BY <1>3, <1>5 DEF b
    <2>2. /\ bs'[1].downBuf = c /\ bs'[1].downClosed = bs[1].downClosed
          /\ bs'[1].tconn = bs[1].tconn /\ bs'[1].dial = bs[1].dial
      BY <1>6, <1>7
    <2> QED
      BY <1>2, <1>8, <2>1, <2>2 DEF Ending, Unflushed
  <1> QED
    BY <1>9, <1>10, <1>11

(* serveTunnel returns.                                                    *)
LEMMA TunnelEndD ==
    ASSUME IInv, IInv', Orderly, DInv, NEW t \in Tunnels, TunnelEnd(t)
    PROVE  Downstream' /\ Ending(bs[1], srv[1], cur)' /\ Asked'
  <1> DEFINE B == DetachAll(Broker, t)
             C == Detach(Broker, 1, t)
             r == C.s[1]
  <1>1. /\ 1 \in Dials /\ Broker \in BrokerType /\ Broker.s = bs /\ Broker.q = downq
        /\ Broker.cur = cur /\ bs[1] \in SessionType
        /\ upq \in [Tunnels -> Seq(Frame)] /\ link \in [Tunnels -> {"up", "cut", "ended"}]
    BY OneDial, DownTypes, BrokerFacts DEF Broker
  <1>2. Downstream /\ Asked /\ Ending(bs[1], srv[1], cur)
    BY DEF DInv
  <1>3. /\ Commit(B) /\ link' = [link EXCEPT ![t] = "ended"] /\ upq' = [upq EXCEPT ![t] = <<>>]
        /\ UNCHANGED <<sidecarVars, pend, srv>>
    BY DEF TunnelEnd
  <1>4. Unbound(bs[1], r) /\ r.tconn # t
    BY <1>1, DetachShape
  <1>5. B.s[1] = r /\ B.cur = cur /\ B.q = downq
    BY <1>1 DEF DetachAll, BrokerType
  <1> HIDE DEF B, r
  <1>6. bs'[1] = r /\ cur' = cur /\ downq' = downq /\ UNCHANGED <<conn, agentGot, wout, rout>>
        /\ cs' = cs
    BY <1>3, <1>5 DEF Commit, sidecarVars
  <1>7. /\ r.downBuf = bs[1].downBuf /\ r.downClosed = bs[1].downClosed /\ r.dial = bs[1].dial
        /\ r.tconn \in {bs[1].tconn, 0}
    BY <1>1, <1>4, UnboundSame
  <1>8. \A u \in Tunnels : /\ u = t => upq'[u] = <<>> /\ link'[u] = "ended"
                           /\ u # t => upq'[u] = upq[u] /\ link'[u] = link[u]
    BY <1>1, <1>3
  <1>9. (conn # 0 => conn \in Tunnels) /\ (bs[1].tconn # 0 => bs[1].tconn \in Tunnels)
        /\ cs.downDelivered \in Nat /\ bs[1].downBuf.base \in Nat /\ bs[1].tconn \in 0 .. MaxTunnels
    BY <1>1, DownTypes DEF SessionType, Tunnels
  <1>10. Downstream'
    <2>1. (conn # 0 /\ bs'[1].tconn = conn /\ link'[conn] = "up") => Reading(bs[1])
      BY <1>6, <1>7, <1>8, <1>9 DEF Reading
    <2> QED
      BY <1>2, <1>3, <1>6, <1>7, <2>1, KeptDown, DownFacts
  <1>11. Asked'
    <2>1. \A u \in Tunnels : Part(upq'[u], upq[u])
      BY <1>1, <1>8, Parts
    <2>2. \A u \in Tunnels : /\ link'[u] = "ended" => upq'[u] = <<>>
                             /\ link'[u] = "up" => link[u] = "up"
      BY <1>2, <1>8 DEF Asked
    <2>3. /\ \A k \in 1 .. Len(wout') : ~Attaches(wout'[k])
          /\ \A k \in 1 .. Len(rout') : ~Attaches(rout'[k])
      BY <1>2, <1>6 DEF Asked
    <2>4. cs.downDelivered <= cs'.downDelivered /\ bs'[1].downBuf.base <= bs[1].downBuf.base
      BY <1>6, <1>7, <1>9
    <2> QED
      BY <1>2, <1>6, <2>1, <2>2, <2>3, <2>4, AskedPart
  <1>12. Ending(bs[1], srv[1], cur)'
    <2>1. srv' = srv
      BY <1>3
    <2>2. r.tconn # 0 => link'[r.tconn] # "ended"
      BY <1>2, <1>4, <1>7, <1>8, <1>9 DEF Ending
    <2> QED
      BY <1>2, <1>6, <1>7, <2>1, <2>2 DEF Ending, Unflushed
  <1> QED
    BY <1>10, <1>11, <1>12

(* onSidecarAttach after its Unlock: the replay leaves no gap, the agent   *)
(* has everything after it, and CLOSE comes last.                          *)
LEMMA FinishAttachD ==
    ASSUME IInv, IInv', Orderly, DInv, NEW t \in Tunnels, NEW ok \in BOOLEAN, FinishAttach(t, ok)
    PROVE  Downstream' /\ Ending(bs[1], srv[1], cur)' /\ Asked'
  <1> DEFINE h == pend[t][1]
             f == Data(h.off, h.data)
             d == cs.downDelivered
             e == End(bs[1].downBuf)
             B1 == SendToSidecar(Broker, 1, Ctl("ATTACH_OK", h.written), ok)
             B2 == IF h.data = <<>> THEN B1 ELSE SendToSidecar(B1, 1, f, ok)
             B3 == IF h.close THEN SendToSidecar(B2, 1, Ctl("CLOSE", 0), ok) ELSE B2
  <1>1. /\ h \in Handler /\ pend \in [Tunnels -> Seq(Handler)] /\ Attaching(pend[t])
        /\ bs[1] \in SessionType /\ Broker \in BrokerType /\ Broker.s = bs /\ Broker.q = downq
        /\ Broker.cur = cur /\ Dials = {1} /\ d \in Nat /\ e \in Nat /\ (conn # 0 => conn \in Tunnels)
    BY BrokerFacts, DownTypes, OneDial DEF FinishAttach, Attaching, Broker
  <1>2. h.i = 1 /\ h.data \in Seq(Byte) /\ h.off \in Nat /\ h.written \in Nat /\ Len(h.data) \in Nat
    BY <1>1 DEF Handler
  <1>3. /\ Commit(B3) /\ pend' = [pend EXCEPT ![t] = <<>>]
        /\ UNCHANGED <<sidecarVars, link, upq, srv>>
    BY <1>2 DEF FinishAttach
  <1>4. Downstream /\ Ending(bs[1], srv[1], cur)
    BY DEF DInv
  <1>5. /\ FrameIn(h, e) /\ (h.close => bs[1].downClosed)
        /\ Reading(bs[1]) => h.off <= d /\ h.off + Len(h.data) = e
    BY <1>1, <1>4 DEF Downstream, Resends, Upto
  <1>6. /\ f \in Frame /\ f.off = h.off /\ f.data = h.data /\ f.type = "DATA"
    BY <1>2, DataFrame
  <1> HIDE DEF h, f
  <1>7. FrameIn(f, e) /\ Kind(f, srv[1].fin) /\ ~Closing(f) /\ Upto(f) = h.off + Len(h.data)
    BY <1>5, <1>6 DEF FrameIn, Kind, Closing, Upto
  <1>8. B1 \in BrokerType /\ Unbound(bs[1], B1.s[1]) /\ B1.cur = cur /\ Sound(B1)
    BY <1>1, <1>2, <1>4, DownFacts, SendCtlDown
  <1> HIDE DEF B1
  <1>9. /\ B1.s[1] \in SessionType /\ End(B1.s[1].downBuf) = e
        /\ (Reading(B1.s[1]) => Reading(bs[1])) /\ Goes(bs[1], B1.s[1])
        /\ B1.s[1].downClosed = bs[1].downClosed
    BY <1>1, <1>8, UnboundSame, UnboundGoes
  <1> HIDE DEF d, e
  <1>10. /\ B2 \in BrokerType /\ Goes(bs[1], B2.s[1]) /\ B2.cur = cur /\ Sound(B2) /\ Caught(B2)
         /\ B2.s[1].downClosed = bs[1].downClosed
    <2>1. CASE h.data = <<>>
      <3>1. B2 = B1 /\ Len(h.data) = 0
        BY <2>1
      <3>2. Reading(B1.s[1]) => e <= d
        BY <1>1, <1>2, <1>5, <1>9, <3>1
      <3>3. Caught(B1)
        BY <1>9, <3>2 DEF Caught, Reach, d
      <3> QED
        BY <1>8, <1>9, <3>1, <3>3
    <2>2. CASE h.data # <<>>
      <3> DEFINE C == SendToSidecar(B1, 1, f, ok)
      <3>1. B2 = C
        BY <2>2
      <3>2. Reading(B1.s[1]) => Reach(B1.q[conn], Len(B1.q[conn]), d, f.off)
        BY <1>5, <1>6, <1>9 DEF Reach
      <3>3. FrameIn(f, End(B1.s[1].downBuf))
        BY <1>7, <1>9
      <3>4. /\ C \in BrokerType /\ Unbound(B1.s[1], C.s[1]) /\ C.cur = B1.cur /\ Sound(C)
            /\ Caught(B1) \/ (f.data # <<>> /\ End(B1.s[1].downBuf) <= Upto(f)) => Caught(C)
        BY <1>6, <1>7, <1>8, <3>2, <3>3, SendDown DEF d
      <3>5. Caught(B1) \/ (f.data # <<>> /\ End(B1.s[1].downBuf) <= Upto(f))
        <4>1. CASE Reading(B1.s[1])
          <5>1. e <= Upto(f)
            BY <1>1, <1>5, <1>7, <1>9, <4>1
          <5> QED
            BY <1>6, <1>9, <2>2, <5>1
        <4>2. CASE ~Reading(B1.s[1])
          BY <4>2 DEF Caught
        <4> QED
          BY <4>1, <4>2
      <3> HIDE DEF C
      <3>6. Goes(B1.s[1], C.s[1]) /\ C.s[1].downClosed = B1.s[1].downClosed
        BY <1>9, <3>4, UnboundGoes
      <3>7. Goes(bs[1], C.s[1])
        BY <1>9, <3>6, GoesTrans
      <3> QED
        BY <1>8, <1>9, <3>1, <3>4, <3>5, <3>6, <3>7
    <2> QED
      BY <2>1, <2>2
  <1> HIDE DEF B2
  <1>11. /\ B3 \in BrokerType /\ Goes(bs[1], B3.s[1]) /\ B3.cur = cur /\ Sound(B3) /\ Caught(B3)
         /\ B3.s[1].downClosed = bs[1].downClosed
    <2>1. CASE ~h.close
      BY <1>10, <2>1
    <2>2. CASE h.close
      <3> DEFINE C == SendToSidecar(B2, 1, Ctl("CLOSE", 0), ok)
      <3>1. B3 = C
        BY <2>2
      <3>2. srv[1].fin /\ End(B2.s[1].downBuf) = srv[1].sent /\ B2.s[1] \in SessionType
        BY <1>4, <1>5, <1>10, <2>2, ViewTypes DEF Ending, Goes
      <3>3. /\ C \in BrokerType /\ Unbound(B2.s[1], C.s[1]) /\ C.cur = B2.cur /\ Sound(C)
            /\ Caught(C)
        BY <1>10, <3>2, SendCloseDown
      <3> HIDE DEF C
      <3>4. Goes(B2.s[1], C.s[1]) /\ C.s[1].downClosed = B2.s[1].downClosed
        BY <3>2, <3>3, UnboundGoes
      <3>5. Goes(bs[1], C.s[1])
        BY <1>10, <3>4, GoesTrans
      <3> QED
        BY <1>10, <3>1, <3>3, <3>4, <3>5
    <2> QED
      BY <2>1, <2>2
  <1> HIDE DEF B3
  <1>12. \A u \in Tunnels : Attaching(pend'[u]) => pend'[u] = pend[u]
    BY <1>1, <1>3 DEF Attaching
  <1> QED
    BY <1>3, <1>11, <1>12, GoesStep

(* onSidecarAttach up to its Unlock: what it will replay for session s.    *)
LEMMA AttachResends ==
    ASSUME IInv, NEW s \in SessionType, Ours(s.downBuf.buf), NEW r, r.downBuf = s.downBuf,
           r.downClosed = s.downClosed, NEW o \in Nat,
           Reading(s) => FromOK(s.downBuf, o) /\ o <= cs.downDelivered
    PROVE  LET p == <<AttachHandler(r, 1, o)>>
           IN  Attaching(p) /\ Resends(p[1], s)
  <1> DEFINE b == s.downBuf
             p == IF FromOK(b, o) THEN From(b, o) ELSE <<>>
             h == AttachHandler(r, 1, o)
  <1>1. b \in ReplayBufferType
    BY DEF SessionType
  <1>2. End(b) \in Nat
    BY <1>1, EndNat
  <1>3. Ours(<<>>) /\ <<>> \in Seq(Byte)
    BY DEF Ours
  <1>4. Ours(p) /\ p \in Seq(Byte) /\ (FromOK(b, o) => o + Len(p) = End(b))
    <2>1. CASE FromOK(b, o)
      BY <1>1, <2>1, FromEnd, BufferOurs
    <2>2. CASE ~FromOK(b, o)
      BY <1>3, <2>2
    <2> QED
      BY <2>1, <2>2
  <1>5. p # <<>> => o + Len(p) = End(b)
    BY <1>4
  <1>6. h.op = "onAttach" /\ h.off = o /\ h.data = p /\ (h.close => s.downClosed)
    BY DEF AttachHandler
  <1> HIDE DEF p, h, b
  <1>7. FrameIn(h, End(b))
    BY <1>2, <1>4, <1>5, <1>6 DEF FrameIn, Upto
  <1>8. Reading(s) => h.off <= cs.downDelivered /\ Upto(h) = End(b)
    BY <1>4, <1>6 DEF Upto, b
  <1>9. Resends(h, s)
    BY <1>6, <1>7, <1>8 DEF Resends, b
  <1>10. <<h>>[1] = h /\ <<h>> # <<>>
    OBVIOUS
  <1>11. Attaching(<<h>>)
    BY <1>6, <1>10 DEF Attaching
  <1> QED
    BY <1>9, <1>10, <1>11 DEF h

(* The session in the map is bound to the tunnel that asks for it.         *)
LEMMA BindD ==
    ASSUME IInv, IInv', Orderly, DInv, cur = 1, NEW t \in Tunnels, NEW type, Serve(t, type),
           NEW o \in Nat, t = conn => bs[1].downBuf.base <= o /\ o <= cs.downDelivered,
           Commit(Bind(Broker, 1, t)),
           pend' = [pend EXCEPT ![t] = <<AttachHandler(bs[1], 1, o)>>],
           UNCHANGED <<sidecarVars, link, srv>>
    PROVE  Downstream' /\ Ending(bs[1], srv[1], cur)' /\ Asked'
  <1> DEFINE B == Bind(Broker, 1, t)
             s == [bs[1] EXCEPT !.tconn = t]
  <1>1. /\ 1 \in Dials /\ Broker \in BrokerType /\ Broker.s = bs /\ Broker.q = downq
        /\ Broker.cur = cur /\ bs[1] \in SessionType /\ t \in 0 .. MaxTunnels
        /\ pend \in [Tunnels -> Seq(Handler)] /\ cs.downDelivered \in Nat
        /\ End(bs[1].downBuf) \in Nat /\ bs[1].downBuf.base \in Nat
    BY OneDial, DownTypes, BrokerFacts DEF Broker, Tunnels
  <1>2. Downstream /\ Asked /\ Ending(bs[1], srv[1], cur)
    BY DEF DInv
  <1>3. B.s[1] = s /\ B.q = downq /\ B.cur = cur
    BY <1>1 DEF Bind, BrokerType
  <1>4. /\ s \in SessionType /\ s.downBuf = bs[1].downBuf /\ s.downClosed = bs[1].downClosed
        /\ s.tconn = t /\ s.dial = bs[1].dial
    BY <1>1 DEF SessionType
  <1> HIDE DEF B, s
  <1>5. Sound(B)
    <2>1. Sound(Broker)
      BY <1>2, DownFacts
    <2> QED
      BY <1>1, <1>3, <1>4, <2>1 DEF Sound
  <1>6. Ours(bs[1].downBuf.buf) /\ cs.downDelivered <= End(bs[1].downBuf)
    BY <1>2, DownFacts
  <1>7. Reading(s) => FromOK(s.downBuf, o) /\ o <= cs.downDelivered
    BY <1>1, <1>4, <1>6 DEF Reading, FromOK
  <1> DEFINE p == <<AttachHandler(bs[1], 1, o)>>
  <1>8. Attaching(p) /\ Resends(p[1], s)
    BY <1>4, <1>6, <1>7, AttachResends
  <1> HIDE DEF p
  <1>9. \A u \in Tunnels : ~Attaching(pend[u])
    BY NoneAttaching DEF Serve
  <1>10. pend' = [pend EXCEPT ![t] = p]
    BY DEF p
  <1>11. \A u \in Tunnels : Attaching(pend'[u]) => Resends(pend'[u][1], B.s[1])
    BY <1>1, <1>3, <1>8, <1>9, <1>10
  <1>12. ~ \A u \in Tunnels : ~Attaching(pend'[u])
    BY <1>1, <1>8, <1>10
  <1>13. Commit(B)
    BY DEF B
  <1>14. Downstream'
    BY <1>2, <1>3, <1>4, <1>5, <1>6, <1>11, <1>12, <1>13, DownRule
  <1>15. bs'[1] = s /\ cur' = cur /\ link' = link /\ srv' = srv
    BY <1>3, <1>13 DEF Commit
  <1>16. Asked'
    BY <1>1, <1>2, <1>4, <1>15, BrokerAsked
  <1>17. Ending(bs[1], srv[1], cur)'
    <2>1. link[t] # "ended"
      BY <1>2, ServePart
    <2> QED
      BY <1>2, <1>4, <1>15, <2>1 DEF Ending, Unflushed
  <1> QED
    BY <1>14, <1>16, <1>17

(* newSession: before it the destination sent nothing, and nothing of it   *)
(* can be on its way.                                                      *)
LEMMA CreateD ==
    ASSUME IInv, IInv', UInv, QInv, Orderly, DInv, cur = 0, NEW t \in Tunnels, NEW type,
           Serve(t, type), NextDial \in Dials, Commit(Create(Broker, t)),
           \/ pend' = pend
           \/ pend' = [pend EXCEPT ![t] = <<AttachHandler(NewSession(t), NextDial, 0)>>],
           UNCHANGED <<sidecarVars, link, srv>>
    PROVE  Downstream' /\ Ending(bs[1], srv[1], cur)' /\ Asked'
  <1> DEFINE B == Create(Broker, t)
             s == NewSession(t)
             d == cs.downDelivered
  <1>1. /\ 1 \in Dials /\ Broker \in BrokerType /\ Broker.s = bs /\ Broker.q = downq
        /\ bs[1] \in SessionType /\ t \in 0 .. MaxTunnels /\ t # 0 /\ NextDial = 1
        /\ pend \in [Tunnels -> Seq(Handler)] /\ d \in Nat /\ srv[1].sent \in Nat
        /\ End(bs[1].downBuf) \in Nat /\ bs[1].downBuf.base \in Nat
    BY OneDial, DownTypes, BrokerFacts DEF Broker, Tunnels
  <1>2. Downstream /\ Asked /\ Ending(bs[1], srv[1], cur)
    BY DEF DInv
  <1>3. srv[1].sent = 0 /\ ~srv[1].fin
    BY <1>1, <1>2, NextDialFresh DEF Ending, Unflushed
  <1>4. End(bs[1].downBuf) = 0 /\ d = 0
    <2>1. End(bs[1].downBuf) <= srv[1].sent /\ d <= End(bs[1].downBuf)
      BY <1>1, <1>2, QFacts, DownFacts DEF SupplyOK
    <2> QED
      BY <1>1, <1>3, <2>1
  <1>5. B.s[1] = s /\ B.q = downq /\ B.cur = 1
    BY <1>1 DEF Create, BrokerType
  <1>6. /\ s \in SessionType /\ s.downBuf = NewReplayBuffer /\ ~s.downClosed /\ s.tconn = t
        /\ s.dial = "dialing"
    BY <1>1, NewSessionOK DEF NewSession
  <1>7. End(s.downBuf) = 0 /\ Ours(s.downBuf.buf) /\ FromOK(s.downBuf, 0) /\ s.downBuf.base = 0
    BY <1>6 DEF NewReplayBuffer, End, BufLen, Ours, FromOK
  <1> HIDE DEF B, s
  <1>8. Sound(B)
    <2>1. Sound(Broker)
      BY <1>2, DownFacts
    <2> QED
      BY <1>1, <1>4, <1>5, <1>7, <2>1 DEF Sound
  <1>9. Caught(B)
    BY <1>4, <1>5, <1>7 DEF Caught, Reach
  <1> DEFINE p == <<AttachHandler(s, 1, 0)>>
  <1>10. Attaching(p) /\ Resends(p[1], s)
    <2>1. 0 \in Nat /\ 0 <= cs.downDelivered
      BY <1>4
    <2> QED
      BY <1>6, <1>7, <2>1, AttachResends
  <1>11. pend' = pend \/ pend' = [pend EXCEPT ![t] = p]
    BY <1>1 DEF s
  <1> HIDE DEF p
  <1>12. \A u \in Tunnels : ~Attaching(pend[u])
    BY NoneAttaching DEF Serve
  <1>13. \A u \in Tunnels : Attaching(pend'[u]) => Resends(pend'[u][1], B.s[1])
    BY <1>1, <1>5, <1>10, <1>11, <1>12
  <1>14. Commit(B)
    BY DEF B
  <1>15. Downstream'
    <2>1. Ours(B.s[1].downBuf.buf) /\ cs.downDelivered <= End(B.s[1].downBuf)
      BY <1>4, <1>5, <1>7
    <2> QED
      BY <1>2, <1>8, <1>9, <1>13, <1>14, <2>1, DownRule
  <1>16. bs'[1] = s /\ cur' = 1 /\ link' = link /\ srv' = srv
    BY <1>5, <1>14 DEF Commit
  <1>17. Asked'
    <2>1. bs'[1].downBuf.base <= bs[1].downBuf.base
      BY <1>1, <1>7, <1>16
    <2> QED
      BY <1>2, <2>1, BrokerAsked
  <1>18. Ending(bs[1], srv[1], cur)'
    <2>1. link[t] # "ended"
      BY <1>2, ServePart
    <2> QED
      BY <1>3, <1>6, <1>16, <2>1 DEF Ending
  <1> QED
    BY <1>15, <1>17, <1>18

(* attachSession refuses a session that ended: the agent has all of it.    *)
LEMMA LostD ==
    ASSUME IInv, IInv', QInv, Orderly, DInv, cur = 0, NEW t \in Tunnels, Serve(t, "ATTACH"),
           Head(upq[t]).off # 0,
           Commit([Broker EXCEPT !.q = WriteFrame(@, t, Ctl("LOST", 0))]),
           UNCHANGED <<sidecarVars, link, pend, srv>>
    PROVE  Downstream' /\ Ending(bs[1], srv[1], cur)' /\ Asked'
  <1> DEFINE f == Ctl("LOST", 0)
             B == [Broker EXCEPT !.q = WriteFrame(@, t, f)]
             d == cs.downDelivered
             e == End(bs[1].downBuf)
  <1>1. /\ 1 \in Dials /\ Broker \in BrokerType /\ Broker.s = bs /\ Broker.q = downq
        /\ Broker.cur = cur /\ bs[1] \in SessionType /\ t \in 0 .. MaxTunnels
        /\ d \in Nat /\ e \in Nat /\ srv[1].sent \in Nat /\ bs[1].downBuf.base <= d
        /\ bs[1].downBuf.base \in Nat
    BY OneDial, DownTypes DEF Broker, Tunnels
  <1>2. Downstream /\ Asked /\ Ending(bs[1], srv[1], cur)
    BY DEF DInv
  <1>3. B.s = bs /\ B.q = WriteFrame(downq, t, f) /\ B.cur = cur
    BY <1>1 DEF BrokerType
  <1>4. f \in Frame /\ f.data = <<>> /\ f.type = "LOST"
    BY CtlFrame DEF FrameType, Ctl
  <1>5. Commit(B)
    OBVIOUS
  <1> HIDE DEF B, f
  <1>6. bs' = bs /\ cur' = cur /\ downq' = WriteFrame(downq, t, f)
    BY <1>3, <1>5 DEF Commit
  <1>7. Goes(bs[1], bs[1])
    BY DEF Goes
  <1>8. CASE link[t] # "up"
    <2>1. downq' = downq
      BY <1>6, <1>8 DEF WriteFrame
    <2>2. Goes(bs[1], bs'[1]) /\ (bs'[1].downClosed => bs[1].downClosed) /\ cur' = cur
      BY <1>6, <1>7
    <2> QED
      BY <2>1, <2>2, QuietStep
  <1>9. CASE link[t] = "up"
    <2>1. t = conn /\ upq[t][1] \in Frame /\ upq[t][1].type = "ATTACH" /\ upq[t][1].off # 0
          /\ 1 \in 1 .. Len(upq[t]) /\ conn # 0
      BY <1>2, <1>9, ServePart DEF Asked, Tunnels
    <2>2. upq[t][1].off <= d /\ upq[t][1].off \in Nat
      BY <1>2, <2>1, UptoNat DEF Asked, Asks, Attaches
    <2>3. d <= e /\ e <= srv[1].sent
      BY <1>1, <1>2, DownFacts, QFacts DEF SupplyOK
    <2>4. ~Unflushed(bs[1])
      BY <1>1, <1>2, <2>1, <2>2, <2>3 DEF Ending
    <2>5. bs[1].downClosed /\ BufLen(bs[1].downBuf) = 0 /\ srv[1].fin /\ e = srv[1].sent
      BY <1>2, <2>4 DEF Ending, Unflushed
    <2>6. e <= d
      BY <1>1, <2>5 DEF End
    <2> DEFINE A == Bind(Broker, 1, t)
               C == SendToSidecar(A, 1, f, TRUE)
    <2>7. /\ A.s[1].downBuf = bs[1].downBuf /\ A.s[1].tconn = t /\ A.q = downq /\ A \in BrokerType
      <3>1. [bs[1] EXCEPT !.tconn = t] \in SessionType
        BY <1>1 DEF SessionType
      <3>2. A.s = [bs EXCEPT ![1].tconn = t] /\ A.q = downq /\ A \in BrokerType
        BY <1>1, <3>1 DEF Bind, BrokerType
      <3>3. A.s[1] = [bs[1] EXCEPT !.tconn = t]
        BY <1>1, <3>2, BrokerFacts
      <3> QED
        BY <1>1, <3>2, <3>3 DEF SessionType
    <2> HIDE DEF A
    <2>8. Sound(A)
      <3>1. Sound(Broker)
        BY <1>2, DownFacts
      <3> QED
        BY <1>1, <2>7, <3>1 DEF Sound
    <2>9. FrameIn(f, End(A.s[1].downBuf)) /\ Kind(f, srv[1].fin)
      BY <1>4, <2>5 DEF FrameIn, Kind, Ours
    <2>10. Reach(A.q[conn], Len(A.q[conn]), cs.downDelivered, srv[1].sent)
      BY <2>5, <2>6 DEF Reach
    <2>11. C \in BrokerType /\ Unbound(A.s[1], C.s[1]) /\ Sound(C)
      BY <1>4, <2>7, <2>8, <2>9, <2>10, SendDown
    <2>12. C.q = WriteFrame(A.q, A.s[1].tconn, f)
      BY <1>4, <2>7, SendShape
    <2> HIDE DEF C
    <2>13. C.q = B.q /\ C.s[1].downBuf = bs[1].downBuf
      BY <1>3, <2>7, <2>11, <2>12, UnboundSame, ViewTypes
    <2>14. Sound(B) /\ Caught(B)
      BY <1>3, <2>6, <2>11, <2>13 DEF Sound, Caught, Reach
    <2>15. \A u \in Tunnels : ~Attaching(pend'[u])
      BY NoneAttaching DEF Serve
    <2>16. Ours(B.s[1].downBuf.buf) /\ cs.downDelivered <= End(B.s[1].downBuf)
      BY <1>2, <1>3, DownFacts
    <2>17. Downstream'
      BY <1>2, <1>5, <2>14, <2>15, <2>16, DownRule
    <2>18. Asked'
      BY <1>1, <1>2, <1>6, BrokerAsked
    <2>19. Ending(bs[1], srv[1], cur)'
      BY <1>2, <1>6, <1>7, GoesEnding
    <2> QED
      BY <2>17, <2>18, <2>19
  <1> QED
    BY <1>8, <1>9

(* openSession and attachSession.                                          *)
LEMMA HandleAttachD ==
    ASSUME IInv, IInv', UInv, QInv, Orderly, DInv, NEW t \in Tunnels,
           HandleOpen(t) \/ HandleAttach(t)
    PROVE  Downstream' /\ Ending(bs[1], srv[1], cur)' /\ Asked'
  <1> DEFINE g == upq[t][1]
  <1>1. cur \in {0, 1} /\ Asked /\ 0 \notin Tunnels
    BY DownTypes DEF DInv, Tunnels
  <1>2. PICK type \in {"OPEN", "ATTACH"} :
           /\ Serve(t, type)
           /\ type = "OPEN" => HandleOpen(t)
           /\ type = "ATTACH" => HandleAttach(t)
    BY DEF HandleOpen, HandleAttach
  <1>3. Head(upq[t]) = g /\ g \in Frame /\ g.type = type /\ 1 \in 1 .. Len(upq[t])
    BY <1>1, <1>2, ServePart
  <1>4. g.off \in Nat
    BY <1>3, UptoNat
  <1>5. t = conn => /\ bs[1].downBuf.base <= g.off /\ g.off <= cs.downDelivered
                    /\ type = "OPEN" => g.off = 0
    BY <1>1, <1>2, <1>3 DEF Asked, Asks, Attaches
  <1>6. UNCHANGED <<sidecarVars, link, srv>>
    BY DEF HandleOpen, HandleAttach
  <1> HIDE DEF g
  <1>7. CASE cur # 0
    <2> DEFINE o == IF type = "OPEN" THEN 0 ELSE g.off
    <2>1. cur = 1 /\ o \in Nat /\ (t = conn => bs[1].downBuf.base <= o /\ o <= cs.downDelivered)
      BY <1>1, <1>4, <1>5, <1>7
    <2>2. /\ Commit(Bind(Broker, 1, t))
          /\ pend' = [pend EXCEPT ![t] = <<AttachHandler(bs[1], 1, o)>>]
      BY <1>2, <1>3, <2>1 DEF HandleOpen, HandleAttach
    <2> HIDE DEF o
    <2> QED
      BY <1>2, <1>6, <2>1, <2>2, BindD
  <1>8. CASE cur = 0 /\ (type = "OPEN" \/ g.off = 0)
    <2>1. /\ NextDial \in Dials /\ Commit(Create(Broker, t))
          /\ \/ pend' = pend
             \/ pend' = [pend EXCEPT ![t] = <<AttachHandler(NewSession(t), NextDial, 0)>>]
      BY <1>2, <1>3, <1>8 DEF HandleOpen, HandleAttach
    <2> QED
      BY <1>2, <1>6, <1>8, <2>1, CreateD
  <1>9. CASE cur = 0 /\ type = "ATTACH" /\ g.off # 0
    <2>1. /\ Serve(t, "ATTACH") /\ Head(upq[t]).off # 0 /\ pend' = pend
          /\ Commit([Broker EXCEPT !.q = WriteFrame(@, t, Ctl("LOST", 0))])
      BY <1>2, <1>3, <1>9 DEF HandleAttach
    <2> QED
      BY <1>6, <1>9, <2>1, LostD
  <1> QED
    BY <1>2, <1>7, <1>8, <1>9

(* What ServerBytes are: the destination's.                                *)
LEMMA ServerOurs ==
    ASSUME NEW off \in Nat, NEW n \in Nat
    PROVE  /\ ServerBytes(1, off, n) \in Seq(Byte) /\ Len(ServerBytes(1, off, n)) = n
           /\ Ours(ServerBytes(1, off, n))
  <1> DEFINE p == ServerBytes(1, off, n)
  <1>1. p \in Seq(Byte) /\ p = [k \in 1 .. n |-> <<1, off + k>>]
    <2>1. 1 \in Dials
      BY BoundsAssumption DEF Dials
    <2> QED
      BY <2>1, ServerBytesOK DEF ServerBytes
  <1> HIDE DEF p
  <1>2. Len(p) = n
    BY <1>1
  <1>3. \A k \in 1 .. n : p[k][1] = 1
    BY <1>1
  <1> QED
    BY <1>1, <1>2, <1>3 DEF Ours, p

(* produceDownstream: the frame begins where the broker's buffer ended.    *)
LEMMA ProduceD ==
    ASSUME IInv, IInv', QInv, Orderly, DInv, NEW i \in Dials, NEW ok \in BOOLEAN, Produce(i, ok)
    PROVE  Downstream' /\ Ending(bs[1], srv[1], cur)' /\ Asked'
  <1> DEFINE b   == bs[1].downBuf
             off == End(b)
             m   == srv[1].sent
             n   == Least({m - off, ReadMax, Free(b, DownCap)})
             p   == ServerBytes(1, off, n)
             c   == AppendTo(b, p)
             f   == Data(off, p)
             u   == IF ok THEN bs[1].tconn ELSE 0
             d   == cs.downDelivered
  <1>1. /\ i = 1 /\ 1 \in Dials /\ Broker \in BrokerType /\ Broker.s = bs /\ Broker.q = downq
        /\ bs[1] \in SessionType /\ b \in ReplayBufferType /\ off \in Nat /\ m \in Nat
        /\ d \in Nat /\ srv[1].fin \in BOOLEAN /\ bs \in [Dials -> SessionType]
        /\ bs[1].tconn \in 0 .. MaxTunnels
    BY OneDial, DownTypes, BrokerFacts DEF SessionType
  <1>2. Downstream /\ Asked /\ Ending(bs[1], srv[1], cur)
    BY DEF DInv
  <1>3. m - off \in Int /\ ReadMax \in Int /\ MaxPayload \in Int /\ ReadMax <= MaxPayload
        /\ Free(b, DownCap) \in Int
    <2>1. ReadMax \in Nat /\ DownCap \in Nat /\ MaxPayload \in Nat /\ ReadMax <= MaxPayload
          /\ b.buf \in Seq(Byte)
      BY <1>1, LengthsAssumption DEF ReplayBufferType
    <2> HIDE DEF b, off, m
    <2> QED
      BY <1>1, <2>1 DEF Free, BufLen
  <1>4. n > 0 /\ n \in Int /\ n <= m - off /\ n <= ReadMax
    <2>1. n > 0
      BY <1>1 DEF Produce
    <2>2. n = Least({ReadMax, m - off, Free(b, DownCap)})
      <3> HIDE DEF m, off, b
      <3>1. {m - off, ReadMax, Free(b, DownCap)} = {ReadMax, m - off, Free(b, DownCap)}
        OBVIOUS
      <3> QED
        BY <3>1
    <2> QED
      BY <1>3, <2>1, <2>2, LeastAtMost
  <1>5. n \in Nat
    <2> HIDE DEF n
    <2> QED
      BY <1>4
  <1>6. p \in Seq(Byte) /\ Len(p) = n /\ Ours(p)
    <2> HIDE DEF n, off
    <2> QED
      BY <1>1, <1>5, ServerOurs
  <1>7. c = [base |-> b.base, buf |-> b.buf \o p]
    <2> HIDE DEF p, b
    <2> QED
      BY <1>1, <1>6, AppendToIs
  <1>8. /\ bs' = [bs EXCEPT ![1].downBuf = c, ![1].tconn = u]
        /\ downq' = WriteFrame(downq, bs[1].tconn, f) /\ cur' = cur /\ cur = 1
        /\ bs[1].dial = "reading" /\ Settled
        /\ UNCHANGED <<sidecarVars, link, upq, pend, srv>>
    BY <1>1 DEF Produce, Commit, Wake, Broker
  <1> HIDE DEF n, p, u
  <1>9. c.base = b.base /\ End(c) = off + n /\ c \in ReplayBufferType /\ Ours(c.buf)
    <2>1. b.base \in Nat /\ b.buf \in Seq(Byte) /\ Ours(b.buf) /\ off = b.base + Len(b.buf)
      BY <1>1, <1>2, DownFacts DEF ReplayBufferType, End, BufLen
    <2> HIDE DEF b, off, c
    <2>2. Len(b.buf \o p) = Len(b.buf) + n /\ Len(b.buf) \in Nat /\ b.buf \o p \in Seq(Byte)
      BY <1>6, <2>1
    <2>3. Ours(b.buf \o p)
      BY <1>6, <2>1, ConcatOurs
    <2>4. c.base = b.base /\ c.buf = b.buf \o p /\ c \in ReplayBufferType
      BY <1>7, <2>1, <2>2 DEF ReplayBufferType
    <2> QED
      BY <1>1, <1>5, <2>1, <2>2, <2>3, <2>4 DEF End, BufLen
  <1>10. /\ f \in Frame /\ f.data = p /\ f.off = off /\ f.type = "DATA" /\ Upto(f) = End(c)
         /\ f.data # <<>> /\ ~Oversize(f)
    <2> HIDE DEF c, off
    <2>1. f = [type |-> "DATA", off |-> off, data |-> p] /\ f \in Frame
      BY <1>1, <1>6 DEF Data, Frame, FrameType
    <2> HIDE DEF f
    <2>2. f.data = p /\ f.off = off /\ f.type = "DATA"
      BY <2>1
    <2>3. p # <<>>
      BY <1>4, <1>6
    <2> QED
      BY <1>3, <1>4, <1>6, <1>9, <2>1, <2>2, <2>3 DEF Upto, Oversize
  <1> HIDE DEF c, f
  <1>11. off <= End(c) /\ End(c) \in Nat
    <2> HIDE DEF off
    <2> QED
      BY <1>1, <1>5, <1>9
  <1> DEFINE A == [Broker EXCEPT !.s[1].downBuf = c]
             C == SendToSidecar(A, 1, f, TRUE)
             B == [s |-> bs', cur |-> cur', q |-> downq', w |-> wake']
  <1>12. A \in BrokerType /\ A.s[1].downBuf = c /\ A.s[1].tconn = bs[1].tconn /\ A.q = downq
    <2>1. [bs[1] EXCEPT !.downBuf = c] \in SessionType
      BY <1>1, <1>9 DEF SessionType
    <2>2. A.s = [bs EXCEPT ![1].downBuf = c] /\ A.q = downq /\ A \in BrokerType
      BY <1>1, <2>1 DEF BrokerType
    <2>3. A.s[1] = [bs[1] EXCEPT !.downBuf = c]
      BY <1>1, <2>2
    <2> QED
      BY <1>1, <2>2, <2>3 DEF SessionType
  <1> HIDE DEF A
  <1>13. Sound(A)
    <2>1. ASSUME NEW t \in Tunnels
          PROVE  Tidy(downq[t], End(c), srv[1].fin)
      <3>1. Tidy(downq[t], off, srv[1].fin) /\ downq[t] \in Seq(Frame)
        BY <1>2, DownFacts, DownTypes
      <3> HIDE DEF off
      <3> QED
        BY <1>1, <1>11, <3>1, TidyMore
    <2> QED
      BY <1>2, <1>12, <2>1, DownFacts DEF Sound
  <1>14. \A t \in Tunnels : ~Attaching(pend[t])
    BY <1>8, NoneAttaching
  <1>15. Live /\ Reading(A.s[1]) => Reach(A.q[conn], Len(A.q[conn]), d, f.off)
    <2>1. Caught(Broker)
      BY <1>2, <1>14, DownFacts
    <2> QED
      BY <1>1, <1>10, <1>12, <2>1 DEF Caught, Reading
  <1>16. C \in BrokerType /\ Unbound(A.s[1], C.s[1]) /\ Sound(C) /\ Caught(C)
    <2>1. FrameIn(f, End(A.s[1].downBuf)) /\ Kind(f, srv[1].fin)
      BY <1>6, <1>10, <1>11, <1>12 DEF FrameIn, Kind, Closing
    <2>2. End(A.s[1].downBuf) <= Upto(f) /\ ~Closing(f)
      BY <1>10, <1>11, <1>12 DEF Closing
    <2> QED
      BY <1>10, <1>12, <1>13, <1>15, <2>1, <2>2, SendDown
  <1>17. C.s = A.s /\ C.q = WriteFrame(downq, bs[1].tconn, f)
    <2>1. C.q = WriteFrame(downq, bs[1].tconn, f)
      BY <1>10, <1>12, SendShape
    <2>2. C.s = A.s
      BY <1>10, <1>12 DEF SendToSidecar, BrokerType
    <2> QED
      BY <2>1, <2>2
  <1> HIDE DEF C
  <1>18. bs'[1].downBuf = c /\ bs'[1].tconn = u /\ bs'[1].dial = bs[1].dial
         /\ bs'[1].downClosed = bs[1].downClosed /\ u \in {bs[1].tconn, 0}
    BY <1>1, <1>8 DEF SessionType, u
  <1>19. B.s[1].downBuf = c /\ B.s[1].tconn \in {C.s[1].tconn, 0} /\ B.q = C.q /\ Commit(B)
    BY <1>8, <1>12, <1>17, <1>18 DEF Commit
  <1> HIDE DEF B
  <1>20. Sound(B) /\ Caught(B)
    BY <1>12, <1>16, <1>17, <1>19, SoundSame
  <1>21. Downstream'
    <2>1. d <= End(c)
      <3>1. d <= off
        BY <1>2, DownFacts
      <3> HIDE DEF off, d
      <3> QED
        BY <1>1, <1>11, <3>1
    <2> QED
      BY <1>2, <1>8, <1>9, <1>14, <1>19, <1>20, <2>1, DownRule
  <1>22. Ending(bs[1], srv[1], cur)'
    <2>1. ~bs[1].downClosed
      <3>1. off # m
        <4> HIDE DEF off, m
        <4> QED
          BY <1>1, <1>4
      <3> QED
        BY <1>2, <3>1 DEF Ending
    <2>2. ~Unflushed(bs'[1])
      BY <1>8, <1>18 DEF Unflushed
    <2>3. bs'[1].tconn # 0 => link'[bs'[1].tconn] # "ended"
      BY <1>2, <1>8, <1>18 DEF Ending
    <2> QED
      BY <1>8, <1>18, <2>1, <2>2, <2>3 DEF Ending
  <1>23. Asked'
    <2>1. bs'[1].downBuf.base <= bs[1].downBuf.base
      BY <1>9, <1>18, DownTypes
    <2> QED
      BY <1>2, <1>8, <2>1, BrokerAsked
  <1> QED
    BY <1>21, <1>22, <1>23

(* The destination sends a byte or closes: not before it has what was sent *)
(* to it while it was being dialed, and not once its close is on its way.  *)
LEMMA ServerD ==
    ASSUME IInv, IInv', Orderly, DInv, NEW i \in Dials, ServerSend(i) \/ ServerClose(i)
    PROVE  Downstream' /\ Ending(bs[1], srv[1], cur)' /\ Asked'
  <1> DEFINE e == End(bs[1].downBuf)
             d == cs.downDelivered
             m == srv[1].sent
  <1>1. /\ i = 1 /\ 1 \in Dials /\ e \in Nat /\ d \in Nat /\ m \in Nat
        /\ srv \in [Dials -> ServerConnType] /\ bs[1] \in SessionType
        /\ \A t \in Tunnels : downq[t] \in Seq(Frame)
        /\ conn # 0 => conn \in Tunnels
    BY OneDial, DownTypes, BrokerFacts
  <1>2. Downstream /\ Asked /\ Ending(bs[1], srv[1], cur)
    BY DEF DInv
  <1>3. /\ Settled /\ cur = 1 /\ Connected(bs[1]) /\ ~srv[1].fin
        /\ UNCHANGED <<sidecarVars, link, upq, downq, pend, bs, cur>>
    BY <1>1 DEF ServerSend, ServerClose
  <1>4. /\ srv'[1].fin \in BOOLEAN /\ srv'[1].sent \in Nat
        /\ srv'[1].fin => srv'[1].sent = m
    <2>1. CASE ServerSend(i)
      <3>1. srv' = [srv EXCEPT ![1].sent = m + 1]
        BY <1>1, <2>1 DEF ServerSend
      <3>2. srv'[1].fin = srv[1].fin /\ srv'[1].sent = m + 1
        BY <1>1, <3>1 DEF ServerConnType
      <3>3. m + 1 \in Nat
        <4> HIDE DEF m
        <4> QED
          BY <1>1
      <3>4. srv[1].fin \in BOOLEAN
        BY DownTypes
      <3> QED
        BY <1>3, <3>2, <3>3, <3>4, Zenon
    <2>2. CASE ServerClose(i)
      <3>1. srv' = [srv EXCEPT ![1].fin = TRUE]
        BY <1>1, <2>2 DEF ServerClose
      <3> QED
        BY <1>1, <3>1 DEF ServerConnType
    <2> QED
      BY <2>1, <2>2
  <1>5. \A t \in Tunnels : ~Attaching(pend[t])
    BY <1>3, NoneAttaching
  <1>6. ~Unflushed(bs[1])
    BY <1>3, OneDial, Flushed
  <1>7. ASSUME NEW t \in Tunnels
        PROVE  /\ Tidy(downq[t], e, srv'[1].fin)
               /\ \A k \in 1 .. Len(downq[t]) : ~Closing(downq[t][k])
    <2>1. Tidy(downq[t], e, FALSE)
      BY <1>2, <1>3, DownFacts DEF Tidy, Kind
    <2>2. \A k \in 1 .. Len(downq[t]) : ~Closing(downq[t][k])
      BY <2>1 DEF Tidy, Kind
    <2> QED
      BY <2>1, <2>2 DEF Tidy, Kind
  <1>8. Live => Flow(downq[conn], d, srv'[1].sent)
    BY <1>1, <1>2, <1>7, DownFacts DEF Flow, Live
  <1>9. Downstream'
    <2>1. UNCHANGED <<conn, cs, agentGot, link, downq, pend, bs>>
      BY <1>3 DEF sidecarVars
    <2>2. Sound(Broker)'
      <3>1. Broker.s = bs /\ Broker.q = downq /\ (Broker.s = bs)' /\ (Broker.q = downq)'
        BY DEF Broker
      <3> QED
        BY <1>7, <1>8, <2>1, <3>1 DEF Sound, Live
    <2>3. Caught(Broker)'
      <3>1. Caught(Broker)
        BY <1>2, <1>5, DownFacts
      <3> QED
        BY <2>1, <3>1 DEF Caught, Broker, Live, Reading
    <2>4. /\ Ours(bs'[1].downBuf.buf) /\ Ours(agentGot')
          /\ cs'.downDelivered <= End(bs'[1].downBuf)
      BY <1>2, <2>1, DownFacts
    <2> QED
      BY <1>5, <2>1, <2>2, <2>3, <2>4 DEF Downstream
  <1>10. Ending(bs[1], srv[1], cur)'
    <2>1. ~bs[1].downClosed
      BY <1>2, <1>3 DEF Ending
    <2> QED
      BY <1>2, <1>3, <1>6, <2>1 DEF Ending
  <1>11. Asked'
    BY <1>2, <1>3, DownTypes, BrokerAsked
  <1> QED
    BY <1>9, <1>10, <1>11

-----------------------------------------------------------------------------
(* How the agent's side ends.                                              *)

(* A frame joins a queue, the first is taken, or a prefix arrives: no      *)
(* CLOSE is new but the one that is sent.                                  *)
LEMMA ShutFacts ==
    ASSUME NEW q \in Seq(Frame)
    PROVE  /\ ~Shut(<<>>) /\ (q # <<>> /\ Shut(Tail(q)) => Shut(q))
           /\ q # <<>> /\ Head(q).type = "CLOSE" => Shut(q)
           /\ \A n \in 0 .. Len(q) : Shut(SubSeq(q, 1, n)) => Shut(q)
           /\ \A f \in Frame : f.type # "CLOSE" =>
                  ~Shut(<<f>>) /\ (Shut(Append(q, OnWire(f))) => Shut(q))
  <1>1. ~Shut(<<>>)
    BY DEF Shut
  <1>2. q # <<>> => Shut(q) \/ (~Shut(Tail(q)) /\ Head(q).type # "CLOSE")
    <2> SUFFICES ASSUME q # <<>>, ~Shut(q)
                 PROVE  ~Shut(Tail(q)) /\ Head(q).type # "CLOSE"
      OBVIOUS
    <2>1. 1 \in 1 .. Len(q) /\ Head(q) = q[1]
      OBVIOUS
    <2>2. \A k \in 1 .. Len(Tail(q)) : k + 1 \in 1 .. Len(q) /\ Tail(q)[k] = q[k + 1]
      OBVIOUS
    <2> QED
      BY <2>1, <2>2 DEF Shut
  <1>3. ASSUME NEW n \in 0 .. Len(q)
        PROVE  Shut(SubSeq(q, 1, n)) => Shut(q)
    <2>1. Len(SubSeq(q, 1, n)) = n
          /\ \A k \in 1 .. n : SubSeq(q, 1, n)[k] = q[k] /\ k \in 1 .. Len(q)
      OBVIOUS
    <2> QED
      BY <2>1 DEF Shut
  <1>4. ASSUME NEW f \in Frame, f.type # "CLOSE"
        PROVE  ~Shut(<<f>>) /\ (Shut(Append(q, OnWire(f))) => Shut(q))
    <2> DEFINE g == OnWire(f)
    <2>1. g.type # "CLOSE"
      BY <1>4 DEF OnWire, Ctl
    <2> HIDE DEF g
    <2>2. Len(Append(q, g)) = Len(q) + 1 /\ Append(q, g)[Len(q) + 1] = g
          /\ \A k \in 1 .. Len(q) : Append(q, g)[k] = q[k]
      OBVIOUS
    <2>3. \A k \in 1 .. Len(q) + 1 : k \in 1 .. Len(q) \/ k = Len(q) + 1
      OBVIOUS
    <2>4. Shut(Append(q, g)) => Shut(q)
      BY <2>1, <2>2, <2>3 DEF Shut
    <2>5. ~Shut(<<f>>)
      BY <1>4 DEF Shut
    <2> QED
      BY <2>4, <2>5 DEF g
  <1> QED
    BY <1>1, <1>2, <1>3, <1>4

(* The sidecar sends a frame that is no CLOSE.                             *)
LEMMA ShutSend ==
    ASSUME IInv, NEW f \in Frame, f.type # "CLOSE", Send(f)
    PROVE  \A t \in Tunnels : Shut(upq'[t]) => Shut(upq[t])
  <1>1. upq \in [Tunnels -> Seq(Frame)]
    BY SidecarFacts
  <1>2. upq' = upq \/ (conn \in Tunnels /\ upq' = [upq EXCEPT ![conn] = Append(@, OnWire(f))])
    BY SidecarFacts DEF Send, WriteFrame
  <1>3. \A t \in Tunnels : Shut(Append(upq[t], OnWire(f))) => Shut(upq[t])
    BY <1>1, ShutFacts
  <1> QED
    BY <1>1, <1>2, <1>3

(* A step of the broker, of the destination or of the platform.            *)
LEMMA BrokerHalf ==
    ASSUME IInv, HalfClosed, UNCHANGED sidecarVars,
           \A t \in Tunnels : Shut(upq'[t]) => Shut(upq[t]),
           srv'[1].eof => srv[1].eof \/ \E t \in Tunnels : Shut(upq[t]),
           srv[1].fin => srv'[1].fin
    PROVE  HalfClosed'
  BY DEF HalfClosed, Satisfied, sidecarVars

(* Frames are taken, and the connection may be shut for a CLOSE.           *)
LEMMA ServeHalf ==
    ASSUME IInv, Orderly, HalfClosed, NEW t \in Tunnels, ServeTunnel(t)
    PROVE  HalfClosed'
  <1>1. upq \in [Tunnels -> Seq(Frame)] /\ srv \in [Dials -> ServerConnType] /\ 1 \in Dials
        /\ (cur # 0 => cur = 1) /\ UNCHANGED sidecarVars /\ srv[1] \in ServerConnType
    BY BrokerFacts, OneDial, DownTypes, BrokerStill
  <1>2. \/ upq' = upq \/ upq' = [upq EXCEPT ![t] = <<>>]
        \/ upq[t] # <<>> /\ upq' = [upq EXCEPT ![t] = Tail(@)]
    BY DEF ServeTunnel, FinishAttach, FinishData, HandleDataError, HandleOpen, HandleAttach,
       HandleDataEarly, HandleData, HandleAck, HandleClose, HandleUnknown, TunnelEnd, Serve
  <1>3. \/ srv' = srv \/ (cur # 0 /\ \E p : srv' = [srv EXCEPT ![cur].got = p])
        \/ /\ cur # 0 /\ upq[t] # <<>> /\ Head(upq[t]).type = "CLOSE"
           /\ \E e : srv' = [srv EXCEPT ![cur].eof = e]
    BY DEF ServeTunnel, FinishAttach, FinishData, HandleDataError, HandleOpen, HandleAttach,
       HandleDataEarly, HandleData, HandleAck, HandleClose, HandleUnknown, TunnelEnd, Serve,
       brokerVars
  <1>4. \A u \in Tunnels : Shut(upq'[u]) => Shut(upq[u])
    <2>1. \A u \in Tunnels : ~Shut(<<>>) /\ (upq[u] # <<>> /\ Shut(Tail(upq[u])) => Shut(upq[u]))
      BY <1>1, ShutFacts
    <2> QED
      BY <1>1, <1>2, <2>1
  <1>5. upq[t] # <<>> /\ Head(upq[t]).type = "CLOSE" => Shut(upq[t])
    BY <1>1, ShutFacts
  <1>6. /\ srv'[1].eof => srv[1].eof \/ \E u \in Tunnels : Shut(upq[u])
        /\ srv[1].fin => srv'[1].fin
    BY <1>1, <1>3, <1>5 DEF ServerConnType
  <1> QED
    BY <1>1, <1>4, <1>6, BrokerHalf

(* The other steps that leave the sidecar alone.                           *)
LEMMA ElsewhereHalf ==
    ASSUME IInv, Orderly, HalfClosed,
           \/ \E i \in Dials : Upstream(i) \/ WatchdogFire(i) \/ ServerSend(i) \/ ServerClose(i)
           \/ ResumeActor \/ ResumeElsewhere \/ Suspend \/ Break \/ UNCHANGED vars
    PROVE  HalfClosed'
  <1>1. upq \in [Tunnels -> Seq(Frame)] /\ srv \in [Dials -> ServerConnType] /\ 1 \in Dials
        /\ UNCHANGED sidecarVars /\ srv[1] \in ServerConnType
    BY BrokerFacts, OneDial, DownTypes, BrokerStill
  <1>2. srv'[1].eof = srv[1].eof /\ (srv[1].fin => srv'[1].fin)
    <2>1. ASSUME NEW i \in Dials,
                 Upstream(i) \/ WatchdogFire(i) \/ ServerSend(i) \/ ServerClose(i)
          PROVE  srv'[1].eof = srv[1].eof /\ (srv[1].fin => srv'[1].fin)
      <3>1. i = 1
        BY OneDial
      <3>2. \/ srv' = srv \/ srv' = [srv EXCEPT ![i].got = @ \o bs[i].preConn]
            \/ srv' = [srv EXCEPT ![i].sent = @ + 1] \/ srv' = [srv EXCEPT ![i].fin = TRUE]
        BY <2>1 DEF Upstream, DialOK, DialFail, FlushPre, FlushError, Produce, ReadEOF, WatchdogFire,
           ServerSend, ServerClose
      <3>3. \/ srv'[1] = srv[1] \/ srv'[1] = [srv[1] EXCEPT !.got = @ \o bs[i].preConn]
            \/ srv'[1] = [srv[1] EXCEPT !.sent = @ + 1] \/ srv'[1] = [srv[1] EXCEPT !.fin = TRUE]
        BY <1>1, <3>1, <3>2
      <3> QED
        BY <1>1, <3>3 DEF ServerConnType
    <2>2. CASE ResumeActor \/ ResumeElsewhere \/ Suspend \/ Break \/ UNCHANGED vars
      BY <2>2 DEF ResumeActor, ResumeElsewhere, Suspend, Break, vars, brokerVars
    <2> QED
      BY <2>1, <2>2
  <1>3. \A t \in Tunnels : Shut(upq'[t]) => Shut(upq[t])
    <2>1. ASSUME NEW i \in Dials,
                 Upstream(i) \/ WatchdogFire(i) \/ ServerSend(i) \/ ServerClose(i)
          PROVE  upq' = upq
      BY <2>1 DEF Upstream, DialOK, DialFail, FlushPre, FlushError, Produce, ReadEOF, WatchdogFire,
         ServerSend, ServerClose
    <2>2. CASE Cut
      <3>1. \A t \in Tunnels : \A k \in 0 .. Len(upq[t]) : Shut(SubSeq(upq[t], 1, k)) => Shut(upq[t])
        BY <1>1, ShutFacts
      <3>2. upq' = upq \/ \E k \in 0 .. Len(upq[conn]) :
                              conn \in Tunnels /\ upq' = [upq EXCEPT ![conn] = SubSeq(@, 1, k)]
        BY <2>2, SidecarFacts DEF Cut
      <3> QED
        BY <1>1, <3>1, <3>2
    <2>3. CASE ResumeActor \/ ResumeElsewhere \/ UNCHANGED vars
      BY <2>3 DEF ResumeActor, ResumeElsewhere, vars
    <2> QED
      BY <2>1, <2>2, <2>3 DEF Suspend, Break
  <1> QED
    BY <1>1, <1>2, <1>3, BrokerHalf

(* The agent sends, or is done.                                            *)
LEMMA ProxyHalf ==
    ASSUME IInv, Orderly, HalfClosed, ProxyPump \/ ProxyClose
    PROVE  HalfClosed'
  <1>1. cs \in ClientSessionType /\ wout \in Seq(Frame) /\ upq \in [Tunnels -> Seq(Frame)]
        /\ cs.downDelivered \in Nat /\ Len(agentGot) = cs.downDelivered
    BY SidecarFacts
  <1>2. srv' = srv /\ rout' = rout
    BY DEF ProxyPump, ProxyClose, SendOpen, WriteUpSend, OpenSession, WriteUp, CloseUp, brokerVars
  <1>3. ASSUME NEW n \in 1 .. UpCap, WriteUp(n) PROVE HalfClosed'
    <2>1. \E off, p : wout' = <<Data(off, p)>>
      BY <1>3 DEF WriteUp
    <2>2. ~Shut(wout')
      BY <2>1 DEF Shut, Data
    <2>3. \E b : cs' = [cs EXCEPT !.upBuf = b]
      BY <1>3 DEF WriteUp
    <2>4. upq' = upq /\ agentOpen' = agentOpen
      BY <1>3 DEF WriteUp
    <2>5. /\ cs'.upClosed = cs.upClosed /\ cs'.downClosed = cs.downClosed /\ cs'.st = cs.st
          /\ cs'.downDelivered = cs.downDelivered
      BY <1>1, <2>3 DEF ClientSessionType
    <2> QED
      BY <1>2, <2>2, <2>4, <2>5 DEF HalfClosed, Satisfied
  <1>4. CASE SendOpen \/ WriteUpSend \/ OpenSession
    <2>1. /\ wout' \in {wout, <<>>} /\ agentOpen' = agentOpen
          /\ cs' \in {cs, [cs EXCEPT !.st = "open"], [cs EXCEPT !.st = "opening"]}
      BY <1>4 DEF SendOpen, WriteUpSend, OpenSession
    <2>2. \A t \in Tunnels : Shut(upq'[t]) => Shut(upq[t])
      <3>1. CASE SendOpen
        <4>1. Send(Ctl("OPEN", 0)) /\ Ctl("OPEN", 0) \in Frame /\ Ctl("OPEN", 0).type = "OPEN"
          BY <3>1, CtlFrame DEF SendOpen, FrameType, Ctl
        <4> QED
          BY <4>1, ShutSend
      <3>2. CASE WriteUpSend
        <4>1. Send(wout[1]) /\ wout[1] \in Frame /\ 1 \in 1 .. Len(wout)
          BY <1>1, <3>2 DEF WriteUpSend
        <4>2. wout[1].type # "CLOSE"
          BY <4>1 DEF HalfClosed, Shut
        <4> QED
          BY <4>1, <4>2, ShutSend
      <3>3. CASE OpenSession
        BY <3>3 DEF OpenSession
      <3> QED
        BY <1>4, <3>1, <3>2, <3>3
    <2>3. /\ cs'.upClosed = cs.upClosed /\ cs'.downClosed = cs.downClosed
          /\ cs'.st = "gone" => cs.st = "gone"
          /\ cs'.downDelivered = cs.downDelivered
      BY <1>1, <2>1 DEF ClientSessionType
    <2>4. ~Shut(<<>>)
      BY DEF Shut
    <2> QED
      BY <1>2, <2>1, <2>2, <2>3, <2>4 DEF HalfClosed, Satisfied
  <1>5. ASSUME NEW half \in BOOLEAN, CloseUp(half) PROVE HalfClosed'
    <2>1. /\ cs' = [cs EXCEPT !.upClosed = TRUE] /\ wout' = wout
          /\ cs.st = "gone" \/ cs.downClosed \/ Responses >= Rounds
      BY <1>5 DEF CloseUp, Orderly
    <2>2. cs'.upClosed /\ cs'.downDelivered = cs.downDelivered
      BY <1>1, <2>1 DEF ClientSessionType
    <2>3. Responses >= Rounds => Rounds * RespLen <= cs.downDelivered
      <3> DEFINE r == Responses
      <3>1. RespLen \in Nat \ {0} /\ Rounds \in Nat
        BY LengthsAssumption
      <3>2. r \in Nat /\ r * RespLen <= cs.downDelivered
        BY <1>1, <3>1, DivFacts DEF Responses
      <3> HIDE DEF r
      <3>3. r >= Rounds => Rounds * RespLen <= r * RespLen /\ Rounds * RespLen \in Nat
        BY <3>1, <3>2, TimesMono
      <3>4. r * RespLen \in Nat
        BY <3>1, <3>2, TimesMono
      <3>5. r >= Rounds => Rounds * RespLen <= cs.downDelivered
        BY <1>1, <3>2, <3>3, <3>4
      <3> QED
        BY <3>5 DEF r
    <2>4. Satisfied
      BY <2>1, <2>3 DEF HalfClosed, Satisfied
    <2> QED
      BY <1>2, <2>1, <2>2, <2>4 DEF HalfClosed, Satisfied
  <1> QED
    BY <1>3, <1>4, <1>5 DEF ProxyPump, ProxyClose

(* The sidecar's client: an end it tells the agent of is the destination's *)
(* (Tidy).                                                                 *)
LEMMA ClientHalf ==
    ASSUME IInv, IInv', Orderly, Downstream, HalfClosed, ClientRun
    PROVE  HalfClosed'
  <1>1. cs \in ClientSessionType /\ upq \in [Tunnels -> Seq(Frame)] /\ rout \in Seq(Frame)
        /\ (conn # 0 => conn \in Tunnels) /\ downq \in [Tunnels -> Seq(Frame)]
    BY SidecarFacts
  <1>2. srv' = srv /\ wout' = wout
    BY DEF ClientRun, Reattach, ReadLoopSend, Connect, RecvAck, RecvAttachOK, RecvClose,
       Disconnect, RecvData, brokerVars
  <1>3. CASE RecvAck \/ RecvAttachOK \/ RecvClose \/ \E ok \in BOOLEAN : RecvData(ok)
    <2>1. /\ cs.downDelivered <= cs'.downDelivered /\ upq' = upq
          /\ rout' \in {rout, <<>>} \/ \E off, p : rout' \in {<<Ctl("ACK", off)>>, <<Data(off, p)>>}
      BY <1>3, RecvShape
    <2>2. ~Shut(rout')
      <3>1. ~Shut(<<>>) /\ \A off, p : ~Shut(<<Ctl("ACK", off)>>) /\ ~Shut(<<Data(off, p)>>)
        BY DEF Shut, Ctl, Data
      <3> QED
        BY <2>1, <3>1 DEF HalfClosed
    <2>3. Satisfied => Satisfied'
      <3>1. Rounds * RespLen \in Nat /\ cs.downDelivered \in Nat /\ cs'.downDelivered \in Nat
        <4>1. Rounds \in Nat /\ RespLen \in Nat
          BY LengthsAssumption
        <4> QED
          BY <4>1, TimesMono, SidecarFacts DEF IInv, TypeOK, ClientSessionType
      <3> QED
        BY <1>2, <2>1, <3>1 DEF Satisfied
    <2>4. cs'.upClosed = cs.upClosed
      BY <1>1, <1>3 DEF RecvAck, RecvAttachOK, RecvClose, RecvData, ClientSessionType
    <2>5. \/ agentOpen' = agentOpen /\ cs'.downClosed = cs.downClosed /\ cs'.st = cs.st
          \/ Satisfied
      <3>1. CASE RecvAck \/ RecvAttachOK
        BY <1>1, <3>1 DEF RecvAck, RecvAttachOK, ClientSessionType
      <3>2. ASSUME NEW ok \in BOOLEAN, RecvData(ok)
            PROVE  \/ agentOpen' = agentOpen /\ cs'.downClosed = cs.downClosed /\ cs'.st = cs.st
                   \/ Satisfied
        <4>1. \/ agentOpen' = agentOpen /\ (cs' = cs \/ \E d : cs' = [cs EXCEPT !.downDelivered = d])
              \/ cs.downClosed \/ ~agentOpen
          BY <3>2 DEF RecvData
        <4> QED
          BY <1>1, <4>1 DEF HalfClosed, ClientSessionType
      <3>3. CASE RecvClose
        <4>1. PICK type \in {"CLOSE", "LOST"} : Receive(type)
          BY <3>3 DEF RecvClose
        <4>2. conn \in Tunnels /\ downq[conn] # <<>> /\ Head(downq[conn]).type = type
          BY <1>1, <4>1, SidecarFacts DEF Receive
        <4>3. Tidy(downq[conn], End(bs[1].downBuf), srv[1].fin)
          BY <4>2, DownFacts
        <4>4. 1 \in 1 .. Len(downq[conn]) /\ Head(downq[conn]) = downq[conn][1]
          BY <1>1, <4>2
        <4>5. srv[1].fin
          BY <4>2, <4>3, <4>4 DEF Tidy, Kind, Closing
        <4> QED
          BY <4>5 DEF Satisfied
      <3> QED
        BY <1>3, <3>1, <3>2, <3>3
    <2> QED
      BY <1>2, <2>1, <2>2, <2>3, <2>4, <2>5 DEF HalfClosed
  <1>4. CASE Reattach \/ ReadLoopSend \/ Disconnect \/ \E t \in Tunnels : Connect(t)
    <2>1. cs' = cs /\ agentOpen' = agentOpen /\ rout' \in {rout, <<>>}
      BY <1>4 DEF Reattach, ReadLoopSend, Disconnect, Connect
    <2>2. \A t \in Tunnels : Shut(upq'[t]) => Shut(upq[t])
      <3>1. CASE Reattach
        <4> DEFINE f == Ctl("ATTACH", cs.downDelivered)
        <4>1. Send(f) /\ f \in Frame /\ f.type # "CLOSE"
          BY <3>1, CtlFrame, SidecarFacts DEF Reattach, FrameType, Ctl
        <4> QED
          BY <4>1, ShutSend
      <3>2. CASE ReadLoopSend
        <4>1. Send(rout[1]) /\ rout[1] \in Frame /\ 1 \in 1 .. Len(rout)
          BY <1>1, <3>2 DEF ReadLoopSend
        <4>2. rout[1].type # "CLOSE"
          BY <4>1 DEF HalfClosed, Shut
        <4> QED
          BY <4>1, <4>2, ShutSend
      <3>3. CASE Disconnect \/ \E t \in Tunnels : Connect(t)
        <4>1. upq' = upq \/ \E t \in Tunnels : upq' = [upq EXCEPT ![t] = <<>>]
          BY <3>3 DEF Disconnect, Connect
        <4>2. ~Shut(<<>>)
          BY DEF Shut
        <4> QED
          BY <1>1, <4>1, <4>2
      <3> QED
        BY <1>4, <3>1, <3>2, <3>3
    <2>3. ~Shut(<<>>)
      BY DEF Shut
    <2> QED
      BY <1>2, <2>1, <2>2, <2>3 DEF HalfClosed, Satisfied
  <1> QED
    BY <1>3, <1>4 DEF ClientRun

(* Every step keeps HalfClosed.                                            *)
LEMMA NextHalfClosed ==
    ASSUME IInv, IInv', Orderly, DInv, [Next]_vars
    PROVE  HalfClosed'
  BY ServeHalf, ElsewhereHalf, ProxyHalf, ClientHalf DEF DInv, Next

-----------------------------------------------------------------------------
(* The invariant of the downstream direction.                              *)

(* Nothing is sent, read or asked for at first.                            *)
LEMMA InitDInv ==
    ASSUME Orderly, Init
    PROVE  DInv
  <1>1. /\ bs[1] = NewSession(0) /\ srv[1] = NewServerConn /\ cs = NewClientSession
        /\ conn = 0 /\ cur = 0 /\ agentGot = <<>> /\ wout = <<>> /\ rout = <<>>
        /\ \A t \in Tunnels : /\ downq[t] = <<>> /\ upq[t] = <<>> /\ pend[t] = <<>>
                              /\ link[t] = "ended"
    BY OneDial DEF Init
  <1>2. /\ End(NewSession(0).downBuf) = 0 /\ NewSession(0).downBuf.buf = <<>>
        /\ NewSession(0).dial = "none" /\ NewSession(0).tconn = 0 /\ ~NewSession(0).downClosed
        /\ NewServerConn.sent = 0 /\ NewServerConn.fin = FALSE
        /\ NewClientSession.downDelivered = 0 /\ End(NewClientSession.upBuf) = 0
    BY DEF NewSession, NewServerConn, NewClientSession, NewReplayBuffer, End, BufLen
  <1>3. Downstream
    <2>1. Ours(<<>>) /\ (\A e, fin : Tidy(<<>>, e, fin)) /\ ~Attaching(<<>>) /\ ~Live
      BY <1>1 DEF Ours, Tidy, Attaching, Live
    <2>2. Sound(Broker) /\ Caught(Broker)
      BY <1>1, <2>1 DEF Sound, Caught, Broker
    <2> QED
      BY <1>1, <1>2, <2>1, <2>2 DEF Downstream
  <1>4. Ending(bs[1], srv[1], cur)
    BY <1>1, <1>2 DEF Ending
  <1>5. Asked
    BY <1>1 DEF Asked
  <1>6. Paced
    <2>1. Responses \in Nat /\ ReqLen \in Nat
      <3>1. Len(agentGot) = 0 /\ 0 \in Nat /\ RespLen \in Nat \ {0} /\ ReqLen \in Nat
        BY <1>1, LengthsAssumption
      <3> QED
        BY <3>1, DivFacts DEF Responses
    <2>2. 0 <= (Responses + 1) * ReqLen
      <3> DEFINE r == Responses
      <3> HIDE DEF r
      <3>1. r + 1 \in Nat
        BY <2>1 DEF r
      <3>2. (r + 1) * ReqLen \in Nat
        BY <2>1, <3>1, TimesMono
      <3> QED
        BY <3>2 DEF r
    <2> QED
      BY <1>1, <1>2, <2>2 DEF Paced
  <1>7. HalfClosed
    <2>1. ~Shut(<<>>) /\ agentOpen
      BY DEF Shut, Init
    <2> QED
      BY <1>1, <2>1 DEF HalfClosed, NewServerConn, NewClientSession
  <1> QED
    BY <1>3, <1>4, <1>5, <1>6, <1>7 DEF DInv

(* A step of a tunnel's frame loop.                                        *)
LEMMA ServeTunnelD ==
    ASSUME IInv, IInv', UInv, QInv, Orderly, DInv, NEW t \in Tunnels, ServeTunnel(t)
    PROVE  Downstream' /\ Ending(bs[1], srv[1], cur)' /\ Asked'
  BY HandleAttachD, FinishAttachD, HandleDataEarlyD, HandleDataD, HandleDataErrorD,
     FinishDataD, HandleAckD, HandleCloseD, TunnelEndD DEF ServeTunnel

(* A step of a session's own goroutine or timer, or of its destination.    *)
LEMMA UpstreamD ==
    ASSUME IInv, IInv', QInv, Orderly, DInv, NEW i \in Dials,
           Upstream(i) \/ WatchdogFire(i) \/ ServerSend(i) \/ ServerClose(i)
    PROVE  Downstream' /\ Ending(bs[1], srv[1], cur)' /\ Asked'
  <1>1. \A ok \in BOOLEAN : ~DialFail(i, ok)
    BY DEF Orderly, DialFail
  <1> QED
    BY <1>1, DialOKD, FlushPreD, ProduceD, ReadEOFD, ServerD DEF Upstream

(* Every step keeps DInv.                                                  *)
LEMMA NextDInv ==
    ASSUME IInv, IInv', UInv, QInv, Orderly, DInv, [Next]_vars
    PROVE  DInv'
  <1>1. Paced' /\ HalfClosed'
    BY NextPaced, NextHalfClosed DEF DInv
  <1>2. Downstream' /\ Ending(bs[1], srv[1], cur)' /\ Asked'
    BY ElsewhereD, ServeTunnelD, UpstreamD DEF Next
  <1> QED
    BY <1>1, <1>2 DEF DInv

(* DInv is an invariant of a connection that is dialed once by an agent    *)
(* that does not close it before it has its responses: what is on its way  *)
(* to the agent has no gap and its end comes last.  An agent that closes   *)
(* early is told of an end the destination did not make, when its CLOSE    *)
(* passes a replay and shuts the upstream that the replay is written to    *)
(* (onSidecarClose, onData).                                               *)
THEOREM DownstreamInvariance ==
    ASSUME Orderly
    PROVE  Spec => [](IInv /\ UInv /\ QInv /\ DInv)
  <1>1. OneWriterAtATime
    BY OneDial
  <1>2. Init => IInv /\ UInv /\ QInv /\ DInv
    BY InitIInv, InitUInv, InitQInv, InitDInv
  <1>3. IInv /\ UInv /\ QInv /\ DInv /\ [Next]_vars => (IInv /\ UInv /\ QInv /\ DInv)'
    BY <1>1, NextIInv, NextUInv, NextQInv, NextDInv
  <1> QED
    BY <1>2, <1>3, PTL DEF Spec

-----------------------------------------------------------------------------
(* The refinement.                                                         *)

(* Bytes that agree with the first ones of others are a prefix of them.    *)
LEMMA PrefixIs ==
    ASSUME NEW p \in Seq(Byte), NEW q \in Seq(Byte), Len(p) <= Len(q),
           \A k \in 1 .. Len(p) : p[k] = q[k]
    PROVE  Pipe!IsPrefix(p, q) /\ (Len(p) # Len(q) => Pipe!Extends(q, p))
  <1>1. SubSeq(p, 1, Len(p)) = SubSeq(q, 1, Len(p))
    <2> DEFINE r == SubSeq(p, 1, Len(p))
               s == SubSeq(q, 1, Len(p))
    <2>1. r \in Seq(Byte) /\ Len(r) = Len(p) /\ \A k \in 1 .. Len(p) : r[k] = p[k]
      OBVIOUS
    <2>2. s \in Seq(Byte) /\ Len(s) = Len(p) /\ \A k \in 1 .. Len(p) : s[k] = q[k]
      OBVIOUS
    <2> HIDE DEF r, s
    <2>3. Len(r) = Len(s) /\ \A k \in 1 .. Len(r) : r[k] = s[k]
      BY <2>1, <2>2
    <2>4. r = s
      BY <2>1, <2>2, <2>3, SeqEqual
    <2> QED
      BY <2>4 DEF r, s
  <1>2. Pipe!IsPrefix(p, q)
    BY <1>1 DEF Pipe!IsPrefix
  <1>3. Len(p) # Len(q) => p # q
    OBVIOUS
  <1> QED
    BY <1>2, <1>3 DEF Pipe!Extends, Pipe!IsStrictPrefix

(* Bytes that are the first ones of a stream.                              *)
LEMMA StreamIs ==
    ASSUME NEW c \in Nat, NEW n \in Nat
    PROVE  LET p == [k \in 1 .. n |-> <<c, 0 + k>>]
           IN  p \in Seq(Byte) /\ Len(p) = n /\ \A k \in 1 .. n : p[k] = <<c, k>>
  <1> DEFINE p == [k \in 1 .. n |-> <<c, 0 + k>>]
  <1>1. \A k \in 1 .. n : <<c, 0 + k>> \in Byte /\ 0 + k = k
    BY DEF Byte
  <1>2. p \in Seq(Byte) /\ Len(p) = n
    BY <1>1
  <1>3. \A k \in 1 .. n : p[k] = <<c, k>>
    BY <1>1
  <1> QED
    BY <1>2, <1>3

(* What the destination has, when it is the agent's and no more.           *)
LEMMA UpPrefix ==
    ASSUME NEW g \in Seq(Byte), NEW e \in Nat, Agents(g, 0), Len(g) <= e
    PROVE  Pipe!IsPrefix(g, AgentBytes(0, e))
  <1> DEFINE q == AgentBytes(0, e)
  <1>1. q \in Seq(Byte) /\ Len(q) = e /\ \A k \in 1 .. e : q[k] = <<0, k>>
    BY StreamIs DEF AgentBytes
  <1> HIDE DEF q
  <1>2. ASSUME NEW k \in 1 .. Len(g) PROVE g[k] = q[k]
    <2>1. Len(g) \in Nat
      OBVIOUS
    <2>2. k \in 1 .. e /\ 0 + k = k
      BY <2>1
    <2>3. g[k] = <<0, 0 + k>>
      BY DEF Agents
    <2> QED
      BY <1>1, <2>2, <2>3
  <1>3. Pipe!IsPrefix(g, q)
    BY <1>1, <1>2, PrefixIs
  <1> QED
    BY <1>3 DEF q

(* What the agent has, when it is the destination's and no more.           *)
LEMMA DownPrefix ==
    ASSUME NEW g \in Seq(Byte), NEW m \in Nat, Positioned(g, 0), Ours(g), Len(g) <= m
    PROVE  /\ Pipe!IsPrefix(g, ServerBytes(1, 0, m))
           /\ Len(g) = m => g = ServerBytes(1, 0, m)
  <1> DEFINE q == ServerBytes(1, 0, m)
  <1>1. q \in Seq(Byte) /\ Len(q) = m /\ \A k \in 1 .. m : q[k] = <<1, k>>
    BY StreamIs DEF ServerBytes
  <1> HIDE DEF q
  <1>2. ASSUME NEW k \in 1 .. Len(g) PROVE g[k] = q[k]
    <2>1. g[k] \in Byte
      BY ElementOfSeq
    <2>2. g[k][1] = 1 /\ g[k][2] = k
      BY DEF Positioned, Ours
    <2>3. g[k] = <<1, k>>
      BY <2>1, <2>2 DEF Byte
    <2>4. Len(g) \in Nat
      OBVIOUS
    <2>5. k \in 1 .. m
      BY <2>4
    <2> QED
      BY <1>1, <2>3, <2>5
  <1>3. Pipe!IsPrefix(g, q)
    BY <1>1, <1>2, PrefixIs
  <1>4. Len(g) = m => g = q
    BY <1>1, <1>2, SeqEqual
  <1> QED
    BY <1>3, <1>4 DEF q

(* A stream gets longer, of either side's bytes or of those that arrived.  *)
LEMMA StreamGrows ==
    ASSUME NEW m \in Nat, NEW n \in Nat, m < n
    PROVE  /\ Pipe!Extends(AgentBytes(0, n), AgentBytes(0, m))
           /\ Pipe!Extends(ServerBytes(1, 0, n), ServerBytes(1, 0, m))
  <1> DEFINE q(c, e) == [k \in 1 .. e |-> <<c, 0 + k>>]
  <1>1. ASSUME NEW c \in Nat PROVE Pipe!Extends(q(c, n), q(c, m))
    <2> DEFINE r == q(c, n)
               s == q(c, m)
    <2>1. r \in Seq(Byte) /\ Len(r) = n /\ \A k \in 1 .. n : r[k] = <<c, k>>
      BY <1>1, StreamIs
    <2>2. s \in Seq(Byte) /\ Len(s) = m /\ \A k \in 1 .. m : s[k] = <<c, k>>
      BY <1>1, StreamIs
    <2> HIDE DEF r, s
    <2>3. Len(s) <= Len(r) /\ Len(s) # Len(r) /\ \A k \in 1 .. Len(s) : s[k] = r[k]
      <3>1. \A k \in 1 .. m : k \in 1 .. n
        OBVIOUS
      <3>2. \A k \in 1 .. m : s[k] = r[k]
        BY <2>1, <2>2, <3>1
      <3>3. m <= n /\ m # n
        OBVIOUS
      <3> QED
        BY <2>1, <2>2, <3>2, <3>3
    <2>4. Pipe!Extends(r, s)
      BY <2>1, <2>2, <2>3, PrefixIs
    <2> QED
      BY <2>4 DEF r, s
  <1> HIDE DEF q
  <1>2. AgentBytes(0, n) = q(0, n) /\ AgentBytes(0, m) = q(0, m)
    BY DEF AgentBytes, q
  <1>3. ServerBytes(1, 0, n) = q(1, n) /\ ServerBytes(1, 0, m) = q(1, m)
    BY DEF ServerBytes, q
  <1> QED
    BY <1>1, <1>2, <1>3

(* Bytes that arrived, with more behind them.                              *)
LEMMA ConcatExtends ==
    ASSUME NEW p \in Seq(Byte), NEW q \in Seq(Byte), q # <<>>
    PROVE  Pipe!Extends(p \o q, p)
  <1> DEFINE r == p \o q
  <1>1. r \in Seq(Byte) /\ Len(r) = Len(p) + Len(q) /\ \A k \in 1 .. Len(p) : p[k] = r[k]
    OBVIOUS
  <1> HIDE DEF r
  <1>2. Len(q) > 0 /\ Len(p) \in Nat /\ Len(q) \in Nat
    OBVIOUS
  <1>3. Pipe!Extends(r, p)
    BY <1>1, <1>2, PrefixIs
  <1> QED
    BY <1>3 DEF r

(* A step of the session as the two pipes see it.                          *)
PipeStep == [Pipe!Next]_(Pipe!pipeVars)

(* The ends of the pipes.                                                  *)
SameUp   == End(cs'.upBuf) = End(cs.upBuf) /\ srv'[1].got = srv[1].got
SameDown == srv'[1].sent = srv[1].sent /\ agentGot' = agentGot
SameEnds == srv'[1].fin = srv[1].fin /\ cs'.downClosed = cs.downClosed

(* A step that is invisible at the ends of the pipes.                      *)
LEMMA SamePipe ==
    ASSUME SameUp, SameDown, SameEnds
    PROVE  PipeStep
  BY DEF SameUp, SameDown, SameEnds, PipeStep, Pipe!pipeVars

(* A step that leaves the sidecar and what the destination has alone.      *)
LEMMA SameSidecar ==
    ASSUME UNCHANGED sidecarVars, srv'[1].got = srv[1].got, srv'[1].sent = srv[1].sent,
           srv'[1].fin = srv[1].fin
    PROVE  PipeStep
  BY SamePipe DEF sidecarVars, SameUp, SameDown, SameEnds

(* writeUp is the agent's write; the proxy's other steps do not show.      *)
LEMMA ProxyP ==
    ASSUME IInv, ProxyPump \/ ProxyClose
    PROVE  PipeStep
  <1>1. cs \in ClientSessionType /\ End(cs.upBuf) \in Nat /\ srv' = srv /\ agentGot' = agentGot
    <2>1. UNCHANGED brokerVars /\ agentGot' = agentGot
      BY DEF ProxyPump, ProxyClose, SendOpen, WriteUpSend, OpenSession, WriteUp, CloseUp
    <2> QED
      BY <2>1, SidecarFacts, EndNat DEF brokerVars
  <1>2. CASE \E n \in 1 .. UpCap : WriteUp(n)
    <2>1. PICK n \in 1 .. UpCap : WriteUp(n)
      BY <1>2
    <2>2. End(cs'.upBuf) = End(cs.upBuf) + n /\ cs'.downClosed = cs.downClosed
      BY <2>1, WriteUpEnd
    <2>3. End(cs'.upBuf) \in Nat /\ End(cs.upBuf) < End(cs'.upBuf)
      BY <1>1, <2>2
    <2>4. Pipe!Extends(AgentBytes(0, End(cs'.upBuf)), AgentBytes(0, End(cs.upBuf)))
      BY <1>1, <2>3, StreamGrows
    <2>5. Pipe!AgentWrites
      BY <1>1, <2>2, <2>4 DEF Pipe!AgentWrites
    <2> QED
      BY <2>5 DEF PipeStep, Pipe!Next
  <1>3. CASE SendOpen \/ WriteUpSend \/ OpenSession \/ ProxyClose
    <2>1. \/ cs' = cs \/ cs' = [cs EXCEPT !.st = "open"] \/ cs' = [cs EXCEPT !.st = "opening"]
          \/ cs' = [cs EXCEPT !.upClosed = TRUE]
      BY <1>3 DEF ProxyClose, SendOpen, WriteUpSend, OpenSession, CloseUp
    <2>2. cs'.upBuf = cs.upBuf /\ cs'.downClosed = cs.downClosed
      BY <1>1, <2>1 DEF ClientSessionType
    <2> QED
      BY <1>1, <2>2, SamePipe DEF SameUp, SameDown, SameEnds
  <1> QED
    BY <1>2, <1>3 DEF ProxyPump

(* onClose: the end the agent sees is the destination's, and it has read   *)
(* everything before it.                                                   *)
LEMMA RecvCloseP ==
    ASSUME IInv, QInv, Orderly, DInv, RecvClose
    PROVE  PipeStep
  <1> DEFINE q == downq[conn]
             f == q[1]
             d == cs.downDelivered
             e == End(bs[1].downBuf)
             m == srv[1].sent
  <1>1. PICK type \in {"CLOSE", "LOST"} : Receive(type)
    BY DEF RecvClose
  <1>2. /\ conn \in Tunnels /\ conn # 0 /\ q \in Seq(Frame) /\ q # <<>> /\ Head(q).type = type
        /\ cs \in ClientSessionType /\ d \in Nat /\ e \in Nat /\ m \in Nat
    BY <1>1, SidecarFacts, DownTypes DEF Receive
  <1>3. 1 \in 1 .. Len(q) /\ f = Head(q) /\ Closing(f)
    BY <1>2 DEF Closing
  <1>4. UNCHANGED <<agentGot, brokerVars>>
        /\ cs' = IF SessionKnown THEN [cs EXCEPT !.downClosed = TRUE] ELSE cs
    BY DEF RecvClose
  <1>5. srv' = srv /\ agentGot' = agentGot /\ cs'.upBuf = cs.upBuf
    BY <1>2, <1>4 DEF brokerVars, ClientSessionType
  <1>6. CASE ~SessionKnown \/ cs.downClosed
    <2>1. cs'.downClosed = cs.downClosed
      BY <1>2, <1>4, <1>6 DEF ClientSessionType
    <2> QED
      BY <1>5, <2>1, SamePipe DEF SameUp, SameDown, SameEnds
  <1>7. CASE SessionKnown /\ ~cs.downClosed
    <2>1. cs'.downClosed = TRUE
      BY <1>2, <1>4, <1>7 DEF ClientSessionType
    <2>2. Live /\ Downstream
      BY <1>2, <1>7 DEF Live, SessionKnown, DInv
    <2>3. Kind(f, srv[1].fin) /\ Flow(q, d, m) /\ Ours(agentGot) /\ d <= e
      BY <1>2, <1>3, <2>2, DownFacts DEF Tidy
    <2>4. m <= d
      BY <1>3, <2>3 DEF Flow, Reach
    <2>5. e <= m
      BY OneDial, QFacts DEF SupplyOK
    <2>6. Len(agentGot) = m /\ agentGot \in Seq(Byte) /\ Positioned(agentGot, 0)
      <3>1. Len(agentGot) = d /\ agentGot \in Seq(Byte) /\ Positioned(agentGot, 0)
        BY SidecarFacts
      <3> HIDE DEF d, e, m
      <3> QED
        BY <1>2, <2>3, <2>4, <2>5, <3>1
    <2>7. agentGot = ServerBytes(1, 0, m)
      BY <1>2, <2>3, <2>6, DownPrefix
    <2>8. srv[1].fin
      BY <1>3, <2>3 DEF Kind
    <2>9. Pipe!AgentSeesEnd
      BY <1>5, <1>7, <2>1, <2>7, <2>8 DEF Pipe!AgentSeesEnd
    <2> QED
      BY <2>9 DEF PipeStep, Pipe!Next
  <1> QED
    BY <1>6, <1>7

(* deliverDown: what the agent reads next is what the destination wrote    *)
(* next.                                                                   *)
LEMMA RecvDataP ==
    ASSUME IInv, IInv', QInv, Orderly, DInv, NEW ok \in BOOLEAN, RecvData(ok)
    PROVE  PipeStep
  <1> DEFINE f == Head(downq[conn])
             p == Fresh(f.off, f.data, cs.downDelivered)
             e == End(bs[1].downBuf)
             m == srv[1].sent
  <1>1. /\ End(cs'.upBuf) = End(cs.upBuf) /\ srv' = srv
    BY RecvShape DEF brokerVars
  <1>2. /\ cs \in ClientSessionType /\ agentGot \in Seq(Byte) /\ p \in Seq(Byte)
        /\ e \in Nat /\ m \in Nat
    <2>1. f.off \in Nat /\ f.data \in Seq(Byte) /\ cs.downDelivered \in Nat
      BY ReceiveOK, SidecarFacts DEF RecvData
    <2> QED
      BY <2>1, SidecarFacts, DownTypes, FreshEnd
  <1>3. CASE agentGot' = agentGot
    <2>1. \/ cs' = cs \/ cs' = [cs EXCEPT !.st = "gone"]
          \/ cs' = [cs EXCEPT !.downDelivered = cs.downDelivered + Len(p)]
      BY DEF RecvData
    <2>2. cs'.downClosed = cs.downClosed
      BY <1>2, <2>1 DEF ClientSessionType
    <2> QED
      BY <1>1, <1>3, <2>2, SamePipe DEF SameUp, SameDown, SameEnds
  <1>4. CASE agentGot' # agentGot
    <2>1. /\ p # <<>> /\ ~cs.downClosed /\ agentGot' = agentGot \o p
          /\ cs' = [cs EXCEPT !.downDelivered = cs.downDelivered + Len(p)]
      BY <1>4 DEF RecvData
    <2>2. cs'.downClosed = cs.downClosed
      BY <1>2, <2>1 DEF ClientSessionType
    <2>3. Pipe!Extends(agentGot', agentGot)
      BY <1>2, <2>1, ConcatExtends
    <2>4. agentGot' \in Seq(Byte) /\ Positioned(agentGot', 0) /\ Len(agentGot') = cs'.downDelivered
      BY DEF IInv, TypeOK
    <2>5. Ours(agentGot') /\ cs'.downDelivered <= e
      BY ReadDown
    <2>6. e <= m
      BY OneDial, QFacts DEF SupplyOK
    <2>7. Len(agentGot') <= m
      <3>1. Len(agentGot') \in Nat
        BY <2>4
      <3> HIDE DEF e, m
      <3> QED
        BY <1>2, <2>4, <2>5, <2>6, <3>1
    <2>8. Pipe!IsPrefix(agentGot', ServerBytes(1, 0, m))
      BY <1>2, <2>4, <2>5, <2>7, DownPrefix
    <2>9. Pipe!AgentReads
      BY <1>1, <2>1, <2>2, <2>3, <2>8 DEF Pipe!AgentReads
    <2> QED
      BY <2>9 DEF PipeStep, Pipe!Next
  <1> QED
    BY <1>3, <1>4

(* The steps of Client.Run.                                                *)
LEMMA ClientP ==
    ASSUME IInv, IInv', QInv, Orderly, DInv, ClientRun
    PROVE  PipeStep
  <1>1. CASE RecvClose \/ \E ok \in BOOLEAN : RecvData(ok)
    BY <1>1, RecvCloseP, RecvDataP
  <1>2. CASE RecvAck \/ RecvAttachOK
    <2>1. End(cs'.upBuf) = End(cs.upBuf) /\ srv' = srv
      BY <1>2, RecvShape DEF brokerVars
    <2>2. agentGot' = agentGot /\ (cs' = cs \/ \E b : cs' = [cs EXCEPT !.upBuf = b])
      BY <1>2 DEF RecvAck, RecvAttachOK
    <2>3. cs'.downClosed = cs.downClosed
      BY <2>2, SidecarFacts DEF ClientSessionType
    <2> QED
      BY <2>1, <2>2, <2>3, SamePipe DEF SameUp, SameDown, SameEnds
  <1>3. CASE Reattach \/ ReadLoopSend \/ Disconnect \/ \E t \in Tunnels : Connect(t)
    <2>1. UNCHANGED <<cs, agentGot, brokerVars>>
      BY <1>3 DEF Reattach, ReadLoopSend, Disconnect, Connect
    <2> QED
      BY <2>1, SamePipe DEF SameUp, SameDown, SameEnds, brokerVars
  <1> QED
    BY <1>1, <1>2, <1>3 DEF ClientRun

(* onData and dialUpstream: the destination reads what the agent wrote     *)
(* next.                                                                   *)
LEMMA GotP ==
    ASSUME IInv, IInv', UInv', QInv', Orderly, UNCHANGED sidecarVars, NEW p \in Seq(Byte), p # <<>>,
           srv' = [srv EXCEPT ![1].got = srv[1].got \o p]
    PROVE  PipeStep
  <1> DEFINE e == End(cs.upBuf)
  <1>1. 1 \in Dials /\ srv \in [Dials -> ServerConnType] /\ srv[1].got \in Seq(Byte)
        /\ e \in Nat
    BY OneDial, BrokerFacts, SidecarFacts, EndNat DEF ServerConnType
  <1>2. /\ srv'[1].got = srv[1].got \o p /\ srv'[1].sent = srv[1].sent
        /\ srv'[1].fin = srv[1].fin
    BY <1>1 DEF ServerConnType
  <1>3. UNCHANGED <<cs, agentGot>>
    BY DEF sidecarVars
  <1>4. Pipe!Extends(srv'[1].got, srv[1].got)
    BY <1>1, <1>2, ConcatExtends
  <1>5. srv'[1].got \in Seq(Byte)
    BY <1>1, <1>2
  <1>6. Agents(srv'[1].got, 0) /\ Len(srv'[1].got) <= e
    <2>1. TakenOK(bs'[1], srv'[1])
      BY <1>1 DEF UInv
    <2>2. SupplyOK(bs'[1], srv'[1], End(cs'.upBuf))
      BY <1>1 DEF QInv
    <2> QED
      BY <1>3, <2>1, <2>2 DEF TakenOK, SupplyOK
  <1>7. Pipe!IsPrefix(srv'[1].got, AgentBytes(0, e))
    BY <1>1, <1>5, <1>6, UpPrefix
  <1>8. Pipe!ServerReads
    BY <1>2, <1>3, <1>4, <1>7 DEF Pipe!ServerReads
  <1> QED
    BY <1>8 DEF PipeStep, Pipe!Next

(* A step of a tunnel's frame loop: only onData shows.                     *)
LEMMA ServeTunnelP ==
    ASSUME IInv, IInv', UInv', QInv', Orderly, DInv, NEW t \in Tunnels, ServeTunnel(t)
    PROVE  PipeStep
  <1>1. UNCHANGED sidecarVars
    BY BrokerStill
  <1>2. 1 \in Dials /\ srv \in [Dials -> ServerConnType] /\ bs[1] \in SessionType /\ cur \in {0, 1}
    BY OneDial, BrokerFacts, DownTypes
  <1>3. CASE HandleData(t)
    <2> DEFINE f == Head(upq[t])
               p == Fresh(f.off, f.data, bs[1].upstreamWritten)
    <2>1. Serve(t, "DATA") /\ cur = 1
      BY <1>2, <1>3 DEF HandleData
    <2>2. f \in Frame
      BY <2>1, ServePart DEF DInv
    <2>3. f.off \in Nat /\ f.data \in Seq(Byte) /\ bs[1].upstreamWritten \in Nat
      BY <1>2, <2>2, UptoNat DEF SessionType
    <2>4. p \in Seq(Byte)
      BY <2>3, FreshEnd
    <2>5. srv' = srv \/ (p # <<>> /\ srv' = [srv EXCEPT ![1].got = srv[1].got \o p])
      BY <1>3, <2>1 DEF HandleData
    <2> HIDE DEF p
    <2>6. CASE srv' = srv
      BY <1>1, <2>6, SameSidecar
    <2> QED
      BY <1>1, <2>4, <2>5, <2>6, GotP
  <1>4. CASE ~HandleData(t)
    <2>1. srv' = srv \/ \E x : srv' = [srv EXCEPT ![1].eof = x]
      <3>1. CASE HandleClose(t)
        <4>1. cur = 1
          BY <1>2, <3>1 DEF HandleClose
        <4> QED
          BY <3>1, <4>1 DEF HandleClose
      <3>2. CASE ~HandleClose(t)
        BY <1>4, <3>2 DEF ServeTunnel, FinishAttach, FinishData, HandleDataError, HandleOpen,
           HandleAttach, HandleDataEarly, HandleAck, HandleUnknown, TunnelEnd, brokerVars
      <3> QED
        BY <3>1, <3>2
    <2>2. srv'[1].got = srv[1].got /\ srv'[1].sent = srv[1].sent /\ srv'[1].fin = srv[1].fin
      BY <1>2, <2>1 DEF ServerConnType
    <2> QED
      BY <1>1, <2>2, SameSidecar
  <1> QED
    BY <1>3, <1>4

(* The session's own goroutine, its timer and the destination.             *)
LEMMA UpstreamP ==
    ASSUME IInv, IInv', UInv', QInv, QInv', Orderly, NEW i \in Dials,
           Upstream(i) \/ WatchdogFire(i) \/ ServerSend(i) \/ ServerClose(i)
    PROVE  PipeStep
  <1>1. UNCHANGED sidecarVars
    BY BrokerStill
  <1>2. i = 1 /\ 1 \in Dials /\ srv \in [Dials -> ServerConnType] /\ bs[1] \in SessionType
        /\ srv[1].sent \in Nat
    BY OneDial, BrokerFacts, DownTypes
  <1>3. UNCHANGED <<cs, agentGot>>
    BY <1>1 DEF sidecarVars
  <1>4. CASE \E ok \in BOOLEAN : FlushPre(i, ok)
    <2>1. PICK ok \in BOOLEAN : FlushPre(i, ok)
      BY <1>4
    <2>2. bs[1].dial = "flushing" /\ srv' = [srv EXCEPT ![1].got = srv[1].got \o bs[1].preConn]
      BY <1>2, <2>1 DEF FlushPre
    <2>3. bs[1].preConn \in Seq(Byte) /\ bs[1].preConn # <<>>
      BY <1>2, <2>2, QFacts DEF SupplyOK, SessionType
    <2> QED
      BY <1>1, <2>2, <2>3, GotP
  <1>5. CASE ServerSend(i)
    <2> DEFINE m == srv[1].sent
    <2>1. ~srv[1].fin /\ srv' = [srv EXCEPT ![1].sent = m + 1]
      BY <1>2, <1>5 DEF ServerSend
    <2>2. srv'[1].got = srv[1].got /\ srv'[1].fin = srv[1].fin /\ srv'[1].sent = m + 1
      BY <1>2, <2>1 DEF ServerConnType
    <2>3. m \in Nat /\ m + 1 \in Nat /\ m < m + 1
      <3> HIDE DEF m
      <3>1. m \in Nat
        BY <1>2 DEF m
      <3> QED
        BY <3>1
    <2>4. Pipe!Extends(ServerBytes(1, 0, m + 1), ServerBytes(1, 0, m))
      BY <2>3, StreamGrows
    <2>5. Pipe!ServerWrites
      BY <1>3, <2>1, <2>2, <2>4 DEF Pipe!ServerWrites
    <2> QED
      BY <2>5 DEF PipeStep, Pipe!Next
  <1>6. CASE ServerClose(i)
    <2>1. ~srv[1].fin /\ srv' = [srv EXCEPT ![1].fin = TRUE]
      BY <1>2, <1>6 DEF ServerClose
    <2>2. srv'[1].got = srv[1].got /\ srv'[1].fin = TRUE /\ srv'[1].sent = srv[1].sent
      BY <1>2, <2>1 DEF ServerConnType
    <2>3. Pipe!ServerEnds
      BY <1>3, <2>1, <2>2 DEF Pipe!ServerEnds
    <2> QED
      BY <2>3 DEF PipeStep, Pipe!Next
  <1>7. CASE srv' = srv
    BY <1>1, <1>7, SameSidecar
  <1>8. \/ \E ok \in BOOLEAN : FlushPre(i, ok)
        \/ ServerSend(i) \/ ServerClose(i) \/ srv' = srv
    BY DEF Upstream, DialOK, DialFail, FlushError, Produce, ReadEOF, WatchdogFire
  <1> QED
    BY <1>4, <1>5, <1>6, <1>7, <1>8

(* Every step of the session is a step of the pipes or does not show.      *)
LEMMA NextPipe ==
    ASSUME IInv, IInv', UInv', QInv, QInv', Orderly, DInv, [Next]_vars
    PROVE  PipeStep
  <1>1. CASE ResumeActor \/ ResumeElsewhere \/ Suspend \/ Break \/ UNCHANGED vars
    <2>1. UNCHANGED sidecarVars
      BY <1>1, BrokerStill
    <2>2. srv' = srv
      BY <1>1 DEF ResumeActor, ResumeElsewhere, Suspend, Break, vars, brokerVars
    <2> QED
      BY <2>1, <2>2, SameSidecar
  <1> QED
    BY <1>1, ProxyP, ClientP, ServeTunnelP, UpstreamP DEF Next

(* The pipes are empty at first.                                           *)
LEMMA InitPipe ==
    ASSUME Orderly, Init
    PROVE  Pipe!Init
  <1>1. /\ srv[1] = NewServerConn /\ cs = NewClientSession /\ agentGot = <<>>
    BY OneDial DEF Init
  <1>2. /\ NewServerConn.sent = 0 /\ NewServerConn.fin = FALSE /\ NewServerConn.got = <<>>
        /\ NewClientSession.downClosed = FALSE /\ End(NewClientSession.upBuf) = 0
    BY DEF NewServerConn, NewClientSession, NewReplayBuffer, End, BufLen
  <1>3. AgentBytes(0, 0) = <<>> /\ ServerBytes(1, 0, 0) = <<>>
    BY DEF AgentBytes, ServerBytes
  <1> QED
    BY <1>1, <1>2, <1>3 DEF Pipe!Init

(* ImplementsPipe: the sidecar, the broker and the tunnels between them    *)
(* are a byte pipe each way, with an end, for a connection that is dialed  *)
(* once by an agent that does not close it before it has its responses:    *)
(* through every suspend, cut, replay and reconnect the destination reads  *)
(* what the agent wrote (onData, dialUpstream), the agent reads what the   *)
(* destination wrote (deliverDown), and it is told of the end only when it *)
(* has all of it (onClose, closeUpstream, attachSession).                  *)
THEOREM ImplementsBytePipe ==
    ASSUME Orderly
    PROVE  Spec => ImplementsPipe
  <1>1. Init => Pipe!Init
    BY InitPipe
  <1>2. (IInv /\ UInv /\ QInv /\ DInv) /\ (IInv /\ UInv /\ QInv /\ DInv)' /\ [Next]_vars
        => [Pipe!Next]_(Pipe!pipeVars)
    BY NextPipe DEF PipeStep
  <1> QED
    BY <1>1, <1>2, DownstreamInvariance, PTL DEF Spec, ImplementsPipe, Pipe!Spec

-----------------------------------------------------------------------------
(* A suspended actor is woken for the answer, for responses that come in   *)
(* one piece, suspends that wait until the request is upstream, and a      *)
(* connection that carries one request, or is served in order: the ACK of  *)
(* a response is sent before the next request is written, and no frame     *)
(* loop outlives its tunnel.                                               *)
Prompt ==
    /\ OneWriterAtATime /\ MaxDials = 1 /\ RespLen = 1 /\ PoliteSuspend = TRUE
    /\ Rounds = 1 \/ ("deliverDown" \notin Preempt /\ "serveTunnel" \notin Preempt)

(* An ACK of a responses covers the first n bytes the agent wrote: they    *)
(* are no more than the requests that were answered.                       *)
Covers(a, n) == Rounds = 1 \/ n <= a * ReqLen

(* An ACK covers everything that reached session s before it, c being the  *)
(* destination's end of it.                                                *)
AckOK(a, s, c) ==
    /\ a # 0 /\ Covers(a, Len(c.got))
    /\ Unflushed(s) => Covers(a, s.upstreamWritten + Len(s.preConn))

AcksCover(q, s, c) ==
    \A k \in 1 .. Len(q) : q[k].type = "ACK" =>
        /\ AckOK(q[k].off, s, c)
        /\ \A j \in 1 .. k - 1 : q[j].data # <<>> => Covers(q[k].off, Upto(q[j]))

(* A wake-up was requested for what an unbound session holds.              *)
Alerted(B, i) ==
    LET s == B.s[i]
    IN s.requestOutstanding /\ s.tconn = 0 /\ (BufLen(s.downBuf) > 0 \/ s.downClosed) => B.w

(* A suspended actor whose agent waits has its request upstream.           *)
Watched ==
    actor = "suspended" =>
        /\ bs[1].dial # "none"
        /\ AgentWaits /\ cur # 0 => bs[1].upstreamWritten = End(cs.upBuf) /\ Alerted(Broker, 1)

AInv ==
    /\ ~bs[1].requestOutstanding => bs[1].upstreamWritten <= cs.downDelivered * ReqLen
    /\ wout # <<>> => wout[1].type # "ACK"
    /\ rout # <<>> /\ rout[1].type = "ACK" => rout[1].off # 0 /\ Covers(rout[1].off, End(cs.upBuf))
    /\ \A t \in Tunnels : AcksCover(upq[t], bs[1], srv[1])
    /\ cur # 0 => bs[1].dial # "none"
    /\ \A t \in Tunnels : Writes(pend[t], 1) => pend[t][1].data # <<>>
    /\ Watched

(* The types of what AInv relates.                                         *)
LEMMA WaitTypes ==
    ASSUME IInv, Prompt
    PROVE  /\ Dials = {1} /\ OneWriterAtATime /\ cur \in {0, 1} /\ 0 \notin Tunnels
           /\ bs[1] \in SessionType /\ srv[1] \in ServerConnType
           /\ bs \in [Dials -> SessionType] /\ srv \in [Dials -> ServerConnType]
           /\ bs[1].upstreamWritten \in Nat /\ Len(bs[1].preConn) \in Nat
           /\ Len(srv[1].got) \in Nat /\ cs.downDelivered \in Nat
           /\ upq \in [Tunnels -> Seq(Frame)] /\ End(cs.upBuf) \in Nat
           /\ Responses = cs.downDelivered /\ ReqLen \in Nat
  <1>1. Dials = {1} /\ OneWriterAtATime /\ 0 \notin Tunnels
    BY DEF Prompt, Dials, Tunnels
  <1>2. bs \in [Dials -> SessionType] /\ srv \in [Dials -> ServerConnType]
        /\ cs.downDelivered \in Nat /\ cs.upBuf \in ReplayBufferType
        /\ Len(agentGot) = cs.downDelivered /\ upq \in [Tunnels -> Seq(Frame)]
        /\ cur \in 0 .. MaxDials
    BY BrokerFacts, SidecarFacts
  <1>3. bs[1] \in SessionType /\ srv[1] \in ServerConnType
    BY <1>1, <1>2
  <1>4. ReqLen \in Nat
    BY LengthsAssumption
  <1>5. Responses = cs.downDelivered
    BY <1>2 DEF Responses, Prompt
  <1>6. cur \in {0, 1}
    BY <1>2 DEF Prompt
  <1> QED
    BY <1>1, <1>2, <1>3, <1>4, <1>5, <1>6, SupplyTypes, EndNat

(* A smaller number of bytes, or a later ACK.                              *)
LEMMA CoversMore ==
    ASSUME NEW a \in Nat, NEW b \in Nat, a <= b, NEW m \in Nat, NEW n \in Nat, m <= n,
           Covers(a, n)
    PROVE  Covers(b, m)
  <1>1. ReqLen \in Nat
    BY LengthsAssumption
  <1>2. a * ReqLen \in Nat /\ b * ReqLen \in Nat /\ a * ReqLen <= b * ReqLen
    BY <1>1, TimesMono
  <1> QED
    BY <1>2 DEF Covers

-----------------------------------------------------------------------------
(* The ACKs on their way to the broker.                                    *)

(* Frames are taken or lost, and the session has what it had.              *)
LEMMA CoverPart ==
    ASSUME NEW q \in Seq(Frame), NEW v \in Seq(Frame), Part(v, q), NEW s, NEW c, NEW r, NEW e,
           \A a : AckOK(a, s, c) => AckOK(a, r, e), AcksCover(q, s, c)
    PROVE  AcksCover(v, r, e)
  <1>1. PICK a \in Nat : a + Len(v) <= Len(q) /\ \A k \in 1 .. Len(v) : v[k] = q[k + a]
    BY DEF Part
  <1> SUFFICES ASSUME NEW k \in 1 .. Len(v), v[k].type = "ACK"
               PROVE  /\ AckOK(v[k].off, r, e)
                      /\ \A j \in 1 .. k - 1 : v[j].data # <<>> => Covers(v[k].off, Upto(v[j]))
    BY DEF AcksCover
  <1>2. k + a \in 1 .. Len(q) /\ v[k] = q[k + a]
    BY <1>1
  <1>3. /\ AckOK(q[k + a].off, s, c)
        /\ \A j \in 1 .. k + a - 1 :
              q[j].data # <<>> => Covers(q[k + a].off, Upto(q[j]))
    BY <1>2 DEF AcksCover
  <1>4. \A j \in 1 .. k - 1 : j + a \in 1 .. k + a - 1 /\ v[j] = q[j + a]
    BY <1>1
  <1> QED
    BY <1>2, <1>3, <1>4

(* A frame is sent: no ACK, or one that covers all that went before it.    *)
LEMMA CoverAppend ==
    ASSUME NEW q \in Seq(Frame), NEW f \in Frame, NEW s, NEW c, AcksCover(q, s, c),
           f.type = "ACK" =>
              /\ AckOK(f.off, s, c)
              /\ \A j \in 1 .. Len(q) : q[j].data # <<>> => Covers(f.off, Upto(q[j]))
    PROVE  AcksCover(Append(q, f), s, c)
  <1> DEFINE v == Append(q, f)
  <1>1. Len(v) = Len(q) + 1 /\ v[Len(q) + 1] = f /\ Len(q) \in Nat
        /\ \A k \in 1 .. Len(q) : v[k] = q[k]
    OBVIOUS
  <1> HIDE DEF v
  <1> SUFFICES ASSUME NEW k \in 1 .. Len(v), v[k].type = "ACK"
               PROVE  /\ AckOK(v[k].off, s, c)
                      /\ \A j \in 1 .. k - 1 : v[j].data # <<>> => Covers(v[k].off, Upto(v[j]))
    BY DEF AcksCover, v
  <1>2. \A j \in 1 .. k - 1 : j \in 1 .. Len(q) /\ v[j] = q[j]
    BY <1>1
  <1>3. CASE k \in 1 .. Len(q)
    <2>1. v[k] = q[k]
      BY <1>1, <1>3
    <2> QED
      BY <1>2, <1>3, <2>1 DEF AcksCover
  <1>4. CASE k = Len(q) + 1
    <2>1. v[k] = f
      BY <1>1, <1>4
    <2> QED
      BY <1>2, <2>1
  <1> QED
    BY <1>1, <1>3, <1>4

(* Client.send.                                                            *)
LEMMA CoverSend ==
    ASSUME IInv, Prompt, AInv, NEW f \in Frame, Send(f),
           f.type = "ACK" =>
              /\ AckOK(f.off, bs[1], srv[1])
              /\ \A t \in Tunnels : \A j \in 1 .. Len(upq[t]) :
                    upq[t][j].data # <<>> => Covers(f.off, Upto(upq[t][j]))
    PROVE  \A t \in Tunnels : AcksCover(upq'[t], bs[1], srv[1])
  <1> SUFFICES ASSUME NEW t \in Tunnels
               PROVE  AcksCover(upq'[t], bs[1], srv[1])
    OBVIOUS
  <1>1. upq \in [Tunnels -> Seq(Frame)] /\ conn \in 0 .. MaxTunnels
        /\ AcksCover(upq[t], bs[1], srv[1])
    BY SidecarFacts DEF AInv
  <1>2. upq'[t] \in {upq[t], Append(upq[t], OnWire(f))}
    BY <1>1, WriteFrameAt DEF Send
  <1>3. OnWire(f) \in Frame
        /\ (OnWire(f).type = "ACK" => f.type = "ACK" /\ OnWire(f).off = f.off)
    BY OnWireFrame
  <1>4. AcksCover(Append(upq[t], OnWire(f)), bs[1], srv[1])
    BY <1>1, <1>3, CoverAppend
  <1> QED
    BY <1>1, <1>2, <1>4

(* serveTunnel took a frame: what is left in each queue.                   *)
LEMMA ServeParts ==
    ASSUME IInv, NEW t \in Tunnels, NEW type, Serve(t, type)
    PROVE  /\ \A u \in Tunnels : Part(upq'[u], upq[u])
           /\ \A u \in Tunnels : upq[u] \in Seq(Frame) /\ upq'[u] \in Seq(Frame)
           /\ Head(upq[t]) = upq[t][1] /\ 1 \in 1 .. Len(upq[t])
           /\ upq[t][1] \in Frame /\ upq[t][1].type = type
           /\ upq'[t] = Tail(upq[t]) /\ \A u \in Tunnels : u # t => upq'[u] = upq[u]
           /\ pend[t] = <<>> /\ upq[t] # <<>>
  <1>1. upq \in [Tunnels -> Seq(Frame)] /\ upq[t] # <<>> /\ upq[t] \in Seq(Frame)
        /\ upq' = [upq EXCEPT ![t] = Tail(upq[t])] /\ Head(upq[t]).type = type /\ pend[t] = <<>>
    BY SidecarFacts DEF Serve
  <1>2. \A u \in Tunnels : upq'[u] = IF u = t THEN Tail(upq[t]) ELSE upq[u]
    BY <1>1
  <1>3. Tail(upq[t]) \in Seq(Frame) /\ Head(upq[t]) = upq[t][1] /\ 1 \in 1 .. Len(upq[t])
        /\ upq[t][1] \in Frame
    BY <1>1
  <1> QED
    BY <1>1, <1>2, <1>3, Parts

(* The session takes the bytes of the frame served: the ACKs behind it     *)
(* cover them, and there are none elsewhere.                               *)
LEMMA TakeCover ==
    ASSUME IInv, UInv, Prompt, AInv, NEW t \in Tunnels, NEW type, Serve(t, type),
           upq[t][1].data # <<>>, NEW r, NEW e,
           \A a \in Nat : AckOK(a, bs[1], srv[1]) /\ Covers(a, Upto(upq[t][1])) => AckOK(a, r, e)
    PROVE  \A u \in Tunnels : AcksCover(upq'[u], r, e)
  <1>1. /\ \A u \in Tunnels : upq[u] \in Seq(Frame) /\ AcksCover(upq[u], bs[1], srv[1])
        /\ upq'[t] = Tail(upq[t]) /\ \A u \in Tunnels : u # t => upq'[u] = upq[u]
        /\ upq[t] # <<>>
    BY ServeParts DEF AInv
  <1>2. AcksCover(Tail(upq[t]), r, e)
    <2> DEFINE q == upq[t]
               v == Tail(q)
    <2>1. q \in Seq(Frame) /\ Len(v) = Len(q) - 1 /\ Len(q) \in Nat
          /\ \A k \in 1 .. Len(v) : v[k] = q[k + 1]
      BY <1>1
    <2>2. AcksCover(q, bs[1], srv[1]) /\ q[1].data # <<>>
      BY <1>1
    <2>3. \A a \in Nat : AckOK(a, bs[1], srv[1]) /\ Covers(a, Upto(q[1])) => AckOK(a, r, e)
      OBVIOUS
    <2> HIDE DEF q, v
    <2> SUFFICES ASSUME NEW k \in 1 .. Len(v), v[k].type = "ACK"
                 PROVE  /\ AckOK(v[k].off, r, e)
                        /\ \A j \in 1 .. k - 1 :
                              v[j].data # <<>> => Covers(v[k].off, Upto(v[j]))
      BY DEF AcksCover, q, v
    <2>4. k + 1 \in 1 .. Len(q) /\ v[k] = q[k + 1] /\ 1 \in 1 .. (k + 1) - 1
      BY <2>1
    <2>5. /\ AckOK(q[k + 1].off, bs[1], srv[1])
          /\ \A j \in 1 .. (k + 1) - 1 : q[j].data # <<>> => Covers(q[k + 1].off, Upto(q[j]))
      BY <2>2, <2>4 DEF AcksCover
    <2>6. \A j \in 1 .. k - 1 : j + 1 \in 1 .. (k + 1) - 1 /\ v[j] = q[j + 1]
      BY <2>1
    <2>7. q[k + 1].off \in Nat
      <3>1. q[k + 1] \in Frame
        BY <2>1, <2>4
      <3> QED
        BY <3>1, UptoNat
    <2> QED
      BY <2>2, <2>3, <2>4, <2>5, <2>6, <2>7
  <1>3. ASSUME NEW u \in Tunnels, u # t
        PROVE  AcksCover(upq[u], r, e)
    <2>1. CASE Rounds = 1
      <3>1. \A a \in Nat : AckOK(a, bs[1], srv[1]) => AckOK(a, r, e)
        BY <2>1 DEF Covers
      <3>2. \A k \in 1 .. Len(upq[u]) : upq[u][k].off \in Nat
        <4>1. \A k \in 1 .. Len(upq[u]) : upq[u][k] \in Frame
          BY <1>1
        <4> QED
          BY <4>1, UptoNat
      <3> QED
        BY <1>1, <3>1, <3>2 DEF AcksCover
    <2>2. CASE "serveTunnel" \notin Preempt
      <3>1. upq[u] = <<>>
        BY <1>1, <1>3, <2>2 DEF UInv, LoopsOK, OneLoop, Busy
      <3> QED
        BY <3>1 DEF AcksCover
    <2> QED
      BY <2>1, <2>2 DEF Prompt
  <1> QED
    BY <1>1, <1>2, <1>3

-----------------------------------------------------------------------------
(* The broker's building blocks: none forgets an alert or brings a session *)
(* back.                                                                   *)
Wary(B, C, i) == (Alerted(B, i) => Alerted(C, i)) /\ C.cur \in {B.cur, 0}

(* Building blocks compose.                                                *)
LEMMA WaryTrans ==
    ASSUME NEW B, NEW C, NEW D, NEW i, Wary(B, C, i), Wary(C, D, i)
    PROVE  Wary(B, D, i)
  BY DEF Wary

(* session.detach wakes the actor for what it leaves behind.               *)
LEMMA WaryDetach ==
    ASSUME NEW B \in BrokerType, NEW i \in Dials, NEW t \in 0 .. MaxTunnels
    PROVE  Wary(B, Detach(B, i, t), i)
  <1> DEFINE s == B.s[i]
             D == [B EXCEPT !.s[i].tconn = 0]
             E == Wake(D)
  <1>1. s \in SessionType /\ B.s \in [Dials -> SessionType]
    BY DEF BrokerType
  <1>2. D.s[i] = [s EXCEPT !.tconn = 0] /\ D.w = B.w /\ D.cur = B.cur
    BY <1>1 DEF BrokerType
  <1>3. E.w = TRUE /\ E.cur = D.cur
    BY DEF Wake, BrokerType
  <1>4. /\ D.s[i].requestOutstanding = s.requestOutstanding /\ D.s[i].downBuf = s.downBuf
        /\ D.s[i].downClosed = s.downClosed
    BY <1>1, <1>2 DEF SessionType
  <1> HIDE DEF D, E
  <1>5. CASE s.tconn # t
    BY <1>5 DEF Detach, Wary
  <1>6. CASE s.tconn = t /\ s.requestOutstanding /\ (BufLen(s.downBuf) > 0 \/ s.downClosed)
    <2>1. Detach(B, i, t) = E
      BY <1>6 DEF Detach, D, E
    <2> QED
      BY <1>2, <1>3, <2>1 DEF Wary, Alerted
  <1>7. CASE s.tconn = t /\ ~(s.requestOutstanding /\ (BufLen(s.downBuf) > 0 \/ s.downClosed))
    <2>1. Detach(B, i, t) = D
      BY <1>7 DEF Detach, D
    <2> QED
      BY <1>2, <1>4, <1>7, <2>1 DEF Wary, Alerted
  <1> QED
    BY <1>5, <1>6, <1>7

(* session.sendToSidecar.                                                  *)
LEMMA WarySend ==
    ASSUME NEW B \in BrokerType, NEW i \in Dials, NEW f \in Frame, NEW ok \in BOOLEAN
    PROVE  Wary(B, SendToSidecar(B, i, f, ok), i)
  <1> DEFINE t == B.s[i].tconn
             D == [B EXCEPT !.q = WriteFrame(@, t, f)]
  <1>1. t \in 0 .. MaxTunnels /\ B.q \in [Tunnels -> Seq(Frame)]
    BY DEF BrokerType, SessionType
  <1>2. WriteFrame(B.q, t, f) \in [Tunnels -> Seq(Frame)]
    BY <1>1, WriteFrameType
  <1>3. D \in BrokerType /\ D.s = B.s /\ D.w = B.w /\ D.cur = B.cur
    BY <1>2 DEF BrokerType
  <1>4. Wary(B, D, i) /\ Wary(B, B, i)
    BY <1>3 DEF Wary, Alerted
  <1>5. SendToSidecar(B, i, f, ok) \in {B, D, Detach(D, i, t)}
    BY DEF SendToSidecar
  <1> HIDE DEF D, t
  <1>6. Wary(D, Detach(D, i, t), i)
    BY <1>1, <1>3, WaryDetach
  <1> QED
    BY <1>4, <1>5, <1>6, WaryTrans

(* session.destroy and maybeDestroy.                                       *)
LEMMA WaryDestroy ==
    ASSUME NEW B \in BrokerType, NEW i \in Dials
    PROVE  /\ Wary(B, Destroy(B, i), i) /\ Wary(B, MaybeDestroy(B, i), i)
           /\ B.cur = i => Destroy(B, i).cur = 0
  <1> DEFINE s == B.s[i]
             D == Destroy(B, i)
  <1>1. s \in SessionType /\ B.s \in [Dials -> SessionType]
    BY DEF BrokerType
  <1>2. D.s[i] = [s EXCEPT !.watchdog = FALSE] /\ D.w = B.w
        /\ D.cur = IF B.cur = i THEN 0 ELSE B.cur
    BY <1>1 DEF BrokerType, Destroy
  <1>3. /\ D.s[i].requestOutstanding = s.requestOutstanding /\ D.s[i].downBuf = s.downBuf
        /\ D.s[i].downClosed = s.downClosed /\ D.s[i].tconn = s.tconn
    BY <1>1, <1>2 DEF SessionType
  <1> HIDE DEF D
  <1>4. Wary(B, D, i) /\ Wary(B, B, i)
    BY <1>2, <1>3 DEF Wary, Alerted
  <1>5. MaybeDestroy(B, i) \in {B, D}
    BY DEF MaybeDestroy, D
  <1> QED
    BY <1>2, <1>4, <1>5 DEF D

(* session.closeUpstream wakes the actor, or leaves it to detach.          *)
LEMMA WaryClose ==
    ASSUME NEW B, NEW d \in Nat, BrokerOK(B, d), NEW i \in Dials, NEW ok \in BOOLEAN
    PROVE  Wary(B, CloseUpstream(B, i, ok), i)
  <1> DEFINE s == B.s[i]
             C == [B EXCEPT !.s[i].downClosed = TRUE]
             f == Ctl("CLOSE", 0)
             D == SendToSidecar(C, i, f, ok)
             E == IF s.requestOutstanding THEN Wake(C) ELSE C
  <1>1. s \in SessionType /\ B.s \in [Dials -> SessionType] /\ B \in BrokerType
    BY DEF BrokerType, BrokerOK
  <1>2. C.s[i] = [s EXCEPT !.downClosed = TRUE] /\ C.w = B.w /\ C.cur = B.cur
    BY <1>1 DEF BrokerType
  <1>3. C.s[i].requestOutstanding = s.requestOutstanding /\ C.s[i].tconn = s.tconn
    BY <1>1, <1>2 DEF SessionType
  <1>4. BrokerOK(C, d) /\ C \in BrokerType
    BY CloseFlagsOK DEF BrokerOK
  <1>5. f \in Frame
    BY CtlFrame DEF FrameType
  <1>6. CASE s.downClosed
    BY <1>6 DEF CloseUpstream, Wary
  <1>7. CASE ~s.downClosed /\ s.tconn # 0
    <2>1. CloseUpstream(B, i, ok) = MaybeDestroy(D, i)
      BY <1>7 DEF CloseUpstream
    <2> HIDE DEF C, f
    <2>2. Wary(B, C, i)
      BY <1>2, <1>3, <1>7 DEF Wary, Alerted
    <2>3. Wary(C, D, i) /\ D \in BrokerType
      <3>1. Positioned(f.data, f.off)
        BY CtlFrame DEF FrameType, f
      <3> QED
        BY <1>4, <1>5, <3>1, WarySend, CalmSend DEF BrokerOK
    <2> HIDE DEF D
    <2>4. Wary(D, MaybeDestroy(D, i), i)
      BY <2>3, WaryDestroy
    <2> QED
      BY <2>1, <2>2, <2>3, <2>4, WaryTrans
  <1>8. CASE ~s.downClosed /\ s.tconn = 0
    <2>1. CloseUpstream(B, i, ok) = MaybeDestroy(E, i)
      BY <1>8 DEF CloseUpstream
    <2> HIDE DEF C
    <2>2. E \in BrokerType /\ E.cur = C.cur /\ E.s = C.s /\ (s.requestOutstanding => E.w = TRUE)
      BY <1>4 DEF BrokerType, Wake
    <2> HIDE DEF E
    <2>3. Wary(B, E, i)
      BY <1>2, <1>3, <2>2 DEF Wary, Alerted
    <2>4. Wary(E, MaybeDestroy(E, i), i)
      BY <2>2, WaryDestroy
    <2> QED
      BY <2>1, <2>3, <2>4, WaryTrans
  <1> QED
    BY <1>6, <1>7, <1>8

(* tunnelConn.detachAll.                                                   *)
LEMMA WaryDetachAll ==
    ASSUME NEW B \in BrokerType, NEW i \in Dials, NEW t \in Tunnels
    PROVE  Wary(B, DetachAll(B, t), i)
  <1> DEFINE C == DetachAll(B, t)
             D == Detach(B, i, t)
  <1>1. Wary(B, D, i)
    BY WaryDetach DEF Tunnels
  <1>2. C.s[i] = D.s[i] /\ (D.w => C.w) /\ C.cur = B.cur
    BY DEF DetachAll, BrokerType
  <1> HIDE DEF C, D
  <1>3. Wary(B, C, i)
    BY <1>1, <1>2 DEF Wary, Alerted
  <1> QED
    BY <1>3 DEF C

-----------------------------------------------------------------------------
(* Steps of the broker.                                                    *)

(* What a step leaves of a session that takes nothing and answers nothing. *)
Like(s, r) ==
    /\ r.upstreamWritten = s.upstreamWritten /\ r.preConn = s.preConn
    /\ r.requestOutstanding <=> s.requestOutstanding
    /\ (Unflushed(r) => Unflushed(s)) /\ (s.dial # "none" => r.dial # "none")

(* A frame loop enters a write only with bytes to write.                   *)
Filled(h) == Writes(h, 1) => h[1].data # <<>>

(* What a step of the broker has to show.                                  *)
LEMMA BrokerA ==
    ASSUME AInv, UNCHANGED <<actor, sidecarVars>>,
           ~bs'[1].requestOutstanding => bs'[1].upstreamWritten <= cs.downDelivered * ReqLen,
           \A t \in Tunnels : AcksCover(upq'[t], bs'[1], srv'[1]),
           cur' # 0 => bs'[1].dial # "none",
           \A t \in Tunnels : pend'[t] = pend[t] \/ Filled(pend'[t]),
           actor = "suspended" =>
              /\ bs'[1].dial # "none"
              /\ AgentWaits /\ cur' # 0
                    => bs'[1].upstreamWritten = End(cs.upBuf) /\ Alerted(Broker, 1)'
    PROVE  AInv'
  <1>1. UNCHANGED <<actor, cs, wout, rout>> /\ (AgentWaits' <=> AgentWaits)
    BY DEF sidecarVars, AgentWaits, Responses
  <1>2. Watched'
    BY <1>1 DEF Watched
  <1>3. \A t \in Tunnels : Filled(pend'[t])
    BY DEF AInv, Filled
  <1> QED
    BY <1>1, <1>2, <1>3 DEF AInv, Filled

(* ... when it takes nothing and answers nothing.                          *)
LEMMA QuietA ==
    ASSUME IInv, IInv', AInv, UNCHANGED <<actor, sidecarVars>>,
           Like(bs[1], bs'[1]), srv'[1].got = srv[1].got,
           \A t \in Tunnels : Part(upq'[t], upq[t]),
           \A t \in Tunnels : pend'[t] = pend[t] \/ Filled(pend'[t]),
           cur' \in {cur, 0}, Alerted(Broker, 1) => Alerted(Broker, 1)'
    PROVE  AInv'
  <1>1. \A t \in Tunnels : upq[t] \in Seq(Frame) /\ upq'[t] \in Seq(Frame)
    BY DEF IInv, TypeOK
  <1>2. \A a : AckOK(a, bs[1], srv[1]) => AckOK(a, bs'[1], srv'[1])
    BY DEF AckOK, Like
  <1>3. \A t \in Tunnels : AcksCover(upq'[t], bs'[1], srv'[1])
    BY <1>1, <1>2, CoverPart DEF AInv
  <1>4. ~bs'[1].requestOutstanding => bs'[1].upstreamWritten <= cs.downDelivered * ReqLen
    BY DEF AInv, Like
  <1>5. cur' # 0 => bs'[1].dial # "none"
    BY DEF AInv, Like
  <1>6. actor = "suspended" =>
           /\ bs'[1].dial # "none"
           /\ AgentWaits /\ cur' # 0
                 => bs'[1].upstreamWritten = End(cs.upBuf) /\ Alerted(Broker, 1)'
    BY DEF AInv, Watched, Like
  <1> QED
    BY <1>3, <1>4, <1>5, <1>6, BrokerA

(* ... when it is made of building blocks.                                 *)
LEMMA CommitA ==
    ASSUME IInv, IInv', AInv, UNCHANGED <<actor, sidecarVars>>, NEW B, Commit(B),
           Like(bs[1], B.s[1]), Wary(Broker, B, 1), srv'[1].got = srv[1].got,
           \A t \in Tunnels : Part(upq'[t], upq[t]),
           \A t \in Tunnels : pend'[t] = pend[t] \/ Filled(pend'[t])
    PROVE  AInv'
  <1>1. bs' = B.s /\ cur' = B.cur /\ wake' = B.w
    BY DEF Commit
  <1>2. cur' \in {cur, 0}
    BY <1>1 DEF Wary, Broker
  <1>3. Alerted(B, 1) => Alerted(Broker, 1)'
    BY <1>1 DEF Alerted, Broker
  <1> QED
    BY <1>1, <1>2, <1>3, QuietA DEF Wary

(* Building blocks take nothing and answer nothing.                        *)
LEMMA LikeCalm ==
    ASSUME NEW B, NEW C, NEW i \in Dials, NEW s, Calm(B, C), Like(s, B.s[i])
    PROVE  Like(s, C.s[i])
  BY DEF Calm, SameSupply, Like, Unflushed

(* What serveTunnel leaves when it took a frame, or none.                  *)
LEMMA StillParts ==
    ASSUME IInv, upq' = upq \/ \E t \in Tunnels : \E type : Serve(t, type)
    PROVE  \A u \in Tunnels : Part(upq'[u], upq[u])
  <1>1. \A u \in Tunnels : upq[u] \in Seq(Frame)
    BY SidecarFacts
  <1> QED
    BY <1>1, ServeParts, Parts

(* onSidecarAttach after its Unlock.                                       *)
LEMMA FinishAttachA ==
    ASSUME IInv, IInv', Prompt, AInv, NEW t \in Tunnels, NEW ok \in BOOLEAN, FinishAttach(t, ok)
    PROVE  AInv'
  <1> DEFINE d == cs.downDelivered
             h == pend[t][1]
             g == Data(h.off, h.data)
             e == Ctl("CLOSE", 0)
             a == Ctl("ATTACH_OK", h.written)
             B1 == SendToSidecar(Broker, 1, a, ok)
             B2 == IF h.data = <<>> THEN B1 ELSE SendToSidecar(B1, 1, g, ok)
             B3 == IF h.close THEN SendToSidecar(B2, 1, e, ok) ELSE B2
  <1>1. h \in Handler /\ HandlerOK(h) /\ h.op = "onAttach" /\ pend[t] \in Seq(Handler)
        /\ 1 \in 1 .. Len(pend[t]) /\ pend \in [Tunnels -> Seq(Handler)]
    BY BrokerFacts DEF FinishAttach
  <1>2. h.i = 1 /\ h.written \in Nat /\ h.off \in Nat /\ h.data \in Seq(Byte)
        /\ Positioned(h.data, h.off) /\ 1 \in Dials
    BY <1>1, WaitTypes DEF Handler, HandlerOK
  <1>3. g \in Frame /\ Positioned(g.data, g.off) /\ e \in Frame /\ Positioned(e.data, e.off)
        /\ a \in Frame /\ Positioned(a.data, a.off)
    BY <1>2, DataFrame, CtlFrame DEF FrameType
  <1>4. Commit(B3) /\ UNCHANGED <<actor, sidecarVars, upq, srv>>
        /\ pend' = [pend EXCEPT ![t] = <<>>]
    BY <1>2 DEF FinishAttach
  <1>5. d \in Nat /\ BrokerOK(Broker, d) /\ Broker.s = bs
    BY BrokerFacts DEF Broker
  <1> HIDE DEF h, d, g, e, a
  <1> DEFINE Good(C) == BrokerOK(C, d) /\ Like(bs[1], C.s[1]) /\ Wary(Broker, C, 1)
  <1>6. ASSUME NEW C, Good(C), NEW f \in Frame, Positioned(f.data, f.off)
        PROVE  Good(SendToSidecar(C, 1, f, ok))
    <2>1. BrokerOK(SendToSidecar(C, 1, f, ok), d) /\ Calm(C, SendToSidecar(C, 1, f, ok))
      BY <1>2, <1>5, <1>6, CalmSend
    <2>2. Wary(C, SendToSidecar(C, 1, f, ok), 1)
      BY <1>2, <1>6, WarySend DEF BrokerOK
    <2> QED
      BY <1>2, <1>6, <2>1, <2>2, LikeCalm, WaryTrans
  <1>7. Good(Broker)
    BY <1>5 DEF Like, Wary
  <1> HIDE DEF Good
  <1>8. Good(B1)
    BY <1>3, <1>6, <1>7
  <1> HIDE DEF B1
  <1>9. Good(B2)
    BY <1>3, <1>6, <1>8
  <1> HIDE DEF B2
  <1>10. Good(B3)
    BY <1>3, <1>6, <1>9
  <1> HIDE DEF B3
  <1>11. \A u \in Tunnels : pend'[u] = pend[u] \/ Filled(pend'[u])
    BY <1>1, <1>4 DEF Filled, Writes
  <1> QED
    BY <1>4, <1>10, <1>11, CommitA, StillParts DEF Good

(* ... upstream.Write failed, the sidecar closed, or a frame for no        *)
(* session; serveTunnel returns.                                           *)
LEMMA OtherFrameA ==
    ASSUME IInv, IInv', Prompt, AInv, NEW t \in Tunnels,
           \/ \E ok \in BOOLEAN : HandleDataError(t, ok)
           \/ HandleClose(t) \/ HandleUnknown(t) \/ TunnelEnd(t)
    PROVE  AInv'
  <1> DEFINE d == cs.downDelivered
  <1>1. d \in Nat /\ BrokerOK(Broker, d) /\ Broker \in BrokerType /\ Broker.s = bs
        /\ Broker.cur = cur /\ 1 \in Dials /\ cur \in {0, 1}
        /\ srv \in [Dials -> ServerConnType] /\ upq \in [Tunnels -> Seq(Frame)]
    BY BrokerFacts, WaitTypes DEF Broker, BrokerOK
  <1>2. Like(bs[1], bs[1])
    BY DEF Like
  <1>3. CASE \E ok \in BOOLEAN : HandleDataError(t, ok)
    <2>1. PICK ok \in BOOLEAN : HandleDataError(t, ok)
      BY <1>3
    <2> DEFINE C == CloseUpstream(Broker, 1, ok)
    <2>2. Serve(t, "DATA") /\ UNCHANGED <<actor, sidecarVars, pend, srv>> /\ Commit(C)
      BY <1>1, <2>1 DEF HandleDataError
    <2>3. Calm(Broker, C) /\ Wary(Broker, C, 1)
      BY <1>1, CalmCloseUpstream, WaryClose
    <2> HIDE DEF C
    <2>4. Like(bs[1], C.s[1])
      BY <1>1, <1>2, <2>3, LikeCalm
    <2> QED
      BY <2>2, <2>3, <2>4, StillParts, CommitA
  <1>4. CASE HandleClose(t)
    <2> DEFINE B == [Broker EXCEPT !.s[1].upClosed = TRUE]
               C == MaybeDestroy(B, 1)
    <2>1. Serve(t, "CLOSE") /\ UNCHANGED <<actor, sidecarVars, pend>> /\ Commit(C) /\ cur = 1
      BY <1>1, <1>4 DEF HandleClose
    <2>2. BrokerOK(B, d) /\ Calm(Broker, B)
      BY <1>1, CloseFlagsOK, CalmFlags
    <2>3. Wary(Broker, B, 1)
      <3>1. B.w = Broker.w /\ B.cur = Broker.cur /\ B.s[1] = [bs[1] EXCEPT !.upClosed = TRUE]
        BY <1>1 DEF BrokerType
      <3> HIDE DEF B
      <3>2. /\ B.s[1].requestOutstanding = bs[1].requestOutstanding
            /\ B.s[1].tconn = bs[1].tconn /\ B.s[1].downBuf = bs[1].downBuf
            /\ B.s[1].downClosed = bs[1].downClosed
        BY <3>1, WaitTypes DEF SessionType
      <3> QED
        BY <1>1, <3>1, <3>2 DEF Wary, Alerted
    <2> HIDE DEF B
    <2>4. Calm(Broker, C) /\ Wary(Broker, C, 1)
      BY <1>1, <2>2, <2>3, CalmDestroy, CalmTrans, WaryDestroy, WaryTrans DEF BrokerOK
    <2> HIDE DEF C
    <2>5. Like(bs[1], C.s[1])
      BY <1>1, <1>2, <2>4, LikeCalm
    <2>6. srv'[1].got = srv[1].got
      BY <1>1, <1>4 DEF HandleClose, ServerConnType
    <2> QED
      BY <2>1, <2>4, <2>5, <2>6, StillParts, CommitA
  <1>5. CASE HandleUnknown(t)
    <2>1. /\ \E type : Serve(t, type)
          /\ UNCHANGED <<actor, sidecarVars, pend, srv, bs, cur, downq, wake>>
      BY <1>5 DEF HandleUnknown, envVars, brokerVars
    <2>2. Alerted(Broker, 1) => Alerted(Broker, 1)'
      BY <2>1 DEF Alerted, Broker
    <2> QED
      BY <1>2, <2>1, <2>2, StillParts, QuietA
  <1>6. CASE TunnelEnd(t)
    <2> DEFINE C == DetachAll(Broker, t)
    <2>1. UNCHANGED <<actor, sidecarVars, pend, srv>> /\ Commit(C)
          /\ upq' = [upq EXCEPT ![t] = <<>>]
      BY <1>6 DEF TunnelEnd
    <2>2. Calm(Broker, C) /\ Wary(Broker, C, 1)
      BY <1>1, CalmDetachAll, WaryDetachAll
    <2> HIDE DEF C
    <2>3. Like(bs[1], C.s[1])
      BY <1>1, <1>2, <2>2, LikeCalm
    <2>4. \A u \in Tunnels : Part(upq'[u], upq[u])
      BY <1>1, <2>1, Parts
    <2> QED
      BY <2>1, <2>2, <2>3, <2>4, CommitA
  <1> QED
    BY <1>3, <1>4, <1>5, <1>6

(* openSession and attachSession.  A session is created while the actor    *)
(* runs: a suspend waits for one.                                          *)
LEMMA HandleAttachA ==
    ASSUME IInv, IInv', UInv, Prompt, AInv, NEW t \in Tunnels, HandleOpen(t) \/ HandleAttach(t)
    PROVE  AInv'
  <1>1. UNCHANGED <<actor, sidecarVars, srv>> /\ (Serve(t, "OPEN") \/ Serve(t, "ATTACH"))
    BY DEF HandleOpen, HandleAttach
  <1>2. \A u \in Tunnels : Part(upq'[u], upq[u])
    BY <1>1, StillParts
  <1>3. \A u \in Tunnels : pend'[u] = pend[u] \/ Filled(pend'[u])
    <2>1. CASE pend' = pend
      BY <2>1
    <2>2. CASE pend' # pend
      <3>1. PICK s, i, off : pend' = [pend EXCEPT ![t] = <<AttachHandler(s, i, off)>>]
        BY <2>2 DEF HandleOpen, HandleAttach
      <3> DEFINE h == AttachHandler(s, i, off)
      <3>2. h.op = "onAttach" /\ pend' = [pend EXCEPT ![t] = <<h>>]
        BY <3>1 DEF AttachHandler
      <3> HIDE DEF h
      <3>3. pend \in [Tunnels -> Seq(Handler)]
        BY BrokerFacts
      <3> QED
        BY <3>2, <3>3 DEF Filled, Writes
    <2> QED
      BY <2>1, <2>2
  <1>4. bs \in [Dials -> SessionType] /\ bs[1] \in SessionType /\ 1 \in Dials /\ cur \in {0, 1}
        /\ Broker.s = bs /\ Broker.w = wake /\ Broker.cur = cur /\ 0 \notin Tunnels
        /\ Broker.q = downq
    BY WaitTypes DEF Broker
  <1>5. CASE cur # 0
    <2> DEFINE B == Bind(Broker, 1, t)
    <2>1. Commit(B)
      BY <1>4, <1>5 DEF HandleOpen, HandleAttach
    <2>2. B.s[1] = [bs[1] EXCEPT !.tconn = t] /\ B.w = wake /\ B.cur = cur
      BY <1>4 DEF Bind, Broker
    <2> HIDE DEF B
    <2>3. Like(bs[1], B.s[1]) /\ B.s[1].tconn = t
      BY <1>4, <2>2 DEF Like, Unflushed, SessionType
    <2>4. Wary(Broker, B, 1)
      BY <1>4, <2>2, <2>3 DEF Wary, Alerted
    <2> QED
      BY <1>1, <1>2, <1>3, <2>1, <2>3, <2>4, CommitA
  <1>6. CASE cur = 0 /\ Commit([Broker EXCEPT !.q = WriteFrame(@, t, Ctl("LOST", 0))])
    <2> DEFINE q == WriteFrame(downq, t, Ctl("LOST", 0))
               B == [Broker EXCEPT !.q = q]
    <2>1. Commit(B) /\ B.s = bs /\ B.w = wake /\ B.cur = cur
      BY <1>4, <1>6 DEF Broker
    <2> HIDE DEF B
    <2>2. Like(bs[1], B.s[1]) /\ Wary(Broker, B, 1)
      BY <1>4, <2>1 DEF Like, Wary, Alerted
    <2> QED
      BY <1>1, <1>2, <1>3, <2>1, <2>2, CommitA
  <1>7. CASE cur = 0 /\ NextDial \in Dials /\ Commit(Create(Broker, t))
    <2>1. NextDial = 1 /\ bs[1].dial = "none"
      BY <1>7, WaitTypes, NextDialFresh
    <2>2. bs' = [bs EXCEPT ![1] = NewSession(t)]
      BY <1>7, <2>1 DEF Commit, Create, Broker
    <2>3. bs'[1] = NewSession(t)
      BY <1>4, <2>2
    <2>4. bs'[1].dial = "dialing" /\ bs'[1].preConn = <<>> /\ bs'[1].upstreamWritten = 0
      BY <1>4, <2>3 DEF NewSession
    <2>5. actor # "suspended"
      BY <2>1 DEF AInv, Watched
    <2>6. \A u \in Tunnels : AcksCover(upq'[u], bs'[1], srv'[1])
      <3>1. \A u \in Tunnels : upq[u] \in Seq(Frame) /\ upq'[u] \in Seq(Frame)
        BY DEF IInv, TypeOK
      <3>2. \A u \in Tunnels : AcksCover(upq'[u], bs[1], srv[1])
        BY <1>2, <3>1, CoverPart DEF AInv
      <3>3. \A u \in Tunnels : \A k \in 1 .. Len(upq'[u]) :
               upq'[u][k].type = "ACK" => AckOK(upq'[u][k].off, bs'[1], srv'[1])
        <4> SUFFICES ASSUME NEW u \in Tunnels, NEW k \in 1 .. Len(upq'[u]),
                            upq'[u][k].type = "ACK"
                     PROVE  AckOK(upq'[u][k].off, bs'[1], srv'[1])
          OBVIOUS
        <4> DEFINE a == upq'[u][k].off
        <4>1. a \in Nat
          BY <3>1, UptoNat
        <4>2. AckOK(a, bs[1], srv[1])
          BY <3>2 DEF AcksCover
        <4>3. 0 <= a * ReqLen
          BY <4>1, WaitTypes, TimesMono
        <4> HIDE DEF a
        <4>4. bs'[1].upstreamWritten + Len(bs'[1].preConn) = 0
          BY <2>4
        <4>5. AckOK(a, bs'[1], srv'[1])
          BY <1>1, <4>2, <4>3, <4>4 DEF AckOK, Covers
        <4> QED
          BY <4>5 DEF a
      <3> QED
        BY <3>2, <3>3 DEF AcksCover
    <2>7. bs'[1].upstreamWritten <= cs.downDelivered * ReqLen
      BY <2>4, WaitTypes, TimesMono
    <2> QED
      BY <1>1, <1>3, <2>4, <2>5, <2>6, <2>7, BrokerA
  <1>8. CASE cur = 0
    BY <1>6, <1>7, <1>8 DEF HandleOpen, HandleAttach
  <1> QED
    BY <1>5, <1>8

(* onData before the dial completed.                                       *)
LEMMA HandleDataEarlyA ==
    ASSUME IInv, IInv', UInv, Prompt, AInv, NEW t \in Tunnels, HandleDataEarly(t)
    PROVE  AInv'
  <1> DEFINE f == upq[t][1]
             s == bs[1]
             want == s.upstreamWritten + Len(s.preConn)
             q == Fresh(f.off, f.data, want)
             p == s.preConn \o q
  <1>1. Serve(t, "DATA") /\ cur = 1 /\ UNCHANGED <<actor, sidecarVars, downq, pend, cur, srv, wake>>
        /\ s \in SessionType /\ bs \in [Dials -> SessionType] /\ 1 \in Dials
        /\ s.upstreamWritten \in Nat /\ Len(s.preConn) \in Nat
    BY WaitTypes DEF HandleDataEarly, envVars
  <1>2. f \in Frame /\ Head(upq[t]) = f /\ f.off \in Nat /\ f.data \in Seq(Byte)
        /\ f.off <= Upto(f) /\ \A u \in Tunnels : Part(upq'[u], upq[u])
    BY <1>1, ServeParts, UptoNat
  <1>3. bs' = [bs EXCEPT ![1].preConn = p]
    BY <1>1, <1>2 DEF HandleDataEarly
  <1>4. want \in Nat /\ s.preConn \in Seq(Byte)
    BY <1>1 DEF SessionType
  <1>5. q \in Seq(Byte) /\ Len(q) \in Nat /\ (q # <<>> => want + Len(q) = Upto(f) /\ f.data # <<>>)
    <2> HIDE DEF f, want
    <2> QED
      BY <1>2, <1>4, FreshEnd DEF Upto
  <1>6. Len(p) = Len(s.preConn) + Len(q)
    BY <1>4, <1>5
  <1> HIDE DEF q, f
  <1>7. /\ bs'[1].preConn = p /\ bs'[1].upstreamWritten = s.upstreamWritten
        /\ bs'[1].dial = s.dial /\ bs'[1].requestOutstanding = s.requestOutstanding
        /\ bs'[1].tconn = s.tconn /\ bs'[1].downBuf = s.downBuf /\ bs'[1].downClosed = s.downClosed
    BY <1>1, <1>3 DEF SessionType
  <1>8. Alerted(Broker, 1) => Alerted(Broker, 1)'
    BY <1>1, <1>7 DEF Alerted, Broker
  <1>9. CASE q = <<>>
    <2>1. p = s.preConn
      BY <1>4, <1>9
    <2>2. Like(bs[1], bs'[1])
      BY <1>7, <2>1 DEF Like, Unflushed
    <2> QED
      BY <1>1, <1>2, <1>8, <2>2, QuietA
  <1>10. CASE q # <<>>
    <2>1. s.upstreamWritten + Len(p) = Upto(f)
      BY <1>1, <1>5, <1>6, <1>10
    <2> HIDE DEF p
    <2>2. \A a \in Nat : AckOK(a, bs[1], srv[1]) /\ Covers(a, Upto(f)) => AckOK(a, bs'[1], srv'[1])
      BY <1>1, <1>7, <2>1 DEF AckOK, Unflushed
    <2>3. \A u \in Tunnels : AcksCover(upq'[u], bs'[1], srv'[1])
      BY <1>1, <1>5, <1>10, <2>2, TakeCover DEF f
    <2>4. ~bs'[1].requestOutstanding => bs'[1].upstreamWritten <= cs.downDelivered * ReqLen
      BY <1>7 DEF AInv
    <2>5. cur' # 0 => bs'[1].dial # "none"
      BY <1>1, <1>7 DEF AInv
    <2>6. actor = "suspended" =>
             /\ bs'[1].dial # "none"
             /\ AgentWaits /\ cur' # 0
                   => bs'[1].upstreamWritten = End(cs.upBuf) /\ Alerted(Broker, 1)'
      BY <1>1, <1>7, <1>8 DEF AInv, Watched
    <2> QED
      BY <1>1, <2>3, <2>4, <2>5, <2>6, BrokerA
  <1> QED
    BY <1>9, <1>10

(* onData up to the return of upstream.Write.                              *)
LEMMA HandleDataA ==
    ASSUME IInv, IInv', UInv, Prompt, AInv, NEW t \in Tunnels, HandleData(t)
    PROVE  AInv'
  <1> DEFINE f == upq[t][1]
             w == bs[1].upstreamWritten
             q == Fresh(f.off, f.data, w)
             got == srv[1].got
             h == [op |-> "onData", i |-> 1, off |-> 0, written |-> 0,
                   data |-> q, close |-> FALSE]
  <1>1. Serve(t, "DATA") /\ cur = 1 /\ UNCHANGED <<actor, sidecarVars, downq, bs, cur, wake>>
        /\ 1 \in Dials /\ srv \in [Dials -> ServerConnType]
        /\ pend \in [Tunnels -> Seq(Handler)]
    BY WaitTypes, BrokerFacts DEF HandleData, envVars
  <1>2. f \in Frame /\ Head(upq[t]) = f /\ f.off \in Nat /\ f.data \in Seq(Byte)
        /\ \A u \in Tunnels : Part(upq'[u], upq[u])
    BY <1>1, ServeParts, UptoNat
  <1>3. got \in Seq(Byte) /\ w \in Nat /\ Len(got) = w
    <2>1. \A u \in Tunnels : ~Writes(pend[u], 1)
      BY <1>1, NoWriter, WaitTypes
    <2> QED
      BY <1>1, <2>1, UpFacts DEF Counted
  <1>4. q \in Seq(Byte) /\ Len(q) \in Nat /\ (q # <<>> => w + Len(q) = Upto(f) /\ f.data # <<>>)
    <2> HIDE DEF f, w
    <2> QED
      BY <1>2, <1>3, FreshEnd DEF Upto
  <1>5. Alerted(Broker, 1) => Alerted(Broker, 1)'
    BY <1>1 DEF Alerted, Broker
  <1>6. CASE q = <<>>
    <2>1. srv' = srv /\ pend' = pend
      BY <1>1, <1>2, <1>6 DEF HandleData
    <2>2. Like(bs[1], bs'[1])
      BY <1>1 DEF Like
    <2> QED
      BY <1>1, <1>2, <1>5, <2>1, <2>2, QuietA
  <1>7. CASE q # <<>>
    <2>1. srv' = [srv EXCEPT ![1].got = got \o q] /\ pend' = [pend EXCEPT ![t] = <<h>>]
      BY <1>1, <1>2, <1>7 DEF HandleData
    <2>2. h.data = q
      OBVIOUS
    <2> HIDE DEF f, q, h
    <2>3. srv'[1].got = got \o q
      BY <1>1, <2>1 DEF ServerConnType
    <2>4. Len(srv'[1].got) = Upto(f)
      BY <1>3, <1>4, <1>7, <2>3
    <2>5. \A a \in Nat : AckOK(a, bs[1], srv[1]) /\ Covers(a, Upto(f)) => AckOK(a, bs'[1], srv'[1])
      BY <1>1, <2>4 DEF AckOK
    <2>6. \A u \in Tunnels : AcksCover(upq'[u], bs'[1], srv'[1])
      BY <1>1, <1>4, <1>7, <2>5, TakeCover DEF f
    <2>7. \A u \in Tunnels : pend'[u] = pend[u] \/ Filled(pend'[u])
      BY <1>1, <1>7, <2>1, <2>2 DEF Filled
    <2>8. ~bs'[1].requestOutstanding => bs'[1].upstreamWritten <= cs.downDelivered * ReqLen
      BY <1>1 DEF AInv
    <2>9. actor = "suspended" =>
             /\ bs'[1].dial # "none"
             /\ AgentWaits /\ cur' # 0
                   => bs'[1].upstreamWritten = End(cs.upBuf) /\ Alerted(Broker, 1)'
      BY <1>1, <1>5 DEF AInv, Watched
    <2>10. cur' # 0 => bs'[1].dial # "none"
      BY <1>1 DEF AInv
    <2> QED
      BY <1>1, <2>6, <2>7, <2>8, <2>9, <2>10, BrokerA
  <1> QED
    BY <1>6, <1>7

(* Session 1 has counted what reached its destination.  If its agent were  *)
(* waiting in a suspended actor, there was nothing left to count.          *)
LEMMA WrittenA ==
    ASSUME IInv, IInv', Prompt, AInv, UNCHANGED <<actor, sidecarVars, upq>>,
           NEW s \in SessionType, s.downBuf = bs[1].downBuf, s.requestOutstanding = TRUE,
           ~Unflushed(s), bs[1].upstreamWritten < s.upstreamWritten,
           s.upstreamWritten <= End(cs.upBuf), NEW ok \in BOOLEAN,
           Commit(SendToSidecar([Broker EXCEPT !.s[1] = s], 1, Ctl("ACK", s.upstreamWritten), ok)),
           \A a : AckOK(a, bs[1], srv[1]) => Covers(a, Len(srv'[1].got)),
           \A t \in Tunnels : pend'[t] = pend[t] \/ Filled(pend'[t])
    PROVE  AInv'
  <1> DEFINE B == [Broker EXCEPT !.s[1] = s]
             w == s.upstreamWritten
             C == SendToSidecar(B, 1, Ctl("ACK", w), ok)
  <1>1. 1 \in Dials /\ cs.downDelivered \in Nat /\ w \in Nat /\ "ACK" \in FrameType
        /\ bs[1].upstreamWritten \in Nat /\ End(cs.upBuf) \in Nat
    BY WaitTypes, SupplyTypes DEF FrameType, SessionType
  <1>2. Commit(C) /\ B.cur = cur /\ B.s = [bs EXCEPT ![1] = s]
    BY DEF Broker
  <1>3. BrokerOK(B, cs.downDelivered)
    BY <1>1, BrokerUpdateOK
  <1>4. B.s[1] = s
    BY <1>1, <1>2, WaitTypes
  <1> HIDE DEF B, w
  <1>5. Calm(B, C)
    BY <1>1, <1>3, CalmSendCtl
  <1>6. C.cur \in {cur, 0}
    <2>1. Ctl("ACK", w) \in Frame
      BY <1>1, CtlFrame
    <2>2. Wary(B, C, 1)
      BY <1>1, <1>3, <2>1, WarySend DEF BrokerOK
    <2> QED
      BY <1>2, <2>2 DEF Wary
  <1> HIDE DEF C
  <1>7. bs' = C.s /\ cur' = C.cur
    BY <1>2 DEF Commit
  <1>8. bs'[1].requestOutstanding /\ ~Unflushed(bs'[1])
    BY <1>1, <1>4, <1>5, <1>7 DEF Calm, SameSupply, Unflushed
  <1>9. bs'[1].dial # "none"
    BY <1>8 DEF Unflushed
  <1>10. actor = "suspended" => ~(AgentWaits /\ cur' # 0)
    <2>1. bs[1].upstreamWritten # End(cs.upBuf)
      BY <1>1 DEF w
    <2> QED
      BY <1>6, <1>7, <2>1 DEF AInv, Watched
  <1>11. \A t \in Tunnels : AcksCover(upq'[t], bs'[1], srv'[1])
    <2>1. \A a : AckOK(a, bs[1], srv[1]) => AckOK(a, bs'[1], srv'[1])
      BY <1>8 DEF AckOK
    <2> QED
      BY <2>1 DEF AInv, AcksCover
  <1> QED
    BY <1>8, <1>9, <1>10, <1>11, BrokerA

(* onData after upstream.Write.                                            *)
LEMMA FinishDataA ==
    ASSUME IInv, IInv', UInv, QInv, Prompt, AInv, NEW t \in Tunnels, NEW ok \in BOOLEAN,
           FinishData(t, ok)
    PROVE  AInv'
  <1> DEFINE h == pend[t][1]
             n == Len(h.data)
             w == bs[1].upstreamWritten + n
             s == [bs[1] EXCEPT !.upstreamWritten = w,
                                !.requestOutstanding = TRUE, !.watchdog = TRUE]
             B == [Broker EXCEPT !.s[1] = s]
  <1>1. h \in Handler /\ pend \in [Tunnels -> Seq(Handler)] /\ 1 \in Dials
    BY BrokerFacts, WaitTypes DEF FinishData
  <1>2. h.i = 1 /\ h.data \in Seq(Byte) /\ Writes(pend[t], 1)
    BY <1>1, WaitTypes DEF Handler, FinishData, Writes
  <1>3. bs[1] \in SessionType /\ bs \in [Dials -> SessionType] /\ Broker.s = bs
        /\ bs[1].upstreamWritten \in Nat
    BY WaitTypes DEF Broker
  <1>4. h.data # <<>>
    BY <1>2 DEF AInv
  <1>5. n \in Nat /\ n > 0
    <2> HIDE DEF h
    <2> QED
      BY <1>2, <1>4
  <1>6. ~Unflushed(bs[1]) /\ Len(srv[1].got) = w
    BY <1>1, <1>2, UpFacts DEF Counted
  <1>7. w <= End(cs.upBuf)
    BY <1>1, <1>6, QFacts DEF SupplyOK
  <1>8. Commit(SendToSidecar(B, 1, Ctl("ACK", w), ok))
    <2>1. [Broker EXCEPT !.s[1].upstreamWritten = w,
                         !.s[1].requestOutstanding = TRUE, !.s[1].watchdog = TRUE] = B
      <3> HIDE DEF w
      <3>1. [bs EXCEPT ![1].upstreamWritten = w,
                       ![1].requestOutstanding = TRUE, ![1].watchdog = TRUE]
              = [bs EXCEPT ![1] = s]
        BY <1>1, <1>3 DEF SessionType
      <3> QED
        BY <1>3, <3>1 DEF Broker
    <2> QED
      BY <1>2, <2>1 DEF FinishData
  <1>9. UNCHANGED <<actor, sidecarVars, upq, srv>> /\ pend' = [pend EXCEPT ![t] = <<>>]
    BY DEF FinishData
  <1> HIDE DEF n
  <1>10. w \in Nat /\ bs[1].upstreamWritten < w
    BY <1>3, <1>5
  <1> HIDE DEF w
  <1>11. s \in SessionType /\ s.downBuf = bs[1].downBuf /\ s.dial = bs[1].dial
         /\ s.upstreamWritten = w /\ s.requestOutstanding = TRUE
    BY <1>3, <1>10 DEF SessionType
  <1> HIDE DEF s
  <1>12. ~Unflushed(s)
    BY <1>6, <1>11 DEF Unflushed
  <1>13. \A u \in Tunnels : pend'[u] = pend[u] \/ Filled(pend'[u])
    BY <1>1, <1>9 DEF Filled, Writes
  <1>14. \A a : AckOK(a, bs[1], srv[1]) => Covers(a, Len(srv'[1].got))
    BY <1>9 DEF AckOK
  <1> QED
    BY <1>7, <1>8, <1>9, <1>10, <1>11, <1>12, <1>13, <1>14, WrittenA

(* preConn is written.                                                     *)
LEMMA FlushPreA ==
    ASSUME IInv, IInv', UInv, QInv, Prompt, AInv, NEW ok \in BOOLEAN, FlushPre(1, ok)
    PROVE  AInv'
  <1> DEFINE pre == bs[1].preConn
             got == srv[1].got
             w == bs[1].upstreamWritten + Len(pre)
             z == <<>>
             s == [bs[1] EXCEPT !.upstreamWritten = w, !.preConn = z,
                                !.requestOutstanding = TRUE, !.dial = "reading"]
             B == [Broker EXCEPT !.s[1] = s]
  <1>1. bs[1] \in SessionType /\ bs \in [Dials -> SessionType] /\ Broker.s = bs
        /\ srv \in [Dials -> ServerConnType] /\ 1 \in Dials
    BY WaitTypes DEF Broker
  <1>2. bs[1].upstreamWritten \in Nat /\ pre \in Seq(Byte) /\ z \in Seq(Byte)
        /\ Len(pre) \in Nat
    BY <1>1 DEF SessionType
  <1>3. Commit(SendToSidecar(B, 1, Ctl("ACK", w), ok))
    <2>1. [Broker EXCEPT !.s[1].upstreamWritten = w, !.s[1].preConn = z,
                         !.s[1].requestOutstanding = TRUE, !.s[1].dial = "reading"] = B
      <3> HIDE DEF w, z
      <3>1. [bs EXCEPT ![1].upstreamWritten = w, ![1].preConn = z,
                       ![1].requestOutstanding = TRUE, ![1].dial = "reading"]
              = [bs EXCEPT ![1] = s]
        BY <1>1 DEF SessionType
      <3> QED
        BY <1>1, <3>1 DEF Broker
    <2> QED
      BY <2>1 DEF FlushPre
  <1>4. /\ UNCHANGED <<actor, sidecarVars, pend, upq>> /\ bs[1].dial = "flushing"
        /\ srv' = [srv EXCEPT ![1].got = got \o pre]
    BY DEF FlushPre
  <1>5. Unflushed(bs[1]) /\ Counted(1) /\ got \in Seq(Byte)
        /\ SupplyOK(bs[1], srv[1], End(cs.upBuf))
    BY <1>1, <1>4, UpFacts, QFacts DEF Unflushed
  <1>6. Len(got) = bs[1].upstreamWritten
    BY <1>5 DEF Counted
  <1>7. w <= End(cs.upBuf) /\ pre # <<>>
    BY <1>4, <1>5 DEF SupplyOK
  <1>8. Len(got \o pre) = w /\ w \in Nat /\ bs[1].upstreamWritten < w
    <2> HIDE DEF got, pre
    <2>1. Len(got \o pre) = Len(got) + Len(pre) /\ Len(pre) > 0
      BY <1>2, <1>5, <1>7
    <2> QED
      BY <1>2, <1>6, <2>1
  <1> HIDE DEF w
  <1>9. s \in SessionType
    <2> HIDE DEF z
    <2> QED
      BY <1>1, <1>2, <1>8 DEF SessionType
  <1>10. s.downBuf = bs[1].downBuf /\ s.dial = "reading" /\ s.upstreamWritten = w
         /\ s.requestOutstanding = TRUE
    BY <1>1 DEF SessionType
  <1> HIDE DEF s, pre
  <1>11. srv'[1].got = got \o pre
    BY <1>1, <1>4 DEF ServerConnType
  <1>12. ~Unflushed(s)
    BY <1>10 DEF Unflushed
  <1>13. \A a : AckOK(a, bs[1], srv[1]) => Covers(a, Len(srv'[1].got))
    BY <1>5, <1>8, <1>11 DEF AckOK, w, pre
  <1> QED
    BY <1>3, <1>4, <1>7, <1>8, <1>9, <1>10, <1>12, <1>13, WrittenA

(* What is left in a buffer was there.                                     *)
LEMMA TrimLess ==
    ASSUME NEW b \in ReplayBufferType, NEW off \in Nat, BufLen(TrimTo(b, off)) > 0
    PROVE  BufLen(b) > 0
  <1>1. b.base \in Nat /\ b.buf \in Seq(Byte) /\ BufLen(b) \in Nat
    BY DEF ReplayBufferType, BufLen
  <1>2. CASE off <= b.base
    BY <1>2 DEF TrimTo
  <1>3. CASE off > b.base /\ off >= End(b)
    BY <1>1, <1>3 DEF TrimTo, BufLen
  <1>4. CASE off > b.base /\ off < End(b)
    BY <1>1, <1>4 DEF End
  <1> QED
    BY <1>1, <1>2, <1>3, <1>4, EndNat

(* onDownstreamAck: a request is no longer outstanding once the agent has  *)
(* the answer to everything that was written.                              *)
LEMMA HandleAckA ==
    ASSUME IInv, IInv', UInv, QInv, Prompt, AInv, NEW t \in Tunnels, HandleAck(t)
    PROVE  AInv'
  <1> DEFINE a == upq[t][1].off
             b == TrimTo(bs[1].downBuf, a)
             r == bs[1].requestOutstanding /\ BufLen(b) # 0
             d == cs.downDelivered
             w == bs[1].upstreamWritten
  <1>1. Serve(t, "ACK") /\ cur = 1 /\ UNCHANGED <<actor, sidecarVars, downq, pend, cur, srv, wake>>
        /\ bs[1] \in SessionType /\ bs \in [Dials -> SessionType] /\ 1 \in Dials
        /\ d \in Nat /\ w \in Nat /\ ReqLen \in Nat
    BY WaitTypes DEF HandleAck, envVars
  <1>2. Head(upq[t]) = upq[t][1] /\ a \in Nat /\ 1 \in 1 .. Len(upq[t])
        /\ upq[t][1].type = "ACK"
        /\ \A u \in Tunnels : Part(upq'[u], upq[u]) /\ upq[u] \in Seq(Frame) /\ upq'[u] \in Seq(Frame)
    BY <1>1, ServeParts, UptoNat
  <1>3. a <= d
    BY <1>2, SidecarFacts DEF AcksOK
  <1>4. AckOK(a, bs[1], srv[1])
    BY <1>2 DEF AInv, AcksCover
  <1>5. w <= d * ReqLen
    <2>1. w <= Len(srv[1].got) /\ Len(srv[1].got) \in Nat /\ Len(srv[1].got) <= End(cs.upBuf)
          /\ End(cs.upBuf) <= Rounds * ReqLen /\ End(cs.upBuf) \in Nat
      BY <1>1, UpFacts, QFacts DEF SupplyOK
    <2>2. a # 0 /\ Covers(a, Len(srv[1].got))
      BY <1>4 DEF AckOK
    <2> HIDE DEF w, a, d
    <2>3. CASE Rounds = 1
      <3>1. 1 <= d
        BY <1>1, <1>2, <1>3, <2>2
      <3>2. 1 * ReqLen <= d * ReqLen /\ d * ReqLen \in Nat /\ 1 * ReqLen = ReqLen
        BY <1>1, <3>1, TimesMono
      <3>3. w <= 1 * ReqLen
        BY <1>1, <2>1, <2>3
      <3> QED
        BY <1>1, <3>2, <3>3
    <2>4. CASE Rounds # 1
      <3>1. a * ReqLen \in Nat /\ d * ReqLen \in Nat /\ a * ReqLen <= d * ReqLen
        BY <1>1, <1>2, <1>3, TimesMono
      <3>2. Len(srv[1].got) <= a * ReqLen
        BY <2>2, <2>4 DEF Covers
      <3> QED
        BY <1>1, <2>1, <3>1, <3>2
    <2> QED
      BY <2>3, <2>4
  <1>6. bs' = [bs EXCEPT ![1].downBuf = b, ![1].requestOutstanding = r]
    BY <1>1, <1>2 DEF HandleAck
  <1>7. BufLen(b) > 0 => BufLen(bs[1].downBuf) > 0
    <2>1. bs[1].downBuf \in ReplayBufferType
      BY <1>1 DEF SessionType
    <2> HIDE DEF a
    <2> QED
      BY <1>2, <2>1, TrimLess
  <1>8. r => bs[1].requestOutstanding
    OBVIOUS
  <1> HIDE DEF b, r, a
  <1>9. /\ bs'[1].downBuf = b /\ bs'[1].requestOutstanding = r
        /\ bs'[1].upstreamWritten = w /\ bs'[1].preConn = bs[1].preConn
        /\ bs'[1].dial = bs[1].dial /\ bs'[1].tconn = bs[1].tconn
        /\ bs'[1].downClosed = bs[1].downClosed
    BY <1>1, <1>6 DEF SessionType
  <1>10. Alerted(Broker, 1) => Alerted(Broker, 1)'
    BY <1>1, <1>7, <1>8, <1>9 DEF Alerted, Broker
  <1>11. \A u \in Tunnels : AcksCover(upq'[u], bs'[1], srv'[1])
    <2>1. \A n : AckOK(n, bs[1], srv[1]) => AckOK(n, bs'[1], srv'[1])
      BY <1>1, <1>9 DEF AckOK, Unflushed
    <2> QED
      BY <1>2, <2>1, CoverPart DEF AInv
  <1>12. actor = "suspended" =>
            /\ bs'[1].dial # "none"
            /\ AgentWaits /\ cur' # 0
                  => bs'[1].upstreamWritten = End(cs.upBuf) /\ Alerted(Broker, 1)'
    BY <1>1, <1>9, <1>10 DEF AInv, Watched
  <1>13. cur' # 0 => bs'[1].dial # "none"
    BY <1>1, <1>9 DEF AInv
  <1> QED
    BY <1>1, <1>5, <1>9, <1>11, <1>12, <1>13, BrokerA


(* dialUpstream failed, or upstream is at its end.                         *)
LEMMA DoneA ==
    ASSUME IInv, IInv', Prompt, AInv, NEW ok \in BOOLEAN,
           DialFail(1, ok) \/ FlushError(1, ok) \/ ReadEOF(1, ok)
    PROVE  AInv'
  <1> DEFINE d == cs.downDelivered
             B == [Broker EXCEPT !.s[1].dial = "done"]
             f == Ctl("LOST", 0)
             C == SendToSidecar(B, 1, f, ok)
             D == Destroy(C, 1)
             E == CloseUpstream(B, 1, ok)
  <1>1. d \in Nat /\ 1 \in Dials /\ bs \in [Dials -> SessionType] /\ bs[1] \in SessionType
        /\ Broker.s = bs
    BY BrokerFacts, WaitTypes DEF Broker
  <1>2. BrokerOK(B, d)
    BY <1>1, DialMoves
  <1>3. Like(bs[1], B.s[1]) /\ Wary(Broker, B, 1)
    <2>1. /\ B.s[1] = [bs[1] EXCEPT !.dial = "done"] /\ B.cur = Broker.cur /\ B.w = Broker.w
      BY <1>1 DEF Broker
    <2>2. /\ B.s[1].upstreamWritten = bs[1].upstreamWritten /\ B.s[1].preConn = bs[1].preConn
          /\ B.s[1].requestOutstanding = bs[1].requestOutstanding /\ B.s[1].dial = "done"
          /\ B.s[1].tconn = bs[1].tconn /\ B.s[1].downBuf = bs[1].downBuf
          /\ B.s[1].downClosed = bs[1].downClosed
      BY <1>1, <2>1 DEF SessionType
    <2> QED
      BY <1>1, <2>1, <2>2 DEF Like, Wary, Alerted, Unflushed
  <1> HIDE DEF B
  <1>4. f \in Frame /\ Positioned(f.data, f.off)
    BY CtlFrame DEF FrameType
  <1> HIDE DEF f
  <1>5. Calm(B, C) /\ BrokerOK(C, d) /\ Wary(B, C, 1)
    BY <1>1, <1>2, <1>4, CalmSend, WarySend DEF BrokerOK
  <1>6. Like(bs[1], D.s[1]) /\ Wary(Broker, D, 1)
    <2> HIDE DEF C
    <2>1. Calm(C, D) /\ Wary(C, D, 1)
      BY <1>1, <1>5, CalmDestroy, WaryDestroy DEF BrokerOK
    <2> HIDE DEF D
    <2> QED
      BY <1>1, <1>3, <1>5, <2>1, LikeCalm, WaryTrans
  <1>7. Like(bs[1], E.s[1]) /\ Wary(Broker, E, 1)
    <2>1. Calm(B, E) /\ Wary(B, E, 1)
      BY <1>1, <1>2, CalmCloseUpstream, WaryClose
    <2> HIDE DEF E
    <2> QED
      BY <1>1, <1>3, <2>1, LikeCalm, WaryTrans
  <1>8. (Commit(D) \/ Commit(E)) /\ UNCHANGED <<actor, sidecarVars, upq, pend, srv>>
    BY DEF DialFail, FlushError, ReadEOF, B, f
  <1> HIDE DEF D, E
  <1> QED
    BY <1>6, <1>7, <1>8, StillParts, CommitA

(* produceDownstream wakes the actor for what it buffers.                  *)
LEMMA ProduceA ==
    ASSUME IInv, IInv', Prompt, AInv, NEW ok \in BOOLEAN, Produce(1, ok)
    PROVE  AInv'
  <1> DEFINE b   == bs[1].downBuf
             off == End(b)
             n   == Least({srv[1].sent - off, ReadMax, Free(b, DownCap)})
             p   == ServerBytes(1, off, n)
             u   == IF ok THEN bs[1].tconn ELSE 0
             c   == AppendTo(b, p)
  <1>1. bs[1] \in SessionType /\ bs \in [Dials -> SessionType] /\ 1 \in Dials
    BY WaitTypes
  <1>2. /\ bs' = [bs EXCEPT ![1].downBuf = c, ![1].tconn = u]
        /\ u = 0 /\ bs[1].requestOutstanding => wake'
        /\ cur' = cur /\ UNCHANGED <<actor, sidecarVars, upq, pend, srv>>
    BY <1>1 DEF Produce, Commit, Wake, Broker
  <1> HIDE DEF u, c
  <1>3. /\ bs'[1].upstreamWritten = bs[1].upstreamWritten /\ bs'[1].preConn = bs[1].preConn
        /\ bs'[1].requestOutstanding = bs[1].requestOutstanding
        /\ bs'[1].dial = bs[1].dial /\ bs'[1].tconn = u
    BY <1>1, <1>2 DEF SessionType
  <1>4. Like(bs[1], bs'[1])
    BY <1>3 DEF Like, Unflushed
  <1>5. Alerted(Broker, 1)'
    BY <1>2, <1>3 DEF Alerted, Broker
  <1> QED
    BY <1>2, <1>4, <1>5, StillParts, QuietA

(* dialUpstream, the watchdog, and the destination's own steps.            *)
LEMMA OtherA ==
    ASSUME IInv, IInv', Prompt, AInv,
           DialOK(1) \/ WatchdogFire(1) \/ ServerSend(1) \/ ServerClose(1)
    PROVE  AInv'
  <1>1. bs[1] \in SessionType /\ bs \in [Dials -> SessionType] /\ 1 \in Dials
        /\ srv[1] \in ServerConnType /\ srv \in [Dials -> ServerConnType] /\ wake \in BOOLEAN
    BY WaitTypes, SidecarFacts
  <1>2. UNCHANGED <<actor, sidecarVars, upq, pend, cur>> /\ (wake => wake')
    <2>1. CASE WatchdogFire(1)
      BY <2>1 DEF WatchdogFire
    <2>2. CASE DialOK(1) \/ ServerSend(1) \/ ServerClose(1)
      BY <2>2 DEF DialOK, ServerSend, ServerClose, envVars
    <2> QED
      BY <2>1, <2>2
  <1>3. srv'[1].got = srv[1].got
    BY <1>1 DEF DialOK, WatchdogFire, ServerSend, ServerClose, ServerConnType
  <1>4. /\ bs'[1].upstreamWritten = bs[1].upstreamWritten /\ bs'[1].preConn = bs[1].preConn
        /\ bs'[1].requestOutstanding = bs[1].requestOutstanding
        /\ bs'[1].tconn = bs[1].tconn /\ bs'[1].downBuf = bs[1].downBuf
        /\ bs'[1].downClosed = bs[1].downClosed
    BY <1>1 DEF DialOK, WatchdogFire, ServerSend, ServerClose, SessionType
  <1>5. \/ bs'[1].dial = bs[1].dial
        \/ bs[1].dial = "dialing" /\ bs'[1].dial \in {"reading", "flushing"}
    <2>1. CASE DialOK(1)
      <3> DEFINE v == IF bs[1].preConn = <<>> THEN "reading" ELSE "flushing"
      <3>1. bs' = [bs EXCEPT ![1].dial = v, ![1].watchdog = TRUE] /\ v \in {"reading", "flushing"}
        BY <2>1 DEF DialOK
      <3> HIDE DEF v
      <3> QED
        BY <1>1, <2>1, <3>1 DEF DialOK, SessionType
    <2>2. CASE WatchdogFire(1) \/ ServerSend(1) \/ ServerClose(1)
      <3>1. bs' = bs \/ bs' = [bs EXCEPT ![1].watchdog = FALSE]
        BY <2>2 DEF WatchdogFire, ServerSend, ServerClose
      <3>2. bs'[1].dial = bs[1].dial
        BY <1>1, <3>1 DEF SessionType
      <3> QED
        BY <3>2
    <2> QED
      BY <2>1, <2>2
  <1>6. Like(bs[1], bs'[1])
    BY <1>4, <1>5 DEF Like, Unflushed
  <1>7. Alerted(Broker, 1) => Alerted(Broker, 1)'
    BY <1>2, <1>4 DEF Alerted, Broker
  <1> QED
    BY <1>2, <1>3, <1>6, <1>7, StillParts, QuietA

(* Every step of the broker and of the destination.                        *)
LEMMA BrokerStepA ==
    ASSUME IInv, IInv', UInv, QInv, Prompt, AInv,
           \/ \E t \in Tunnels : ServeTunnel(t)
           \/ \E i \in Dials : Upstream(i) \/ WatchdogFire(i) \/ ServerSend(i) \/ ServerClose(i)
    PROVE  AInv'
  <1>1. Dials = {1}
    BY WaitTypes
  <1>2. ASSUME NEW t \in Tunnels, ServeTunnel(t)
        PROVE  AInv'
    <2>1. CASE \E ok \in BOOLEAN : FinishAttach(t, ok)
      BY <2>1, FinishAttachA
    <2>2. CASE \E ok \in BOOLEAN : FinishData(t, ok)
      BY <2>2, FinishDataA
    <2>3. CASE \/ \E ok \in BOOLEAN : HandleDataError(t, ok)
               \/ HandleClose(t) \/ HandleUnknown(t) \/ TunnelEnd(t)
      BY <2>3, OtherFrameA
    <2>4. CASE HandleOpen(t) \/ HandleAttach(t)
      BY <2>4, HandleAttachA
    <2>5. CASE HandleDataEarly(t)
      BY <2>5, HandleDataEarlyA
    <2>6. CASE HandleData(t)
      BY <2>6, HandleDataA
    <2>7. CASE HandleAck(t)
      BY <2>7, HandleAckA
    <2> QED
      BY <1>2, <2>1, <2>2, <2>3, <2>4, <2>5, <2>6, <2>7 DEF ServeTunnel
  <1>3. CASE Upstream(1) \/ WatchdogFire(1) \/ ServerSend(1) \/ ServerClose(1)
    <2>1. CASE DialOK(1) \/ WatchdogFire(1) \/ ServerSend(1) \/ ServerClose(1)
      BY <2>1, OtherA
    <2>2. CASE \E ok \in BOOLEAN : DialFail(1, ok) \/ FlushError(1, ok) \/ ReadEOF(1, ok)
      BY <2>2, DoneA
    <2>3. CASE \E ok \in BOOLEAN : FlushPre(1, ok)
      BY <2>3, FlushPreA
    <2>4. CASE \E ok \in BOOLEAN : Produce(1, ok)
      BY <2>4, ProduceA
    <2> QED
      BY <1>3, <2>1, <2>2, <2>3, <2>4 DEF Upstream
  <1> QED
    BY <1>1, <1>2, <1>3

-----------------------------------------------------------------------------
(* Steps of the sidecar, and of the platform.                              *)

(* What a step of the sidecar has to show.                                 *)
LEMMA SidecarA ==
    ASSUME IInv, IInv', Prompt, AInv, UNCHANGED <<brokerVars, actor>>, Running,
           cs.downDelivered <= cs'.downDelivered, wout' # <<>> => wout'[1].type # "ACK",
           rout' # <<>> /\ rout'[1].type = "ACK"
              => rout'[1].off # 0 /\ Covers(rout'[1].off, End(cs'.upBuf)),
           \A t \in Tunnels : AcksCover(upq'[t], bs[1], srv[1])
    PROVE  AInv'
  <1> DEFINE d == cs.downDelivered
             e == cs'.downDelivered
             w == bs[1].upstreamWritten
  <1>1. d \in Nat /\ e \in Nat /\ w \in Nat /\ ReqLen \in Nat
    BY WaitTypes DEF IInv, TypeOK, ClientSessionType
  <1>2. UNCHANGED <<bs, cur, pend, srv>> /\ actor' = "running"
    BY DEF brokerVars, Running
  <1>3. ~bs'[1].requestOutstanding => bs'[1].upstreamWritten <= e * ReqLen
    <2>1. ~bs[1].requestOutstanding => w <= d * ReqLen
      BY DEF AInv
    <2>2. d <= e
      OBVIOUS
    <2> HIDE DEF d, e, w
    <2>3. d * ReqLen \in Nat /\ e * ReqLen \in Nat /\ d * ReqLen <= e * ReqLen
      BY <1>1, <2>2, TimesMono
    <2>4. ~bs[1].requestOutstanding => w <= e * ReqLen
      BY <1>1, <2>1, <2>3
    <2> QED
      BY <1>2, <2>4 DEF w
  <1>4. Watched'
    BY <1>2 DEF Watched
  <1> QED
    BY <1>2, <1>3, <1>4 DEF AInv

(* ... when it leaves upBuf and what was delivered alone.                  *)
LEMMA SendingA ==
    ASSUME IInv, IInv', Prompt, AInv, UNCHANGED <<brokerVars, actor>>, Running,
           cs'.upBuf = cs.upBuf, cs'.downDelivered = cs.downDelivered,
           wout' \in {wout, <<>>}, rout' \in {rout, <<>>},
           \A t \in Tunnels : AcksCover(upq'[t], bs[1], srv[1])
    PROVE  AInv'
  <1>1. cs.downDelivered <= cs'.downDelivered
    BY WaitTypes
  <1>2. wout' # <<>> => wout'[1].type # "ACK"
    BY DEF AInv
  <1>3. rout' # <<>> /\ rout'[1].type = "ACK"
           => rout'[1].off # 0 /\ Covers(rout'[1].off, End(cs'.upBuf))
    BY DEF AInv
  <1> QED
    BY <1>1, <1>2, <1>3, SidecarA

(* Control frames: OPEN, ATTACH and CLOSE.                                 *)
LEMMA ControlA ==
    ASSUME IInv, IInv', Prompt, AInv,
           OpenSession \/ SendOpen \/ Reattach \/ \E half \in BOOLEAN : CloseUp(half)
    PROVE  AInv'
  <1>1. UNCHANGED <<brokerVars, actor, wout, rout>> /\ Running
    BY DEF OpenSession, SendOpen, Reattach, CloseUp, envVars
  <1>2. \/ cs' = cs \/ cs' = [cs EXCEPT !.upClosed = TRUE]
        \/ cs' = [cs EXCEPT !.st = "opening"] \/ cs' = [cs EXCEPT !.st = "open"]
    BY DEF OpenSession, SendOpen, Reattach, CloseUp
  <1>3. cs'.upBuf = cs.upBuf /\ cs'.downDelivered = cs.downDelivered
    BY <1>2, SidecarFacts DEF ClientSessionType
  <1>4. upq' = upq \/ Send(Ctl("OPEN", 0)) \/ Send(Ctl("ATTACH", cs.downDelivered))
        \/ Send(Ctl("CLOSE", 0))
    BY DEF OpenSession, SendOpen, Reattach, CloseUp
  <1>5. ASSUME NEW type \in {"OPEN", "ATTACH", "CLOSE"}, NEW off \in Nat, Send(Ctl(type, off))
        PROVE  \A t \in Tunnels : AcksCover(upq'[t], bs[1], srv[1])
    <2>1. Ctl(type, off) \in Frame /\ Ctl(type, off).type # "ACK"
      BY CtlFrame DEF FrameType, Ctl
    <2> QED
      BY <1>5, <2>1, CoverSend
  <1>6. \A t \in Tunnels : AcksCover(upq'[t], bs[1], srv[1])
    <2>1. CASE upq' = upq
      BY <2>1 DEF AInv
    <2> QED
      BY <1>4, <1>5, <2>1, WaitTypes
  <1> QED
    BY <1>1, <1>3, <1>6, SendingA

(* writeUp sends the DATA it retained.                                     *)
LEMMA WriteUpSendA ==
    ASSUME IInv, IInv', Prompt, AInv, WriteUpSend
    PROVE  AInv'
  <1>1. UNCHANGED <<brokerVars, actor, rout, cs>> /\ Running /\ wout' = <<>> /\ Send(wout[1])
        /\ wout # <<>>
    BY DEF WriteUpSend, envVars
  <1>2. wout[1] \in Frame /\ wout[1].type # "ACK"
    BY <1>1, SidecarFacts DEF AInv
  <1>3. \A t \in Tunnels : AcksCover(upq'[t], bs[1], srv[1])
    BY <1>1, <1>2, CoverSend
  <1> QED
    BY <1>1, <1>3, SendingA

(* deliverDown sends its ACK, onAttachOK its replay.                       *)
LEMMA ReadLoopSendA ==
    ASSUME IInv, IInv', QInv, Prompt, AInv, ReadLoopSend
    PROVE  AInv'
  <1> DEFINE f == rout[1]
             e == End(cs.upBuf)
  <1>1. UNCHANGED <<brokerVars, actor, wout, cs>> /\ Running /\ rout' = <<>> /\ Send(f)
        /\ rout # <<>>
    BY DEF ReadLoopSend, envVars
  <1>2. f \in Frame /\ f.off \in Nat /\ e \in Nat
    <2>1. f \in Frame
      BY <1>1, SidecarFacts
    <2> QED
      BY <2>1, UptoNat, WaitTypes
  <1>3. ASSUME f.type = "ACK"
        PROVE  /\ AckOK(f.off, bs[1], srv[1])
               /\ \A t \in Tunnels : \A j \in 1 .. Len(upq[t]) :
                     upq[t][j].data # <<>> => Covers(f.off, Upto(upq[t][j]))
    <2>1. f.off # 0 /\ Covers(f.off, e)
      BY <1>1, <1>3 DEF AInv
    <2>2. ASSUME NEW n \in Nat, n <= e PROVE Covers(f.off, n)
      <3> HIDE DEF f, e
      <3> QED
        BY <1>2, <2>1, <2>2, CoversMore
    <2>3. Len(srv[1].got) \in Nat /\ Len(srv[1].got) <= e
          /\ bs[1].upstreamWritten + Len(bs[1].preConn) \in Nat
          /\ (Unflushed(bs[1]) => bs[1].upstreamWritten + Len(bs[1].preConn) <= e)
      BY WaitTypes, QFacts DEF SupplyOK
    <2>4. ASSUME NEW t \in Tunnels, NEW j \in 1 .. Len(upq[t]), upq[t][j].data # <<>>
          PROVE  Covers(f.off, Upto(upq[t][j]))
      <3>1. upq[t][j] \in Frame
        BY WaitTypes
      <3>2. Upto(upq[t][j]) \in Nat /\ Upto(upq[t][j]) <= e
        BY <2>4, <3>1, UptoNat, QFacts DEF Within, Upto
      <3> QED
        BY <2>2, <3>2
    <2> QED
      BY <2>1, <2>2, <2>3, <2>4 DEF AckOK
  <1>4. \A t \in Tunnels : AcksCover(upq'[t], bs[1], srv[1])
    BY <1>1, <1>2, <1>3, CoverSend
  <1> QED
    BY <1>1, <1>4, SendingA

(* writeUp retains another chunk: no ACK of an earlier response is still   *)
(* to be sent, unless there is only one request.                           *)
LEMMA WriteUpA ==
    ASSUME IInv, IInv', Prompt, AInv, NEW n \in 1 .. UpCap, WriteUp(n)
    PROVE  AInv'
  <1> DEFINE c == AppendTo(cs.upBuf, AgentBytes(End(cs.upBuf), n))
             f == Data(End(cs.upBuf), AgentBytes(End(cs.upBuf), n))
  <1>1. /\ UNCHANGED <<brokerVars, actor, rout, upq>> /\ Running /\ Settled
        /\ cs' = [cs EXCEPT !.upBuf = c] /\ wout' = <<f>>
    BY DEF WriteUp, envVars
  <1>2. f.type = "DATA"
    BY DEF Data
  <1> HIDE DEF c, f
  <1>3. cs'.downDelivered = cs.downDelivered /\ cs.downDelivered \in Nat
    BY <1>1, SidecarFacts DEF ClientSessionType
  <1>4. wout' # <<>> => wout'[1].type # "ACK"
    BY <1>1, <1>2
  <1>5. rout' # <<>> /\ rout'[1].type = "ACK"
           => rout'[1].off # 0 /\ Covers(rout'[1].off, End(cs'.upBuf))
    <2>1. CASE Rounds = 1
      BY <1>1, <2>1 DEF AInv, Covers
    <2>2. CASE "deliverDown" \notin Preempt
      <3>1. ~MidWay("deliverDown")
        BY <1>1, <2>2 DEF Settled, PreemptionPoints
      <3>2. ~(rout # <<>> /\ rout[1].type = "ACK")
        BY <3>1 DEF MidWay
      <3> QED
        BY <1>1, <3>2
    <2> QED
      BY <2>1, <2>2 DEF Prompt
  <1>6. \A t \in Tunnels : AcksCover(upq'[t], bs[1], srv[1])
    BY <1>1 DEF AInv
  <1> QED
    BY <1>1, <1>3, <1>4, <1>5, <1>6, SidecarA

(* connectOnce, and the loss of a connection.                              *)
LEMMA ConnectA ==
    ASSUME IInv, IInv', Prompt, AInv, Disconnect \/ \E t \in Tunnels : Connect(t)
    PROVE  AInv'
  <1>1. UNCHANGED <<brokerVars, actor, wout, rout, cs>> /\ Running
    BY DEF Disconnect, Connect, envVars
  <1>2. \A u \in Tunnels : AcksCover(upq'[u], bs[1], srv[1])
    <2>1. CASE Disconnect
      BY <2>1 DEF Disconnect, AInv
    <2>2. ASSUME NEW t \in Tunnels, Connect(t)
          PROVE  \A u \in Tunnels : AcksCover(upq'[u], bs[1], srv[1])
      <3>1. \A u \in Tunnels : upq'[u] = IF u = t THEN <<>> ELSE upq[u]
        BY <2>2, WaitTypes DEF Connect
      <3>2. AcksCover(<<>>, bs[1], srv[1])
        BY DEF AcksCover
      <3> QED
        BY <3>1, <3>2 DEF AInv
    <2> QED
      BY <2>1, <2>2
  <1> QED
    BY <1>1, <1>2, SendingA

(* onUpstreamAck, onAttachOK and onClose send no ACK.                      *)
LEMMA ReceiveA ==
    ASSUME IInv, IInv', Prompt, AInv, RecvAck \/ RecvAttachOK \/ RecvClose
    PROVE  AInv'
  <1>1. /\ cs.downDelivered <= cs'.downDelivered /\ End(cs'.upBuf) = End(cs.upBuf)
        /\ UNCHANGED <<wout, upq, brokerVars>>
    BY RecvShape
  <1>2. UNCHANGED actor /\ Running
    BY DEF RecvAck, RecvAttachOK, RecvClose, Receive, envVars
  <1>3. rout' = rout \/ rout' = <<>> \/ \E off, p : rout' = <<Data(off, p)>>
    BY DEF RecvAck, RecvAttachOK, RecvClose
  <1>4. rout' # <<>> /\ rout'[1].type = "ACK"
           => rout'[1].off # 0 /\ Covers(rout'[1].off, End(cs'.upBuf))
    <2>1. \A off, p : <<Data(off, p)>>[1].type # "ACK"
      BY DEF Data
    <2> QED
      BY <1>1, <1>3, <2>1 DEF AInv
  <1> QED
    BY <1>1, <1>2, <1>4, SidecarA DEF AInv

(* deliverDown: the ACK covers what the agent wrote for the responses it   *)
(* has, and the agent writes nothing before it has the next one.           *)
LEMMA RecvDataA ==
    ASSUME IInv, IInv', Prompt, Paced, AInv, NEW ok \in BOOLEAN, RecvData(ok)
    PROVE  AInv'
  <1> DEFINE d == cs.downDelivered
             f == Head(downq[conn])
             p == Fresh(f.off, f.data, d)
             g == d + Len(p)
             e == End(cs.upBuf)
  <1>1. /\ cs.downDelivered <= cs'.downDelivered /\ End(cs'.upBuf) = e
        /\ UNCHANGED <<wout, upq, brokerVars>>
    BY RecvShape
  <1>2. UNCHANGED actor /\ Running /\ Receive("DATA")
    BY DEF RecvData, Receive, envVars
  <1>3. rout' = rout \/ (p # <<>> /\ rout' = <<Ctl("ACK", g)>>)
    BY DEF RecvData
  <1>4. d \in Nat /\ e \in Nat /\ ReqLen \in Nat /\ e <= (d + 1) * ReqLen
    BY WaitTypes DEF Paced
  <1>5. p \in Seq(Byte)
    BY <1>2, <1>4, ReceiveOK, FreshPositioned
  <1>6. p # <<>> => g # 0 /\ Covers(g, e)
    <2> SUFFICES ASSUME p # <<>> PROVE g # 0 /\ Covers(g, e)
      OBVIOUS
    <2> HIDE DEF p, d, e
    <2>1. Len(p) \in Nat /\ Len(p) > 0
      BY <1>5
    <2>2. g \in Nat /\ d + 1 \in Nat /\ d + 1 <= g /\ g # 0
      BY <1>4, <2>1
    <2> HIDE DEF g
    <2>3. (d + 1) * ReqLen \in Nat /\ g * ReqLen \in Nat /\ (d + 1) * ReqLen <= g * ReqLen
      BY <1>4, <2>2, TimesMono
    <2>4. e <= g * ReqLen
      BY <1>4, <2>3
    <2> QED
      BY <2>2, <2>4 DEF Covers
  <1> HIDE DEF p, g, d
  <1>7. rout' # <<>> /\ rout'[1].type = "ACK"
           => rout'[1].off # 0 /\ Covers(rout'[1].off, End(cs'.upBuf))
    <2>1. CASE rout' = rout
      BY <1>1, <2>1 DEF AInv
    <2>2. CASE p # <<>> /\ rout' = <<Ctl("ACK", g)>>
      <3>1. rout'[1].off = g
        BY <2>2 DEF Ctl
      <3> QED
        BY <1>1, <1>6, <2>2, <3>1
    <2> QED
      BY <1>3, <2>1, <2>2
  <1> QED
    BY <1>1, <1>2, <1>7, SidecarA DEF AInv

(* A suspend finds the agent's request upstream and the session bound; a   *)
(* cut loses frames, and a resume ends the wait.                           *)
LEMMA PlatformA ==
    ASSUME IInv, IInv', Prompt, AInv,
           ResumeActor \/ ResumeElsewhere \/ Suspend \/ Break \/ UNCHANGED vars
    PROVE  AInv'
  <1>1. upq \in [Tunnels -> Seq(Frame)]
        /\ \A u \in Tunnels : Part(upq[u], upq[u]) /\ upq[u] \in Seq(Frame) /\ upq'[u] \in Seq(Frame)
    BY SidecarFacts, Parts DEF IInv, TypeOK
  <1>2. UNCHANGED <<sidecarVars, brokerVars>> /\ UNCHANGED <<cs, wout, rout, bs, srv, pend, cur>>
    BY DEF ResumeActor, ResumeElsewhere, Suspend, Break, vars, sidecarVars, brokerVars
  <1>3. \A u \in Tunnels : Part(upq'[u], upq[u])
    <2>1. CASE (Suspend \/ Break) /\ conn # 0 /\ link[conn] = "up"
      <3>1. conn \in Tunnels /\ Cut
        BY <2>1, SidecarFacts DEF Suspend, Break
      <3>2. PICK k \in 0 .. Len(upq[conn]) :
               upq' = [upq EXCEPT ![conn] = SubSeq(upq[conn], 1, k)]
        BY <2>1, <3>1 DEF Cut
      <3>3. Part(SubSeq(upq[conn], 1, k), upq[conn])
        BY <1>1, <3>1, Parts
      <3> QED
        BY <1>1, <3>1, <3>2, <3>3
    <2>2. CASE ~((Suspend \/ Break) /\ conn # 0 /\ link[conn] = "up")
      <3>1. upq' = upq
        BY <2>2 DEF Suspend, Break, ResumeActor, ResumeElsewhere, Cut, vars
      <3> QED
        BY <1>1, <3>1
    <2> QED
      BY <2>1, <2>2
  <1>4. \A u \in Tunnels : AcksCover(upq'[u], bs[1], srv[1])
    BY <1>1, <1>3, CoverPart DEF AInv
  <1>5. Watched'
    <2>1. CASE Suspend
      <3>1. Blocked
        BY <2>1 DEF Suspend, Prompt
      <3>2. cur = 1
        BY <3>1, WaitTypes DEF Blocked
      <3>3. bs[1].upstreamWritten = End(cs.upBuf) /\ bs[1].tconn # 0
        BY <3>1, <3>2 DEF Blocked
      <3>4. bs[1].dial # "none"
        BY <3>2 DEF AInv
      <3>5. Alerted(Broker, 1)'
        BY <1>2, <3>3 DEF Alerted, Broker
      <3> QED
        BY <1>2, <3>3, <3>4, <3>5 DEF Watched
    <2>2. CASE Break \/ ResumeActor \/ ResumeElsewhere
      <3>1. actor' = "running"
        BY <2>2 DEF Break, ResumeActor, ResumeElsewhere, Running
      <3> QED
        BY <3>1 DEF Watched
    <2>3. CASE UNCHANGED vars
      <3>1. UNCHANGED <<actor, wake, cs, agentGot, agentOpen, bs, cur>>
        BY <2>3 DEF vars, envVars, sidecarVars, brokerVars
      <3>2. (AgentWaits' <=> AgentWaits) /\ (Alerted(Broker, 1)' <=> Alerted(Broker, 1))
        BY <3>1 DEF AgentWaits, Responses, Alerted, Broker
      <3> QED
        BY <3>1, <3>2 DEF AInv, Watched
    <2> QED
      BY <2>1, <2>2, <2>3
  <1> QED
    BY <1>2, <1>4, <1>5 DEF AInv

-----------------------------------------------------------------------------
(* Nobody waits yet.                                                       *)
LEMMA InitAInv ==
    ASSUME Init, Prompt
    PROVE  AInv /\ Paced
  <1>1. Dials = {1} /\ ReqLen \in Nat /\ RespLen = 1
    BY LengthsAssumption DEF Prompt, Dials
  <1>2. bs[1].requestOutstanding = FALSE /\ bs[1].upstreamWritten = 0
    BY <1>1 DEF Init, NewSession
  <1>3. cs.downDelivered = 0 /\ End(cs.upBuf) = 0 /\ Len(agentGot) = 0
    BY DEF Init, NewClientSession, NewReplayBuffer, End, BufLen
  <1>4. \A t \in Tunnels : AcksCover(upq[t], bs[1], srv[1]) /\ ~Writes(pend[t], 1)
    BY DEF Init, AcksCover, Writes
  <1>5. Watched
    BY DEF Init, Watched
  <1>6. Responses = 0
    BY <1>1, <1>3 DEF Responses
  <1> QED
    BY <1>1, <1>2, <1>3, <1>4, <1>5, <1>6 DEF Init, AInv, Paced

(* The invariant is inductive.                                             *)
LEMMA NextAInv ==
    ASSUME Prompt, IInv, IInv', UInv, QInv, Paced, AInv, [Next]_vars
    PROVE  AInv'
  <1>1. CASE ProxyPump \/ ProxyClose
    BY <1>1, ControlA, WriteUpSendA, WriteUpA DEF ProxyPump, ProxyClose
  <1>2. CASE ClientRun
    BY <1>2, ControlA, ReadLoopSendA, ConnectA, ReceiveA, RecvDataA DEF ClientRun
  <1>3. CASE \/ \E t \in Tunnels : ServeTunnel(t)
             \/ \E i \in Dials : Upstream(i) \/ WatchdogFire(i) \/ ServerSend(i) \/ ServerClose(i)
    BY <1>3, BrokerStepA
  <1>4. CASE ResumeActor \/ ResumeElsewhere \/ Suspend \/ Break \/ UNCHANGED vars
    BY <1>4, PlatformA
  <1> QED
    BY <1>1, <1>2, <1>3, <1>4 DEF Next

(* While an agent waits in a suspended actor its request is upstream and   *)
(* outstanding, and detach, produceDownstream and closeUpstream have asked *)
(* for a wake-up for whatever of the answer the broker holds.  An ACK      *)
(* takes the request for answered (onDownstreamAck) only when it follows   *)
(* everything the agent wrote.                                             *)
THEOREM WaitingInvariance ==
    ASSUME Prompt
    PROVE  Spec => [](IInv /\ UInv /\ QInv /\ Paced /\ AInv)
  <1>1. OneWriterAtATime
    BY DEF Prompt
  <1>2. Init => IInv /\ UInv /\ QInv /\ Paced /\ AInv
    BY InitIInv, InitUInv, InitQInv, InitAInv
  <1>3. IInv /\ UInv /\ QInv /\ Paced /\ AInv /\ [Next]_vars
           => (IInv /\ UInv /\ QInv /\ Paced /\ AInv)'
    BY <1>1, NextIInv, NextUInv, NextQInv, NextPaced, NextAInv
  <1> QED
    BY <1>2, <1>3, PTL DEF Spec

(* An actor is not left suspended while the destination's answer waits for *)
(* it in the broker (produceDownstream, detach, closeUpstream): with       *)
(* responses in one piece, a suspend that waits for the request to be      *)
(* upstream and ACKs in order, the wake-up is under way without the        *)
(* watchdog's help.                                                        *)
THEOREM NeverStranded ==
    ASSUME Prompt
    PROVE  Spec => []NotStranded
  <1>1. ASSUME IInv, AInv PROVE NotStranded
    <2> DEFINE d == cs.downDelivered
               b == bs[1].downBuf
               w == bs[1].upstreamWritten
    <2> SUFFICES ASSUME actor = "suspended", AgentWaits, AnswerWaits
                 PROVE  wake
      BY DEF NotStranded
    <2>1. cur = 1
      BY <1>1, WaitTypes DEF AnswerWaits
    <2>2. w = End(cs.upBuf) /\ Alerted(Broker, 1)
      BY <1>1, <2>1 DEF AInv, Watched
    <2>3. bs[1].requestOutstanding
      <3>1. End(cs.upBuf) > d * ReqLen /\ End(cs.upBuf) \in Nat /\ d \in Nat /\ ReqLen \in Nat
        BY <1>1, WaitTypes DEF AgentWaits
      <3>2. ~bs[1].requestOutstanding => w <= d * ReqLen
        BY <1>1 DEF AInv
      <3> HIDE DEF d
      <3>3. d * ReqLen \in Nat
        BY <3>1, TimesMono
      <3> HIDE DEF w
      <3> QED
        BY <2>2, <3>1, <3>2, <3>3
    <2>4. bs[1].tconn = 0 /\ (End(b) > d \/ bs[1].downClosed)
      BY <2>1 DEF AnswerWaits
    <2>5. End(b) > d => BufLen(b) > 0
      <3>1. b.base <= d /\ d \in Nat /\ b \in ReplayBufferType
        BY <1>1, BrokerFacts, WaitTypes DEF SessionType
      <3>2. b.base \in Nat /\ BufLen(b) \in Nat /\ End(b) = b.base + BufLen(b)
        BY <3>1 DEF ReplayBufferType, BufLen, End
      <3> HIDE DEF b, d
      <3> QED
        BY <3>1, <3>2
    <2> QED
      BY <2>2, <2>3, <2>4, <2>5 DEF Alerted, Broker
  <1> QED
    BY <1>1, WaitingInvariance, PTL
=============================================================================
