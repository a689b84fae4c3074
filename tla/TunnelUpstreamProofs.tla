------------------------ MODULE TunnelUpstreamProofs ------------------------
(***************************************************************************)
(* The destination reads what the agent wrote, each byte once and in       *)
(* order, and the sidecar forgets a byte only once the destination has it, *)
(* as long as a session's upstream connection has one writer: preConn is   *)
(* flushed before another frame is served ("dial" closed), and either      *)
(* onData counts what it wrote before another frame is served ("onData"    *)
(* closed) or no frame loop outlives its tunnel ("serveTunnel" closed).    *)
(***************************************************************************)
EXTENDS TunnelSessionProofs, FiniteSetTheorems

OneWriterAtATime ==
    /\ "dial" \notin Preempt
    /\ "onData" \notin Preempt \/ "serveTunnel" \notin Preempt

-----------------------------------------------------------------------------
(* The inductive invariant.                                                *)

(* At most one frame loop has anything to do, the one of the connection in *)
(* use while there is one.                                                 *)
Busy(t) == upq[t] # <<>> \/ pend[t] # <<>>

OneLoop ==
    /\ \A t \in Tunnels : /\ link[t] = "up" => conn = t
                          /\ link[t] = "ended" => ~Busy(t)
                          /\ Busy(t) /\ conn # 0 => conn = t
    /\ \A t, u \in Tunnels : Busy(t) /\ Busy(u) => t = u

(* The agent's bytes that follow the first off of them, and the sidecar's  *)
(* frames that carry such bytes at their offsets.                          *)
Agents(p, off)  == \A k \in 1 .. Len(p) : p[k] = <<0, off + k>>
FramesOK(q)     == \A k \in 1 .. Len(q) : Agents(q[k].data, q[k].off)

(* A session whose preConn may still be written, and the frame loop that   *)
(* has written to session i and not counted it yet.                        *)
Unflushed(s) == s.dial \in {"none", "dialing", "flushing"}
Writes(h, i) == h # <<>> /\ h[1].op = "onData" /\ h[1].i = i

(* What session s has taken, c being the destination's end of it.          *)
TakenOK(s, c) ==
    /\ Agents(c.got, 0)
    /\ Unflushed(s) => Agents(s.preConn, s.upstreamWritten)
    /\ s.dial = "none" => c.got = <<>>

(* upstreamWritten is what the destination has, but for the write of the   *)
(* one frame loop that has not counted it yet.                             *)
Counted(i) ==
    /\ (\A t \in Tunnels : ~Writes(pend[t], i))
          => Len(srv[i].got) = bs[i].upstreamWritten
    /\ \A t \in Tunnels : Writes(pend[t], i) =>
          ~Unflushed(bs[i]) /\ Len(srv[i].got) = bs[i].upstreamWritten + Len(pend[t][1].data)
    /\ \A t, u \in Tunnels : Writes(pend[t], i) /\ Writes(pend[u], i) => t = u

(* A number acknowledged to the sidecar is one that a destination has.     *)
Has(S, n)      == \E i \in Dials : n <= Len(S[i].got)
Vouched(q, S)  == \A k \in 1 .. Len(q) : q[k].type \in {"ACK", "ATTACH_OK"} => Has(S, q[k].off)
Answers(h, S)  == \A k \in 1 .. Len(h) : h[k].op = "onAttach" => Has(S, h[k].written)

(* The sessions created so far are the first ones.                         *)
FirstOnes(S, n) == \A i \in Dials : S[i].dial # "none" <=> i <= n
Numbered(S)     == \E n \in 0 .. MaxDials : FirstOnes(S, n)

LoopsOK == "serveTunnel" \notin Preempt => OneLoop

UInv ==
    /\ LoopsOK
    /\ Agents(cs.upBuf.buf, cs.upBuf.base) /\ Has(srv, cs.upBuf.base)
    /\ FramesOK(wout) /\ FramesOK(rout) /\ \A t \in Tunnels : FramesOK(upq[t])
    /\ \A i \in Dials : TakenOK(bs[i], srv[i]) /\ Counted(i)
    /\ \A t \in Tunnels : Vouched(downq[t], srv) /\ Answers(pend[t], srv)
    /\ Numbered(bs)

-----------------------------------------------------------------------------
(* One loop.                                                               *)

(* Steps that leave the connections alone and give no loop more to do.     *)
LEMMA LoopKept ==
    ASSUME OneLoop, UNCHANGED <<link, conn>>,
           \A t \in Tunnels : upq'[t] # <<>> \/ pend'[t] # <<>> => Busy(t)
    PROVE  OneLoop'
  BY DEF OneLoop, Busy

(* Client.send writes to the connection in use.                            *)
LEMMA LoopSend ==
    ASSUME IInv, OneLoop, UNCHANGED <<link, conn, pend>>, NEW f, Send(f)
    PROVE  OneLoop'
  <1>1. CASE conn # 0 /\ link[conn] = "up"
    <2>1. conn \in Tunnels /\ upq \in [Tunnels -> Seq(Frame)]
          /\ link \in [Tunnels -> {"up", "cut", "ended"}]
      BY <1>1, SidecarFacts
    <2>2. \A t \in Tunnels : t # conn => upq'[t] = upq[t]
      BY <1>1, <2>1 DEF Send, WriteFrame
    <2> QED
      BY <1>1, <2>1, <2>2 DEF OneLoop, Busy
  <1>2. CASE ~(conn # 0 /\ link[conn] = "up")
    BY <1>2 DEF Send, WriteFrame, OneLoop, Busy
  <1> QED
    BY <1>1, <1>2

(* connectOnce: the frame loops of older connections are done.             *)
LEMMA LoopConnect ==
    ASSUME IInv, OneLoop, "serveTunnel" \notin Preempt, NEW t \in Tunnels, Connect(t)
    PROVE  OneLoop'
  <1>1. conn = 0 /\ link \in [Tunnels -> {"up", "cut", "ended"}]
        /\ upq \in [Tunnels -> Seq(Frame)]
    BY SidecarFacts DEF Connect
  <1>2. \A u \in Tunnels : link[u] # "up" /\ upq[u] = <<>> /\ pend[u] = <<>>
    BY <1>1 DEF OneLoop, Busy, Connect, LoopsDrained, Tunnels
  <1>3. conn' = t /\ link' = [link EXCEPT ![t] = "up"] /\ upq' = [upq EXCEPT ![t] = <<>>]
        /\ pend' = pend
    BY DEF Connect, brokerVars
  <1> QED
    BY <1>1, <1>2, <1>3 DEF OneLoop, Busy

(* readLoop returned.                                                      *)
LEMMA LoopDisconnect ==
    ASSUME IInv, OneLoop, Disconnect
    PROVE  OneLoop'
  <1>1. conn \in Tunnels /\ link \in [Tunnels -> {"up", "cut", "ended"}]
    BY SidecarFacts DEF Disconnect
  <1>2. conn' = 0 /\ upq' = upq /\ pend' = pend /\ 0 \notin Tunnels
        /\ link' = [link EXCEPT ![conn] = IF @ = "up" THEN "cut" ELSE @]
    BY DEF Disconnect, Tunnels, brokerVars
  <1> QED
    BY <1>1, <1>2 DEF OneLoop, Busy

(* The tunnel is cut.                                                      *)
LEMMA LoopCut ==
    ASSUME IInv, OneLoop, Cut, UNCHANGED <<conn, pend>>
    PROVE  OneLoop'
  <1>1. CASE conn # 0 /\ link[conn] = "up"
    <2>1. conn \in Tunnels /\ link \in [Tunnels -> {"up", "cut", "ended"}]
          /\ upq \in [Tunnels -> Seq(Frame)]
      BY <1>1, SidecarFacts
    <2>2. PICK k \in 0 .. Len(upq[conn]) : upq' = [upq EXCEPT ![conn] = SubSeq(@, 1, k)]
      BY <1>1 DEF Cut
    <2>3. upq[conn] = <<>> => SubSeq(upq[conn], 1, k) = <<>>
      OBVIOUS
    <2>4. \A t \in Tunnels : upq'[t] # <<>> => upq[t] # <<>>
      BY <2>1, <2>2, <2>3
    <2>5. link' = [link EXCEPT ![conn] = "cut"]
      BY <1>1 DEF Cut
    <2> QED
      BY <2>1, <2>4, <2>5 DEF OneLoop, Busy
  <1>2. CASE ~(conn # 0 /\ link[conn] = "up")
    BY <1>2, LoopKept DEF Cut, Busy
  <1> QED
    BY <1>1, <1>2

(* serveTunnel returned.                                                   *)
LEMMA LoopEnd ==
    ASSUME IInv, OneLoop, NEW t \in Tunnels, TunnelEnd(t)
    PROVE  OneLoop'
  <1>1. link \in [Tunnels -> {"up", "cut", "ended"}] /\ upq \in [Tunnels -> Seq(Frame)]
    BY SidecarFacts
  <1>2. conn' = conn /\ link' = [link EXCEPT ![t] = "ended"] /\ upq' = [upq EXCEPT ![t] = <<>>]
        /\ pend' = pend /\ pend[t] = <<>>
    BY DEF TunnelEnd, sidecarVars
  <1> QED
    BY <1>1, <1>2 DEF OneLoop, Busy

(* serveTunnel took a frame, and may have entered a handler.               *)
LEMMA LoopServe ==
    ASSUME IInv, OneLoop, NEW t \in Tunnels, NEW type, Serve(t, type), UNCHANGED <<link, conn>>,
           pend' = pend \/ \E h : pend' = [pend EXCEPT ![t] = h]
    PROVE  OneLoop'
  <1>1. upq \in [Tunnels -> Seq(Frame)] /\ upq[t] # <<>>
        /\ upq' = [upq EXCEPT ![t] = Tail(@)] /\ pend \in [Tunnels -> Seq(Handler)]
    BY SidecarFacts, BrokerFacts DEF Serve
  <1> QED
    BY <1>1, LoopKept DEF Busy

(* Every step keeps it.                                                    *)
LEMMA NextOneLoop ==
    ASSUME IInv, OneLoop, "serveTunnel" \notin Preempt, [Next]_vars
    PROVE  OneLoop'
  <1>1. ASSUME UNCHANGED <<link, upq, conn, pend>>
        PROVE  OneLoop'
    BY <1>1, LoopKept DEF Busy
  <1>2. CASE UNCHANGED vars
    BY <1>1, <1>2 DEF vars, sidecarVars, brokerVars
  <1>3. CASE ProxyPump \/ ProxyClose
    <2>1. CASE OpenSession \/ \E n \in 1 .. UpCap : WriteUp(n)
      BY <1>1, <2>1 DEF OpenSession, WriteUp, brokerVars
    <2>2. CASE SendOpen \/ WriteUpSend \/ \E half \in BOOLEAN : CloseUp(half)
      BY <2>2, LoopSend DEF SendOpen, WriteUpSend, CloseUp, brokerVars
    <2> QED
      BY <1>3, <2>1, <2>2 DEF ProxyPump, ProxyClose
  <1>4. CASE ClientRun
    <2>1. CASE Reattach \/ ReadLoopSend
      BY <2>1, LoopSend DEF Reattach, ReadLoopSend, brokerVars
    <2>2. CASE RecvAck \/ RecvAttachOK \/ RecvClose \/ \E ok \in BOOLEAN : RecvData(ok)
      BY <1>1, <2>2 DEF RecvAck, RecvAttachOK, RecvClose, RecvData, brokerVars
    <2> QED
      BY <1>4, <2>1, <2>2, LoopConnect, LoopDisconnect DEF ClientRun
  <1>5. ASSUME NEW t \in Tunnels, ServeTunnel(t)
        PROVE  OneLoop'
    <2>1. CASE \E ok \in BOOLEAN : FinishAttach(t, ok) \/ FinishData(t, ok)
      <3>1. UNCHANGED <<link, conn, upq>> /\ pend' = [pend EXCEPT ![t] = <<>>]
        BY <2>1 DEF FinishAttach, FinishData, sidecarVars
      <3> QED
        BY <3>1, BrokerFacts, LoopKept DEF Busy
    <2>2. CASE \/ \E ok \in BOOLEAN : HandleDataError(t, ok)
               \/ HandleDataEarly(t) \/ HandleAck(t) \/ HandleClose(t) \/ HandleUnknown(t)
      <3>1. (\E type : Serve(t, type)) /\ UNCHANGED <<link, conn, pend>>
        BY <2>2 DEF HandleDataError, HandleDataEarly, HandleAck, HandleClose, HandleUnknown,
                    sidecarVars, brokerVars
      <3> QED
        BY <3>1, LoopServe
    <2>3. CASE HandleOpen(t) \/ HandleAttach(t) \/ HandleData(t)
      <3>1. (\E type : Serve(t, type)) /\ UNCHANGED <<link, conn>>
        BY <2>3 DEF HandleOpen, HandleAttach, HandleData, sidecarVars
      <3>2. pend' = pend \/ \E h : pend' = [pend EXCEPT ![t] = h]
        BY <2>3 DEF HandleOpen, HandleAttach, HandleData
      <3> QED
        BY <3>1, <3>2, LoopServe
    <2> QED
      BY <1>5, <2>1, <2>2, <2>3, LoopEnd DEF ServeTunnel
  <1>6. ASSUME NEW i \in Dials,
               Upstream(i) \/ WatchdogFire(i) \/ ServerSend(i) \/ ServerClose(i)
        PROVE  OneLoop'
    BY <1>1, <1>6 DEF Upstream, DialOK, DialFail, FlushPre, FlushError, Produce, ReadEOF,
                      WatchdogFire, ServerSend, ServerClose, sidecarVars
  <1>7. CASE ResumeActor \/ ResumeElsewhere \/ Suspend \/ Break
    BY <1>1, <1>7, LoopCut DEF ResumeActor, ResumeElsewhere, Suspend, Break, sidecarVars,
                               brokerVars
  <1> QED
    BY <1>2, <1>3, <1>4, <1>5, <1>6, <1>7 DEF Next

-----------------------------------------------------------------------------
(* The agent's bytes.                                                      *)

(* A suffix of the agent's bytes begins where the prefix left off.         *)
LEMMA SuffixAgents ==
    ASSUME NEW p \in Seq(Byte), NEW off \in Nat, Agents(p, off), NEW m \in 1 .. Len(p) + 1
    PROVE  Agents(SubSeq(p, m, Len(p)), off + m - 1)
  <1> DEFINE q == SubSeq(p, m, Len(p))
  <1>1. Len(q) = Len(p) - m + 1
    OBVIOUS
  <1>2. \A k \in 1 .. Len(q) : q[k] = p[m + k - 1]
    OBVIOUS
  <1>3. \A k \in 1 .. Len(q) : m + k - 1 \in 1 .. Len(p) /\ off + (m + k - 1) = (off + m - 1) + k
    BY <1>1
  <1> HIDE DEF q
  <1>4. Agents(q, off + m - 1)
    BY <1>2, <1>3 DEF Agents
  <1> QED
    BY <1>4 DEF q

(* Bytes that continue a stream join it.                                   *)
LEMMA ConcatAgents ==
    ASSUME NEW p \in Seq(Byte), NEW q \in Seq(Byte), NEW off \in Nat,
           Agents(p, off), Agents(q, off + Len(p))
    PROVE  p \o q \in Seq(Byte) /\ Len(p \o q) = Len(p) + Len(q) /\ Agents(p \o q, off)
  <1>1. p \o q \in Seq(Byte) /\ Len(p \o q) = Len(p) + Len(q)
    OBVIOUS
  <1>2. ASSUME NEW k \in 1 .. Len(p \o q)
        PROVE  (p \o q)[k] = <<0, off + k>>
    <2>1. CASE k <= Len(p)
      BY <2>1, <1>1 DEF Agents
    <2>2. CASE k > Len(p)
      <3>1. /\ k - Len(p) \in 1 .. Len(q) /\ (p \o q)[k] = q[k - Len(p)]
            /\ (off + Len(p)) + (k - Len(p)) = off + k
        BY <2>2, <1>1
      <3> QED
        BY <3>1 DEF Agents
    <2> QED
      BY <2>1, <2>2
  <1> QED
    BY <1>1, <1>2 DEF Agents

(* What onData takes of a frame continues what it has.                     *)
LEMMA FreshAgents ==
    ASSUME NEW p \in Seq(Byte), NEW off \in Nat, NEW want \in Nat, Agents(p, off)
    PROVE  Fresh(off, p, want) \in Seq(Byte) /\ Agents(Fresh(off, p, want), want)
  <1> DEFINE m == want - off + 1
  <1>1. CASE want < off
    BY <1>1 DEF Fresh, Agents
  <1>2. CASE want >= off /\ m <= Len(p) + 1
    <2>1. m \in 1 .. Len(p) + 1 /\ off + m - 1 = want
      BY <1>2
    <2>2. Fresh(off, p, want) = SubSeq(p, m, Len(p)) /\ SubSeq(p, m, Len(p)) \in Seq(Byte)
      BY <1>2, <2>1 DEF Fresh
    <2> QED
      BY <2>1, <2>2, SuffixAgents
  <1>3. CASE want >= off /\ m > Len(p) + 1
    <2>1. Fresh(off, p, want) = <<>>
      BY <1>3 DEF Fresh
    <2> QED
      BY <2>1 DEF Agents
  <1> QED
    BY <1>1, <1>2, <1>3

(* Trimming upBuf leaves the agent's bytes at their offsets, and drops no  *)
(* more than was acknowledged.                                             *)
LEMMA TrimToAgents ==
    ASSUME NEW b \in ReplayBufferType, NEW off \in Nat, Agents(b.buf, b.base)
    PROVE  /\ TrimTo(b, off) \in ReplayBufferType
           /\ Agents(TrimTo(b, off).buf, TrimTo(b, off).base)
           /\ TrimTo(b, off).base <= b.base \/ TrimTo(b, off).base <= off
           /\ End(TrimTo(b, off)) = End(b)
  <1>1. b.base \in Nat /\ b.buf \in Seq(Byte) /\ Len(b.buf) \in Nat
    BY DEF ReplayBufferType
  <1>2. CASE off <= b.base
    BY <1>1, <1>2, TrimToType DEF TrimTo
  <1>3. CASE off > b.base /\ off >= End(b)
    <2>1. TrimTo(b, off) = [base |-> End(b), buf |-> <<>>] /\ End(b) \in Nat
      BY <1>1, <1>3 DEF TrimTo, End, BufLen
    <2>2. Agents(<<>>, End(b))
      BY DEF Agents
    <2> QED
      BY <1>1, <1>3, <2>1, <2>2, TrimToType DEF End, BufLen
  <1>4. CASE off > b.base /\ off < End(b)
    <2> DEFINE m == off - b.base + 1
               q == SubSeq(b.buf, m, Len(b.buf))
    <2>1. m \in 1 .. Len(b.buf) + 1 /\ b.base + m - 1 = off
      BY <1>1, <1>4 DEF End, BufLen
    <2>2. TrimTo(b, off) = [base |-> off, buf |-> q]
      BY <1>1, <1>4 DEF TrimTo, End, BufLen
    <2>3. Agents(q, off)
      BY <1>1, <2>1, SuffixAgents
    <2>4. Len(q) = Len(b.buf) - m + 1
      BY <1>1, <2>1
    <2> HIDE DEF q
    <2>5. TrimTo(b, off).base = off /\ TrimTo(b, off).buf = q
      BY <2>2
    <2>6. End(TrimTo(b, off)) = off + Len(q)
      BY <2>5 DEF End, BufLen
    <2>7. off + Len(q) = End(b)
      BY <1>1, <2>4 DEF End, BufLen
    <2> QED
      BY <2>3, <2>5, <2>6, <2>7, TrimToType
  <1> QED
    BY <1>1, <1>2, <1>3, <1>4, TrimToType DEF End, BufLen

(* What onAttachOK copies for the replay.                                  *)
LEMMA FromAgents ==
    ASSUME NEW b \in ReplayBufferType, NEW off \in Nat, Agents(b.buf, b.base), FromOK(b, off)
    PROVE  From(b, off) \in Seq(Byte) /\ Agents(From(b, off), off)
  <1> DEFINE m == off - b.base + 1
  <1>1. b.base \in Nat /\ b.buf \in Seq(Byte)
    BY DEF ReplayBufferType
  <1>2. m \in 1 .. Len(b.buf) + 1 /\ b.base + m - 1 = off
    BY <1>1 DEF FromOK, End, BufLen
  <1>3. From(b, off) = SubSeq(b.buf, m, Len(b.buf))
    BY DEF From, BufLen
  <1> QED
    BY <1>1, <1>2, <1>3, SuffixAgents, FromType

-----------------------------------------------------------------------------
(* Queues.                                                                 *)

(* An empty queue promises nothing.                                        *)
LEMMA EmptyOK ==
    /\ FramesOK(<<>>) /\ \A S : Vouched(<<>>, S) /\ Answers(<<>>, S)
    /\ \A off : Agents(<<>>, off)
  BY DEF FramesOK, Vouched, Answers, Agents

(* The first frame was taken.                                              *)
LEMMA TailUp ==
    ASSUME NEW q \in Seq(Frame), q # <<>>
    PROVE  /\ FramesOK(q) => FramesOK(Tail(q)) /\ Agents(Head(q).data, Head(q).off)
           /\ \A S : Vouched(q, S) => /\ Vouched(Tail(q), S)
                                      /\ Head(q).type \in {"ACK", "ATTACH_OK"}
                                           => Has(S, Head(q).off)
  <1> DEFINE r == Tail(q)
  <1>1. Head(q) = q[1] /\ 1 \in 1 .. Len(q)
    OBVIOUS
  <1>2. \A k \in 1 .. Len(r) : k + 1 \in 1 .. Len(q) /\ r[k] = q[k + 1]
    OBVIOUS
  <1> HIDE DEF r
  <1>3. FramesOK(q) => FramesOK(r) /\ Agents(q[1].data, q[1].off)
    BY <1>1, <1>2 DEF FramesOK
  <1>4. ASSUME NEW S, Vouched(q, S)
        PROVE  Vouched(r, S) /\ (q[1].type \in {"ACK", "ATTACH_OK"} => Has(S, q[1].off))
    BY <1>1, <1>2, <1>4 DEF Vouched
  <1> QED
    BY <1>1, <1>3, <1>4 DEF r

(* A prefix arrived.                                                       *)
LEMMA PrefixUp ==
    ASSUME NEW q \in Seq(Frame), NEW n \in 0 .. Len(q)
    PROVE  /\ FramesOK(q) => FramesOK(SubSeq(q, 1, n))
           /\ \A S : Vouched(q, S) => Vouched(SubSeq(q, 1, n), S)
  <1> DEFINE r == SubSeq(q, 1, n)
  <1>1. \A k \in 1 .. Len(r) : k \in 1 .. Len(q) /\ r[k] = q[k]
    OBVIOUS
  <1> HIDE DEF r
  <1>2. (FramesOK(q) => FramesOK(r)) /\ \A S : Vouched(q, S) => Vouched(r, S)
    BY <1>1 DEF FramesOK, Vouched
  <1> QED
    BY <1>2 DEF r

(* A frame, or what is left of it on the wire, joins a queue.              *)
LEMMA AppendUp ==
    ASSUME NEW q \in Seq(Frame), NEW f \in Frame
    PROVE  /\ FramesOK(q) /\ Agents(f.data, f.off) => FramesOK(Append(q, OnWire(f)))
           /\ \A S : /\ Vouched(q, S)
                     /\ f.type \in {"ACK", "ATTACH_OK"} => Has(S, f.off)
                     => Vouched(Append(q, OnWire(f)), S)
  <1> DEFINE g == OnWire(f)
             r == Append(q, g)
  <1>1. Ctl("GARBLED", 0).type = "GARBLED" /\ Ctl("GARBLED", 0).data = <<>>
    BY DEF Ctl
  <1>2. (g = f \/ (g.type = "GARBLED" /\ g.data = <<>>)) /\ g \in Frame
    BY <1>1, OnWireFrame DEF OnWire
  <1> HIDE DEF g
  <1>3. \A k \in 1 .. Len(r) : (k \in 1 .. Len(q) /\ r[k] = q[k]) \/ r[k] = g
    BY <1>2
  <1> HIDE DEF r
  <1>4. FramesOK(q) /\ Agents(f.data, f.off) => FramesOK(r)
    BY <1>2, <1>3, EmptyOK DEF FramesOK
  <1>5. ASSUME NEW S, Vouched(q, S), f.type \in {"ACK", "ATTACH_OK"} => Has(S, f.off)
        PROVE  Vouched(r, S)
    BY <1>2, <1>3, <1>5 DEF Vouched
  <1> QED
    BY <1>4, <1>5 DEF r, g

(* Client.send sends the agent's bytes.                                    *)
LEMMA SendUp ==
    ASSUME IInv, UInv, NEW f \in Frame, Agents(f.data, f.off), Send(f)
    PROVE  \A t \in Tunnels : FramesOK(upq'[t])
  <1> SUFFICES ASSUME NEW t \in Tunnels
               PROVE  FramesOK(upq'[t])
    OBVIOUS
  <1>1. upq[t] \in Seq(Frame) /\ FramesOK(upq[t]) /\ upq \in [Tunnels -> Seq(Frame)]
        /\ conn \in 0 .. MaxTunnels
    BY SidecarFacts DEF UInv
  <1>2. FramesOK(Append(upq[t], OnWire(f)))
    BY <1>1, AppendUp
  <1> QED
    BY <1>1, <1>2, WriteFrameAt DEF Send

(* What a destination has it keeps.                                        *)
LEMMA MoreTaken ==
    ASSUME NEW S \in [Dials -> ServerConnType], NEW T \in [Dials -> ServerConnType],
           \A i \in Dials : Len(S[i].got) <= Len(T[i].got)
    PROVE  /\ \A n \in Nat : Has(S, n) => Has(T, n)
           /\ \A q \in Seq(Frame) : Vouched(q, S) => Vouched(q, T)
           /\ \A h \in Seq(Handler) : Answers(h, S) => Answers(h, T)
  <1>1. \A i \in Dials : Len(S[i].got) \in Nat /\ Len(T[i].got) \in Nat
    BY DEF ServerConnType
  <1>2. \A n \in Nat : Has(S, n) => Has(T, n)
    <2> SUFFICES ASSUME NEW n \in Nat, NEW i \in Dials, n <= Len(S[i].got)
                 PROVE  n <= Len(T[i].got)
      BY DEF Has
    <2> QED
      BY <1>1
  <1>3. ASSUME NEW q \in Seq(Frame), NEW k \in 1 .. Len(q)
        PROVE  q[k].off \in Nat
    <2>1. q[k] \in Frame
      OBVIOUS
    <2> QED
      BY <2>1 DEF Frame
  <1>4. ASSUME NEW h \in Seq(Handler), NEW k \in 1 .. Len(h)
        PROVE  h[k].written \in Nat
    <2>1. h[k] \in Handler
      OBVIOUS
    <2> QED
      BY <2>1 DEF Handler
  <1> QED
    BY <1>2, <1>3, <1>4 DEF Vouched, Answers

-----------------------------------------------------------------------------
(* The broker's building blocks: they leave what was taken from the        *)
(* sidecar alone, and vouch for no more than the destination S has.        *)
SameSession(s, r) ==
    /\ r.preConn = s.preConn /\ r.upstreamWritten = s.upstreamWritten
    /\ (r.dial = "none" <=> s.dial = "none") /\ (Unflushed(r) => Unflushed(s))

Keeps(B, C, S) ==
    /\ \A i \in Dials : SameSession(B.s[i], C.s[i])
    /\ \A t \in Tunnels : Vouched(B.q[t], S) => Vouched(C.q[t], S)

(* A block that does nothing.                                              *)
LEMMA KeepsRefl ==
    ASSUME NEW B, NEW S
    PROVE  Keeps(B, B, S)
  BY DEF Keeps, SameSession

(* Building blocks compose.                                                *)
LEMMA KeepsTrans ==
    ASSUME NEW B, NEW C, NEW D, NEW S, Keeps(B, C, S), Keeps(C, D, S)
    PROVE  Keeps(B, D, S)
  BY DEF Keeps, SameSession

(* A block that changes other fields of one session.                       *)
LEMMA KeepsSession ==
    ASSUME NEW B \in BrokerType, NEW S, NEW i \in Dials, NEW s, SameSession(B.s[i], s)
    PROVE  Keeps(B, [B EXCEPT !.s[i] = s], S)
  <1> DEFINE C == [B EXCEPT !.s[i] = s]
  <1>1. C.q = B.q /\ C.s = [B.s EXCEPT ![i] = s] /\ B.s \in [Dials -> SessionType]
    BY DEF BrokerType
  <1> HIDE DEF C
  <1>2. Keeps(B, C, S)
    BY <1>1 DEF Keeps, SameSession
  <1> QED
    BY <1>2 DEF C

(* Broker.wake.                                                            *)
LEMMA KeepsWake ==
    ASSUME NEW B \in BrokerType, NEW S
    PROVE  Keeps(B, Wake(B), S)
  <1>1. Wake(B).s = B.s /\ Wake(B).q = B.q
    BY DEF Wake, BrokerType
  <1> QED
    BY <1>1 DEF Keeps, SameSession

(* bind, and the first half of detach.                                     *)
LEMMA KeepsRebind ==
    ASSUME NEW B \in BrokerType, NEW S, NEW i \in Dials, NEW t \in 0 .. MaxTunnels
    PROVE  Keeps(B, [B EXCEPT !.s[i].tconn = t], S)
  <1> DEFINE s == [B.s[i] EXCEPT !.tconn = t]
  <1>1. B.s[i] \in SessionType
    BY DEF BrokerType
  <1>2. SameSession(B.s[i], s)
    BY <1>1 DEF SessionType, SameSession, Unflushed
  <1>3. Keeps(B, [B EXCEPT !.s[i] = s], S)
    BY <1>2, KeepsSession
  <1> QED
    BY <1>3

(* The flags of a session.                                                 *)
LEMMA KeepsFlags ==
    ASSUME NEW B \in BrokerType, NEW S, NEW i \in Dials, NEW v \in BOOLEAN
    PROVE  /\ Keeps(B, [B EXCEPT !.s[i].downClosed = v], S)
           /\ Keeps(B, [B EXCEPT !.s[i].upClosed = v], S)
           /\ Keeps(B, [B EXCEPT !.s[i].watchdog = v], S)
  <1> DEFINE s1 == [B.s[i] EXCEPT !.downClosed = v]
             s2 == [B.s[i] EXCEPT !.upClosed = v]
             s3 == [B.s[i] EXCEPT !.watchdog = v]
  <1>1. B.s[i] \in SessionType
    BY DEF BrokerType
  <1>2. \A s \in {s1, s2, s3} : SameSession(B.s[i], s)
    BY <1>1 DEF SessionType, SameSession, Unflushed
  <1>3. \A s \in {s1, s2, s3} : Keeps(B, [B EXCEPT !.s[i] = s], S)
    BY <1>2, KeepsSession
  <1>4. /\ [B EXCEPT !.s[i].downClosed = v] = [B EXCEPT !.s[i] = s1]
        /\ [B EXCEPT !.s[i].upClosed = v] = [B EXCEPT !.s[i] = s2]
        /\ [B EXCEPT !.s[i].watchdog = v] = [B EXCEPT !.s[i] = s3]
    OBVIOUS
  <1> QED
    BY <1>3, <1>4

(* session.detach.                                                         *)
LEMMA KeepsDetach ==
    ASSUME NEW B, NEW d \in Nat, BrokerOK(B, d), NEW S, NEW i \in Dials,
           NEW t \in 0 .. MaxTunnels
    PROVE  Keeps(B, Detach(B, i, t), S)
  <1> DEFINE C == [B EXCEPT !.s[i].tconn = 0]
  <1>1. B \in BrokerType /\ 0 \in 0 .. MaxTunnels
    BY BoundsAssumption DEF BrokerOK
  <1>2. Keeps(B, C, S)
    BY <1>1, KeepsRebind
  <1>3. C \in BrokerType
    BY <1>1, RebindOK DEF BrokerOK
  <1>4. Detach(B, i, t) \in {B, C, Wake(C)}
    BY DEF Detach
  <1> HIDE DEF C
  <1>5. Keeps(B, Wake(C), S)
    BY <1>2, <1>3, KeepsWake, KeepsTrans
  <1> QED
    BY <1>2, <1>4, <1>5, KeepsRefl

(* A frame is written to a tunnel: an acknowledgement is of what the       *)
(* destination has.                                                        *)
LEMMA KeepsWrite ==
    ASSUME NEW B \in BrokerType, NEW S, NEW t \in 0 .. MaxTunnels, NEW f \in Frame,
           f.type \in {"ACK", "ATTACH_OK"} => Has(S, f.off)
    PROVE  Keeps(B, [B EXCEPT !.q = WriteFrame(@, t, f)], S)
  <1> DEFINE C == [B EXCEPT !.q = WriteFrame(@, t, f)]
  <1>1. C.s = B.s /\ C.q = WriteFrame(B.q, t, f) /\ B.q \in [Tunnels -> Seq(Frame)]
    BY DEF BrokerType
  <1> HIDE DEF C
  <1>2. ASSUME NEW u \in Tunnels, Vouched(B.q[u], S)
        PROVE  Vouched(C.q[u], S)
    <2>1. Vouched(Append(B.q[u], OnWire(f)), S)
      BY <1>1, <1>2, AppendUp
    <2> QED
      BY <1>1, <1>2, <2>1, WriteFrameAt
  <1>3. Keeps(B, C, S)
    BY <1>1, <1>2 DEF Keeps, SameSession
  <1> QED
    BY <1>3 DEF C

(* session.sendToSidecar.                                                  *)
LEMMA KeepsSend ==
    ASSUME NEW B, NEW d \in Nat, BrokerOK(B, d), NEW S, NEW i \in Dials,
           NEW f \in Frame, Positioned(f.data, f.off), NEW ok \in BOOLEAN,
           f.type \in {"ACK", "ATTACH_OK"} => Has(S, f.off)
    PROVE  /\ Keeps(B, SendToSidecar(B, i, f, ok), S)
           /\ BrokerOK(SendToSidecar(B, i, f, ok), d)
  <1> DEFINE t == B.s[i].tconn
             C == [B EXCEPT !.q = WriteFrame(@, t, f)]
  <1>1. t \in 0 .. MaxTunnels /\ B.q \in [Tunnels -> Seq(Frame)] /\ B \in BrokerType
        /\ \A u \in Tunnels : QueueOK(B.q[u])
    BY DEF BrokerOK, BrokerType, SessionType
  <1>2. BrokerOK(C, d)
    BY <1>1, WriteFrameType, WriteFrameQueues DEF BrokerOK, BrokerType
  <1>3. SendToSidecar(B, i, f, ok) \in {B, C, Detach(C, i, t)}
    BY DEF SendToSidecar
  <1>4. Keeps(B, C, S)
    BY <1>1, KeepsWrite
  <1> HIDE DEF C, t
  <1>5. Keeps(B, Detach(C, i, t), S)
    BY <1>1, <1>2, <1>4, KeepsDetach, KeepsTrans
  <1> QED
    BY <1>3, <1>4, <1>5, KeepsRefl, SendToSidecarOK

(* A control frame.                                                        *)
LEMMA KeepsSendCtl ==
    ASSUME NEW B, NEW d \in Nat, BrokerOK(B, d), NEW S, NEW i \in Dials,
           NEW type \in FrameType, NEW off \in Nat, NEW ok \in BOOLEAN,
           type \in {"ACK", "ATTACH_OK"} => Has(S, off)
    PROVE  /\ Keeps(B, SendToSidecar(B, i, Ctl(type, off), ok), S)
           /\ BrokerOK(SendToSidecar(B, i, Ctl(type, off), ok), d)
  <1> DEFINE f == Ctl(type, off)
  <1>1. f \in Frame /\ Positioned(f.data, f.off) /\ f.type = type /\ f.off = off
    BY CtlFrame
  <1> HIDE DEF f
  <1>2. Keeps(B, SendToSidecar(B, i, f, ok), S) /\ BrokerOK(SendToSidecar(B, i, f, ok), d)
    BY <1>1, KeepsSend
  <1> QED
    BY <1>2 DEF f

(* session.destroy and maybeDestroy.                                       *)
LEMMA KeepsDestroy ==
    ASSUME NEW B, NEW d \in Nat, BrokerOK(B, d), NEW S, NEW i \in Dials
    PROVE  Keeps(B, Destroy(B, i), S) /\ Keeps(B, MaybeDestroy(B, i), S)
  <1> DEFINE C == [B EXCEPT !.s[i].watchdog = FALSE]
             D == Destroy(B, i)
  <1>1. B \in BrokerType
    BY DEF BrokerOK
  <1>2. Keeps(B, C, S) /\ C.s = [B.s EXCEPT ![i].watchdog = FALSE]
    BY <1>1, KeepsFlags DEF BrokerType
  <1>3. D.s = C.s /\ D.q = B.q
    BY <1>1 DEF Destroy, BrokerType
  <1>4. MaybeDestroy(B, i) \in {B, D}
    BY DEF MaybeDestroy
  <1> HIDE DEF C, D
  <1>5. Keeps(B, D, S)
    BY <1>2, <1>3 DEF Keeps
  <1> QED
    BY <1>4, <1>5, KeepsRefl DEF D

(* session.closeUpstream.                                                  *)
LEMMA KeepsCloseUpstream ==
    ASSUME NEW B, NEW d \in Nat, BrokerOK(B, d), NEW S, NEW i \in Dials, NEW ok \in BOOLEAN
    PROVE  Keeps(B, CloseUpstream(B, i, ok), S)
  <1> DEFINE C == [B EXCEPT !.s[i].downClosed = TRUE]
             D == SendToSidecar(C, i, Ctl("CLOSE", 0), ok)
  <1>1. BrokerOK(C, d) /\ Keeps(B, C, S)
    <2>1. B \in BrokerType
      BY DEF BrokerOK
    <2> QED
      BY <2>1, CloseFlagsOK, KeepsFlags
  <1>2. CloseUpstream(B, i, ok) \in {B, MaybeDestroy(C, i), MaybeDestroy(D, i),
                                     MaybeDestroy(Wake(C), i)}
    BY DEF CloseUpstream
  <1> HIDE DEF C
  <1>3. BrokerOK(D, d) /\ Keeps(B, D, S)
    <2>1. "CLOSE" \in FrameType
      BY DEF FrameType
    <2>2. BrokerOK(D, d) /\ Keeps(C, D, S)
      BY <1>1, <2>1, KeepsSendCtl
    <2> QED
      BY <1>1, <2>2, KeepsTrans
  <1>4. BrokerOK(Wake(C), d) /\ Keeps(B, Wake(C), S)
    BY <1>1, WakeOK, KeepsWake, KeepsTrans DEF BrokerOK
  <1> HIDE DEF D
  <1>5. \A E \in {C, D, Wake(C)} : Keeps(B, MaybeDestroy(E, i), S)
    BY <1>1, <1>3, <1>4, KeepsDestroy, KeepsTrans
  <1> QED
    BY <1>2, <1>5, KeepsRefl

(* tunnelConn.detachAll.                                                   *)
LEMMA KeepsDetachAll ==
    ASSUME NEW B, NEW d \in Nat, BrokerOK(B, d), NEW S, NEW t \in Tunnels
    PROVE  Keeps(B, DetachAll(B, t), S)
  <1> DEFINE C == DetachAll(B, t)
  <1>1. \A i \in Dials : Keeps(B, Detach(B, i, t), S)
    BY KeepsDetach DEF Tunnels
  <1>2. C.q = B.q /\ C.s = [i \in Dials |-> Detach(B, i, t).s[i]]
    BY DEF DetachAll, BrokerOK, BrokerType
  <1> HIDE DEF C
  <1>3. Keeps(B, C, S)
    BY <1>1, <1>2 DEF Keeps
  <1> QED
    BY <1>3 DEF C

-----------------------------------------------------------------------------
(* Steps of the broker.                                                    *)

(* What UInv says of the broker.                                           *)
LEMMA UpFacts ==
    ASSUME IInv, UInv
    PROVE  /\ \A i \in Dials : /\ bs[i] \in SessionType /\ srv[i] \in ServerConnType
                               /\ srv[i].got \in Seq(Byte) /\ Len(srv[i].got) \in Nat
                               /\ bs[i].upstreamWritten \in Nat
                               /\ TakenOK(bs[i], srv[i]) /\ Counted(i)
                               /\ bs[i].upstreamWritten <= Len(srv[i].got)
                               /\ Has(srv, bs[i].upstreamWritten)
           /\ \A t \in Tunnels : /\ Vouched(downq[t], srv) /\ Answers(pend[t], srv)
                                 /\ FramesOK(upq[t])
           /\ Broker \in BrokerType /\ Broker.s = bs /\ Broker.q = downq
           /\ 0 \notin Dials /\ 0 \notin Tunnels
  <1>1. Broker.s = bs /\ Broker.q = downq /\ 0 \notin Dials /\ 0 \notin Tunnels
    BY DEF Broker, Dials, Tunnels
  <1>2. Broker \in BrokerType
    BY DEF IInv, BrokerOK
  <1>3. \A t \in Tunnels : Vouched(downq[t], srv) /\ Answers(pend[t], srv) /\ FramesOK(upq[t])
    BY DEF UInv
  <1>4. ASSUME NEW i \in Dials
        PROVE  /\ bs[i] \in SessionType /\ srv[i] \in ServerConnType
               /\ srv[i].got \in Seq(Byte) /\ Len(srv[i].got) \in Nat
               /\ bs[i].upstreamWritten \in Nat
               /\ TakenOK(bs[i], srv[i]) /\ Counted(i)
               /\ bs[i].upstreamWritten <= Len(srv[i].got)
               /\ Has(srv, bs[i].upstreamWritten)
    <2>1. bs[i] \in SessionType /\ srv[i] \in ServerConnType
      BY BrokerFacts
    <2>2. srv[i].got \in Seq(Byte) /\ Len(srv[i].got) \in Nat /\ bs[i].upstreamWritten \in Nat
      BY <2>1 DEF SessionType, ServerConnType
    <2>3. TakenOK(bs[i], srv[i]) /\ Counted(i)
      BY DEF UInv
    <2>4. bs[i].upstreamWritten <= Len(srv[i].got)
      <3>1. CASE \A t \in Tunnels : ~Writes(pend[t], i)
        BY <2>2, <2>3, <3>1 DEF Counted
      <3>2. ASSUME NEW t \in Tunnels, Writes(pend[t], i)
            PROVE  bs[i].upstreamWritten <= Len(srv[i].got)
        <4>1. pend[t] \in Seq(Handler) /\ pend[t] # <<>>
          BY <3>2, BrokerFacts DEF Writes
        <4>2. pend[t][1] \in Handler
          BY <4>1
        <4>3. Len(pend[t][1].data) \in Nat
          BY <4>2 DEF Handler
        <4>4. Len(srv[i].got) = bs[i].upstreamWritten + Len(pend[t][1].data)
          BY <2>3, <3>2 DEF Counted
        <4> QED
          BY <2>2, <4>3, <4>4
      <3> QED
        BY <3>1, <3>2
    <2>5. Has(srv, bs[i].upstreamWritten)
      BY <2>4 DEF Has
    <2> QED
      BY <2>1, <2>2, <2>3, <2>4, <2>5
  <1> QED
    BY <1>1, <1>2, <1>3, <1>4

(* What a step of the broker has to show.                                  *)
LEMMA BrokerRule ==
    ASSUME IInv, IInv', UInv, LoopsOK', UNCHANGED sidecarVars,
           \A t \in Tunnels : FramesOK(upq'[t]),
           \A i \in Dials : Len(srv[i].got) <= Len(srv'[i].got),
           \A i \in Dials : TakenOK(bs'[i], srv'[i]),
           \A i \in Dials : Counted(i)',
           \A t \in Tunnels : Vouched(downq'[t], srv'),
           \A t \in Tunnels : pend'[t] = pend[t] \/ Answers(pend'[t], srv'),
           Numbered(bs')
    PROVE  UInv'
  <1>1. cs' = cs /\ wout' = wout /\ rout' = rout
    BY DEF sidecarVars
  <1>2. srv \in [Dials -> ServerConnType] /\ srv' \in [Dials -> ServerConnType]
        /\ pend \in [Tunnels -> Seq(Handler)]
    BY DEF IInv, TypeOK
  <1>3. cs.upBuf.base \in Nat
    BY SidecarFacts DEF ReplayBufferType
  <1>4. Has(srv', cs.upBuf.base)
    BY <1>2, <1>3, MoreTaken DEF UInv
  <1>5. \A t \in Tunnels : Answers(pend'[t], srv')
    BY <1>2, MoreTaken DEF UInv
  <1> QED
    BY <1>1, <1>4, <1>5 DEF UInv

(* A handler that is not a write in progress.                              *)
Passive(h) == \A i \in Dials : ~Writes(h, i)

(* A step that leaves what was taken alone.                                *)
LEMMA KeepsStep ==
    ASSUME IInv, IInv', UInv, LoopsOK', UNCHANGED sidecarVars,
           \A t \in Tunnels : FramesOK(upq'[t]),
           \A i \in Dials : srv'[i].got = srv[i].got,
           \A i \in Dials : SameSession(bs[i], bs'[i]),
           \A t \in Tunnels : Vouched(downq'[t], srv),
           \A t \in Tunnels : \/ pend'[t] = pend[t]
                              \/ Passive(pend[t]) /\ Passive(pend'[t]) /\ Answers(pend'[t], srv)
    PROVE  UInv'
  <1>1. srv \in [Dials -> ServerConnType] /\ srv' \in [Dials -> ServerConnType]
        /\ pend' \in [Tunnels -> Seq(Handler)] /\ downq' \in [Tunnels -> Seq(Frame)]
    BY DEF IInv, TypeOK
  <1>2. \A i \in Dials : Len(srv[i].got) <= Len(srv'[i].got)
    BY UpFacts
  <1>3. \A i \in Dials : TakenOK(bs'[i], srv'[i])
    <2> TAKE i \in Dials
    <2>1. TakenOK(bs[i], srv[i]) /\ SameSession(bs[i], bs'[i]) /\ srv'[i].got = srv[i].got
      BY UpFacts
    <2> QED
      BY <2>1 DEF TakenOK, SameSession
  <1>4. ASSUME NEW i \in Dials
        PROVE  Counted(i)'
    <2>1. Counted(i) /\ srv'[i].got = srv[i].got /\ SameSession(bs[i], bs'[i])
      BY UpFacts
    <2>2. \A t \in Tunnels : Writes(pend'[t], i) <=> Writes(pend[t], i)
      BY DEF Passive
    <2>3. \A t \in Tunnels : Writes(pend'[t], i) => pend'[t] = pend[t]
      BY DEF Passive
    <2> QED
      BY <2>1, <2>2, <2>3 DEF Counted, SameSession
  <1>5. \A t \in Tunnels : Vouched(downq'[t], srv')
    BY <1>1, <1>2, MoreTaken
  <1>6. \A t \in Tunnels : pend'[t] = pend[t] \/ Answers(pend'[t], srv')
    BY <1>1, <1>2, MoreTaken
  <1>7. Numbered(bs')
    BY DEF UInv, Numbered, FirstOnes, SameSession
  <1> QED
    BY <1>2, <1>3, <1>4, <1>5, <1>6, <1>7, BrokerRule

(* A step made of building blocks.                                         *)
LEMMA CommitUp ==
    ASSUME IInv, UInv, NEW B, Keeps(Broker, B, srv), Commit(B)
    PROVE  /\ \A i \in Dials : SameSession(bs[i], bs'[i])
           /\ \A t \in Tunnels : Vouched(downq'[t], srv)
  BY UpFacts DEF Keeps, Commit

(* serveTunnel took a frame off tunnel t.                                  *)
LEMMA ServeUp ==
    ASSUME IInv, UInv, NEW t \in Tunnels, NEW type, Serve(t, type)
    PROVE  /\ \A u \in Tunnels : FramesOK(upq'[u])
           /\ Head(upq[t]).off \in Nat /\ Head(upq[t]).data \in Seq(Byte)
           /\ Agents(Head(upq[t]).data, Head(upq[t]).off)
           /\ pend[t] = <<>>
  <1>1. upq \in [Tunnels -> Seq(Frame)] /\ upq[t] # <<>> /\ pend[t] = <<>>
        /\ upq' = [upq EXCEPT ![t] = Tail(upq[t])]
    BY SidecarFacts DEF Serve
  <1>2. FramesOK(Tail(upq[t])) /\ Agents(Head(upq[t]).data, Head(upq[t]).off)
    BY <1>1, UpFacts, TailUp
  <1>3. Head(upq[t]) \in Frame
    BY ServeOK
  <1>4. Head(upq[t]).off \in Nat /\ Head(upq[t]).data \in Seq(Byte)
    BY <1>3 DEF Frame
  <1> QED
    BY <1>1, <1>2, <1>4, UpFacts

(* An attach that answers what the destination has.                        *)
LEMMA AttachUp ==
    ASSUME NEW s, NEW i, NEW off, NEW S, Has(S, s.upstreamWritten)
    PROVE  Passive(<<AttachHandler(s, i, off)>>) /\ Answers(<<AttachHandler(s, i, off)>>, S)
           /\ Passive(<<>>)
  <1> DEFINE h == AttachHandler(s, i, off)
  <1>1. h.op = "onAttach" /\ h.written = s.upstreamWritten
    BY DEF AttachHandler
  <1> HIDE DEF h
  <1>2. Passive(<<h>>) /\ Answers(<<h>>, S) /\ Passive(<<>>)
    BY <1>1 DEF Passive, Writes, Answers
  <1> QED
    BY <1>2 DEF h

(* NextDial names a session that was never created.                        *)
LEMMA NextDialFresh ==
    ASSUME IInv, UInv, NextDial \in Dials
    PROVE  bs[NextDial].dial = "none" /\ FirstOnes(bs, NextDial - 1)
  <1>1. PICK n \in 0 .. MaxDials : FirstOnes(bs, n)
    BY DEF UInv, Numbered
  <1>2. Created = 1 .. n
    BY <1>1, BoundsAssumption DEF Created, FirstOnes, Dials
  <1>3. Cardinality(1 .. n) = n
    BY <1>1, FS_Interval, BoundsAssumption
  <1>4. NextDial = n + 1
    BY <1>2, <1>3 DEF NextDial
  <1>5. NextDial - 1 = n /\ ~(NextDial <= n)
    BY <1>4, BoundsAssumption
  <1> QED
    BY <1>1, <1>5 DEF FirstOnes

(* newSession: it starts with nothing, and its destination has nothing.    *)
LEMMA CreateUp ==
    ASSUME IInv, IInv', UInv, LoopsOK', UNCHANGED <<sidecarVars, srv>>, NextDial \in Dials,
           NEW t \in Tunnels, Commit(Create(Broker, t)),
           \A u \in Tunnels : FramesOK(upq'[u]),
           \A u \in Tunnels : \/ pend'[u] = pend[u]
                              \/ Passive(pend[u]) /\ Passive(pend'[u]) /\ Answers(pend'[u], srv)
    PROVE  UInv'
  <1> DEFINE c == NextDial
             s == NewSession(t)
  <1>1. bs[c].dial = "none" /\ FirstOnes(bs, c - 1) /\ c \in 1 .. MaxDials
    BY NextDialFresh DEF Dials
  <1>2. bs' = [bs EXCEPT ![c] = s] /\ downq' = downq /\ bs \in [Dials -> SessionType]
    BY BrokerFacts DEF Commit, Create, Broker
  <1>3. s.dial = "dialing" /\ s.preConn = <<>> /\ s.upstreamWritten = 0
    BY UpFacts DEF NewSession
  <1> HIDE DEF c, s
  <1>4. \A i \in Dials : i # c => bs'[i] = bs[i]
    BY <1>2
  <1>5. c \in Dials /\ bs'[c] = s
    BY <1>1, <1>2 DEF Dials
  <1>6. srv[c].got = <<>> /\ Unflushed(bs[c])
    BY <1>1, <1>5, UpFacts DEF TakenOK, Unflushed
  <1>7. \A i \in Dials : TakenOK(bs'[i], srv'[i])
    <2>1. TakenOK(s, srv[c])
      BY <1>3, <1>6, EmptyOK DEF TakenOK
    <2> QED
      BY <1>4, <1>5, <2>1, UpFacts
  <1>8. ASSUME NEW i \in Dials
        PROVE  Counted(i)'
    <2>1. Counted(i)
      BY UpFacts
    <2>2. \A u \in Tunnels : Writes(pend'[u], i) <=> Writes(pend[u], i)
      BY DEF Passive
    <2>3. \A u \in Tunnels : Writes(pend'[u], i) => pend'[u] = pend[u]
      BY DEF Passive
    <2>4. CASE i = c
      <3>1. \A u \in Tunnels : ~Writes(pend[u], i)
        BY <1>6, <2>1, <2>4 DEF Counted
      <3>2. Len(srv'[i].got) = bs'[i].upstreamWritten
        BY <1>3, <1>5, <1>6, <2>4
      <3> QED
        BY <2>2, <3>1, <3>2 DEF Counted
    <2>5. CASE i # c
      <3>1. bs'[i] = bs[i] /\ srv'[i] = srv[i]
        BY <1>4, <2>5
      <3> QED
        BY <2>1, <2>2, <2>3, <3>1 DEF Counted
    <2> QED
      BY <2>4, <2>5
  <1>9. Numbered(bs')
    <2>1. FirstOnes(bs', c)
      <3> SUFFICES ASSUME NEW i \in Dials
                   PROVE  bs'[i].dial # "none" <=> i <= c
        BY DEF FirstOnes
      <3>1. CASE i = c
        BY <1>1, <1>3, <1>5, <3>1
      <3>2. CASE i # c
        <4>1. bs[i].dial # "none" <=> i <= c - 1
          BY <1>1 DEF FirstOnes
        <4>2. i <= c - 1 <=> i <= c
          BY <1>1, <3>2 DEF Dials
        <4> QED
          BY <1>4, <3>2, <4>1, <4>2
      <3> QED
        BY <3>1, <3>2
    <2> QED
      BY <1>1, <2>1 DEF Numbered
  <1>10. \A i \in Dials : Len(srv[i].got) <= Len(srv'[i].got)
    BY UpFacts
  <1>11. \A u \in Tunnels : Vouched(downq'[u], srv')
    BY <1>2, UpFacts
  <1>12. \A u \in Tunnels : pend'[u] = pend[u] \/ Answers(pend'[u], srv')
    OBVIOUS
  <1> QED
    BY <1>7, <1>8, <1>9, <1>10, <1>11, <1>12, BrokerRule

(* The session in the map is bound and attached.                           *)
LEMMA BindUp ==
    ASSUME IInv, IInv', UInv, LoopsOK', UNCHANGED <<sidecarVars, srv>>, cur # 0,
           NEW t \in Tunnels, pend[t] = <<>>, Commit(Bind(Broker, cur, t)), NEW off,
           pend' = [pend EXCEPT ![t] = <<AttachHandler(bs[cur], cur, off)>>],
           \A u \in Tunnels : FramesOK(upq'[u])
    PROVE  UInv'
  <1>1. cur \in Dials /\ pend \in [Tunnels -> Seq(Handler)] /\ t \in 0 .. MaxTunnels
    BY BrokerFacts DEF Tunnels
  <1>2. Keeps(Broker, Bind(Broker, cur, t), srv)
    BY <1>1, UpFacts, KeepsRebind DEF Bind
  <1>3. /\ \A i \in Dials : SameSession(bs[i], bs'[i])
        /\ \A u \in Tunnels : Vouched(downq'[u], srv)
    BY <1>2, CommitUp
  <1> DEFINE h == <<AttachHandler(bs[cur], cur, off)>>
  <1>4. Passive(h) /\ Answers(h, srv) /\ Passive(<<>>)
    BY <1>1, UpFacts, AttachUp
  <1> HIDE DEF h
  <1>5. pend' = [pend EXCEPT ![t] = h]
    BY DEF h
  <1>6. \A u \in Tunnels : \/ pend'[u] = pend[u]
                           \/ Passive(pend[u]) /\ Passive(pend'[u]) /\ Answers(pend'[u], srv)
    BY <1>1, <1>4, <1>5
  <1> QED
    BY <1>3, <1>6, KeepsStep

(* openSession.                                                            *)
LEMMA HandleOpenUp ==
    ASSUME IInv, IInv', UInv, LoopsOK', NEW t \in Tunnels, HandleOpen(t)
    PROVE  UInv'
  <1>1. Serve(t, "OPEN") /\ UNCHANGED <<sidecarVars, srv>>
    BY DEF HandleOpen
  <1>2. pend[t] = <<>> /\ \A u \in Tunnels : FramesOK(upq'[u])
    BY <1>1, ServeUp
  <1>3. CASE cur # 0
    BY <1>1, <1>2, <1>3, BindUp DEF HandleOpen
  <1>4. CASE cur = 0
    BY <1>1, <1>2, <1>4, CreateUp DEF HandleOpen
  <1> QED
    BY <1>3, <1>4

(* attachSession.                                                          *)
LEMMA HandleAttachUp ==
    ASSUME IInv, IInv', UInv, LoopsOK', NEW t \in Tunnels, HandleAttach(t)
    PROVE  UInv'
  <1> DEFINE off == Head(upq[t]).off
  <1>1. Serve(t, "ATTACH") /\ UNCHANGED <<sidecarVars, srv>>
    BY DEF HandleAttach
  <1>2. pend[t] = <<>> /\ \A u \in Tunnels : FramesOK(upq'[u])
    BY <1>1, ServeUp
  <1>3. CASE cur # 0
    <2>1. Commit(Bind(Broker, cur, t))
          /\ pend' = [pend EXCEPT ![t] = <<AttachHandler(bs[cur], cur, off)>>]
      BY <1>3 DEF HandleAttach
    <2> QED
      BY <1>1, <1>2, <1>3, <2>1, BindUp
  <1>4. CASE cur = 0 /\ off = 0
    <2> DEFINE h == <<AttachHandler(NewSession(t), NextDial, 0)>>
    <2>1. NextDial \in Dials /\ Commit(Create(Broker, t)) /\ pend' = [pend EXCEPT ![t] = h]
      BY <1>4 DEF HandleAttach
    <2>2. Has(srv, NewSession(t).upstreamWritten)
      <3>1. NewSession(t).upstreamWritten = 0 /\ Len(srv[NextDial].got) \in Nat
        BY <2>1, UpFacts DEF NewSession
      <3>2. 0 <= Len(srv[NextDial].got)
        BY <3>1
      <3> QED
        BY <2>1, <3>1, <3>2 DEF Has
    <2>3. Passive(h) /\ Answers(h, srv) /\ Passive(<<>>)
      BY <2>2, AttachUp
    <2> HIDE DEF h
    <2>4. \A u \in Tunnels : \/ pend'[u] = pend[u]
                             \/ Passive(pend[u]) /\ Passive(pend'[u]) /\ Answers(pend'[u], srv)
      BY <1>2, <2>1, <2>3, BrokerFacts
    <2> QED
      BY <1>1, <1>2, <2>1, <2>4, CreateUp
  <1>5. CASE cur = 0 /\ off # 0
    <2> DEFINE f == Ctl("LOST", 0)
               B == [Broker EXCEPT !.q = WriteFrame(@, t, f)]
    <2>1. Commit(B) /\ pend' = pend
      BY <1>5 DEF HandleAttach
    <2>2. f \in Frame /\ f.type = "LOST" /\ t \in 0 .. MaxTunnels
      BY CtlFrame DEF FrameType, Tunnels
    <2> HIDE DEF f
    <2>3. Keeps(Broker, B, srv)
      BY <2>2, UpFacts, KeepsWrite
    <2> HIDE DEF B
    <2>4. /\ \A i \in Dials : SameSession(bs[i], bs'[i])
          /\ \A u \in Tunnels : Vouched(downq'[u], srv)
      BY <2>1, <2>3, CommitUp
    <2> QED
      BY <1>1, <1>2, <2>1, <2>4, KeepsStep
  <1> QED
    BY <1>3, <1>4, <1>5

(* onSidecarAttach after its Unlock.                                       *)
LEMMA FinishAttachUp ==
    ASSUME IInv, IInv', UInv, LoopsOK', NEW t \in Tunnels, NEW ok \in BOOLEAN,
           FinishAttach(t, ok)
    PROVE  UInv'
  <1> DEFINE d == cs.downDelivered
             h == pend[t][1]
             i == h.i
             g == Data(h.off, h.data)
             B1 == SendToSidecar(Broker, i, Ctl("ATTACH_OK", h.written), ok)
             B2 == IF h.data = <<>> THEN B1 ELSE SendToSidecar(B1, i, g, ok)
             B3 == IF h.close THEN SendToSidecar(B2, i, Ctl("CLOSE", 0), ok) ELSE B2
  <1>1. h \in Handler /\ HandlerOK(h) /\ h.op = "onAttach" /\ pend[t] \in Seq(Handler)
        /\ 1 \in 1 .. Len(pend[t]) /\ pend \in [Tunnels -> Seq(Handler)]
    BY BrokerFacts DEF FinishAttach
  <1>2. i \in Dials /\ h.written \in Nat /\ h.off \in Nat /\ h.data \in Seq(Byte)
        /\ Positioned(h.data, h.off)
    BY <1>1 DEF Handler, HandlerOK
  <1>3. Has(srv, h.written)
    BY <1>1, UpFacts DEF Answers
  <1>4. g \in Frame /\ Positioned(g.data, g.off) /\ g.type = "DATA"
    BY <1>2, DataFrame
  <1>5. Commit(B3) /\ UNCHANGED <<sidecarVars, upq, srv>> /\ pend' = [pend EXCEPT ![t] = <<>>]
    BY DEF FinishAttach
  <1>6. Passive(pend[t]) /\ Passive(<<>>) /\ Answers(<<>>, srv)
    BY <1>1, EmptyOK DEF Passive, Writes
  <1>7. "ATTACH_OK" \in FrameType /\ "CLOSE" \in FrameType /\ d \in Nat /\ BrokerOK(Broker, d)
    BY BrokerFacts DEF FrameType
  <1> HIDE DEF h, i, d, g
  <1>8. BrokerOK(B1, d) /\ Keeps(Broker, B1, srv)
    BY <1>2, <1>3, <1>7, KeepsSendCtl
  <1> HIDE DEF B1
  <1>9. BrokerOK(SendToSidecar(B1, i, g, ok), d) /\ Keeps(B1, SendToSidecar(B1, i, g, ok), srv)
    BY <1>2, <1>4, <1>7, <1>8, KeepsSend
  <1>10. BrokerOK(B2, d) /\ Keeps(Broker, B2, srv)
    BY <1>8, <1>9, KeepsTrans
  <1> HIDE DEF B2
  <1>11. Keeps(B2, SendToSidecar(B2, i, Ctl("CLOSE", 0), ok), srv)
    BY <1>2, <1>7, <1>10, KeepsSendCtl
  <1>12. Keeps(Broker, B3, srv)
    BY <1>10, <1>11, KeepsTrans
  <1> HIDE DEF B3
  <1>13. /\ \A j \in Dials : SameSession(bs[j], bs'[j])
         /\ \A u \in Tunnels : Vouched(downq'[u], srv)
    BY <1>5, <1>12, CommitUp
  <1>14. \A u \in Tunnels : \/ pend'[u] = pend[u]
                            \/ Passive(pend[u]) /\ Passive(pend'[u]) /\ Answers(pend'[u], srv)
    BY <1>1, <1>5, <1>6
  <1> QED
    BY <1>5, <1>13, <1>14, UpFacts, KeepsStep

(* onData before the dial completed: what is queued continues preConn.     *)
LEMMA HandleDataEarlyUp ==
    ASSUME IInv, IInv', UInv, LoopsOK', NEW t \in Tunnels, HandleDataEarly(t)
    PROVE  UInv'
  <1> DEFINE f == Head(upq[t])
             pre == bs[cur].preConn
             w == bs[cur].upstreamWritten
             q == Fresh(f.off, f.data, w + Len(pre))
             r == pre \o q
  <1>1. Serve(t, "DATA") /\ UNCHANGED <<sidecarVars, downq, cur, pend, srv>>
        /\ cur \in Dials /\ bs' = [bs EXCEPT ![cur].preConn = r]
        /\ Unflushed(bs[cur]) /\ bs \in [Dials -> SessionType]
    BY BrokerFacts DEF HandleDataEarly, Connected, Unflushed
  <1>2. f.off \in Nat /\ f.data \in Seq(Byte) /\ Agents(f.data, f.off)
        /\ \A u \in Tunnels : FramesOK(upq'[u])
    BY <1>1, ServeUp
  <1>3. pre \in Seq(Byte) /\ w \in Nat /\ Len(pre) \in Nat
    BY <1>1 DEF SessionType
  <1>4. Agents(pre, w)
    BY <1>1, UpFacts DEF TakenOK
  <1>5. q \in Seq(Byte) /\ Agents(q, w + Len(pre))
    <2> DEFINE e == w + Len(pre)
    <2> HIDE DEF f, pre, w
    <2>1. e \in Nat
      BY <1>3
    <2> HIDE DEF e
    <2>2. Fresh(f.off, f.data, e) \in Seq(Byte) /\ Agents(Fresh(f.off, f.data, e), e)
      BY <1>2, <2>1, FreshAgents
    <2> QED
      BY <2>2 DEF e
  <1>6. Agents(r, w)
    <2> HIDE DEF q, pre, w
    <2> QED
      BY <1>3, <1>4, <1>5, ConcatAgents
  <1> HIDE DEF r
  <1>7. /\ \A i \in Dials : i # cur => bs'[i] = bs[i]
        /\ bs'[cur].preConn = r /\ bs'[cur].upstreamWritten = w
        /\ bs'[cur].dial = bs[cur].dial
    BY <1>1 DEF SessionType
  <1>8. \A i \in Dials : TakenOK(bs'[i], srv'[i])
    BY <1>1, <1>6, <1>7, UpFacts DEF TakenOK
  <1>9. ASSUME NEW i \in Dials
        PROVE  Counted(i)'
    <2>1. Counted(i) /\ bs'[i].upstreamWritten = bs[i].upstreamWritten
          /\ bs'[i].dial = bs[i].dial
      BY <1>7, UpFacts
    <2> QED
      BY <1>1, <2>1 DEF Counted, Unflushed
  <1>10. Numbered(bs')
    <2>1. \A i \in Dials : bs'[i].dial = bs[i].dial
      BY <1>7
    <2> QED
      BY <2>1 DEF UInv, Numbered, FirstOnes
  <1>11. \A i \in Dials : Len(srv[i].got) <= Len(srv'[i].got)
    BY <1>1, UpFacts
  <1> QED
    BY <1>1, <1>2, <1>8, <1>9, <1>10, <1>11, UpFacts, BrokerRule

(* Nothing is being written when the next frame is served.                 *)
LEMMA NoWriter ==
    ASSUME IInv, UInv, OneWriterAtATime, NEW t \in Tunnels, NEW type, Serve(t, type)
    PROVE  \A u \in Tunnels : \A i \in Dials : ~Writes(pend[u], i)
  <1>1. Settled /\ pend[t] = <<>> /\ upq[t] # <<>>
    BY DEF Serve
  <1>2. CASE "onData" \notin Preempt
    <2>1. ~MidWay("onData")
      BY <1>1, <1>2 DEF Settled, PreemptionPoints
    <2>2. \A u \in Tunnels : ~(pend[u] # <<>> /\ pend[u][1].op = "onData")
      BY <2>1 DEF MidWay
    <2> QED
      BY <2>2 DEF Writes
  <1>3. CASE "serveTunnel" \notin Preempt
    <2>1. OneLoop
      BY <1>3 DEF UInv, LoopsOK
    <2>2. \A u \in Tunnels : pend[u] = <<>>
      BY <1>1, <2>1 DEF OneLoop, Busy
    <2> QED
      BY <2>2 DEF Writes
  <1> QED
    BY <1>2, <1>3 DEF OneWriterAtATime

(* A connected session has flushed preConn when the next frame is served.  *)
LEMMA Flushed ==
    ASSUME OneWriterAtATime, Settled, cur # 0, Connected(bs[cur])
    PROVE  ~Unflushed(bs[cur])
  <1>1. ~MidWay("dial")
    BY DEF Settled, PreemptionPoints, OneWriterAtATime
  <1>2. bs[cur].dial # "flushing"
    BY <1>1 DEF MidWay
  <1> QED
    BY <1>2 DEF Connected, Unflushed

(* onData up to the return of upstream.Write: what is written continues    *)
(* what the destination has.                                               *)
LEMMA HandleDataUp ==
    ASSUME IInv, IInv', UInv, LoopsOK', OneWriterAtATime, NEW t \in Tunnels, HandleData(t)
    PROVE  UInv'
  <1> DEFINE f == Head(upq[t])
             c == cur
             w == bs[c].upstreamWritten
             q == Fresh(f.off, f.data, w)
             got == srv[c].got
             h == [op |-> "onData", i |-> c, off |-> 0, written |-> 0,
                   data |-> q, close |-> FALSE]
  <1>1. Serve(t, "DATA") /\ UNCHANGED <<sidecarVars, downq, cur, bs>>
        /\ c \in Dials /\ cur # 0 /\ Connected(bs[c]) /\ Settled
    BY BrokerFacts DEF HandleData, Serve
  <1>2. f.off \in Nat /\ f.data \in Seq(Byte) /\ Agents(f.data, f.off) /\ pend[t] = <<>>
        /\ \A u \in Tunnels : FramesOK(upq'[u])
    BY <1>1, ServeUp
  <1>3. \A u \in Tunnels : \A i \in Dials : ~Writes(pend[u], i)
    BY <1>1, NoWriter
  <1>4. ~Unflushed(bs[c])
    BY <1>1, Flushed
  <1>5. got \in Seq(Byte) /\ w \in Nat /\ Agents(got, 0) /\ Len(got) = w
    BY <1>1, <1>3, UpFacts DEF TakenOK, Counted
  <1>6. q \in Seq(Byte) /\ Agents(q, w)
    <2> HIDE DEF f, w
    <2> QED
      BY <1>2, <1>5, FreshAgents
  <1>7. CASE q = <<>>
    <2>1. srv' = srv /\ pend' = pend
      BY <1>7 DEF HandleData
    <2>2. \A i \in Dials : SameSession(bs[i], bs'[i])
      BY <1>1 DEF SameSession
    <2> QED
      BY <1>1, <1>2, <2>1, <2>2, UpFacts, KeepsStep
  <1>8. CASE q # <<>>
    <2>1. srv' = [srv EXCEPT ![c].got = got \o q] /\ pend' = [pend EXCEPT ![t] = <<h>>]
      BY <1>8 DEF HandleData
    <2>2. srv \in [Dials -> ServerConnType] /\ pend \in [Tunnels -> Seq(Handler)]
      BY BrokerFacts
    <2>3. h.op = "onData" /\ h.i = c /\ h.data = q
      OBVIOUS
    <2> HIDE DEF f, q, h, got, w, c
    <2>4. Agents(got \o q, 0) /\ Len(got \o q) = w + Len(q) /\ Len(q) \in Nat
      BY <1>5, <1>6, ConcatAgents
    <2>5. /\ \A i \in Dials : i # c => srv'[i] = srv[i]
          /\ srv'[c].got = got \o q
      BY <1>1, <2>1, <2>2 DEF ServerConnType
    <2>6. \A i \in Dials : Len(srv[i].got) <= Len(srv'[i].got)
      <3>1. Len(srv[c].got) <= Len(srv'[c].got)
        BY <1>5, <2>4, <2>5 DEF got
      <3> QED
        BY <2>5, <3>1, UpFacts
    <2>7. \A i \in Dials : TakenOK(bs'[i], srv'[i])
      <3>1. bs[c].dial # "none"
        BY <1>4 DEF Unflushed
      <3> QED
        BY <1>1, <1>4, <2>4, <2>5, <3>1, UpFacts DEF TakenOK
    <2>8. ASSUME NEW i \in Dials
          PROVE  Counted(i)'
      <3>1. \A u \in Tunnels : Writes(pend'[u], i) <=> (u = t /\ i = c)
        BY <1>3, <2>1, <2>2, <2>3 DEF Writes
      <3>2. pend'[t][1].data = q
        BY <2>1, <2>2, <2>3
      <3>3. CASE i = c
        <4>1. ~Unflushed(bs'[i]) /\ Len(srv'[i].got) = bs'[i].upstreamWritten + Len(q)
          BY <1>1, <1>4, <2>4, <2>5, <3>3 DEF w
        <4> QED
          BY <3>1, <3>2, <3>3, <4>1 DEF Counted
      <3>4. CASE i # c
        <4>1. Counted(i) /\ srv'[i] = srv[i] /\ bs'[i] = bs[i]
          BY <1>1, <2>5, <3>4, UpFacts
        <4> QED
          BY <1>3, <3>1, <3>4, <4>1 DEF Counted
      <3> QED
        BY <3>3, <3>4
    <2>9. \A u \in Tunnels : Vouched(downq'[u], srv')
      BY <1>1, <2>6, SidecarFacts, UpFacts, MoreTaken DEF IInv, TypeOK
    <2>10. \A u \in Tunnels : pend'[u] = pend[u] \/ Answers(pend'[u], srv')
      BY <2>1, <2>2, <2>3 DEF Answers
    <2> QED
      BY <1>1, <1>2, <2>6, <2>7, <2>8, <2>9, <2>10, BrokerRule DEF UInv
  <1> QED
    BY <1>7, <1>8

(* ... and when the write fails.                                           *)
LEMMA HandleDataErrorUp ==
    ASSUME IInv, IInv', UInv, LoopsOK', NEW t \in Tunnels, NEW ok \in BOOLEAN,
           HandleDataError(t, ok)
    PROVE  UInv'
  <1> DEFINE B == CloseUpstream(Broker, cur, ok)
  <1>1. Serve(t, "DATA") /\ UNCHANGED <<sidecarVars, pend, srv>> /\ Commit(B) /\ cur \in Dials
    BY BrokerFacts DEF HandleDataError
  <1>2. Keeps(Broker, B, srv)
    BY <1>1, BrokerFacts, KeepsCloseUpstream
  <1> HIDE DEF B
  <1> QED
    BY <1>1, <1>2, ServeUp, CommitUp, KeepsStep

(* A session changes, then a control frame is sent for it: what the step   *)
(* does to the other sessions and to the frames under way.                 *)
LEMMA SessionThenCtl ==
    ASSUME IInv, IInv', UInv, NEW i \in Dials, NEW s \in SessionType,
           s.downBuf = bs[i].downBuf, NEW type \in FrameType, NEW off \in Nat,
           NEW ok \in BOOLEAN,
           \A j \in Dials : Len(srv[j].got) <= Len(srv'[j].got), Has(srv', off),
           Commit(SendToSidecar([Broker EXCEPT !.s[i] = s], i, Ctl(type, off), ok))
    PROVE  /\ \A j \in Dials : j # i => SameSession(bs[j], bs'[j])
           /\ SameSession(s, bs'[i])
           /\ \A u \in Tunnels : Vouched(downq'[u], srv')
  <1> DEFINE C == [Broker EXCEPT !.s[i] = s]
             B == SendToSidecar(C, i, Ctl(type, off), ok)
  <1>1. cs.downDelivered \in Nat /\ BrokerOK(C, cs.downDelivered)
    BY BrokerFacts, BrokerUpdateOK
  <1>2. C.s = [bs EXCEPT ![i] = s] /\ C.q = downq /\ bs \in [Dials -> SessionType]
    BY BrokerFacts DEF Broker
  <1> HIDE DEF C
  <1>3. Keeps(C, B, srv') /\ Commit(B)
    BY <1>1, KeepsSendCtl DEF C
  <1> HIDE DEF B
  <1>4. \A u \in Tunnels : Vouched(downq[u], srv')
    BY SidecarFacts, UpFacts, MoreTaken DEF IInv, TypeOK
  <1> QED
    BY <1>2, <1>3, <1>4 DEF Keeps, Commit

(* Session i has counted what the destination has, and acknowledges it.    *)
LEMMA WrittenUp ==
    ASSUME IInv, IInv', UInv, LoopsOK', UNCHANGED sidecarVars, NEW i \in Dials,
           NEW s \in SessionType, s.downBuf = bs[i].downBuf, ~Unflushed(s),
           bs[i].dial # "none", NEW w \in Nat, s.upstreamWritten = w,
           Len(srv'[i].got) = w, Agents(srv'[i].got, 0), Len(srv[i].got) <= w,
           \A j \in Dials : j # i => srv'[j].got = srv[j].got,
           \A t \in Tunnels : FramesOK(upq'[t]),
           \A t \in Tunnels : ~Writes(pend'[t], i),
           \A t \in Tunnels : \/ pend'[t] = pend[t]
                              \/ pend'[t] = <<>> /\ Writes(pend[t], i),
           NEW ok \in BOOLEAN,
           Commit(SendToSidecar([Broker EXCEPT !.s[i] = s], i, Ctl("ACK", w), ok))
    PROVE  UInv'
  <1>1. \A j \in Dials : Len(srv[j].got) <= Len(srv'[j].got)
    <2>1. \A j \in Dials : Len(srv[j].got) <= Len(srv[j].got)
      BY UpFacts
    <2> QED
      BY <2>1
  <1>2. Has(srv', w) /\ "ACK" \in FrameType
    <2>1. w <= Len(srv'[i].got)
      OBVIOUS
    <2> QED
      BY <2>1 DEF Has, FrameType
  <1>3. /\ \A j \in Dials : j # i => SameSession(bs[j], bs'[j])
        /\ SameSession(s, bs'[i])
        /\ \A u \in Tunnels : Vouched(downq'[u], srv')
    BY <1>1, <1>2, SessionThenCtl
  <1>4. ~Unflushed(bs'[i]) /\ bs'[i].upstreamWritten = w /\ bs'[i].dial # "none"
    BY <1>3 DEF SameSession, Unflushed
  <1>5. ASSUME NEW j \in Dials
        PROVE  TakenOK(bs'[j], srv'[j])
    <2>1. CASE j = i
      BY <1>4, <2>1 DEF TakenOK
    <2>2. CASE j # i
      <3>1. TakenOK(bs[j], srv[j]) /\ SameSession(bs[j], bs'[j]) /\ srv'[j].got = srv[j].got
        BY <1>3, <2>2, UpFacts
      <3> QED
        BY <3>1 DEF TakenOK, SameSession
    <2> QED
      BY <2>1, <2>2
  <1>6. ASSUME NEW j \in Dials
        PROVE  Counted(j)'
    <2>1. CASE j = i
      BY <1>4, <2>1 DEF Counted
    <2>2. CASE j # i
      <3>1. Counted(j) /\ SameSession(bs[j], bs'[j]) /\ srv'[j].got = srv[j].got
        BY <1>3, <2>2, UpFacts
      <3>2. \A t \in Tunnels : Writes(pend'[t], j) <=> Writes(pend[t], j)
        BY <2>2 DEF Writes
      <3>3. \A t \in Tunnels : Writes(pend'[t], j) => pend'[t] = pend[t]
        BY DEF Writes
      <3> QED
        BY <3>1, <3>2, <3>3 DEF Counted, SameSession
    <2> QED
      BY <2>1, <2>2
  <1>7. Numbered(bs')
    <2>1. \A j \in Dials : bs'[j].dial # "none" <=> bs[j].dial # "none"
      BY <1>3, <1>4 DEF SameSession
    <2> QED
      BY <2>1 DEF UInv, Numbered, FirstOnes
  <1>8. \A t \in Tunnels : pend'[t] = pend[t] \/ Answers(pend'[t], srv')
    BY EmptyOK
  <1> QED
    BY <1>1, <1>3, <1>5, <1>6, <1>7, <1>8, BrokerRule

(* onData after upstream.Write.                                            *)
LEMMA FinishDataUp ==
    ASSUME IInv, IInv', UInv, LoopsOK', NEW t \in Tunnels, NEW ok \in BOOLEAN,
           FinishData(t, ok)
    PROVE  UInv'
  <1> DEFINE h == pend[t][1]
             i == h.i
             w == bs[i].upstreamWritten + Len(h.data)
             s == [bs[i] EXCEPT !.upstreamWritten = w,
                                !.requestOutstanding = TRUE, !.watchdog = TRUE]
  <1>1. h \in Handler /\ pend \in [Tunnels -> Seq(Handler)]
    BY BrokerFacts DEF FinishData
  <1>2. i \in Dials /\ h.data \in Seq(Byte) /\ Writes(pend[t], i)
    BY <1>1 DEF Handler, FinishData, Writes
  <1>3. bs[i] \in SessionType /\ bs \in [Dials -> SessionType] /\ Broker.s = bs
    BY <1>2, BrokerFacts DEF Broker
  <1>4. w \in Nat
    BY <1>2, <1>3 DEF SessionType
  <1>5. Commit(SendToSidecar([Broker EXCEPT !.s[i] = s], i, Ctl("ACK", w), ok))
    <2>1. [Broker EXCEPT !.s[i].upstreamWritten = w,
                         !.s[i].requestOutstanding = TRUE, !.s[i].watchdog = TRUE]
            = [Broker EXCEPT !.s[i] = s]
      <3> HIDE DEF w, i
      <3>1. [bs EXCEPT ![i].upstreamWritten = w,
                       ![i].requestOutstanding = TRUE, ![i].watchdog = TRUE]
              = [bs EXCEPT ![i] = s]
        BY <1>2, <1>3 DEF SessionType
      <3> QED
        BY <1>3, <3>1 DEF Broker
    <2> QED
      BY <2>1 DEF FinishData
  <1>6. UNCHANGED <<sidecarVars, upq, srv>> /\ pend' = [pend EXCEPT ![t] = <<>>]
    BY DEF FinishData
  <1>7. Counted(i) /\ Agents(srv[i].got, 0) /\ Len(srv[i].got) \in Nat
        /\ \A u \in Tunnels : FramesOK(upq[u])
    BY <1>2, UpFacts DEF TakenOK
  <1>8. ~Unflushed(bs[i]) /\ Len(srv[i].got) = w
    BY <1>2, <1>7 DEF Counted
  <1> HIDE DEF w
  <1>9. s \in SessionType /\ s.downBuf = bs[i].downBuf /\ s.dial = bs[i].dial
        /\ s.upstreamWritten = w
    BY <1>3, <1>4 DEF SessionType
  <1> HIDE DEF s
  <1>10. ~Unflushed(s) /\ bs[i].dial # "none"
    BY <1>8, <1>9 DEF Unflushed
  <1> HIDE DEF i, h
  <1>11. \A u \in Tunnels : \/ pend'[u] = pend[u]
                            \/ pend'[u] = <<>> /\ Writes(pend[u], i)
    BY <1>1, <1>2, <1>6
  <1>12. \A u \in Tunnels : ~Writes(pend'[u], i)
    <2>1. \A u \in Tunnels : u # t => ~Writes(pend[u], i)
      BY <1>2, <1>7 DEF Counted
    <2>2. ~Writes(pend'[t], i)
      BY <1>1, <1>6 DEF Writes
    <2> QED
      BY <1>1, <1>6, <2>1, <2>2
  <1>13. Len(srv'[i].got) = w /\ Agents(srv'[i].got, 0) /\ Len(srv[i].got) <= w
         /\ \A j \in Dials : srv'[j].got = srv[j].got
    BY <1>4, <1>6, <1>7, <1>8
  <1> QED
    BY <1>2, <1>4, <1>5, <1>6, <1>7, <1>9, <1>10, <1>11, <1>12, <1>13, WrittenUp

(* preConn is written: it continues what the destination has.              *)
LEMMA FlushPreUp ==
    ASSUME IInv, IInv', UInv, LoopsOK', NEW i \in Dials, NEW ok \in BOOLEAN, FlushPre(i, ok)
    PROVE  UInv'
  <1> DEFINE pre == bs[i].preConn
             got == srv[i].got
             w == bs[i].upstreamWritten + Len(pre)
             e == <<>>
             s == [bs[i] EXCEPT !.upstreamWritten = w, !.preConn = e,
                                !.requestOutstanding = TRUE, !.dial = "reading"]
  <1>1. bs[i] \in SessionType /\ bs \in [Dials -> SessionType] /\ Broker.s = bs
        /\ srv \in [Dials -> ServerConnType]
    BY BrokerFacts DEF Broker
  <1>2. bs[i].upstreamWritten \in Nat /\ pre \in Seq(Byte) /\ e \in Seq(Byte)
        /\ Len(pre) \in Nat
    BY <1>1 DEF SessionType
  <1>3. Commit(SendToSidecar([Broker EXCEPT !.s[i] = s], i, Ctl("ACK", w), ok))
    <2>1. [Broker EXCEPT !.s[i].upstreamWritten = w, !.s[i].preConn = e,
                         !.s[i].requestOutstanding = TRUE, !.s[i].dial = "reading"]
            = [Broker EXCEPT !.s[i] = s]
      <3> HIDE DEF w, e
      <3>1. [bs EXCEPT ![i].upstreamWritten = w, ![i].preConn = e,
                       ![i].requestOutstanding = TRUE, ![i].dial = "reading"]
              = [bs EXCEPT ![i] = s]
        BY <1>1 DEF SessionType
      <3> QED
        BY <1>1, <3>1 DEF Broker
    <2> QED
      BY <2>1 DEF FlushPre
  <1>4. /\ UNCHANGED <<sidecarVars, pend, upq>> /\ bs[i].dial = "flushing"
        /\ srv' = [srv EXCEPT ![i].got = got \o pre]
    BY DEF FlushPre
  <1>5. Unflushed(bs[i]) /\ TakenOK(bs[i], srv[i]) /\ Counted(i)
        /\ got \in Seq(Byte) /\ \A u \in Tunnels : FramesOK(upq[u])
    BY <1>4, UpFacts DEF Unflushed
  <1>6. \A u \in Tunnels : ~Writes(pend[u], i)
    BY <1>5 DEF Counted
  <1>7. Len(got) = bs[i].upstreamWritten /\ Agents(got, 0)
        /\ Agents(pre, bs[i].upstreamWritten)
    BY <1>5, <1>6 DEF Counted, TakenOK
  <1>8. w = Len(got) + Len(pre)
    BY <1>7
  <1>9. w \in Nat /\ Len(got) <= w
    <2> HIDE DEF w, got, pre
    <2> QED
      BY <1>2, <1>5, <1>8
  <1> HIDE DEF w
  <1>10. s \in SessionType
    <2> HIDE DEF e
    <2> QED
      BY <1>1, <1>2, <1>9 DEF SessionType
  <1>11. s.downBuf = bs[i].downBuf /\ ~Unflushed(s) /\ s.upstreamWritten = w
    BY <1>1 DEF SessionType, Unflushed
  <1> HIDE DEF s
  <1>12. Agents(got \o pre, 0) /\ Len(got \o pre) = w
    <2>1. Agents(pre, 0 + Len(got))
      BY <1>2, <1>5, <1>7
    <2> HIDE DEF got, pre
    <2> QED
      BY <1>2, <1>5, <1>7, <1>8, <2>1, ConcatAgents
  <1> HIDE DEF pre
  <1>13. srv'[i].got = got \o pre /\ \A j \in Dials : j # i => srv'[j].got = srv[j].got
    BY <1>1, <1>4 DEF ServerConnType
  <1>14. Len(srv'[i].got) = w /\ Agents(srv'[i].got, 0) /\ Len(srv[i].got) <= w
         /\ bs[i].dial # "none"
    BY <1>4, <1>9, <1>12, <1>13
  <1>15. \A u \in Tunnels : FramesOK(upq'[u]) /\ pend'[u] = pend[u] /\ ~Writes(pend'[u], i)
    BY <1>4, <1>5, <1>6
  <1> QED
    BY <1>3, <1>4, <1>9, <1>10, <1>11, <1>13, <1>14, <1>15, WrittenUp

(* A step that leaves the frames, the handlers and what was taken alone.   *)
LEMMA QuietUp ==
    ASSUME IInv, IInv', UInv, LoopsOK', UNCHANGED <<sidecarVars, upq, downq, pend>>,
           \A i \in Dials : srv'[i].got = srv[i].got,
           \A i \in Dials : SameSession(bs[i], bs'[i])
    PROVE  UInv'
  BY UpFacts, KeepsStep

(* onDownstreamAck.                                                        *)
LEMMA HandleAckUp ==
    ASSUME IInv, IInv', UInv, LoopsOK', NEW t \in Tunnels, HandleAck(t)
    PROVE  UInv'
  <1> DEFINE b == TrimTo(bs[cur].downBuf, Head(upq[t]).off)
             r == bs[cur].requestOutstanding /\ BufLen(b) # 0
  <1>1. Serve(t, "ACK") /\ UNCHANGED <<sidecarVars, downq, cur, pend, srv>>
    BY DEF HandleAck
  <1>2. cur \in Dials /\ bs \in [Dials -> SessionType]
    BY BrokerFacts DEF HandleAck
  <1>3. bs' = [bs EXCEPT ![cur].downBuf = b, ![cur].requestOutstanding = r]
    BY <1>2 DEF HandleAck
  <1> HIDE DEF b, r
  <1>4. \A i \in Dials : SameSession(bs[i], bs'[i])
    BY <1>2, <1>3 DEF SessionType, SameSession, Unflushed
  <1> QED
    BY <1>1, <1>4, ServeUp, UpFacts, KeepsStep

(* onSidecarClose.                                                         *)
LEMMA HandleCloseUp ==
    ASSUME IInv, IInv', UInv, LoopsOK', NEW t \in Tunnels, HandleClose(t)
    PROVE  UInv'
  <1> DEFINE C == [Broker EXCEPT !.s[cur].upClosed = TRUE]
             B == MaybeDestroy(C, cur)
  <1>1. Serve(t, "CLOSE") /\ UNCHANGED <<sidecarVars, pend>> /\ Commit(B)
    BY DEF HandleClose
  <1>2. cur \in Dials /\ srv \in [Dials -> ServerConnType] /\ cs.downDelivered \in Nat
    BY BrokerFacts DEF HandleClose
  <1>3. BrokerOK(C, cs.downDelivered) /\ Keeps(Broker, C, srv)
    BY <1>2, BrokerFacts, UpFacts, CloseFlagsOK, KeepsFlags
  <1> HIDE DEF C
  <1>4. Keeps(Broker, B, srv)
    BY <1>2, <1>3, KeepsDestroy, KeepsTrans
  <1> HIDE DEF B
  <1>5. \A i \in Dials : srv'[i].got = srv[i].got
    BY <1>2 DEF HandleClose, ServerConnType
  <1> QED
    BY <1>1, <1>4, <1>5, ServeUp, CommitUp, KeepsStep

(* lookup finds no session.                                                *)
LEMMA HandleUnknownUp ==
    ASSUME IInv, IInv', UInv, LoopsOK', NEW t \in Tunnels, HandleUnknown(t)
    PROVE  UInv'
  <1>1. PICK type \in {"DATA", "ACK", "CLOSE"} : Serve(t, type)
    BY DEF HandleUnknown
  <1>2. UNCHANGED <<sidecarVars, downq, bs, pend, srv>>
    BY DEF HandleUnknown, brokerVars
  <1>3. \A i \in Dials : SameSession(bs[i], bs'[i])
    BY <1>2 DEF SameSession
  <1> QED
    BY <1>1, <1>2, <1>3, ServeUp, UpFacts, KeepsStep

(* serveTunnel returns.                                                    *)
LEMMA TunnelEndUp ==
    ASSUME IInv, IInv', UInv, LoopsOK', NEW t \in Tunnels, TunnelEnd(t)
    PROVE  UInv'
  <1> DEFINE B == DetachAll(Broker, t)
  <1>1. UNCHANGED <<sidecarVars, pend, srv>> /\ Commit(B) /\ upq' = [upq EXCEPT ![t] = <<>>]
    BY DEF TunnelEnd
  <1>2. \A u \in Tunnels : FramesOK(upq'[u])
    BY <1>1, SidecarFacts, UpFacts, EmptyOK
  <1>3. Keeps(Broker, B, srv)
    BY BrokerFacts, KeepsDetachAll
  <1> HIDE DEF B
  <1> QED
    BY <1>1, <1>2, <1>3, CommitUp, KeepsStep

-----------------------------------------------------------------------------
(* Steps of a session's goroutines and of the destination.                 *)

(* dialUpstream connected.                                                 *)
LEMMA DialOKUp ==
    ASSUME IInv, IInv', UInv, LoopsOK', NEW i \in Dials, DialOK(i)
    PROVE  UInv'
  <1> DEFINE v == IF bs[i].preConn = <<>> THEN "reading" ELSE "flushing"
  <1>1. UNCHANGED <<sidecarVars, upq, downq, pend, srv>> /\ bs[i].dial = "dialing"
        /\ bs' = [bs EXCEPT ![i].dial = v, ![i].watchdog = TRUE]
    BY DEF DialOK
  <1>2. v \in {"reading", "flushing"}
    OBVIOUS
  <1> HIDE DEF v
  <1>3. \A j \in Dials : SameSession(bs[j], bs'[j])
    BY <1>1, <1>2, BrokerFacts DEF SessionType, SameSession, Unflushed
  <1> QED
    BY <1>1, <1>3, QuietUp

(* The dial goroutine of session i ends.                                   *)
LEMMA KeepsDialDone ==
    ASSUME IInv, UInv, NEW i \in Dials, bs[i].dial # "none"
    PROVE  LET B == [Broker EXCEPT !.s[i].dial = "done"]
           IN  BrokerOK(B, cs.downDelivered) /\ Keeps(Broker, B, srv)
  <1> DEFINE s == [bs[i] EXCEPT !.dial = "done"]
  <1>1. bs[i] \in SessionType /\ Broker.s = bs
    BY BrokerFacts DEF Broker
  <1>2. SameSession(bs[i], s)
    BY <1>1 DEF SessionType, SameSession, Unflushed
  <1>3. Keeps(Broker, [Broker EXCEPT !.s[i] = s], srv)
    BY <1>1, <1>2, UpFacts, KeepsSession
  <1>4. [Broker EXCEPT !.s[i].dial = "done"] = [Broker EXCEPT !.s[i] = s]
    BY <1>1
  <1> QED
    BY <1>3, <1>4, DialMoves

(* dialUpstream failed.                                                    *)
LEMMA DialFailUp ==
    ASSUME IInv, IInv', UInv, LoopsOK', NEW i \in Dials, NEW ok \in BOOLEAN, DialFail(i, ok)
    PROVE  UInv'
  <1> DEFINE d == cs.downDelivered
             B1 == [Broker EXCEPT !.s[i].dial = "done"]
             B2 == SendToSidecar(B1, i, Ctl("LOST", 0), ok)
             B3 == Destroy(B2, i)
  <1>1. UNCHANGED <<sidecarVars, upq, pend, srv>> /\ Commit(B3) /\ bs[i].dial # "none"
    BY DEF DialFail
  <1>2. d \in Nat /\ BrokerOK(B1, d) /\ Keeps(Broker, B1, srv) /\ "LOST" \in FrameType
    BY <1>1, KeepsDialDone, BrokerFacts DEF FrameType
  <1> HIDE DEF B1, d
  <1>3. BrokerOK(B2, d) /\ Keeps(B1, B2, srv)
    BY <1>2, KeepsSendCtl
  <1> HIDE DEF B2
  <1>4. Keeps(Broker, B3, srv)
    BY <1>2, <1>3, KeepsDestroy, KeepsTrans
  <1> HIDE DEF B3
  <1> QED
    BY <1>1, <1>4, UpFacts, CommitUp, KeepsStep

(* The write of preConn failed, or readUpstreamLoop read EOF.              *)
LEMMA UpstreamClosedUp ==
    ASSUME IInv, IInv', UInv, LoopsOK', NEW i \in Dials, NEW ok \in BOOLEAN,
           FlushError(i, ok) \/ ReadEOF(i, ok)
    PROVE  UInv'
  <1> DEFINE d == cs.downDelivered
             B1 == [Broker EXCEPT !.s[i].dial = "done"]
             B2 == CloseUpstream(B1, i, ok)
  <1>1. UNCHANGED <<sidecarVars, upq, pend, srv>> /\ Commit(B2) /\ bs[i].dial # "none"
    BY DEF FlushError, ReadEOF
  <1>2. d \in Nat /\ BrokerOK(B1, d) /\ Keeps(Broker, B1, srv)
    BY <1>1, KeepsDialDone, BrokerFacts
  <1> HIDE DEF B1, d
  <1>3. Keeps(Broker, B2, srv)
    BY <1>2, KeepsCloseUpstream, KeepsTrans
  <1> HIDE DEF B2
  <1> QED
    BY <1>1, <1>3, UpFacts, CommitUp, KeepsStep

(* produceDownstream: what it reads and sends is the destination's.        *)
LEMMA ProduceUp ==
    ASSUME IInv, IInv', UInv, LoopsOK', NEW i \in Dials, NEW ok \in BOOLEAN, Produce(i, ok)
    PROVE  UInv'
  <1> DEFINE b   == bs[i].downBuf
             off == End(b)
             n   == Least({srv[i].sent - off, ReadMax, Free(b, DownCap)})
             p   == ServerBytes(i, off, n)
             t   == bs[i].tconn
             u   == IF ok THEN t ELSE 0
             c   == AppendTo(b, p)
             f   == Data(off, p)
  <1>1. bs[i] \in SessionType /\ bs \in [Dials -> SessionType] /\ srv[i] \in ServerConnType
        /\ downq \in [Tunnels -> Seq(Frame)]
    BY BrokerFacts, SidecarFacts
  <1>2. b \in ReplayBufferType /\ t \in 0 .. MaxTunnels /\ srv[i].sent \in Nat
    BY <1>1 DEF SessionType, ServerConnType
  <1>3. off \in Nat
    <2>1. b.base \in Nat /\ b.buf \in Seq(Byte)
      BY <1>2 DEF ReplayBufferType
    <2>2. off = b.base + Len(b.buf)
      BY DEF End, BufLen
    <2> HIDE DEF off, b
    <2> QED
      BY <2>1, <2>2
  <1>4. srv[i].sent - off \in Int /\ ReadMax \in Int /\ Free(b, DownCap) \in Int
    <2>1. ReadMax \in Nat /\ DownCap \in Nat /\ b.buf \in Seq(Byte)
      BY <1>2, LengthsAssumption DEF ReplayBufferType
    <2> HIDE DEF b, off
    <2> QED
      BY <1>2, <1>3, <2>1 DEF Free, BufLen
  <1>5. n > 0 /\ n \in Int
    BY <1>4, LeastOfThree DEF Produce
  <1>6. n \in Nat
    <2> HIDE DEF n
    <2> QED
      BY <1>5
  <1>7. f \in Frame /\ f.type = "DATA"
    BY <1>3, <1>6, ServerBytesOK, DataFrame
  <1>8. bs' = [bs EXCEPT ![i].downBuf = c, ![i].tconn = u] /\ downq' = WriteFrame(downq, t, f)
        /\ UNCHANGED <<sidecarVars, upq, pend, srv>>
    BY <1>1 DEF Produce, Commit, Wake, Broker
  <1> HIDE DEF c, u, f, t
  <1>9. \A j \in Dials : SameSession(bs[j], bs'[j])
    BY <1>1, <1>8 DEF SessionType, SameSession, Unflushed
  <1>10. ASSUME NEW v \in Tunnels
         PROVE  Vouched(downq'[v], srv)
    <2>1. Vouched(Append(downq[v], OnWire(f)), srv) /\ Vouched(downq[v], srv)
      BY <1>1, <1>7, UpFacts, AppendUp
    <2> QED
      BY <1>1, <1>2, <1>7, <1>8, <2>1, WriteFrameAt DEF t
  <1> QED
    BY <1>8, <1>9, <1>10, UpFacts, KeepsStep

(* The watchdog, and the destination's own steps.                          *)
LEMMA OtherUp ==
    ASSUME IInv, IInv', UInv, LoopsOK', NEW i \in Dials,
           WatchdogFire(i) \/ ServerSend(i) \/ ServerClose(i)
    PROVE  UInv'
  <1>1. UNCHANGED <<sidecarVars, upq, downq, pend>>
    BY DEF WatchdogFire, ServerSend, ServerClose
  <1>2. \A j \in Dials : SameSession(bs[j], bs'[j])
    <2>1. CASE bs' = bs
      BY <2>1 DEF SameSession
    <2>2. CASE bs' = [bs EXCEPT ![i].watchdog = FALSE]
      <3>1. bs \in [Dials -> SessionType]
        BY BrokerFacts
      <3> QED
        BY <2>2, <3>1 DEF SessionType, SameSession, Unflushed
    <2> QED
      BY <2>1, <2>2 DEF WatchdogFire, ServerSend, ServerClose
  <1>3. \A j \in Dials : srv'[j].got = srv[j].got
    <2>1. srv \in [Dials -> ServerConnType]
      BY BrokerFacts
    <2>2. CASE srv' = srv
      BY <2>2
    <2>3. CASE srv' = [srv EXCEPT ![i].sent = @ + 1]
      BY <2>1, <2>3 DEF ServerConnType
    <2>4. CASE srv' = [srv EXCEPT ![i].fin = TRUE]
      BY <2>1, <2>4 DEF ServerConnType
    <2> QED
      BY <2>2, <2>3, <2>4 DEF WatchdogFire, ServerSend, ServerClose
  <1> QED
    BY <1>1, <1>2, <1>3, QuietUp

-----------------------------------------------------------------------------
(* Steps of the sidecar and of the platform.                               *)

(* What a step of theirs has to show.                                      *)
LEMMA SidecarUp ==
    ASSUME IInv, UInv, LoopsOK', UNCHANGED brokerVars,
           Agents(cs'.upBuf.buf, cs'.upBuf.base), Has(srv, cs'.upBuf.base),
           FramesOK(wout'), FramesOK(rout'), \A t \in Tunnels : FramesOK(upq'[t]),
           \A t \in Tunnels : Vouched(downq'[t], srv)
    PROVE  UInv'
  <1>1. pend' = pend /\ bs' = bs /\ srv' = srv
    BY DEF brokerVars
  <1>2. \A i \in Dials : Counted(i)'
    BY <1>1 DEF UInv, Counted
  <1> QED
    BY <1>1, <1>2 DEF UInv

(* ... when it leaves upBuf alone.                                         *)
LEMMA SameBufUp ==
    ASSUME IInv, UInv, LoopsOK', UNCHANGED brokerVars, cs'.upBuf = cs.upBuf,
           FramesOK(wout'), FramesOK(rout'), \A t \in Tunnels : FramesOK(upq'[t]),
           \A t \in Tunnels : Vouched(downq'[t], srv)
    PROVE  UInv'
  BY SidecarUp DEF UInv

(* What UInv says of the sidecar.                                          *)
LEMMA HeldUp ==
    ASSUME IInv, UInv
    PROVE  /\ FramesOK(wout) /\ FramesOK(rout)
           /\ wout # <<>> => wout[1] \in Frame /\ Agents(wout[1].data, wout[1].off)
           /\ rout # <<>> => rout[1] \in Frame /\ Agents(rout[1].data, rout[1].off)
  <1>1. wout \in Seq(Frame) /\ rout \in Seq(Frame) /\ FramesOK(wout) /\ FramesOK(rout)
    BY SidecarFacts DEF UInv
  <1>2. /\ wout # <<>> => 1 \in 1 .. Len(wout) /\ wout[1] \in Frame
        /\ rout # <<>> => 1 \in 1 .. Len(rout) /\ rout[1] \in Frame
    BY <1>1
  <1> QED
    BY <1>1, <1>2 DEF FramesOK

(* A control frame carries no bytes.                                       *)
LEMMA CtlUp ==
    ASSUME NEW type \in FrameType, NEW off \in Nat
    PROVE  /\ Ctl(type, off) \in Frame /\ Agents(Ctl(type, off).data, Ctl(type, off).off)
           /\ FramesOK(<<Ctl(type, off)>>)
  <1> DEFINE f == Ctl(type, off)
  <1>1. f \in Frame /\ f.data = <<>>
    BY CtlFrame DEF Ctl
  <1> HIDE DEF f
  <1>2. Agents(f.data, f.off) /\ FramesOK(<<f>>)
    BY <1>1, EmptyOK DEF FramesOK
  <1> QED
    BY <1>1, <1>2 DEF f

(* A DATA frame of the agent's bytes.                                      *)
LEMMA DataUp ==
    ASSUME NEW off \in Nat, NEW p \in Seq(Byte), Agents(p, off)
    PROVE  FramesOK(<<Data(off, p)>>)
  <1> DEFINE f == Data(off, p)
  <1>1. f.data = p /\ f.off = off
    BY DEF Data
  <1> HIDE DEF f
  <1>2. FramesOK(<<f>>)
    BY <1>1 DEF FramesOK
  <1> QED
    BY <1>2 DEF f

(* OpenSession registers the session, and sends OPEN.                      *)
LEMMA OpenUp ==
    ASSUME IInv, UInv, LoopsOK', OpenSession \/ SendOpen
    PROVE  UInv'
  <1>1. UNCHANGED <<wout, rout, downq, brokerVars>>
    BY DEF OpenSession, SendOpen
  <1>2. cs' = [cs EXCEPT !.st = "opening"] \/ cs' = [cs EXCEPT !.st = "open"]
    BY DEF OpenSession, SendOpen
  <1>3. cs'.upBuf = cs.upBuf
    BY <1>2, SidecarFacts DEF ClientSessionType
  <1>4. \A t \in Tunnels : FramesOK(upq'[t])
    <2>1. CASE OpenSession
      BY <2>1, UpFacts DEF OpenSession
    <2>2. CASE SendOpen
      <3>1. Ctl("OPEN", 0) \in Frame /\ Agents(Ctl("OPEN", 0).data, Ctl("OPEN", 0).off)
        BY CtlUp DEF FrameType
      <3> QED
        BY <2>2, <3>1, SendUp DEF SendOpen
    <2> QED
      BY <2>1, <2>2
  <1> QED
    BY <1>1, <1>3, <1>4, HeldUp, UpFacts, SameBufUp

(* What the agent writes next.                                             *)
LEMMA AgentBytesUp ==
    ASSUME NEW from \in Nat, NEW n \in Nat
    PROVE  AgentBytes(from, n) \in Seq(Byte) /\ Agents(AgentBytes(from, n), from)
  <1> DEFINE p == AgentBytes(from, n)
  <1>1. p \in Seq(Byte) /\ p = [k \in 1 .. n |-> <<0, from + k>>]
    BY AgentBytesType DEF AgentBytes
  <1> HIDE DEF p
  <1>2. Len(p) = n
    BY <1>1
  <1>3. Agents(p, from)
    BY <1>1, <1>2 DEF Agents
  <1> QED
    BY <1>1, <1>3 DEF p

(* writeUp retains a chunk.                                                *)
LEMMA WriteUpUp ==
    ASSUME IInv, UInv, LoopsOK', NEW n \in 1 .. UpCap, WriteUp(n)
    PROVE  UInv'
  <1> DEFINE b == cs.upBuf
             off == End(b)
             chunk == AgentBytes(off, n)
             c == AppendTo(b, chunk)
  <1>1. n \in Nat /\ b \in ReplayBufferType
    BY SidecarFacts
  <1>2. b.base \in Nat /\ b.buf \in Seq(Byte) /\ off = b.base + Len(b.buf)
    BY <1>1 DEF ReplayBufferType, End, BufLen
  <1>3. off \in Nat
    <2> HIDE DEF off, b
    <2> QED
      BY <1>2
  <1>4. cs' = [cs EXCEPT !.upBuf = c] /\ wout' = <<Data(off, chunk)>>
        /\ UNCHANGED <<rout, upq, downq, brokerVars>>
    BY DEF WriteUp
  <1>5. chunk \in Seq(Byte) /\ Agents(chunk, off)
    <2> HIDE DEF off
    <2> QED
      BY <1>1, <1>3, AgentBytesUp
  <1> HIDE DEF chunk
  <1>6. c = [base |-> b.base, buf |-> b.buf \o chunk]
    BY <1>1, <1>5, AppendToIs
  <1>7. Agents(b.buf, b.base) /\ Has(srv, b.base)
    BY DEF UInv
  <1>8. Agents(b.buf \o chunk, b.base)
    <2>1. Agents(chunk, b.base + Len(b.buf))
      BY <1>2, <1>5
    <2> HIDE DEF b
    <2> QED
      BY <1>2, <1>5, <1>7, <2>1, ConcatAgents
  <1>9. FramesOK(wout')
    <2> HIDE DEF off
    <2> QED
      BY <1>3, <1>4, <1>5, DataUp
  <1> HIDE DEF c, off
  <1>10. cs'.upBuf = c
    BY <1>4, SidecarFacts DEF ClientSessionType
  <1>11. cs'.upBuf.base = b.base /\ cs'.upBuf.buf = b.buf \o chunk
    BY <1>6, <1>10
  <1>12. Agents(cs'.upBuf.buf, cs'.upBuf.base) /\ Has(srv, cs'.upBuf.base)
    BY <1>7, <1>8, <1>11
  <1> QED
    BY <1>4, <1>9, <1>12, HeldUp, UpFacts, SidecarUp

(* A held frame, CLOSE or ATTACH is sent.                                  *)
LEMMA SendStepUp ==
    ASSUME IInv, UInv, LoopsOK',
           WriteUpSend \/ ReadLoopSend \/ Reattach \/ \E half \in BOOLEAN : CloseUp(half)
    PROVE  UInv'
  <1>1. UNCHANGED <<downq, brokerVars>>
    BY DEF WriteUpSend, ReadLoopSend, Reattach, CloseUp
  <1>2. FramesOK(wout') /\ FramesOK(rout')
    BY HeldUp, EmptyOK DEF WriteUpSend, ReadLoopSend, Reattach, CloseUp
  <1>3. cs'.upBuf = cs.upBuf
    <2>1. cs' = cs \/ cs' = [cs EXCEPT !.upClosed = TRUE]
      BY DEF WriteUpSend, ReadLoopSend, Reattach, CloseUp
    <2> QED
      BY <2>1, SidecarFacts DEF ClientSessionType
  <1>4. \A t \in Tunnels : FramesOK(upq'[t])
    <2>1. CASE WriteUpSend
      BY <2>1, HeldUp, SendUp DEF WriteUpSend
    <2>2. CASE ReadLoopSend
      BY <2>2, HeldUp, SendUp DEF ReadLoopSend
    <2>3. CASE Reattach
      <3> DEFINE f == Ctl("ATTACH", cs.downDelivered)
      <3>1. f \in Frame /\ Agents(f.data, f.off)
        BY SidecarFacts, CtlUp DEF FrameType
      <3> HIDE DEF f
      <3>2. Send(f)
        BY <2>3 DEF Reattach, f
      <3> QED
        BY <3>1, <3>2, SendUp
    <2>4. CASE \E half \in BOOLEAN : CloseUp(half)
      <3> DEFINE f == Ctl("CLOSE", 0)
      <3>1. f \in Frame /\ Agents(f.data, f.off)
        BY CtlUp DEF FrameType
      <3> HIDE DEF f
      <3>2. Send(f)
        BY <2>4 DEF CloseUp, f
      <3> QED
        BY <3>1, <3>2, SendUp
    <2> QED
      BY <2>1, <2>2, <2>3, <2>4
  <1> QED
    BY <1>1, <1>2, <1>3, <1>4, UpFacts, SameBufUp

(* A connection is made or dropped.                                        *)
LEMMA ConnectUp ==
    ASSUME IInv, UInv, LoopsOK', Disconnect \/ \E t \in Tunnels : Connect(t)
    PROVE  UInv'
  <1>1. UNCHANGED <<cs, wout, rout, brokerVars>>
    BY DEF Disconnect, Connect
  <1>2. /\ upq' = upq \/ \E t \in Tunnels : upq' = [upq EXCEPT ![t] = <<>>]
        /\ \E t \in Tunnels : downq' = [downq EXCEPT ![t] = <<>>]
    <2>1. CASE Disconnect
      <3>1. conn \in Tunnels
        BY <2>1, SidecarFacts DEF Disconnect
      <3> QED
        BY <2>1, <3>1 DEF Disconnect
    <2>2. CASE \E t \in Tunnels : Connect(t)
      BY <2>2 DEF Connect
    <2> QED
      BY <2>1, <2>2
  <1>3. upq \in [Tunnels -> Seq(Frame)] /\ downq \in [Tunnels -> Seq(Frame)]
    BY SidecarFacts
  <1>4. \A u \in Tunnels : FramesOK(upq'[u]) /\ Vouched(downq'[u], srv)
    BY <1>2, <1>3, UpFacts, EmptyOK
  <1> QED
    BY <1>1, <1>4, HeldUp, SameBufUp

(* readLoop took a frame.                                                  *)
LEMMA ReceiveUp ==
    ASSUME IInv, UInv, NEW type, Receive(type)
    PROVE  /\ \A t \in Tunnels : Vouched(downq'[t], srv)
           /\ type \in {"ACK", "ATTACH_OK"} => Has(srv, Head(downq[conn]).off)
  <1>1. conn \in Tunnels /\ downq \in [Tunnels -> Seq(Frame)] /\ downq[conn] # <<>>
        /\ downq' = [downq EXCEPT ![conn] = Tail(downq[conn])]
        /\ Head(downq[conn]).type = type
    BY SidecarFacts DEF Receive
  <1>2. /\ Vouched(Tail(downq[conn]), srv)
        /\ type \in {"ACK", "ATTACH_OK"} => Has(srv, Head(downq[conn]).off)
    BY <1>1, UpFacts, TailUp
  <1> QED
    BY <1>1, <1>2, UpFacts

(* What is dropped from upBuf on an acknowledgement, a destination has.    *)
LEMMA TrimUp ==
    ASSUME IInv, UInv, NEW off \in Nat, Has(srv, off)
    PROVE  LET b == TrimTo(cs.upBuf, off)
           IN  b \in ReplayBufferType /\ Agents(b.buf, b.base) /\ Has(srv, b.base)
  <1> DEFINE b == TrimTo(cs.upBuf, off)
  <1>1. cs.upBuf \in ReplayBufferType /\ Agents(cs.upBuf.buf, cs.upBuf.base)
        /\ Has(srv, cs.upBuf.base)
    BY SidecarFacts DEF UInv
  <1>2. b \in ReplayBufferType /\ Agents(b.buf, b.base)
        /\ (b.base <= cs.upBuf.base \/ b.base <= off)
    BY <1>1, TrimToAgents
  <1>3. b.base \in Nat /\ cs.upBuf.base \in Nat
    BY <1>1, <1>2 DEF ReplayBufferType
  <1> HIDE DEF b
  <1>4. ASSUME NEW n \in Nat, NEW m \in Nat, n <= m, Has(srv, m)
        PROVE  Has(srv, n)
    <2>1. PICK i \in Dials : m <= Len(srv[i].got)
      BY <1>4 DEF Has
    <2>2. n <= Len(srv[i].got)
      BY <1>4, <2>1, UpFacts
    <2> QED
      BY <2>2 DEF Has
  <1>5. Has(srv, b.base)
    BY <1>1, <1>2, <1>3, <1>4
  <1> QED
    BY <1>2, <1>5 DEF b

(* onUpstreamAck.                                                          *)
LEMMA RecvAckUp ==
    ASSUME IInv, UInv, LoopsOK', RecvAck
    PROVE  UInv'
  <1> DEFINE off == Head(downq[conn]).off
             b == TrimTo(cs.upBuf, off)
  <1>1. /\ UNCHANGED <<wout, rout, upq, brokerVars>> /\ Receive("ACK")
        /\ cs' = cs \/ cs' = [cs EXCEPT !.upBuf = b]
    BY DEF RecvAck
  <1>2. off \in Nat /\ Has(srv, off) /\ \A t \in Tunnels : Vouched(downq'[t], srv)
    BY <1>1, ReceiveOK, ReceiveUp
  <1>3. Agents(b.buf, b.base) /\ Has(srv, b.base)
    BY <1>2, TrimUp
  <1> HIDE DEF b
  <1>4. cs'.upBuf = cs.upBuf \/ cs'.upBuf = b
    BY <1>1, SidecarFacts DEF ClientSessionType
  <1>5. Agents(cs'.upBuf.buf, cs'.upBuf.base) /\ Has(srv, cs'.upBuf.base)
    BY <1>3, <1>4 DEF UInv
  <1> QED
    BY <1>1, <1>2, <1>5, HeldUp, UpFacts, SidecarUp

(* onAttachOK: what it replays begins where the destination left off.      *)
LEMMA RecvAttachOKUp ==
    ASSUME IInv, UInv, LoopsOK', RecvAttachOK
    PROVE  UInv'
  <1> DEFINE off == Head(downq[conn]).off
             b == TrimTo(cs.upBuf, off)
             p == IF FromOK(b, off) THEN From(b, off) ELSE <<>>
  <1>1. /\ UNCHANGED <<wout, upq, brokerVars>> /\ Receive("ATTACH_OK")
        /\ cs' = cs \/ cs' = [cs EXCEPT !.upBuf = b]
        /\ rout' = <<>> \/ rout' = <<Data(off, p)>>
    BY DEF RecvAttachOK
  <1>2. off \in Nat /\ Has(srv, off) /\ \A t \in Tunnels : Vouched(downq'[t], srv)
    BY <1>1, ReceiveOK, ReceiveUp
  <1>3. b \in ReplayBufferType /\ Agents(b.buf, b.base) /\ Has(srv, b.base)
    BY <1>2, TrimUp
  <1> HIDE DEF b, off
  <1>4. p \in Seq(Byte) /\ Agents(p, off)
    BY <1>2, <1>3, FromAgents, EmptyOK
  <1> HIDE DEF p
  <1>5. cs'.upBuf = cs.upBuf \/ cs'.upBuf = b
    BY <1>1, SidecarFacts DEF ClientSessionType
  <1>6. Agents(cs'.upBuf.buf, cs'.upBuf.base) /\ Has(srv, cs'.upBuf.base)
    BY <1>3, <1>5 DEF UInv
  <1>7. FramesOK(rout')
    BY <1>1, <1>2, <1>4, DataUp, EmptyOK
  <1> QED
    BY <1>1, <1>2, <1>6, <1>7, HeldUp, UpFacts, SidecarUp

(* deliverDown and onClose.                                                *)
LEMMA RecvUp ==
    ASSUME IInv, UInv, LoopsOK', RecvClose \/ \E ok \in BOOLEAN : RecvData(ok)
    PROVE  UInv'
  <1> DEFINE f == Head(downq[conn])
             e == cs.downDelivered + Len(Fresh(f.off, f.data, cs.downDelivered))
  <1>1. UNCHANGED <<wout, upq, brokerVars>> /\ \E type : Receive(type)
    BY DEF RecvClose, RecvData
  <1>2. f.off \in Nat /\ f.data \in Seq(Byte) /\ cs.downDelivered \in Nat
        /\ Positioned(f.data, f.off) /\ \A t \in Tunnels : Vouched(downq'[t], srv)
    BY <1>1, ReceiveOK, ReceiveUp, SidecarFacts
  <1>3. e \in Nat
    <2>1. Fresh(f.off, f.data, cs.downDelivered) \in Seq(Byte)
      BY <1>2, FreshPositioned
    <2> QED
      BY <1>2, <2>1
  <1>4. \/ cs' = cs /\ rout' = rout
        \/ cs' = [cs EXCEPT !.downDelivered = e] /\ rout' = <<Ctl("ACK", e)>>
        \/ cs' = [cs EXCEPT !.st = "gone"] /\ rout' = rout
        \/ cs' = [cs EXCEPT !.downClosed = TRUE] /\ rout' = rout
    BY DEF RecvClose, RecvData
  <1> HIDE DEF e
  <1>5. cs'.upBuf = cs.upBuf
    BY <1>4, SidecarFacts DEF ClientSessionType
  <1>6. FramesOK(rout')
    <2>1. FramesOK(<<Ctl("ACK", e)>>)
      BY <1>3, CtlUp DEF FrameType
    <2> QED
      BY <1>4, <2>1, HeldUp
  <1> QED
    BY <1>1, <1>2, <1>5, <1>6, HeldUp, UpFacts, SameBufUp

(* Suspends, failures and resumes.                                         *)
LEMMA PlatformUp ==
    ASSUME IInv, UInv, LoopsOK', Suspend \/ Break \/ ResumeActor \/ ResumeElsewhere
    PROVE  UInv'
  <1>1. UNCHANGED <<cs, wout, rout, brokerVars>>
    BY DEF Suspend, Break, ResumeActor, ResumeElsewhere, sidecarVars
  <1>2. \A u \in Tunnels : FramesOK(upq'[u]) /\ Vouched(downq'[u], srv)
    <2>1. CASE (Suspend \/ Break) /\ conn # 0 /\ link[conn] = "up"
      <3>1. conn \in Tunnels /\ Cut /\ upq \in [Tunnels -> Seq(Frame)]
            /\ downq \in [Tunnels -> Seq(Frame)]
        BY <2>1, SidecarFacts DEF Suspend, Break
      <3>2. PICK k \in 0 .. Len(upq[conn]) :
               upq' = [upq EXCEPT ![conn] = SubSeq(upq[conn], 1, k)]
        BY <2>1, <3>1 DEF Cut
      <3>3. PICK m \in 0 .. Len(downq[conn]) :
               downq' = [downq EXCEPT ![conn] = SubSeq(downq[conn], 1, m)]
        BY <2>1, <3>1 DEF Cut
      <3>4. FramesOK(SubSeq(upq[conn], 1, k)) /\ Vouched(SubSeq(downq[conn], 1, m), srv)
        BY <3>1, UpFacts, PrefixUp
      <3> QED
        BY <3>1, <3>2, <3>3, <3>4, UpFacts
    <2>2. CASE ~((Suspend \/ Break) /\ conn # 0 /\ link[conn] = "up")
      <3>1. upq' = upq /\ downq' = downq
        BY <2>2 DEF Suspend, Break, ResumeActor, ResumeElsewhere, Cut
      <3> QED
        BY <3>1, UpFacts
    <2> QED
      BY <2>1, <2>2
  <1> QED
    BY <1>1, <1>2, HeldUp, SameBufUp

-----------------------------------------------------------------------------
(* The initial states satisfy the invariant.                               *)
LEMMA InitUInv ==
    ASSUME Init
    PROVE  UInv
  <1>1. /\ \A i \in Dials : bs[i] = NewSession(0) /\ srv[i] = NewServerConn
        /\ cs = NewClientSession /\ wout = <<>> /\ rout = <<>> /\ conn = 0
        /\ \A t \in Tunnels : /\ upq[t] = <<>> /\ downq[t] = <<>> /\ pend[t] = <<>>
                              /\ link[t] = "ended"
    BY DEF Init
  <1>2. /\ NewSession(0).dial = "none" /\ NewSession(0).preConn = <<>>
        /\ NewSession(0).upstreamWritten = 0 /\ NewServerConn.got = <<>>
        /\ NewClientSession.upBuf.base = 0 /\ NewClientSession.upBuf.buf = <<>>
    BY DEF NewSession, NewServerConn, NewClientSession, NewReplayBuffer
  <1>3. 1 \in Dials /\ 0 \in 0 .. MaxDials
    BY BoundsAssumption DEF Dials
  <1>4. LoopsOK
    BY <1>1 DEF LoopsOK, OneLoop, Busy
  <1>5. Has(srv, 0)
    <2>1. 0 <= Len(srv[1].got)
      BY <1>1, <1>2, <1>3
    <2> QED
      BY <1>3, <2>1 DEF Has
  <1>6. ASSUME NEW i \in Dials
        PROVE  TakenOK(bs[i], srv[i]) /\ Counted(i)
    <2>1. srv[i].got = <<>> /\ bs[i].upstreamWritten = 0 /\ bs[i].preConn = <<>>
          /\ Len(srv[i].got) = 0
      BY <1>1, <1>2
    <2>2. \A t \in Tunnels : ~Writes(pend[t], i)
      BY <1>1 DEF Writes
    <2> QED
      BY <2>1, <2>2, EmptyOK DEF TakenOK, Counted
  <1>7. Numbered(bs)
    <2>1. FirstOnes(bs, 0)
      BY <1>1, <1>2 DEF FirstOnes, Dials
    <2> QED
      BY <1>3, <2>1 DEF Numbered
  <1> QED
    BY <1>1, <1>2, <1>4, <1>5, <1>6, <1>7, EmptyOK DEF UInv

(* Every step keeps it, if a session has one writer at a time.             *)
LEMMA NextUInv ==
    ASSUME IInv, IInv', UInv, OneWriterAtATime, [Next]_vars
    PROVE  UInv'
  <1>1. LoopsOK'
    BY NextOneLoop DEF UInv, LoopsOK
  <1>2. CASE ProxyPump \/ ProxyClose
    BY <1>1, <1>2, OpenUp, WriteUpUp, SendStepUp DEF ProxyPump, ProxyClose
  <1>3. CASE ClientRun
    BY <1>1, <1>3, SendStepUp, ConnectUp, RecvAckUp, RecvAttachOKUp, RecvUp DEF ClientRun
  <1>4. ASSUME NEW t \in Tunnels, ServeTunnel(t)
        PROVE  UInv'
    BY <1>1, <1>4, HandleOpenUp, HandleAttachUp, FinishAttachUp, HandleDataEarlyUp,
       HandleDataUp, HandleDataErrorUp, FinishDataUp, HandleAckUp, HandleCloseUp,
       HandleUnknownUp, TunnelEndUp DEF ServeTunnel
  <1>5. ASSUME NEW i \in Dials,
               Upstream(i) \/ WatchdogFire(i) \/ ServerSend(i) \/ ServerClose(i)
        PROVE  UInv'
    BY <1>1, <1>5, DialOKUp, DialFailUp, FlushPreUp, UpstreamClosedUp, ProduceUp, OtherUp
       DEF Upstream
  <1>6. CASE UNCHANGED vars
    <2>1. UNCHANGED <<cs, wout, rout, upq, downq, brokerVars>>
      BY <1>6 DEF vars, sidecarVars, brokerVars
    <2> QED
      BY <1>1, <2>1, HeldUp, UpFacts, SameBufUp
  <1> QED
    BY <1>2, <1>3, <1>4, <1>5, <1>6, <1>1, PlatformUp DEF Next

(* UInv is an invariant, if a session has one writer at a time.            *)
THEOREM UpstreamInvariance ==
    ASSUME OneWriterAtATime
    PROVE  Spec => [](IInv /\ UInv)
  <1>1. Init => IInv /\ UInv
    BY InitIInv, InitUInv
  <1>2. IInv /\ UInv /\ [Next]_vars => (IInv /\ UInv)'
    BY NextIInv, NextUInv
  <1> QED
    BY <1>1, <1>2, PTL DEF Spec

(* UpstreamInOrder: the destination reads what the agent wrote, each byte  *)
(* once and in order, through every cut, replay, recreation and dial, with *)
(* every other preemption point open (onData, dialUpstream, onAttachOK).   *)
THEOREM UpstreamReadsInOrder ==
    ASSUME OneWriterAtATime
    PROVE  Spec => []UpstreamInOrder
  <1>1. IInv /\ UInv => UpstreamInOrder
    <2> SUFFICES ASSUME IInv, UInv, NEW i \in Dials, NEW k \in DOMAIN srv[i].got
                 PROVE  srv[i].got[k] = <<0, k>>
      BY DEF UpstreamInOrder
    <2>1. srv[i].got \in Seq(Byte) /\ Agents(srv[i].got, 0)
      BY UpFacts DEF TakenOK
    <2>2. k \in 1 .. Len(srv[i].got) /\ 0 + k = k
      BY <2>1
    <2> QED
      BY <2>1, <2>2 DEF Agents
  <1> QED
    BY <1>1, UpstreamInvariance, PTL

(* UnwrittenRetained: the sidecar forgets a byte of the agent's only once  *)
(* a destination has it (onUpstreamAck, onAttachOK).                       *)
THEOREM SidecarRetains ==
    ASSUME OneWriterAtATime
    PROVE  Spec => []UnwrittenRetained
  <1>1. IInv /\ UInv => UnwrittenRetained
    <2> SUFFICES ASSUME IInv, UInv, NEW k \in 1 .. cs.upBuf.base
                 PROVE  \E i \in Dials : \E n \in DOMAIN srv[i].got : srv[i].got[n] = <<0, k>>
      BY DEF UnwrittenRetained
    <2>1. cs.upBuf.base \in Nat
      BY SidecarFacts DEF ReplayBufferType
    <2>2. PICK i \in Dials : cs.upBuf.base <= Len(srv[i].got)
      BY DEF UInv, Has
    <2>3. srv[i].got \in Seq(Byte) /\ Agents(srv[i].got, 0) /\ Len(srv[i].got) \in Nat
      BY UpFacts DEF TakenOK
    <2>4. k \in 1 .. Len(srv[i].got) /\ 0 + k = k
      BY <2>1, <2>2, <2>3
    <2>5. srv[i].got[k] = <<0, k>> /\ k \in DOMAIN srv[i].got
      BY <2>3, <2>4 DEF Agents
    <2> QED
      BY <2>5
  <1> QED
    BY <1>1, UpstreamInvariance, PTL
=============================================================================
