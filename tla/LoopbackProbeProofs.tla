------------------------ MODULE LoopbackProbeProofs ------------------------
(***************************************************************************)
(* For any number of frames and restores, any capacity of the server's     *)
(* queue and whatever a restore does to the connection: the client of the  *)
(* loopback experiment acknowledges nothing that the server has not taken, *)
(* once and in order.                                                      *)
(***************************************************************************)
EXTENDS LoopbackProbe, SequenceTheorems, TLAPS

(* The frames sent, and the acks that carry the running CRC of frames that *)
(* the server has taken.                                                   *)
Frames(sent) == [seq : 1 .. sent, ok : BOOLEAN]

Prefix(crc, got) == Len(crc) <= Len(got) /\ \A i \in 1 .. Len(crc) : crc[i] = got[i]

Acks(sent, got) == {a \in [seq : 1 .. sent, crc : Seq(Nat)] : Prefix(a.crc, got)}

ClientOK ==
    /\ cli = [est |-> cli.est, stopped |-> cli.stopped, sent |-> cli.sent, acked |-> cli.acked,
              pend |-> cli.pend, bad |-> cli.bad, broken |-> cli.broken]
    /\ cli.sent \in 0 .. MaxSeq /\ cli.acked \in 0 .. cli.sent /\ cli.pend \subseteq 1 .. cli.sent

ServerOK ==
    /\ srv = [st |-> srv.st, got |-> srv.got, last |-> srv.last, bad |-> srv.bad, q |-> srv.q]
    /\ srv.got \in Seq(1 .. cli.sent) /\ srv.q \in Seq(Acks(cli.sent, srv.got))
    /\ Len(srv.q) <= AckQueue
    /\ srv.last = IF srv.got = <<>> THEN 0 ELSE Last(srv.got)

NetOK ==
    net \in [st : {"closed", "open", "stalled", "deaf"}, up : Seq(Frames(cli.sent)),
             down : Seq(Acks(cli.sent, srv.got))]

ClocksOK ==
    /\ actor \in {"running", "suspended"}
    /\ gaps \in Nat /\ restores \in Nat
    /\ gaps + (IF actor = "suspended" THEN 1 ELSE 0) <= MaxRestores + restores

(* Until the client has seen an ack out of order or with another CRC,      *)
(* pendingCRC has every frame not acknowledged, and what is acknowledged   *)
(* has been taken in order.                                                *)
Vouched ==
    ~cli.bad => /\ \A i \in 1 .. cli.sent : i > cli.acked => i \in cli.pend
                /\ cli.acked <= Len(srv.got)
                /\ \A i \in 1 .. cli.acked : srv.got[i] = i

PInv == ClientOK /\ ServerOK /\ NetOK /\ ClocksOK /\ Vouched

-----------------------------------------------------------------------------
(* What was sent stays sent, and what the server has taken stays taken.    *)
LEMMA Growth ==
    ASSUME NEW s \in Nat, NEW t \in Nat, s <= t,
           NEW got \in Seq(Nat), NEW more \in Seq(Nat), Prefix(got, more)
    PROVE  /\ Seq(1 .. s) \subseteq Seq(1 .. t)
           /\ Seq(Frames(s)) \subseteq Seq(Frames(t))
           /\ Seq(Acks(s, got)) \subseteq Seq(Acks(t, more))
  <1>1. 1 .. s \subseteq 1 .. t
    OBVIOUS
  <1>2. Frames(s) \subseteq Frames(t)
    BY DEF Frames
  <1>3. Acks(s, got) \subseteq Acks(t, more)
    BY DEF Acks, Prefix
  <1> QED
    BY <1>1, <1>2, <1>3, SeqMonotonic

(* A prefix is one of itself, and of what is appended to it.               *)
LEMMA PrefixAppend ==
    ASSUME NEW got \in Seq(Nat), NEW x \in Nat
    PROVE  /\ Append(got, x) \in Seq(Nat) /\ Len(Append(got, x)) = Len(got) + 1
           /\ \A i \in 1 .. Len(got) : Append(got, x)[i] = got[i]
           /\ Append(got, x)[Len(got) + 1] = x
           /\ Prefix(got, got) /\ Prefix(got, Append(got, x))
           /\ Prefix(Append(got, x), Append(got, x))
  <1>1. /\ Append(got, x) \in Seq(Nat) /\ Len(Append(got, x)) = Len(got) + 1
        /\ \A i \in 1 .. Len(got) : Append(got, x)[i] = got[i]
        /\ Append(got, x)[Len(got) + 1] = x
    BY AppendProperties
  <1> QED
    BY <1>1 DEF Prefix

(* The parts of a sequence that is not empty.                              *)
LEMMA HeadAndTail ==
    ASSUME NEW S, NEW s \in Seq(S), s # <<>>
    PROVE  /\ Head(s) \in S /\ Tail(s) \in Seq(S)
           /\ Len(s) \in Nat /\ Len(Tail(s)) = Len(s) - 1
  BY HeadTailProperties

(* The queue of acks stays within its capacity.                            *)
LEMMA QueuedWithin ==
    ASSUME NEW S, srv.q \in Seq(S), Len(srv.q) <= AckQueue, NEW ack \in S
    PROVE  Queued(ack) \in Seq(S) /\ Len(Queued(ack)) <= AckQueue
  <1>1. AckQueue \in Nat /\ Len(srv.q) \in Nat
    BY ProbeAssumption
  <1>2. Append(srv.q, ack) \in Seq(S) /\ Len(Append(srv.q, ack)) = Len(srv.q) + 1
    BY AppendProperties
  <1>3. CASE Len(srv.q) < AckQueue
    BY <1>1, <1>2, <1>3 DEF Queued
  <1>4. CASE ~(Len(srv.q) < AckQueue)
    BY <1>4 DEF Queued
  <1> QED
    BY <1>3, <1>4

(* What a restore leaves of a sequence has elements of that sequence only. *)
LEMMA DroppedDoubled ==
    ASSUME NEW S, NEW s \in Seq(S)
    PROVE  /\ \A t \in Dropped(s) : t \in Seq(S)
           /\ \A t \in Doubled(s) : t \in Seq(S)
  <1>1. \A i \in DOMAIN s : /\ RemoveAt(s, i) \in Seq(S)
                            /\ InsertAt(s, i, s[i]) \in Seq(S)
    BY DEF RemoveAt, InsertAt
  <1> QED
    BY <1>1 DEF Dropped, Doubled

(* An altered frame has its number still.                                  *)
LEMMA AlteredFrames ==
    ASSUME NEW n \in Nat, NEW s \in Seq(Frames(n))
    PROVE  \A t \in Altered(s) : t \in Seq(Frames(n))
  <1>1. ASSUME NEW i \in DOMAIN s
        PROVE  [s EXCEPT ![i].ok = FALSE] \in Seq(Frames(n))
    <2>1. s[i] \in Frames(n) /\ i \in 1 .. Len(s)
      BY ElementOfSeq
    <2>2. [s[i] EXCEPT !.ok = FALSE] \in Frames(n)
      BY <2>1 DEF Frames
    <2> QED
      BY <2>1, <2>2, ExceptSeq
  <1> QED
    BY <1>1 DEF Altered

-----------------------------------------------------------------------------
(* Nothing is sent yet.                                                    *)
LEMMA InitPInv == Init => PInv
  BY ProbeAssumption
  DEF Init, NewClient, NewServer, PInv, ClientOK, ServerOK, NetOK, ClocksOK, Vouched

(* The dial leaves what was sent and taken alone.                          *)
LEMMA DialPInv ==
    ASSUME PInv, Dial
    PROVE  PInv'
  BY DEF Dial, PInv, ClientOK, ServerOK, NetOK, ClocksOK, Vouched

(* runLoopbackStream keeps the invariant: a frame sent is a frame pending. *)
LEMMA SendFramePInv ==
    ASSUME PInv, SendFrame
    PROVE  PInv'
  <1> DEFINE seq == cli.sent + 1
  <1>1. seq \in 1 .. MaxSeq /\ cli.sent \in Nat /\ seq \in Nat /\ cli.sent <= seq
    BY ProbeAssumption DEF SendFrame, PInv, ClientOK
  <1>2. /\ cli'.sent = seq /\ cli'.pend = cli.pend \cup {seq}
        /\ cli'.acked = cli.acked /\ cli'.bad = cli.bad
    BY <1>1 DEF SendFrame, PInv, ClientOK
  <1>3. srv.got \in Seq(1 .. cli.sent) /\ srv.got \in Seq(Nat) /\ Prefix(srv.got, srv.got)
    BY <1>1 DEF PInv, ServerOK, Prefix
  <1>4. /\ Seq(1 .. cli.sent) \subseteq Seq(1 .. seq)
        /\ Seq(Frames(cli.sent)) \subseteq Seq(Frames(seq))
        /\ Seq(Acks(cli.sent, srv.got)) \subseteq Seq(Acks(seq, srv.got))
    BY <1>1, <1>3, Growth
  <1>5. ClientOK'
    <2>1. cli' = [est |-> cli'.est, stopped |-> cli'.stopped, sent |-> cli'.sent,
                  acked |-> cli'.acked, pend |-> cli'.pend, bad |-> cli'.bad,
                  broken |-> cli'.broken]
      BY DEF PInv, ClientOK, SendFrame
    <2>2. cli'.sent \in 0 .. MaxSeq /\ cli'.acked \in 0 .. cli'.sent /\ cli'.pend \subseteq 1 .. cli'.sent
      BY <1>1, <1>2 DEF PInv, ClientOK
    <2> QED
      BY <2>1, <2>2 DEF ClientOK
  <1>6. ServerOK'
    BY <1>2, <1>4 DEF PInv, ServerOK, SendFrame
  <1>7. Frame(seq) \in Frames(seq)
    BY <1>1 DEF Frame, Frames
  <1>8. NetOK'
    <2>1. net.up \in Seq(Frames(seq)) /\ net.down \in Seq(Acks(seq, srv.got))
      BY <1>4 DEF PInv, NetOK
    <2>2. Append(net.up, Frame(seq)) \in Seq(Frames(seq))
      BY <1>7, <2>1, AppendProperties
    <2> QED
      BY <1>2, <2>1, <2>2 DEF PInv, NetOK, SendFrame
  <1>9. ClocksOK' /\ Vouched'
    BY <1>1, <1>2 DEF PInv, ClocksOK, ClientOK, Vouched, SendFrame
  <1> QED
    BY <1>5, <1>6, <1>8, <1>9 DEF PInv

(* readAcks keeps the invariant: an ack in order is of a pending frame, and *)
(* its CRC is compared with that of every frame up to it.                  *)
LEMMA ReadAckPInv ==
    ASSUME PInv, ReadAck
    PROVE  PInv'
  <1> DEFINE a == Head(net.down)
  <1>1. /\ net.down \in Seq(Acks(cli.sent, srv.got)) /\ net.down # <<>>
        /\ cli.sent \in 0 .. MaxSeq /\ cli.acked \in 0 .. MaxSeq /\ srv.got \in Seq(Nat)
    BY ProbeAssumption DEF PInv, NetOK, ReadAck, ClientOK, ServerOK
  <1>2. a \in Acks(cli.sent, srv.got) /\ Tail(net.down) \in Seq(Acks(cli.sent, srv.got))
    BY <1>1, HeadAndTail
  <1>3. a.seq \in 1 .. cli.sent /\ a.crc \in Seq(Nat) /\ Prefix(a.crc, srv.got)
    BY <1>2 DEF Acks
  <1>4. /\ cli'.acked = a.seq /\ cli'.pend = cli.pend \ {a.seq} /\ cli'.sent = cli.sent
        /\ cli'.bad = (cli.bad \/ AckBad(a))
    BY DEF PInv, ClientOK, ReadAck
  <1>6. ClientOK'
    <2>1. cli' = [est |-> cli'.est, stopped |-> cli'.stopped, sent |-> cli'.sent,
                  acked |-> cli'.acked, pend |-> cli'.pend, bad |-> cli'.bad,
                  broken |-> cli'.broken]
      BY DEF PInv, ClientOK, ReadAck
    <2>2. cli'.sent \in 0 .. MaxSeq /\ cli'.acked \in 0 .. cli'.sent /\ cli'.pend \subseteq 1 .. cli'.sent
      BY <1>1, <1>3, <1>4 DEF PInv, ClientOK
    <2> QED
      BY <2>1, <2>2 DEF ClientOK
  <1>7. ServerOK' /\ NetOK' /\ ClocksOK'
    BY <1>2, <1>4 DEF PInv, ServerOK, NetOK, ClocksOK, ReadAck
  <1>8. Vouched'
    <2> SUFFICES ASSUME ~cli.bad, ~AckBad(a)
                 PROVE  /\ \A i \in 1 .. cli.sent : i > a.seq => i \in cli.pend \ {a.seq}
                        /\ a.seq <= Len(srv.got)
                        /\ \A i \in 1 .. a.seq : srv.got[i] = i
      BY <1>4 DEF Vouched, ReadAck
    <2>1. cli.acked < a.seq
      BY <1>1, <1>3 DEF AckBad
    <2>2. a.seq \in cli.pend
      BY <1>3, <2>1 DEF PInv, Vouched
    <2>3. a.crc = CRC(a.seq)
      BY <2>2 DEF AckBad
    <2>4. Len(a.crc) = a.seq /\ \A i \in 1 .. a.seq : a.crc[i] = i
      BY <1>3, <2>3 DEF CRC
    <2>5. a.seq <= Len(srv.got) /\ \A i \in 1 .. a.seq : srv.got[i] = i
      BY <1>3, <2>4 DEF Prefix
    <2>6. \A i \in 1 .. cli.sent : i > a.seq => i \in cli.pend \ {a.seq}
      <3>1. \A i \in 1 .. cli.sent : i > cli.acked => i \in cli.pend
        BY DEF PInv, Vouched
      <3>2. cli.sent \in Nat /\ cli.acked \in Nat /\ a.seq \in Nat
        BY <1>1, <1>3
      <3> QED
        BY <2>1, <3>1, <3>2
    <2> QED
      BY <2>5, <2>6
  <1> QED
    BY <1>6, <1>7, <1>8 DEF PInv

(* A read error of the client leaves what was sent and taken alone.        *)
LEMMA ReadAckFailsPInv ==
    ASSUME PInv, ReadAckFails
    PROVE  PInv'
  BY DEF ReadAckFails, PInv, ClientOK, ServerOK, NetOK, ClocksOK, Vouched

(* handleConn keeps the invariant: an ack carries the CRC of all that was  *)
(* taken so far, and what is taken is only added to.                       *)
LEMMA HandleFramePInv ==
    ASSUME PInv, HandleFrame
    PROVE  PInv'
  <1> DEFINE f   == Head(net.up)
             got == Append(srv.got, f.seq)
  <1>1. /\ net.up \in Seq(Frames(cli.sent)) /\ net.up # <<>> /\ cli.sent \in Nat
        /\ srv.got \in Seq(1 .. cli.sent) /\ srv.got \in Seq(Nat)
        /\ srv.q \in Seq(Acks(cli.sent, srv.got)) /\ Len(srv.q) \in Nat /\ Len(srv.q) <= AckQueue
    BY ProbeAssumption DEF PInv, NetOK, HandleFrame, ClientOK, ServerOK
  <1>2. f.seq \in 1 .. cli.sent /\ Tail(net.up) \in Seq(Frames(cli.sent))
    <2>1. f \in Frames(cli.sent) /\ Tail(net.up) \in Seq(Frames(cli.sent))
      BY <1>1, HeadAndTail
    <2> QED
      BY <2>1 DEF Frames
  <1>3. ClientOK' /\ ClocksOK'
    BY DEF PInv, ClientOK, ClocksOK, HandleFrame
  <1>4. CASE f.ok
    <2>1. /\ srv' = [srv EXCEPT !.got = got, !.last = f.seq,
                                !.bad = @ \/ (srv.got # <<>> /\ f.seq # srv.last + 1),
                                !.st = IF Len(srv.q) < AckQueue THEN @ ELSE "drain",
                                !.q = Queued(Ack(f.seq, got))]
          /\ net' = [net EXCEPT !.up = Tail(@)] /\ UNCHANGED cli
      BY <1>4 DEF HandleFrame
    <2>2. /\ got \in Seq(Nat) /\ Len(got) = Len(srv.got) + 1 /\ got \in Seq(1 .. cli.sent)
          /\ \A i \in 1 .. Len(srv.got) : got[i] = srv.got[i]
          /\ got[Len(got)] = f.seq /\ Prefix(srv.got, got) /\ Prefix(got, got)
      BY <1>1, <1>2, PrefixAppend
    <2> HIDE DEF f, got
    <2>3. Seq(Acks(cli.sent, srv.got)) \subseteq Seq(Acks(cli.sent, got))
      <3>1. cli.sent <= cli.sent
        BY <1>1
      <3>2. srv.got \in Seq(Nat) /\ got \in Seq(Nat) /\ Prefix(srv.got, got)
        BY <1>1, <2>2
      <3> QED
        BY <1>1, <3>1, <3>2, Growth
    <2>4. Ack(f.seq, got) \in Acks(cli.sent, got)
      BY <1>2, <2>2 DEF Ack, Acks
    <2>6. /\ Queued(Ack(f.seq, got)) \in Seq(Acks(cli.sent, got))
          /\ Len(Queued(Ack(f.seq, got))) <= AckQueue
      BY <1>1, <2>3, <2>4, QueuedWithin
    <2>7. /\ srv'.got = got /\ srv'.last = f.seq /\ srv'.q = Queued(Ack(f.seq, got))
          /\ srv' = [st |-> srv'.st, got |-> srv'.got, last |-> srv'.last, bad |-> srv'.bad, q |-> srv'.q]
      BY <2>1 DEF PInv, ServerOK
    <2>8. ServerOK'
      <3>1. got # <<>> /\ Last(got) = f.seq
        BY <1>1, <2>2 DEF Last
      <3> QED
        BY <2>1, <2>2, <2>6, <2>7, <3>1 DEF ServerOK
    <2>9. NetOK'
      BY <1>2, <2>1, <2>3, <2>7 DEF PInv, NetOK
    <2>10. Vouched'
      <3>1. cli.acked \in Nat /\ Len(srv.got) \in Nat
        BY <1>1 DEF PInv, ClientOK
      <3>2. cli' = cli /\ srv'.got = got
        BY <2>1, <2>7
      <3>3. ~cli.bad => /\ cli.acked <= Len(srv.got)
                        /\ \A i \in 1 .. cli.acked : i \in 1 .. Len(srv.got) /\ srv.got[i] = i
        BY <3>1 DEF PInv, Vouched
      <3>4. ~cli.bad => cli.acked <= Len(got)
        BY <2>2, <3>1, <3>3
      <3>5. ~cli.bad => \A i \in 1 .. cli.acked : got[i] = i
        BY <2>2, <3>3
      <3> QED
        BY <3>2, <3>4, <3>5 DEF PInv, Vouched
    <2> QED
      BY <1>3, <2>8, <2>9, <2>10 DEF PInv
  <1>5. CASE ~f.ok
    <2>1. /\ srv' = [srv EXCEPT !.bad = TRUE] \/ srv' = [srv EXCEPT !.st = "drain"]
          /\ net' = [net EXCEPT !.up = Tail(@)] /\ UNCHANGED cli
      BY <1>5 DEF HandleFrame
    <2>2. srv'.got = srv.got /\ srv'.q = srv.q /\ srv'.last = srv.last
      BY <2>1 DEF PInv, ServerOK
    <2>3. ServerOK'
      BY <2>1, <2>2 DEF PInv, ServerOK
    <2>4. NetOK' /\ Vouched'
      BY <1>2, <2>1, <2>2 DEF PInv, NetOK, Vouched
    <2> QED
      BY <1>3, <2>3, <2>4 DEF PInv
  <1> QED
    BY <1>4, <1>5

(* The ack writer passes an ack on as it was queued, or drops it.          *)
LEMMA WriteAckPInv ==
    ASSUME PInv, WriteAck
    PROVE  PInv'
  <1>1. /\ srv.q \in Seq(Acks(cli.sent, srv.got)) /\ srv.q # <<>>
        /\ net.down \in Seq(Acks(cli.sent, srv.got))
    BY DEF PInv, ServerOK, NetOK, WriteAck
  <1>2. /\ Tail(srv.q) \in Seq(Acks(cli.sent, srv.got)) /\ Len(Tail(srv.q)) <= Len(srv.q)
        /\ Append(net.down, Head(srv.q)) \in Seq(Acks(cli.sent, srv.got))
    <2>1. /\ Head(srv.q) \in Acks(cli.sent, srv.got) /\ Tail(srv.q) \in Seq(Acks(cli.sent, srv.got))
          /\ Len(srv.q) \in Nat /\ Len(Tail(srv.q)) = Len(srv.q) - 1
      BY <1>1, HeadAndTail
    <2> QED
      BY <1>1, <2>1, AppendProperties
  <1>3. srv'.got = srv.got /\ srv'.q = Tail(srv.q) /\ srv'.last = srv.last /\ UNCHANGED cli
    BY DEF PInv, ServerOK, WriteAck
  <1>4. ServerOK'
    <2>1. srv' = [st |-> srv'.st, got |-> srv'.got, last |-> srv'.last, bad |-> srv'.bad, q |-> srv'.q]
      BY DEF PInv, ServerOK, WriteAck
    <2>2. Len(srv.q) <= AckQueue /\ Len(srv.q) \in Nat /\ Len(Tail(srv.q)) \in Nat /\ AckQueue \in Nat
      BY <1>1, <1>2, ProbeAssumption DEF PInv, ServerOK
    <2> QED
      BY <1>2, <1>3, <2>1, <2>2 DEF PInv, ServerOK
  <1>5. NetOK'
    BY <1>2, <1>3 DEF PInv, NetOK, WriteAck
  <1>6. ClientOK' /\ ClocksOK' /\ Vouched'
    BY <1>3 DEF PInv, ClientOK, ClocksOK, Vouched, WriteAck
  <1> QED
    BY <1>4, <1>5, <1>6 DEF PInv

(* Closing the connection leaves what was sent and taken alone.            *)
LEMMA CloseConnPInv ==
    ASSUME PInv, CloseConn
    PROVE  PInv'
  BY DEF CloseConn, PInv, ClientOK, ServerOK, NetOK, ClocksOK, Vouched

-----------------------------------------------------------------------------
(* Whatever the restore does, the connection has only frames and acks that *)
(* it had before.                                                          *)
LEMMA DamagedNet ==
    ASSUME PInv, NEW d \in Damages
    PROVE  \A n \in Damaged(d) :
             n \in [st : {"closed", "open", "stalled", "deaf"}, up : Seq(Frames(cli.sent)),
                    down : Seq(Acks(cli.sent, srv.got))]
  <1> DEFINE Net == [st : {"closed", "open", "stalled", "deaf"}, up : Seq(Frames(cli.sent)),
                     down : Seq(Acks(cli.sent, srv.got))]
  <1> SUFFICES ASSUME NEW n \in Damaged(d)
               PROVE  n \in Net
    OBVIOUS
  <1>1. net \in Net /\ cli.sent \in Nat
    BY ProbeAssumption DEF PInv, NetOK, ClientOK
  <1>2. CASE d \in {"drop", "dup", "alter"}
    <2>1. PICK s \in Dropped(net.up) \cup Doubled(net.up) \cup Altered(net.up) :
            n = [net EXCEPT !.up = s]
      BY <1>2 DEF Damaged
    <2>2. s \in Seq(Frames(cli.sent))
      BY <1>1, DroppedDoubled, AlteredFrames
    <2> QED
      BY <1>1, <2>1, <2>2
  <1>3. CASE d \in {"dropAck", "dupAck"}
    <2>1. PICK s \in Dropped(net.down) \cup Doubled(net.down) : n = [net EXCEPT !.down = s]
      BY <1>3 DEF Damaged
    <2>2. s \in Seq(Acks(cli.sent, srv.got))
      BY <1>1, DroppedDoubled
    <2> QED
      BY <1>1, <2>1, <2>2
  <1>4. CASE d = "firstAck"
    <2>1. net.down # <<>> /\ n = [net EXCEPT !.down = Tail(net.down)]
      BY <1>4 DEF Damaged, First
    <2>2. Tail(net.down) \in Seq(Acks(cli.sent, srv.got))
      BY <1>1, <2>1, HeadAndTail
    <2> QED
      BY <1>1, <2>1, <2>2
  <1>5. CASE d \in {"break", "stall", "stallAcks"}
    <2>1. <<>> \in Seq(Frames(cli.sent)) /\ <<>> \in Seq(Acks(cli.sent, srv.got))
      OBVIOUS
    <2>2. \/ n = [st |-> "closed", up |-> <<>>, down |-> <<>>]
          \/ n = [st |-> "stalled", up |-> <<>>, down |-> <<>>]
          \/ n = [net EXCEPT !.st = "deaf", !.down = <<>>]
      BY <1>5 DEF Damaged
    <2>3. net = [st |-> net.st, up |-> net.up, down |-> net.down] /\ net.up \in Seq(Frames(cli.sent))
      BY <1>1
    <2>4. CASE n = [net EXCEPT !.st = "deaf", !.down = <<>>]
      BY <2>1, <2>3, <2>4
    <2>5. CASE n = [st |-> "closed", up |-> <<>>, down |-> <<>>]
      BY <2>1, <2>5
    <2>6. CASE n = [st |-> "stalled", up |-> <<>>, down |-> <<>>]
      BY <2>1, <2>6
    <2> QED
      BY <2>2, <2>4, <2>5, <2>6
  <1> QED
    BY <1>2, <1>3, <1>4, <1>5, ProbeAssumption DEF DamageNames

(* A restore keeps the invariant, damage or not.                           *)
LEMMA RestorePInv ==
    ASSUME PInv, NEW seen \in BOOLEAN, Restore(seen)
    PROVE  PInv'
  <1>1. ClocksOK'
    BY ProbeAssumption DEF PInv, ClocksOK, Restore
  <1>2. UNCHANGED cli /\ (srv' = srv \/ srv' = [srv EXCEPT !.st = "drain"])
    BY DEF Restore
  <1>3. srv'.got = srv.got /\ srv'.q = srv.q /\ srv'.last = srv.last
    BY <1>2 DEF PInv, ServerOK
  <1>4. ServerOK'
    BY <1>2, <1>3 DEF PInv, ServerOK
  <1>5. NetOK'
    BY <1>2, <1>3, DamagedNet DEF PInv, NetOK, Restore
  <1>6. ClientOK' /\ Vouched'
    BY <1>2, <1>3 DEF PInv, ClientOK, Vouched
  <1> QED
    BY <1>1, <1>4, <1>5, <1>6 DEF PInv

(* Every step of client, server and platform keeps the invariant.          *)
LEMMA NextPInv == PInv /\ [Next]_vars => PInv'
  <1> SUFFICES ASSUME PInv, [Next]_vars
               PROVE  PInv'
    OBVIOUS
  <1>1. CASE Pause
    BY <1>1, ProbeAssumption DEF Pause, Running, PInv, ClientOK, ServerOK, NetOK, ClocksOK, Vouched
  <1>2. CASE Suspend
    BY <1>2, ProbeAssumption DEF Suspend, Running, PInv, ClientOK, ServerOK, NetOK, ClocksOK, Vouched
  <1>3. CASE UNCHANGED vars
    BY <1>3 DEF vars, PInv, ClientOK, ServerOK, NetOK, ClocksOK, Vouched
  <1> QED
    BY <1>1, <1>2, <1>3, DialPInv, SendFramePInv, ReadAckPInv, ReadAckFailsPInv, HandleFramePInv,
       WriteAckPInv, CloseConnPInv, RestorePInv
    DEF Next

(* The invariant holds of every behaviour of the experiment.               *)
THEOREM ProbeInvariant == Spec => []PInv
  BY InitPInv, NextPInv, PTL DEF Spec

(* What is sent, acknowledged and queued stays within its bounds, and the  *)
(* server's last frame is the last one that handleConn took.               *)
THEOREM ProbeTypeCorrect == Spec => []TypeOK
  <1>1. PInv => TypeOK
    BY ProbeAssumption DEF PInv, ClientOK, ServerOK, ClocksOK, TypeOK
  <1> QED
    BY <1>1, ProbeInvariant, PTL

(* Unless buildReport's verdict is FAIL, the server has taken every frame  *)
(* up to the last one acknowledged, each once and in order: the verdict    *)
(* PASS does not depend on the server's counters being fetched.            *)
THEOREM AcksVouch == Spec => []AckVouches
  <1>1. PInv => AckVouches
    BY DEF PInv, Vouched, AckVouches, Verdict
  <1> QED
    BY <1>1, ProbeInvariant, PTL
=============================================================================
