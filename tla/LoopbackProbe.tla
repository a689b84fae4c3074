--------------------------- MODULE LoopbackProbe ---------------------------
(***************************************************************************)
(* The experiment that the design rests on (demos/loopback-survival): does *)
(* a loopback connection inside an actor survive suspend and resume?  The  *)
(* client container sends numbered frames with a CRC, the server container *)
(* verifies and acknowledges them, and the client computes the verdict.    *)
(*                                                                         *)
(* The payload of a frame is its number.  A running CRC is the sequence of *)
(* payloads it was computed over; equal CRCs are equal sequences.          *)
(***************************************************************************)
EXTENDS Naturals, Sequences, SequencesExt

CONSTANTS
    MaxSeq,        \* bound: frames sent
    MaxRestores,   \* bound: suspends and restores
    AckQueue,      \* capacity of the server's queue of acks (1024 in the code)
    Damages        \* what a restore may do to the connection, once

DamageNames ==
    { "drop", "dup", "alter",           \* a frame
      "dropAck", "dupAck",              \* an ack, not the first
      "firstAck",                       \* the first ack is lost
      "break",                          \* both ends see an error
      "stall", "stallAcks" }            \* silence, in both directions or in one

ASSUME ProbeAssumption ==
    /\ {MaxSeq, AckQueue} \subseteq Nat \ {0} /\ MaxRestores \in Nat
    /\ Damages \subseteq DamageNames

VARIABLES
    actor,   \* "running" or "suspended"
    net,     \* the loopback connection: frames, acks and its state
    cli,     \* the client's stats: LastSeqSent, LastSeqAcked, pendingCRC, ...
    srv,     \* the server's stats, queue of acks, and where handleConn stands
    gaps,    \* len(ClockGaps)
    hit,     \* the damage done
    restores

vars == <<actor, net, cli, srv, gaps, hit, restores>>

NewClient == [est |-> FALSE, stopped |-> FALSE, sent |-> 0, acked |-> 0, pend |-> {},
              bad |-> FALSE, broken |-> FALSE]
NewServer == [st |-> "accept", got |-> <<>>, last |-> 0, bad |-> FALSE, q |-> <<>>]

Init ==
    /\ actor = "running"
    /\ net = [st |-> "closed", up |-> <<>>, down |-> <<>>]
    /\ cli = NewClient /\ srv = NewServer
    /\ gaps = 0 /\ hit = "none" /\ restores = 0

Running  == actor = "running"
CRC(seq) == [i \in 1 .. seq |-> i]

(* A frame passes its own CRC unless altered; an ack has the running one.  *)
Frame(seq)    == [seq |-> seq, ok |-> TRUE]
Ack(seq, crc) == [seq |-> seq, crc |-> crc]

-----------------------------------------------------------------------------
(* The client.  It dials until the server accepts, once.                   *)
Dial ==
    /\ Running /\ ~cli.est
    /\ cli' = [cli EXCEPT !.est = TRUE]
    /\ net' = [net EXCEPT !.st = "open"]
    /\ srv' = [srv EXCEPT !.st = "read"]
    /\ UNCHANGED <<actor, gaps, hit, restores>>

(* runLoopbackStream counts a frame, then writes it.  It stops at its own  *)
(* error, not at readAcks's; a write to a closed connection may pass.      *)
SendFrame ==
    LET seq == cli.sent + 1
    IN /\ Running /\ cli.est /\ seq <= MaxSeq /\ ~cli.stopped
       /\ \E err \in {FALSE, net.st = "closed"} :
             cli' = [cli EXCEPT !.sent = seq, !.pend = @ \cup {seq},
                                !.stopped = err, !.broken = @ \/ err]
       /\ net' = IF net.st \in {"open", "deaf"} THEN [net EXCEPT !.up = Append(@, Frame(seq))] ELSE net
       /\ UNCHANGED <<actor, srv, gaps, hit, restores>>

(* Mutant of AckBad: the running CRC is not compared.                      *)
AckBadNoCRC(a) == cli.acked # 0 /\ a.seq # cli.acked + 1

(* Mutant of AckBad: the order of the acks is not looked at.               *)
AckBadNoOrder(a) == a.seq \in cli.pend /\ a.crc # CRC(a.seq)

(* Out of order, but for the first, or not the CRC and byte count kept for *)
(* the frame in pendingCRC.                                                *)
AckBad(a) ==
    \/ cli.acked # 0 /\ a.seq # cli.acked + 1
    \/ a.seq \in cli.pend /\ a.crc # CRC(a.seq)

ReadAck ==
    /\ Running /\ net.down # <<>>
    /\ LET a == Head(net.down)
       IN cli' = [cli EXCEPT !.acked = a.seq, !.pend = @ \ {a.seq}, !.bad = @ \/ AckBad(a)]
    /\ net' = [net EXCEPT !.down = Tail(@)]
    /\ UNCHANGED <<actor, srv, gaps, hit, restores>>

ReadAckFails ==
    /\ Running /\ cli.est /\ ~cli.broken /\ net.st = "closed" /\ net.down = <<>>
    /\ cli' = [cli EXCEPT !.broken = TRUE]
    /\ UNCHANGED <<actor, net, srv, gaps, hit, restores>>

-----------------------------------------------------------------------------
(* Mutant of Queued: the queue of acks grows.                              *)
QueuedAlways(ack) == Append(srv.q, ack)

Queued(ack) == IF Len(srv.q) < AckQueue THEN Append(srv.q, ack) ELSE srv.q

(* The server.  handleConn takes a frame and queues its ack; a full queue  *)
(* or a read error ends it, a CRC violation does not.                      *)
HandleFrame ==
    LET f   == Head(net.up)
        got == Append(srv.got, f.seq)
    IN /\ Running /\ srv.st = "read" /\ net.up # <<>>
       /\ net' = [net EXCEPT !.up = Tail(@)]
       /\ \/ /\ f.ok
             /\ srv' = [srv EXCEPT !.got = got, !.last = f.seq,
                                   !.bad = @ \/ (srv.got # <<>> /\ f.seq # srv.last + 1),
                                   !.st = IF Len(srv.q) < AckQueue THEN @ ELSE "drain",
                                   !.q = Queued(Ack(f.seq, got))]
          \/ ~f.ok /\ srv' = [srv EXCEPT !.bad = TRUE]
          \/ ~f.ok /\ srv' = [srv EXCEPT !.st = "drain"]
       /\ UNCHANGED <<actor, cli, gaps, hit, restores>>

WriteAck ==
    /\ Running /\ srv.q # <<>> /\ net.st \in {"open", "closed"}
    /\ srv' = [srv EXCEPT !.q = Tail(@)]
    /\ net' = IF net.st = "open" THEN [net EXCEPT !.down = Append(@, Head(srv.q))] ELSE net
    /\ UNCHANGED <<actor, cli, gaps, hit, restores>>

(* handleConn waits for the ack writer before it closes the connection.    *)
CloseConn ==
    /\ Running /\ srv.st = "drain" /\ srv.q = <<>>
    /\ srv' = [srv EXCEPT !.st = "done"]
    /\ net' = [net EXCEPT !.st = "closed"]
    /\ UNCHANGED <<actor, cli, gaps, hit, restores>>

-----------------------------------------------------------------------------
(* The platform (external).  Frames and acks damaged are followed by more. *)
Suspend ==
    /\ Running /\ restores < MaxRestores
    /\ actor' = "suspended" /\ restores' = restores + 1
    /\ UNCHANGED <<net, cli, srv, gaps, hit>>

Dropped(s) == {RemoveAt(s, i) : i \in {j \in DOMAIN s : s[j].seq < MaxSeq}}
Doubled(s) == {InsertAt(s, i, s[i]) : i \in {j \in DOMAIN s : s[j].seq < MaxSeq}}
Altered(s) == {[s EXCEPT ![i].ok = FALSE] : i \in {j \in DOMAIN s : s[j].seq < MaxSeq}}
First(s)   == s # <<>> /\ Head(s).seq = 1

Damaged(d) ==
    CASE d = "drop"     -> {[net EXCEPT !.up = s] : s \in Dropped(net.up)}
      [] d = "dup"      -> {[net EXCEPT !.up = s] : s \in Doubled(net.up)}
      [] d = "alter"    -> {[net EXCEPT !.up = s] : s \in Altered(net.up)}
      [] d = "dropAck"  -> {[net EXCEPT !.down = s] : s \in
                              {t \in Dropped(net.down) : First(net.down) => First(t)}}
      [] d = "dupAck"   -> {[net EXCEPT !.down = s] : s \in Doubled(net.down)}
      [] d = "firstAck" -> {[net EXCEPT !.down = Tail(@)] : x \in {y \in {1} : First(net.down)}}
      [] d = "break"    -> {[st |-> "closed", up |-> <<>>, down |-> <<>>]}
      [] d = "stall"    -> {[st |-> "stalled", up |-> <<>>, down |-> <<>>]}
      [] d = "stallAcks" -> {[net EXCEPT !.st = "deaf", !.down = <<>>]}

(* monitorClocks records the restore if the wall clock jumped far enough,  *)
(* and a long pause of the process as well.                                *)
Pause ==
    /\ Running /\ gaps < MaxRestores
    /\ gaps' = gaps + 1
    /\ UNCHANGED <<actor, net, cli, srv, hit, restores>>

Restore(seen) ==
    /\ actor = "suspended" /\ actor' = "running"
    /\ gaps' = gaps + (IF seen THEN 1 ELSE 0)
    /\ \/ UNCHANGED <<net, hit, srv>>
       \/ /\ net.st = "open" /\ hit = "none"
          /\ \E d \in Damages :
               /\ net' \in Damaged(d) /\ hit' = d
               /\ srv' = IF d = "break" THEN [srv EXCEPT !.st = "drain"] ELSE srv
    /\ UNCHANGED <<cli, restores>>

-----------------------------------------------------------------------------
(* buildReport; stats is whether the server's counters could be fetched.   *)
Verdict(stats) ==
    IF ~cli.est \/ cli.broken \/ cli.bad \/ (stats /\ srv.bad) THEN "FAIL"
    ELSE IF gaps = 0 THEN "NO_SUSPEND_OBSERVED" ELSE "PASS"

Next ==
    \/ Dial \/ SendFrame \/ ReadAck \/ ReadAckFails
    \/ HandleFrame \/ WriteAck \/ CloseConn
    \/ Pause \/ Suspend \/ \E seen \in BOOLEAN : Restore(seen)

Spec == Init /\ [][Next]_vars

(* The goroutines of both containers run, and a suspended actor is woken.  *)
Fairness ==
    /\ WF_vars(Dial) /\ WF_vars(SendFrame) /\ WF_vars(ReadAck) /\ WF_vars(ReadAckFails)
    /\ WF_vars(HandleFrame) /\ WF_vars(WriteAck) /\ WF_vars(CloseConn)
    /\ WF_vars(\E seen \in BOOLEAN : Restore(seen))

FairSpec == Spec /\ Fairness
-----------------------------------------------------------------------------
(* What is sent, acknowledged and queued stays within its bounds, and the  *)
(* server's last frame is the last one that it accepted.                   *)
TypeOK ==
    /\ cli.sent \in 0 .. MaxSeq /\ cli.acked \in 0 .. cli.sent /\ cli.pend \subseteq 1 .. cli.sent
    /\ Len(srv.q) <= AckQueue
    /\ srv.last = IF srv.got = <<>> THEN 0 ELSE Last(srv.got)
    /\ gaps <= MaxRestores + restores

(* An ack vouches for everything before it: unless the verdict is FAIL the *)
(* server has accepted every frame up to the last one acknowledged, each   *)
(* once and in order, whether or not its own counters are looked at.       *)
AckVouches ==
    Verdict(FALSE) # "FAIL" =>
        /\ cli.acked <= Len(srv.got)
        /\ \A i \in 1 .. cli.acked : srv.got[i] = i

(* A frame that a restore loses, repeats or alters, an ack it loses or     *)
(* repeats, other than the loss of the first, and a connection it breaks   *)
(* end in the verdict FAIL, once more is sent over the connection.  The    *)
(* loss of the first ack and a connection that falls silent are among      *)
(* DamageNames, but no counter of readAcks or buildReport shows them.      *)
DamageDetected == hit # "none" ~> Verdict(FALSE) = "FAIL"
=============================================================================
