# TLA+ models of the suspend-transparent egress tunnel

These modules model the parts of this repository that make an agent's network
I/O survive the suspend and resume of its actor: the resumable tunnel between
the sidecar and the egress broker, the broker's wake policy, the sidecar's
suspend policy, the reply-to relay that holds the client meanwhile, the
composition of these around one actor, and the experiment that the design rests
on. TLC checks them on small instances; TLAPS proves the central properties of
each part for every instance.

## The system

| Component | State | Operations | Hard because |
|---|---|---|---|
| Replay buffer (`internal/tunnel/buffer.go`) | base offset, retained bytes | Append, TrimTo, From, Free, End | offsets at the boundaries matter only after a trim and a reconnect |
| Wire format (`internal/tunnel/wire.go`) | a write buffer per connection | WriteFrame, ReadFrame | a refused frame leaves its header in the buffer |
| Sidecar client, sessions, proxy (`internal/sidecar/client.go`, `session.go`, `proxy.go`) | current connection; per session upBuf, downDelivered, close flags | OpenSession, writeUp, closeUp, connectOnce + ATTACH, onUpstreamAck, onAttachOK, deliverDown, onClose | proxy and read loop run concurrently; frames vanish in a zombie connection; the actor freezes anywhere |
| Broker, its sessions and tunnels (`internal/broker/broker.go`, `session.go`, `tunnelconn.go`) | session map; per session tunnel, preConn, downBuf, upstreamWritten, requestOutstanding, close flags, watchdog | the frame handlers, dialUpstream, readUpstreamLoop/produceDownstream, detach, closeUpstream, destroy, watchdog | a frame loop per tunnel, a reader and a dialer per session; handlers unlock before they write |
| Resumer (`internal/broker/resumer.go`) | calls in flight per actor name | resume, its retries, giving up | retries race the suspend; a wake-up is merged into a call in flight |
| Suspender (`internal/sidecar/suspender.go`) | last suspended call counts, last suspend, grace | the poll loop | decides on a snapshot; its own RPC freezes it |
| Activity tracker (`internal/activityz`) | in-flight and started counts, busy-since | callbacks, Snapshot | overlapping calls |
| Ingress interceptor (`internal/sidecar/ingress.go`) | in-flight count, idle-since | handle, process, deliver | acknowledges before it counts |
| Ingress broker (`demos/adk-calc/internal/ingressbroker`) | pending requests, a channel each | HandleRun, forwardToActor, HandleReply | retries of what was accepted; a reply may overtake the return of its forward |
| Loopback probe (`demos/loopback-survival`) | counters and running CRCs at both ends, queue of acks | runLoopbackStream, readAcks, handleConn, buildReport | the verdict must catch any damage a restore can do |

The sidecar and the broker exchange frames over a TCP connection the sidecar
redials; every frame that matters carries a stream offset. The broker resumes
the actor (through the resumer) when a detached session with a request
outstanding has something for it. The suspender reads the tracker over loopback
and the ingress's counter directly, and suspends the actor. The two policies
share no state: what connects them is the platform's suspend and resume. A
client's request comes through the ingress broker and atenet, which resumes the
actor, to the sidecar's interceptor; that answers 202 at once, has the agent work
on it over loopback and posts the response to the ingress broker.

What makes the parts correct:
- the agent reads its upstream stream once and in order; the destination reads
  the agent's, once and in order; an end of stream comes last;
- neither side forgets a byte the other lacks;
- a request outstanding is answered eventually, and no actor sleeps on an answer
  that waits in the broker; an answered connection wakes nobody;
- a blocked call suspends the actor, once; an actor is not suspended on work
  that nothing will wake it for;
- a client who waits is answered, with a response that the agent gave to its
  request, and the agent does not run twice without need;
- the verdict of the loopback experiment is FAIL whenever a byte was lost,
  repeated or altered.

## Modules

| Module | Models |
|---|---|
| `ReplayBuffer` | `internal/tunnel/buffer.go`, as operators on a record `[base, buf]` |
| `TunnelSession` | one agent connection end to end: sidecar, tunnel connections, broker, with the agent, the destination and the platform as environment |
| `BytePipe` | what the tunnel promises: a byte pipe each way, with an end of stream downstream |
| `TunnelPipe` | the refinement mapping from `TunnelSession` to `BytePipe` |
| `TunnelSessionProofs`, `TunnelStreamProofs`, `TunnelUpstreamProofs`, `TunnelPipeProofs` | theorems about `TunnelSession` and their proofs |
| `Suspender` | suspender, activity tracker and the ingress's in-flight count, with the agent's calls, the clients and the platform as environment |
| `ReplyRelay` | ingress broker, interceptor and agent server, with the clients, atenet, the network and the platform as environment; what it expects of the egress side is `EgressPromise` |
| `Resumer` | `internal/broker/resumer.go`, as actions that a module composes with its own |
| `EndToEnd` | `ReplyRelay` with the egress side in place of the promise: tunnel, broker sessions, `Resumer`, suspend gate, platform |
| `LoopbackProbe` | `demos/loopback-survival`: both containers, the connection between them, and restores that damage it |
| `ReplyRelayProofs`, `EndToEndProofs`, `SuspenderProofs`, `LoopbackProbeProofs` | theorems about the modules they are named after, and their proofs |
| `MCTunnelSession`, `MCSuspender` | definitions used by the `.cfg` files |

### TunnelSession

State: `cs` is the `clientSession`, `bs[i]` the i-th `session` object the broker
created for the connection (`cur` is the one in its map), `srv[i]` the
destination's end of its upstream connection. `link[t]`, `upq[t]`, `downq[t]` are
tunnel connections and the frames in flight; `loop`, `conn` are `Client.Run` and
`Client.conn`. `actor`, `wake`, `faults` belong to the platform and the resumer.
The k-th byte the agent writes is `<<0, k>>`, the k-th byte of the i-th upstream
connection `<<i, k>>`, so that loss, repetition, reordering and mixing show.

Each action is one critical section of a goroutine. Where the code unlocks with
work left, the rest is its own action: `wout` holds the frame `writeUp` has
retained but not sent, `rout` the frame the read loop is about to send, `pend[t]`
the handler the broker's frame loop of tunnel `t` is in the middle of (`onData`
between `upstream.Write` and its accounting, `onSidecarAttach` between its
snapshot and its sends), and `dial = "flushing"` a dialer that has published the
connection but not flushed `preConn`. The constant `Preempt` names the places
where another goroutine may run in between; a place left out is one where the
goroutine runs on. This is how a run isolates one race, and how the serialised
behaviour is checked apart from the races. A handler of the broker is a
composition of steps (`Detach`, `SendToSidecar`, `CloseUpstream`, `Destroy`, ...)
on a record of what it may change, committed at once.

A suspend and a connection failure both cut the current tunnel: of the frames in
flight each way a prefix was received, later writes vanish or fail
(`WriteOutcomes`), and each end notices in its own time (`Disconnect`,
`TunnelEnd`). A suspend also stops every sidecar and agent action. PING, PONG and
the read deadline are what lets the ends notice; they are not separate frames
here. An oversized DATA frame becomes a `GARBLED` one (`OnWire`). A write to the
upstream fails once its write half is closed (`CloseWrite` in `onSidecarClose`) and
may fail once the destination has closed (`WriteMayFail`); `closeUpstream` then ends
the connection for the agent. `TunnelEnd` unbinds every session object bound to its
tunnel: `register` keeps one per key, so an object that was destroyed and replaced on
the same tunnel would stay bound in the code. It is detached here as well, with the
wake-up that goes with it, which adds behaviours and takes none away.

### Suspender

Time is kept as ages in poll intervals, capped one above the largest threshold.
`Poll` is the first half of a turn of `Run` (resume detection and `/statusz`),
`Decide` the second. `Windows` opens the places where something else may happen
within a turn: after the 202 and before `enterRequest` (`"ack"`), between the
status read and the decision (`"fetch"`), between SuspendActor and the checkpoint
(`"rpc"`). `Overlap` lets calls overlap. A resume comes from the egress broker
when a call was answered, or from a new request, and takes a gap that may be
shorter or longer than the resume-detection threshold; `ClockFreezes` says whether
monotonic time passes meanwhile.

### ReplyRelay

`run[r]` is `HandleRun` of request `r`: forwarding its n-th attempt, pausing after
a failed one, waiting in the select, or done with an outcome. `pending` and `ch`
are the registered requests and their channels. Each attempt has two sides: `att`,
what the ingress broker has seen of it, and `job`, what the sidecar made of it, a
job of its own, since nothing deduplicates. `posts` holds replies under way, a
repeated one next to the first. A failed post may have been read, may be read yet,
is lost, or, with `PartialBodies`, arrives in part. A suspend cuts the connections
into and out of the actor and leaves the loopback ones; it comes while the agent
waits for a call or between requests.

### Resumer and EndToEnd

`rsm[n]` is what is in flight for actor name `n`: nothing, the call, or a call that
returned and whose goroutine has not left the table yet. There are two names,
because a new actor starts as the golden snapshot of its template, with a dead
tunnel and that actor's name in memory; `Hello` is the name read for each
connection.

`EndToEnd` extends `ReplyRelay`: its steps are those of the relay with what they
mean on the egress side, and steps of the egress side that leave the relay alone.
A session is reduced to how far its call has come (dialing, pending, answered,
failed), the name it is kept under, whether it is bound and whether its watchdog is
still armed; its bytes are the subject of `TunnelSession`. The suspend decision is
reduced to the once-per-call gate; its clocks are the subject of `Suspender`.
SuspendActor takes time (`settling`), and ResumeActor is aborted meanwhile.
`ImplementsRelay` is the relay's specification with `EgressPromise`, so what
`reply_relay` shows under the promise holds of the composition; `ReplyRelay`'s
variables map to themselves. `Races` opens orders of events that the time-outs make
unlikely: a call suspended before the broker has it, the actor suspended again
before ResumeActor returned, a call that outlasts the watchdog.

### LoopbackProbe

The payload of a frame is its number, and a running CRC is the sequence of
payloads it covers: CRC collisions are left out. A restore may do one thing of
`Damages` to the connection. Frames and acks that it damages are followed by
others, since the client sends for ever: it stops at a write error of its own, not
when the reader of the acks has failed. `DamageNames` has two damages that the code
does not detect and that no run with DamageDetected includes: the loss of the first
ack, which is exempt from the order check, and a connection that falls silent.

## Runs

All runs use `CHECK_DEADLOCK FALSE`: the agent makes a bounded number of calls,
and a system with nothing left to do, or an actor left suspended, stops.

Passing:

| Run | Checks | Shows |
|---|---|---|
| `downstream_integrity` | TypeOK, AgentInOrder, AgentOneStream, UndeliveredRetained | with a fault anywhere, failing dials, closes, torn frames, a recreated session, an agent that closes early, and `onSidecarAttach`, `onData` and the dialer interrupted between their steps, the agent reads one upstream stream in order and the broker keeps what it lacks |
| `upstream_serialised` | UpstreamInOrder, UnwrittenRetained, QuiescentNoWake, ImplementsPipe | with the broker's handlers serialised and the sidecar's goroutines free, the session implements the byte pipes and an answered session stays quiet |
| `response_delivered` | NotStranded, ResponseDelivered | one-chunk responses and suspends of a blocked, attached actor: a waiting answer always has a wake-up behind it, and under fair scheduling every request is answered or refused, through two faults |
| `suspend_policy` | TypeOK, SuspendedOnce, SuspendedHasWaker, WakingRequestSafe | the suspend policy with one call at a time, failing polls and failing RPCs included |
| `suspend_liveness` | BlockedSuspends | fair polling, one call at a time: a blocked call suspends the actor |
| `reply_relay` | TypeOK, AcknowledgedReplyHeld, RunsBounded, ClientAnswered | one client, four attempts each way, a fault anywhere, a hang-up or a time-out at any time, two suspends: a reply acknowledged to the sidecar is held for the client, the agent runs again only when an acknowledgement was lost, and a client who waits gets the response |
| `end_to_end` | SuspendedHasWakeUp, ImplementsRelay | a new actor, a fault in the relay and one on the egress side (a cut tunnel, a failed dial, a failed or abandoned ResumeActor), two suspends: the egress side keeps its promise to the relay |
| `loopback_verdict` | TypeOK, AckVouches, DamageDetected | two restores, one of which may drop, repeat or alter a frame, drop an ack other than the first, repeat an ack or break the connection: the verdict is FAIL, from the client's own counters |

Runs that end in a violation. Each checks what a comment of the code says, in a
configuration with the one race or bound that breaks it open; `PROJECT.json`
quotes the line.

| Run | Property | What happens |
|---|---|---|
| `dial_window` | UpstreamInOrder | between the dial and the flush of `preConn`, DATA that continues `upstreamWritten` is written ahead of it, and the destination reads the same bytes twice |
| `partial_ack_strands` | NotStranded | an ACK in the middle of a response clears `requestOutstanding` |
| `truncated_reply` | ReplyIntact | a reply cut in its body is handed to the client |
| `suspend_unattached` | SuspendedHasWakeUp | a call made while the tunnel is down is suspended before the broker knows of it |

### Other configurations

The same properties fail in these variants of the runs above. They show other
places where the passing runs' restrictions matter; change the constants to see
the behaviour.

| Start from | Change | Fails | Because |
|---|---|---|---|
| `dial_window` | `Preempt = {"onData", "serveTunnel"}`, `MaxFaults = 1` | UpstreamInOrder | a replay is written again while the old frame loop has not counted its `upstream.Write` yet, although "replayed DATA after a reconnect is de-duplicated by offset" (broker `session.go:36`, `session.go:290`) |
| `response_delivered` | `RespLen = 2`, `MaxPayload = 1`, `ReadMax = 1` | ResponseDelivered | a replay of all of `downBuf` (up to 4 MiB) in one frame exceeds MaxPayload (256 KiB), and its header tears the tunnel on every reconnect (`session.go:345`) |
| `response_delivered` | `Preempt = {"dial"}`, `ReqLen = 2`, `MaxFaults = 0`, `LongWatchdog = TRUE` | ResponseDelivered | DATA in the dial window is dropped as a gap and never sent again (`session.go:283`) |
| `response_delivered` | `Preempt = {"deliverDown"}`, `Rounds = 2`, `MaxFaults = 1`, `LongWatchdog = TRUE` | ResponseDelivered | the ACK of one response clears the flag of the next request (`session.go:316`) |
| `response_delivered` | `Preempt = {"serveTunnel"}`, `MaxFaults = 1` | ResponseDelivered | a frame of the old tunnel, served after the new one's ATTACH, rebinds the session to the dead connection (`session.go:94`) |
| `downstream_integrity` | `Preempt = {"serveTunnel"}`, `MaxFaults = 2`, `DialFails = FALSE` | AgentOneStream | an OPEN and DATA of an old tunnel, served after the session was destroyed, recreate it, and the next ATTACH replays its bytes after the first one's (`broker.go:206`) |
| `upstream_serialised` | `MaxDials = 2`, `AgentCloses = TRUE`, `ReqLen = 1`, `Preempt = {}` | QuiescentNoWake | a destroyed session stays registered with its old tunnel and is detached, with a wake-up, when that ends (`session.go:115`) |
| `upstream_serialised` | `Preempt = {"onData", "serveTunnel"}` | QuiescentNoWake | the old frame loop returns from `upstream.Write` after the response was acknowledged on the new tunnel, and marks the request outstanding again (`session.go:301`) |
| `response_delivered` | `PoliteSuspend = FALSE`, `ServerCloses = TRUE` | NotStranded | the actor is suspended before the broker has read its request, and the close of a session with nothing outstanding wakes nobody (`session.go:378`) |
| `response_delivered` | `Preempt = {"deliverDown"}` or `{"serveTunnel"}`, `Rounds = 2` | NotStranded | the ACK of the first response is handled after the second request, held back by the sidecar or on the old tunnel, and clears its flag (`session.go:316`) |
| `upstream_serialised` | `Preempt = {"dial"}` or `{"onData", "serveTunnel"}` | ImplementsPipe | as in `dial_window` and the first row |
| `upstream_serialised` | `DialFails = TRUE` | ImplementsPipe | the agent is told of an end that no destination made (`session.go:131`) |
| `upstream_serialised` | `AgentCloses = TRUE` | ImplementsPipe | the agent's CLOSE is sent before the replay of what a cut lost and shuts the upstream's write half; the replayed write fails, and the agent is told of an end that the destination did not make (`session.go:362`, `session.go:292`) |
| `upstream_serialised` | `Preempt = {"onAttach"}` | ImplementsPipe | CLOSE overtakes the replay of `onSidecarAttach` (`session.go:337`) |
| `suspend_policy` | `Windows = {"rpc"}` | SuspendedHasWaker | a request accepted between the idle decision and the checkpoint is frozen with nothing to wake it (`suspender.go:192`) |
| `suspend_policy` | `Windows = {"ack"}` | SuspendedHasWaker | a request acknowledged but not counted is suspended as idle, although `in-flight == 0` is "precise and race-free" (`DESIGN.md:199`, `ingress.go:168`) |
| `suspend_policy` | `Windows = {"fetch"}` | SuspendedHasWaker, SuspendedOnce | a call ends, or the next one begins, between the status read and the decision taken on it (`suspender.go:153`) |
| `suspend_policy` | `Windows = {"rpc"}` | WakingRequestSafe | time passes between lastSuspend and the checkpoint, and the cooldown is over before the request is there |
| `suspend_policy` | `ClockFreezes = FALSE`, or `Arrival = 2` | WakingRequestSafe | the cooldown runs out while the actor sleeps, or before a slow request arrives (`suspender.go:180`) |
| `suspend_policy` | `Overlap = TRUE` | SuspendedOnce | a later call reopens the gate for an earlier one that is still in flight (`suspender.go:172`) |
| `suspend_liveness` | `Overlap = TRUE`, `IdleAfter = Cooldown = ResumeGap = 1` | BlockedSuspends | a gated tool call hides a blocked model call (`suspender.go:172`) |
| `reply_relay` | `ForwardAttempts = 1` | ClientAnswered | the only attempt fails on its way back, and the reply finds no client (`ingressbroker/broker.go:126`) |
| `reply_relay` | `DeliverAttempts = 1` | ClientAnswered | the response is given up (`ingress.go:204`) |
| `end_to_end` | `Races = {"return"}` | SuspendedHasWakeUp | a wake-up is merged into a ResumeActor call answered before the second suspend (`resumer.go:51`) |
| `end_to_end` | `Races = {"slow"}` | SuspendedHasWakeUp | the watchdog is used up when the only ResumeActor call fails (`session.go:455`) |
| `end_to_end` | `MaxErrs = 2` | SuspendedHasWakeUp | the wake-up and the watchdog's both fail, or a dial fails with the sidecar away (`resumer.go:78`, `session.go:131`) |
| `loopback_verdict` | `Damages = {"stall"}` | DamageDetected | a silent connection is no error to either end, and unacknowledged frames do not count (client `main.go:453`) |
| `loopback_verdict` | `Damages = {"stallAcks"}` | DamageDetected | the queue of acks fills up, and `handleConn` waits for the stuck writer before it closes (server `main.go:194`) |
| `loopback_verdict` | `Damages = {"firstAck"}` | DamageDetected | the first ack is exempt from the order check (client `main.go:221`) |

### Environment

In `TunnelSession` the agent and the destination take turns: the destination begins
to answer when it has the whole request (`ServerOwes`), and the agent writes the
next request when it has the whole response (`AgentToSend`), as HTTP/1.1 without
pipelining does. A destination that answers in the middle of a request and closes,
one that sends while it receives (HTTP/2 inside CONNECT), or one that reads only
when it is read from, is left out. There the CLOSE of a failed write
(`session.go:294`) could come ahead of response bytes that the broker has not read
yet, and a write that blocks (`session.go:292`) would hold up the ACKs behind it in
the frame loop. What is said of the end of the stream (ImplementsPipe,
ImplementsBytePipe), of an answered session (QuiescentNoWake) and of an agent that
waits (NotStranded, ResponseDelivered) rests on this; AgentInOrder, AgentOneStream,
UpstreamInOrder and the two on retained bytes are about offsets.

### Bounds

One session suffices for the tunnel: sessions share only the connection and the
resumer, and another session's effect on this one is a frame loop held up
(`"serveTunnel"`) or the actor resumed (`ResumeElsewhere`). Two tunnel numbers are
enough for the old connection and the new one to be served at once; a number is
reused when the broker's loop on it has ended. Requests and responses of one or
two bytes and buffers of two bytes make partial reads, partial acknowledgements
and full buffers happen. One fault places a cut between any two steps, two put one
into the recovery from another. Two dials make one recreation. In the suspender,
thresholds of one and two intervals, with a gap one above the resume threshold,
put every comparison on both sides of its boundary; two requests and three calls
make every pair of reasons meet. The `.cfg` files name every bound.

In the relay, a post fails once for each fault and each suspend that cuts it, so
four attempts are more than one fault and two suspends can use up, as five are in
the code; one request suffices, since requests share nothing but the actor's
suspends, and a second job of the same request stands for another's. In
`EndToEnd`, two attempts make two jobs with a call each, two suspends make a
suspend race the recovery from another, and one failure on the egress side is what
the watchdog is there for. In the probe, six frames and a queue of two acks let a
restore find frames and acks in flight in either direction, and more follow.

`PoliteSuspend` (response_delivered, partial_ack_strands) restricts
suspends to an actor that is blocked and attached, as the suspend policy intends;
`LongWatchdog` (partial_ack_strands) says that the five-minute watchdog does not
fire during a reconnect of seconds, so that it counts as the backstop it is meant
to be.

### Fairness

`TunnelSession`: weak fairness of each goroutine (proxy, `Client.Run`, each frame
loop, each session's dialer and reader, the watchdog timer), of the destination's
sending, and of ResumeActor. The Go scheduler and TCP give this. Nothing forces a
suspend, a cut, a close or a resume for other reasons. `Suspender`: weak fairness
of the poll loop, SuspendActor and the broker's resume; strong fairness of the
clock, of an arriving request and of the agent's return from an answered call,
since the poll loop's turn, one uninterrupted step in the model, disables them
for an instant although no goroutine waits for it in the code. `ReplyRelay`: weak
fairness of each handler, of each job in the sidecar and of atenet passing on a
request, and `EgressPromise` for the egress side; nothing forces a client to wait
or a fault to happen. `EndToEnd`: the relay's fairness and, in place of the
promise, weak fairness of the sidecar's and the broker's goroutines and timers, of
the destinations and of the platform. `LoopbackProbe`: weak fairness of both
containers' goroutines and of the resume of a suspended actor.

## Proofs

Eight modules hold theorems, four of them about `TunnelSession`. A theorem holds for
every value of the constants that satisfies the named assumptions of its module:
any number of requests, calls, attempts, faults, frames and suspends, any threshold
and any buffer size, where the runs fix small ones. Each safety property below is an
invariant of a run; none is inductive, and the inductive invariant that carries it
was checked with TLC before it was proved.

| Theorem | States | For |
|---|---|---|
| `TypeCorrect` (TunnelSession) | TypeOK | every set of open preemption points |
| `AgentReadsInOrder` | AgentInOrder | every set of open preemption points |
| `BrokerRetains` | UndeliveredRetained | every set of open preemption points |
| `AgentReadsOneStream` | AgentOneStream | `"serveTunnel"` closed, every other point open |
| `UpstreamReadsInOrder` | UpstreamInOrder | `"dial"` closed, and `"onData"` or `"serveTunnel"` closed |
| `SidecarRetains` | UnwrittenRetained | the same |
| `AnsweredStaysQuiet` | QuiescentNoWake | the same, and `MaxDials = 1` |
| `ImplementsBytePipe` (TunnelPipe) | ImplementsPipe | the same, `"onAttach"` closed, `DialFails = FALSE` and `AgentCloses = FALSE` |
| `NeverStranded` | NotStranded | `PoliteSuspend`, `RespLen = 1`, and `Rounds = 1` or `"deliverDown"` and `"serveTunnel"` closed; `MaxDials = 1` and one writer as above |
| `RelayTypeCorrect` (ReplyRelay) | TypeOK | no condition |
| `ReplyNeverDropped` | AcknowledgedReplyHeld | no condition |
| `AgentRunsBounded` | RunsBounded | no condition |
| `ImplementsRelaySafety` (EndToEnd) | `EgressSpec => Spec` | no condition |
| `RelayKept` | the relay's three invariants | no condition |
| `NeverLeftAsleep` | SuspendedHasWakeUp, as long as `errs <= 1` | `Races = {}` |
| `ProbeTypeCorrect` (LoopbackProbe) | TypeOK | every set of damages |
| `AcksVouch` | AckVouches | every set of damages |
| `SuspenderTypeCorrect` (Suspender) | TypeOK | every set of windows, overlapping calls too |
| `CallSuspendedOnce` | SuspendedOnce | `~Overlap`, `"fetch"` closed |
| `SuspendedWaitsForCall` | SuspendedHasWaker | `Windows = {}`, overlapping calls too |
| `WakingRequestAccepted` | WakingRequestSafe | `ClockFreezes`, `"rpc"` closed, `Arrival < Cooldown` |

A condition is where the property stops being true, not where the proof got stuck:
TLC finds the property violated when any one of them is dropped (see the runs that
end in a violation and *Other configurations*; the races, the windows and the second
failure are all there). There are three exceptions, which come with the invariants
the proofs are built on and for which TLC finds no violation: `"dial"` in
AnsweredStaysQuiet, `MaxDials = 1` in ImplementsBytePipe (with an agent that does not
close early), and `MaxDials = 1` and the single writer in NotStranded.

### TunnelSessionProofs

That the agent reads in order depends on every place a byte passes through, so
`IInv` says of each one that the bytes are where their offsets say: every `downBuf`
(`BufferOK`), every frame in flight to the sidecar (`QueueOK`) and the replay an
`onSidecarAttach` has copied but not sent (`HandlerOK`); `agentGot` is positioned
from zero and as long as `downDelivered`. That nothing the agent lacks is trimmed
depends on acknowledgements: none that is in flight on any tunnel, old or new, or
held by a goroutine before its send, exceeds `downDelivered` (`AcksOK`), and no
`downBuf.base` does. Frames of an old tunnel may be served at any time, so the
invariant ranges over all tunnels and all sessions ever created.

The proof has lemmas on buffers (`TrimToOK`, `FromPositioned`, `FreshPositioned`),
on queues (`WriteFrameQueues`, `WriteFrameAcks`, `TailOK`, `PrefixOK`), on the
broker's building blocks (`DetachOK`, `SendToSidecarOK`, `CloseUpstreamOK`, ...),
and one lemma per action. `Invariance` combines them.

### TunnelStreamProofs

`attachSession` recreates a session it does not know, and the new one's bytes begin
at zero again. That they never join the bytes of an old one rests on what the
sidecar may still have in flight. `OInv` says that the sidecar's frames wait on one
connection only (`OneLine`); that nothing moves before OPEN is sent (`Early`); that
while a frame waits which may create a session, an OPEN or an ATTACH at offset zero,
no ACK of a byte waits ahead of it and no `downBuf` has been trimmed (`Begins`); and
that at most one session has ever yielded a byte, which is the one in the table, or
the table is empty and the sidecar has acknowledged a part (`OneSource`). Every byte
in a `downBuf`, in a frame or in a pending replay is of the session it is under
(`Owned`, `Carries`, `Replays`). `"serveTunnel"` has to be closed for `OneLine`: an
old frame loop that still serves an OPEN when the session was destroyed splices two
streams (*Other configurations*).

### TunnelUpstreamProofs

Upstream the same bytes may be on their way several times over: in `upBuf`, in a
frame held by `writeUp` or `onAttachOK`, in frames of an old tunnel and of a new one,
in `preConn`. `UInv` says that each of them is the agent's byte of its offset
(`Agents`, `FramesOK`, and `preConn` continuing `upstreamWritten` until it is
flushed, in `TakenOK`), so that what `onData` takes beyond `upstreamWritten` continues
what the destination has, provided `upstreamWritten` says how much that is. It does,
except while a frame loop has written and not counted yet, and then it is short by
exactly that write (`Counted`); in that state a second writer would repeat or skip
bytes. `OneWriterAtATime` keeps it away: `"dial"` closed means `preConn` is flushed
before the next frame, and either `"onData"` closed means that a write is counted
before the next frame of any loop, or `"serveTunnel"` closed means there is no other
loop (`OneLoop`). `dial_window` and the first row of *Other configurations* violate
the property when either half is dropped. For UnwrittenRetained, a number in an ACK,
in an ATTACH_OK or in the snapshot of an `onSidecarAttach` is one that a destination
has reached (`Vouched`, `Answers`), on every tunnel and for every session ever
created, so trimming to it forgets nothing that is still needed (`Has`).

### TunnelPipeProofs

That an answered session stays quiet is about `requestOutstanding`, which
`onDownstreamAck` clears and `onData` sets: the theorem is that nothing is left for
`onData` to set it for. `QInv` bounds each stage by the one before it (`SupplyOK`): the
agent writes no more than `Rounds` requests, no frame in flight carries more than the
agent wrote (`Within`), the destination and `preConn` hold no more than that, the
destination has sent no more than it owes for what it has read, and `downBuf` ends no
later than that. So a session whose responses are all acknowledged has written every
request (`Answered`), and a replayed frame has nothing fresh in it. A write in progress
is of a request not answered yet (`Unanswered`): nobody else can acknowledge while
the session has one writer. Every other step of the broker, `detach`,
`produceDownstream`, `closeUpstream` and the watchdog, wakes only for an outstanding
request (`Calm`). With `MaxDials = 1` the session in the table is the only one there
is; with more, a destroyed one may still be detached with a wake-up (*Other
configurations*). That `OneWriterAtATime` is needed shows there too.

For the refinement of `BytePipe` the upstream pipe is `UInv` and `QInv` again: what the
destination has are the agent's first bytes, no more than the agent wrote. Downstream
the difficulty is the end of the stream. A CLOSE carries no offset, so the agent takes
it for the end wherever it comes, and it may come from `closeUpstream`, behind what
`produceDownstream` sent, or from a replay, while frames of the old tunnel are lost and
those of the new one overlap what the agent has. `DInv` therefore reads the queue of the
sidecar's connection as a whole. `Reach(q, n, d, e)` says that an agent with `d` bytes
has `e` of them after the first `n` frames of `q`, and `Flow` that every DATA frame
begins within that reach and every CLOSE comes when the reach is all the destination
sent. Frames carry nothing but the destination's bytes (`Tidy`). A bound session whose
replay is sent has its whole buffer within the reach of the queue (`Caught`), and one
whose replay is still to be sent copied it up to the end (`Resends`); `"onAttach"` closed
means that nothing is produced in between. What an ATTACH on its way asks for is not
trimmed (`Asked`), since no ACK that is served before it exceeds it. `Ending` ties the
session's flags to the destination's: it is closed downstream only with all of the
destination's bytes in the buffer. A write that fails closes it too, so there must be
none while the destination still has something to say: `HalfClosed` says that the
upstream's write half is shut, or a CLOSE on its way to shut it, only when the agent
has all its responses or the destination has closed, and then no byte is left to
write (`EndedEarly`). This is where `AgentCloses = FALSE` is needed. `NextPipe` then shows, action by action, that a step
extends one pipe at one of its ends or is invisible.

NotStranded needs the reverse of AnsweredStaysQuiet: a request that is not answered
is still outstanding. `onDownstreamAck` clears `requestOutstanding` whenever the
buffer is empty, whatever was written since, so `AInv` says of every ACK on its way
that it was sent after everything the session has taken and everything ahead of it in
its queue (`AckOK`, `AcksCover`): those bytes are of requests that the acknowledged
responses answer (`Covers`). The agent's pace gives this when the ACK is made
(`Paced`: no byte of a request before the response to the one before it is complete,
which a part of a response would break); the order of the queue keeps it, as long as
`deliverDown` sends the ACK before the next request is written and no old tunnel
delivers it later. A session that is unbound with a request outstanding and something
for the agent has asked for a wake-up (`Alerted`), and each building block of the
broker keeps that (`Wary`). Of a suspended actor whose agent waits, the request is
upstream in full (`Watched`), which a polite suspend finds so and nothing in the
broker can undo. The wake-up is then under way in every such state, whether or not
the watchdog is armed.

### ReplyRelayProofs and EndToEndProofs

In the relay the two sides of an attempt move on their own: the sidecar may still
work on one that the ingress broker has long given up. `IInv` orders the ingress
broker's side (`Numbered`, `OneAtATime`: no attempt beyond the current one, and only
the current one is not lost), ties the sidecar's to it (`Known`: a job only of an
attempt that was made; `Caused`: a post only of a job) and says what an
acknowledgement stands for: a job that has seen 204, on its way or noted, has filled
its request's channel or found the handler ended. RunsBounded then is a count: all
attempts of a request that reached the agent, but the current one, are lost.

`EndToEnd` has the relay's variables as its own, so the refinement is that each step
is one of the relay's or leaves it alone (`StepRefines`); the relay's theorems
follow for the composition. For NeverLeftAsleep, `EInv` adds that the tunnel is up
only under the actor's own name and every session bears it (`EgressTyped`), that
sessions belong to calls and are bound while the tunnel is up (`SessionOK`), that a
watchdog has been used up only after a failure, and not while a first failed resume
is still in the table (`WatchdogOK`), and, of a suspended actor (`Asleep`), that a
response which could not be delivered has asked for a resume, and for a second one
when the first failed. The bound `errs <= 1` is what one watchdog per request makes
up for.

### LoopbackProbeProofs

A damaged, repeated or lost ack is still an ack that the server once wrote, so
`PInv` says of every ack, queued or in flight, that its CRC covers a prefix of what
the server has taken (`ServerOK`, `NetOK`). While the client has counted no error
(`Vouched`), every frame sent and not acknowledged is in `pendingCRC`, so an ack in
order is compared with the CRC of all frames up to it: the prefix is the right one.
What the sum of the counters makes of damages to the frames themselves is
DamageDetected, which is a liveness property.

### SuspenderProofs

`SInv` is about the counters: each is the number of calls or requests it stands for,
and each clock runs exactly while that is, or is not, zero (`CallsCounted`,
`RequestsCounted`). It holds whatever overlaps. Three invariants are built on it.
`OnceInv`: the snapshot Run decides on is the tracker's (`Fresh`), and a call in
flight that was suspended is not newer than the generation noted for its kind
(`Marked`); so a decision that passes the gate is about another call. `WakerInv`:
when Run decides no request is between its 202 and its count (`Counted`), so an
idle decision finds no request at all and a blocked one finds a call
(`WorkHasCall`). `WakeInv`: a request that woke the actor has been arriving for at
least as long as the cooldown has run (`CooldownRuns`), so no decision passes the
cooldown before it is accepted. The assumption `CallsAssumption`, that there are
finitely many calls and a call is of one kind, is what the counters' meaning needs.

### Only model-checked

- Liveness: ResponseDelivered, BlockedSuspends, ClientAnswered, DamageDetected, and
  the fairness part of ImplementsRelay (`EgressPromise`); the prover has no rule for
  fairness or ENABLED.

Every safety property of a passing run is stated by a theorem.

## Not modelled

- The byte layout of frames and HTTP parsing in the proxy: data.
- AllowTarget, which no binary sets.
- The debug endpoints and the demo client's SuspendActor on exit: operator's
  calls that may come at any time, outside of what the system promises.
- The interceptor's inline probes: they change no state.
- A crash of a broker or of the sidecar process: the code persists nothing, and
  the sidecar's state is part of the checkpoint.
- Connections that the agent keeps open for another call, in `EndToEnd`: there a
  call is a session. `TunnelSession` has them (`Rounds`).
- The external probe of the loopback experiment, its echo service and the status
  endpoints: they record what they see, and the verdict does not use it.
- The agent's definition, the calculator, the demo client's prompt loop, flag
  parsing and wiring of the binaries.
