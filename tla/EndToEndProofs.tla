--------------------------- MODULE EndToEndProofs ---------------------------
(***************************************************************************)
(* The whole system around one actor implements the reply-to relay step by *)
(* step, so that what module ReplyRelayProofs shows of the relay holds of  *)
(* it; and, in the order of events that the time-outs make for, an actor   *)
(* suspended in the middle of a client's work has somebody to wake it as   *)
(* long as no more than one thing has failed on the egress side.           *)
(***************************************************************************)
EXTENDS EndToEnd, ReplyRelayProofs

SessionSt == {"none", "dialing", "pending", "answered", "failed"}
SesType   == [st : SessionSt, name : {Own}, bound : BOOLEAN, wd : BOOLEAN]
RsmType   == {"idle", "calling", "ok", "aborted", "error"}

(* The tunnel is up under the actor's own name only, and so every session  *)
(* bears it.                                                               *)
EgressTyped ==
    /\ tun \in [conn : {"up", "down", "zombie"}, name : Names]
    /\ Up => tun.name = Own
    /\ ses \in [Attempts -> SesType]
    /\ settling \in BOOLEAN
    /\ rsm \in [Names -> RsmType]
    /\ errs \in 0 .. MaxErrs
    /\ rsm[Own] = "error" => errs > 0

(* A session belongs to a call of the agent's, and is bound while the      *)
(* tunnel is up.                                                           *)
SessionOK(a) ==
    /\ ses[a].st # "none" => Calling(a)
    /\ Up /\ ses[a].st # "none" => ses[a].bound

(* A watchdog is used up only by a wake-up that failed.                    *)
WatchdogOK(a) == Holds(a) /\ ~ses[a].wd => errs > 0 /\ (errs = 1 => rsm[Own] # "error")

(* In a suspended actor: a response that the broker could not deliver has  *)
(* asked for a resume, and once more when that failed.                     *)
Asleep ==
    actor = "suspended" =>
        /\ ~Up /\ rsm[Own] # "ok"
        /\ (\E a \in Attempts : Active(a)) => \E a \in Attempts : Holds(a)
        /\ \A a \in Attempts : ses[a].st = "answered" /\ ~ses[a].bound =>
             /\ rsm[Own] \in {"calling", "aborted"} \/ errs > 0
             /\ ~ses[a].wd /\ errs <= 1 => rsm[Own] \in {"calling", "aborted"}

EInv ==
    /\ IInv /\ EgressTyped
    /\ \A a \in Attempts : SessionOK(a) /\ WatchdogOK(a)
    /\ Asleep

-----------------------------------------------------------------------------
(* The relay is left alone or takes one of its own steps, whatever the     *)
(* sidecar's tunnel, the broker, the resumer and the platform do.          *)
LEMMA StepRefines == [EgressNext]_vars => [Next]_relayVars
  <1> SUFFICES ASSUME [EgressNext]_vars
               PROVE  Next \/ UNCHANGED relayVars
    OBVIOUS
  <1>1. CASE Sidecar
    BY <1>1 DEF Sidecar, PongOverdue, TunnelCut, Reconnect, OpenSession, DeliverDown, Next, Calls
  <1>2. CASE EgressBroker
    BY <1>2 DEF EgressBroker, DetachAll, DialUpstream, DialFails, ServerAnswers, Watchdog
  <1>3. CASE Lifecycle
    BY <1>3 DEF Lifecycle, SuspendBlocked, SuspendIdle, Settle, ResumeActor, ResumerRuns, Next
  <1>4. CASE RelaySide
    BY <1>4 DEF RelaySide, RouteAwake, Next, Atenet
  <1>5. CASE UNCHANGED vars
    BY <1>5 DEF vars
  <1> QED
    BY <1>1, <1>2, <1>3, <1>4, <1>5 DEF EgressNext

(* The whole system is an implementation of the relay, in its safety part: *)
(* the relay's behaviour with the egress side hidden.                      *)
THEOREM ImplementsRelaySafety == EgressSpec => Spec
  BY StepRefines, PTL DEF EgressSpec, Spec

(* So a reply acknowledged is held for its client in the whole system too, *)
(* and the agent runs once per request and per acknowledgement lost.       *)
THEOREM RelayKept == EgressSpec => [](TypeOK /\ AcknowledgedReplyHeld /\ RunsBounded)
  BY ImplementsRelaySafety, RelayTypeCorrect, ReplyNeverDropped, AgentRunsBounded, PTL

-----------------------------------------------------------------------------
(* What the relay's side does to the egress side: calls neither begin nor  *)
(* end, and in a suspended actor no job moves.                             *)
LEMMA RelaySideQuiet ==
    ASSUME IInv, RelaySide
    PROVE  /\ UNCHANGED egressVars
           /\ \A a \in Attempts : Calling(a)' <=> Calling(a)
           /\ actor' = "suspended"
                => actor = "suspended" /\ \A a \in Attempts : job'[a].st = job[a].st
  <1> USE DEF IInv, Typed, Calling
  <1>1. CASE \E a \in Attempts : RouteAwake(a)
    BY <1>1 DEF RouteAwake, Route
  <1>2. CASE \E a \in Attempts, status \in {"failed", "refused"} :
               AtenetFails(a, status) /\ UNCHANGED egressVars
    BY <1>2 DEF AtenetFails
  <1>3. CASE IngressBroker /\ UNCHANGED egressVars
    <2>1. CASE \E m \in posts : HandleReply(m)
      BY <2>1, <1>3 DEF HandleReply
    <2>2. CASE \E r \in Reqs : \/ BadRequest(r) \/ HandleRun(r) \/ HandlerRuns(r)
                               \/ ForwardTimeout(r) \/ ClientGone(r) \/ RequestTimeout(r)
      BY <2>2, <1>3
      DEF BadRequest, HandleRun, HandlerRuns, ForwardReturns, Retry, Reply, ForwardTimeout,
          ClientGone, RequestTimeout
    <2> QED
      BY <2>1, <2>2, <1>3 DEF IngressBroker
  <1>4. CASE Ingress /\ UNCHANGED egressVars
    <2>1. PICK a \in Attempts :
            SidecarRuns(a) \/ Handle(a, FALSE) \/ HandleFails(a) \/ DeliverFails(a)
      BY <1>4 DEF Ingress
    <2>2. Running /\ actor' = actor /\ job[a].st \in {"arrived", "agent", "deliver"}
      BY <2>1 DEF SidecarRuns, Handle, HandleFails, Respond, DeliverReturns, DeliverFails
    <2>3. job'[a].st # "calling" /\ \A b \in Attempts : b # a => job'[b] = job[b]
      BY <2>1 DEF SidecarRuns, Handle, HandleFails, Respond, DeliverReturns, DeliverFails, JobType
    <2> QED
      BY <2>2, <2>3, <1>4 DEF Running
  <1> QED
    BY <1>1, <1>2, <1>3, <1>4 DEF RelaySide

(* A new actor has no call, no session and a dead tunnel.                  *)
LEMMA InitEInv == Init /\ EgressInit => EInv
  <1> SUFFICES ASSUME Init, EgressInit
               PROVE  EInv
    OBVIOUS
  <1>1. IInv
    BY InitIInv
  <1>2. EgressTyped
    <2>1. NoSession \in SesType
      BY DEF NoSession, SesType, SessionSt
    <2>2. ses \in [Attempts -> SesType]
      BY <2>1 DEF EgressInit
    <2>3. rsm \in [Names -> RsmType] /\ rsm[Own] = "idle"
      BY DEF EgressInit, ResumerInit, RsmType, Names
    <2>4. tun \in [conn : {"up", "down", "zombie"}, name : Names] /\ ~Up
      BY DEF EgressInit, Names, Up
    <2>5. errs \in 0 .. MaxErrs
      BY EgressAssumption DEF EgressInit, ResumerInit
    <2>6. settling \in BOOLEAN
      BY DEF EgressInit
    <2> QED
      BY <2>2, <2>3, <2>4, <2>5, <2>6 DEF EgressTyped
  <1>3. \A a \in Attempts : SessionOK(a) /\ WatchdogOK(a)
    BY DEF EgressInit, NoSession, SessionOK, WatchdogOK, Holds
  <1>4. Asleep
    BY DEF Init, EgressInit, ResumerInit, NoSession, Asleep, Active, InFlight, Up, Names
  <1> QED
    BY <1>1, <1>2, <1>3, <1>4 DEF EInv

(* An action of the relay's keeps the invariant of the egress side.        *)
LEMMA RelaySideEInv ==
    ASSUME EInv, IInv', RelaySide
    PROVE  EInv'
  <1>1. /\ UNCHANGED egressVars
        /\ \A a \in Attempts : Calling(a)' <=> Calling(a)
        /\ actor' = "suspended"
             => actor = "suspended" /\ \A a \in Attempts : job'[a].st = job[a].st
    BY RelaySideQuiet DEF EInv
  <1> QED
    BY <1>1 DEF EInv, EgressTyped, SessionOK, WatchdogOK, Asleep, Holds, Active, Up, egressVars

(* A call that begins has a bound session of the actor's own name, or none. *)
LEMMA OpenSessionEInv ==
    ASSUME EInv, IInv', NEW a \in Attempts, OpenSession(a)
    PROVE  EInv'
  <1>1. EgressTyped'
    BY DEF EInv, OpenSession, CallOut, IInv, Typed, JobType
  <1>2. \A b \in Attempts : SessionOK(b)'
    BY DEF EInv, OpenSession, CallOut, IInv, Typed, JobType
  <1>3. \A b \in Attempts : WatchdogOK(b)'
    BY DEF EInv, OpenSession, CallOut, IInv, Typed, JobType
  <1>4. Asleep'
    BY DEF Asleep, OpenSession, CallOut, Running
  <1> QED
    BY <1>1, <1>2, <1>3, <1>4 DEF EInv

(* pingLoop giving the connection up only takes the tunnel down.           *)
LEMMA PongOverdueEInv ==
    ASSUME EInv, IInv', PongOverdue
    PROVE  EInv'
  <1>1. EgressTyped'
    BY DEF EInv, EgressTyped, Up, PongOverdue
  <1>2. \A b \in Attempts : SessionOK(b)'
    BY DEF EInv, SessionOK, Calling, Up, relayVars, PongOverdue
  <1>3. \A b \in Attempts : WatchdogOK(b)'
    BY DEF EInv, WatchdogOK, Holds, PongOverdue
  <1>4. Asleep'
    BY DEF Asleep, relayVars, PongOverdue, Running
  <1> QED
    BY <1>1, <1>2, <1>3, <1>4 DEF EInv

(* A connection cut by the network only takes the tunnel down.             *)
LEMMA TunnelCutEInv ==
    ASSUME EInv, IInv', TunnelCut
    PROVE  EInv'
  <1>1. EgressTyped'
    BY EgressAssumption DEF EInv, EgressTyped, TunnelCut, EgressFault
  <1>2. \A b \in Attempts : SessionOK(b)'
    BY DEF EInv, SessionOK, Calling, relayVars, TunnelCut
  <1>3. \A b \in Attempts : WatchdogOK(b)'
    BY DEF EInv, EgressTyped, WatchdogOK, TunnelCut, EgressFault
  <1>4. Asleep'
    BY DEF Asleep, relayVars, TunnelCut, Running
  <1> QED
    BY <1>1, <1>2, <1>3, <1>4 DEF EInv

(* HELLO and ATTACH bind every session of a call, under the actor's name.  *)
LEMMA ReconnectEInv ==
    ASSUME EInv, IInv', Reconnect
    PROVE  EInv'
  <1>1. EgressTyped'
    <2>1. \A a \in Attempts : ses[a] \in SesType /\ [ses[a] EXCEPT !.bound = TRUE] \in SesType
      BY DEF EInv, EgressTyped, SesType
    <2>2. Opened(Own) \in SesType
      BY DEF Opened, SesType, SessionSt
    <2>3. ses' \in [Attempts -> SesType]
      BY <2>1, <2>2 DEF Reconnect, Hello
    <2>4. tun' = [conn |-> "up", name |-> Own] /\ UNCHANGED <<settling, rsm, errs>>
      BY DEF Reconnect, Hello
    <2> QED
      BY <2>3, <2>4 DEF EInv, EgressTyped, Names
  <1>2. \A b \in Attempts : SessionOK(b)'
    BY DEF EInv, SessionOK, Calling, relayVars, Reconnect, Opened
  <1>3. \A b \in Attempts : WatchdogOK(b)'
    BY DEF EInv, WatchdogOK, Holds, Reconnect, Opened
  <1>4. Asleep'
    BY DEF Asleep, relayVars, Reconnect, Running
  <1> QED
    BY <1>1, <1>2, <1>3, <1>4 DEF EInv

(* A call that returns takes its session along.                            *)
LEMMA DeliverDownEInv ==
    ASSUME EInv, IInv', NEW a \in Attempts, DeliverDown(a)
    PROVE  EInv'
  <1>1. EgressTyped'
    BY DEF EInv, EgressTyped, SesType, SessionSt, DeliverDown, NoSession
  <1>2. \A b \in Attempts : SessionOK(b)'
    BY DEF EInv, EgressTyped, SessionOK, Calling, DeliverDown, CallReturns, NoSession
  <1>3. \A b \in Attempts : WatchdogOK(b)'
    BY DEF EInv, WatchdogOK, Holds, DeliverDown, NoSession
  <1>4. Asleep'
    BY DEF Asleep, DeliverDown, CallReturns, Running
  <1> QED
    BY <1>1, <1>2, <1>3, <1>4 DEF EInv

(* A session that starts to wait for its response has its watchdog armed.  *)
LEMMA DialUpstreamEInv ==
    ASSUME EInv, IInv', NEW a \in Attempts, DialUpstream(a)
    PROVE  EInv'
  <1>1. EgressTyped'
    <2>1. ses' \in [Attempts -> SesType]
      BY DEF EInv, EgressTyped, SesType, SessionSt, DialUpstream
    <2> QED
      BY <2>1 DEF EInv, EgressTyped, Up, DialUpstream
  <1>2. \A b \in Attempts : SessionOK(b)'
    BY DEF EInv, EgressTyped, SessionOK, Calling, Up, relayVars, DialUpstream
  <1>3. \A b \in Attempts : WatchdogOK(b)'
    BY DEF EInv, EgressTyped, WatchdogOK, Holds, DialUpstream
  <1>4. Asleep'
    BY DEF EInv, EgressTyped, Asleep, Holds, Up, relayVars, DialUpstream
  <1> QED
    BY <1>1, <1>2, <1>3, <1>4 DEF EInv

(* A dial that fails takes away no session that is held.                   *)
LEMMA DialFailsEInv ==
    ASSUME EInv, IInv', NEW a \in Attempts, DialFails(a)
    PROVE  EInv'
  <1>1. EgressTyped'
    BY EgressAssumption
    DEF EInv, EgressTyped, SesType, SessionSt, Up, DialFails, EgressFault, NoSession
  <1>2. \A b \in Attempts : SessionOK(b)'
    BY DEF EInv, SessionOK, Calling, Up, relayVars, DialFails
  <1>3. \A b \in Attempts : WatchdogOK(b)'
    BY DEF EInv, EgressTyped, WatchdogOK, DialFails, EgressFault
  <1>4. Asleep'
    BY DEF EInv, EgressTyped, Asleep, Holds, Active, Up, relayVars, DialFails, EgressFault,
           NoSession
  <1> QED
    BY <1>1, <1>2, <1>3, <1>4 DEF EInv

(* A response for a detached session asks for a resume.                    *)
LEMMA ServerAnswersEInv ==
    ASSUME EInv, IInv', NEW a \in Attempts, ServerAnswers(a)
    PROVE  EInv'
  <1>1. EgressTyped'
    BY DEF EInv, EgressTyped, SesType, SessionSt, RsmType, Up, ServerAnswers, Wake
  <1>2. \A b \in Attempts : SessionOK(b)'
    BY DEF EInv, SessionOK, Calling, Up, relayVars, ServerAnswers
  <1>3. \A b \in Attempts : WatchdogOK(b)'
    BY DEF EInv, Names, WatchdogOK, Holds, ServerAnswers, Wake
  <1>4. Asleep'
    BY DEF EInv, EgressTyped, SesType, RsmType, Names, Asleep, WatchdogOK, Holds, Up,
           relayVars, ServerAnswers, Wake
  <1> QED
    BY <1>1, <1>2, <1>3, <1>4 DEF EInv

(* A detach asks for a resume if a session has something undelivered.      *)
LEMMA DetachAllEInv ==
    ASSUME EInv, IInv', DetachAll
    PROVE  EInv'
  <1>1. EgressTyped'
    <2>1. \A a \in Attempts : ses[a] \in SesType /\ [ses[a] EXCEPT !.bound = FALSE] \in SesType
      BY DEF EInv, EgressTyped, SesType
    <2>2. NoSession \in SesType
      BY DEF NoSession, SesType, SessionSt
    <2>3. ses' \in [Attempts -> SesType]
      BY <2>1, <2>2 DEF DetachAll
    <2>4. rsm' \in [Names -> RsmType] /\ (rsm'[Own] = "error" => rsm[Own] = "error")
      BY DEF EInv, EgressTyped, RsmType, Names, DetachAll, Wake
    <2> QED
      BY <2>3, <2>4 DEF EInv, EgressTyped, Up, DetachAll
  <1>2. \A b \in Attempts : SessionOK(b)'
    BY DEF EInv, SessionOK, Calling, Up, relayVars, DetachAll
  <1>3. \A b \in Attempts : WatchdogOK(b)'
    BY DEF EInv, Names, WatchdogOK, Holds, DetachAll, Wake, NoSession
  <1>4. Asleep'
    BY DEF EInv, EgressTyped, SesType, RsmType, Names, Asleep, WatchdogOK, Holds, Active,
           Up, relayVars, DetachAll, Wake, NoSession
  <1> QED
    BY <1>1, <1>2, <1>3, <1>4 DEF EInv

(* The watchdog is used up when an earlier resume has failed, and asks for *)
(* another.                                                                *)
LEMMA WatchdogEInv ==
    ASSUME EInv, IInv', Races = {}, NEW a \in Attempts, Watchdog(a)
    PROVE  EInv'
  <1>1. EgressTyped'
    <2>1. ses' \in [Attempts -> SesType]
      BY DEF EInv, EgressTyped, SesType, Watchdog
    <2>2. rsm' \in [Names -> RsmType] /\ (rsm'[Own] = "error" => rsm[Own] = "error")
      BY DEF EInv, EgressTyped, RsmType, Names, Watchdog, Wake
    <2> QED
      BY <2>1, <2>2 DEF EInv, EgressTyped, Up, Watchdog
  <1>2. \A b \in Attempts : SessionOK(b)'
    BY DEF EInv, SessionOK, Calling, Up, relayVars, Watchdog
  <1>3. \A b \in Attempts : WatchdogOK(b)'
    BY DEF EInv, EgressTyped, SesType, WatchdogOK, Asleep, Watchdog, HeldLong, Wake
  <1>4. Asleep'
    BY DEF EInv, EgressTyped, SesType, Names, Asleep, Holds, Up, Watchdog, HeldLong, Wake
  <1> QED
    BY <1>1, <1>2, <1>3, <1>4 DEF EInv

(* A suspend in the middle of a call happens with the session of every     *)
(* call held and bound.                                                    *)
LEMMA SuspendBlockedEInv ==
    ASSUME EInv, IInv', Races = {}, SuspendBlocked
    PROVE  EInv'
  <1>1. EgressTyped'
    BY DEF EInv, EgressTyped, SuspendBlocked, Checkpoint
  <1>2. \A b \in Attempts : SessionOK(b)'
    BY DEF EInv, SessionOK, Calling, SuspendBlocked, Suspend, Checkpoint
  <1>3. \A b \in Attempts : WatchdogOK(b)'
    BY DEF EInv, WatchdogOK, Holds, SuspendBlocked, Checkpoint
  <1>4. Asleep'
    BY DEF EInv, Asleep, SessionOK, Holds, Up, SuspendBlocked, Checkpoint
  <1> QED
    BY <1>1, <1>2, <1>3, <1>4 DEF EInv

(* A suspend between requests leaves no work in the actor.                 *)
LEMMA SuspendIdleEInv ==
    ASSUME EInv, IInv', Races = {}, SuspendIdle
    PROVE  EInv'
  <1>1. EgressTyped'
    BY DEF EInv, EgressTyped, Up, SuspendIdle, Checkpoint
  <1>2. \A b \in Attempts : SessionOK(b)'
    BY DEF EInv, SessionOK, Calling, Up, SuspendIdle, Suspend, Checkpoint
  <1>3. \A b \in Attempts : WatchdogOK(b)'
    BY DEF EInv, WatchdogOK, Holds, SuspendIdle, Checkpoint
  <1>4. Asleep'
    BY DEF EInv, Asleep, SessionOK, Active, Calling, Up, SuspendIdle, Suspend, Checkpoint,
           IInv, Typed, JobType
  <1> QED
    BY <1>1, <1>2, <1>3, <1>4 DEF EInv

(* The end of a checkpoint touches nothing else.                           *)
LEMMA SettleEInv ==
    ASSUME EInv, IInv', Settle
    PROVE  EInv'
  <1>1. EgressTyped'
    BY DEF EInv, EgressTyped, Up, Settle
  <1>2. \A b \in Attempts : SessionOK(b)'
    BY DEF EInv, SessionOK, Calling, Up, relayVars, Settle
  <1>3. \A b \in Attempts : WatchdogOK(b)'
    BY DEF EInv, WatchdogOK, Holds, Settle
  <1>4. Asleep'
    BY DEF EInv, Asleep, Holds, Active, Up, relayVars, Settle
  <1> QED
    BY <1>1, <1>2, <1>3, <1>4 DEF EInv

(* A resume that succeeds wakes the actor, and one that fails is counted.  *)
LEMMA ResumeActorEInv ==
    ASSUME EInv, IInv', NEW n \in Names, ResumeActor(n)
    PROVE  EInv'
  <1>1. EgressTyped'
    BY EgressAssumption DEF EInv, EgressTyped, RsmType, Names, Up, ResumeActor, Returns, EgressFault
  <1>2. \A b \in Attempts : SessionOK(b)'
    BY DEF EInv, SessionOK, Calling, Up, relayVars, ResumeActor, Resume
  <1>3. \A b \in Attempts : WatchdogOK(b)'
    BY DEF EInv, EgressTyped, Names, WatchdogOK, Holds, ResumeActor, Returns, EgressFault
  <1>4. Asleep'
    BY DEF EInv, EgressTyped, Names, Asleep, WatchdogOK, Holds, Active, Up, relayVars,
           ResumeActor, Returns, Resume, EgressFault, Running
  <1> QED
    BY <1>1, <1>2, <1>3, <1>4 DEF EInv

(* The resumer's goroutine ends, or calls again after Aborted.             *)
LEMMA ResumerRunsEInv ==
    ASSUME EInv, IInv', NEW n \in Names, ResumerRuns(n)
    PROVE  EInv'
  <1>1. EgressTyped'
    BY DEF EInv, EgressTyped, RsmType, Names, Up, ResumerRuns, Ends, Again
  <1>2. \A b \in Attempts : SessionOK(b)'
    BY DEF EInv, SessionOK, Calling, Up, relayVars, ResumerRuns
  <1>3. \A b \in Attempts : WatchdogOK(b)'
    BY DEF EInv, EgressTyped, Names, WatchdogOK, Holds, ResumerRuns, Ends, Again
  <1>4. Asleep'
    BY DEF EInv, EgressTyped, Names, Asleep, Holds, Active, Up, relayVars, ResumerRuns, Ends, Again
  <1> QED
    BY <1>1, <1>2, <1>3, <1>4 DEF EInv

(* A resume given up is counted as a failure.                              *)
LEMMA GivesUpEInv ==
    ASSUME EInv, IInv', NEW n \in Names, GivesUp(n), UNCHANGED <<relayVars, tun, ses, gen, settling>>
    PROVE  EInv'
  <1>1. EgressTyped'
    BY EgressAssumption DEF EInv, EgressTyped, RsmType, Up, GivesUp
  <1>2. \A b \in Attempts : SessionOK(b)'
    BY DEF EInv, SessionOK, Calling, Up, relayVars
  <1>3. \A b \in Attempts : WatchdogOK(b)'
    BY DEF EInv, EgressTyped, WatchdogOK, GivesUp
  <1>4. Asleep'
    BY DEF EInv, EgressTyped, Asleep, WatchdogOK, Holds, Active, Up, relayVars, GivesUp
  <1> QED
    BY <1>1, <1>2, <1>3, <1>4 DEF EInv

-----------------------------------------------------------------------------
(* Every step of the whole system keeps the invariant, in the order of     *)
(* events that the time-outs make for.                                     *)
LEMMA NextEInv ==
    ASSUME Races = {}
    PROVE  EInv /\ [EgressNext]_vars => EInv'
  <1> SUFFICES ASSUME EInv, [EgressNext]_vars
               PROVE  EInv'
    OBVIOUS
  <1>0. IInv'
    BY StepRefines, NextIInv DEF EInv
  <1>1. CASE Sidecar
    BY <1>0, <1>1, OpenSessionEInv, PongOverdueEInv, TunnelCutEInv, ReconnectEInv,
       DeliverDownEInv
    DEF Sidecar
  <1>2. CASE EgressBroker
    BY <1>0, <1>2, DialUpstreamEInv, DialFailsEInv, ServerAnswersEInv, DetachAllEInv,
       WatchdogEInv
    DEF EgressBroker
  <1>3. CASE Lifecycle
    BY <1>0, <1>3, SuspendBlockedEInv, SuspendIdleEInv, SettleEInv, ResumeActorEInv,
       ResumerRunsEInv, GivesUpEInv
    DEF Lifecycle
  <1>4. CASE RelaySide
    BY <1>0, <1>4, RelaySideEInv
  <1>5. CASE UNCHANGED vars
    BY <1>0, <1>5
    DEF vars, relayVars, egressVars, EInv, EgressTyped, SessionOK, WatchdogOK, Asleep,
        Calling, Holds, Active, Up
  <1> QED
    BY <1>1, <1>2, <1>3, <1>4, <1>5 DEF EgressNext

(* The session that was held when the actor was suspended still is, and    *)
(* each thing that may happen to it leaves another wake-up.                *)
LEMMA AsleepHasWakeUp == EInv /\ errs <= 1 => SuspendedHasWakeUp
  BY DEF EInv, EgressTyped, SesType, Asleep, SuspendedHasWakeUp, Holds

(* A suspended actor with a client's work in it is never on its own, with  *)
(* any number of requests, attempts and suspends, unless a call is         *)
(* suspended before the broker has it, the actor suspended again before    *)
(* ResumeActor returned, or the watchdog used up by a slow destination;    *)
(* and unless two things have failed on the egress side: the watchdog      *)
(* makes up for one ResumeActor call that fails, not for two.              *)
THEOREM NeverLeftAsleep ==
    ASSUME Races = {}
    PROVE  EgressSpec => [](errs <= 1 => SuspendedHasWakeUp)
  <1>1. Init /\ EgressInit => EInv
    BY InitEInv
  <1>2. EInv /\ [EgressNext]_vars => EInv'
    BY NextEInv
  <1>3. EInv => (errs <= 1 => SuspendedHasWakeUp)
    BY AsleepHasWakeUp
  <1> QED
    BY <1>1, <1>2, <1>3, PTL DEF EgressSpec
=============================================================================
