------------------------------ MODULE EndToEnd ------------------------------
(***************************************************************************)
(* The whole system around one actor: the reply-to relay (ReplyRelay) with *)
(* the egress side that it relies on, namely the sidecar's tunnel, the     *)
(* egress broker's sessions, its resumer (Resumer), the suspend gate of    *)
(* the poller and the platform.                                            *)
(*                                                                         *)
(* What other modules model in full is one step here: a session is         *)
(* reduced to how far its call has come and whether it is bound            *)
(* (TunnelSession has its bytes), the suspend decision to its guards       *)
(* (Suspender has its clocks).                                             *)
(***************************************************************************)
EXTENDS ReplyRelay, FiniteSetsExt

CONSTANTS
    Own, Golden,      \* the actor's name, and that of the template's golden actor
    MaxErrs,          \* bound: failures on the egress side
    Races             \* orders of events that the time-outs make unlikely

RaceNames ==
    { "attach",   \* a blocked call is suspended before the broker has it
      "return",   \* the actor is suspended again before ResumeActor returned
      "slow" }    \* a call outlasts the watchdog, which is then used up

ASSUME EgressAssumption ==
    /\ MaxErrs \in Nat /\ Own # Golden
    /\ Races \subseteq RaceNames

Names == {Own, Golden}

VARIABLES
    tun,        \* the sidecar's tunnel connection and the name in its HELLO
    ses,        \* the broker's session for the call of each job
    gen,        \* lastToolGen and lastModelGen: calls started at the last suspend
    settling,   \* SuspendActor still being carried out
    rsm, errs   \* see Resumer

egressVars == <<tun, ses, gen, settling, rsm, errs>>
vars       == <<relayVars, egressVars>>

INSTANCE Resumer

(* A session is "dialing", "pending" (requestOutstanding) or "answered".   *)
NoSession == [st |-> "none", name |-> Own, bound |-> FALSE, wd |-> FALSE]
Opened(n) == [st |-> "dialing", name |-> n, bound |-> TRUE, wd |-> FALSE]

Up         == tun.conn = "up"
Calling(a) == job[a].st = "calling"
Holds(a)   == ses[a].st \in {"pending", "answered"}
EgressFault == errs < MaxErrs /\ errs' = errs + 1
Started    == MapThenSumSet(LAMBDA a : job[a].calls, Attempts)

(* A new actor is the golden snapshot, its tunnel long dead.               *)
EgressInit ==
    /\ tun = [conn |-> "zombie", name |-> Golden]
    /\ ses = [a \in Attempts |-> NoSession]
    /\ gen = 0 /\ settling = FALSE
    /\ ResumerInit

-----------------------------------------------------------------------------
(* The sidecar.  A call opens a session if the tunnel is there to carry    *)
(* its OPEN; a frame into a zombie connection is lost.                     *)
OpenSession(a) ==
    /\ CallOut(a)
    /\ ses' = [ses EXCEPT ![a] = IF Up THEN Opened(tun.name) ELSE NoSession]
    /\ UNCHANGED <<tun, gen, settling, rsm, errs>>

(* pingLoop: no PONG; or the network has cut the connection.               *)
PongOverdue ==
    /\ Running /\ tun.conn = "zombie"
    /\ tun' = [tun EXCEPT !.conn = "down"]
    /\ UNCHANGED <<relayVars, ses, gen, settling, rsm, errs>>

TunnelCut ==
    /\ Running /\ Up /\ EgressFault
    /\ tun' = [tun EXCEPT !.conn = "down"]
    /\ UNCHANGED <<relayVars, ses, gen, settling, rsm>>

(* Mutant of Hello: the name is read when the sidecar starts.              *)
HelloCached == tun.name

(* identity reads the name of the actor afresh.                            *)
Hello == Own

(* connectOnce: HELLO, and ATTACH for every live session; the broker binds *)
(* the sessions it has and creates the others, also one whose dial failed  *)
(* and whose CLOSE the old connection took with it.                        *)
Reconnect ==
    LET Attached(a) == IF ses[a].st \in {"none", "failed"} \/ ses[a].name # Hello
                       THEN Opened(Hello) ELSE [ses[a] EXCEPT !.bound = TRUE]
    IN /\ Running /\ tun.conn = "down"
       /\ tun' = [conn |-> "up", name |-> Hello]
       /\ ses' = [a \in Attempts |-> IF Calling(a) THEN Attached(a) ELSE ses[a]]
       /\ UNCHANGED <<relayVars, gen, settling, rsm, errs>>

(* The response, or the CLOSE of a failed dial, reaches the agent.         *)
DeliverDown(a) ==
    /\ Up /\ ses[a].st \in {"answered", "failed"} /\ ses[a].bound
    /\ CallReturns(a)
    /\ ses' = [ses EXCEPT ![a] = NoSession]
    /\ UNCHANGED <<tun, gen, settling, rsm, errs>>

-----------------------------------------------------------------------------
(* The broker.  The dial ends and arms the watchdog, or fails: its CLOSE   *)
(* is lost when the session is not bound, and the session is gone.         *)
DialUpstream(a) ==
    /\ ses[a].st = "dialing"
    /\ ses' = [ses EXCEPT ![a].st = "pending", ![a].wd = TRUE]
    /\ UNCHANGED <<relayVars, tun, gen, settling, rsm, errs>>

DialFails(a) ==
    /\ ses[a].st = "dialing" /\ EgressFault
    /\ ses' = [ses EXCEPT ![a] = IF Up /\ @.bound THEN [@ EXCEPT !.st = "failed"] ELSE NoSession]
    /\ UNCHANGED <<relayVars, tun, gen, settling, rsm>>

(* produceDownstream, closeUpstream: wake the actor if detached.           *)
ServerAnswers(a) ==
    /\ ses[a].st = "pending"
    /\ ses' = [ses EXCEPT ![a].st = "answered"]
    /\ IF ses[a].bound THEN UNCHANGED rsm ELSE Wake({ses[a].name})
    /\ UNCHANGED <<relayVars, tun, gen, settling, errs>>

(* The broker's read of the tunnel times out: its sessions are detached,   *)
(* and the actor woken for those with something undelivered.               *)
DetachAll ==
    /\ ~Up /\ \E a \in Attempts : ses[a].bound
    /\ ses' = [a \in Attempts |-> IF ses[a].st = "failed" THEN NoSession
                                  ELSE [ses[a] EXCEPT !.bound = FALSE]]
    /\ Wake({ses[a].name : a \in {b \in Attempts : ses[b].bound /\ ses[b].st = "answered"}})
    /\ UNCHANGED <<relayVars, tun, gen, settling, errs>>

(* The watchdog fires once, and wakes the actor if the session is pending  *)
(* and detached.  Its five minutes are longer than a suspend, a detach and *)
(* a ResumeActor call take, unless the destination is slow.                *)
HeldLong(a) ==
    /\ actor = "suspended" /\ ~settling /\ rsm[ses[a].name] = "idle"
    /\ ses[a].st = "answered" /\ ~ses[a].bound

Watchdog(a) ==
    /\ ses[a].wd
    /\ "slow" \in Races \/ HeldLong(a)
    /\ ses' = [ses EXCEPT ![a].wd = FALSE]
    /\ IF Holds(a) /\ ~ses[a].bound THEN Wake({ses[a].name}) ELSE UNCHANGED rsm
    /\ UNCHANGED <<relayVars, tun, gen, settling, errs>>

-----------------------------------------------------------------------------
(* The poller: a call is suspended for being blocked once ...              *)
Checkpoint ==
    /\ "return" \notin Races => rsm[Own] # "ok"
    /\ settling' = TRUE
    /\ tun' = [tun EXCEPT !.conn = IF @ = "up" THEN "zombie" ELSE @]
    /\ UNCHANGED <<ses, rsm, errs>>

SuspendBlocked ==
    /\ \E a \in Attempts : Calling(a)
    /\ Started > gen
    /\ "attach" \notin Races => Up /\ \A a \in Attempts : Calling(a) => Holds(a)
    /\ Suspend /\ Checkpoint
    /\ gen' = Started

(* ... and an idle actor between requests.                                 *)
SuspendIdle ==
    /\ \A a \in Attempts : ~Active(a)
    /\ Suspend /\ Checkpoint
    /\ UNCHANGED gen

(* The platform (external): the checkpoint is complete; ResumeActor, which *)
(* leaves a running actor alone; a request that wakes the actor.           *)
Settle ==
    /\ settling /\ settling' = FALSE
    /\ UNCHANGED <<relayVars, tun, ses, gen, rsm, errs>>

ResumeActor(n) ==
    /\ \/ n = Own /\ settling /\ Returns(n, "aborted") /\ UNCHANGED <<relayVars, errs>>
       \/ n = Own /\ ~settling /\ Returns(n, "ok") /\ (Resume \/ (Running /\ UNCHANGED relayVars))
                  /\ UNCHANGED errs
       \/ Returns(n, "error") /\ (n = Own => EgressFault) /\ (n # Own => UNCHANGED errs)
                              /\ UNCHANGED relayVars
    /\ UNCHANGED <<tun, ses, gen, settling>>

RouteAwake(a) ==
    /\ Route(a) /\ (actor = "suspended" => ~settling)
    /\ UNCHANGED egressVars

-----------------------------------------------------------------------------
Sidecar == PongOverdue \/ TunnelCut \/ Reconnect
              \/ \E a \in Attempts : OpenSession(a) \/ DeliverDown(a)

EgressBroker ==
    \/ DetachAll
    \/ \E a \in Attempts : DialUpstream(a) \/ DialFails(a) \/ ServerAnswers(a) \/ Watchdog(a)

ResumerRuns(n) == (Ends(n) \/ Again(n)) /\ UNCHANGED <<relayVars, tun, ses, gen, settling>>

Lifecycle ==
    \/ SuspendBlocked \/ SuspendIdle \/ Settle
    \/ \E n \in Names : \/ ResumeActor(n) \/ ResumerRuns(n)
                        \/ GivesUp(n) /\ UNCHANGED <<relayVars, tun, ses, gen, settling>>

RelaySide ==
    \/ \E a \in Attempts : \/ RouteAwake(a)
                           \/ \E status \in {"failed", "refused"} :
                                 AtenetFails(a, status) /\ UNCHANGED egressVars
    \/ (IngressBroker \/ Ingress) /\ UNCHANGED egressVars

EgressNext == Sidecar \/ EgressBroker \/ Lifecycle \/ RelaySide

EgressSpec == Init /\ EgressInit /\ [][EgressNext]_vars

(* The sidecar's and the broker's goroutines and timers run, destinations  *)
(* answer, the platform completes what it is asked.                        *)
EgressFairness ==
    /\ WF_vars(PongOverdue) /\ WF_vars(Reconnect) /\ WF_vars(DetachAll) /\ WF_vars(Settle)
    /\ \A a \in Attempts : /\ WF_vars(DeliverDown(a)) /\ WF_vars(DialUpstream(a))
                           /\ WF_vars(ServerAnswers(a)) /\ WF_vars(Watchdog(a))
    /\ \A n \in Names : WF_vars(ResumeActor(n)) /\ WF_vars(ResumerRuns(n))

EndToEndSpec == EgressSpec /\ RelayFairness /\ EgressFairness
-----------------------------------------------------------------------------
(* A suspended actor with a client's work in it is never on its own: the   *)
(* broker has a call of its agent's whose end will wake it, or a resume is *)
(* under way.                                                              *)
SuspendedHasWakeUp ==
    actor = "suspended" /\ (\E a \in Attempts : Active(a)) =>
        \/ \E a \in Attempts : \/ ses[a].st = "pending" /\ ses[a].name = Own
                               \/ Holds(a) /\ (ses[a].wd \/ ses[a].bound)
        \/ rsm[Own] \in {"calling", "aborted"}

(* The egress side keeps what the relay expects of it: every step is one   *)
(* of the relay's or leaves it alone, every call of a running actor        *)
(* returns, and a suspended actor with a client's work is resumed, with a  *)
(* failed ResumeActor and detaches, wake-ups and suspends in any order.    *)
ImplementsRelay == Spec /\ EgressPromise
=============================================================================
