----------------------------- MODULE ReplyRelay -----------------------------
(***************************************************************************)
(* The reply-to relay that keeps a client unaware of suspend and resume:   *)
(* the ingress broker (demos/adk-calc/internal/ingressbroker) holds the    *)
(* client's connection, forwards the request through atenet, which wakes   *)
(* the actor, and waits; the sidecar's ingress (internal/sidecar/          *)
(* ingress.go) acknowledges at once, has the agent work on it and posts    *)
(* the response back, out of the actor.                                    *)
(*                                                                         *)
(* An attempt <<r, n>> is the n-th forward of request r; the sidecar makes *)
(* a job of its own of each attempt that reaches it.                       *)
(***************************************************************************)
EXTENDS Naturals, FiniteSets

CONSTANTS
    Reqs,             \* the clients' requests (X-Poc-Request-Id)
    ForwardAttempts,  \* of forwardToActor (5 in the code)
    DeliverAttempts,  \* of deliver (5 in the code)
    MaxCalls,         \* bound: egress calls of the agent in a job
    MaxFaults,        \* bound: lost or refused messages, broken connections
    MaxSuspends,      \* bound: suspends of the actor
    Cancels,          \* clients may hang up
    PartialBodies     \* a connection may break in the middle of a body

ASSUME AttemptsAssumption == {ForwardAttempts, DeliverAttempts} \subseteq Nat \ {0}

ASSUME BoundsAssumption ==
    /\ {MaxCalls, MaxFaults, MaxSuspends} \subseteq Nat
    /\ {Cancels, PartialBodies} \subseteq BOOLEAN

VARIABLES
    actor,    \* "running" or "suspended"
    run,      \* HandleRun of each request: where it stands, the attempt, its end
    pending,  \* Broker.pending: the requests registered
    ch,       \* the channel of each request, buffered for one reply
    att,      \* each attempt as the ingress broker sees it
    job,      \* each attempt as the sidecar sees it
    posts,    \* replies under way to the ingress broker
    faults, suspends   \* how much of the bounds is used

relayVars == <<actor, run, pending, ch, att, job, posts, faults, suspends>>

Attempts == Reqs \X (1 .. ForwardAttempts)
Bodies   == {"whole", "part"}
Cur(r)   == <<r, run[r].n>>

Parked     == {"forward", "backoff", "select"}
InFlight   == {"agent", "calling", "deliver"}
Active(a)  == job[a].st \in InFlight
Running    == actor = "running"

Fault == faults < MaxFaults /\ faults' = faults + 1

Init ==
    /\ actor \in {"running", "suspended"}
    /\ run = [r \in Reqs |-> [pc |-> "new", n |-> 0, end |-> "none"]]
    /\ pending = {} /\ posts = {}
    /\ ch = [r \in Reqs |-> "empty"]
    /\ att = [a \in Attempts |-> "none"]
    /\ job = [a \in Attempts |-> [st |-> "none", calls |-> 0, try |-> 0, res |-> "none"]]
    /\ faults = 0 /\ suspends = 0

-----------------------------------------------------------------------------
(* The ingress broker.  HandleRun refuses a body it cannot parse ...       *)
Finish(r, end) ==
    /\ run' = [run EXCEPT ![r].pc = "done", ![r].end = end]
    /\ pending' = pending \ {r}

BadRequest(r) ==
    /\ run[r].pc = "new"
    /\ Finish(r, "invalid")
    /\ UNCHANGED <<actor, ch, att, job, posts, faults, suspends>>

Attempt(r, n) ==
    /\ run' = [run EXCEPT ![r].pc = "forward", ![r].n = n]
    /\ att' = [att EXCEPT ![<<r, n>>] = "sent"]

(* Mutant of HandleRun: the channel is registered once forwarded.          *)
HandleRunLate(r) ==
    /\ run[r].pc = "new"
    /\ Attempt(r, 1)
    /\ UNCHANGED <<actor, pending, ch, job, posts, faults, suspends>>

(* ... or registers a channel and makes the first attempt.                 *)
HandleRun(r) ==
    /\ run[r].pc = "new"
    /\ Attempt(r, 1)
    /\ pending' = pending \cup {r}
    /\ UNCHANGED <<actor, ch, job, posts, faults, suspends>>

(* Mutant of ForwardReturns: a 202 is an attempt that has no reply yet.    *)
ForwardReturnsAgain(r) ==
    /\ run[r].pc = "forward" /\ att[Cur(r)] \in {"acked", "refused", "failed", "broken"}
    /\ IF att[Cur(r)] = "refused" THEN Finish(r, "refused")
       ELSE run' = [run EXCEPT ![r].pc = "backoff"] /\ UNCHANGED pending
    /\ UNCHANGED <<actor, ch, att, job, posts, faults, suspends>>

(* An attempt returns: 2xx is the acknowledgement, 4xx ends the request,   *)
(* 5xx and a broken connection are retried.                                *)
ForwardReturns(r) ==
    /\ run[r].pc = "forward"
    /\ \/ /\ att[Cur(r)] = "acked"
          /\ run' = [run EXCEPT ![r].pc = "select"] /\ UNCHANGED pending
       \/ /\ att[Cur(r)] = "refused"
          /\ Finish(r, "refused")
       \/ /\ att[Cur(r)] \in {"failed", "broken"}
          /\ run' = [run EXCEPT ![r].pc = "backoff"] /\ UNCHANGED pending
    /\ UNCHANGED <<actor, ch, att, job, posts, faults, suspends>>

(* The 60 s of the forwarding client: the attempt is abandoned, but what   *)
(* has reached the actor may still be accepted there.                      *)
ForwardTimeout(r) ==
    /\ run[r].pc = "forward" /\ att[Cur(r)] = "sent"
    /\ Fault
    /\ run' = [run EXCEPT ![r].pc = "backoff"]
    /\ att' = [att EXCEPT ![Cur(r)] = "gone"]
    /\ UNCHANGED <<actor, pending, ch, job, posts, suspends>>

(* After the pause, which also follows the last attempt.                   *)
Retry(r) ==
    /\ run[r].pc = "backoff"
    /\ IF run[r].n < ForwardAttempts
       THEN Attempt(r, run[r].n + 1) /\ UNCHANGED pending
       ELSE Finish(r, "failed") /\ UNCHANGED att
    /\ UNCHANGED <<actor, ch, job, posts, faults, suspends>>

(* HandleRun's select: the reply, the client's hang-up or the time-out;    *)
(* the request's context also ends the forward and its pauses.             *)
Reply(r) ==
    /\ run[r].pc = "select" /\ ch[r] # "empty"
    /\ Finish(r, ch[r])
    /\ ch' = [ch EXCEPT ![r] = "empty"]
    /\ UNCHANGED <<actor, att, job, posts, faults, suspends>>

ClientGone(r) ==
    /\ Cancels /\ run[r].pc \in Parked
    /\ Finish(r, "gone")
    /\ att' = [att EXCEPT ![Cur(r)] = IF @ = "sent" THEN "gone" ELSE @]
    /\ UNCHANGED <<actor, ch, job, posts, faults, suspends>>

RequestTimeout(r) ==
    /\ run[r].pc = "select"
    /\ Finish(r, "timeout")
    /\ UNCHANGED <<actor, ch, att, job, posts, faults, suspends>>

(* Mutant of Offered: the channel has no buffer.                           *)
OfferedUnbuffered(m) ==
    LET r == m.a[1]
    IN IF r \in pending /\ run[r].pc = "select" THEN [ch EXCEPT ![r] = m.body] ELSE ch

(* A reply for a pending request whose channel has room; any other is      *)
(* dropped.                                                                *)
Offered(m) ==
    LET r == m.a[1]
    IN IF r \in pending /\ ch[r] = "empty" THEN [ch EXCEPT ![r] = m.body] ELSE ch

(* HandleReply answers 204 whatever became of the reply.  It ignores the   *)
(* error of reading the body, so a part of one passes for a whole.         *)
HandleReply(m) ==
    /\ posts' = posts \ {m}
    /\ ch' = Offered(m)
    /\ job' = [job EXCEPT ![m.a].res =
                 IF job[m.a].try = m.try /\ @ = "none" THEN "204" ELSE @]
    /\ UNCHANGED <<actor, run, pending, att, faults, suspends>>

-----------------------------------------------------------------------------
(* atenet (external) wakes the actor and passes the request on to it, ...  *)
Route(a) ==
    /\ att[a] = "sent" /\ job[a].st = "none"
    /\ actor' = "running"
    /\ job' = [job EXCEPT ![a].st = "arrived"]
    /\ UNCHANGED <<run, pending, ch, att, posts, faults, suspends>>

(* ... or answers with an error, 5xx also for a request passed on.         *)
AtenetFails(a, status) ==
    /\ att[a] = "sent"
    /\ status = "refused" => job[a].st = "none"
    /\ Fault
    /\ att' = [att EXCEPT ![a] = status]
    /\ UNCHANGED <<actor, run, pending, ch, job, posts, suspends>>

-----------------------------------------------------------------------------
(* Ingress.handle acknowledges, whether or not anybody hears it, and       *)
(* starts process.                                                         *)
Handle(a, heard) ==
    /\ Running /\ job[a].st = "arrived"
    /\ IF heard THEN UNCHANGED faults ELSE att[a] = "sent" /\ Fault
    /\ att' = [att EXCEPT ![a] = IF @ # "sent" THEN @ ELSE IF heard THEN "acked" ELSE "broken"]
    /\ job' = [job EXCEPT ![a].st = "agent"]
    /\ UNCHANGED <<actor, run, pending, ch, posts, suspends>>

(* The request cannot be read: the connection is closed without a 202.     *)
HandleFails(a) ==
    /\ Running /\ job[a].st = "arrived"
    /\ Fault
    /\ att' = [att EXCEPT ![a] = IF @ = "sent" THEN "broken" ELSE @]
    /\ job' = [job EXCEPT ![a].st = "rejected"]
    /\ UNCHANGED <<actor, run, pending, ch, posts, suspends>>

(* The agent (agentsrv) calls out and gets its response, ...               *)
CallOut(a) ==
    /\ Running /\ job[a].st = "agent" /\ job[a].calls < MaxCalls
    /\ job' = [job EXCEPT ![a].st = "calling", ![a].calls = @ + 1]
    /\ UNCHANGED <<actor, run, pending, ch, att, posts, faults, suspends>>

CallReturns(a) ==
    /\ Running /\ job[a].st = "calling"
    /\ job' = [job EXCEPT ![a].st = "agent"]
    /\ UNCHANGED <<actor, run, pending, ch, att, posts, faults, suspends>>

Post(a, try) == [a |-> a, try |-> try, body |-> "whole"]

(* ... and answers, with an error perhaps: deliver posts it.               *)
Respond(a) ==
    /\ Running /\ job[a].st = "agent"
    /\ job' = [job EXCEPT ![a].st = "deliver", ![a].try = 1]
    /\ posts' = posts \cup {Post(a, 1)}
    /\ UNCHANGED <<actor, run, pending, ch, att, faults, suspends>>

DeliverReturns(a) ==
    /\ Running /\ job[a].st = "deliver" /\ job[a].res = "204"
    /\ job' = [job EXCEPT ![a].st = "delivered"]
    /\ UNCHANGED <<actor, run, pending, ch, att, posts, faults, suspends>>

Fates(p) ==
    {posts, posts \ {p}}
        \cup (IF PartialBodies THEN {(posts \ {p}) \cup {[p EXCEPT !.body = "part"]}} ELSE {})

(* Mutant of DeliverFails: a failed post is not repeated.                  *)
DeliverFailsOnce(a) ==
    LET p == Post(a, job[a].try)
    IN /\ Running /\ job[a].st = "deliver"
       /\ IF job[a].res = "cut" THEN UNCHANGED faults ELSE Fault
       /\ \E left \in IF p \in posts THEN Fates(p) ELSE {posts} :
            /\ job' = [job EXCEPT ![a].st = "gaveUp"]
            /\ posts' = left
       /\ UNCHANGED <<actor, run, pending, ch, att, suspends>>

(* A post fails or times out, by a fault or because a suspend cut its      *)
(* connection.  The ingress broker has read all of it, or may read it yet, *)
(* or never will, or has a part of it.  deliver posts again, five times.   *)
DeliverFails(a) ==
    LET p == Post(a, job[a].try)
    IN /\ Running /\ job[a].st = "deliver"
       /\ IF job[a].res = "cut" THEN UNCHANGED faults ELSE Fault
       /\ \E left \in IF p \in posts THEN Fates(p) ELSE {posts} :
            IF job[a].try < DeliverAttempts
            THEN /\ job' = [job EXCEPT ![a].try = @ + 1, ![a].res = "none"]
                 /\ posts' = left \cup {Post(a, job[a].try + 1)}
            ELSE /\ job' = [job EXCEPT ![a].st = "gaveUp"]
                 /\ posts' = left
       /\ UNCHANGED <<actor, run, pending, ch, att, suspends>>

-----------------------------------------------------------------------------
(* The sidecar suspends the actor while the agent waits for a call, or     *)
(* between requests (module Suspender): connections into and out of the    *)
(* actor are dead, the agent's loopback ones are not.                      *)
Suspend ==
    /\ Running /\ suspends < MaxSuspends
    /\ \/ \E a \in Attempts : job[a].st = "calling"
       \/ \A a \in Attempts : ~Active(a) /\ job[a].st # "arrived"
    /\ actor' = "suspended" /\ suspends' = suspends + 1
    /\ att' = [a \in Attempts |->
                 IF att[a] = "sent" /\ job[a].st = "arrived" THEN "broken" ELSE att[a]]
    /\ job' = [a \in Attempts |->
                 IF job[a].st = "deliver" /\ job[a].res = "none"
                 THEN [job[a] EXCEPT !.res = "cut"] ELSE job[a]]
    /\ UNCHANGED <<run, pending, ch, posts, faults>>

(* The egress broker (module EndToEnd) or anyone else resumes it.          *)
Resume ==
    /\ actor = "suspended" /\ actor' = "running"
    /\ UNCHANGED <<run, pending, ch, att, job, posts, faults, suspends>>

-----------------------------------------------------------------------------
HandlerRuns(r) == ForwardReturns(r) \/ Retry(r) \/ Reply(r)

IngressBroker ==
    \/ \E r \in Reqs : \/ BadRequest(r) \/ HandleRun(r) \/ HandlerRuns(r)
                       \/ ForwardTimeout(r) \/ ClientGone(r) \/ RequestTimeout(r)
    \/ \E m \in posts : HandleReply(m)

Atenet == \E a \in Attempts : \/ Route(a)
                              \/ \E status \in {"failed", "refused"} : AtenetFails(a, status)

SidecarRuns(a) ==
    \/ Handle(a, TRUE) \/ Respond(a) \/ DeliverReturns(a)
    \/ job[a].res = "cut" /\ DeliverFails(a)

Ingress == \E a \in Attempts :
              \/ SidecarRuns(a) \/ Handle(a, FALSE) \/ HandleFails(a) \/ DeliverFails(a)

Calls == \E a \in Attempts : CallOut(a) \/ CallReturns(a)

Next == IngressBroker \/ Atenet \/ Ingress \/ Calls \/ Suspend \/ Resume

Spec == Init /\ [][Next]_relayVars

(* HandleRun's and process's goroutines run, atenet passes on what it does *)
(* not fail, a post not lost is read.                                      *)
RelayFairness ==
    /\ \A r \in Reqs : WF_relayVars(HandlerRuns(r))
    /\ \A a \in Attempts : WF_relayVars(Route(a)) /\ WF_relayVars(SidecarRuns(a))
    /\ WF_relayVars(\E m \in posts : HandleReply(m))

(* What the relay expects of the egress side: a call returns to a running  *)
(* actor, and a suspended actor with a client's work is resumed.  Module   *)
(* EndToEnd shows that the tunnel, its broker and the resumer provide it.  *)
AwaitedResume == Resume /\ \E a \in Attempts : Active(a)

EgressPromise ==
    /\ \A a \in Attempts : WF_relayVars(CallReturns(a))
    /\ WF_relayVars(AwaitedResume)

FairSpec == Spec /\ RelayFairness /\ EgressPromise
-----------------------------------------------------------------------------
(* Attempts, jobs and posts are of their kind, each counter within its     *)
(* bound, and a request is registered exactly while its handler waits.     *)
TypeOK ==
    /\ actor \in {"running", "suspended"}
    /\ \A r \in Reqs : /\ run[r].pc \in {"new", "done"} \cup Parked
                       /\ run[r].n \in 0 .. ForwardAttempts
                       /\ ch[r] \in {"empty"} \cup Bodies
    /\ pending = {r \in Reqs : run[r].pc \in Parked}
    /\ \A a \in Attempts :
         /\ att[a] \in {"none", "sent", "acked", "failed", "refused", "broken", "gone"}
         /\ job[a].st \in InFlight \cup {"none", "arrived", "rejected", "delivered", "gaveUp"}
         /\ job[a].try \in 0 .. DeliverAttempts /\ job[a].res \in {"none", "204", "cut"}
    /\ posts \subseteq [a : Attempts, try : 1 .. DeliverAttempts, body : Bodies]
    /\ faults \in 0 .. MaxFaults /\ suspends \in 0 .. MaxSuspends

(* A response that the sidecar has seen acknowledged, and so forgotten, is *)
(* in the hands of the request's handler or came when that had ended: a    *)
(* reply that overtakes the return of the forward is not dropped.          *)
AcknowledgedReplyHeld ==
    \A a \in Attempts : job[a].st = "delivered" => ch[a[1]] # "empty" \/ run[a[1]].pc = "done"

(* The agent works on a client's request once, and once more only for each *)
(* attempt whose acknowledgement the ingress broker did not get.           *)
RunsBounded ==
    \A r \in Reqs :
        Cardinality({a \in Attempts : a[1] = r /\ job[a].st \notin {"none", "arrived", "rejected"}})
            <= 1 + Cardinality({a \in Attempts : a[1] = r /\ att[a] \in {"failed", "broken", "gone"}})

(* A client who got a response got all of it: each leg of the relay is a   *)
(* message that arrives whole or is repeated.                              *)
ReplyIntact == \A r \in Reqs : run[r].end # "part"

(* With fewer failures than attempts, a client is answered with the        *)
(* agent's response however suspends, lost acknowledgements and lost posts *)
(* fall, unless atenet refuses the request, the client hangs up or the     *)
(* time-out comes first, and nothing makes these come.                     *)
ClientAnswered ==
    \A r \in Reqs : run[r].pc = "forward"
                      ~> run[r].pc = "done"
                            /\ run[r].end \in Bodies \cup {"refused", "gone", "timeout"}
=============================================================================
