------------------------------ MODULE Suspender ------------------------------
(***************************************************************************)
(* When the sidecar suspends its actor: the activity tracker inside the    *)
(* agent (internal/activityz), the in-flight count of the ingress          *)
(* (internal/sidecar/ingress.go), the poll loop that reads both and calls  *)
(* SuspendActor (internal/sidecar/suspender.go) and, as environment, the   *)
(* agent's calls, the clients' requests and the platform.                  *)
(*                                                                         *)
(* Time is counted in poll intervals and kept as ages, -1 standing for the *)
(* zero Time.  An age stops growing at Cap, above every threshold.         *)
(***************************************************************************)
EXTENDS Integers, FiniteSets, FiniteSetsExt

CONSTANTS
    ToolCalls, ModelCalls,  \* the tool and model calls the agent may make
    Reqs,                   \* client requests
    Overlap,                \* calls may overlap
    BlockedAfter, IdleAfter, Cooldown, ResumeGap,
    IncludeModel,           \* SuspenderConfig.IncludeModelCalls
    Arrival,                \* a request that woke the actor is accepted within
    ClockFreezes,           \* the monotonic clock stands still in a suspend
    FetchFails, RpcFails,   \* /statusz, SuspendActor may fail
    Windows                 \* places where another goroutine may run

WindowNames ==
    { "ack",      \* Ingress.handle: 202 written, enterRequest not called
      "fetch",    \* Run: /statusz read, the decision not taken
      "rpc" }     \* suspend: SuspendActor sent, the actor not checkpointed

ASSUME ThresholdsAssumption ==
    {BlockedAfter, IdleAfter, Cooldown, ResumeGap, Arrival} \subseteq Nat \ {0}

ASSUME SwitchesAssumption ==
    /\ {Overlap, IncludeModel, ClockFreezes, FetchFails, RpcFails} \subseteq BOOLEAN
    /\ Windows \subseteq WindowNames

ASSUME CallsAssumption ==
    IsFiniteSet(ToolCalls) /\ IsFiniteSet(ModelCalls) /\ ToolCalls \cap ModelCalls = {}

VARIABLES
    actor,   \* "running" or "suspended"
    trk,     \* Tracker: in-flight count, started count and busy-since of each kind
    call,    \* the agent's calls
    ing,     \* Ingress: inFlight and idleSince
    req,     \* the clients' requests, and for how long one has been arriving
    p        \* Run's locals, and where Run stands

vars == <<actor, trk, call, ing, req, p>>

Calls == ToolCalls \cup ModelCalls
Kind  == {"tool", "model"}
KindOf(c) == IF c \in ToolCalls THEN "tool" ELSE "model"

Cap == 1 + Max({BlockedAfter, IdleAfter, Cooldown, ResumeGap})
Age == -1 .. Cap

Later(age, n) == IF age < 0 THEN age ELSE IF age + n > Cap THEN Cap ELSE age + n

NoStatus == [k \in Kind |-> [inFlight |-> 0, started |-> 0, blocked |-> 0]]

(* p.gap is the wall-clock time since prevTick, p.grace what is left until *)
(* idleGraceUntil, p.held whether that was so at now, p.since the time     *)
(* since lastSuspend, p.gen the counts lastToolGen and lastModelGen.       *)
Init ==
    /\ actor = "running"
    /\ trk = [k \in Kind |-> [inFlight |-> 0, total |-> 0, busy |-> -1]]
    /\ call = [c \in Calls |-> [st |-> "new", req |-> {}, age |-> -1,
                                answered |-> FALSE, suspends |-> 0]]
    /\ ing = [inFlight |-> 0, idle |-> 0]
    /\ req = [r \in Reqs |-> [st |-> "none", age |-> 0]]
    /\ p = [pc |-> "wait", gap |-> 0, grace |-> -1, held |-> FALSE, since |-> Cap,
            gen |-> [k \in Kind |-> 0], st |-> NoStatus]

InFlight(k)  == {c \in Calls : KindOf(c) = k /\ call[c].st = "inFlight"}
Arriving(r)  == req[r].st = "arriving"
Running      == actor = "running"

MidWay(w) ==
    CASE w = "ack"   -> \E r \in Reqs : req[r].st = "acked"
      [] w = "fetch" -> p.pc = "decide"
      [] w = "rpc"   -> p.pc = "sent"

Settled == \A w \in WindowNames \ Windows : ~MidWay(w)

-----------------------------------------------------------------------------
(* Time.  A request that resumed the actor reaches it within Arrival.      *)
Elapse(n) ==
    /\ trk' = [k \in Kind |-> [trk[k] EXCEPT !.busy = Later(@, n)]]
    /\ call' = [c \in Calls |-> [call[c] EXCEPT !.age = Later(@, n)]]
    /\ ing' = [ing EXCEPT !.idle = Later(@, n)]

Left(grace, n) == IF grace < n THEN -1 ELSE grace - n

Tick ==
    /\ Settled /\ Running
    /\ \A r \in Reqs : Arriving(r) => req[r].age < Arrival
    /\ Elapse(1)
    /\ req' = [r \in Reqs |-> IF Arriving(r) THEN [req[r] EXCEPT !.age = @ + 1] ELSE req[r]]
    /\ p' = [p EXCEPT !.gap = Later(@, 1), !.grace = Left(@, 1), !.since = Later(@, 1)]
    /\ UNCHANGED actor

-----------------------------------------------------------------------------
(* The tracker's callbacks around the agent's calls.                       *)
BeforeCall(c, r) ==
    LET k == KindOf(c)
    IN /\ Settled /\ Running /\ call[c].st = "new" /\ req[r].st = "inFlight"
       /\ Overlap \/ \A d \in Calls : call[d].st # "inFlight"
       /\ trk' = [trk EXCEPT ![k].inFlight = @ + 1, ![k].total = @ + 1,
                             ![k].busy = IF trk[k].inFlight = 0 THEN 0 ELSE @]
       /\ call' = [call EXCEPT ![c].st = "inFlight", ![c].req = {r}, ![c].age = 0]
       /\ UNCHANGED <<actor, ing, req, p>>

(* The response reached the broker (external).                             *)
Answer(c) ==
    /\ Settled /\ call[c].st = "inFlight" /\ ~call[c].answered
    /\ call' = [call EXCEPT ![c].answered = TRUE]
    /\ UNCHANGED <<actor, trk, ing, req, p>>

(* Mutant of AfterCall: busy-since outlives the last call.                 *)
AfterCallStaysBusy(c) ==
    /\ Settled /\ Running /\ call[c].st = "inFlight" /\ call[c].answered
    /\ trk' = [trk EXCEPT ![KindOf(c)].inFlight = @ - 1]
    /\ call' = [call EXCEPT ![c].st = "done", ![c].age = -1]
    /\ UNCHANGED <<actor, ing, req, p>>

AfterCall(c) ==
    LET k == KindOf(c)
    IN /\ Settled /\ Running /\ call[c].st = "inFlight" /\ call[c].answered
       /\ trk' = [trk EXCEPT ![k].inFlight = @ - 1,
                             ![k].busy = IF trk[k].inFlight = 1 THEN -1 ELSE @]
       /\ call' = [call EXCEPT ![c].st = "done", ![c].age = -1]
       /\ UNCHANGED <<actor, ing, req, p>>

-----------------------------------------------------------------------------
(* Ingress.handle: the request is read and 202 written ...                 *)
Accept(r) ==
    /\ Settled /\ Running /\ req[r].st \in {"none", "arriving"}
    /\ req' = [req EXCEPT ![r] = [st |-> "acked", age |-> 0]]
    /\ UNCHANGED <<actor, trk, call, ing, p>>

(* ... then enterRequest counts it.                                        *)
EnterRequest(r) ==
    /\ Running /\ req[r].st = "acked"
    /\ req' = [req EXCEPT ![r].st = "inFlight"]
    /\ ing' = [inFlight |-> ing.inFlight + 1, idle |-> -1]
    /\ UNCHANGED <<actor, trk, call, p>>

(* Mutant of ExitRequest: any request that ends starts the idle clock.     *)
ExitRequestAlwaysIdle(r) ==
    /\ Settled /\ Running /\ req[r].st = "inFlight"
    /\ \A c \in Calls : call[c].st = "inFlight" => r \notin call[c].req
    /\ req' = [req EXCEPT ![r].st = "done"]
    /\ ing' = [inFlight |-> 0, idle |-> 0]
    /\ UNCHANGED <<actor, trk, call, p>>

(* process returns: the agent answered and deliver is through.             *)
ExitRequest(r) ==
    /\ Settled /\ Running /\ req[r].st = "inFlight"
    /\ \A c \in Calls : call[c].st = "inFlight" => r \notin call[c].req
    /\ req' = [req EXCEPT ![r].st = "done"]
    /\ ing' = [inFlight |-> ing.inFlight - 1,
               idle |-> IF ing.inFlight = 1 THEN 0 ELSE ing.idle]
    /\ UNCHANGED <<actor, trk, call, p>>

IdleDuration == IF ing.inFlight > 0 \/ ing.idle < 0 THEN 0 ELSE ing.idle

-----------------------------------------------------------------------------
(* Suspender.Run.  A turn starts with resume detection and fetch ...       *)
Snapshot ==
    [k \in Kind |-> [inFlight |-> trk[k].inFlight, started |-> trk[k].total,
                     blocked |-> IF trk[k].busy < 0 THEN 0 ELSE trk[k].busy]]

Poll(ok) ==
    /\ Settled /\ Running /\ p.pc = "wait" /\ p.gap > 0
    /\ ok \/ FetchFails
    /\ LET grace == IF p.gap > ResumeGap THEN IdleAfter ELSE p.grace
       IN p' = [p EXCEPT !.pc = "decide", !.gap = 0, !.grace = grace, !.held = grace >= 0,
                         !.st = IF ok THEN Snapshot ELSE NoStatus]
    /\ UNCHANGED <<actor, trk, call, ing, req>>

(* decideBlocked; a fetch that failed leaves nothing in flight.            *)
Blocked(st, k) == st[k].inFlight > 0 /\ st[k].blocked >= BlockedAfter

Reason ==
    IF Blocked(p.st, "tool") THEN "tool"
    ELSE IF IncludeModel /\ Blocked(p.st, "model") THEN "model"
    ELSE IF ~p.held /\ IdleDuration >= IdleAfter THEN "idle"
    ELSE "none"

Gated(reason) == reason \in Kind /\ p.st[reason].started <= p.gen[reason]

(* ... and ends with SuspendActor sent, or with nothing.                   *)
Proceed(reason, gen, since) ==
    /\ p' = [p EXCEPT !.pc = "sent", !.gen = gen, !.since = since]
    /\ call' = [c \in Calls |->
                  IF reason = KindOf(c) /\ call[c].st = "inFlight"
                  THEN [call[c] EXCEPT !.suspends = @ + 1] ELSE call[c]]

Generation(reason) ==
    IF reason \in Kind THEN [p.gen EXCEPT ![reason] = p.st[reason].started] ELSE p.gen

(* Mutant of Decide: a call is suspended as often as it is seen blocked.   *)
DecideUngated ==
    /\ Running /\ p.pc = "decide"
    /\ IF Reason = "none" \/ p.since < Cooldown
       THEN p' = [p EXCEPT !.pc = "wait"] /\ UNCHANGED call
       ELSE Proceed(Reason, Generation(Reason), 0)
    /\ UNCHANGED <<actor, trk, ing, req>>

(* Mutant of Decide: lastSuspend is never set.                             *)
DecideNoCooldown ==
    /\ Running /\ p.pc = "decide"
    /\ IF Reason = "none" \/ Gated(Reason) \/ p.since < Cooldown
       THEN p' = [p EXCEPT !.pc = "wait"] /\ UNCHANGED call
       ELSE Proceed(Reason, Generation(Reason), p.since)
    /\ UNCHANGED <<actor, trk, ing, req>>

(* Mutant of Decide: the call is marked before the cooldown is looked at.  *)
DecideMarksEarly ==
    /\ Running /\ p.pc = "decide"
    /\ IF Reason = "none" \/ Gated(Reason)
       THEN p' = [p EXCEPT !.pc = "wait"] /\ UNCHANGED call
       ELSE IF p.since < Cooldown
       THEN p' = [p EXCEPT !.pc = "wait", !.gen = Generation(Reason)] /\ UNCHANGED call
       ELSE Proceed(Reason, Generation(Reason), 0)
    /\ UNCHANGED <<actor, trk, ing, req>>

Decide ==
    /\ Running /\ p.pc = "decide"
    /\ IF Reason = "none" \/ Gated(Reason) \/ p.since < Cooldown
       THEN p' = [p EXCEPT !.pc = "wait"] /\ UNCHANGED call
       ELSE Proceed(Reason, Generation(Reason), 0)
    /\ UNCHANGED <<actor, trk, ing, req>>

(* The platform (external) checkpoints the actor; its call stays open.     *)
SuspendActor ==
    /\ p.pc = "sent"
    /\ actor' = "suspended"
    /\ p' = [p EXCEPT !.pc = "zombie"]
    /\ UNCHANGED <<trk, call, ing, req>>

(* SuspendActor failed: Run goes on with the call marked as suspended.     *)
SuspendFails ==
    /\ RpcFails /\ p.pc = "sent"
    /\ p' = [p EXCEPT !.pc = "wait"]
    /\ UNCHANGED <<actor, trk, call, ing, req>>

(* After the resume the call errors or times out and Run goes on.          *)
SuspendReturns ==
    /\ Settled /\ Running /\ p.pc = "zombie"
    /\ p' = [p EXCEPT !.pc = "wait"]
    /\ UNCHANGED <<actor, trk, call, ing, req>>

-----------------------------------------------------------------------------
(* The platform (external) resumes the actor after d intervals: for the    *)
(* egress broker that holds the response to a call, or for a request.      *)
Resume(d) ==
    /\ actor = "suspended" /\ actor' = "running"
    /\ IF ClockFreezes THEN UNCHANGED <<trk, call, ing>> ELSE Elapse(d)
    /\ p' = [p EXCEPT !.gap = Later(@, d),
                      !.grace = IF ClockFreezes THEN @ ELSE Left(@, d),
                      !.since = IF ClockFreezes THEN @ ELSE Later(@, d)]

ResumeForAnswer(d) ==
    /\ \E c \in Calls : call[c].st = "inFlight" /\ call[c].answered
    /\ Resume(d) /\ UNCHANGED req

ResumeForRequest(r, d) ==
    /\ req[r].st = "none"
    /\ Resume(d) /\ req' = [req EXCEPT ![r] = [st |-> "arriving", age |-> 0]]

Gaps == 0 .. ResumeGap + 1

-----------------------------------------------------------------------------
Run == Decide \/ SuspendReturns \/ \E ok \in BOOLEAN : Poll(ok)

Requests ==
    \E r \in Reqs : \/ Accept(r) \/ EnterRequest(r) \/ ExitRequest(r)
                    \/ \E c \in Calls : BeforeCall(c, r)

Platform ==
    \/ SuspendActor \/ SuspendFails
    \/ \E d \in Gaps : ResumeForAnswer(d) \/ \E r \in Reqs : ResumeForRequest(r, d)

Next == Tick \/ Run \/ Requests \/ Platform \/ \E c \in Calls : Answer(c) \/ AfterCall(c)

Spec == Init /\ [][Next]_vars

(* The poll loop runs, time passes and the platform acts on SuspendActor;  *)
(* the request that woke the actor arrives, and the agent's code runs on   *)
(* once its call is answered.  Strong where Run's turns, one step here,    *)
(* only seem to keep another goroutine from running.                       *)
Fairness ==
    /\ SF_vars(Tick) /\ WF_vars(Run) /\ WF_vars(SuspendActor)
    /\ SF_vars(\E r \in Reqs : EnterRequest(r) \/ (Arriving(r) /\ Accept(r)))
    /\ WF_vars(\E d \in Gaps : ResumeForAnswer(d))
    /\ \A c \in Calls : SF_vars(AfterCall(c))

FairSpec == Spec /\ Fairness
-----------------------------------------------------------------------------
(* Counters, ages and program counter are in range, a busy-since is set    *)
(* exactly while calls of its kind are in flight, and idleSince exactly    *)
(* while no request is.                                                    *)
TypeOK ==
    /\ actor \in {"running", "suspended"}
    /\ \A k \in Kind : /\ trk[k].inFlight = Cardinality(InFlight(k))
                       /\ trk[k].total \in 0 .. Cardinality(Calls) /\ trk[k].busy \in Age
                       /\ trk[k].busy < 0 <=> trk[k].inFlight = 0
    /\ \A c \in Calls : /\ call[c].st \in {"new", "inFlight", "done"}
                        /\ call[c].age \in Age /\ call[c].suspends \in Nat
    /\ ing.idle \in Age /\ ing.inFlight \in Nat
    /\ ing.idle < 0 <=> ing.inFlight > 0
    /\ \A r \in Reqs : req[r].st \in {"none", "arriving", "acked", "inFlight", "done"}
    /\ p.pc \in {"wait", "decide", "sent", "zombie"}
    /\ p.held \in BOOLEAN /\ p.gap \in Age /\ p.grace \in -1 .. IdleAfter /\ p.since \in Age

(* Suspended actors get their answer: a call is suspended at most once for *)
(* being blocked, so that it is not suspended again before its response,   *)
(* which woke the actor, is delivered.                                     *)
SuspendedOnce == \A c \in Calls : call[c].suspends <= 1

(* A suspended actor with a client's work accepted is waiting for a call   *)
(* of the agent's, whose response will have the broker resume it.          *)
SuspendedHasWaker ==
    actor = "suspended" /\ (\E r \in Reqs : req[r].st \in {"acked", "inFlight"})
        => \E c \in Calls : call[c].st = "inFlight"

(* The request that resumed the actor is accepted before the idle policy   *)
(* suspends it again.                                                      *)
WakingRequestSafe == actor = "suspended" => \A r \in Reqs : ~Arriving(r)

(* Of an agent that makes one call at a time (~Overlap), a tool or model   *)
(* call that stays in flight gets the actor suspended, whatever calls and  *)
(* idle times it was suspended for before.                                 *)
BlockedSuspends ==
    \A c \in Calls : (call[c].st = "inFlight" /\ call[c].suspends = 0)
                       ~> (actor = "suspended" \/ call[c].st = "done")
=============================================================================
