--------------------------- MODULE SuspenderProofs ---------------------------
(***************************************************************************)
(* For any number of calls and requests and any thresholds: the counters   *)
(* of the tracker and of the ingress are right, a call is suspended at     *)
(* most once, a suspended actor with a client's work waits for a call, and *)
(* the request that woke the actor is accepted before the next suspend.    *)
(***************************************************************************)
EXTENDS Suspender, FiniteSetTheorems, TLAPS

TrkType == [inFlight : Nat, total : Nat, busy : Age]

CallType == [st : {"new", "inFlight", "done"}, req : SUBSET Reqs, age : Age, answered : BOOLEAN,
             suspends : Nat]

ReqType == [st : {"none", "arriving", "acked", "inFlight", "done"}, age : Nat]

StatusType == [Kind -> [inFlight : Nat, started : Nat, blocked : Nat]]

RunType == [pc : {"wait", "decide", "sent", "zombie"}, gap : Age, grace : -1 .. IdleAfter,
            held : BOOLEAN, since : Age, gen : [Kind -> Nat], st : StatusType]

Typed ==
    /\ actor \in {"running", "suspended"}
    /\ trk \in [Kind -> TrkType]
    /\ call \in [Calls -> CallType]
    /\ ing \in [inFlight : Nat, idle : Age]
    /\ req \in [Reqs -> ReqType]
    /\ p \in RunType

(* Each counter is the number of calls or requests that it stands for, and *)
(* each clock runs exactly while that is, or is not, zero.                 *)
Started(k) == {c \in Calls : KindOf(c) = k /\ call[c].st # "new"}
Entered    == {r \in Reqs : req[r].st = "inFlight"}

CallsCounted ==
    \A k \in Kind : /\ trk[k].inFlight = Cardinality(InFlight(k))
                    /\ trk[k].total = Cardinality(Started(k))
                    /\ trk[k].busy < 0 <=> trk[k].inFlight = 0

RequestsCounted ==
    /\ IsFiniteSet(Entered) /\ ing.inFlight = Cardinality(Entered)
    /\ ing.idle < 0 <=> ing.inFlight > 0

SInv == Typed /\ CallsCounted /\ RequestsCounted

(* Run decides on what the tracker shows, or on nothing at all.            *)
Fresh == p.pc = "decide" => p.st \in {Snapshot, NoStatus}

(* While the actor is suspended Run is inside its call of SuspendActor.    *)
HeldInCall == actor = "suspended" => p.pc = "zombie"

(* For SuspendedOnce: calls do not overlap, and the call in flight, once   *)
(* suspended, is not newer than the last generation of its kind.           *)
OneAtATime == \A c, d \in Calls : call[c].st = "inFlight" /\ call[d].st = "inFlight" => c = d

Marked ==
    \A c \in Calls :
        /\ call[c].st = "new" => call[c].suspends = 0
        /\ call[c].st = "inFlight" /\ call[c].suspends > 0
             => p.gen[KindOf(c)] >= trk[KindOf(c)].total

OnceInv == SInv /\ Fresh /\ HeldInCall /\ OneAtATime /\ Marked /\ SuspendedOnce

(* For SuspendedHasWaker: no request is between its 202 and its count when *)
(* Run decides, and when it has decided work implies a call.               *)
Committed == p.pc = "sent" \/ actor = "suspended"

Counted == p.pc = "decide" \/ Committed => \A r \in Reqs : req[r].st # "acked"

WorkHasCall ==
    Committed => \/ \A r \in Reqs : req[r].st # "inFlight"
                 \/ \E c \in Calls : call[c].st = "inFlight"

WakerInv == SInv /\ Fresh /\ HeldInCall /\ Counted /\ WorkHasCall

(* For WakingRequestSafe: a request that woke the actor has been arriving  *)
(* for at least as long as the cooldown of the last suspend has run.       *)
CooldownRuns ==
    /\ Committed => p.since = 0
    /\ \A r \in Reqs : Arriving(r) => /\ p.since >= 0 /\ p.since <= req[r].age
                                      /\ req[r].age <= Arrival /\ ~Committed

WakeInv == SInv /\ HeldInCall /\ CooldownRuns

-----------------------------------------------------------------------------
(* Constants and clocks.  Thresholds are at least one poll interval.       *)
LEMMA Thresholds ==
    /\ BlockedAfter \in Nat /\ IdleAfter \in Nat /\ Cooldown \in Nat /\ ResumeGap \in Nat
    /\ Arrival \in Nat /\ BlockedAfter > 0 /\ IdleAfter > 0 /\ Cooldown > 0
  BY ThresholdsAssumption

(* Cap is above every threshold.                                           *)
LEMMA CapAbove ==
    /\ Cap \in Nat
    /\ Cap > BlockedAfter /\ Cap > IdleAfter /\ Cap > Cooldown /\ Cap > ResumeGap
  <1> DEFINE S == {BlockedAfter, IdleAfter, Cooldown, ResumeGap}
  <1>1. S \subseteq Nat
    BY ThresholdsAssumption
  <1>2. \E x \in S : \A y \in S : x >= y
    BY <1>1
  <1>3. Max(S) \in S /\ \A y \in S : Max(S) >= y
    BY <1>2 DEF Max
  <1> HIDE DEF S
  <1>4. Max(S) \in Nat
    BY <1>1, <1>3
  <1>5. BlockedAfter \in S /\ IdleAfter \in S /\ Cooldown \in S /\ ResumeGap \in S
    BY DEF S
  <1>6. Cap = 1 + Max(S)
    BY DEF Cap, S
  <1> QED
    BY <1>1, <1>3, <1>4, <1>5, <1>6

(* An age grows up to Cap, and the zero Time stays what it is.             *)
LEMMA LaterAge ==
    ASSUME NEW age \in Age, NEW n \in Nat
    PROVE  Later(age, n) \in Age /\ (Later(age, n) < 0 <=> age < 0)
  BY CapAbove DEF Age, Later

(* Ages are integers, and a clock just started or stopped shows one.       *)
LEMMA AgeValues == -1 \in Age /\ 0 \in Age /\ Age \subseteq Int /\ Cap \in Age
  BY CapAbove DEF Age

(* What is left of the grace period.                                       *)
LEMMA LeftGrace ==
    ASSUME NEW grace \in -1 .. IdleAfter, NEW n \in Nat
    PROVE  Left(grace, n) \in -1 .. IdleAfter
  BY ThresholdsAssumption DEF Left

(* There are finitely many calls, of two kinds.                            *)
LEMMA CallsFinite ==
    /\ IsFiniteSet(Calls)
    /\ \A c \in Calls : KindOf(c) \in Kind
    /\ \A k \in Kind : IsFiniteSet(InFlight(k)) /\ IsFiniteSet(Started(k))
  <1>1. IsFiniteSet(Calls)
    BY CallsAssumption, FS_Union DEF Calls
  <1>2. \A k \in Kind : InFlight(k) \subseteq Calls /\ Started(k) \subseteq Calls
    BY DEF InFlight, Started
  <1> QED
    BY <1>1, <1>2, FS_Subset DEF KindOf, Kind

-----------------------------------------------------------------------------
(* A step that begins and ends no call, and runs no clock of the tracker's *)
(* but forward, keeps its counts.                                          *)
LEMMA CallsKept ==
    ASSUME CallsCounted, \A c \in Calls : call'[c].st = call[c].st,
           \A k \in Kind : /\ trk'[k].inFlight = trk[k].inFlight /\ trk'[k].total = trk[k].total
                           /\ trk'[k].busy < 0 <=> trk[k].busy < 0
    PROVE  CallsCounted'
  <1>1. \A k \in Kind : InFlight(k)' = InFlight(k) /\ Started(k)' = Started(k)
    BY DEF InFlight, Started
  <1> QED
    BY <1>1 DEF CallsCounted

(* So does one for the requests.                                           *)
LEMMA RequestsKept ==
    ASSUME RequestsCounted, \A r \in Reqs : req'[r].st = "inFlight" <=> req[r].st = "inFlight",
           ing'.inFlight = ing.inFlight, ing'.idle < 0 <=> ing.idle < 0
    PROVE  RequestsCounted'
  <1>1. Entered' = Entered
    BY DEF Entered
  <1> QED
    BY <1>1 DEF RequestsCounted

(* At the start nothing is in flight.                                      *)
LEMMA InitSInv == Init => SInv
  <1> SUFFICES ASSUME Init
               PROVE  SInv
    OBVIOUS
  <1>1. Typed
    BY CapAbove, ThresholdsAssumption
    DEF Init, Typed, TrkType, CallType, ReqType, RunType, StatusType, NoStatus, Age, Kind
  <1>2. CallsCounted
    <2>1. \A k \in Kind : InFlight(k) = {} /\ Started(k) = {}
      BY DEF Init, InFlight, Started
    <2>2. Cardinality({}) = 0
      BY FS_EmptySet
    <2>3. \A k \in Kind : trk[k].inFlight = 0 /\ trk[k].total = 0 /\ trk[k].busy = -1
      BY DEF Init
    <2> QED
      BY <2>1, <2>2, <2>3 DEF CallsCounted
  <1>3. RequestsCounted
    <2>1. Entered = {}
      BY DEF Init, Entered
    <2> QED
      BY <2>1, FS_EmptySet DEF Init, RequestsCounted
  <1> QED
    BY <1>1, <1>2, <1>3 DEF SInv

(* Time passing for the tracker's and the ingress' clocks.                 *)
LEMMA ElapseSInv ==
    ASSUME SInv, NEW n \in Nat, Elapse(n)
    PROVE  /\ trk' \in [Kind -> TrkType] /\ call' \in [Calls -> CallType]
           /\ ing' \in [inFlight : Nat, idle : Age]
           /\ CallsCounted' /\ ing'.inFlight = ing.inFlight /\ (ing'.idle < 0 <=> ing.idle < 0)
           /\ \A c \in Calls : call'[c] = [call[c] EXCEPT !.age = Later(@, n)]
  <1>0. \A k \in Kind : /\ trk[k] \in TrkType /\ trk[k].busy \in Age
                        /\ trk'[k] = [trk[k] EXCEPT !.busy = Later(trk[k].busy, n)]
    BY DEF SInv, Typed, TrkType, Elapse
  <1>1. /\ trk' \in [Kind -> TrkType]
        /\ \A k \in Kind : /\ trk'[k].inFlight = trk[k].inFlight /\ trk'[k].total = trk[k].total
                           /\ trk'[k].busy < 0 <=> trk[k].busy < 0
    BY <1>0, LaterAge DEF TrkType, Elapse
  <1>2. \A c \in Calls : call'[c] = [call[c] EXCEPT !.age = Later(@, n)]
    BY DEF Elapse
  <1>3. call' \in [Calls -> CallType] /\ \A c \in Calls : call'[c].st = call[c].st
    BY LaterAge DEF SInv, Typed, CallType, Elapse
  <1>4. /\ ing' \in [inFlight : Nat, idle : Age]
        /\ ing'.inFlight = ing.inFlight /\ (ing'.idle < 0 <=> ing.idle < 0)
    BY LaterAge DEF SInv, Typed, Elapse
  <1>5. CallsCounted'
    BY <1>1, <1>3, CallsKept DEF SInv
  <1> QED
    BY <1>1, <1>2, <1>3, <1>4, <1>5

(* A step that leaves the tracker, the calls and the counts of requests.   *)
LEMMA QuietSInv ==
    ASSUME SInv, UNCHANGED trk, actor' \in {"running", "suspended"},
           call' \in [Calls -> CallType], \A c \in Calls : call'[c].st = call[c].st,
           UNCHANGED ing, req' \in [Reqs -> ReqType],
           \A r \in Reqs : req'[r].st = "inFlight" <=> req[r].st = "inFlight",
           p' \in RunType
    PROVE  SInv'
  <1>1. Typed'
    BY DEF SInv, Typed
  <1>2. CallsCounted'
    BY CallsKept DEF SInv
  <1>3. RequestsCounted'
    BY RequestsKept DEF SInv
  <1> QED
    BY <1>1, <1>2, <1>3 DEF SInv

(* Time passing keeps the counters.                                        *)
LEMMA TickSInv ==
    ASSUME SInv, Tick
    PROVE  SInv'
  <1>1. Elapse(1) /\ UNCHANGED actor
    BY DEF Tick
  <1>2. /\ trk' \in [Kind -> TrkType] /\ call' \in [Calls -> CallType]
        /\ ing' \in [inFlight : Nat, idle : Age]
        /\ CallsCounted' /\ ing'.inFlight = ing.inFlight /\ (ing'.idle < 0 <=> ing.idle < 0)
    BY <1>1, ElapseSInv
  <1>3. req' \in [Reqs -> ReqType] /\ \A r \in Reqs : req'[r].st = req[r].st
    BY DEF SInv, Typed, ReqType, Tick
  <1>4. p' \in RunType
    BY LaterAge, LeftGrace DEF SInv, Typed, RunType, Tick
  <1>5. RequestsCounted'
    BY <1>2, <1>3, RequestsKept DEF SInv
  <1> QED
    BY <1>1, <1>2, <1>3, <1>4, <1>5 DEF SInv, Typed

(* beforeToolCall, beforeModelCall: one call more in flight and started,   *)
(* and the first one starts the clock.                                     *)
LEMMA BeforeCallSInv ==
    ASSUME SInv, NEW c \in Calls, NEW r \in Reqs, BeforeCall(c, r)
    PROVE  SInv'
  <1> DEFINE k == KindOf(c)
  <1>0. k \in Kind /\ \A j \in Kind : IsFiniteSet(InFlight(j)) /\ IsFiniteSet(Started(j))
    BY CallsFinite
  <1>1. /\ trk' \in [Kind -> TrkType]
        /\ trk'[k].inFlight = trk[k].inFlight + 1 /\ trk'[k].total = trk[k].total + 1
        /\ trk'[k].busy = IF trk[k].inFlight = 0 THEN 0 ELSE trk[k].busy
        /\ \A j \in Kind : j # k => trk'[j] = trk[j]
    BY <1>0, CapAbove DEF BeforeCall, SInv, Typed, TrkType, Age
  <1>2. /\ call' \in [Calls -> CallType] /\ call[c].st = "new" /\ call'[c].st = "inFlight"
        /\ \A d \in Calls : d # c => call'[d] = call[d]
    <2>1. call[c] \in CallType /\ call[c].st = "new"
      BY DEF SInv, Typed, BeforeCall
    <2>2. call' = [call EXCEPT ![c] = [call[c] EXCEPT !.st = "inFlight", !.req = {r}, !.age = 0]]
      BY DEF BeforeCall, SInv, Typed
    <2>3. [call[c] EXCEPT !.st = "inFlight", !.req = {r}, !.age = 0] \in CallType
      BY <2>1, AgeValues DEF CallType
    <2> QED
      BY <2>1, <2>2, <2>3 DEF SInv, Typed, CallType
  <1>3. /\ InFlight(k)' = InFlight(k) \cup {c} /\ c \notin InFlight(k)
        /\ Started(k)' = Started(k) \cup {c} /\ c \notin Started(k)
    BY <1>2 DEF InFlight, Started
  <1>4. \A j \in Kind : j # k => InFlight(j)' = InFlight(j) /\ Started(j)' = Started(j)
    BY <1>2 DEF InFlight, Started
  <1>5. /\ Cardinality(InFlight(k)') = Cardinality(InFlight(k)) + 1
        /\ Cardinality(Started(k)') = Cardinality(Started(k)) + 1
    BY <1>0, <1>3, FS_AddElement
  <1>6. CallsCounted'
    <2>1. trk[k] \in TrkType /\ trk[k].busy \in Int
      BY <1>0, CapAbove DEF SInv, Typed, TrkType, Age
    <2>2. /\ trk'[k].inFlight = Cardinality(InFlight(k)') /\ trk'[k].total = Cardinality(Started(k)')
          /\ trk'[k].busy < 0 <=> trk'[k].inFlight = 0
      BY <1>0, <1>1, <1>5, <2>1 DEF SInv, CallsCounted, TrkType
    <2>3. \A j \in Kind : j # k => /\ trk'[j].inFlight = Cardinality(InFlight(j)')
                                   /\ trk'[j].total = Cardinality(Started(j)')
                                   /\ trk'[j].busy < 0 <=> trk'[j].inFlight = 0
      BY <1>1, <1>4 DEF SInv, CallsCounted
    <2> QED
      BY <2>2, <2>3 DEF CallsCounted
  <1>7. UNCHANGED <<actor, ing, req, p>>
    BY DEF BeforeCall
  <1>8. RequestsCounted'
    BY <1>7, RequestsKept DEF SInv
  <1> QED
    BY <1>1, <1>2, <1>6, <1>7, <1>8 DEF SInv, Typed

(* afterToolCall, afterModelCall: one call less, and the last one stops    *)
(* the clock.                                                              *)
LEMMA AfterCallSInv ==
    ASSUME SInv, NEW c \in Calls, AfterCall(c)
    PROVE  SInv'
  <1> DEFINE k == KindOf(c)
  <1>0. k \in Kind /\ \A j \in Kind : IsFiniteSet(InFlight(j)) /\ IsFiniteSet(Started(j))
    BY CallsFinite
  <1>1. c \in InFlight(k)
    BY DEF AfterCall, InFlight
  <1>2. /\ IsFiniteSet(InFlight(k) \ {c})
        /\ Cardinality(InFlight(k) \ {c}) = Cardinality(InFlight(k)) - 1
        /\ Cardinality(InFlight(k) \ {c}) \in Nat
    BY <1>0, <1>1, FS_RemoveElement, FS_CardinalityType
  <1>3. trk[k] \in TrkType /\ trk[k].inFlight - 1 \in Nat /\ trk[k].inFlight = Cardinality(InFlight(k))
    BY <1>0, <1>2 DEF SInv, Typed, CallsCounted
  <1>4. /\ trk' \in [Kind -> TrkType]
        /\ trk'[k].inFlight = trk[k].inFlight - 1 /\ trk'[k].total = trk[k].total
        /\ trk'[k].busy = IF trk[k].inFlight = 1 THEN -1 ELSE trk[k].busy
        /\ \A j \in Kind : j # k => trk'[j] = trk[j]
    <2> DEFINE b == IF trk[k].inFlight = 1 THEN -1 ELSE trk[k].busy
               t == [trk[k] EXCEPT !.inFlight = trk[k].inFlight - 1, !.busy = b]
    <2>1. trk' = [trk EXCEPT ![k] = t]
      BY <1>0 DEF AfterCall, SInv, Typed
    <2>2. /\ t \in TrkType /\ t.inFlight = trk[k].inFlight - 1 /\ t.total = trk[k].total
          /\ t.busy = b
      BY <1>3, AgeValues DEF TrkType
    <2> QED
      BY <1>0, <2>1, <2>2 DEF SInv, Typed
  <1>5. /\ call' \in [Calls -> CallType] /\ call[c].st = "inFlight" /\ call'[c].st = "done"
        /\ \A d \in Calls : d # c => call'[d] = call[d]
    <2>1. call[c] \in CallType /\ call[c].st = "inFlight"
      BY DEF SInv, Typed, AfterCall
    <2>2. call' = [call EXCEPT ![c] = [call[c] EXCEPT !.st = "done", !.age = -1]]
      BY DEF AfterCall, SInv, Typed
    <2>3. [call[c] EXCEPT !.st = "done", !.age = -1] \in CallType
      BY <2>1, AgeValues DEF CallType
    <2> QED
      BY <2>1, <2>2, <2>3 DEF SInv, Typed, CallType
  <1>6. /\ InFlight(k)' = InFlight(k) \ {c} /\ \A j \in Kind : Started(j)' = Started(j)
        /\ \A j \in Kind : j # k => InFlight(j)' = InFlight(j)
    BY <1>5 DEF InFlight, Started
  <1>7. CallsCounted'
    <2>1. trk[k].busy \in Int /\ (trk[k].busy < 0 <=> trk[k].inFlight = 0)
      BY <1>0, CapAbove DEF SInv, Typed, CallsCounted, TrkType, Age
    <2>2. /\ trk'[k].inFlight = Cardinality(InFlight(k)') /\ trk'[k].total = Cardinality(Started(k)')
          /\ trk'[k].busy < 0 <=> trk'[k].inFlight = 0
      BY <1>0, <1>2, <1>3, <1>4, <1>6, <2>1 DEF SInv, CallsCounted
    <2>3. \A j \in Kind : j # k => /\ trk'[j].inFlight = Cardinality(InFlight(j)')
                                   /\ trk'[j].total = Cardinality(Started(j)')
                                   /\ trk'[j].busy < 0 <=> trk'[j].inFlight = 0
      BY <1>4, <1>6 DEF SInv, CallsCounted
    <2> QED
      BY <2>2, <2>3 DEF CallsCounted
  <1>8. UNCHANGED <<actor, ing, req, p>>
    BY DEF AfterCall
  <1>9. RequestsCounted'
    BY <1>8, RequestsKept DEF SInv
  <1> QED
    BY <1>4, <1>5, <1>7, <1>8, <1>9 DEF SInv, Typed

(* enterRequest: one request more, and the idle clock stops.               *)
LEMMA EnterRequestSInv ==
    ASSUME SInv, NEW r \in Reqs, EnterRequest(r)
    PROVE  SInv'
  <1>1. /\ req' \in [Reqs -> ReqType] /\ req[r].st = "acked" /\ req'[r].st = "inFlight"
        /\ \A q \in Reqs : q # r => req'[q] = req[q]
    BY DEF EnterRequest, SInv, Typed, ReqType
  <1>2. Entered' = Entered \cup {r} /\ r \notin Entered
    BY <1>1 DEF Entered
  <1>3. IsFiniteSet(Entered') /\ Cardinality(Entered') = Cardinality(Entered) + 1
    BY <1>2, FS_AddElement DEF SInv, RequestsCounted
  <1>4. ing' = [inFlight |-> ing.inFlight + 1, idle |-> -1] /\ UNCHANGED <<actor, trk, call, p>>
    BY DEF EnterRequest
  <1>5. ing.inFlight \in Nat /\ ing' \in [inFlight : Nat, idle : Age]
    BY <1>4, CapAbove DEF SInv, Typed, Age
  <1>6. RequestsCounted'
    BY <1>3, <1>4, <1>5 DEF SInv, RequestsCounted
  <1>7. CallsCounted'
    BY <1>4, CallsKept DEF SInv
  <1> QED
    BY <1>1, <1>4, <1>5, <1>6, <1>7 DEF SInv, Typed

(* exitRequest: one request less, and the last one starts the idle clock.  *)
LEMMA ExitRequestSInv ==
    ASSUME SInv, NEW r \in Reqs, ExitRequest(r)
    PROVE  SInv'
  <1>1. /\ req' \in [Reqs -> ReqType] /\ req[r].st = "inFlight" /\ req'[r].st = "done"
        /\ \A q \in Reqs : q # r => req'[q] = req[q]
    BY DEF ExitRequest, SInv, Typed, ReqType
  <1>2. Entered' = Entered \ {r} /\ r \in Entered
    BY <1>1 DEF Entered
  <1>3. /\ IsFiniteSet(Entered') /\ Cardinality(Entered') = Cardinality(Entered) - 1
        /\ Cardinality(Entered') \in Nat
    BY <1>2, FS_RemoveElement, FS_CardinalityType DEF SInv, RequestsCounted
  <1>4. /\ ing' = [inFlight |-> ing.inFlight - 1, idle |-> IF ing.inFlight = 1 THEN 0 ELSE ing.idle]
        /\ UNCHANGED <<actor, trk, call, p>>
    BY DEF ExitRequest
  <1>5. /\ ing.inFlight = Cardinality(Entered) /\ ing.inFlight \in Nat /\ ing.idle \in Age
        /\ ing.idle < 0 <=> ing.inFlight > 0
    BY DEF SInv, Typed, RequestsCounted
  <1>6. ing' \in [inFlight : Nat, idle : Age]
    BY <1>3, <1>4, <1>5, CapAbove DEF Age
  <1>7. RequestsCounted'
    BY <1>3, <1>4, <1>5 DEF RequestsCounted, Age
  <1>8. CallsCounted'
    BY <1>4, CallsKept DEF SInv
  <1> QED
    BY <1>1, <1>4, <1>6, <1>7, <1>8 DEF SInv, Typed

(* An answer at the broker changes no counter.                             *)
LEMMA AnswerSInv ==
    ASSUME SInv, NEW c \in Calls, Answer(c)
    PROVE  SInv'
  <1>1. call' \in [Calls -> CallType] /\ \A d \in Calls : call'[d].st = call[d].st
    BY DEF Answer, SInv, Typed, CallType
  <1> QED
    BY <1>1, QuietSInv DEF Answer, SInv, Typed

(* Neither does a request that is acknowledged and not yet counted.        *)
LEMMA AcceptSInv ==
    ASSUME SInv, NEW r \in Reqs, Accept(r)
    PROVE  SInv'
  <1>1. /\ req' \in [Reqs -> ReqType]
        /\ \A q \in Reqs : req'[q].st = "inFlight" <=> req[q].st = "inFlight"
    BY DEF Accept, SInv, Typed, ReqType
  <1> QED
    BY <1>1, QuietSInv DEF Accept, SInv, Typed

(* What Run reads of the tracker.                                          *)
LEMMA SnapshotType ==
    ASSUME SInv
    PROVE  /\ Snapshot \in StatusType /\ NoStatus \in StatusType
           /\ \A k \in Kind : /\ Snapshot[k].inFlight = trk[k].inFlight
                              /\ Snapshot[k].started = trk[k].total
                              /\ NoStatus[k].inFlight = 0
  <1>1. \A k \in Kind : trk[k].inFlight \in Nat /\ trk[k].total \in Nat /\ trk[k].busy \in Int
    BY CapAbove DEF SInv, Typed, TrkType, Age
  <1> QED
    BY <1>1 DEF Snapshot, NoStatus, StatusType

(* A turn of Run that begins reads the counters only.                      *)
LEMMA PollSInv ==
    ASSUME SInv, NEW ok \in BOOLEAN, Poll(ok)
    PROVE  SInv'
  <1> DEFINE grace == IF p.gap > ResumeGap THEN IdleAfter ELSE p.grace
             st    == IF ok THEN Snapshot ELSE NoStatus
             held  == grace >= 0
  <1>1. p' = [p EXCEPT !.pc = "decide", !.gap = 0, !.grace = grace, !.held = held, !.st = st]
    BY DEF Poll
  <1>2. grace \in -1 .. IdleAfter
    BY ThresholdsAssumption DEF SInv, Typed, RunType
  <1>3. st \in StatusType
    BY SnapshotType
  <1>4. held \in BOOLEAN
    OBVIOUS
  <1> HIDE DEF grace, held, st
  <1>5. p' \in RunType
    BY <1>1, <1>2, <1>3, <1>4, AgeValues DEF SInv, Typed, RunType
  <1> QED
    BY <1>5, QuietSInv DEF Poll, SInv, Typed

(* What a turn of Run that suspends does to Run's locals and to the calls. *)
LEMMA ProceedEffect ==
    ASSUME SInv, NEW reason \in {"tool", "model", "idle"},
           Proceed(reason, Generation(reason), 0)
    PROVE  /\ p' = [p EXCEPT !.pc = "sent", !.gen = Generation(reason), !.since = 0]
           /\ p' \in RunType /\ call' \in [Calls -> CallType]
           /\ \A c \in Calls : /\ call'[c].st = call[c].st
                               /\ call'[c].suspends = IF reason = KindOf(c) /\ call[c].st = "inFlight"
                                                      THEN call[c].suspends + 1
                                                      ELSE call[c].suspends
  <1>1. p' = [p EXCEPT !.pc = "sent", !.gen = Generation(reason), !.since = 0]
    BY DEF Proceed
  <1>2. Generation(reason) \in [Kind -> Nat]
    BY DEF Generation, SInv, Typed, RunType, StatusType
  <1>3. p' \in RunType
    BY <1>1, <1>2, AgeValues DEF SInv, Typed, RunType
  <1>4. \A c \in Calls : call'[c] = IF reason = KindOf(c) /\ call[c].st = "inFlight"
                                    THEN [call[c] EXCEPT !.suspends = @ + 1] ELSE call[c]
    BY DEF Proceed
  <1>5. \A c \in Calls : call[c] \in CallType
    BY DEF SInv, Typed
  <1>6. \A c \in Calls : /\ call'[c] \in CallType /\ call'[c].st = call[c].st
                         /\ call'[c].suspends = IF reason = KindOf(c) /\ call[c].st = "inFlight"
                                                THEN call[c].suspends + 1
                                                ELSE call[c].suspends
    <2> SUFFICES ASSUME NEW c \in Calls
                 PROVE  /\ call'[c] \in CallType /\ call'[c].st = call[c].st
                        /\ call'[c].suspends = IF reason = KindOf(c) /\ call[c].st = "inFlight"
                                               THEN call[c].suspends + 1
                                               ELSE call[c].suspends
      OBVIOUS
    <2>1. CASE reason = KindOf(c) /\ call[c].st = "inFlight"
      <3>1. call'[c] = [call[c] EXCEPT !.suspends = call[c].suspends + 1]
        BY <1>4, <2>1
      <3> QED
        BY <1>5, <2>1, <3>1 DEF CallType
    <2>2. CASE ~(reason = KindOf(c) /\ call[c].st = "inFlight")
      BY <1>4, <1>5, <2>2
    <2> QED
      BY <2>1, <2>2
  <1>7. call' \in [Calls -> CallType]
    BY <1>6 DEF Proceed
  <1> QED
    BY <1>1, <1>3, <1>6, <1>7

(* A turn of Run ends with nothing done, or suspends for a reason.         *)
LEMMA DecideCases ==
    ASSUME SInv, Decide
    PROVE  \/ UNCHANGED call /\ p' = [p EXCEPT !.pc = "wait"]
           \/ \E reason \in {"tool", "model", "idle"} :
                 /\ reason = Reason /\ ~Gated(reason) /\ p.since >= Cooldown
                 /\ Proceed(reason, Generation(reason), 0)
  <1>0. p.since \in Age
    BY DEF SInv, Typed, RunType
  <1>1. p.since \in Int /\ Cooldown \in Int
    BY <1>0, CapAbove, Thresholds DEF Age
  <1>2. Reason \in {"tool", "model", "idle", "none"}
    BY DEF Reason
  <1>3. CASE Reason = "none" \/ Gated(Reason) \/ p.since < Cooldown
    BY <1>3 DEF Decide
  <1>4. CASE ~(Reason = "none" \/ Gated(Reason) \/ p.since < Cooldown)
    <2>1. Proceed(Reason, Generation(Reason), 0)
      BY <1>4 DEF Decide
    <2>2. Reason \in {"tool", "model", "idle"} /\ ~Gated(Reason) /\ p.since >= Cooldown
      BY <1>1, <1>2, <1>4
    <2> QED
      BY <2>1, <2>2
  <1> QED
    BY <1>3, <1>4

(* A turn of Run that ends changes the marks of the calls only.            *)
LEMMA DecideSInv ==
    ASSUME SInv, Decide
    PROVE  SInv'
  <1>1. UNCHANGED <<actor, trk, ing, req>>
    BY DEF Decide
  <1>2. p' \in RunType /\ call' \in [Calls -> CallType] /\ \A c \in Calls : call'[c].st = call[c].st
    <2>1. CASE UNCHANGED call /\ p' = [p EXCEPT !.pc = "wait"]
      BY <2>1 DEF SInv, Typed, RunType
    <2>2. CASE \E reason \in {"tool", "model", "idle"} : Proceed(reason, Generation(reason), 0)
      BY <2>2, ProceedEffect
    <2> QED
      BY <2>1, <2>2, DecideCases
  <1> QED
    BY <1>1, <1>2, QuietSInv DEF SInv, Typed

(* Run's call of SuspendActor ends, in one way or another.                 *)
LEMMA SuspendSInv ==
    ASSUME SInv, SuspendActor \/ SuspendFails \/ SuspendReturns
    PROVE  SInv'
  <1>1. p' \in RunType
    BY DEF SuspendActor, SuspendFails, SuspendReturns, SInv, Typed, RunType
  <1>2. actor' \in {"running", "suspended"} /\ UNCHANGED <<trk, call, ing, req>>
    BY DEF SuspendActor, SuspendFails, SuspendReturns, SInv, Typed
  <1> QED
    BY <1>1, <1>2, QuietSInv DEF SInv, Typed

(* A resume runs the clocks, or leaves them where they stood.              *)
LEMMA ResumeSInv ==
    ASSUME SInv, NEW d \in Gaps, Resume(d), req' \in [Reqs -> ReqType],
           \A r \in Reqs : req'[r].st = "inFlight" <=> req[r].st = "inFlight"
    PROVE  SInv'
  <1>1. d \in Nat
    BY ThresholdsAssumption DEF Gaps
  <1>2. p' \in RunType
    <2>1. Later(p.gap, d) \in Age /\ Later(p.since, d) \in Age /\ Left(p.grace, d) \in -1 .. IdleAfter
      BY <1>1, LaterAge, LeftGrace DEF SInv, Typed, RunType
    <2> QED
      BY <2>1 DEF Resume, SInv, Typed, RunType
  <1>3. actor' \in {"running", "suspended"}
    BY DEF Resume
  <1>4. CASE ClockFreezes
    <2>1. UNCHANGED <<trk, call, ing>>
      BY <1>4 DEF Resume
    <2> QED
      BY <1>2, <1>3, <2>1, QuietSInv DEF SInv, Typed
  <1>5. CASE ~ClockFreezes
    <2>1. Elapse(d)
      BY <1>5 DEF Resume
    <2>2. /\ trk' \in [Kind -> TrkType] /\ call' \in [Calls -> CallType]
          /\ ing' \in [inFlight : Nat, idle : Age]
          /\ CallsCounted' /\ ing'.inFlight = ing.inFlight /\ (ing'.idle < 0 <=> ing.idle < 0)
      BY <1>1, <2>1, ElapseSInv
    <2>3. RequestsCounted'
      BY <2>2, RequestsKept DEF SInv
    <2> QED
      BY <1>2, <1>3, <2>2, <2>3 DEF SInv, Typed
  <1> QED
    BY <1>4, <1>5

(* A resume by the egress broker keeps the counters ...                    *)
LEMMA ResumeForAnswerSInv ==
    ASSUME SInv, NEW d \in Gaps, ResumeForAnswer(d)
    PROVE  SInv'
  BY ResumeSInv DEF ResumeForAnswer, SInv, Typed

(* ... and so does one for a request.                                      *)
LEMMA ResumeForRequestSInv ==
    ASSUME SInv, NEW d \in Gaps, NEW r \in Reqs, ResumeForRequest(r, d)
    PROVE  SInv'
  <1>1. /\ req' \in [Reqs -> ReqType]
        /\ \A q \in Reqs : req'[q].st = "inFlight" <=> req[q].st = "inFlight"
    BY DEF ResumeForRequest, SInv, Typed, ReqType
  <1> QED
    BY <1>1, ResumeSInv DEF ResumeForRequest

(* Every step keeps the counters right.                                    *)
LEMMA NextSInv ==
    ASSUME SInv, [Next]_vars
    PROVE  SInv'
  <1>1. CASE Tick
    BY <1>1, TickSInv
  <1>2. CASE Run
    BY <1>2, DecideSInv, SuspendSInv, PollSInv DEF Run
  <1>3. CASE Requests
    BY <1>3, AcceptSInv, EnterRequestSInv, ExitRequestSInv, BeforeCallSInv DEF Requests
  <1>4. CASE Platform
    BY <1>4, SuspendSInv, ResumeForAnswerSInv, ResumeForRequestSInv DEF Platform
  <1>5. CASE \E c \in Calls : Answer(c) \/ AfterCall(c)
    BY <1>5, AnswerSInv, AfterCallSInv
  <1>6. CASE UNCHANGED vars
    BY <1>6, QuietSInv DEF vars, SInv, Typed
  <1> QED
    BY <1>1, <1>2, <1>3, <1>4, <1>5, <1>6 DEF Next

(* The counters of internal/activityz and of the ingress are right in      *)
(* every reachable state, with and without overlapping calls, and wherever *)
(* another goroutine runs.                                                 *)
THEOREM SuspenderInvariant == Spec => []SInv
  <1>1. Init => SInv
    BY InitSInv
  <1>2. SInv /\ [Next]_vars => SInv'
    BY NextSInv
  <1> QED
    BY <1>1, <1>2, PTL DEF Spec

(* Counters, ages and program counter are in range.                        *)
THEOREM SuspenderTypeCorrect == Spec => []TypeOK
  <1>1. SInv => TypeOK
    <2> SUFFICES ASSUME SInv
                 PROVE  TypeOK
      OBVIOUS
    <2>1. \A k \in Kind : trk[k].total \in 0 .. Cardinality(Calls)
      <3> SUFFICES ASSUME NEW k \in Kind
                   PROVE  trk[k].total \in 0 .. Cardinality(Calls)
        OBVIOUS
      <3>1. Started(k) \subseteq Calls /\ IsFiniteSet(Calls)
        BY CallsFinite DEF Started
      <3>2. Cardinality(Started(k)) <= Cardinality(Calls) /\ Cardinality(Calls) \in Nat
        BY <3>1, FS_Subset, FS_CardinalityType
      <3>3. trk[k].total = Cardinality(Started(k)) /\ trk[k].total \in Nat
        BY DEF SInv, CallsCounted, Typed, TrkType
      <3> QED
        BY <3>2, <3>3
    <2>2. \A k \in Kind : /\ trk[k].inFlight = Cardinality(InFlight(k)) /\ trk[k].busy \in Age
                          /\ trk[k].busy < 0 <=> trk[k].inFlight = 0
      BY DEF SInv, CallsCounted, Typed, TrkType
    <2>3. \A c \in Calls : /\ call[c].st \in {"new", "inFlight", "done"}
                           /\ call[c].age \in Age /\ call[c].suspends \in Nat
      BY DEF SInv, Typed, CallType
    <2>4. ing.idle \in Age /\ ing.inFlight \in Nat /\ (ing.idle < 0 <=> ing.inFlight > 0)
      BY DEF SInv, RequestsCounted, Typed
    <2>5. /\ actor \in {"running", "suspended"}
          /\ \A r \in Reqs : req[r].st \in {"none", "arriving", "acked", "inFlight", "done"}
      BY DEF SInv, Typed, ReqType
    <2>6. /\ p.pc \in {"wait", "decide", "sent", "zombie"} /\ p.held \in BOOLEAN
          /\ p.gap \in Age /\ p.grace \in -1 .. IdleAfter /\ p.since \in Age
      BY DEF SInv, Typed, RunType
    <2> QED
      BY <2>1, <2>2, <2>3, <2>4, <2>5, <2>6 DEF TypeOK
  <1> QED
    BY <1>1, SuspenderInvariant, PTL

-----------------------------------------------------------------------------
(* A step that needs the other goroutines settled finds a closed window    *)
(* with nobody in it.                                                      *)
LEMMA WindowClosed ==
    ASSUME Settled
    PROVE  /\ "fetch" \notin Windows => p.pc # "decide"
           /\ "rpc" \notin Windows => p.pc # "sent"
           /\ "ack" \notin Windows => \A r \in Reqs : req[r].st # "acked"
  BY DEF Settled, MidWay, WindowNames

(* The actor is suspended by Run's call and by nothing else.               *)
LEMMA NextHeldInCall ==
    ASSUME SInv, HeldInCall, [Next]_vars
    PROVE  HeldInCall'
  <1>1. CASE Running /\ UNCHANGED actor
    BY <1>1 DEF Running, HeldInCall
  <1>2. CASE UNCHANGED <<actor, p>>
    BY <1>2 DEF HeldInCall
  <1>3. CASE SuspendActor
    BY <1>3 DEF SuspendActor, HeldInCall, SInv, Typed, RunType
  <1>4. CASE SuspendFails
    BY <1>4 DEF SuspendFails, HeldInCall
  <1>5. CASE \E d \in Gaps : Resume(d)
    BY <1>5 DEF Resume, HeldInCall
  <1>6. CASE Tick \/ Run \/ Requests
    BY <1>1, <1>6
    DEF Tick, Run, Decide, SuspendReturns, Poll, Requests, Accept, EnterRequest, ExitRequest,
        BeforeCall
  <1>7. CASE Platform
    BY <1>3, <1>4, <1>5, <1>7 DEF Platform, ResumeForAnswer, ResumeForRequest
  <1>8. CASE UNCHANGED vars \/ \E c \in Calls : Answer(c) \/ AfterCall(c)
    BY <1>2, <1>8 DEF vars, Answer, AfterCall
  <1> QED
    BY <1>6, <1>7, <1>8 DEF Next

(* Where nothing runs between the fetch and the decision, the decision is  *)
(* taken on the tracker as it is.                                          *)
LEMMA NextFresh ==
    ASSUME "fetch" \notin Windows, SInv, HeldInCall, Fresh, [Next]_vars
    PROVE  Fresh'
  <1>1. CASE p.pc # "decide" /\ p'.pc = p.pc
    BY <1>1 DEF Fresh
  <1>2. CASE UNCHANGED <<trk, p>>
    BY <1>2 DEF Fresh, Snapshot
  <1>3. CASE p'.pc # "decide"
    BY <1>3 DEF Fresh
  <1>4. CASE Tick
    <2>1. p.pc # "decide" /\ p'.pc = p.pc
      BY <1>4, WindowClosed DEF Tick, SInv, Typed, RunType
    <2> QED
      BY <1>1, <2>1
  <1>5. CASE \E ok \in BOOLEAN : Poll(ok)
    <2>1. UNCHANGED trk /\ p'.st \in {Snapshot, NoStatus}
      BY <1>5 DEF Poll, SInv, Typed, RunType
    <2> QED
      BY <2>1 DEF Fresh, Snapshot
  <1>6. CASE Decide
    <2>1. CASE p' = [p EXCEPT !.pc = "wait"]
      BY <1>3, <2>1 DEF SInv, Typed, RunType
    <2>2. CASE \E reason \in {"tool", "model", "idle"} : Proceed(reason, Generation(reason), 0)
      BY <1>3, <2>2 DEF Proceed, SInv, Typed, RunType
    <2> QED
      BY <1>6, <2>1, <2>2, DecideCases
  <1>7. CASE SuspendActor \/ SuspendFails \/ SuspendReturns
    BY <1>3, <1>7 DEF SuspendActor, SuspendFails, SuspendReturns, SInv, Typed, RunType
  <1>8. CASE \E d \in Gaps : Resume(d)
    BY <1>1, <1>8 DEF Resume, HeldInCall, SInv, Typed, RunType
  <1>9. CASE Requests
    <2>1. CASE \E r \in Reqs, c \in Calls : BeforeCall(c, r)
      BY <1>1, <2>1, WindowClosed DEF BeforeCall
    <2>2. CASE \E r \in Reqs : Accept(r) \/ EnterRequest(r) \/ ExitRequest(r)
      BY <1>2, <2>2 DEF Accept, EnterRequest, ExitRequest
    <2> QED
      BY <1>9, <2>1, <2>2 DEF Requests
  <1>10. CASE \E c \in Calls : Answer(c) \/ AfterCall(c)
    BY <1>1, <1>10, WindowClosed DEF Answer, AfterCall
  <1>11. CASE UNCHANGED vars
    BY <1>2, <1>11 DEF vars
  <1>12. CASE Run
    BY <1>5, <1>6, <1>7, <1>12 DEF Run
  <1>13. CASE Platform
    BY <1>7, <1>8, <1>13 DEF Platform, ResumeForAnswer, ResumeForRequest
  <1> QED
    BY <1>4, <1>9, <1>10, <1>11, <1>12, <1>13 DEF Next

-----------------------------------------------------------------------------
(* Suspended at most once.  A step that neither begins nor ends a call nor *)
(* marks one.                                                              *)
LEMMA OnceQuiet ==
    ASSUME OneAtATime, Marked, SuspendedOnce,
           \A c \in Calls : call'[c].st = call[c].st /\ call'[c].suspends = call[c].suspends,
           \A k \in Kind : trk'[k].total = trk[k].total, p'.gen = p.gen
    PROVE  OneAtATime' /\ Marked' /\ SuspendedOnce'
  <1>1. \A c \in Calls : KindOf(c) \in Kind
    BY CallsFinite
  <1>2. OneAtATime'
    BY DEF OneAtATime
  <1>3. Marked'
    BY <1>1 DEF Marked
  <1>4. SuspendedOnce'
    BY DEF SuspendedOnce
  <1> QED
    BY <1>2, <1>3, <1>4

(* A new call was never suspended.                                         *)
LEMMA BeforeCallOnce ==
    ASSUME ~Overlap, OnceInv, NEW c \in Calls, NEW r \in Reqs, BeforeCall(c, r)
    PROVE  OneAtATime' /\ Marked' /\ SuspendedOnce'
  <1>1. \A d \in Calls : call[d] \in CallType /\ call[d].st # "inFlight"
    BY DEF BeforeCall, OnceInv, SInv, Typed
  <1>2. /\ call[c].st = "new" /\ call'[c].st = "inFlight" /\ call'[c].suspends = call[c].suspends
        /\ \A d \in Calls : d # c => call'[d] = call[d]
    <2>1. call' = [call EXCEPT ![c] = [call[c] EXCEPT !.st = "inFlight", !.req = {r}, !.age = 0]]
      BY DEF BeforeCall, OnceInv, SInv, Typed
    <2>2. call[c].st = "new"
      BY DEF BeforeCall
    <2> QED
      BY <1>1, <2>1, <2>2 DEF OnceInv, SInv, Typed, CallType
  <1>3. call'[c].suspends = 0
    BY <1>2 DEF OnceInv, Marked
  <1>4. OneAtATime'
    BY <1>1, <1>2 DEF OneAtATime
  <1>5. Marked'
    <2> SUFFICES ASSUME NEW d \in Calls
                 PROVE  /\ call'[d].st = "new" => call'[d].suspends = 0
                        /\ call'[d].st = "inFlight" => ~(call'[d].suspends > 0)
      BY DEF Marked
    <2> QED
      BY <1>1, <1>2, <1>3 DEF OnceInv, Marked
  <1>6. SuspendedOnce'
    BY <1>2 DEF OnceInv, SuspendedOnce
  <1> QED
    BY <1>4, <1>5, <1>6

(* A call that ends keeps its mark.                                        *)
LEMMA AfterCallOnce ==
    ASSUME OnceInv, NEW c \in Calls, AfterCall(c)
    PROVE  OneAtATime' /\ Marked' /\ SuspendedOnce'
  <1>1. /\ call'[c].st = "done" /\ call'[c].suspends = call[c].suspends
        /\ \A d \in Calls : d # c => call'[d] = call[d]
    <2>1. call' = [call EXCEPT ![c] = [call[c] EXCEPT !.st = "done", !.age = -1]]
      BY DEF AfterCall, OnceInv, SInv, Typed
    <2> QED
      BY <2>1 DEF OnceInv, SInv, Typed, CallType
  <1>2. UNCHANGED p /\ \A k \in Kind : trk'[k].total = trk[k].total
    BY DEF AfterCall, OnceInv, SInv, Typed, TrkType
  <1>3. \A d \in Calls : KindOf(d) \in Kind
    BY CallsFinite
  <1>4. OneAtATime'
    BY <1>1 DEF OnceInv, OneAtATime
  <1>5. Marked'
    BY <1>1, <1>2, <1>3 DEF OnceInv, Marked
  <1>6. SuspendedOnce'
    BY <1>1 DEF OnceInv, SuspendedOnce
  <1> QED
    BY <1>4, <1>5, <1>6

(* Run suspends for a call only when the generation of its kind has moved  *)
(* on since the last time, so it is another call.                          *)
LEMMA DecideOnce ==
    ASSUME OnceInv, Decide
    PROVE  OneAtATime' /\ Marked' /\ SuspendedOnce'
  <1>0. UNCHANGED trk /\ SInv /\ Fresh /\ p.pc = "decide"
    BY DEF Decide, OnceInv
  <1>1. CASE UNCHANGED call /\ p' = [p EXCEPT !.pc = "wait"]
    <2>1. p'.gen = p.gen
      BY <1>1 DEF OnceInv, SInv, Typed, RunType
    <2> QED
      BY <1>0, <1>1, <2>1, OnceQuiet DEF OnceInv
  <1>2. CASE \E reason \in {"tool", "model", "idle"} :
                 /\ reason = Reason /\ ~Gated(reason) /\ p.since >= Cooldown
                 /\ Proceed(reason, Generation(reason), 0)
    <2>1. PICK reason \in {"tool", "model", "idle"} :
                 /\ reason = Reason /\ ~Gated(reason)
                 /\ Proceed(reason, Generation(reason), 0)
      BY <1>2
    <2>2. /\ p' = [p EXCEPT !.pc = "sent", !.gen = Generation(reason), !.since = 0]
          /\ \A c \in Calls : /\ call'[c].st = call[c].st
                              /\ call'[c].suspends = IF reason = KindOf(c) /\ call[c].st = "inFlight"
                                                     THEN call[c].suspends + 1
                                                     ELSE call[c].suspends
      BY <1>0, <2>1, ProceedEffect
    <2>3. p'.gen = Generation(reason)
      BY <1>0, <2>2 DEF SInv, Typed, RunType
    <2>4. \A c \in Calls : KindOf(c) \in Kind
      BY CallsFinite
    <2>5. CASE reason \notin Kind
      <3>1. p'.gen = p.gen /\ \A c \in Calls : call'[c].suspends = call[c].suspends
        BY <2>2, <2>3, <2>4, <2>5 DEF Generation
      <3> QED
        BY <1>0, <2>2, <3>1, OnceQuiet DEF OnceInv
    <2>6. CASE reason \in Kind
      <3>1. p.st[reason].inFlight > 0 /\ p.st[reason].started > p.gen[reason]
        <4>1. p.st[reason].started \in Nat /\ p.gen[reason] \in Nat
          BY <1>0, <2>6 DEF SInv, Typed, RunType, StatusType
        <4>2. Blocked(p.st, reason)
          BY <2>1, <2>6 DEF Reason, Kind
        <4> QED
          BY <2>1, <2>6, <4>1, <4>2 DEF Gated, Blocked
      <3>2. p.st = Snapshot
        BY <1>0, <2>6, <3>1, SnapshotType DEF Fresh
      <3>3. p.st[reason].started = trk[reason].total /\ trk[reason].total > p.gen[reason]
        BY <1>0, <2>6, <3>1, <3>2, SnapshotType
      <3>4. /\ p'.gen[reason] = trk[reason].total
            /\ \A k \in Kind : k # reason => p'.gen[k] = p.gen[k]
        BY <1>0, <2>3, <2>6, <3>3 DEF Generation, SInv, Typed, RunType
      <3>5. trk[reason].total \in Nat /\ p.gen[reason] \in Nat
        BY <1>0, <2>6 DEF SInv, Typed, RunType, TrkType
      <3>6. \A c \in Calls : call[c].suspends \in Nat
        BY <1>0 DEF SInv, Typed, CallType
      <3>7. \A c \in Calls : call[c].st = "inFlight" /\ KindOf(c) = reason => call[c].suspends = 0
        BY <3>3, <3>5, <3>6 DEF OnceInv, Marked
      <3>8. OneAtATime'
        BY <2>2 DEF OnceInv, OneAtATime
      <3>9. Marked'
        <4> SUFFICES ASSUME NEW c \in Calls
                     PROVE  /\ call'[c].st = "new" => call'[c].suspends = 0
                            /\ call'[c].st = "inFlight" /\ call'[c].suspends > 0
                                 => p'.gen[KindOf(c)] >= trk'[KindOf(c)].total
          BY DEF Marked
        <4>1. CASE KindOf(c) = reason
          BY <1>0, <2>2, <3>4, <3>5, <4>1 DEF OnceInv, Marked
        <4>2. CASE KindOf(c) # reason
          BY <1>0, <2>2, <2>4, <3>4, <4>2 DEF OnceInv, Marked
        <4> QED
          BY <4>1, <4>2
      <3>10. SuspendedOnce'
        BY <2>2, <3>6, <3>7 DEF OnceInv, SuspendedOnce
      <3> QED
        BY <3>8, <3>9, <3>10
    <2> QED
      BY <2>5, <2>6
  <1> QED
    BY <1>0, <1>1, <1>2, DecideCases

(* Time, and a resume, leave the calls' marks.                             *)
LEMMA ElapseOnce ==
    ASSUME OnceInv, NEW n \in Nat, Elapse(n)
    PROVE  /\ \A c \in Calls : call'[c].st = call[c].st /\ call'[c].suspends = call[c].suspends
           /\ \A k \in Kind : trk'[k].total = trk[k].total
  <1>1. \A c \in Calls : call[c] \in CallType /\ call'[c] = [call[c] EXCEPT !.age = Later(@, n)]
    BY DEF Elapse, OnceInv, SInv, Typed
  <1>2. \A k \in Kind : trk[k] \in TrkType /\ trk'[k] = [trk[k] EXCEPT !.busy = Later(@, n)]
    BY DEF Elapse, OnceInv, SInv, Typed
  <1>3. \A c \in Calls : call'[c].st = call[c].st /\ call'[c].suspends = call[c].suspends
    BY <1>1 DEF CallType
  <1>4. \A k \in Kind : trk'[k].total = trk[k].total
    BY <1>2 DEF TrkType
  <1> QED
    BY <1>3, <1>4

(* Every step keeps every call suspended at most once.                     *)
LEMMA NextOnce ==
    ASSUME ~Overlap, "fetch" \notin Windows, OnceInv, [Next]_vars
    PROVE  OnceInv'
  <1>1. SInv /\ HeldInCall /\ Fresh /\ OneAtATime /\ Marked /\ SuspendedOnce
    BY DEF OnceInv
  <1>2. SInv' /\ HeldInCall' /\ Fresh'
    BY <1>1, NextSInv, NextHeldInCall, NextFresh
  <1>3. OneAtATime' /\ Marked' /\ SuspendedOnce'
    <2>1. CASE Tick
      <3>1. Elapse(1) /\ p'.gen = p.gen
        BY <1>1, <2>1 DEF Tick, SInv, Typed, RunType
      <3> QED
        BY <1>1, <3>1, ElapseOnce, OnceQuiet
    <2>2. CASE \E ok \in BOOLEAN : Poll(ok)
      <3>1. p'.gen = p.gen /\ UNCHANGED <<trk, call>>
        BY <1>1, <2>2 DEF Poll, SInv, Typed, RunType
      <3> QED
        BY <1>1, <3>1, OnceQuiet
    <2>3. CASE Decide
      BY <2>3, DecideOnce
    <2>4. CASE SuspendActor \/ SuspendFails \/ SuspendReturns
      <3>1. p'.gen = p.gen /\ UNCHANGED <<trk, call>>
        BY <1>1, <2>4 DEF SuspendActor, SuspendFails, SuspendReturns, SInv, Typed, RunType
      <3> QED
        BY <1>1, <3>1, OnceQuiet
    <2>5. ASSUME NEW d \in Gaps, Resume(d)
          PROVE  OneAtATime' /\ Marked' /\ SuspendedOnce'
      <3>1. p'.gen = p.gen /\ d \in Nat
        BY <1>1, <2>5, Thresholds DEF Resume, Gaps, SInv, Typed, RunType
      <3>2. CASE ClockFreezes
        <4>1. UNCHANGED <<trk, call>>
          BY <2>5, <3>2 DEF Resume
        <4> QED
          BY <1>1, <3>1, <4>1, OnceQuiet
      <3>3. CASE ~ClockFreezes
        <4>1. Elapse(d)
          BY <2>5, <3>3 DEF Resume
        <4> QED
          BY <1>1, <3>1, <4>1, ElapseOnce, OnceQuiet
      <3> QED
        BY <3>2, <3>3
    <2>6. CASE Requests
      <3>1. CASE \E r \in Reqs, c \in Calls : BeforeCall(c, r)
        BY <3>1, BeforeCallOnce
      <3>2. CASE \E r \in Reqs : Accept(r) \/ EnterRequest(r) \/ ExitRequest(r)
        <4>1. UNCHANGED <<trk, call, p>>
          BY <3>2 DEF Accept, EnterRequest, ExitRequest
        <4> QED
          BY <1>1, <4>1, OnceQuiet
      <3> QED
        BY <2>6, <3>1, <3>2 DEF Requests
    <2>7. ASSUME NEW c \in Calls, Answer(c)
          PROVE  OneAtATime' /\ Marked' /\ SuspendedOnce'
      <3>1. /\ UNCHANGED <<trk, p>>
            /\ \A d \in Calls : call'[d].st = call[d].st /\ call'[d].suspends = call[d].suspends
        BY <1>1, <2>7 DEF Answer, SInv, Typed, CallType
      <3> QED
        BY <1>1, <3>1, OnceQuiet
    <2>8. CASE \E c \in Calls : AfterCall(c)
      BY <2>8, AfterCallOnce
    <2>9. CASE UNCHANGED vars
      BY <1>1, <2>9, OnceQuiet DEF vars
    <2>10. CASE Run
      BY <2>2, <2>3, <2>4, <2>10 DEF Run
    <2>11. CASE Platform
      BY <2>4, <2>5, <2>11 DEF Platform, ResumeForAnswer, ResumeForRequest
    <2> QED
      BY <2>1, <2>6, <2>7, <2>8, <2>9, <2>10, <2>11 DEF Next
  <1> QED
    BY <1>2, <1>3 DEF OnceInv

(* decideBlocked's generations: where calls do not overlap, and nothing    *)
(* runs between fetching /statusz and deciding, no call is suspended more  *)
(* than once, whatever fails, however long the actor sleeps and whatever   *)
(* the thresholds are.                                                     *)
THEOREM CallSuspendedOnce ==
    ASSUME ~Overlap, "fetch" \notin Windows
    PROVE  Spec => []SuspendedOnce
  <1>1. Init => OnceInv
    <2> SUFFICES ASSUME Init
                 PROVE  OnceInv
      OBVIOUS
    <2>1. SInv
      BY InitSInv
    <2>2. Fresh /\ HeldInCall
      BY DEF Init, Fresh, HeldInCall
    <2>3. \A c \in Calls : call[c].st = "new" /\ call[c].suspends = 0
      BY DEF Init
    <2>4. OneAtATime /\ Marked /\ SuspendedOnce
      BY <2>3 DEF OneAtATime, Marked, SuspendedOnce
    <2> QED
      BY <2>1, <2>2, <2>4 DEF OnceInv
  <1>2. OnceInv /\ [Next]_vars => OnceInv'
    BY NextOnce
  <1>3. OnceInv => SuspendedOnce
    BY DEF OnceInv
  <1> QED
    BY <1>1, <1>2, <1>3, PTL DEF Spec

-----------------------------------------------------------------------------
(* Suspended with work.  Run suspends an idle actor, which has no request, *)
(* or for a call in flight.                                                *)
LEMMA DecideWaker ==
    ASSUME WakerInv, Decide
    PROVE  Counted' /\ WorkHasCall'
  <1>0. /\ SInv /\ Fresh /\ p.pc = "decide" /\ Running /\ UNCHANGED <<actor, req>>
        /\ \A r \in Reqs : req[r].st # "acked"
    BY DEF Decide, WakerInv, Counted
  <1>1. Counted'
    BY <1>0 DEF Counted
  <1>2. CASE UNCHANGED call /\ p' = [p EXCEPT !.pc = "wait"]
    <2>1. ~Committed'
      BY <1>0, <1>2 DEF Committed, Running, SInv, Typed, RunType
    <2> QED
      BY <1>1, <2>1 DEF WorkHasCall
  <1>3. ASSUME NEW reason \in {"tool", "model", "idle"}, reason = Reason,
               Proceed(reason, Generation(reason), 0)
        PROVE  WorkHasCall'
    <2>1. \A c \in Calls : call'[c].st = call[c].st
      BY <1>0, <1>3, ProceedEffect
    <2>2. CASE reason \in Kind
      <3>1. p.st[reason].inFlight > 0
        BY <1>3, <2>2 DEF Reason, Blocked, Kind
      <3>2. p.st = Snapshot
        BY <1>0, <2>2, <3>1, SnapshotType DEF Fresh
      <3>3. Cardinality(InFlight(reason)) > 0
        BY <1>0, <2>2, <3>1, <3>2, SnapshotType DEF SInv, CallsCounted
      <3>4. InFlight(reason) # {}
        BY <3>3, FS_EmptySet
      <3> QED
        BY <2>1, <3>4 DEF InFlight, WorkHasCall
    <2>3. CASE reason = "idle"
      <3>1. IdleDuration >= IdleAfter
        BY <1>3, <2>3 DEF Reason
      <3>2. ing.inFlight = 0
        BY <1>0, <3>1, Thresholds DEF IdleDuration, SInv, Typed
      <3>3. Entered = {}
        BY <1>0, <3>2, FS_EmptySet DEF SInv, RequestsCounted
      <3> QED
        BY <1>0, <3>3 DEF Entered, WorkHasCall
    <2> QED
      BY <2>2, <2>3 DEF Kind
  <1> QED
    BY <1>0, <1>1, <1>2, <1>3, DecideCases

(* Every step keeps a suspended actor waiting for a call, if it has work.  *)
LEMMA NextWaker ==
    ASSUME Windows = {}, WakerInv, [Next]_vars
    PROVE  WakerInv'
  <1>1. SInv /\ HeldInCall /\ Fresh /\ Counted /\ WorkHasCall
    BY DEF WakerInv
  <1>2. SInv' /\ HeldInCall' /\ Fresh'
    BY <1>1, NextSInv, NextHeldInCall, NextFresh
  <1>3. Counted' /\ WorkHasCall'
    <2>1. ASSUME p'.pc \notin {"decide", "sent"}, actor' = "running"
          PROVE  Counted' /\ WorkHasCall'
      BY <2>1 DEF Counted, WorkHasCall, Committed
    <2>2. ASSUME Settled, Running, UNCHANGED actor, p'.pc = p.pc
          PROVE  Counted' /\ WorkHasCall'
      BY <2>1, <2>2, WindowClosed DEF Running
    <2>3. ASSUME UNCHANGED <<req, actor>>, p'.pc = p.pc, \A c \in Calls : call'[c].st = call[c].st
          PROVE  Counted' /\ WorkHasCall'
      BY <1>1, <2>3 DEF Counted, WorkHasCall, Committed
    <2>4. CASE Tick
      <3>1. Settled /\ Running /\ UNCHANGED actor /\ p'.pc = p.pc
        BY <1>1, <2>4 DEF Tick, SInv, Typed, RunType
      <3> QED
        BY <2>2, <3>1
    <2>5. CASE \E ok \in BOOLEAN : Poll(ok)
      <3>1. /\ Settled /\ Running /\ UNCHANGED <<req, actor>> /\ p'.pc = "decide"
        BY <1>1, <2>5 DEF Poll, SInv, Typed, RunType
      <3>2. ~Committed' /\ \A r \in Reqs : req'[r].st # "acked"
        BY <3>1, WindowClosed DEF Committed, Running
      <3> QED
        BY <3>2 DEF Counted, WorkHasCall
    <2>6. CASE Decide
      BY <2>6, DecideWaker
    <2>7. CASE SuspendActor
      <3>1. Committed /\ UNCHANGED <<req, call>>
        BY <2>7 DEF SuspendActor, Committed
      <3> QED
        BY <1>1, <3>1 DEF Counted, WorkHasCall
    <2>8. CASE SuspendFails \/ SuspendReturns
      <3>1. Running /\ UNCHANGED actor /\ p'.pc = "wait"
        BY <1>1, <2>8
        DEF SuspendFails, SuspendReturns, HeldInCall, Running, SInv, Typed, RunType
      <3> QED
        BY <2>1, <3>1 DEF Running
    <2>9. CASE \E d \in Gaps : Resume(d)
      <3>1. actor' = "running" /\ p'.pc = "zombie"
        BY <1>1, <2>9 DEF Resume, HeldInCall, SInv, Typed, RunType
      <3> QED
        BY <2>1, <3>1
    <2>10. CASE Requests
      <3>1. CASE \E r \in Reqs, c \in Calls : BeforeCall(c, r)
        BY <2>2, <3>1 DEF BeforeCall
      <3>2. CASE \E r \in Reqs : Accept(r) \/ ExitRequest(r)
        BY <2>2, <3>2 DEF Accept, ExitRequest
      <3>3. ASSUME NEW r \in Reqs, EnterRequest(r)
            PROVE  Counted' /\ WorkHasCall'
        <4>1. Running /\ UNCHANGED <<actor, p>> /\ p.pc \notin {"decide", "sent"}
          BY <1>1, <3>3 DEF EnterRequest, Counted, Committed
        <4> QED
          BY <2>1, <4>1 DEF Running
      <3> QED
        BY <2>10, <3>1, <3>2, <3>3 DEF Requests
    <2>11. ASSUME NEW c \in Calls, Answer(c)
           PROVE  Counted' /\ WorkHasCall'
      <3>1. UNCHANGED <<req, actor, p>> /\ \A d \in Calls : call'[d].st = call[d].st
        BY <1>1, <2>11 DEF Answer, SInv, Typed, CallType
      <3> QED
        BY <2>3, <3>1
    <2>12. CASE \E c \in Calls : AfterCall(c)
      BY <2>2, <2>12 DEF AfterCall
    <2>13. CASE UNCHANGED vars
      BY <2>3, <2>13 DEF vars
    <2>14. CASE Run
      BY <2>5, <2>6, <2>8, <2>14 DEF Run
    <2>15. CASE Platform
      BY <2>7, <2>8, <2>9, <2>15 DEF Platform, ResumeForAnswer, ResumeForRequest
    <2> QED
      BY <2>4, <2>10, <2>11, <2>12, <2>13, <2>14, <2>15 DEF Next
  <1> QED
    BY <1>2, <1>3 DEF WakerInv

(* The suspend policy: where the 202 and its count, the fetch and the      *)
(* decision, and SuspendActor and the checkpoint are each one step, an     *)
(* actor is never suspended with a client's request accepted unless a call *)
(* of the agent's is in flight, overlapping or not, whose response wakes   *)
(* it.                                                                     *)
THEOREM SuspendedWaitsForCall ==
    ASSUME Windows = {}
    PROVE  Spec => []SuspendedHasWaker
  <1>1. Init => WakerInv
    <2> SUFFICES ASSUME Init
                 PROVE  WakerInv
      OBVIOUS
    <2>1. SInv
      BY InitSInv
    <2>2. Fresh /\ HeldInCall /\ Counted /\ WorkHasCall
      BY DEF Init, Fresh, HeldInCall, Counted, WorkHasCall, Committed
    <2> QED
      BY <2>1, <2>2 DEF WakerInv
  <1>2. WakerInv /\ [Next]_vars => WakerInv'
    BY NextWaker
  <1>3. WakerInv => SuspendedHasWaker
    BY DEF WakerInv, SuspendedHasWaker, Counted, WorkHasCall, Committed
  <1> QED
    BY <1>1, <1>2, <1>3, PTL DEF Spec

-----------------------------------------------------------------------------
(* The waking request.  A step that runs no clock and starts no arrival.   *)
LEMMA CooldownQuiet ==
    ASSUME CooldownRuns, p'.since = p.since, Committed' => Committed,
           \A r \in Reqs : Arriving(r)' => Arriving(r) /\ req'[r].age = req[r].age
    PROVE  CooldownRuns'
  BY DEF CooldownRuns

(* Run suspends again only after the cooldown, when nothing is arriving.   *)
LEMMA DecideCooldown ==
    ASSUME Arrival < Cooldown, WakeInv, Decide
    PROVE  CooldownRuns'
  <1>0. SInv /\ CooldownRuns /\ Running /\ UNCHANGED <<actor, req>>
    BY DEF Decide, WakeInv
  <1>1. CASE UNCHANGED call /\ p' = [p EXCEPT !.pc = "wait"]
    <2>1. ~Committed' /\ p'.since = p.since
      BY <1>0, <1>1 DEF Committed, Running, SInv, Typed, RunType
    <2> QED
      BY <1>0, <2>1, CooldownQuiet DEF Arriving
  <1>2. CASE \E reason \in {"tool", "model", "idle"} :
                 p.since >= Cooldown /\ Proceed(reason, Generation(reason), 0)
    <2>1. p'.since = 0 /\ p.since >= Cooldown
      BY <1>0, <1>2 DEF Proceed, SInv, Typed, RunType
    <2>2. p.since \in Age /\ \A r \in Reqs : req[r].age \in Nat
      BY <1>0 DEF SInv, Typed, RunType, ReqType
    <2>3. p.since \in Int
      BY <2>2, CapAbove DEF Age
    <2>4. \A r \in Reqs : ~Arriving(r)
      BY <1>0, <2>1, <2>2, <2>3, Thresholds DEF CooldownRuns
    <2>5. \A r \in Reqs : ~Arriving(r)'
      BY <1>0, <2>4 DEF Arriving
    <2> QED
      BY <2>1, <2>5 DEF CooldownRuns
  <1> QED
    BY <1>0, <1>1, <1>2, DecideCases

(* Time runs for the cooldown and for the arrivals alike.                  *)
LEMMA TickCooldown ==
    ASSUME "rpc" \notin Windows, WakeInv, Tick
    PROVE  CooldownRuns'
  <1>1. SInv /\ CooldownRuns /\ Running /\ UNCHANGED actor /\ p.pc # "sent"
    BY WindowClosed DEF Tick, WakeInv
  <1>2. p'.since = Later(p.since, 1) /\ p'.pc = p.pc
    BY <1>1 DEF Tick, SInv, Typed, RunType
  <1>3. ~Committed'
    BY <1>1, <1>2 DEF Committed, Running
  <1>4. ASSUME NEW r \in Reqs, Arriving(r)'
        PROVE  p'.since >= 0 /\ p'.since <= req'[r].age /\ req'[r].age <= Arrival
    <2>1. Arriving(r) /\ req[r].age < Arrival /\ req'[r].age = req[r].age + 1 /\ req[r].age \in Nat
      BY <1>1, <1>4 DEF Tick, Arriving, SInv, Typed, ReqType
    <2>2. p.since >= 0 /\ p.since <= req[r].age /\ p.since \in Age
      BY <1>1, <2>1 DEF CooldownRuns, SInv, Typed, RunType
    <2> QED
      BY <1>2, <2>1, <2>2, CapAbove, Thresholds DEF Later, Age
  <1> QED
    BY <1>3, <1>4 DEF CooldownRuns

(* Every step keeps a waking request ahead of the cooldown.                *)
LEMMA NextWake ==
    ASSUME ClockFreezes, "rpc" \notin Windows, Arrival < Cooldown, WakeInv, [Next]_vars
    PROVE  WakeInv'
  <1>1. SInv /\ HeldInCall /\ CooldownRuns
    BY DEF WakeInv
  <1>2. SInv' /\ HeldInCall'
    BY <1>1, NextSInv, NextHeldInCall
  <1>3. CooldownRuns'
    <2>1. ASSUME UNCHANGED <<actor, p>>,
                 \A r \in Reqs : Arriving(r)' => Arriving(r) /\ req'[r].age = req[r].age
          PROVE  CooldownRuns'
      BY <1>1, <2>1, CooldownQuiet DEF Committed
    <2>2. ASSUME p'.since = p.since, Committed' => Committed, UNCHANGED req
          PROVE  CooldownRuns'
      BY <1>1, <2>2, CooldownQuiet DEF Arriving
    <2>3. CASE Tick
      BY <2>3, TickCooldown
    <2>4. CASE \E ok \in BOOLEAN : Poll(ok)
      <3>1. p'.since = p.since /\ ~Committed' /\ UNCHANGED req
        BY <1>1, <2>4 DEF Poll, Committed, Running, SInv, Typed, RunType
      <3> QED
        BY <2>2, <3>1
    <2>5. CASE Decide
      BY <2>5, DecideCooldown
    <2>6. CASE SuspendActor
      <3>1. p'.since = p.since /\ Committed /\ UNCHANGED req
        BY <1>1, <2>6 DEF SuspendActor, Committed, SInv, Typed, RunType
      <3> QED
        BY <2>2, <3>1
    <2>7. CASE SuspendFails \/ SuspendReturns
      <3>1. p'.since = p.since /\ ~Committed' /\ UNCHANGED req
        BY <1>1, <2>7
        DEF SuspendFails, SuspendReturns, HeldInCall, Committed, Running, SInv, Typed, RunType
      <3> QED
        BY <2>2, <3>1
    <2>8. ASSUME NEW d \in Gaps, Resume(d)
          PROVE  actor = "suspended" /\ p'.since = p.since /\ ~Committed'
      BY <1>1, <2>8 DEF Resume, HeldInCall, Committed, SInv, Typed, RunType
    <2>9. CASE \E d \in Gaps : ResumeForAnswer(d)
      BY <2>2, <2>8, <2>9 DEF ResumeForAnswer
    <2>10. ASSUME NEW d \in Gaps, NEW r \in Reqs, ResumeForRequest(r, d)
           PROVE  CooldownRuns'
      <3>1. actor = "suspended" /\ p'.since = p.since /\ ~Committed'
        BY <2>8, <2>10 DEF ResumeForRequest
      <3>2. p'.since = 0 /\ \A q \in Reqs : ~Arriving(q)
        BY <1>1, <3>1 DEF CooldownRuns, Committed
      <3>3. req'[r].age = 0 /\ \A q \in Reqs : Arriving(q)' => q = r
        BY <1>1, <2>10, <3>2 DEF ResumeForRequest, Arriving, SInv, Typed, ReqType
      <3> QED
        BY <3>1, <3>2, <3>3, Thresholds DEF CooldownRuns
    <2>11. CASE Requests
      <3>1. CASE \E r \in Reqs, c \in Calls : BeforeCall(c, r)
        BY <2>1, <3>1 DEF BeforeCall, Arriving
      <3>2. ASSUME NEW r \in Reqs, Accept(r) \/ EnterRequest(r) \/ ExitRequest(r)
            PROVE  CooldownRuns'
        <4>1. /\ UNCHANGED <<actor, p>> /\ ~Arriving(r)'
              /\ \A q \in Reqs : q # r => req'[q] = req[q]
          BY <1>1, <3>2 DEF Accept, EnterRequest, ExitRequest, Arriving, SInv, Typed, ReqType
        <4> QED
          BY <2>1, <4>1 DEF Arriving
      <3> QED
        BY <2>11, <3>1, <3>2 DEF Requests
    <2>12. CASE UNCHANGED vars \/ \E c \in Calls : Answer(c) \/ AfterCall(c)
      BY <2>1, <2>12 DEF vars, Answer, AfterCall, Arriving
    <2>13. CASE Run
      BY <2>4, <2>5, <2>7, <2>13 DEF Run
    <2>14. CASE Platform
      BY <2>6, <2>7, <2>9, <2>10, <2>14 DEF Platform
    <2> QED
      BY <2>3, <2>11, <2>12, <2>13, <2>14 DEF Next
  <1> QED
    BY <1>2, <1>3 DEF WakeInv

(* The cooldown: where the monotonic clock stands still while the actor is *)
(* suspended, nothing runs between SuspendActor and the checkpoint, and a  *)
(* request arrives within less than the cooldown, the request that woke    *)
(* the actor is accepted before the actor is suspended again.              *)
THEOREM WakingRequestAccepted ==
    ASSUME ClockFreezes, "rpc" \notin Windows, Arrival < Cooldown
    PROVE  Spec => []WakingRequestSafe
  <1>1. Init => WakeInv
    <2> SUFFICES ASSUME Init
                 PROVE  WakeInv
      OBVIOUS
    <2>1. SInv
      BY InitSInv
    <2>2. HeldInCall /\ CooldownRuns
      BY DEF Init, HeldInCall, CooldownRuns, Committed, Arriving
    <2> QED
      BY <2>1, <2>2 DEF WakeInv
  <1>2. WakeInv /\ [Next]_vars => WakeInv'
    BY NextWake
  <1>3. WakeInv => WakingRequestSafe
    BY DEF WakeInv, WakingRequestSafe, CooldownRuns, Committed
  <1> QED
    BY <1>1, <1>2, <1>3, PTL DEF Spec
=============================================================================
