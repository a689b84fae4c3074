-------------------------- MODULE ReplyRelayProofs --------------------------
(***************************************************************************)
(* For every number of requests, attempts, faults and suspends: a reply    *)
(* acknowledged to the sidecar is held for its client, and the agent runs  *)
(* once and once more only for each acknowledgement lost, whether or not   *)
(* bodies are cut in the middle.                                           *)
(***************************************************************************)
EXTENDS ReplyRelay, FiniteSetTheorems, TLAPS

Outcomes == Bodies \cup {"none", "invalid", "refused", "failed", "gone", "timeout"}

RunType == [pc : {"new", "done"} \cup Parked, n : 0 .. ForwardAttempts,
            end : Outcomes]

JobType == [st : InFlight \cup {"none", "arrived", "rejected", "delivered", "gaveUp"},
            calls : Nat, try : 0 .. DeliverAttempts, res : {"none", "204", "cut"}]

AttType == {"none", "sent", "acked", "failed", "refused", "broken", "gone"}

PostType == [a : Attempts, try : 1 .. DeliverAttempts, body : Bodies]

(* TypeOK as membership in sets of functions and records.                  *)
Typed ==
    /\ actor \in {"running", "suspended"}
    /\ run \in [Reqs -> RunType]
    /\ pending = {r \in Reqs : run[r].pc \in Parked}
    /\ ch \in [Reqs -> {"empty"} \cup Bodies]
    /\ att \in [Attempts -> AttType]
    /\ job \in [Attempts -> JobType]
    /\ posts \in SUBSET PostType
    /\ faults \in 0 .. MaxFaults /\ suspends \in 0 .. MaxSuspends

(* The ingress broker's attempts come one after the other: none has been   *)
(* made beyond the current one, and only the current one is not lost.      *)
Numbered(r) ==
    /\ run[r].pc = "new" => run[r].n = 0
    /\ run[r].pc \in Parked => run[r].n > 0
    /\ run[r].pc = "backoff" => att[Cur(r)] \in {"failed", "broken", "gone"}

OneAtATime(a) ==
    /\ att[a] # "none" => a[2] <= run[a[1]].n
    /\ att[a] \in {"sent", "acked", "refused"} => a = Cur(a[1])

(* The sidecar has only heard of attempts that were made, and posts only   *)
(* replies to requests it has.                                             *)
Known(a) ==
    /\ job[a].st # "none" => att[a] # "none"
    /\ job[a].st = "delivered" \/ job[a].res = "204"
         => ch[a[1]] # "empty" \/ run[a[1]].pc = "done"

Caused == \A m \in posts : job[m.a].st # "none"

IInv ==
    /\ Typed
    /\ \A r \in Reqs : Numbered(r)
    /\ \A a \in Attempts : OneAtATime(a) /\ Known(a)
    /\ Caused

-----------------------------------------------------------------------------
(* No attempt has been made, no job exists and no reply is under way.      *)
LEMMA InitIInv == Init => IInv
  BY AttemptsAssumption, BoundsAssumption
  DEF Init, IInv, Typed, Numbered, OneAtATime, Known, Caused, RunType, Outcomes, JobType,
      AttType, PostType, Parked, InFlight, Bodies, Attempts, Cur

(* Finish ends a request's handler and takes the request out of pending.   *)
LEMMA Finished ==
    ASSUME Typed, NEW r \in Reqs, NEW end \in Outcomes, Finish(r, end)
    PROVE  /\ run' \in [Reqs -> RunType]
           /\ pending' = {q \in Reqs : run'[q].pc \in Parked}
           /\ run'[r] = [pc |-> "done", n |-> run[r].n, end |-> end]
           /\ \A q \in Reqs : q # r => run'[q] = run[q]
  <1>1. run'[r] = [pc |-> "done", n |-> run[r].n, end |-> end]
    BY DEF Finish, Typed, RunType
  <1>2. \A q \in Reqs : q # r => run'[q] = run[q]
    BY DEF Finish, Typed
  <1>3. run' \in [Reqs -> RunType]
    BY <1>1, <1>2 DEF Finish, Typed, RunType, Outcomes, Outcomes
  <1>4. pending' = {q \in Reqs : run'[q].pc \in Parked}
    BY <1>1, <1>2 DEF Finish, Typed, Parked
  <1> QED
    BY <1>1, <1>2, <1>3, <1>4

(* A handler may end at any moment: what it leaves in the channel is gone  *)
(* with it, and the attempt that it was waiting for is abandoned.          *)
LEMMA FinishIInv ==
    ASSUME IInv, NEW r \in Reqs, NEW end \in Outcomes, Finish(r, end),
           ch' = ch \/ ch' = [ch EXCEPT ![r] = "empty"],
           att' = att \/ att' = [att EXCEPT ![Cur(r)] = IF @ = "sent" THEN "gone" ELSE @],
           UNCHANGED <<actor, job, posts, faults, suspends>>
    PROVE  IInv'
  <1>1. /\ run' \in [Reqs -> RunType]
        /\ pending' = {q \in Reqs : run'[q].pc \in Parked}
        /\ run'[r] = [pc |-> "done", n |-> run[r].n, end |-> end]
        /\ \A q \in Reqs : q # r => run'[q] = run[q]
    BY Finished DEF IInv
  <1>2. ch' \in [Reqs -> {"empty"} \cup Bodies] /\ \A q \in Reqs : q # r => ch'[q] = ch[q]
    BY DEF IInv, Typed
  <1>3. att' \in [Attempts -> AttType]
    BY DEF IInv, Typed, AttType
  <1>4. \A a \in Attempts : att'[a] = att[a] \/ (att'[a] = "gone" /\ a = Cur(r) /\ att[a] = "sent")
    BY DEF IInv, Typed
  <1>5. Typed'
    BY <1>1, <1>2, <1>3 DEF IInv, Typed
  <1>6. \A q \in Reqs : Numbered(q)'
    BY <1>1, <1>4 DEF IInv, Typed, Numbered, Cur, Parked, Attempts, RunType
  <1>7. \A a \in Attempts : OneAtATime(a)'
    BY <1>1, <1>4 DEF IInv, Typed, OneAtATime, Cur, Attempts, RunType
  <1>8. \A a \in Attempts : Known(a)'
    BY <1>1, <1>2, <1>4 DEF IInv, Known, Attempts
  <1>9. Caused'
    BY <1>1, <1>2 DEF IInv, Typed, Caused
  <1> QED
    BY <1>5, <1>6, <1>7, <1>8, <1>9 DEF IInv, Attempts

(* HandleRun refusing a body keeps the invariant.                          *)
LEMMA BadRequestIInv ==
    ASSUME IInv, NEW r \in Reqs, BadRequest(r)
    PROVE  IInv'
  BY FinishIInv DEF BadRequest, Outcomes, Bodies

(* The next attempt is made when there was none before, or the one before  *)
(* is lost.                                                                *)
LEMMA AttemptIInv ==
    ASSUME IInv, NEW r \in Reqs, run[r].pc \in {"new", "backoff"},
           NEW n \in 1 .. ForwardAttempts, n = run[r].n + 1, Attempt(r, n),
           pending' = pending \cup {r},
           UNCHANGED <<actor, ch, job, posts, faults, suspends>>
    PROVE  IInv'
  <1>1. /\ run' \in [Reqs -> RunType]
        /\ run'[r] = [pc |-> "forward", n |-> n, end |-> run[r].end]
        /\ \A q \in Reqs : q # r => run'[q] = run[q]
    BY AttemptsAssumption DEF IInv, Typed, RunType, Parked, Attempt
  <1>2. <<r, n>> \in Attempts /\ att' = [att EXCEPT ![<<r, n>>] = "sent"]
    BY DEF Attempts, Attempt
  <1>3. Typed'
    BY <1>1, <1>2 DEF IInv, Typed, AttType, Parked
  <1>4. \A a \in Attempts : a[1] = r => att[a] \notin {"sent", "acked", "refused"}
    BY AttemptsAssumption DEF IInv, Typed, RunType, Numbered, OneAtATime, Attempts, Cur
  <1>5. \A a \in Attempts : a[1] = r /\ att[a] # "none" => a[2] < n
    BY AttemptsAssumption DEF IInv, Typed, RunType, OneAtATime, Attempts
  <1>6. \A q \in Reqs : Numbered(q)'
    BY <1>1, <1>2 DEF IInv, Typed, Numbered, Cur, Parked, Attempts
  <1>7. \A a \in Attempts : OneAtATime(a)'
    <2> SUFFICES ASSUME NEW a \in Attempts PROVE OneAtATime(a)'
      OBVIOUS
    <2>0. a[1] \in Reqs /\ a[2] \in 1 .. ForwardAttempts /\ a = <<a[1], a[2]>>
      BY DEF Attempts
    <2>1. CASE a = <<r, n>>
      BY <2>1, <1>1, <1>2 DEF OneAtATime, Cur, IInv, Typed
    <2>2. CASE a # <<r, n>> /\ a[1] = r
      BY <2>0, <2>2, <1>1, <1>2, <1>4, <1>5 DEF OneAtATime, Cur, IInv, Typed
    <2>3. CASE a[1] # r
      BY <2>0, <2>3, <1>1, <1>2 DEF OneAtATime, Cur, IInv, Typed
    <2> QED
      BY <2>1, <2>2, <2>3
  <1>8. \A a \in Attempts : Known(a)'
    BY <1>1, <1>2 DEF IInv, Typed, Known, Attempts
  <1>9. Caused'
    BY <1>1 DEF IInv, Typed, Caused
  <1> QED
    BY <1>3, <1>6, <1>7, <1>8, <1>9 DEF IInv, Attempts

(* HandleRun's registration and first attempt keep the invariant.          *)
LEMMA HandleRunIInv ==
    ASSUME IInv, NEW r \in Reqs, HandleRun(r)
    PROVE  IInv'
  <1>1. run[r].n = 0 /\ 1 \in 1 .. ForwardAttempts
    BY AttemptsAssumption DEF IInv, Numbered, HandleRun
  <1> QED
    BY <1>1, AttemptIInv DEF HandleRun

(* An attempt that returns keeps the invariant: a lost one is left for     *)
(* the pause, an acknowledged one for the select.                          *)
LEMMA ForwardReturnsIInv ==
    ASSUME IInv, NEW r \in Reqs, ForwardReturns(r)
    PROVE  IInv'
  <1>1. CASE att[Cur(r)] = "refused"
    BY <1>1, FinishIInv DEF ForwardReturns, Outcomes, Bodies
  <1>2. CASE att[Cur(r)] # "refused"
    <2> PICK pc \in {"select", "backoff"} :
          /\ run' = [run EXCEPT ![r].pc = pc]
          /\ pc = "backoff" => att[Cur(r)] \in {"failed", "broken"}
      BY <1>2 DEF ForwardReturns
    <2>1. /\ run' \in [Reqs -> RunType]
          /\ run'[r] = [run[r] EXCEPT !.pc = pc]
          /\ \A q \in Reqs : q # r => run'[q] = run[q]
      BY DEF IInv, Typed, RunType, Parked
    <2>2. run[r].pc = "forward" /\ UNCHANGED <<actor, pending, ch, att, job, posts, faults, suspends>>
      BY <1>2 DEF ForwardReturns
    <2>3. \A q \in Reqs : run'[q].n = run[q].n /\ run'[q].end = run[q].end
      BY <2>1 DEF IInv, Typed, RunType
    <2>4. Typed'
      BY <2>1, <2>2 DEF IInv, Typed, Parked, RunType
    <2>5. \A q \in Reqs : Numbered(q)'
      BY <2>1, <2>2, <2>3 DEF IInv, Typed, Numbered, Cur, Parked, RunType
    <2>6. \A a \in Attempts : OneAtATime(a)'
      BY <2>2, <2>3 DEF IInv, OneAtATime, Cur, Attempts
    <2>7. \A a \in Attempts : Known(a)'
      BY <2>1, <2>2 DEF IInv, Known, Attempts
    <2>8. Caused'
      BY <2>2, <2>3 DEF IInv, Caused
    <2> QED
      BY <2>4, <2>5, <2>6, <2>7, <2>8 DEF IInv, Attempts
  <1> QED
    BY <1>1, <1>2

(* An attempt abandoned after its time-out is lost, and was the current    *)
(* one.                                                                    *)
LEMMA ForwardTimeoutIInv ==
    ASSUME IInv, NEW r \in Reqs, ForwardTimeout(r)
    PROVE  IInv'
  <1>1. /\ run' \in [Reqs -> RunType]
        /\ run'[r] = [run[r] EXCEPT !.pc = "backoff"]
        /\ \A q \in Reqs : q # r => run'[q] = run[q]
    BY DEF IInv, Typed, RunType, Parked, ForwardTimeout
  <1>2. \A q \in Reqs : run'[q].n = run[q].n /\ run'[q].end = run[q].end
    BY <1>1 DEF IInv, Typed, RunType
  <1>3. Cur(r) \in Attempts /\ att' = [att EXCEPT ![Cur(r)] = "gone"]
    BY AttemptsAssumption DEF IInv, Typed, RunType, Numbered, Cur, Attempts, Parked, ForwardTimeout
  <1>4. Typed'
    BY <1>1, <1>3, BoundsAssumption DEF IInv, Typed, RunType, AttType, Parked, ForwardTimeout, Fault
  <1>5. \A q \in Reqs : Numbered(q)'
    BY <1>1, <1>2, <1>3 DEF IInv, Typed, RunType, Numbered, Cur, Parked, Attempts, ForwardTimeout
  <1>6. \A a \in Attempts : OneAtATime(a)'
    BY <1>2, <1>3 DEF IInv, Typed, OneAtATime, Cur, Attempts, ForwardTimeout
  <1>7. \A a \in Attempts : Known(a)'
    BY <1>1, <1>3 DEF IInv, Typed, Known, Attempts, ForwardTimeout
  <1>8. Caused'
    BY <1>2 DEF IInv, Caused, ForwardTimeout
  <1> QED
    BY <1>4, <1>5, <1>6, <1>7, <1>8 DEF IInv, Attempts

(* forwardToActor's next attempt, or its end after the last one, keeps the *)
(* invariant.                                                              *)
LEMMA RetryIInv ==
    ASSUME IInv, NEW r \in Reqs, Retry(r)
    PROVE  IInv'
  <1>1. CASE run[r].n < ForwardAttempts
    <2> DEFINE n == run[r].n + 1
    <2>1. Attempt(r, n) /\ run[r].pc = "backoff"
          /\ UNCHANGED <<actor, pending, ch, job, posts, faults, suspends>>
      BY <1>1 DEF Retry
    <2>2. n \in 1 .. ForwardAttempts
      BY <1>1, AttemptsAssumption DEF IInv, Typed, RunType
    <2>3. pending = pending \cup {r}
      BY <2>1 DEF IInv, Typed, Parked
    <2> QED
      BY <2>1, <2>2, <2>3, AttemptIInv
  <1>2. CASE ~(run[r].n < ForwardAttempts)
    BY <1>2, FinishIInv DEF Retry, Outcomes, Bodies
  <1> QED
    BY <1>1, <1>2

(* HandleRun taking the reply keeps the invariant: the channel is emptied  *)
(* as the request ends.                                                    *)
LEMMA ReplyIInv ==
    ASSUME IInv, NEW r \in Reqs, Reply(r)
    PROVE  IInv'
  <1>1. ch[r] \in Outcomes
    BY DEF IInv, Typed, Reply, Outcomes
  <1> QED
    BY <1>1, FinishIInv DEF Reply

(* A client's hang-up keeps the invariant.                                 *)
LEMMA ClientGoneIInv ==
    ASSUME IInv, NEW r \in Reqs, ClientGone(r)
    PROVE  IInv'
  BY FinishIInv DEF ClientGone, Outcomes, Bodies

(* HandleRun's time-out keeps the invariant.                               *)
LEMMA RequestTimeoutIInv ==
    ASSUME IInv, NEW r \in Reqs, RequestTimeout(r)
    PROVE  IInv'
  BY FinishIInv DEF RequestTimeout, Outcomes, Bodies

(* HandleReply keeps the invariant: a reply is never for a request that    *)
(* is not registered yet, so that 204 means held or late.                  *)
LEMMA HandleReplyIInv ==
    ASSUME IInv, NEW m \in posts, HandleReply(m)
    PROVE  IInv'
  <1> DEFINE r == m.a[1]
  <1>0. m \in PostType /\ m.a \in Attempts /\ r \in Reqs
    BY DEF IInv, Typed, PostType, Attempts
  <1>1. /\ ch' \in [Reqs -> {"empty"} \cup Bodies]
        /\ \A q \in Reqs : ch'[q] = ch[q] \/ (q = r /\ ch[q] = "empty" /\ ch'[q] = m.body)
        /\ r \in pending => ch'[r] # "empty"
    BY <1>0 DEF IInv, Typed, PostType, Bodies, HandleReply, Offered
  <1>2. /\ job' \in [Attempts -> JobType]
        /\ \A a \in Attempts : job'[a].st = job[a].st
        /\ \A a \in Attempts : a # m.a => job'[a] = job[a]
    BY <1>0 DEF IInv, Typed, JobType, HandleReply
  <1>3. Typed'
    BY <1>1, <1>2 DEF IInv, Typed, HandleReply
  <1>4. r \in pending \/ run[r].pc = "done"
    BY <1>0 DEF IInv, Typed, RunType, Caused, Known, Numbered, OneAtATime, Attempts, Parked
  <1>5. \A a \in Attempts : Known(a)'
    <2> SUFFICES ASSUME NEW a \in Attempts PROVE Known(a)'
      OBVIOUS
    <2>1. a[1] \in Reqs /\ Known(a) /\ UNCHANGED <<att, run>>
      BY DEF IInv, Attempts, HandleReply
    <2>2. CASE a = m.a
      BY <2>1, <2>2, <1>1, <1>2, <1>4 DEF Known
    <2>3. CASE a # m.a
      BY <2>1, <2>3, <1>0, <1>1, <1>2 DEF Known, IInv, Typed, PostType, Bodies
    <2> QED
      BY <2>2, <2>3
  <1>6. (\A q \in Reqs : Numbered(q)') /\ (\A a \in Attempts : OneAtATime(a)')
    BY DEF IInv, Numbered, OneAtATime, Cur, HandleReply
  <1>7. Caused'
    BY <1>0, <1>1, <1>2 DEF IInv, Typed, PostType, Caused, HandleReply
  <1> QED
    BY <1>3, <1>5, <1>6, <1>7 DEF IInv, Attempts

-----------------------------------------------------------------------------
(* atenet and the sidecar.                                                 *)

(* A step that keeps what the ingress broker and the posts hold: the       *)
(* attempts that change were waiting, a job begins for a waiting attempt,  *)
(* and none becomes acknowledged.                                          *)
LEMMA QuietIInv ==
    ASSUME IInv, UNCHANGED <<run, pending, ch, posts>>,
           actor' \in {"running", "suspended"},
           faults' \in 0 .. MaxFaults, suspends' \in 0 .. MaxSuspends,
           att' \in [Attempts -> AttType], job' \in [Attempts -> JobType],
           \A a \in Attempts :
             /\ att'[a] # att[a] => att[a] = "sent" /\ att'[a] # "none"
             /\ job'[a].st = "none" => job[a].st = "none"
             /\ job'[a].st # "none" /\ job[a].st = "none" => att[a] = "sent"
             /\ job'[a].st = "delivered" \/ job'[a].res = "204"
                  => job[a].st = "delivered" \/ job[a].res = "204"
    PROVE  IInv'
  <1>1. Typed'
    BY DEF IInv, Typed
  <1>2. \A q \in Reqs : Numbered(q)'
    BY AttemptsAssumption DEF IInv, Typed, RunType, Numbered, Cur, Attempts, Parked
  <1>3. \A a \in Attempts : OneAtATime(a)'
    BY DEF IInv, OneAtATime, Cur, Attempts
  <1>4. \A a \in Attempts : Known(a)'
    BY DEF IInv, Known
  <1>5. Caused'
    BY DEF IInv, Typed, PostType, Caused
  <1> QED
    BY <1>1, <1>2, <1>3, <1>4, <1>5 DEF IInv, Attempts

(* A job begins for an attempt that waits.                                 *)
LEMMA RouteIInv ==
    ASSUME IInv, NEW a \in Attempts, Route(a)
    PROVE  IInv'
  BY QuietIInv DEF IInv, Typed, AttType, JobType, InFlight, Route

(* An error of atenet ends an attempt that waits.                          *)
LEMMA AtenetFailsIInv ==
    ASSUME IInv, NEW a \in Attempts, NEW status \in {"failed", "refused"},
           AtenetFails(a, status)
    PROVE  IInv'
  BY QuietIInv, BoundsAssumption DEF IInv, Typed, AttType, JobType, AtenetFails, Fault

(* The 202 of Ingress.handle, heard or lost, ends an attempt that waits.   *)
LEMMA HandleIInv ==
    ASSUME IInv, NEW a \in Attempts, NEW heard \in BOOLEAN, Handle(a, heard)
    PROVE  IInv'
  BY QuietIInv, BoundsAssumption DEF IInv, Typed, AttType, JobType, InFlight, Handle, Fault

(* A request that cannot be read ends an attempt that waits.               *)
LEMMA HandleFailsIInv ==
    ASSUME IInv, NEW a \in Attempts, HandleFails(a)
    PROVE  IInv'
  BY QuietIInv, BoundsAssumption DEF IInv, Typed, AttType, JobType, InFlight, HandleFails, Fault

(* A call of the agent touches its job only.                               *)
LEMMA CallOutIInv ==
    ASSUME IInv, NEW a \in Attempts, CallOut(a)
    PROVE  IInv'
  BY QuietIInv DEF IInv, Typed, AttType, JobType, InFlight, CallOut

(* The return of a call touches its job only.                              *)
LEMMA CallReturnsIInv ==
    ASSUME IInv, NEW a \in Attempts, CallReturns(a)
    PROVE  IInv'
  BY QuietIInv DEF IInv, Typed, AttType, JobType, InFlight, CallReturns

(* deliver returns for a job that was acknowledged.                        *)
LEMMA DeliverReturnsIInv ==
    ASSUME IInv, NEW a \in Attempts, DeliverReturns(a)
    PROVE  IInv'
  BY QuietIInv DEF IInv, Typed, AttType, JobType, InFlight, DeliverReturns

(* A suspend breaks attempts that wait and cuts posts not answered.        *)
LEMMA SuspendIInv ==
    ASSUME IInv, Suspend
    PROVE  IInv'
  BY QuietIInv, BoundsAssumption DEF IInv, Typed, AttType, JobType, InFlight, Suspend, Running

(* A resume touches nothing but the actor.                                 *)
LEMMA ResumeIInv ==
    ASSUME IInv, Resume
    PROVE  IInv'
  BY QuietIInv DEF IInv, Typed, AttType, JobType, Resume

(* deliver: a job with a response posts it, and may lose what it posted.   *)
LEMMA DeliverIInv ==
    ASSUME IInv, NEW a \in Attempts, job[a].st # "none",
           UNCHANGED <<actor, run, pending, ch, att, suspends>>,
           faults' \in 0 .. MaxFaults,
           job' \in [Attempts -> JobType], \A b \in Attempts : b # a => job'[b] = job[b],
           job'[a].st \notin {"none", "delivered"},
           job'[a].res = "204" => job[a].res = "204",
           posts' \in SUBSET PostType,
           \A m \in posts' : m \in posts \/ m.a = a
    PROVE  IInv'
  <1>1. Typed'
    BY DEF IInv, Typed
  <1>2. (\A q \in Reqs : Numbered(q)') /\ (\A b \in Attempts : OneAtATime(b)')
    BY DEF IInv, Numbered, OneAtATime, Cur
  <1>3. \A b \in Attempts : Known(b)'
    BY DEF IInv, Known
  <1>4. Caused'
    BY DEF IInv, Typed, PostType, Caused
  <1> QED
    BY <1>1, <1>2, <1>3, <1>4 DEF IInv, Attempts

(* deliver's first post is for a job that exists.                          *)
LEMMA RespondIInv ==
    ASSUME IInv, NEW a \in Attempts, Respond(a)
    PROVE  IInv'
  <1>1. Post(a, 1) \in PostType /\ 1 \in 0 .. DeliverAttempts
    BY AttemptsAssumption DEF Post, PostType, Bodies
  <1>2. /\ job' \in [Attempts -> JobType] /\ job'[a].st = "deliver" /\ job'[a].res = job[a].res
        /\ \A b \in Attempts : b # a => job'[b] = job[b]
    BY <1>1 DEF Respond, IInv, Typed, JobType, InFlight
  <1>3. posts' \in SUBSET PostType
    BY <1>1 DEF Respond, IInv, Typed
  <1>4. \A m \in posts' : m \in posts \/ m.a = a
    BY DEF Respond, Post
  <1> QED
    BY <1>2, <1>3, <1>4, DeliverIInv DEF Respond, IInv, Typed

(* A failed post leaves nothing but what was posted or a part of it, and   *)
(* the next one is of the same job.                                        *)
LEMMA DeliverFailsIInv ==
    ASSUME IInv, NEW a \in Attempts, DeliverFails(a)
    PROVE  IInv'
  <1> DEFINE p == Post(a, job[a].try)
             Fate == IF p \in posts THEN Fates(p) ELSE {posts}
  <1>1. job[a] \in JobType /\ posts \in SUBSET PostType
    BY DEF IInv, Typed
  <1>2. PICK left \in Fate :
           IF job[a].try < DeliverAttempts
           THEN /\ job' = [job EXCEPT ![a].try = @ + 1, ![a].res = "none"]
                /\ posts' = left \cup {Post(a, job[a].try + 1)}
           ELSE /\ job' = [job EXCEPT ![a].st = "gaveUp"]
                /\ posts' = left
    BY DEF DeliverFails
  <1>3. left \in SUBSET PostType
    BY <1>1 DEF Fates, PostType, Bodies
  <1>4. \A m \in left : m \in posts \/ m.a = a
    BY <1>1 DEF Fates, Post, PostType
  <1>5. job[a].try < DeliverAttempts
          => /\ job[a].try + 1 \in 1 .. DeliverAttempts
             /\ Post(a, job[a].try + 1) \in PostType
             /\ Post(a, job[a].try + 1).a = a
    BY <1>1, AttemptsAssumption DEF JobType, Post, PostType, Bodies
  <1>6. /\ job' \in [Attempts -> JobType] /\ \A b \in Attempts : b # a => job'[b] = job[b]
        /\ job'[a].st \in {"deliver", "gaveUp"}
        /\ job'[a].res = "204" => job[a].res = "204"
    BY <1>2, <1>5, AttemptsAssumption DEF DeliverFails, IInv, Typed, JobType, InFlight
  <1>7. /\ posts' \in SUBSET PostType
        /\ \A m \in posts' : m \in posts \/ m.a = a
    BY <1>2, <1>3, <1>4, <1>5
  <1>8. faults' \in 0 .. MaxFaults
    BY BoundsAssumption DEF DeliverFails, Fault, IInv, Typed
  <1>9. job[a].st # "none" /\ UNCHANGED <<actor, run, pending, ch, att, suspends>>
    BY DEF DeliverFails
  <1> QED
    BY <1>6, <1>7, <1>8, <1>9, DeliverIInv

-----------------------------------------------------------------------------
(* Every step of every actor keeps the invariant.                          *)
LEMMA NextIInv == IInv /\ [Next]_relayVars => IInv'
  <1> SUFFICES ASSUME IInv, [Next]_relayVars
               PROVE  IInv'
    OBVIOUS
  <1>1. CASE IngressBroker
    BY <1>1, BadRequestIInv, HandleRunIInv, ForwardReturnsIInv, RetryIInv, ReplyIInv,
       ForwardTimeoutIInv, ClientGoneIInv, RequestTimeoutIInv, HandleReplyIInv
    DEF IngressBroker, HandlerRuns
  <1>2. CASE Atenet
    BY <1>2, RouteIInv, AtenetFailsIInv DEF Atenet
  <1>3. CASE Ingress
    BY <1>3, HandleIInv, HandleFailsIInv, RespondIInv, DeliverReturnsIInv, DeliverFailsIInv
    DEF Ingress, SidecarRuns
  <1>4. CASE Calls
    BY <1>4, CallOutIInv, CallReturnsIInv DEF Calls
  <1>5. CASE Suspend \/ Resume
    BY <1>5, SuspendIInv, ResumeIInv
  <1>6. CASE UNCHANGED relayVars
    BY <1>6 DEF relayVars, IInv, Typed, Numbered, OneAtATime, Known, Caused, Cur
  <1> QED
    BY <1>1, <1>2, <1>3, <1>4, <1>5, <1>6 DEF Next

(* The invariant holds of every behaviour of the relay.                    *)
THEOREM RelayInvariant == Spec => []IInv
  BY InitIInv, NextIInv, PTL DEF Spec

-----------------------------------------------------------------------------
(* Attempts, jobs and posts are of their kind, and a request is registered *)
(* exactly while its handler waits.                                        *)
THEOREM RelayTypeCorrect == Spec => []TypeOK
  <1>1. IInv => TypeOK
    BY DEF IInv, Typed, TypeOK, RunType, JobType, AttType, PostType
  <1> QED
    BY <1>1, RelayInvariant, PTL

(* A response that the sidecar has seen acknowledged, and so forgotten, is *)
(* in the hands of HandleRun or came when that had ended.                  *)
THEOREM ReplyNeverDropped == Spec => []AcknowledgedReplyHeld
  <1>1. IInv => AcknowledgedReplyHeld
    BY DEF IInv, Known, AcknowledgedReplyHeld
  <1> QED
    BY <1>1, RelayInvariant, PTL

(* An attempt whose acknowledgement is not lost is the handler's current   *)
(* one: all jobs of a request but one belong to lost attempts.             *)
LEMMA RunsOfLostAttempts ==
    ASSUME IInv
    PROVE  RunsBounded
  <1> SUFFICES ASSUME NEW r \in Reqs
               PROVE  Cardinality({a \in Attempts : a[1] = r /\ job[a].st \notin {"none", "arrived", "rejected"}})
                        <= 1 + Cardinality({a \in Attempts : a[1] = r /\ att[a] \in {"failed", "broken", "gone"}})
    BY DEF RunsBounded
  <1> DEFINE Runs == {a \in Attempts : a[1] = r /\ job[a].st \notin {"none", "arrived", "rejected"}}
             Lost == {a \in Attempts : a[1] = r /\ att[a] \in {"failed", "broken", "gone"}}
             All  == {r} \X (1 .. ForwardAttempts)
  <1>1. IsFiniteSet({r})
    BY FS_Singleton
  <1>2. IsFiniteSet(1 .. ForwardAttempts)
    BY FS_Interval, AttemptsAssumption
  <1>3. IsFiniteSet(All) /\ Lost \subseteq All
    BY <1>1, <1>2, FS_Product DEF Attempts
  <1>4. IsFiniteSet(Lost) /\ Cardinality(Lost) \in Nat
    BY <1>3, FS_Subset, FS_CardinalityType
  <1>5. IsFiniteSet(Lost \cup {Cur(r)}) /\ Cardinality(Lost \cup {Cur(r)}) <= 1 + Cardinality(Lost)
    BY <1>4, FS_AddElement
  <1>6. Runs \subseteq Lost \cup {Cur(r)}
    BY DEF IInv, Typed, AttType, OneAtATime, Known
  <1>7. IsFiniteSet(Runs) /\ Cardinality(Runs) <= Cardinality(Lost \cup {Cur(r)})
    BY <1>5, <1>6, FS_Subset
  <1>8. Cardinality(Runs) \in Nat /\ Cardinality(Lost \cup {Cur(r)}) \in Nat
    BY <1>5, <1>7, FS_CardinalityType
  <1> QED
    BY <1>4, <1>5, <1>7, <1>8

(* The agent works on a client's request once, and once more only for each *)
(* attempt whose acknowledgement forwardToActor did not get.               *)
THEOREM AgentRunsBounded == Spec => []RunsBounded
  BY RunsOfLostAttempts, RelayInvariant, PTL
=============================================================================
