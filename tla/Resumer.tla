------------------------------ MODULE Resumer ------------------------------
(***************************************************************************)
(* The egress broker's resumer (internal/broker/resumer.go): one           *)
(* ResumeActor call (internal/ateapi) in flight for each actor name, and   *)
(* wake-ups that find one in flight are dropped.                           *)
(***************************************************************************)
EXTENDS Naturals

CONSTANTS
    Names,     \* actor names
    MaxErrs    \* bound: calls that fail although the actor is there

VARIABLES
    rsm,       \* per name: nothing in flight, or where its goroutine stands
    errs

ResumerInit == rsm = [n \in Names |-> "idle"] /\ errs = 0

(* Broker.wake and resume.                                                 *)
Wake(names) ==
    rsm' = [n \in Names |-> IF n \in names /\ rsm[n] = "idle" THEN "calling" ELSE rsm[n]]

(* The call returns; any code but Aborted ends the goroutine, ...          *)
Returns(n, code) ==
    /\ rsm[n] = "calling"
    /\ rsm' = [rsm EXCEPT ![n] = code]

(* ... whose deferred function lets the next wake-up in.                   *)
Ends(n) ==
    /\ rsm[n] \in {"ok", "error"}
    /\ rsm' = [rsm EXCEPT ![n] = "idle"]
    /\ UNCHANGED errs

(* Mutant of Again: Aborted ends the goroutine as any error does.          *)
AgainNever(n) ==
    /\ rsm[n] = "aborted"
    /\ rsm' = [rsm EXCEPT ![n] = "idle"]
    /\ UNCHANGED errs

(* Aborted is a suspend that is still finishing: call again.               *)
Again(n) ==
    /\ rsm[n] = "aborted"
    /\ rsm' = [rsm EXCEPT ![n] = "calling"]
    /\ UNCHANGED errs

(* The 30 s are over with the suspend still unfinished.                    *)
GivesUp(n) ==
    /\ rsm[n] = "aborted" /\ errs < MaxErrs
    /\ rsm' = [rsm EXCEPT ![n] = "idle"]
    /\ errs' = errs + 1
=============================================================================
