------------------------------ MODULE BytePipe ------------------------------
(***************************************************************************)
(* What the egress tunnel promises the agent and the destination           *)
(* (DESIGN.md, section 1): a byte pipe each way.  What comes out is what   *)
(* went in, in order, each byte once, and the end of the downstream pipe   *)
(* is seen after everything that went in.  Nothing here knows of tunnels,  *)
(* frames, buffers, suspends or reconnects.                                *)
(***************************************************************************)
EXTENDS Integers, Sequences, SequencesExt

VARIABLES upIn, upOut,        \* agent to destination
          downIn, downOut,    \* destination to agent
          inEnd, outEnd       \* the destination closed; the agent was told

pipeVars == <<upIn, upOut, downIn, downOut, inEnd, outEnd>>

Init ==
    /\ upIn = <<>> /\ upOut = <<>> /\ downIn = <<>> /\ downOut = <<>>
    /\ inEnd = FALSE /\ outEnd = FALSE

Extends(new, old) == IsStrictPrefix(old, new)

AgentWrites ==
    /\ Extends(upIn', upIn)
    /\ UNCHANGED <<upOut, downIn, downOut, inEnd, outEnd>>

ServerReads ==
    /\ Extends(upOut', upOut) /\ IsPrefix(upOut', upIn)
    /\ UNCHANGED <<upIn, downIn, downOut, inEnd, outEnd>>

ServerWrites ==
    /\ ~inEnd /\ Extends(downIn', downIn)
    /\ UNCHANGED <<upIn, upOut, downOut, inEnd, outEnd>>

AgentReads ==
    /\ ~outEnd /\ Extends(downOut', downOut) /\ IsPrefix(downOut', downIn)
    /\ UNCHANGED <<upIn, upOut, downIn, inEnd, outEnd>>

ServerEnds ==
    /\ ~inEnd /\ inEnd' = TRUE
    /\ UNCHANGED <<upIn, upOut, downIn, downOut, outEnd>>

AgentSeesEnd ==
    /\ inEnd /\ ~outEnd /\ downOut = downIn /\ outEnd' = TRUE
    /\ UNCHANGED <<upIn, upOut, downIn, downOut, inEnd>>

Next == AgentWrites \/ ServerReads \/ ServerWrites \/ AgentReads
        \/ ServerEnds \/ AgentSeesEnd

Spec == Init /\ [][Next]_pipeVars
=============================================================================
