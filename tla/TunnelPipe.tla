----------------------------- MODULE TunnelPipe -----------------------------
(***************************************************************************)
(* TunnelSession implements BytePipe: the agent's and the destination's    *)
(* ends of the session are the ends of the two pipes.  Stated for a        *)
(* connection that is dialed once (MaxDials = 1) and an agent that does    *)
(* not close it before it has its responses (AgentCloses = FALSE): a write *)
(* to an upstream whose write half was closed fails, and ends the          *)
(* connection for the agent without the destination's doing.               *)
(***************************************************************************)
EXTENDS TunnelSession

Pipe == INSTANCE BytePipe WITH
    upIn    <- AgentBytes(0, End(cs.upBuf)),
    upOut   <- srv[1].got,
    downIn  <- ServerBytes(1, 0, srv[1].sent),
    downOut <- agentGot,
    inEnd   <- srv[1].fin,
    outEnd  <- cs.downClosed

(* Every step of the session is a step of the two byte pipes or invisible  *)
(* at their ends, through suspends, cuts, replays and reconnects: no byte  *)
(* lost, doubled or reordered either way and no early end of stream.       *)
ImplementsPipe == Pipe!Spec
=============================================================================
