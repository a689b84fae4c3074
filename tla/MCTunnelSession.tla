--------------------------- MODULE MCTunnelSession ---------------------------
(* Model-checking instances of TunnelSession; see the .cfg files.          *)
EXTENDS TunnelPipe

(* The sidecar's goroutines interleave freely; each broker handler runs to *)
(* its end before another one starts.                                      *)
SidecarPreemption == {"open", "reattach", "writeUp", "deliverDown", "onAttachOK"}
=============================================================================
