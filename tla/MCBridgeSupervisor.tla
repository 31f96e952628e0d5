------------------------ MODULE MCBridgeSupervisor ------------------------
(* The safety run: two requests of one binding generation, which the Bridge    *)
(* serves across restarts: replayed and reordered frames, frames of another    *)
(* binding, a second request behind a running one, a crash between any two     *)
(* steps.  The progress run: one request and two generations, so that the      *)
(* hand-off is replaced or cleared while a Bridge runs the one before.         *)
EXTENDS BridgeSupervisor
=============================================================================
