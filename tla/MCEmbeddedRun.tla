----------------------------- MODULE MCEmbeddedRun -----------------------------
(***************************************************************************)
(* Two items that can run at once, a repair of one of them that comes      *)
(* before both in the queue, and an item that waits for it.                *)
(***************************************************************************)
EXTENDS EmbeddedRunProps, TLC

MCItems == 1 .. 4
MCEdges == {<<1, 4>>, <<2, 4>>}
MCRepairOf == 2 :> 1
MCSoft == {3}
MCAsking == {2, 3}
=============================================================================
