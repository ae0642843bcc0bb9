----------------------------- MODULE MCRunControl -----------------------------
(***************************************************************************)
(* Two items side by side, one that waits for both and one that waits for  *)
(* that one, which a resume may leave behind an item that was canceled.    *)
(* The first fails the run, the second pauses it, the last does no harm.   *)
(***************************************************************************)
EXTENDS RunControlProps

MCEdges == {<<1, 3>>, <<2, 3>>, <<3, 4>>}
MCFailures == {<<1, "code">>, <<2, "confirm">>, <<4, "budget">>}
=============================================================================
