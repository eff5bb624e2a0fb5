----------------------------- MODULE MCAsrCalls -----------------------------
(* One job of two segments, the last of them short, and one of one *)
EXTENDS AsrCalls, TLC

CONSTANTS j1, j2

MCAudio == (j1 :> 8) @@ (j2 :> 5)

=============================================================================
