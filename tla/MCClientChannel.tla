-------------------------- MODULE MCClientChannel --------------------------
(***************************************************************************)
(* Three payments of different amounts, each sent by either client.        *)
(***************************************************************************)
EXTENDS ClientChannel, TLC

CONSTANTS x1, x2, x3

MCPayments == {x1, x2, x3}
MCAmount   == (x1 :> 1) @@ (x2 :> 1) @@ (x3 :> 2)
=============================================================================
