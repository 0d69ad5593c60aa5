---------------------------- MODULE MCCoapClient ----------------------------
(***************************************************************************)
(* The two kinds of request of the shell.                                  *)
(***************************************************************************)
EXTENDS CoapClient

CONSTANTS led, btn

MCKinds == {led, btn}
=============================================================================
