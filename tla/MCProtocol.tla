----------------------------- MODULE MCProtocol -----------------------------
(* CommandProtocol on a small instance.                                    *)
EXTENDS CommandProtocol
=============================================================================
