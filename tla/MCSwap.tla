------------------------------- MODULE MCSwap -------------------------------
(* DirectorySwap on a small instance.                                      *)
EXTENDS DirectorySwap
=============================================================================
