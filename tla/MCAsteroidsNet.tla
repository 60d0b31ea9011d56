--------------------------- MODULE MCAsteroidsNet ---------------------------
(* TLC instance of AsteroidsNet.                                            *)
EXTENDS AsteroidsNet
=============================================================================
