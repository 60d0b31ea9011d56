--------------------------- MODULE MCAsteroidsSim ---------------------------
(* TLC instance of AsteroidsSim.                                            *)
EXTENDS AsteroidsSim
=============================================================================
