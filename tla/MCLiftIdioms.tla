---------------------------- MODULE MCLiftIdioms ----------------------------
(* TLC instance of LiftIdioms: three lifts, one of them without negatives.  *)
EXTENDS LiftIdioms

ThreeLifts == <<<<"leak", "double">>, <<>>, <<"early">>>>

\* Clean, clean with a warning, rejected, and failed in the host alone.
FourOutcomes == {o \in AllOutcomes : Cardinality(o.says) <= 1}
=============================================================================
