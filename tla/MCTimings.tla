----------------------------- MODULE MCTimings -----------------------------
(* TLC instance of Timings: two benchmarks.                                 *)
EXTENDS Timings

TwoBenchmarks == <<"01_run1k", "07_create10k">>
=============================================================================
