------------------------------ MODULE MCBoard ------------------------------
(* TLC instance of Board: every sort of line, and one vehicle in each facet. *)
EXTENDS Board

L(sort, js, net) == [sort |-> sort, js |-> js, net |-> net]
SomeLines == {L("skipped", FALSE, 1), L("koru", FALSE, 0), L("proc", TRUE, 1), L("proc", TRUE, 0),
              L("proc", FALSE, 1), L("host", FALSE, 1), L("host", FALSE, 0), L("host", FALSE, -1)}
Vehicle == <<[ext |-> "k", skipped |-> FALSE, lines |-> <<L("koru", FALSE, 0)>>],
             [ext |-> "kjs", skipped |-> FALSE, lines |-> <<L("proc", TRUE, 1), L("host", FALSE, -1)>>],
             [ext |-> "kjs", skipped |-> TRUE, lines |-> <<L("host", FALSE, 0)>>]>>
OneVehicle == {Vehicle}
=============================================================================
