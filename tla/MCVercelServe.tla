--------------------------- MODULE MCVercelServe ---------------------------
(* TLC instance of VercelServe: one path of every sort.                     *)
EXTENDS VercelServe

Api == <<"api", "users">>
Deep == <<"app", "inbox">>
Beside == <<"apple">>
Page == <<"about">>
Shell == <<"200.html">>
Missing == <<"nowhere">>
Paths == {Api, Deep, Beside, Page, Missing}

Routes == {<<"app">>}
Prefixes == {<<"api">>}
Texts == [p \in Paths |->
            IF p = Api THEN {p, <<"api">>}
            ELSE IF p \in {Deep, Beside} THEN {p, <<"app">>} ELSE {p}]
BakedPaths == {Page, Shell, Beside}
SomeKinds ==
    {[method |-> "GET", path |-> p, low |-> 1, high |-> 0] : p \in Paths} \cup
    {[method |-> "POST", path |-> p, low |-> 1, high |-> h] : p \in {Api, Deep, Page}, h \in {0, 1, 2}}
=============================================================================
