-------------------------- MODULE AsteroidsSessions --------------------------
(***************************************************************************)
(* What drive and sweep-stale promise the rest of the game: numbered       *)
(* sessions, at most one per client key, numbers never given out twice,    *)
(* and within a session inputs applied in strictly increasing order.       *)
(* AsteroidsSim implements this specification.                             *)
(***************************************************************************)
EXTENDS Integers

CONSTANTS
    Keys,   \* client keys
    Seqs    \* the numbers clients give their inputs

VARIABLES
    open,       \* the open sessions: number, key and last input applied
    issued      \* the next session number

svars == <<open, issued>>

Init == open = {} /\ issued = 1

\* A key without a session joins with the first input the server hears.
Join(key, seq) ==
    /\ \A o \in open : o.key # key
    /\ open' = open \cup {[pid |-> issued, key |-> key, last |-> seq]}
    /\ issued' = issued + 1

\* Only an input later than all inputs applied before it is applied.
Apply(o, seq) ==
    /\ seq > o.last
    /\ open' = (open \ {o}) \cup {[o EXCEPT !.last = seq]}
    /\ UNCHANGED issued

Leave == open' \in SUBSET open /\ UNCHANGED issued

Next ==
    \/ \E key \in Keys, seq \in Seqs : Join(key, seq)
    \/ \E o \in open, seq \in Seqs : Apply(o, seq)
    \/ Leave

Spec == Init /\ [][Next]_svars
=============================================================================
