----------------------------- MODULE KeyedTable -----------------------------
(***************************************************************************)
(* What the benchmark's table promises its reader: a sequence of rows with *)
(* ids never given twice, changed by six gestures, and at most one row     *)
(* chosen.  KoruDom's page is shown to implement it; nothing here knows of *)
(* stores, handles, positions or elements.                                 *)
(***************************************************************************)
EXTENDS Integers, Sequences, SequencesExt

CONSTANTS Capacity,   \* the rows the table can hold
          LabelLens,  \* the lengths a fresh label may have
          MarkLen,    \* the characters one mark adds
          Stripe,     \* every Stripe-th row is marked
          SwapA, SwapB \* the positions, from 0, the swap exchanges

VARIABLES table,   \* the rows in order: [id, label]
          chosen,  \* the id of the chosen row, 0 when there is none
          last     \* the last id given

KTvars == <<table, chosen, last>>

KTInit == table = <<>> /\ chosen = 0 /\ last = 0

KTClear == table' = <<>> /\ chosen' = 0 /\ UNCHANGED last

KTAppend(len) ==
    /\ Len(table) < Capacity
    /\ last' = last + 1
    /\ table' = Append(table, [id |-> last + 1, label |-> len])
    /\ UNCHANGED chosen

KTMark ==
    /\ table' = [i \in DOMAIN table |->
                   IF (i - 1) % Stripe = 0
                   THEN [table[i] EXCEPT !.label = @ + MarkLen]
                   ELSE table[i]]
    /\ UNCHANGED <<chosen, last>>

KTSwap ==
    /\ Len(table) > SwapB
    /\ table' = [table EXCEPT ![SwapA + 1] = table[SwapB + 1],
                              ![SwapB + 1] = table[SwapA + 1]]
    /\ UNCHANGED <<chosen, last>>

KTRemove(i) ==
    /\ table' = RemoveAt(table, i)
    /\ chosen' = IF chosen = table[i].id THEN 0 ELSE chosen
    /\ UNCHANGED last

KTSelect(i) == chosen' = table[i].id /\ UNCHANGED <<table, last>>

KTNext ==
    \/ KTClear \/ KTMark \/ KTSwap
    \/ \E len \in LabelLens : KTAppend(len)
    \/ \E i \in DOMAIN table : KTRemove(i) \/ KTSelect(i)

KTSpec == KTInit /\ [][KTNext]_KTvars
=============================================================================
