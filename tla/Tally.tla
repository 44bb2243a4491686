------------------------------- MODULE Tally -------------------------------
(***************************************************************************)
(* How many rows of a kind a list holds, when its order is nobody's: the   *)
(* list is a bag, how often each row is in it, and each copy counts for    *)
(* itself.                                                                 *)
(***************************************************************************)
EXTENDS Integers, FiniteSets

EmptyTally == [row \in {} |-> 0]

OneMore(bag, row) ==
    [r \in DOMAIN bag \union {row} |->
        IF r \notin DOMAIN bag THEN 1 ELSE IF r = row THEN bag[r] + 1 ELSE bag[r]]

Copies(bag, rows) == UNION {{r} \X (1 .. bag[r]) : r \in rows}

HowMany(bag, rows) == Cardinality(Copies(bag, rows))
=============================================================================
