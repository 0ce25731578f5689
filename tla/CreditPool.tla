----------------------------- MODULE CreditPool -----------------------------
(***************************************************************************)
(* What the Central Bank promises of its rotating credit pool, without any *)
(* of the counters it keeps: borrowers owe amounts, the sum of what they   *)
(* owe never exceeds the limit, what one borrower pays back another may    *)
(* borrow, and nobody's debt changes but by borrowing or repaying.         *)
(***************************************************************************)
EXTENDS Integers, FiniteSetsExt

CONSTANTS Borrowers, Limit

VARIABLE owed

TotalOwed == MapThenSumSet(LAMBDA b : owed[b], Borrowers)

Init == owed = [b \in Borrowers |-> 0]

Borrow(b, n) ==
    /\ TotalOwed + n <= Limit
    /\ owed' = [owed EXCEPT ![b] = @ + n]

Repay(b, n) ==
    /\ n <= owed[b]
    /\ owed' = [owed EXCEPT ![b] = @ - n]

Next == \E b \in Borrowers, n \in 1 .. Limit : Borrow(b, n) \/ Repay(b, n)

Spec == Init /\ [][Next]_owed
=============================================================================
