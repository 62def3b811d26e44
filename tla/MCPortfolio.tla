---------------------------- MODULE MCPortfolio ----------------------------
(* Instances of Portfolio for TLC. *)
EXTENDS Portfolio

CONSTANTS p1, p2, wallet, pool

AnyPosition == Permutations(Positions)

\* A swap of ours: the wallet's balance before and after, and five tokens in or out.
Swap(pre, post, bought) ==
    LET held == <<[owner |-> wallet, amount |-> 5], [owner |-> pool, amount |-> 7]>>
        without == <<[owner |-> wallet, amount |-> None], [owner |-> pool, amount |-> 12]>>
    IN  [meta |-> TRUE, signature |-> "s", err |-> None, fee |-> 1, pre |-> pre, post |-> post,
         preTokens |-> IF bought THEN without ELSE held,
         postTokens |-> IF bought THEN held ELSE without]

\* A buy; sales that bring less than the fee, as much as was paid, and more; one that failed; and
\* answers that do not tell.
SomeTransactions ==
    {Swap(20, 16, TRUE), Swap(20, 19, FALSE), Swap(20, 24, FALSE), Swap(20, 28, FALSE),
     [Swap(20, 19, TRUE) EXCEPT !.err = "err", !.postTokens = <<>>],
     [Swap(20, 16, TRUE) EXCEPT !.meta = FALSE], [Swap(20, 16, TRUE) EXCEPT !.post = None]}

\* A sale need not have an estimate.
SomeOrders ==
    {[side |-> "BUY", sol |-> 3, tokens |-> 5, fee |-> 2],
     [side |-> "SELL", sol |-> None, tokens |-> 5, fee |-> None]}

SomeOverrides ==
    {[sol |-> None, tokens |-> None], [sol |-> 9, tokens |-> None], [sol |-> None, tokens |-> 0]}
=============================================================================
