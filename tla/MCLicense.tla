------------------------------ MODULE MCLicense -----------------------------
(* TLC instances of License. *)
EXTENDS License, TLC

Key(signed, ours, tier, issued, expires) ==
    [signed |-> signed, ours |-> ours, tier |-> tier, issued |-> issued, expires |-> expires]

(* Two bought keys of different age, one of a tier this version does not    *)
(* know, one of the free tier, one forged, one for another product.         *)
SomeKeys ==
    {Key(TRUE, TRUE, "pro", 0, 1), Key(TRUE, TRUE, "team", 1, 2),
     Key(TRUE, TRUE, "other", 0, 2), Key(TRUE, TRUE, "free", 0, 2),
     Key(FALSE, TRUE, "team", 0, 2), Key(TRUE, FALSE, "pro", 0, 2)}

Symmetric == Permutations(Clients)
=============================================================================
