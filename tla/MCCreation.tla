----------------------------- MODULE MCCreation -----------------------------
(* TLC instance of Creation: two clients, a limit of three bytes.           *)
EXTENDS Creation, TLC

FreeLimits == [t \in AllTiers |-> 1]
SmallSource == {<<FALSE, FALSE>>}

File(size) == [kind |-> "file", size |-> size]
Field(kind) == [kind |-> kind, size |-> 0]

(* Files that fit, fill the limit, pass it alone or together, and an empty  *)
(* one; a paste with and without files; what the handler refuses.           *)
SomeRequests ==
    {<<Field("vendors"), File(a), File(b)>> : a, b \in {1, 2, 3}}
    \union {<<File(0), File(3), Field("vendors")>>, <<File(5), Field("vendors")>>,
            <<File(1), Field("vendors"), Field("novendors")>>,
            <<Field("vendors"), Field("blank")>>,
            <<File(1), Field("vendors"), Field("paste")>>, <<File(3), Field("huge")>>}

Symmetric == Permutations(Clients) \union Permutations(JobIds)
=============================================================================
