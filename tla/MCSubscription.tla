--------------------------- MODULE MCSubscription ---------------------------
(* An instance of Subscription: two connections of one user, one of another.
   Clients set items for b in both forms: some that show a subscription or a
   request of their own accord, one with an ask that means nothing, and one to be
   removed.  One for a leaves a roster with an item for somebody else. *)
EXTENDS Subscription, TLC

CONSTANTS a, b, c1, c2, c3

MCUserOf == (c1 :> a) @@ (c2 :> a) @@ (c3 :> b)
MCPeers == {<<a, b>>, <<b, a>>}

ItemFor(v, full, sub, ask) ==
    [contact |-> v, full |-> full, sub |-> sub, ask |-> ask]
MCClientSets ==
    {[item |-> ItemFor(a, FALSE, "absent", "absent"), drop |-> FALSE],
     [item |-> ItemFor(b, FALSE, "absent", "other"), drop |-> FALSE],
     [item |-> ItemFor(b, FALSE, "both", "subscribe"), drop |-> FALSE],
     [item |-> ItemFor(b, TRUE, "to", "absent"), drop |-> FALSE],
     [item |-> ItemFor(b, TRUE, "remove", "absent"), drop |-> TRUE]}

Symmetry == Permutations({c1, c2})
=============================================================================
