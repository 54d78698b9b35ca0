----------------------------- MODULE MCDelivery -----------------------------
(* Instances of Delivery for TLC. *)
EXTENDS DeliveryMailbox, TLC

\* Connections, addresses, accounts and messages are interchangeable (used by
\* the safety runs only).
Symmetry == Permutations(Conns) \cup Permutations(Addrs)
              \cup Permutations(Users) \cup Permutations(MsgIds)

=============================================================================
