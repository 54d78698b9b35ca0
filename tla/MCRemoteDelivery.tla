-------------------------- MODULE MCRemoteDelivery ---------------------------
(* Instances of RemoteDelivery for TLC. *)
EXTENDS RemoteDelivery, TLC

\* Every host has an address of its own.
OwnPeer == [h \in Hosts |-> h]

\* Streams and messages are interchangeable.
Symmetry == Permutations(Streams) \cup Permutations(MsgIds)
              \cup Permutations(Hosts)

=============================================================================
