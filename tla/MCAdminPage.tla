---------------------------- MODULE MCAdminPage -----------------------------
(* An instance of AdminPage with the empty name and one other. *)
EXTENDS AdminPage

CONSTANTS empty, ann

MCMatches == {<<n, n>> : n \in Names} \cup {<<empty, n>> : n \in Names}
=============================================================================
