------------------------------ MODULE MCUpload ------------------------------
(* Three requests for one slot; slots share nothing. *)
EXTENDS Upload, TLC

MCSizes == {-1, 0, 1, 2, 3}
Symmetry == Permutations(Uploads)
=============================================================================
