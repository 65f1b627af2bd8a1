----------------------------- MODULE MCAdmission ----------------------------
(***************************************************************************)
(* Admission for TLC.  Nothing tells one socket from another, so states    *)
(* that differ only in the names of sockets are one.                       *)
(***************************************************************************)
EXTENDS Admission, TLC

Symmetry == Permutations(Conn)

============================================================================
