---------------------------- MODULE MCAutoNumber ----------------------------
(***************************************************************************)
(* Values for AutoNumber.                                                  *)
(***************************************************************************)
EXTENDS AutoNumber, TLC

Written == INSTANCE ReferenceNumbers WITH Letters <- 26

NumericRef(n) == Written!Render("numeric", 1, n)

None == {}
Interchangeable == Permutations(Writers)
=============================================================================
