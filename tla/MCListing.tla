------------------------------ MODULE MCListing ------------------------------
(* Small instances of Listing for TLC.                                       *)
EXTENDS Listing

\* A limit that is missing, whose default is one, and one above the maximum of two.
Limits == {0, 9}
Offsets == {-1, 1}
=============================================================================
