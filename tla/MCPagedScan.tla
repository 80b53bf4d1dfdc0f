---------------------------- MODULE MCPagedScan -----------------------------
(***************************************************************************)
(* PagedScan of a listing of four rows, with pages of one and of three     *)
(* rows, vectors of two, and caps inside a page, at its end and beyond the *)
(* listing.                                                                *)
(***************************************************************************)
EXTENDS PagedScan

MCPageSizes == {1, 3}
MCRowCaps == {0, 2, 3, 5}
=============================================================================
