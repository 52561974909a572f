----------------------------- MODULE MCVendorLoad -----------------------------
(***************************************************************************)
(* VendorLoad for TLC: two processes, two headers, one upgrade.            *)
(***************************************************************************)
EXTENDS VendorLoad

CONSTANTS p1, p2, f1, f2
===============================================================================
