----------------------------- MODULE MCCString ------------------------------
(* Instances of CString for TLC.                                           *)
EXTENDS CString
=============================================================================
