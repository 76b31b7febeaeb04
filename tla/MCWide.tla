------------------------------- MODULE MCWide -------------------------------
(* Two-byte numbers made of the bytes at which carry and sign change.       *)
EXTENDS Wide
=============================================================================
