----------------------------- MODULE MCStackUse -----------------------------
(***************************************************************************)
(* A page of W bytes, two different data bytes: see StackUse.cfg.  The     *)
(* smallest page on which a word at each end, a wrap-around and a byte     *)
(* between them are different places.                                      *)
(***************************************************************************)
EXTENDS StackUse
=============================================================================
