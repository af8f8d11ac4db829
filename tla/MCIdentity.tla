----------------------------- MODULE MCIdentity -----------------------------
(* Model-checking instance of Identity: two keys, two device numbers and   *)
(* every outcome of the file replacement.                                  *)
EXTENDS Identity
=============================================================================
