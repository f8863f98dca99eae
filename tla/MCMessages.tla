------------------------------ MODULE MCMessages ------------------------------
(***************************************************************************)
(* Messages with two ciphertexts, up to three classes and two sessions.    *)
(***************************************************************************)
EXTENDS Messages

CONSTANTS ct1, ct2
=============================================================================
