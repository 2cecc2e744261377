---------------------------- MODULE MCCryptoPool ----------------------------
(* CryptoPool on small instances. *)
EXTENDS CryptoPool
=============================================================================
