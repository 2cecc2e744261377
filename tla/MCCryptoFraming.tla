--------------------------- MODULE MCCryptoFraming ---------------------------
(* Instances of CryptoFraming for TLC: blocks shorter than a sector, of exactly *)
(* one and two sectors, and in between.                                         *)
EXTENDS CryptoFraming

BlockLengths == <<1, 2, 4, 5, 3>>
=============================================================================
