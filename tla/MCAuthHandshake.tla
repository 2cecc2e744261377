--------------------------- MODULE MCAuthHandshake ---------------------------
(* Instances of AuthHandshake for TLC *)
EXTENDS AuthHandshake

SameKey == [master |-> "k", minion |-> "k"]
OtherKey == [master |-> "k", minion |-> "password"]
SameOrOther == {SameKey, OtherKey}
=============================================================================
