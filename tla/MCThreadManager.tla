--------------------------- MODULE MCThreadManager ---------------------------
(* The threads one of the programs starts, for TLC. *)
EXTENDS ThreadManager

\* With encryption: the constructors of Crypto start the workers,
\* start_udpipe_thread the connection, the connection its two ends, and the
\* receiving end the monitor.
CryptoThreads == {"crypt", "run", "recv", "send", "mon"}
CryptoChildren ==
  [t \in CryptoThreads \cup {"main"} |->
     CASE t = "main" -> <<"crypt", "run">>
       [] t = "run" -> <<"recv", "send">>
       [] t = "recv" -> <<"mon">>
       [] OTHER -> <<>>]
CryptoJoins ==
  [t \in CryptoThreads \cup {"main"} |-> IF t \in {"run", "recv"} THEN {"send"} ELSE {}]
=============================================================================
