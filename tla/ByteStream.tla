----------------------------- MODULE ByteStream -----------------------------
(***************************************************************************)
(* What a connected pair of UDT sockets promises its two applications: the *)
(* receiver reads the packets that were written, in order and once each.   *)
(* As long as the network is up, a writer closes when the receiver has all *)
(* it wrote, and a reader learns the end of the stream after it has read   *)
(* everything.  There are two limits of time to this: that of a closing    *)
(* writer's wait for a slow receiver, and that of a reader that leaves     *)
(* data unread after the writer is gone.                                   *)
(***************************************************************************)
EXTENDS Naturals, Sequences

CONSTANT Packets    \* how many packets the writer has

VARIABLES
  written,    \* how many packets were accepted for sending
  got,        \* the packets that were read, in the order of reading
  writer,     \* "open", "closed" (all is acknowledged), "late" or "failed"
  reader,     \* "open", "ended" or "late"
  up          \* whether the network is up

streamVars == <<written, got, writer, reader, up>>

Init == written = 0 /\ got = <<>> /\ writer = "open" /\ reader = "open" /\ up = TRUE

Write ==
  /\ writer = "open"
  /\ written' \in written + 1 .. Packets
  /\ UNCHANGED <<got, writer, reader, up>>

Read ==
  /\ reader = "open"
  /\ Len(got) < written
  /\ got' = Append(got, Len(got) + 1)
  /\ UNCHANGED <<written, writer, reader, up>>

\* A writer that has written everything waits until all is received, or as long as it
\* may; a writer fails only when the network is down.
CloseWriter ==
  /\ writer = "open"
  /\ \/ written = Packets /\ writer' \in {"closed", "late"}
     \/ ~ up /\ writer' = "failed"
  /\ UNCHANGED <<written, got, reader, up>>

\* A reader that comes too late for the rest comes after the writer is gone.
EndReader ==
  /\ reader = "open"
  /\ \/ reader' = "ended" /\ (up => \/ writer = "closed" /\ Len(got) = Packets
                                    \/ writer = "late")
     \/ reader' = "late" /\ (up => writer # "open")
  /\ UNCHANGED <<written, got, writer, up>>

Fail == up /\ up' = FALSE /\ UNCHANGED <<written, got, writer, reader>>

Spec == Init /\ [][Write \/ Read \/ CloseWriter \/ EndReader \/ Fail]_streamVars
=============================================================================
