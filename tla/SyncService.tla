---------------------------- MODULE SyncService ----------------------------
(***************************************************************************)
(* What a transfer promises about the destination files, whatever happens  *)
(* to the connection or to the processes: a destination file that carries  *)
(* the modification time of a version of its source is never touched, and  *)
(* it carries that time only once it holds that version's bytes.  The next *)
(* run relies on it: it skips the files whose times agree.                 *)
(***************************************************************************)
EXTENDS Integers

CONSTANTS Files,          \* the files of the transfer
          Content(_, _)   \* Content(f, v): the bytes of version v of file f

VARIABLES src,            \* src[f]: version of the source file
          data,           \* data[f]: bytes of the destination file
          claim           \* claim[f]: version the destination claims, or None

svars == <<src, data, claim>>
None == 0

Init ==
  /\ src = [f \in Files |-> 1]
  /\ claim = [f \in Files |-> None]
  /\ data = [f \in Files |-> <<>>]

\* The owner of the source changes it.
Edit(f) ==
  /\ src' = [src EXCEPT ![f] = @ + 1]
  /\ UNCHANGED <<data, claim>>

\* The transfer changes the destination; whatever it claimed, it claims no more.
Write(f) ==
  /\ claim' = [claim EXCEPT ![f] = None]
  /\ \A g \in Files \ {f} : data'[g] = data[g]
  /\ UNCHANGED src

\* The transfer certifies a version.  A version that is already outdated will be
\* sent again, so only the current one must be there in full.
Certify(f) ==
  /\ \E v \in 1 .. src[f] :
       /\ claim' = [claim EXCEPT ![f] = v]
       /\ v = src[f] => data'[f] = Content(f, v)
  /\ \A g \in Files \ {f} : data'[g] = data[g]
  /\ UNCHANGED src

Next == \E f \in Files : Edit(f) \/ Write(f) \/ Certify(f)

Spec == Init /\ [][Next]_svars
=============================================================================
