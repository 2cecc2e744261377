----------------------------- MODULE MCTransfer -----------------------------
(* Small instances of Transfer for TLC *)
EXTENDS Transfer

\* The first file shrinks from one version to the next, so that what is too much of it has
\* to be cut off; the second is empty.
SizeCut == <<<<3, 1>>, <<0>>>>

\* The second file stays as it is.
SizeFaults == <<<<3, 1>>, <<1>>>>

=============================================================================
