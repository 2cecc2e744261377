----------------------------- MODULE MCDestTree -----------------------------
(* Instances of DestTree for TLC: a source directory with a file, and with a *)
(* directory with a file; destinations where some of it is already there.    *)
EXTENDS DestTree

OneRoot == <<<<"s">>>>
SmallDirs == {<<"s">>, <<"s", "d">>}
SmallRegs == {<<"s", "x">>, <<"s", "d", "y">>}
WithEmpty == SmallDirs \cup {<<"s", "e">>}

D == <<"d">>
To(p) == D \o p
Other(t) == Copy(<<"other">>, t)
T1 == <<1, 0>>
T2 == <<2, 1>>
T3 == <<2, 2>>
SomeTimes == {T1, T2, T3}

Plain == [full_root |-> FALSE, restart |-> FALSE, log |-> TRUE]
Rooted == [full_root |-> TRUE, restart |-> FALSE, log |-> FALSE]
Checkpoint == [full_root |-> FALSE, restart |-> TRUE, log |-> TRUE]

Nothing == <<>>
Various == {
  Nothing,
  D :> Dir,
  D :> Dir @@ To(<<"d">>) :> Dir @@ To(<<"z">>) :> Other(T1)
    @@ To(<<"s">>) :> Dir @@ To(<<"s", "x">>) :> Other(T1),
  D :> Dir @@ To(<<"d">>) :> Dir @@ To(<<"d", "y">>) :> Copy(<<"s", "d", "y">>, T2),
  D :> Dir @@ To(<<"d">>) :> Other(T1),
  D :> Dir @@ To(<<"x">>) :> Dir,
  D :> Sealed @@ To(<<"x">>) :> Copy(<<"s", "x">>, T1),
  D :> Other(T1)}
\* For --full-root, none with a file where the trimmed path of a listed one leads.
Unrooted == {
  Nothing,
  D :> Dir,
  D :> Dir @@ To(<<"z">>) :> Other(T1) @@ To(<<"s">>) :> Dir @@ To(<<"s", "x">>) :> Other(T1),
  D :> Dir @@ To(<<"s">>) :> Sealed,
  D :> Dir @@ To(<<"s">>) :> Other(T1)}

EachTwice == <<Plain, Plain>> :> Various @@ <<Rooted, Rooted>> :> Unrooted
CheckpointTwice == <<Checkpoint, Checkpoint>> :> {D :> Dir}
=============================================================================
