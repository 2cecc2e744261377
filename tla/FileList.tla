------------------------------ MODULE FileList ------------------------------
(***************************************************************************)
(* The file list as one message (files.cpp): get_filelist_size,            *)
(* pack_filelist and unpack_filelist.                                      *)
(*                                                                         *)
(* The message is a sequence of cells.  A number takes one cell whatever   *)
(* its width in bytes, and a string one cell for every name in it and one  *)
(* for the terminator.                                                     *)
(***************************************************************************)
EXTENDS Integers, Sequences, SequencesExt

Terminator == "0"
Unset == "unset"     \* a cell that pack_filelist leaves as malloc returned it

FixedCells == 6      \* the stat structure takes two, of which the first is set

\* Every string brings its terminator.
FilelistSize(list) ==
  FoldLeft(LAMBDA n, f : n + FixedCells + Len(f.filetype) + Len(f.path) + Len(f.root) + 3, 0, list)

PackFile(f) ==
  <<f.device, Unset, f.mode, f.length, f.mtime_sec, f.mtime_nsec>>
    \o f.filetype \o <<Terminator>> \o f.path \o <<Terminator>> \o f.root \o <<Terminator>>
PackFilelist(list) == FoldLeft(LAMBDA data, f : data \o PackFile(f), <<>>, list)

\* strdup and strlen of the string that starts at cell i.
StringLen(data, i) ==
  LET ends[n \in 0 .. Len(data) - i] == IF data[i + n] = Terminator THEN n ELSE ends[n + 1]
  IN ends[0]
StringAt(data, i) == SubSeq(data, i, i + StringLen(data, i) - 1)
AfterString(data, i) == i + StringLen(data, i) + 1

\* While there is data left, a file is made of it.
UnpackFilelist(data) ==
  LET files[i \in 1 .. Len(data) + 1] ==
        LET type == i + FixedCells
            path == AfterString(data, type)
            root == AfterString(data, path)
        IN IF i > Len(data) THEN <<>>
           ELSE <<[device |-> data[i], mode |-> data[i + 2], length |-> data[i + 3],
                   mtime_sec |-> data[i + 4], mtime_nsec |-> data[i + 5],
                   filetype |-> StringAt(data, type), path |-> StringAt(data, path),
                   root |-> StringAt(data, root)]>> \o files[AfterString(data, root)]
  IN files[1]

\* What send_filelist sends: as many cells as get_filelist_size says.
FilelistMessage(list) == SubSeq(PackFilelist(list), 1, FilelistSize(list))
=============================================================================
