------------------------------ MODULE DestTree ------------------------------
(***************************************************************************)
(* Which files a run lists, which of them it sends, and where they end up: *)
(* build_full_filelist, the answer to the list, send_files with its        *)
(* checkpoint log, and the directories and files the receiver makes.       *)
(*                                                                         *)
(* A path is a sequence of names.  On the destination side paths start     *)
(* where the receiver was started; with Base = <<>> they start at the root *)
(* directory, which is the destination then.  The messages of a run are    *)
(* read in the order they were written and the sender depends on nothing   *)
(* but the answer, so a file is sent and received in one go here; Transfer *)
(* has the stream.  A regular file is what it is a copy of and the time it *)
(* was given; the model has regular files and directories only.            *)
(***************************************************************************)
EXTENDS FileList, FiniteSets, TLC

CONSTANTS
  Roots,        \* the paths on the command line, in order
  Dirs, Regs,   \* the directories and the regular files below them, and they
  Base,         \* the destination directory
  Times,        \* the times a source file may have: <<seconds, nanoseconds>>
  Trees         \* Trees[s]: what the receiving side may have before the series of
                \* runs s, which is the sequence of their options

ASSUME SeriesAssumption ==
  \A s \in DOMAIN Trees : /\ Len(s) > 0
                          /\ \A r \in DOMAIN s : DOMAIN s[r] = {"full_root", "restart", "log"}
ASSUME RootsAssumption == \A i \in DOMAIN Roots : Roots[i] \in Dirs \cup Regs
ASSUME SourceAssumption == Dirs \cap Regs = {}

VARIABLES
  options,      \* options[r]: the options of run r
  time,         \* time[f]: modification time of the source file f
  dest,         \* dest[p]: what is at p on the receiving side
  run,          \* number of the run
  logged,       \* paths in the checkpoint log
  pc,
  list,         \* fileList: entries [path, root]
  message,      \* the packed list on its way, <<>> if it is not
  answer,       \* the times in the answer
  cur,          \* place in the list
  target,       \* data_path
  calls         \* the calls of mkdir_parent that have not returned; the last is on top

vars == <<options, time, dest, run, logged, pc, list, message, answer, cur, target, calls>>

Zero == <<0, 0>>
Dir == [kind |-> "dir", sealed |-> FALSE]
Sealed == [kind |-> "dir", sealed |-> TRUE]     \* nothing can be created in it
Copy(f, t) == [kind |-> "file", of |-> f, time |-> t]
IsDir(p) == p \in DOMAIN dest /\ dest[p].kind = "dir"
Full == options[run].full_root

Begin ==
  /\ pc = "start" /\ list = <<>> /\ message = <<>> /\ answer = <<>> /\ cur = 1 /\ target = <<>> /\ calls = <<>>

Init ==
  /\ options \in DOMAIN Trees
  /\ time \in [Regs -> Times]
  /\ dest \in Trees[options]
  /\ run = 1 /\ logged = {}
  /\ Begin

-----------------------------------------------------------------------------
(* The sending side *)

\* read_checkpoint hands a null root to add_file_to_list for every line of the
\* log, and new_file_object copies it with strdup.
ReadCheckpoint ==
  /\ pc = "start"
  /\ pc' = IF options[run].restart /\ logged # {} THEN "crashed" ELSE "list"
  /\ UNCHANGED <<options, time, dest, run, logged, list, answer, cur, target, calls, message>>

\* get_parent_dir: what comes before the last slash, or nothing.
\* Mutant: the search for the slash does not move, and all of it is taken.
GetParentDirWhole(p) == p
GetParentDir(p) == IF Len(p) < 2 THEN <<>> ELSE Front(p)

\* lsdir_to_list: a directory comes before what it holds, which comes before
\* anything else; readdir's order is any.
Walks(root) ==
  LET below == {p \in Dirs \cup Regs : IsPrefix(root, p)}
  IN {w \in SetToSeqs(below) :
        /\ \A i, j \in DOMAIN w : IsStrictPrefix(w[i], w[j]) => i < j
        /\ \A i, j, k \in DOMAIN w : i < j /\ j < k /\ IsPrefix(w[i], w[k]) => IsPrefix(w[i], w[j])}

\* build_full_filelist, for one path on the command line and for all of them.
Listings(root) ==
  IF root \in Dirs THEN {[i \in DOMAIN w |-> [path |-> w[i], root |-> root]] : w \in Walks(root)}
                   ELSE {<<[path |-> root, root |-> GetParentDir(root)]>>}
FullFilelists ==
  LET listings == [i \in DOMAIN Roots |-> Listings(Roots[i])]
  IN {FlattenSeq(c) : c \in {l \in [DOMAIN Roots -> UNION Range(listings)] :
                                \A i \in DOMAIN Roots : l[i] \in listings[i]}}

BuildFullFilelist ==
  /\ pc = "list"
  /\ list' \in FullFilelists
  /\ pc' = "ask"
  /\ UNCHANGED <<options, time, dest, run, logged, answer, cur, target, calls, message>>

\* The name under the destination directory: the path without its root.
\* Mutant: the root stays.
TrimNot(e) == e.path
Trim(e) == SubSeq(e.path, Len(e.root) + 1, Len(e.path))

\* pst_rec_callback_filelist: the times of the files that are there.  It goes to
\* the destination directory for that if there is one, and else stays where it
\* is.  --full-root does not reach it.
Looked(e) == IF Base = <<>> \/ IsDir(Base) THEN Base \o Trim(e) ELSE Trim(e)
\* Mutant: the nanoseconds are left at zero.
TimeAtSeconds(p) == IF p \in DOMAIN dest /\ dest[p].kind = "file" THEN <<dest[p].time[1], 0>> ELSE Zero
TimeAt(p) == IF p \in DOMAIN dest /\ dest[p].kind = "file" THEN dest[p].time ELSE Zero
\* An entry as new_file_object makes it; the times of directories are of no use.
FileObject(e) ==
  [device |-> 0, length |-> 0, path |-> e.path, root |-> e.root] @@
  IF e.path \in Regs
  THEN [mode |-> "S_IFREG", filetype |-> <<"regular file">>,
        mtime_sec |-> time[e.path][1], mtime_nsec |-> time[e.path][2]]
  ELSE [mode |-> "S_IFDIR", filetype |-> <<"directory">>, mtime_sec |-> 0, mtime_nsec |-> 0]
WithTimes(files) ==
  [i \in DOMAIN files |-> [files[i] EXCEPT !.mtime_sec = TimeAt(Looked(files[i]))[1],
                                          !.mtime_nsec = TimeAt(Looked(files[i]))[2]]]

\* send_and_wait_for_filelist.
SendFilelist ==
  /\ pc = "ask"
  /\ message' = FilelistMessage([i \in DOMAIN list |-> FileObject(list[i])])
  /\ pc' = "asked"
  /\ UNCHANGED <<options, time, dest, run, logged, list, answer, cur, target, calls>>

\* pst_rec_callback_filelist sends the list back with the times.
Filelist ==
  /\ pc = "asked"
  /\ \E files \in {UnpackFilelist(message)} : message' = FilelistMessage(WithTimes(files))
  /\ pc' = "answered"
  /\ UNCHANGED <<options, time, dest, run, logged, list, answer, cur, target, calls>>

\* pst_snd_callback_filelist.
FilelistAnswer ==
  /\ pc = "answered"
  /\ \E files \in {UnpackFilelist(message)} :
       answer' = [i \in DOMAIN files |-> <<files[i].mtime_sec, files[i].mtime_nsec>>]
  /\ message' = <<>> /\ pc' = "send"
  /\ UNCHANGED <<options, time, dest, run, logged, list, cur, target, calls>>

\* compare_timestamps: the sum of the two differences.  Mutant: seconds only.
CompareSeconds(a, b) == a[1] - b[1]
CompareTimestamps(a, b) == (a[1] - b[1]) + (a[2] - b[2])

Entry == list[cur]
Logs == IF options[run].log THEN logged \cup {Entry.path} ELSE logged

\* send_files goes through the two lists, if they are of the same length.
More == Len(answer) = Len(list) /\ cur \in DOMAIN list

\* send_files, an entry that is not sent.  Whatever it was, it is logged.
SendNothing ==
  /\ pc = "send" /\ More
  /\ IF Entry.path \in Dirs THEN ~Full
                            ELSE CompareTimestamps(time[Entry.path], answer[cur]) = 0
  /\ logged' = Logs /\ cur' = cur + 1
  /\ UNCHANGED <<options, time, dest, run, pc, list, answer, target, calls, message>>

\* send_file, a regular file; pst_rec_callback_filename reads its name.
SendRegular ==
  /\ pc = "send" /\ More /\ Entry.path \in Regs
  /\ CompareTimestamps(time[Entry.path], answer[cur]) # 0
  /\ target' = Base \o IF Full THEN Entry.path ELSE Trim(Entry)
  /\ pc' = "open"
  /\ logged' = Logs
  /\ UNCHANGED <<options, time, dest, run, list, answer, cur, calls, message>>

\* send_file, a directory, its whole path; pst_rec_callback_dirname.
SendDirectory ==
  /\ pc = "send" /\ More /\ Entry.path \in Dirs
  /\ Full
  /\ target' = Base \o Entry.path
  /\ calls' = <<Base \o Entry.path>>
  /\ pc' = "mkdir"
  /\ logged' = Logs
  /\ UNCHANGED <<options, time, dest, run, list, answer, cur, message>>

Complete ==
  /\ pc = "send" /\ ~ More
  /\ pc' = "done"
  /\ UNCHANGED <<options, time, dest, run, logged, list, answer, cur, target, calls, message>>

-----------------------------------------------------------------------------
(* The receiving side *)

\* Whether open with O_CREAT, or mkdir, can make an entry at p.
Above(p) == SubSeq(p, 1, Len(p) - 1)
CanCreate(p) ==
  Above(p) = <<>> \/ (IsDir(Above(p)) /\ ~dest[Above(p)].sealed)

\* pst_rec_callback_filename, open, and the rest of what is sent of the file.
CanOpen == IF target \in DOMAIN dest THEN ~IsDir(target) ELSE CanCreate(target)
Receive ==
  /\ pc \in {"open", "reopen"} /\ CanOpen
  /\ dest' = (target :> Copy(Entry.path, time[Entry.path])) @@ dest
  /\ cur' = cur + 1 /\ pc' = "send"
  /\ UNCHANGED <<options, time, run, logged, list, answer, target, calls, message>>

\* The file cannot be opened: its directories are made.
MakeParents ==
  /\ pc = "open" /\ ~CanOpen
  /\ calls' = <<GetParentDir(target)>>
  /\ pc' = "mkdir"
  /\ UNCHANGED <<options, time, dest, run, logged, list, answer, cur, target, message>>

\* After that did not help, clean_exit.
GiveUp ==
  /\ pc = "reopen" /\ ~CanOpen
  /\ pc' = "failed"
  /\ UNCHANGED <<options, time, dest, run, logged, list, answer, cur, target, calls, message>>

\* The topmost call of mkdir_parent returns.
Returned(stack) ==
  /\ calls' = Front(stack)
  /\ IF Len(stack) > 1 THEN pc' = "mkdir" /\ UNCHANGED cur
     ELSE IF Entry.path \in Dirs THEN pc' = "send" /\ cur' = cur + 1
     ELSE pc' = "reopen" /\ UNCHANGED cur

\* What is left of the calls after a directory was made: the one that made it
\* returns, and the one below it tries again.  Mutant: it returns as well.
PendingNoRetry(stack) == IF Len(stack) > 1 THEN Front(stack) ELSE stack
Pending(stack) == stack

MkdirDone ==
  /\ pc = "mkdir" /\ Last(calls) # <<>> /\ Last(calls) \notin DOMAIN dest
  /\ CanCreate(Last(calls))
  /\ dest' = (Last(calls) :> Dir) @@ dest
  /\ Returned(Pending(calls))
  /\ UNCHANGED <<options, time, run, logged, list, answer, target, message>>

\* EEXIST.
MkdirExists ==
  /\ pc = "mkdir" /\ Last(calls) \in DOMAIN dest
  /\ Returned(calls)
  /\ UNCHANGED <<options, time, dest, run, logged, list, answer, target, message>>

\* ENOENT: no name at all, or a directory on the way is missing.  mkdir_parent
\* is called for the parent, and then again for the path itself.
Missing(p) ==
  \/ p = <<>>
  \/ \E q \in {SubSeq(p, 1, n) : n \in 1 .. Len(p) - 1} :
       /\ q \notin DOMAIN dest
       /\ Len(q) = 1 \/ IsDir(Above(q))
MkdirParent ==
  /\ pc = "mkdir" /\ Last(calls) \notin DOMAIN dest /\ Missing(Last(calls))
  /\ Len(calls) <= Len(target) + 1       \* bound on the depth of the recursion
  /\ calls' = Append(calls, GetParentDir(Last(calls)))
  /\ UNCHANGED <<options, time, dest, run, logged, pc, list, answer, cur, target, message>>

\* Any other error of mkdir: clean_exit.
MkdirFails ==
  /\ pc = "mkdir" /\ Last(calls) \notin DOMAIN dest
  /\ ~Missing(Last(calls)) /\ ~CanCreate(Last(calls))
  /\ pc' = "failed"
  /\ UNCHANGED <<options, time, dest, run, logged, list, answer, cur, target, calls, message>>

Ended == {"done", "failed", "crashed"}

\* The next run, with its options.  Source files may have been changed.
Rerun ==
  /\ pc \in Ended /\ run < Len(options)
  /\ run' = run + 1
  /\ time' \in [Regs -> Times]
  /\ pc' = "start" /\ list' = <<>> /\ answer' = <<>> /\ cur' = 1 /\ target' = <<>> /\ calls' = <<>>
  /\ UNCHANGED <<options, dest, logged, message>>

Sender == ReadCheckpoint \/ BuildFullFilelist \/ SendFilelist \/ FilelistAnswer
            \/ SendNothing \/ SendRegular \/ SendDirectory \/ Complete
Receiver == Filelist \/ Receive \/ MakeParents \/ GiveUp \/ MkdirDone \/ MkdirExists
              \/ MkdirParent \/ MkdirFails

Next == Sender \/ Receiver \/ Rerun

Spec == Init /\ [][Next]_vars
\* The two programs go on; nobody has to start another run.
FairSpec == Spec /\ WF_vars(Sender) /\ WF_vars(Receiver)

-----------------------------------------------------------------------------
(* Properties *)

\* A path is where a run with these options puts a listed entry.
Destination(e) ==
  Base \o IF Full THEN e.path ELSE SubSeq(e.path, Len(e.root) + 1, Len(e.path))

\* Every variable has its type; in particular the receiving side holds
\* directories and copies with the time of a source file only.
TypeOK ==
  /\ options \in DOMAIN Trees
  /\ time \in [Regs -> Times]
  /\ \A p \in DOMAIN dest : dest[p] \in {Dir, Sealed} \/ dest[p] \in {Copy(f, t) : f \in Regs \cup {<<"other">>}, t \in Times}
  /\ run \in DOMAIN options /\ logged \subseteq Dirs \cup Regs
  /\ pc \in {"start", "list", "ask", "asked", "answered", "send", "open", "reopen", "mkdir"} \cup Ended
  /\ cur \in 1 .. Len(list) + 1 /\ Len(answer) \in {0, Len(list)}
  /\ \A i \in DOMAIN answer : answer[i] \in Times \cup {Zero}
  /\ pc = "mkdir" => calls # <<>>

\* After a run that came to its end, every regular file of the list is in its
\* place: the copy has the bytes of that file as of its present time.  With --full-root
\* every listed directory is there, empty ones too.
AllArrive ==
  pc = "done" => \A i \in DOMAIN list :
    LET e == list[i] IN
      /\ e.path \in Regs =>
           Destination(e) \in DOMAIN dest /\ dest[Destination(e)] = Copy(e.path, time[e.path])
      /\ e.path \in Dirs /\ Full => IsDir(Destination(e))

\* A run only gives up on a file if something that is not a directory is in the
\* way, a directory has its name, or nothing can be created there: never because
\* a directory has not been made yet.
FailureJustified ==
  pc = "failed" =>
    \/ IsDir(target)
    \/ \E n \in 1 .. Len(target) - 1 :
         LET p == SubSeq(target, 1, n) IN p \in DOMAIN dest /\ dest[p] # Dir

\* A file whose copy is in place is not sent again, unless with --full-root,
\* which the answer to the list knows nothing of.
UpToDateNotSent ==
  pc = "open" /\ ~Full =>
    ~(target \in DOMAIN dest /\ dest[target] = Copy(Entry.path, time[Entry.path]))

\* A step changes nothing on the receiving side but the place of a listed file
\* and missing directories above it.
KeepsTheRest ==
  [][\A p \in DOMAIN dest :
       p \notin DOMAIN dest' \/ dest'[p] # dest[p] =>
         \E i \in DOMAIN list : list[i].path \in Regs /\ p = Destination(list[i])]_vars

\* Every run comes to an end, with an exit status of its own: it does not crash,
\* and the recursion of mkdir_parent, which is cut off in MkdirParent, ends.
RunEnds == (pc = "start") ~> (pc \in {"done", "failed"})
=============================================================================
