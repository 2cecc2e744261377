------------------------------ MODULE Transfer ------------------------------
(***************************************************************************)
(* One transfer without encryption: the sending program (sender.cpp and    *)
(* the sending half of start_transfer), its pipe to the thread senddata,   *)
(* the UDT connection, the thread recvdata, its pipe to the receiving      *)
(* program (receiver.cpp), and the files on both sides.                    *)
(*                                                                         *)
(* What flows from left to right is a stream of units <<kind, value>>.  A  *)
(* message is a header unit, whose kind is the message type, and the units *)
(* of its payload: a name, a size, the packed file list, or bytes.  Bytes  *)
(* are the number of the version of the file they were read from.  The way *)
(* back carries one message that anybody reads, the answer to the file     *)
(* list; it is the variable reply.                                         *)
(***************************************************************************)
EXTENDS Integers, Sequences, FiniteSetsExt

CONSTANTS
  NF,             \* regular files in the list
  MaxVersion,     \* bound: versions a source file goes through
  Size,           \* Size[f][v]: length of version v of file f; bound: it has no more versions
  BlockLen,       \* BUFFER_LEN
  PipeCap,        \* capacity of a pipe, in units
  NetCap,         \* what UDT holds between send and recv, in units
  Faults,         \* bound: times in a run that a full pipe stays full for 100 ms,
                  \*        or that a header is read in part
  Loses,          \* TRUE: the connection may be lost
  Online,         \* TRUE: source files may change during a run
  MaxRuns         \* bound: runs of the program, each but the last one killed

Files == 1 .. NF
Versions == 1 .. MaxVersion

ASSUME CountAssumption == NF \in Nat /\ MaxVersion \in Nat \ {0} /\ MaxRuns \in Nat \ {0}
                            /\ Faults \in Nat
ASSUME SizeAssumption ==
  /\ Size \in [Files -> Seq(Nat)]
  /\ \A f \in Files : Len(Size[f]) \in Versions
ASSUME CapAssumption == {BlockLen, PipeCap, NetCap} \subseteq Nat \ {0}
ASSUME SwitchAssumption == {Loses, Online} \subseteq BOOLEAN

VARIABLES
  src,                     \* src[f]: current version of the source file, its mtime
  dst,                     \* dst[f]: [data, mtime] of the destination file
  run, logged,             \* number of this run; files in the checkpoint log
  smain, cur, off,         \* sending main: where, which file, read offset
  listed, reply,           \* mtimes in the list sent, mtimes in the answer
  sout, spipe, sexit,      \* rest of a blocked write, send_pipe, exit flag
  harmed,                  \* history: times the stream of this run was harmed
  sndpc, sbuf,             \* senddata: where, units read and not yet sent
  conn, net,               \* the connection, units in flight
  rcvpc, rbuf, rpipe,      \* recvdata: where, units to write; recv_pipe
  rexit, rleave,           \* exit flag, and whether recvdata has seen it
  rmain, header,           \* receiving main: where, last header read
  fout, rsize, total,      \* global_receive_data: open file, f_size, total
  expecting, mtime, path,  \*   expecting_data, mtime, data_path
  need, got                \* read_data: units wanted and read of the block

fileVars == <<src, dst, run, logged>>
smainVars == <<smain, cur, off, listed>>
sendVars == <<sout, harmed, spipe, sexit, sndpc, sbuf>>
netVars == <<conn, net>>
recvVars == <<rcvpc, rbuf, rpipe, rexit, rleave>>
dataVars == <<fout, rsize, total, expecting, mtime, path, need, got>>
rmainVars == <<rmain, header, dataVars>>
vars == <<fileVars, smainVars, reply, sendVars, netVars, recvVars, rmainVars>>

Absent == 0      \* mtime_sec and mtime_nsec zeroed in the answer: no such file
Now == -1        \* the receiving host's clock: the mtime of no source version
NoFile == 0
NoReply == <<>>
Hole == 0        \* a byte ftruncate64 made up

FirstOf(s, n) == SubSeq(s, 1, Min({n, Len(s)}))
Rest(s, n) == SubSeq(s, n + 1, Len(s))

Content(f, v) == [i \in 1 .. Size[f][v] |-> v]

\* nheader.
Header(type, x) == <<<<type, x>>>>

Types == {"FILELIST", "FILENAME", "F_SIZE", "DATA", "DATA_COMPLETE", "COMPLETE"}

\* Both programs are started: initialize_pipes, init_sender, init_receiver, the
\* connection is up and the two filters agree on encryption.
Started ==
  /\ smain = "list" /\ cur = 1 /\ off = 0
  /\ listed = [f \in Files |-> Absent] /\ reply = NoReply
  /\ sout = <<>> /\ spipe = <<>> /\ sexit = FALSE /\ harmed = 0
  /\ sndpc = "read" /\ sbuf = <<>>
  /\ conn = "up" /\ net = <<>>
  /\ rcvpc = "recv" /\ rbuf = <<>> /\ rpipe = <<>>
  /\ rexit = FALSE /\ rleave = FALSE
  /\ rmain = "header" /\ header = <<"none", 0>>
  /\ fout = NoFile /\ rsize = 0 /\ total = 0 /\ expecting = FALSE
  /\ mtime = Absent /\ path = NoFile /\ need = 0 /\ got = <<>>

Init ==
  /\ src = [f \in Files |-> 1]
  /\ dst = [f \in Files |-> [data |-> <<>>, mtime |-> Absent]]
  /\ run = 1 /\ logged = {}
  /\ Started

-----------------------------------------------------------------------------
(* The sending program *)

\* What the receiver is to read is not what the sender took itself to be sending:
\* a message dropped at a full pipe, a header read in part, a file changed while
\* it was being sent, something left unread at the exit.  The count ends at Faults + 1.
Harm == harmed' = Min({harmed, Faults}) + 1

\* pipe_write on send_pipe: poll for 100 ms; with no room by then the message is
\* dropped and 0 returned, which the callers add to their totals; otherwise a
\* blocking write, whose rest waits in sout.
PipeWrite(msg) ==
  \/ Len(spipe) < PipeCap /\ sout' = msg /\ UNCHANGED harmed
  \/ Len(spipe) >= PipeCap /\ (harmed < Faults \/ sndpc = "gone")
     /\ sout' = <<>> /\ Harm

\* The write in progress puts in what there is room for.
PipeRoom == PipeCap - Len(spipe)
WriteOn ==
  /\ sout # <<>> /\ PipeRoom > 0
  /\ spipe' = spipe \o FirstOf(sout, PipeRoom)
  /\ sout' = Rest(sout, PipeRoom)
  /\ UNCHANGED <<harmed, fileVars, smainVars, reply, sexit, sndpc, sbuf, netVars, recvVars, rmainVars>>

sendRest == <<spipe, sexit, sndpc, sbuf>>

\* build_full_filelist, then send_filelist.
SendFilelist ==
  /\ smain = "list" /\ sout = <<>>
  /\ listed' = src
  /\ PipeWrite(Header("FILELIST", 0) \o <<<<"list", 0>>>>)
  /\ smain' = "wait"
  /\ UNCHANGED <<fileVars, cur, off, reply, sendRest, netVars, recvVars, rmainVars>>

\* The loop of send_and_wait_for_filelist ends when the answer has come; it does
\* not look at the exit flag.
GotFilelist ==
  /\ smain = "wait" /\ sout = <<>> /\ reply # NoReply
  /\ smain' = "file"
  /\ UNCHANGED <<fileVars, cur, off, listed, reply, sendVars, netVars, recvVars, rmainVars>>

\* compare_timestamps, of the time the file had when the list was built.
SameTimestamps(f) == listed[f] = reply[f]

\* send_files: a file whose times agree is logged and not sent.
SkipFile ==
  /\ smain = "file" /\ sout = <<>> /\ cur \in Files
  /\ SameTimestamps(cur)
  /\ logged' = logged \cup {cur}
  /\ cur' = cur + 1
  /\ UNCHANGED <<src, dst, run, smain, off, listed, reply, sendVars, netVars, recvVars, rmainVars>>

\* send_file: the modification time is read again, and sent with the name.
SendFilename ==
  /\ smain = "file" /\ sout = <<>> /\ cur \in Files
  /\ ~SameTimestamps(cur)
  /\ PipeWrite(Header("FILENAME", src[cur]) \o <<<<"name", cur>>>>)
  /\ smain' = "size"
  /\ UNCHANGED <<fileVars, cur, off, listed, reply, sendRest, netVars, recvVars, rmainVars>>

\* open and fsize.
SendFSize ==
  /\ smain = "size" /\ sout = <<>>
  /\ PipeWrite(Header("F_SIZE", 0) \o <<<<"size", Size[cur][src[cur]]>>>>)
  /\ smain' = "data" /\ off' = 0
  /\ UNCHANGED <<fileVars, cur, listed, reply, sendRest, netVars, recvVars, rmainVars>>

\* One read and one XFER_DATA; the last is empty.
SendData ==
  LET n == Min({BlockLen, Max({0, Size[cur][src[cur]] - off})})
  IN /\ smain = "data" /\ sout = <<>>
     /\ PipeWrite(Header("DATA", 0) \o [i \in 1 .. n |-> <<"byte", src[cur]>>])
     /\ off' = off + n
     /\ smain' = IF n = 0 THEN "eof" ELSE "data"
     /\ UNCHANGED <<fileVars, cur, listed, reply, sendRest, netVars, recvVars, rmainVars>>

\* XFER_DATA_COMPLETE, then log_completed_file.
SendDataComplete ==
  /\ smain = "eof" /\ sout = <<>>
  /\ PipeWrite(Header("DATA_COMPLETE", 0))
  /\ logged' = logged \cup {cur}
  /\ smain' = "file" /\ cur' = cur + 1
  /\ UNCHANGED <<src, dst, run, off, listed, reply, sendRest, netVars, recvVars, rmainVars>>

\* The end of the loop of send_files.  Mutant: one file short.
ListDoneEarly == cur >= NF
ListDone == cur = NF + 1

\* complete_xfer.
SendComplete ==
  /\ smain = "file" /\ sout = <<>> /\ ListDone
  /\ PipeWrite(Header("COMPLETE", 0))
  /\ smain' = "pause"
  /\ UNCHANGED <<fileVars, cur, off, listed, reply, sendRest, netVars, recvVars, rmainVars>>

\* One millisecond later, clean_exit sets the exit flag.  Nothing waits for the
\* acknowledgement, or for what is queued.
SenderExit ==
  /\ smain = "pause" /\ sout = <<>>
  /\ smain' = "exit" /\ sexit' = TRUE
  /\ UNCHANGED <<fileVars, cur, off, listed, reply, sout, harmed, spipe, sndpc, sbuf,
                 netVars, recvVars, rmainVars>>

SenderMain == WriteOn \/ SendFilelist \/ GotFilelist \/ SkipFile \/ SendFilename
                \/ SendFSize \/ SendData \/ SendDataComplete \/ SendComplete \/ SenderExit

-----------------------------------------------------------------------------
(* The threads that move the stream *)

\* senddata reads all there is in the pipe.
SndRead ==
  /\ sndpc = "read"
  /\ sbuf' = spipe /\ spipe' = <<>>
  /\ sndpc' = "send"
  /\ UNCHANGED <<fileVars, smainVars, reply, sout, harmed, sexit, netVars, recvVars, rmainVars>>

\* UDT::send takes what there is room for, or fails and ends the thread.
NetRoom == NetCap - Len(net)
SndSend ==
  /\ sndpc = "send" /\ sbuf # <<>>
  /\ \/ /\ conn = "up" /\ NetRoom > 0
        /\ net' = net \o FirstOf(sbuf, NetRoom)
        /\ sbuf' = Rest(sbuf, NetRoom)
        /\ UNCHANGED sndpc
     \/ /\ conn # "up"
        /\ sbuf' = <<>> /\ sndpc' = "gone"
        /\ UNCHANGED net
  /\ UNCHANGED <<fileVars, smainVars, reply, sout, harmed, spipe, sexit, conn, recvVars, rmainVars>>

\* check_for_exit, once the batch is sent.  What is in the pipe by then stays there.
SndCheck ==
  /\ sndpc = "send" /\ sbuf = <<>>
  /\ sndpc' = IF sexit THEN "gone" ELSE "read"
  /\ IF sexit /\ spipe # <<>> THEN Harm ELSE UNCHANGED harmed
  /\ UNCHANGED <<fileVars, smainVars, reply, sout, spipe, sexit, sbuf, netVars, recvVars, rmainVars>>

\* senddata sleeps a second; run_client joins it and closes the socket, which
\* lingers until the peer has what was sent.
SndClose ==
  /\ sndpc = "gone" /\ conn = "up"
  /\ conn' = "closed"
  /\ UNCHANGED <<fileVars, smainVars, reply, sendVars, net, recvVars, rmainVars>>

\* recvdata on the sending side meets the loss and sets the exit flag.
SenderSeesLoss ==
  /\ conn \in {"lost", "shut"} /\ ~sexit
  /\ sexit' = TRUE
  /\ UNCHANGED <<fileVars, smainVars, reply, sout, harmed, spipe, sndpc, sbuf, netVars, recvVars, rmainVars>>

\* recvdata: UDT::recv returns some of what has arrived.
RcvRecv ==
  /\ rcvpc = "recv" /\ net # <<>>
  /\ \E n \in 1 .. Len(net) : rbuf' = FirstOf(net, n) /\ net' = Rest(net, n)
  /\ rleave' = rexit
  /\ rcvpc' = "poll"
  /\ UNCHANGED <<fileVars, smainVars, reply, sendVars, conn, rpipe, rexit, rmainVars>>

\* The loop of recvdata goes on, or ends with set_thread_exit.
RcvNext == IF rleave THEN "gone" ELSE "recv"

\* pipe_write on recv_pipe, like PipeWrite and WriteOn.
RcvRoom == PipeCap - Len(rpipe)
RcvWrite ==
  /\ rcvpc \in {"poll", "write"} /\ RcvRoom > 0
  /\ rpipe' = rpipe \o FirstOf(rbuf, RcvRoom)
  /\ rbuf' = Rest(rbuf, RcvRoom)
  /\ rcvpc' = IF rbuf' = <<>> THEN RcvNext ELSE "write"
  /\ UNCHANGED <<fileVars, smainVars, reply, sendVars, netVars, rexit, rleave, rmainVars>>

RcvDrop ==
  /\ rcvpc = "poll" /\ RcvRoom <= 0
  /\ harmed < Faults \/ rmain \in {"done", "failed"}
  /\ rbuf' = <<>> /\ Harm
  /\ rcvpc' = RcvNext
  /\ UNCHANGED <<fileVars, smainVars, reply, sout, sendRest, netVars, rpipe, rexit, rleave, rmainVars>>

\* ECONNLOST: nothing left to receive on a connection that is no more.
RcvLost ==
  /\ rcvpc = "recv" /\ net = <<>> /\ conn # "up"
  /\ rcvpc' = "gone" /\ rexit' = TRUE
  /\ UNCHANGED <<fileVars, smainVars, reply, sendVars, netVars, rbuf, rpipe, rleave, rmainVars>>

\* With the exit flag up, the senddata of the receiving side leaves and
\* run_server closes the socket.
RcvClose ==
  /\ rexit /\ conn = "up"
  /\ conn' = "shut" /\ net' = <<>>
  /\ UNCHANGED <<fileVars, smainVars, reply, sendVars, recvVars, rmainVars>>

Threads == SndRead \/ SndSend \/ SndCheck \/ SndClose \/ SenderSeesLoss
             \/ RcvRecv \/ RcvWrite \/ RcvDrop \/ RcvLost \/ RcvClose

-----------------------------------------------------------------------------
(* The receiving program: receive_files and its callbacks *)

recvRest == <<rcvpc, rbuf, rexit, rleave>>

\* read_header is one read of what the pipe holds.  An empty pipe dispatches
\* nothing.  What a program does once it takes a payload for a header, or the
\* reverse, depends on the bytes of the files; the model stops there, at "desync".
ReadHeader ==
  /\ rmain = "header" /\ rpipe # <<>>
  /\ header' = rpipe[1]
  /\ rmain' = IF rpipe[1][1] \in Types THEN rpipe[1][1] ELSE "desync"
  /\ rpipe' = Tail(rpipe)
  /\ UNCHANGED <<fileVars, smainVars, reply, sendVars, netVars, recvRest, dataVars>>

\* Only a part of the header has come when it is read, and its callback is called all
\* the same.  The type is the last field of a header_t and stays what it was, the time
\* may be new; before the first header the type is anything.  The rest comes later.
CutHeader ==
  /\ rmain = "header" /\ Len(rpipe) = 1 /\ rpipe[1][1] \in Types
  /\ harmed < Faults /\ Harm
  /\ header' \in {header, <<header[1], rpipe[1][2]>>}
  /\ rmain' \in IF header[1] \in Types THEN {header[1]} ELSE Types \cup {"failed"}
  /\ rpipe' = <<<<"tail", 0>>>>
  /\ UNCHANGED <<fileVars, smainVars, reply, sout, sendRest, netVars, recvRest, dataVars>>

NoHeader ==
  /\ rmain = "header" /\ rpipe = <<>>
  /\ rmain' = "check"
  /\ UNCHANGED <<fileVars, smainVars, reply, sendVars, netVars, recvVars, header, dataVars>>

\* check_for_exit at the end of the loop.  What is in the pipe by then stays there.
RcvCheck ==
  /\ rmain = "check"
  /\ rmain' = IF rexit THEN "done" ELSE "header"
  /\ IF rexit /\ rpipe # <<>> THEN Harm ELSE UNCHANGED harmed
  /\ UNCHANGED <<fileVars, smainVars, reply, sout, sendRest, netVars, recvVars, header, dataVars>>

\* The payload of one unit that each of these messages has.
Payload == [FILELIST |-> "list", FILENAME |-> "name", F_SIZE |-> "size"]
PayloadRead(type) == rmain = type /\ rpipe # <<>> /\ Head(rpipe)[1] = Payload[type]

\* The answer is made of the times the files have now, zero for those that are
\* not there.  Mutant: none is sent if none is there.
Found == [f \in Files |-> dst[f].mtime]
AnswerIfAny == IF \A f \in Files : Found[f] = Absent THEN NoReply ELSE Found
Answer == Found

\* pst_rec_callback_filelist.
RcvFilelist ==
  /\ PayloadRead("FILELIST")
  /\ rpipe' = Tail(rpipe)
  /\ reply' = IF conn = "up" THEN Answer ELSE NoReply
  /\ rmain' = "check"
  /\ UNCHANGED <<fileVars, smainVars, sendVars, netVars, recvRest, header, dataVars>>

\* open with O_CREAT.  Mutant: set_mod_time is called here.
OpenedTimeEarly(f) == header[2]
OpenedTime(f) == IF dst[f].mtime = Absent THEN Now ELSE dst[f].mtime

\* pst_rec_callback_filename: the time is kept for later; the file is created if
\* need be, and what it holds is not cut off.
RcvFilename ==
  /\ PayloadRead("FILENAME")
  /\ LET f == Head(rpipe)[2]
     IN /\ mtime' = header[2]
        /\ path' = f /\ fout' = f
        /\ dst' = [dst EXCEPT ![f].mtime = OpenedTime(f)]
  /\ rpipe' = Tail(rpipe)
  /\ rmain' = "check"
  /\ UNCHANGED <<src, run, logged, smainVars, reply, sendVars, netVars, recvRest, header,
                 rsize, total, expecting, need, got>>

\* What has been received of the new file.
NewTotal == 0

\* pst_rec_callback_f_size.
RcvFSize ==
  /\ PayloadRead("F_SIZE")
  /\ rsize' = Head(rpipe)[2] /\ total' = NewTotal /\ expecting' = TRUE
  /\ rpipe' = Tail(rpipe)
  /\ rmain' = "check"
  /\ UNCHANGED <<fileVars, smainVars, reply, sendVars, netVars, recvRest, header,
                 fout, mtime, path, need, got>>

\* pst_rec_callback_data: what to read is computed, data_len is not looked at.
\* Mutant: a whole block is read whatever remains of the file.
BlockWhole == BlockLen
BlockWanted == Min({BlockLen, rsize - total})
RcvData ==
  /\ rmain = "DATA"
  /\ rmain' = IF expecting THEN "block" ELSE "failed"
  /\ need' = IF expecting THEN BlockWanted ELSE 0
  /\ got' = <<>>
  /\ UNCHANGED <<fileVars, smainVars, reply, sendVars, netVars, recvVars, header,
                 fout, rsize, total, expecting, mtime, path>>

\* read_data of a block: whatever the pipe holds of it, without looking at the
\* exit flag.
ReadBlock ==
  /\ rmain = "block" /\ Len(got) < need /\ rpipe # <<>>
  /\ LET part == FirstOf(rpipe, need - Len(got))
         inSync == \A i \in DOMAIN part : part[i][1] = "byte"
     IN /\ got' = IF inSync THEN got \o [i \in DOMAIN part |-> part[i][2]] ELSE <<>>
        /\ rmain' = IF inSync THEN "block" ELSE "desync"
  /\ rpipe' = Rest(rpipe, need - Len(got))
  /\ UNCHANGED <<fileVars, smainVars, reply, sendVars, netVars, recvRest, header,
                 fout, rsize, total, expecting, mtime, path, need>>

\* data with the bytes new written from offset at on.
Overwrite(data, at, new) ==
  [i \in 1 .. Max({Len(data), at + Len(new)}) |->
     IF i \in at + 1 .. at + Len(new) THEN new[i - at] ELSE IF i <= Len(data) THEN data[i] ELSE Hole]

\* The block is written where the last one ended.  The kernel sets the time, if
\* anything is written at all.
WriteBlock ==
  /\ rmain = "block" /\ Len(got) = need
  /\ rmain' = IF fout = NoFile THEN "failed" ELSE "check"
  /\ dst' = IF fout = NoFile \/ need = 0 THEN dst
            ELSE [dst EXCEPT ![fout] = [data |-> Overwrite(@.data, total, got), mtime |-> Now]]
  /\ total' = total + need
  /\ need' = 0 /\ got' = <<>>
  /\ UNCHANGED <<src, run, logged, smainVars, reply, sendVars, netVars, recvVars, header,
                 fout, rsize, expecting, mtime, path>>

\* ftruncate64.  Mutant: left out.
TruncateNot(data, n) == data
Truncate(data, n) ==
  [i \in 1 .. n |-> IF i <= Len(data) THEN data[i] ELSE Hole]

\* pst_rec_callback_data_complete: a file that is not full only draws a warning;
\* it is cut or stretched to f_size and given the time of its source.
RcvDataComplete ==
  /\ rmain = "DATA_COMPLETE"
  /\ IF fout = NoFile
       THEN rmain' = "failed" /\ UNCHANGED <<dst, fout, rsize, expecting>>
       ELSE /\ dst' = [[dst EXCEPT ![fout].data = Truncate(@, rsize)] EXCEPT ![path].mtime = mtime]
            /\ rsize' = 0 /\ expecting' = FALSE /\ fout' = NoFile
            /\ rmain' = "check"
  /\ UNCHANGED <<src, run, logged, smainVars, reply, sendVars, netVars, recvVars, header,
                 total, mtime, path, need, got>>

\* pst_rec_callback_complete.
RcvComplete ==
  /\ rmain = "COMPLETE"
  /\ rmain' = "done"
  /\ UNCHANGED <<fileVars, smainVars, reply, sendVars, netVars, recvVars, header, dataVars>>

Desync ==
  /\ rmain \in DOMAIN Payload /\ rpipe # <<>> /\ Head(rpipe)[1] # Payload[rmain]
  /\ rmain' = "desync"
  /\ UNCHANGED <<fileVars, smainVars, reply, sendVars, netVars, recvVars, header, dataVars>>

\* clean_exit, at the end or from a callback.
ReceiverExit ==
  /\ rmain \in {"done", "failed"} /\ ~rexit
  /\ rexit' = TRUE
  /\ UNCHANGED <<fileVars, smainVars, reply, sendVars, netVars, rcvpc, rbuf, rpipe, rleave, rmainVars>>

ReceiverMain == ReadHeader \/ CutHeader \/ NoHeader \/ RcvCheck
                  \/ RcvFilelist \/ RcvFilename \/ RcvFSize
                  \/ RcvData \/ ReadBlock \/ WriteBlock \/ RcvDataComplete \/ RcvComplete
                  \/ Desync \/ ReceiverExit

-----------------------------------------------------------------------------
(* The environment *)

\* The source file is given new content, which changes its time.
Edit(f) ==
  /\ Online \/ smain = "list"
  /\ src[f] < Len(Size[f])
  /\ src' = [src EXCEPT ![f] = @ + 1]
  /\ IF smain = "data" /\ f = cur THEN Harm ELSE UNCHANGED harmed
  /\ UNCHANGED <<dst, run, logged, smainVars, reply, sout, sendRest, netVars, recvVars, rmainVars>>

\* The connection breaks; some of what was in flight, and perhaps the answer,
\* does not arrive.
Lose ==
  /\ Loses /\ conn = "up"
  /\ conn' = "lost"
  /\ \E n \in 0 .. Len(net) : net' = FirstOf(net, n)
  /\ reply' \in IF smain = "wait" THEN {reply, NoReply} ELSE {reply}
  /\ UNCHANGED <<fileVars, smainVars, sendVars, recvVars, rmainVars>>

\* Both programs are killed, or have ended, and the same command is given again.
Rerun ==
  /\ run < MaxRuns
  /\ run' = run + 1
  /\ smain' = "list" /\ cur' = 1 /\ off' = 0
  /\ listed' = [f \in Files |-> Absent] /\ reply' = NoReply
  /\ sout' = <<>> /\ spipe' = <<>> /\ sexit' = FALSE /\ harmed' = 0
  /\ sndpc' = "read" /\ sbuf' = <<>>
  /\ conn' = "up" /\ net' = <<>>
  /\ rcvpc' = "recv" /\ rbuf' = <<>> /\ rpipe' = <<>>
  /\ rexit' = FALSE /\ rleave' = FALSE
  /\ rmain' = "header" /\ header' = <<"none", 0>>
  /\ fout' = NoFile /\ rsize' = 0 /\ total' = 0 /\ expecting' = FALSE
  /\ mtime' = Absent /\ path' = NoFile /\ need' = 0 /\ got' = <<>>
  /\ UNCHANGED <<src, dst, logged>>

Next ==
  \/ SenderMain \/ Threads \/ ReceiverMain
  \/ \E f \in Files : Edit(f)
  \/ Lose \/ Rerun

Spec == Init /\ [][Next]_vars

\* Every thread is scheduled; nobody has to edit, cut the line or rerun.
Fairness ==
  /\ WF_vars(SenderMain) /\ WF_vars(ReceiverMain)
  /\ WF_vars(SndRead \/ SndSend \/ SndCheck \/ SndClose)
  /\ WF_vars(SenderSeesLoss)
  /\ WF_vars(RcvRecv \/ RcvWrite \/ RcvDrop \/ RcvLost) /\ WF_vars(RcvClose)

FairSpec == Spec /\ Fairness

-----------------------------------------------------------------------------
(* Properties *)

Kinds == Types \cup {"none", "tail", "list", "name", "size", "byte"}
Stream == Seq(Kinds \X Nat)

\* Every variable has its type; in particular pipes and network stay within their
\* capacity and a receiver never wants a negative number of bytes.
TypeOK ==
  /\ src \in [Files -> Versions] /\ harmed \in 0 .. Faults + 1
  /\ dst \in [Files -> [data : Seq(Versions \cup {Hole}), mtime : Versions \cup {Absent, Now}]]
  /\ run \in 1 .. MaxRuns /\ logged \subseteq Files
  /\ smain \in {"list", "wait", "file", "size", "data", "eof", "pause", "exit"}
  /\ cur \in 1 .. NF + 1 /\ off \in Nat
  /\ listed \in [Files -> Versions \cup {Absent}]
  /\ reply = NoReply \/ reply \in [Files -> Versions \cup {Absent, Now}]
  /\ {sout, spipe, sbuf, net, rbuf, rpipe} \subseteq Stream
  /\ Len(spipe) <= PipeCap /\ Len(net) <= NetCap /\ Len(rpipe) <= PipeCap
  /\ {sexit, rexit, rleave, expecting} \subseteq BOOLEAN
  /\ sndpc \in {"read", "send", "gone"} /\ rcvpc \in {"recv", "poll", "write", "gone"}
  /\ conn \in {"up", "closed", "lost", "shut"}
  /\ rmain \in Types \cup {"header", "check", "block", "done", "failed", "desync"}
  /\ header \in Kinds \X Nat
  /\ fout \in Files \cup {NoFile} /\ path \in Files \cup {NoFile}
  /\ rsize \in Nat /\ total \in Nat /\ need \in Nat /\ got \in Seq(Versions)
  /\ mtime \in Versions \cup {Absent}

\* A destination file that carries the time of the present source holds its
\* content: the next run, which skips it, loses nothing.
MtimeImpliesContent ==
  \A f \in Files : dst[f].mtime = src[f] => dst[f].data = Content(f, src[f])

\* The receiver takes a payload for a header or the reverse only if a message has
\* been dropped at a full pipe, a header been read in part or a file been changed
\* after its size was announced.
InSync == rmain = "desync" => harmed > 0

\* When the receiver ends its loop, every file is there as it was when the list was
\* made or newer, unless the connection was lost or the stream harmed; an exit flag
\* that overtakes what is queued harms it.
AllDelivered ==
  rmain = "done" /\ conn # "lost" /\ harmed = 0 =>
    smain # "list" /\ \A f \in Files : dst[f].mtime >= listed[f]

\* Both programs come to their end, unless the stream is harmed.
TransferEnds == <>(harmed > 0 \/ (smain = "exit" /\ rmain \in {"done", "failed"}))

\* Whatever happens, the files change as SyncService says: a time is claimed for a
\* file only when it holds all the bytes of that version, or some later edit made
\* the claim obsolete.
\* The transfer as seen from the files.
Sync == INSTANCE SyncService WITH
          data <- [f \in Files |-> dst[f].data],
          claim <- [f \in Files |-> IF dst[f].mtime = Now THEN Absent ELSE dst[f].mtime]

ImplementsSync == Sync!Spec
=============================================================================
