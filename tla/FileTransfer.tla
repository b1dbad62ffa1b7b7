---------------------------- MODULE FileTransfer ----------------------------
(***************************************************************************)
(* File send and file receive (file-send.cpp, file-receive.cpp) over one   *)
(* SRT connection in file mode with the message API: reliable, in order,   *)
(* one message per write.                                                  *)
(*                                                                         *)
(* The sender reads each file in chunks into a buffer of Seg bytes and     *)
(* writes one segment per chunk.  Byte 1 of a segment holds the flags      *)
(* (1 = first segment of a file, 2 = end of file); the first segment also  *)
(* carries the NUL-terminated upload name.  The receiver parses the flags, *)
(* opens the named file on a first segment, appends the payload and closes *)
(* the file on end of file.  Each side runs a stats thread that loops      *)
(* until force_break or its localBreak flag is set.                        *)
(*                                                                         *)
(* Bytes are integers: 0 is the NUL, a name character of file i is        *)
(* 100 + i, and payload byte k of a file is k, so a file's content is      *)
(* 1..size.  The model starts once connection.get() has returned a socket *)
(* on both sides and both stats threads have been started.                 *)
(***************************************************************************)
EXTENDS Naturals, Sequences, SequencesExt

CONSTANTS
    Seg,       \* cfg.segmentSize: the buffer of both sides, in bytes
    Files,     \* the files to send, in order: [nameLen, size] each
    StatsOn,   \* the sides whose stats thread writes a stats file
    MaxPeriods \* bound on the stats periods explored

Sides == {"snd", "rcv"}

ASSUME /\ Seg \in Nat \ {0}
       /\ Files # <<>>
       /\ \A i \in DOMAIN Files : Files[i].nameLen + 2 <= Seg
       /\ StatsOn \subseteq Sides
       /\ MaxPeriods \in Nat

N == Len(Files)
MaxSize == Max({Files[i].size : i \in 1..N})

\* The upload name of file i and its content.
Name(i)    == [j \in 1..Files[i].nameLen |-> 100 + i]
Content(i) == [k \in 1..Files[i].size |-> k]

VARIABLES
    sPc,        \* sender: where startFileSender / sendFile is
    fi,         \* sender: index of the file being sent
    off,        \* sender: bytes of that file already written
    hdr,        \* sender: hdrSize
    rPc,        \* receiver: where startFileReceiver / receiveFiles is
    ofs,        \* receiver: the ofstream: unopened, open, closed or bad
    cur,        \* receiver: the file the ofstream was last opened for
    rcvd,       \* receiver: rcvd[i] is what it has written to file i
    link,       \* segments written and not yet delivered
    rbuf,       \* segments delivered to the receiver and not yet read
    conn,       \* the connection: "up" or "broken"
    sOpen,      \* the sender's socket is not yet closed
    rOpen,      \* the receiver's socket is not yet closed
    stats,      \* stats[s]: the stats thread of side s is running or ended
    periods,    \* periods[s]: stats periods side s has slept through
    samples,    \* samples[s]: rows of counters written to its stats file
    localBreak, \* localBreak[s]
    forceBreak

statsVars == <<stats, periods, samples>>
vars == <<sPc, fi, off, hdr, rPc, ofs, cur, rcvd, link, rbuf, conn, sOpen,
          rOpen, statsVars, localBreak, forceBreak>>
sender   == <<sPc, fi, off, hdr>>
receiver == <<rPc, ofs, cur, rcvd>>

Init ==
    /\ sPc = "open" /\ fi = 1 /\ off = 0 /\ hdr = 1
    /\ rPc = "top" /\ ofs = "unopened" /\ cur = 0
    /\ rcvd = [i \in 1..N |-> <<>>]
    /\ link = <<>> /\ rbuf = <<>> /\ conn = "up"
    /\ sOpen = TRUE /\ rOpen = TRUE
    /\ stats = [s \in Sides |-> IF s \in StatsOn THEN "running" ELSE "ended"]
    /\ periods = [s \in Sides |-> 0] /\ samples = [s \in Sides |-> 0]
    /\ localBreak = [s \in Sides |-> FALSE]
    /\ forceBreak = FALSE

-----------------------------------------------------------------------------
(* Sender                                                                  *)

\* The segment sendFile writes: the flag byte, the name and its NUL while
\* hdrSize > 1, then n payload bytes read at offset o.
Segment(i, o, h, n, eof) ==
    << (IF eof THEN 2 ELSE 0) + (IF h > 1 THEN 1 ELSE 0) >>
    \o (IF h > 1 THEN Name(i) \o <<0>> ELSE <<>>)
    \o SubSeq(Content(i), o + 1, o + n)

\* ifile.read(buf + hdrSize, buf.size() - hdrSize): gcount and eof().
Chunk  == Min({Files[fi].size - off, Seg - hdr})
AtEof  == Files[fi].size - off < Seg - hdr

\* Variant: the next iteration reopens the same file.
NextFileRepeat ==
    IF forceBreak \/ fi = N
    THEN sPc' = "drain" /\ UNCHANGED fi
    ELSE sPc' = "open" /\ UNCHANGED fi

\* After a file: break on force_break or after the last file, else go on.
NextFile ==
    IF forceBreak \/ fi = N
    THEN sPc' = "drain" /\ UNCHANGED fi
    ELSE sPc' = "open" /\ fi' = fi + 1

\* sendFile opens the file and formats the header (snprintf + 2); a file
\* that cannot be opened makes sendFile return false, which ends the loop.
SOpen ==
    /\ sPc = "open"
    /\ \/ /\ sPc' = "read" /\ off' = 0 /\ hdr' = Files[fi].nameLen + 2
       \/ /\ sPc' = "drain" /\ UNCHANGED <<off, hdr>>
    /\ UNCHANGED <<fi, receiver, link, rbuf, conn, sOpen, rOpen, statsVars,
                   localBreak, forceBreak>>

\* while (!forceBreak): sendFile returns true, and the caller breaks.
SStop ==
    /\ sPc = "read" /\ forceBreak
    /\ sPc' = "drain"
    /\ UNCHANGED <<fi, off, hdr, receiver, link, rbuf, conn, sOpen, rOpen,
                   statsVars, localBreak, forceBreak>>

\* A read that ignores the header: buf.size() - 1 bytes after the flags.
SWriteOverrun ==
    /\ sPc = "read" /\ ~forceBreak
    /\ Chunk > 0 /\ conn = "up" /\ rOpen
    /\ LET n   == Min({Files[fi].size - off, Seg - 1})
           eof == Files[fi].size - off < Seg - 1
       IN  /\ link' = Append(link, Segment(fi, off, hdr, n, eof))
           /\ off' = off + n /\ hdr' = 1
           /\ IF eof THEN NextFile ELSE UNCHANGED <<sPc, fi>>
    /\ UNCHANGED <<receiver, rbuf, conn, sOpen, rOpen, statsVars, localBreak,
                   forceBreak>>

\* One pass of the loop with data: the blocking write sends the whole
\* segment; then hdrSize = 1, and end of file ends sendFile.
SWrite ==
    /\ sPc = "read" /\ ~forceBreak
    /\ Chunk > 0 /\ conn = "up" /\ rOpen
    /\ link' = Append(link, Segment(fi, off, hdr, Chunk, AtEof))
    /\ off' = off + Chunk /\ hdr' = 1
    /\ IF AtEof THEN NextFile ELSE UNCHANGED <<sPc, fi>>
    /\ UNCHANGED <<receiver, rbuf, conn, sOpen, rOpen, statsVars, localBreak,
                   forceBreak>>

\* The write throws (write::send) once the connection is gone.  Unwinding
\* destroys dstSock, which closes the socket, and then the stats future,
\* whose destructor waits for the stats thread.
SWriteThrows ==
    /\ sPc = "read" /\ ~forceBreak
    /\ Chunk > 0 /\ (conn = "broken" \/ ~rOpen)
    /\ sPc' = "unwind" /\ sOpen' = FALSE
    /\ UNCHANGED <<fi, off, hdr, receiver, link, rbuf, conn, rOpen, statsVars,
                   localBreak, forceBreak>>

\* No payload: at end of file nothing is written (an empty file, or one
\* whose size is a multiple of the chunk); otherwise the loop reads again.
SNoData ==
    /\ sPc = "read" /\ ~forceBreak
    /\ Chunk = 0
    /\ IF AtEof THEN NextFile ELSE UNCHANGED <<sPc, fi>>
    /\ UNCHANGED <<off, hdr, receiver, link, rbuf, conn, sOpen, rOpen, statsVars,
                   localBreak, forceBreak>>

\* Variant: the sender stops without waiting for its send buffer.
DrainSkipped ==
    /\ sPc = "drain"
    /\ sPc' = "waitStats"
    /\ localBreak' = [localBreak EXCEPT !["snd"] = TRUE]
    /\ UNCHANGED <<fi, off, hdr, receiver, link, rbuf, conn, sOpen, rOpen,
                   statsVars, forceBreak>>

\* srt_getsndbuffer until no block is left or the call fails; then
\* localBreak = true.
SDrain ==
    /\ sPc = "drain"
    /\ link = <<>> \/ conn = "broken" \/ ~rOpen
    /\ sPc' = "waitStats"
    /\ localBreak' = [localBreak EXCEPT !["snd"] = TRUE]
    /\ UNCHANGED <<fi, off, hdr, receiver, link, rbuf, conn, sOpen, rOpen,
                   statsVars, forceBreak>>

\* statsLogger.wait(), then the return destroys dstSock: srt_close.
SJoin ==
    /\ sPc = "waitStats" /\ stats["snd"] = "ended"
    /\ sPc' = "done" /\ sOpen' = FALSE
    /\ UNCHANGED <<fi, off, hdr, receiver, link, rbuf, conn, rOpen, statsVars,
                   localBreak, forceBreak>>

\* The stats future is destroyed; run's catch prints the exception.
SUnwind ==
    /\ sPc = "unwind" /\ stats["snd"] = "ended"
    /\ sPc' = "done"
    /\ UNCHANGED <<fi, off, hdr, receiver, link, rbuf, conn, sOpen, rOpen,
                   statsVars, localBreak, forceBreak>>

Sender ==
    SOpen \/ SStop \/ SWrite \/ SWriteThrows \/ SNoData \/ SDrain \/ SJoin
    \/ SUnwind

-----------------------------------------------------------------------------
(* Receiver                                                                *)

\* string(buf.data() + 1): the bytes after the flags up to the first NUL.
NameIn(m) ==
    LET z == CHOOSE k \in 2..Len(m) : m[k] = 0 /\ \A j \in 2..k-1 : m[j] # 0
    IN  SubSeq(m, 2, z - 1)

FileNamed(nm) == CHOOSE i \in 1..N : Name(i) = nm

\* A receiver that takes the NUL after the name as payload.
HeaderLenNoNul(m, first) == IF first THEN 1 + Len(NameIn(m)) ELSE 1

\* The header size the receiver computes: the flags, and on a first
\* segment the name and its NUL.
HeaderLen(m, first) == IF first THEN 1 + Len(NameIn(m)) + 1 ELSE 1

\* while (!forceBreak)
RTop ==
    /\ rPc = "top"
    /\ rPc' = IF forceBreak THEN "finish" ELSE "read"
    /\ UNCHANGED <<sender, ofs, cur, rcvd, link, rbuf, conn, sOpen, rOpen,
                   statsVars, localBreak, forceBreak>>

\* One message read with read(-1) and handled: on a first segment the open
\* file is closed and the named one created (truncating); a stream that
\* has failed skips the payload; the payload is written, and end of file
\* closes the stream.  Failing to create the folders or the file ends
\* receiveFiles.
RRead ==
    /\ rPc = "read" /\ rbuf # <<>>
    /\ rbuf' = Tail(rbuf)
    /\ LET m     == Head(rbuf)
           first == m[1] % 2 = 1
           eof   == (m[1] \div 2) % 2 = 1
           f     == IF first THEN FileNamed(NameIn(m)) ELSE cur
           s0    == IF first THEN "open" ELSE ofs
           data  == SubSeq(m, HeaderLen(m, first) + 1, Len(m))
           r0    == IF first THEN [rcvd EXCEPT ![f] = <<>>] ELSE rcvd
       IN  \/ /\ first
              /\ rPc' = "finish" /\ ofs' = "bad"
              /\ UNCHANGED <<cur, rcvd>>
           \/ /\ rPc' = "top" /\ cur' = f
              /\ CASE s0 = "bad"  -> ofs' = "bad" /\ rcvd' = r0
                   [] s0 = "open" -> /\ rcvd' = [r0 EXCEPT ![f] = @ \o data]
                                     /\ ofs' = IF eof THEN "closed" ELSE "open"
                   [] OTHER       -> ofs' = "bad" /\ rcvd' = r0
    /\ UNCHANGED <<sender, link, conn, sOpen, rOpen, statsVars, localBreak,
                   forceBreak>>

\* read throws (read::recv) once the sender has closed or the connection
\* broke and nothing is left to read: unwinding destroys the stats future,
\* whose destructor waits for the stats thread; localBreak stays false.
RThrows ==
    /\ rPc = "read" /\ rbuf = <<>>
    /\ ~sOpen \/ conn = "broken"
    /\ rPc' = "unwind"
    /\ UNCHANGED <<ofs, cur, rcvd, sender, link, rbuf, conn, sOpen, rOpen,
                   statsVars, localBreak, forceBreak>>

\* receiveFiles returned: localBreak = true.
RFinish ==
    /\ rPc = "finish"
    /\ rPc' = "waitStats"
    /\ localBreak' = [localBreak EXCEPT !["rcv"] = TRUE]
    /\ UNCHANGED <<ofs, cur, rcvd, sender, link, rbuf, conn, sOpen, rOpen,
                   statsVars, forceBreak>>

\* statsLogger.wait() or the future's destructor returns; run returns and
\* the socket is closed.
RJoin ==
    /\ rPc \in {"waitStats", "unwind"} /\ stats["rcv"] = "ended"
    /\ rPc' = "done" /\ rOpen' = FALSE
    /\ UNCHANGED <<ofs, cur, rcvd, sender, link, rbuf, conn, sOpen, statsVars,
                   localBreak, forceBreak>>

Receiver == RTop \/ RRead \/ RThrows \/ RFinish \/ RJoin

\* statsFunc: while (!forceBreak && !localBreak) { sleep; write stats }.
StatsExit(s) ==
    /\ stats[s] = "running"
    /\ forceBreak \/ localBreak[s]
    /\ stats' = [stats EXCEPT ![s] = "ended"]
    /\ UNCHANGED <<sender, receiver, link, rbuf, conn, sOpen, rOpen,
                   periods, samples, localBreak, forceBreak>>

\* get_statistics returns a row of counters only when print_header is
\* false; with it, the CSV header alone (stats_to_csv) or, for JSON, an
\* empty string.  statsFunc's printHeader is true for the first call only.
RowWritten(s) == periods[s] > 0

\* One period: sleep_for(interval), then getStatistics(format, printHeader)
\* on a socket its own side has not closed.  get_statistics first calls
\* srt_bstats with clear = true, which resets the interval counters, and
\* then writes what it returns.  MaxPeriods bounds the periods explored;
\* past it the thread only waits for a way out.
StatsPeriod(s) ==
    /\ stats[s] = "running" /\ ~forceBreak /\ ~localBreak[s]
    /\ IF s = "snd" THEN sOpen ELSE rOpen
    /\ periods[s] < MaxPeriods
    /\ periods' = [periods EXCEPT ![s] = @ + 1]
    /\ samples' = [samples EXCEPT ![s] = IF RowWritten(s) THEN @ + 1 ELSE @]
    /\ UNCHANGED <<sender, receiver, link, rbuf, conn, sOpen, rOpen, stats,
                   localBreak, forceBreak>>

\* The socket the stats thread samples is closed, or broken (SRT closes a
\* broken socket itself): srt_bstats fails.
LinkDown == conn = "broken" \/ ~sOpen \/ ~rOpen

\* Variant: a failing getStatistics is caught inside the loop.
StatsErrorSwallowed(s) ==
    /\ stats[s] = "running" /\ LinkDown
    /\ UNCHANGED vars

\* getStatistics throws (raise_exception "statistics"): the exception
\* leaves statsFunc and is stored in the future, and the thread ends.
StatsFails(s) ==
    /\ stats[s] = "running" /\ LinkDown
    /\ stats' = [stats EXCEPT ![s] = "ended"]
    /\ UNCHANGED <<sender, receiver, link, rbuf, conn, sOpen, rOpen,
                   periods, samples, localBreak, forceBreak>>

StatsThread(s) == StatsExit(s) \/ StatsPeriod(s) \/ StatsFails(s)

-----------------------------------------------------------------------------
(* Environment: the network and the signal handler                         *)

\* SRT delivers a segment while both sockets are open.
Deliver ==
    /\ link # <<>> /\ conn = "up" /\ sOpen /\ rOpen
    /\ rbuf' = Append(rbuf, Head(link))
    /\ link' = Tail(link)
    /\ UNCHANGED <<sender, receiver, conn, sOpen, rOpen, statsVars, localBreak,
                   forceBreak>>

\* The connection breaks; what is in flight is lost.
Break ==
    /\ conn = "up"
    /\ conn' = "broken" /\ link' = <<>>
    /\ UNCHANGED <<sender, receiver, rbuf, sOpen, rOpen, statsVars, localBreak,
                   forceBreak>>

Cancel ==
    /\ ~forceBreak
    /\ forceBreak' = TRUE
    /\ UNCHANGED <<sender, receiver, link, rbuf, conn, sOpen, rOpen, statsVars,
                   localBreak>>

Next ==
    \/ Sender \/ Receiver \/ \E s \in Sides : StatsThread(s)
    \/ Deliver \/ Break \/ Cancel

\* Both programs' threads are weakly fair, and SRT delivers what is in
\* flight while the connection is up.  A break and force_break are not.
Fairness ==
    /\ WF_vars(Sender) /\ WF_vars(Receiver) /\ WF_vars(Deliver)
    /\ \A s \in Sides : WF_vars(StatsThread(s))

Spec == Init /\ [][Next]_vars /\ Fairness

-----------------------------------------------------------------------------
(* Properties                                                              *)

\* The shape of every variable; every segment fits the receiver's buffer.
TypeOK ==
    /\ sPc \in {"open", "read", "drain", "waitStats", "unwind", "done"}
    /\ fi \in 1..N /\ off \in 0..MaxSize /\ hdr \in 1..Seg
    /\ rPc \in {"top", "read", "finish", "waitStats", "unwind", "done"}
    /\ ofs \in {"unopened", "open", "closed", "bad"}
    /\ cur \in 0..N
    /\ rcvd \in [1..N -> Seq(0..MaxSize)]
    /\ \A m \in ToSet(link) \cup ToSet(rbuf) : Len(m) \in 1..Seg
    /\ conn \in {"up", "broken"}
    /\ sOpen \in BOOLEAN /\ rOpen \in BOOLEAN
    /\ stats \in [Sides -> {"running", "ended"}]
    /\ periods \in [Sides -> 0..MaxPeriods] /\ samples \in [Sides -> 0..MaxPeriods]
    /\ localBreak \in [Sides -> BOOLEAN]
    /\ forceBreak \in BOOLEAN

\* The receiver's files as FileStream sees them.
Stream == INSTANCE FileStream WITH written <- rcvd, at <- cur

\* The segment protocol (flags, upload name, header sizes on both sides)
\* rebuilds the files in order: the receiver creates the files in the
\* order the sender sends them, writes only to the file it opened last,
\* never reopens (and so truncates) a file, and what a file holds is
\* always a prefix of that file's content, whatever the chunking.
ImplementsFileStream == Stream!Spec

\* receiveFiles returned because it could not create a file.
ReceiverGaveUp == ofs = "bad" /\ rPc \in {"finish", "waitStats", "done"}

\* Nothing file send wrote is truncated (spec 4.3: the sender waits for
\* outstanding bytes to drain before it closes): every segment it wrote is
\* eventually delivered and read by file receive, unless the connection
\* breaks, force_break stops the run, or file receive gave up on a file it
\* could not create.  It rests on the drain loop of startFileSender, on
\* SRT delivering while both sockets are open, and on receiveFiles reading
\* whatever is buffered before its read throws.
WrittenIsRead ==
    (link # <<>>)
        ~> ((link = <<>> /\ rbuf = <<>>) \/ conn = "broken" \/ forceBreak
            \/ ReceiverGaveUp)

\* file send and file receive both return once the transfer is over,
\* whether it ends normally (the sender drains and closes, and the
\* receiver's read throws), on a broken connection or a file error, or on
\* force_break: neither side is left waiting on its stats thread (spec 7:
\* a transport error is logged and the run ends).
TransferReturns == <>(sPc = "done" /\ rPc = "done")

\* Every stats period the thread has slept through has its counters
\* written as a row of the stats file: after k periods there are k
\* samples (spec 4.5: the sampler never misses a sample; spec 8: two
\* periods give two samples, the CSV header written once besides).
SampleEveryPeriod == \A s \in Sides : samples[s] = periods[s]

=============================================================================
