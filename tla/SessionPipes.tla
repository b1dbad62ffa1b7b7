---------------------------- MODULE SessionPipes ----------------------------
(***************************************************************************)
(* The generate and receive subcommands: common_run (ConnectionLoop) with  *)
(* its processingFn bound to generate.cpp run_pipe or to receive.cpp       *)
(* runPipe.  The loop's own steps are those of ConnectionLoop, leaving the *)
(* pipe untouched; the pipe's steps run while the loop is "processing",    *)
(* and the pipe's return is ConnectionLoop's PipeEnds.                     *)
(*                                                                         *)
(* The payload, the message size, the rate pacer and the log lines are     *)
(* left out: the pacer's wait returns, or returns at once on force_break,  *)
(* and a read or write that returns 0 changes nothing the loop sees.  The  *)
(* receiver's metrics thread (metricsWritingLoop) is a second thread that  *)
(* shares the validator with the reading thread under metricsMtx.          *)
(***************************************************************************)
EXTENDS ConnectionLoop

CONSTANTS
    PipeConfigs,  \* the generator and receiver configurations explored
    MaxIter       \* bound on the generator's loop index i

PipeConfigType ==
    [cmd: {"generate"}, duration: BOOLEAN, lossy: BOOLEAN]
    \cup [cmd: {"receive"}, metrics: BOOLEAN, metricsFile: BOOLEAN, reply: BOOLEAN]

ASSUME PipeConfigs \subseteq PipeConfigType /\ PipeConfigs # {}
ASSUME MaxIter \in Nat \ {0}


VARIABLES
    pcfg,    \* the subcommand and its options (never changes)
    pipe,    \* where the pipe's thread is; "idle" outside processingFn
    gi,      \* run_pipe's loop index i
    peer,    \* the remote end: "up", "idle" (neither reads nor sends) or "gone"
    mth,     \* the metrics thread: "none", "running", "locking", "writing", "ended"
    mstop,   \* metricsStop
    mtx      \* who holds metricsMtx: "free", "reader" or "metrics"

pipeVars == <<pcfg, pipe, gi, peer, mth, mstop, mtx>>
allVars == <<vars, pipeVars>>

\* With a duration, num_messages is -1 and only the duration ends the loop.
CountReached == ~pcfg.duration /\ gi >= MaxIter

SInit ==
    /\ Init
    /\ pcfg \in PipeConfigs
    /\ pipe = "idle" /\ gi = 0 /\ peer = "up"
    /\ mth = "none" /\ mstop = FALSE /\ mtx = "free"

\* Every step of ConnectionLoop except the return of processingFn.
LoopStep ==
    /\ \/ LoopTop \/ CreateConnection \/ AcceptOnClosed \/ LoopCondition
       \/ Tick \/ AcceptFails \/ Accepted \/ ConnectFails \/ Connected
       \/ Cancel
    /\ UNCHANGED pipeVars

\* The peer closes the connection or the link breaks.  The pipe sees the
\* peer only once processingFn runs: a loss before then is met at its
\* first read or write all the same.
PeerGone ==
    /\ pc = "processing" /\ pipe # "idle" /\ peer # "gone"
    /\ peer' = "gone"
    /\ UNCHANGED <<vars, pcfg, pipe, gi, mth, mstop, mtx>>

\* The peer stays connected but stops reading and sending: the sender's
\* buffer fills, and a write or a read with timeout -1 waits (in
\* non-blocking mode in srt_epoll_wait, srt_socket.cpp:506 and 538).
PeerIdles ==
    /\ pc = "processing" /\ pipe # "idle" /\ peer = "up"
    /\ peer' = "idle"
    /\ UNCHANGED <<vars, pcfg, pipe, gi, mth, mstop, mtx>>

PeerResumes ==
    /\ peer = "idle"
    /\ peer' = "up"
    /\ UNCHANGED <<vars, pcfg, pipe, gi, mth, mstop, mtx>>

-----------------------------------------------------------------------------
(* generate.cpp run_pipe.                                                  *)

\* processingFn is called: the index starts at 0.
GenStart ==
    /\ pc = "processing" /\ pipe = "idle" /\ pcfg.cmd = "generate"
    /\ pipe' = "gen" /\ gi' = 0 /\ peer' = "up"
    /\ UNCHANGED <<vars, pcfg, mth, mstop, mtx>>

\* The body with the loop condition true: after the pacer, the duration
\* check may break out, and the loss draw may skip the write (continue,
\* which still increments i); otherwise the message is written.  In
\* duration mode MaxIter bounds the index the model explores.
GenIter ==
    /\ pc = "processing" /\ pipe = "gen"
    /\ ~CountReached /\ ~forceBreak
    /\ \/ pcfg.duration /\ pipe' = "return" /\ UNCHANGED gi
       \/ gi < MaxIter /\ pcfg.lossy /\ gi' = gi + 1 /\ UNCHANGED pipe
       \/ gi < MaxIter /\ pipe' = "write" /\ UNCHANGED gi
    /\ UNCHANGED <<vars, pcfg, peer, mth, mstop, mtx>>

\* target->write with timeout -1: it returns (the result is ignored) and
\* the loop goes on, or it throws when the peer is gone and the exception
\* is caught at the end of run_pipe.  While the peer is idle it waits,
\* and force_break is not looked at.
GenWrite ==
    /\ pc = "processing" /\ pipe = "write" /\ peer # "idle"
    /\ \/ peer = "up" /\ gi' = gi + 1 /\ pipe' = "gen"
       \/ peer = "gone" /\ pipe' = "return" /\ UNCHANGED gi
    /\ UNCHANGED <<vars, pcfg, peer, mth, mstop, mtx>>

\* The loop condition is false: the count is reached or force_break is set.
GenEnd ==
    /\ pc = "processing" /\ pipe = "gen"
    /\ CountReached \/ forceBreak
    /\ pipe' = "return"
    /\ UNCHANGED <<vars, pcfg, gi, peer, mth, mstop, mtx>>

-----------------------------------------------------------------------------
(* receive.cpp runPipe and metricsWritingLoop.                             *)

\* processingFn is called.  With metrics enabled and a metrics file
\* given, the file is opened for this session; when that fails runPipe
\* returns at once.  Otherwise the metrics thread is started (when
\* enabled) and the read loop begins.
RecvStart ==
    /\ pc = "processing" /\ pipe = "idle" /\ pcfg.cmd = "receive"
    /\ peer' = "up" /\ mstop' = FALSE
    /\ \/ /\ pcfg.metrics /\ pcfg.metricsFile
          /\ pipe' = "return" /\ mth' = "none"
       \/ /\ pipe' = "read"
          /\ mth' = IF pcfg.metrics THEN "running" ELSE "none"
    /\ UNCHANGED <<vars, pcfg, gi, mtx>>

\* while (!forceBreak) fails at the loop head.
RecvCancelled ==
    /\ pc = "processing" /\ pipe = "read" /\ forceBreak
    /\ pipe' = "stop"
    /\ UNCHANGED <<vars, pcfg, gi, peer, mth, mstop, mtx>>

\* The loop condition holds: sock.read(..., -1) is called.
RecvEnter ==
    /\ pc = "processing" /\ pipe = "read" /\ ~forceBreak
    /\ pipe' = "reading"
    /\ UNCHANGED <<vars, pcfg, gi, peer, mth, mstop, mtx>>

\* read(-1) returns a message, or throws when the peer is gone; while the
\* peer is idle it waits.  With metrics the message is validated under the
\* lock; without, a reply may follow.
RecvRead ==
    /\ pc = "processing" /\ pipe = "reading" /\ peer # "idle"
    /\ pipe' = CASE peer = "gone"  -> "stop"
                 [] pcfg.metrics   -> "lock"
                 [] pcfg.reply     -> "reply"
                 [] OTHER          -> "read"
    /\ UNCHANGED <<vars, pcfg, gi, peer, mth, mstop, mtx>>

\* lock_guard<mutex> lck(metricsMtx) before validate_packet.
RecvLock ==
    /\ pc = "processing" /\ pipe = "lock" /\ mtx = "free"
    /\ mtx' = "reader" /\ pipe' = "validate"
    /\ UNCHANGED <<vars, pcfg, gi, peer, mth, mstop>>

\* validate_packet, then the guard's destructor unlocks.
RecvValidate ==
    /\ pc = "processing" /\ pipe = "validate"
    /\ mtx' = IF mtx = "reader" THEN "free" ELSE mtx
    /\ pipe' = IF pcfg.reply THEN "reply" ELSE "read"
    /\ UNCHANGED <<vars, pcfg, gi, peer, mth, mstop>>

\* The reply write returns, or throws when the peer is gone.
RecvReply ==
    /\ pc = "processing" /\ pipe = "reply" /\ peer # "idle"
    /\ pipe' = IF peer = "gone" THEN "stop" ELSE "read"
    /\ UNCHANGED <<vars, pcfg, gi, peer, mth, mstop, mtx>>

\* Variant: runPipe returns without metricsTh.get().
JoinSkipped ==
    /\ pc = "processing" /\ pipe = "stop"
    /\ mstop' = TRUE /\ pipe' = "return"
    /\ UNCHANGED <<vars, pcfg, gi, peer, mth, mtx>>

\* Variant: the loop ends without setting metricsStop.
StopFlagForgotten ==
    /\ pc = "processing" /\ pipe = "stop"
    /\ pipe' = "join"
    /\ UNCHANGED <<vars, pcfg, gi, peer, mth, mstop, mtx>>

\* After the loop: metricsStop = true.
RecvStop ==
    /\ pc = "processing" /\ pipe = "stop"
    /\ mstop' = TRUE /\ pipe' = "join"
    /\ UNCHANGED <<vars, pcfg, gi, peer, mth, mtx>>

\* if (metricsTh.valid()) metricsTh.get(): wait for the metrics thread.
RecvJoin ==
    /\ pc = "processing" /\ pipe = "join"
    /\ mth \in {"none", "ended"}
    /\ pipe' = "return"
    /\ UNCHANGED <<vars, pcfg, gi, peer, mth, mstop, mtx>>

\* metricsWritingLoop: the loop head reads metricsStop; the body locks,
\* writes the validator's stats, unlocks, and sleeps until the next period.
MetricsHead ==
    /\ mth = "running"
    /\ mth' = IF mstop THEN "ended" ELSE "locking"
    /\ UNCHANGED <<vars, pcfg, pipe, gi, peer, mstop, mtx>>

MetricsLock ==
    /\ mth = "locking" /\ mtx = "free"
    /\ mth' = "writing" /\ mtx' = "metrics"
    /\ UNCHANGED <<vars, pcfg, pipe, gi, peer, mstop>>

MetricsUnlock ==
    /\ mth = "writing"
    /\ mth' = "running" /\ mtx' = "free"
    /\ UNCHANGED <<vars, pcfg, pipe, gi, peer, mstop>>

MetricsThread == MetricsHead \/ MetricsLock \/ MetricsUnlock

-----------------------------------------------------------------------------

\* processingFn returns: the loop detaches and destroys the connection.
PipeReturns ==
    /\ pipe = "return"
    /\ PipeEnds
    /\ pipe' = "idle"
    /\ UNCHANGED <<pcfg, gi, peer, mth, mstop, mtx>>

Generator == GenStart \/ GenIter \/ GenWrite \/ GenEnd
Receiver ==
    \/ RecvStart \/ RecvCancelled \/ RecvEnter \/ RecvRead \/ RecvLock \/ RecvValidate
    \/ RecvReply \/ RecvStop \/ RecvJoin

SNext ==
    \/ LoopStep \/ PeerGone \/ PeerIdles \/ PeerResumes \/ Generator \/ Receiver \/ MetricsThread
    \/ PipeReturns

\* Weak fairness on the common_run thread while it runs the pipe, and on
\* the metrics thread.  The reader waiting on metricsMtx gets it: the
\* metrics thread sleeps a whole period (metrics_freq_ms) after each
\* unlock, so RecvLock is strongly fair.  A read or write waiting on an
\* idle peer is woken by srt whenever the peer reads or sends again, so
\* those steps are strongly fair too (one condition for the four: the pipe
\* is in one of them at a time).  The peer is not.  The loop's own
\* steps are left without fairness here: no property of this module needs
\* the loop to make progress.
PipeFairness ==
    /\ WF_allVars(Generator \/ Receiver \/ PipeReturns)
    /\ SF_allVars(RecvLock \/ GenWrite \/ RecvRead \/ RecvReply)
    /\ WF_allVars(MetricsThread)

SSpec == SInit /\ [][SNext]_allVars /\ PipeFairness

\* The same behaviours with common_run's own steps weakly fair as well
\* (ConnectionLoop's Fairness), for properties about the whole command.
CSpec ==
    /\ SSpec
    /\ WF_allVars(LoopTop /\ UNCHANGED pipeVars)
    /\ WF_allVars(CreateConnection /\ UNCHANGED pipeVars)
    /\ WF_allVars(AcceptOnClosed /\ UNCHANGED pipeVars)
    /\ WF_allVars(LoopCondition /\ UNCHANGED pipeVars)
    /\ WF_allVars(Tick /\ UNCHANGED pipeVars)
    /\ WF_allVars((ConnectFails \/ Connected) /\ UNCHANGED pipeVars)

-----------------------------------------------------------------------------
(* Properties.                                                             *)

\* The metrics thread holds references to runPipe's locals (the validator,
\* metricsMtx, metricsFile, metricsStop): it never touches the validator
\* while the reading thread validates a packet, and it has ended before
\* runPipe returns, so no metrics thread is alive when common_run goes on
\* to the next attempt or returns.
MetricsThreadConfined ==
    /\ ~(pipe = "validate" /\ mth = "writing")
    /\ (pipe \in {"idle", "return"} => mth \in {"none", "ended"})

\* When the peer goes away, the pipe hands control back to common_run:
\* run_pipe's write and runPipe's read or reply throw, runPipe sets
\* metricsStop and joins the metrics thread, and processingFn returns so
\* that the loop can reconnect or stop.
PipeReturnsWhenPeerLeaves ==
    (pipe # "idle" /\ peer = "gone") ~> (pipe = "idle")

\* With --reconnect, a session whose peer went away is followed by a new
\* connection attempt, unless the run is cancelled: the pipe throws and
\* returns (runPipe stopping and joining its metrics thread on the way),
\* common_run destroys the connection, waits for the next deadline and
\* accepts on the held listener or connects again.  srt never reuses a
\* socket id and the model has finitely many (Handles): once all are
\* spent, creating a socket fails as srt_create_socket would.
ReconnectsWhenPeerLeaves ==
    (pc = "processing" /\ pipe # "idle" /\ peer = "gone" /\ cfg.reconnect)
        ~> (forceBreak \/ pc \in {"accepting", "connecting"} \/ FreeHandles = {})

=============================================================================
