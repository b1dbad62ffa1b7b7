----------------------------- MODULE RouteEngine -----------------------------
(***************************************************************************)
(* The route subcommand (route.cpp) over two SRT endpoints (srt_socket.cpp *)
(* read and write).                                                        *)
(*                                                                         *)
(* route::run creates the dst and then the src connection, starts the      *)
(* backward pump dst->src with std::async when --bidir is given, runs the  *)
(* forward pump src->dst on its own thread and then waits on the future.   *)
(* Each pump is route(): while !force_break, read(-1) one message from one *)
(* endpoint and write it to the other; a read of 0 is retried, a write     *)
(* whose result differs from the bytes read is logged and skipped, and a   *)
(* socket::exception ends the pump.                                        *)
(*                                                                         *)
(* The connections' remote peers are the environment: the peer of an end   *)
(* sends numbered messages into that end (SRT delivers them in order) and  *)
(* may close, after which reads and writes on that end raise.  A message   *)
(* is its sequence number within its direction.                            *)
(***************************************************************************)
EXTENDS Naturals, Sequences, SequencesExt

CONSTANTS
    MaxMsgs,    \* messages each peer sends during the session
    Modes       \* the route configurations checked: [bidir, blocking]

Ends == {"src", "dst"}
Dirs == {"fwd", "bkwd"}     \* "[SRC->DST]" pump and "[DST->SRC]" pump

ModeType == [bidir : BOOLEAN, blocking : BOOLEAN]

ASSUME MaxMsgs \in Nat /\ Modes \subseteq ModeType /\ Modes # {}

\* The pump of direction d reads from From(d) and writes to To(d): the
\* backward pump is route(dst, src, ...), with the roles swapped.
From(d) == IF d = "fwd" THEN "src" ELSE "dst"
To(d)   == IF d = "fwd" THEN "dst" ELSE "src"

ThreadStates == {"idle", "top", "reading", "writing", "ended", "failed"}
Running == {"top", "reading", "writing"}

VARIABLES
    cfg,        \* the route configuration
    mainPc,     \* route::run: "setup", "routing" (pumps running), "done"
    th,         \* th[d]: where the pump of direction d is
    buf,        \* buf[d]: the message in the pump's buffer (0: none yet)
    err,        \* err[d]: the operation whose exception ended the pump
    sent,       \* sent[e]: messages the peer of end e has sent into it
    inbox,      \* inbox[e]: messages received on end e and not yet read
    out,        \* out[e]: messages written on end e, as its peer got them
    peer,       \* peer[e]: "open" or "closed" (the connection is broken)
    forceBreak, \* the force_break flag
    exit        \* how route::run ended: "none", "clean", "logged", "aborted"

vars == <<cfg, mainPc, th, buf, err, sent, inbox, out, peer, forceBreak, exit>>

-----------------------------------------------------------------------------
(* Helpers                                                                 *)

\* The messages of 1..n, in order.
Iota(n) == [i \in 1..n |-> i]

\* How many messages the pump of d has taken off its source end.
Taken(d) == sent[From(d)] - Len(inbox[From(d)])

\* The future of the backward pump: only a --bidir run starts the thread.
Started(d) == d = "fwd" \/ cfg.bidir

Init ==
    /\ cfg \in Modes
    /\ mainPc = "setup"
    /\ th = [d \in Dirs |-> "idle"]
    /\ buf = [d \in Dirs |-> 0]
    /\ err = [d \in Dirs |-> "none"]
    /\ sent = [e \in Ends |-> 0]
    /\ inbox = [e \in Ends |-> <<>>]
    /\ out = [e \in Ends |-> <<>>]
    /\ peer = [e \in Ends |-> "open"]
    /\ forceBreak = FALSE
    /\ exit = "none"

-----------------------------------------------------------------------------
(* route::run                                                              *)

\* Both create_connection calls return: the pumps start, the backward one
\* only with --bidir (otherwise route_bkwd is a default-constructed future).
SetupOk ==
    /\ mainPc = "setup"
    /\ mainPc' = "routing"
    /\ th' = [d \in Dirs |-> IF Started(d) THEN "top" ELSE "idle"]
    /\ UNCHANGED <<cfg, buf, err, sent, inbox, out, peer, forceBreak, exit>>

\* create_connection throws for dst or for src: the exception is caught
\* and logged, and run returns (the one socket made is destroyed).
SetupFails ==
    /\ mainPc = "setup"
    /\ mainPc' = "done"
    /\ exit' = "logged"
    /\ UNCHANGED <<cfg, th, buf, err, sent, inbox, out, peer, forceBreak>>

\* After the forward pump returns, route_bkwd.wait() blocks until the
\* backward pump has returned; if the forward pump threw instead, the
\* future's destructor blocks the same way while the exception unwinds to
\* the catch that logs it.  wait() on the default future of a
\* unidirectional run has no shared state: undefined behaviour, which the
\* standard libraries turn into an exception nobody catches.  The backward
\* pump's own exception stays in the future and is never rethrown.
Join ==
    /\ mainPc = "routing"
    /\ th["fwd"] \in {"ended", "failed"}
    /\ th["bkwd"] \notin Running
    /\ mainPc' = "done"
    /\ \/ th["fwd"] = "failed" /\ exit' = "logged"
       \/ th["fwd"] = "ended" /\ cfg.bidir /\ exit' = "clean"
       \/ th["fwd"] = "ended" /\ ~cfg.bidir /\ exit' \in {"clean", "aborted"}
    /\ UNCHANGED <<cfg, th, buf, err, sent, inbox, out, peer, forceBreak>>

-----------------------------------------------------------------------------
(* route(): one pump                                                       *)

\* while (!force_break)
LoopCheck(d) ==
    /\ th[d] = "top"
    /\ th' = [th EXCEPT ![d] = IF forceBreak THEN "ended" ELSE "reading"]
    /\ UNCHANGED <<cfg, mainPc, buf, err, sent, inbox, out, peer, forceBreak, exit>>

\* A read that hands out the head message without consuming it.
ReadDataPeek(d) ==
    /\ th[d] = "reading"
    /\ inbox[From(d)] # <<>>
    /\ buf' = [buf EXCEPT ![d] = Head(inbox[From(d)])]
    /\ th' = [th EXCEPT ![d] = "writing"]
    /\ UNCHANGED <<cfg, mainPc, err, sent, inbox, out, peer, forceBreak, exit>>

\* read(-1) returns the next message received on the source end.
ReadData(d) ==
    /\ th[d] = "reading"
    /\ inbox[From(d)] # <<>>
    /\ buf' = [buf EXCEPT ![d] = Head(inbox[From(d)])]
    /\ inbox' = [inbox EXCEPT ![From(d)] = Tail(@)]
    /\ th' = [th EXCEPT ![d] = "writing"]
    /\ UNCHANGED <<cfg, mainPc, err, sent, out, peer, forceBreak, exit>>

\* A zero read that falls through to the write without the continue.
ReadZeroNoContinue(d) ==
    /\ th[d] = "reading"
    /\ ~cfg.blocking /\ peer[From(d)] = "open"
    /\ th' = [th EXCEPT ![d] = "writing"]
    /\ UNCHANGED <<cfg, mainPc, buf, err, sent, inbox, out, peer, forceBreak, exit>>

\* A non-blocking read whose epoll wakes but srt_recvmsg2 reports
\* SRT_EASYNCRCV returns 0, and the pump goes round the loop again.  On a
\* broken connection srt_recvmsg2 reports the loss instead.
ReadZero(d) ==
    /\ th[d] = "reading"
    /\ ~cfg.blocking /\ peer[From(d)] = "open"
    /\ th' = [th EXCEPT ![d] = "top"]
    /\ UNCHANGED <<cfg, mainPc, buf, err, sent, inbox, out, peer, forceBreak, exit>>

\* Variant: a read error is taken for a zero read and retried.
ReadFailsRetried(d) ==
    /\ th[d] = "reading"
    /\ peer[From(d)] = "closed"
    /\ th' = [th EXCEPT ![d] = "top"]
    /\ UNCHANGED <<cfg, mainPc, buf, err, sent, inbox, out, peer, forceBreak, exit>>

\* The connection of the source end is broken: epoll_wait or srt_recvmsg2
\* fails and read raises "read::recv", which ends the pump.
ReadFails(d) ==
    /\ th[d] = "reading"
    /\ peer[From(d)] = "closed"
    /\ th' = [th EXCEPT ![d] = "failed"]
    /\ err' = [err EXCEPT ![d] = "read"]
    /\ UNCHANGED <<cfg, mainPc, buf, sent, inbox, out, peer, forceBreak, exit>>

\* write() sends the whole message: bytes_sent = bytes_read.
WriteOk(d) ==
    /\ th[d] = "writing"
    /\ peer[To(d)] = "open"
    /\ out' = [out EXCEPT ![To(d)] = Append(@, buf[d])]
    /\ th' = [th EXCEPT ![d] = "top"]
    /\ UNCHANGED <<cfg, mainPc, buf, err, sent, inbox, peer, forceBreak, exit>>

\* Non-blocking write: the epoll wait returns when the socket is readable
\* or writable, and srt_sendmsg2 with a full send buffer reports
\* SRT_EASYNCSND, so write returns 0.  The pump logs the mismatch and
\* continues with the next read: the message is not sent again.  On a
\* broken connection srt_sendmsg2 reports the loss instead.
WriteWouldBlock(d) ==
    /\ th[d] = "writing"
    /\ ~cfg.blocking /\ peer[To(d)] = "open"
    /\ th' = [th EXCEPT ![d] = "top"]
    /\ UNCHANGED <<cfg, mainPc, buf, err, sent, inbox, out, peer, forceBreak, exit>>

\* The destination's connection is broken: write raises "write::send".
WriteFails(d) ==
    /\ th[d] = "writing"
    /\ peer[To(d)] = "closed"
    /\ th' = [th EXCEPT ![d] = "failed"]
    /\ err' = [err EXCEPT ![d] = "write"]
    /\ UNCHANGED <<cfg, mainPc, buf, sent, inbox, out, peer, forceBreak, exit>>

Pump(d) ==
    \/ LoopCheck(d)
    \/ ReadData(d)
    \/ ReadZero(d)
    \/ ReadFails(d)
    \/ WriteOk(d)
    \/ WriteWouldBlock(d)
    \/ WriteFails(d)

-----------------------------------------------------------------------------
(* Environment: the remote peers and the signal handler                    *)

PeerSends(e) ==
    /\ peer[e] = "open"
    /\ sent[e] < MaxMsgs
    /\ sent' = [sent EXCEPT ![e] = @ + 1]
    /\ inbox' = [inbox EXCEPT ![e] = Append(@, sent[e] + 1)]
    /\ UNCHANGED <<cfg, mainPc, th, buf, err, out, peer, forceBreak, exit>>

PeerCloses(e) ==
    /\ peer[e] = "open"
    /\ peer' = [peer EXCEPT ![e] = "closed"]
    /\ UNCHANGED <<cfg, mainPc, th, buf, err, sent, inbox, out, forceBreak, exit>>

Cancel ==
    /\ ~forceBreak
    /\ forceBreak' = TRUE
    /\ UNCHANGED <<cfg, mainPc, th, buf, err, sent, inbox, out, peer, exit>>

Next ==
    \/ SetupOk \/ SetupFails \/ Join
    \/ \E d \in Dirs : Pump(d)
    \/ \E e \in Ends : PeerSends(e) \/ PeerCloses(e)
    \/ Cancel

\* A pump that is running always takes its next step when it can; the
\* peers and the signal handler are under no obligation.
Fairness ==
    /\ WF_vars(SetupOk \/ Join)
    /\ \A d \in Dirs : WF_vars(LoopCheck(d) \/ ReadData(d) \/ WriteOk(d)
                                 \/ ReadFails(d) \/ WriteFails(d))

Spec == Init /\ [][Next]_vars /\ Fairness

-----------------------------------------------------------------------------
(* Properties                                                              *)

\* The shape of every variable.
TypeOK ==
    /\ cfg \in ModeType
    /\ mainPc \in {"setup", "routing", "done"}
    /\ th \in [Dirs -> ThreadStates]
    /\ buf \in [Dirs -> 0..MaxMsgs]
    /\ err \in [Dirs -> {"none", "read", "write"}]
    /\ sent \in [Ends -> 0..MaxMsgs]
    /\ inbox \in [Ends -> Seq(1..MaxMsgs)]
    /\ out \in [Ends -> Seq(1..MaxMsgs)]
    /\ peer \in [Ends -> {"open", "closed"}]
    /\ forceBreak \in BOOLEAN
    /\ exit \in {"none", "clean", "logged", "aborted"}

\* The two peers' view of the route as Relay sees it.
Promise == INSTANCE Relay WITH Ends <- Ends, MaxMsgs <- MaxMsgs,
                               Restartable <- FALSE, sent <- sent, out <- out

\* route() is an in-order relay in each direction (spec 5: bytes are
\* forwarded in receipt order, with no reordering): whatever the
\* interleaving of the two pumps, the zero reads and the failed writes,
\* the peer of each end receives only messages the other peer sent, each
\* at most once and in the order sent, and a write is never taken back.
ImplementsRelay == Promise!Spec

\* When both peers have gone, route::run returns (spec 4.3: a pump ends on
\* end of stream or a transport error, and the call returns once both
\* directions have ended): each pump's read or write raises on a broken
\* connection once its source is drained, and run joins the pumps.
RouteEndsWhenPeersLeave ==
    (peer["src"] = "closed" /\ peer["dst"] = "closed") ~> (mainPc = "done")

\* No exit path is a silent failure (spec 7): once route::run has
\* finished, the process did not abort, and a run that logged no error lost
\* nothing: no pump ended with an exception (an error in one direction is
\* observable at join time, spec 9), and every message a pump took off its
\* source was written to its destination (a write returning 0 is "would
\* block" and is retried, spec 4.1).
RouteFailsLoudly ==
    mainPc = "done" =>
        /\ exit # "aborted"
        /\ exit = "clean" =>
              \A d \in Dirs : th[d] # "failed" /\ out[To(d)] = Iota(Taken(d))

=============================================================================
