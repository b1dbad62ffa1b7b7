---------------------------- MODULE ForwardEngine ----------------------------
(***************************************************************************)
(* The forward subcommand (file-forward.cpp).                              *)
(*                                                                         *)
(* forward::run calls startForwarding until force_break is set.  Each call *)
(* makes two SrtNodes: dst, a caller that connects at once, and src, a     *)
(* listener that accepts one connection.  Two threads then forward         *)
(* messages, src->dst and dst->src (forwardMessage); each one, when its    *)
(* loop ends, closes its source node and then its destination node.  The   *)
(* call joins both threads, waits for undelivered data on both nodes, and  *)
(* returns.                                                                *)
(*                                                                         *)
(* SrtNode is not part of the repository: its Receive, Send and Close are  *)
(* modelled from their use here and from the spec (4.1, 4.3): Receive      *)
(* blocks until a message, peer shutdown or an error; Send queues the      *)
(* message in the node's send buffer, from which the remote peer           *)
(* acknowledges it; Close stops the node, and what its send buffer still   *)
(* holds is not delivered.  The remote peers of the two nodes are the      *)
(* environment.  A message is its sequence number within one session.     *)
(***************************************************************************)
EXTENDS Naturals, Sequences, SequencesExt

CONSTANTS
    MaxMsgs,      \* messages each peer sends in one session
    MaxAttempts   \* startForwarding calls explored

ASSUME MaxMsgs \in Nat /\ MaxAttempts \in Nat \ {0}

Nodes == {"src", "dst"}
Dirs  == {"s2d", "d2s"}   \* thSrcToDst and thDstToSrc

\* forwardMessage(src, dst, ...) of each thread.
From(d) == IF d = "s2d" THEN "src" ELSE "dst"
To(d)   == IF d = "s2d" THEN "dst" ELSE "src"

MainStates   == {"connect", "listen", "accept", "forwarding", "draining",
                 "check", "done"}
ThreadStates == {"idle", "top", "receiving", "sending", "closing",
                 "closing2", "ended"}

VARIABLES
    fpc,        \* where forward::run / startForwarding is
    attempts,   \* startForwarding calls so far
    th,         \* th[d]: where the thread of direction d is
    buf,        \* buf[d]: the message in messageReceived
    nodeOpen,   \* nodeOpen[n]: node n has not been closed
    closes,     \* closes[n]: Close calls on node n in this session
    peerUp,     \* peerUp[n]: the remote peer of node n is connected
    sent,       \* sent[n]: messages the peer of n has sent to it
    inbox,      \* inbox[n]: messages received by node n, not yet read
    unacked,    \* unacked[n]: messages sent on n, not yet acknowledged
    out,        \* out[n]: messages the peer of n has received
    forceBreak  \* the force_break flag

vars == <<fpc, attempts, th, buf, nodeOpen, closes, peerUp, sent, inbox,
          unacked, out, forceBreak>>

session == <<th, buf, nodeOpen, closes, peerUp, sent, inbox, unacked, out>>

-----------------------------------------------------------------------------

\* The state of a fresh pair of nodes, before any thread runs.
FreshSession ==
    /\ th' = [d \in Dirs |-> "idle"]
    /\ buf' = [d \in Dirs |-> 0]
    /\ nodeOpen' = [n \in Nodes |-> TRUE]
    /\ closes' = [n \in Nodes |-> 0]
    /\ peerUp' = [n \in Nodes |-> TRUE]
    /\ sent' = [n \in Nodes |-> 0]
    /\ inbox' = [n \in Nodes |-> <<>>]
    /\ unacked' = [n \in Nodes |-> <<>>]
    /\ out' = [n \in Nodes |-> <<>>]

\* Close on node n: no further sends, receives or acknowledgements.
Close(n) ==
    /\ nodeOpen' = [nodeOpen EXCEPT ![n] = FALSE]
    /\ closes' = [closes EXCEPT ![n] = @ + 1]

Init ==
    /\ fpc = "connect"
    /\ attempts = 1
    /\ th = [d \in Dirs |-> "idle"]
    /\ buf = [d \in Dirs |-> 0]
    /\ nodeOpen = [n \in Nodes |-> TRUE]
    /\ closes = [n \in Nodes |-> 0]
    /\ peerUp = [n \in Nodes |-> TRUE]
    /\ sent = [n \in Nodes |-> 0]
    /\ inbox = [n \in Nodes |-> <<>>]
    /\ unacked = [n \in Nodes |-> <<>>]
    /\ out = [n \in Nodes |-> <<>>]
    /\ forceBreak = FALSE

-----------------------------------------------------------------------------
(* startForwarding                                                         *)

\* dst->Connect(): SRT_INVALID_SOCK makes startForwarding return 1.
Connect ==
    /\ fpc = "connect"
    /\ fpc' \in {"listen", "check"}
    /\ UNCHANGED <<attempts, session, forceBreak>>

\* src->Listen(1) != 0 makes startForwarding return 1.
Listen ==
    /\ fpc = "listen"
    /\ fpc' \in {"accept", "check"}
    /\ UNCHANGED <<attempts, session, forceBreak>>

\* AcceptConnection's future yields a socket: both threads start.
Accepted ==
    /\ fpc = "accept"
    /\ fpc' = "forwarding"
    /\ th' = [d \in Dirs |-> "top"]
    /\ UNCHANGED <<attempts, buf, nodeOpen, closes, peerUp, sent, inbox,
                   unacked, out, forceBreak>>

\* AcceptConnection gives up on force_break (SRT_ERROR): return 0.
AcceptCancelled ==
    /\ fpc = "accept"
    /\ forceBreak
    /\ fpc' = "check"
    /\ UNCHANGED <<attempts, session, forceBreak>>

\* Both threads joined: WaitUndelivered on both nodes, which both threads
\* have already closed, so whatever they held stays undelivered.
Join ==
    /\ fpc = "forwarding"
    /\ \A d \in Dirs : th[d] = "ended"
    /\ fpc' = "draining"
    /\ UNCHANGED <<attempts, session, forceBreak>>

Drain ==
    /\ fpc = "draining"
    /\ fpc' = "check"
    /\ UNCHANGED <<attempts, session, forceBreak>>

\* Variant: the nodes outlive one startForwarding call and are reused.
NextAttemptKeepNodes ==
    /\ fpc = "check"
    /\ ~forceBreak
    /\ attempts < MaxAttempts
    /\ fpc' = "connect"
    /\ attempts' = attempts + 1
    /\ th' = [d \in Dirs |-> "idle"]
    /\ UNCHANGED <<buf, nodeOpen, closes, peerUp, sent, inbox, unacked, out,
                   forceBreak>>

\* while (!forceBreak) startForwarding(...): no delay between calls; each
\* call makes its own pair of nodes.
NextAttempt ==
    /\ fpc = "check"
    /\ ~forceBreak
    /\ attempts < MaxAttempts
    /\ fpc' = "connect"
    /\ attempts' = attempts + 1
    /\ FreshSession
    /\ UNCHANGED forceBreak

Finish ==
    /\ fpc = "check"
    /\ forceBreak
    /\ fpc' = "done"
    /\ UNCHANGED <<attempts, session, forceBreak>>

-----------------------------------------------------------------------------
(* forwardMessage                                                          *)

\* while (!forceBreak)
Top(d) ==
    /\ th[d] = "top"
    /\ th' = [th EXCEPT ![d] = IF forceBreak THEN "closing" ELSE "receiving"]
    /\ UNCHANGED <<fpc, attempts, buf, nodeOpen, closes, peerUp, sent, inbox,
                   unacked, out, forceBreak>>

\* A receive that hands out the head message without consuming it.
RecvPeek(d) ==
    /\ th[d] = "receiving"
    /\ nodeOpen[From(d)]
    /\ inbox[From(d)] # <<>>
    /\ buf' = [buf EXCEPT ![d] = Head(inbox[From(d)])]
    /\ th' = [th EXCEPT ![d] = "sending"]
    /\ UNCHANGED <<fpc, attempts, nodeOpen, closes, peerUp, sent, inbox,
                   unacked, out, forceBreak>>

\* src->Receive returns a message (recvRes > 0).
RecvOk(d) ==
    /\ th[d] = "receiving"
    /\ nodeOpen[From(d)]
    /\ inbox[From(d)] # <<>>
    /\ buf' = [buf EXCEPT ![d] = Head(inbox[From(d)])]
    /\ inbox' = [inbox EXCEPT ![From(d)] = Tail(@)]
    /\ th' = [th EXCEPT ![d] = "sending"]
    /\ UNCHANGED <<fpc, attempts, nodeOpen, closes, peerUp, sent, unacked,
                   out, forceBreak>>

\* recvRes <= 0: the peer shut down (0 with connection id 0) or the node
\* failed, which it does once the other thread has closed it.  break.
RecvFails(d) ==
    /\ th[d] = "receiving"
    /\ ~nodeOpen[From(d)] \/ ~peerUp[From(d)]
    /\ th' = [th EXCEPT ![d] = "closing"]
    /\ UNCHANGED <<fpc, attempts, buf, nodeOpen, closes, peerUp, sent, inbox,
                   unacked, out, forceBreak>>

\* dst->Send queues the message on the destination node.
SendOk(d) ==
    /\ th[d] = "sending"
    /\ nodeOpen[To(d)] /\ peerUp[To(d)]
    /\ unacked' = [unacked EXCEPT ![To(d)] = Append(@, buf[d])]
    /\ th' = [th EXCEPT ![d] = "top"]
    /\ UNCHANGED <<fpc, attempts, buf, nodeOpen, closes, peerUp, sent, inbox,
                   out, forceBreak>>

\* sendRes <= 0: break.
SendFails(d) ==
    /\ th[d] = "sending"
    /\ ~nodeOpen[To(d)] \/ ~peerUp[To(d)]
    /\ th' = [th EXCEPT ![d] = "closing"]
    /\ UNCHANGED <<fpc, attempts, buf, nodeOpen, closes, peerUp, sent, inbox,
                   unacked, out, forceBreak>>

\* src->Close()
CloseFirst(d) ==
    /\ th[d] = "closing"
    /\ Close(From(d))
    /\ th' = [th EXCEPT ![d] = "closing2"]
    /\ UNCHANGED <<fpc, attempts, buf, peerUp, sent, inbox, unacked, out,
                   forceBreak>>

\* Variant: the thread leaves its destination node open.
CloseSecondSkipped(d) ==
    /\ th[d] = "closing2"
    /\ th' = [th EXCEPT ![d] = "ended"]
    /\ UNCHANGED <<fpc, attempts, buf, nodeOpen, closes, peerUp, sent, inbox,
                   unacked, out, forceBreak>>

\* dst->Close(): the thread ends.
CloseSecond(d) ==
    /\ th[d] = "closing2"
    /\ Close(To(d))
    /\ th' = [th EXCEPT ![d] = "ended"]
    /\ UNCHANGED <<fpc, attempts, buf, peerUp, sent, inbox, unacked, out,
                   forceBreak>>

Forwarder(d) ==
    \/ Top(d) \/ RecvOk(d) \/ RecvFails(d) \/ SendOk(d) \/ SendFails(d)
    \/ CloseFirst(d) \/ CloseSecond(d)

-----------------------------------------------------------------------------
(* Environment: the two remote peers and the signal handler                *)

PeerSends(n) ==
    /\ fpc = "forwarding"
    /\ peerUp[n] /\ nodeOpen[n]
    /\ sent[n] < MaxMsgs
    /\ sent' = [sent EXCEPT ![n] = @ + 1]
    /\ inbox' = [inbox EXCEPT ![n] = Append(@, sent[n] + 1)]
    /\ UNCHANGED <<fpc, attempts, th, buf, nodeOpen, closes, peerUp,
                   unacked, out, forceBreak>>

PeerAcks(n) ==
    /\ peerUp[n] /\ nodeOpen[n]
    /\ unacked[n] # <<>>
    /\ out' = [out EXCEPT ![n] = Append(@, Head(unacked[n]))]
    /\ unacked' = [unacked EXCEPT ![n] = Tail(@)]
    /\ UNCHANGED <<fpc, attempts, th, buf, nodeOpen, closes, peerUp, sent,
                   inbox, forceBreak>>

PeerLeaves(n) ==
    /\ fpc = "forwarding"
    /\ peerUp[n]
    /\ peerUp' = [peerUp EXCEPT ![n] = FALSE]
    /\ UNCHANGED <<fpc, attempts, th, buf, nodeOpen, closes, sent, inbox,
                   unacked, out, forceBreak>>

Cancel ==
    /\ ~forceBreak
    /\ forceBreak' = TRUE
    /\ UNCHANGED <<fpc, attempts, session>>

Next ==
    \/ Connect \/ Listen \/ Accepted \/ AcceptCancelled \/ Join \/ Drain
    \/ NextAttempt \/ Finish
    \/ \E d \in Dirs : Forwarder(d)
    \/ \E n \in Nodes : PeerSends(n) \/ PeerAcks(n) \/ PeerLeaves(n)
    \/ Cancel

\* The program's own steps are weakly fair: a thread that can go on does.
\* Connecting peers, their messages and acknowledgements, their leaving and
\* the signal handler are not.
Fairness ==
    /\ WF_vars(Connect) /\ WF_vars(Listen) /\ WF_vars(Join) /\ WF_vars(Drain)
    /\ WF_vars(NextAttempt) /\ WF_vars(Finish)
    /\ \A d \in Dirs : WF_vars(Forwarder(d))

Spec == Init /\ [][Next]_vars /\ Fairness

-----------------------------------------------------------------------------
(* Properties                                                              *)

\* The shape of every variable.
TypeOK ==
    /\ fpc \in MainStates
    /\ attempts \in 1..MaxAttempts
    /\ th \in [Dirs -> ThreadStates]
    /\ buf \in [Dirs -> 0..MaxMsgs]
    /\ nodeOpen \in [Nodes -> BOOLEAN]
    /\ closes \in [Nodes -> 0..2]
    /\ peerUp \in [Nodes -> BOOLEAN]
    /\ sent \in [Nodes -> 0..MaxMsgs]
    /\ inbox \in [Nodes -> Seq(1..MaxMsgs)]
    /\ unacked \in [Nodes -> Seq(1..MaxMsgs)]
    /\ out \in [Nodes -> Seq(1..MaxMsgs)]
    /\ forceBreak \in BOOLEAN

\* The forward command relays as Relay promises (spec 5: within one
\* direction bytes are forwarded in receipt order), one session per
\* startForwarding call: the peer of each node receives, once each and in
\* the order sent, only messages the other node's peer sent in the same
\* session, although both threads share the nodes and close them.
Promise == INSTANCE Relay WITH Ends <- Nodes, MaxMsgs <- MaxMsgs,
                               Restartable <- TRUE, sent <- sent, out <- out

ImplementsRelay == Promise!Spec

\* Once one direction has stopped, the whole session winds down: the other
\* thread, blocked in Receive or Send on a node the first one closed,
\* fails and ends too, and startForwarding joins both (spec 4.3: the call
\* returns only after both directions have ended).
SessionWindsDown ==
    (fpc = "forwarding" /\ \E d \in Dirs : th[d] \in {"closing", "closing2", "ended"})
        ~> (fpc # "forwarding")

\* A node is closed only once the data sent on it has been acknowledged
\* (spec 4.3: wait for the outstanding bytes to reach zero before closing,
\* to avoid truncating in-flight data).
NoTruncation ==
    [][\A n \in Nodes : nodeOpen[n] /\ ~nodeOpen'[n] => unacked[n] = <<>>]_vars

=============================================================================
