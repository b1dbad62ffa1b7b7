-------------------------------- MODULE Relay --------------------------------
(***************************************************************************)
(* What a relay between two endpoints promises, in each direction         *)
(* (spec 4.3 and 5): the peer of one end receives only messages that the  *)
(* peer of the other end sent, each at most once and in the order sent.    *)
(* Messages may be lost (a relay may stop or skip), but never duplicated, *)
(* reordered or made up, and what a peer has received is never taken back. *)
(* A message is its sequence number within its direction.  A relay that   *)
(* restarts (Restartable) may begin a new session with fresh peers, whose  *)
(* messages are numbered afresh.                                           *)
(***************************************************************************)
EXTENDS Naturals, Sequences

CONSTANTS
    Ends,      \* the two endpoints
    MaxMsgs,     \* messages each peer sends
    Restartable  \* whether the relay starts new sessions

ASSUME \E a, b \in Ends : a # b /\ Ends = {a, b}
ASSUME Restartable \in BOOLEAN

\* The end whose messages the peer of e receives.
Other(e) == CHOOSE f \in Ends : f # e

VARIABLES
    sent,   \* sent[e]: messages the peer of e has sent into it
    out     \* out[e]: messages the peer of e has received, in order

Init ==
    /\ sent = [e \in Ends |-> 0]
    /\ out = [e \in Ends |-> <<>>]

\* The peer of e sends its next message.
Send(e) ==
    /\ sent[e] < MaxMsgs
    /\ sent' = [sent EXCEPT ![e] = @ + 1]
    /\ UNCHANGED out

\* The peer of e receives a message sent at the other end after every
\* message it has received so far.
Deliver(e) ==
    /\ \E k \in 1..sent[Other(e)] :
          /\ \A i \in 1..Len(out[e]) : out[e][i] < k
          /\ out' = [out EXCEPT ![e] = Append(@, k)]
    /\ UNCHANGED sent

\* A new session begins: nothing of it has been sent or received.
Restart ==
    /\ Restartable
    /\ sent' = [e \in Ends |-> 0]
    /\ out' = [e \in Ends |-> <<>>]

Next == (\E e \in Ends : Send(e) \/ Deliver(e)) \/ Restart

Spec == Init /\ [][Next]_<<sent, out>>

=============================================================================
