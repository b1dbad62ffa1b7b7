----------------------------- MODULE FileStream -----------------------------
(***************************************************************************)
(* What file receive promises about the files it writes, whatever the     *)
(* segmenting: the files of a transfer are created in the order the sender *)
(* sends them, each at most once, and only the file created last is        *)
(* written to; what a file holds is always a prefix of the file sent.     *)
(* Files may be skipped (an empty file is never announced) and a transfer *)
(* may stop anywhere.                                                      *)
(***************************************************************************)
EXTENDS Naturals, Sequences

CONSTANT Files   \* the files sent, in order: [nameLen, size] each

N == Len(Files)
Content(i) == [k \in 1..Files[i].size |-> k]

\* The first k bytes of file i.
Upto(i, k) == SubSeq(Content(i), 1, k)

VARIABLES
    written,  \* written[i]: what the receiver's file i holds
    at        \* the file created last, 0 before the first

Init ==
    /\ written = [i \in 1..N |-> <<>>]
    /\ at = 0

\* A first segment names a later file: it is created (truncated) and
\* receives the segment's payload.
Create(i) ==
    /\ at < i
    /\ at' = i
    /\ \E k \in 0..Files[i].size : written' = [written EXCEPT ![i] = Upto(i, k)]

\* A later segment appends to the file created last.
Extend ==
    /\ at > 0
    /\ \E k \in Len(written[at])..Files[at].size :
          written' = [written EXCEPT ![at] = Upto(at, k)]
    /\ UNCHANGED at

Next == (\E i \in 1..N : Create(i)) \/ Extend

Spec == Init /\ [][Next]_<<written, at>>

=============================================================================
