-------------------------- MODULE MC_ForwardEngine --------------------------
(* Model-checking instances of ForwardEngine.                              *)
EXTENDS ForwardEngine

\* Two messages per peer: each direction can hold a message in flight while
\* the other direction stops, and a duplicated or reordered message shows.
MCMaxMsgs == 2

\* Two startForwarding calls: a session, then the restart after it.
MCMaxAttempts == 2
=============================================================================
