--------------------------- MODULE MC_RouteEngine ---------------------------
(* Model-checking instances of RouteEngine.                                *)
EXTENDS RouteEngine

\* Two messages per peer: enough for a message to be dropped and a later
\* one delivered, and for both pumps to hold a message at once.
MCMaxMsgs == 2

AllModes == ModeType

\* --bidir over non-blocking sockets (the default of srt_socket).
NonBlockingModes == {m \in ModeType : ~m.blocking}

BidirModes == {m \in ModeType : m.bidir}
=============================================================================
