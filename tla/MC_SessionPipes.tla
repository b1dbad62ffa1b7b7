-------------------------- MODULE MC_SessionPipes --------------------------
(* Instances of SessionPipes for TLC: the valid configurations of         *)
(* common_run, and generator and receiver configurations that between     *)
(* them take every way a pipe can end.                                     *)
EXTENDS SessionPipes

MCHandles == 1..3

\* Every valid SRT configuration, with a library that does not fail: the
\* sessions, reconnects and cancels are what the pipes meet.
SessionConfigs == {c \in ConfigType : c.scheme = "srt" /\ c.optionsValid}
NoFaults == {}

\* A lossy generator bounded by a message count, a generator bounded by a
\* duration, a receiver with metrics written to a file, and a receiver that
\* replies and keeps no metrics.
MCPipeConfigs ==
    { [cmd |-> "generate", duration |-> FALSE, lossy |-> TRUE],
      [cmd |-> "generate", duration |-> TRUE, lossy |-> FALSE],
      [cmd |-> "receive", metrics |-> TRUE, metricsFile |-> TRUE, reply |-> FALSE],
      [cmd |-> "receive", metrics |-> FALSE, metricsFile |-> FALSE, reply |-> TRUE] }

MCMaxIter == 2
=============================================================================
