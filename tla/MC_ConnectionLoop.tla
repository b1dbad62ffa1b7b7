------------------------- MODULE MC_ConnectionLoop -------------------------
(* Instances of ConnectionLoop for TLC: three SRT socket ids, and the      *)
(* configurations and library failures each run explores.                  *)
EXTENDS ConnectionLoop

MCHandles == 1..3

\* Every combination of the command-line flags and URI shapes.
AllConfigs == ConfigType

\* Every failure the SRT library can report on the modelled paths.
AllFaults == FaultKinds

\* A non-blocking listener whose port is taken: the bind fails.
BusyPortConfigs ==
    {c \in ConfigType : c.mode = "LISTENER" /\ c.scheme = "srt" /\ c.optionsValid
                        /\ ~c.blocking /\ c.reconnect}
BindFault == {"bind"}

\* A blocking caller whose peer refuses the connection.
BlockingCallerConfigs ==
    {c \in ConfigType : c.mode = "CALLER" /\ c.scheme = "srt" /\ c.optionsValid
                        /\ c.blocking}

\* The two ways an attempt fails after its socket was created.
ReleaseConfigs == BusyPortConfigs \cup BlockingCallerConfigs

\* A listener whose srt_listen fails.
ListenFault == {"listen"}
ListenerConfigs ==
    {c \in ConfigType : c.mode = "LISTENER" /\ c.scheme = "srt" /\ c.optionsValid
                        /\ c.reconnect}

\* The configurations and faults under which sockets are released.
LifecycleConfigs == ReleaseConfigs \cup ListenerConfigs
LifecycleFaults == BindFault \cup ListenFault

\* Valid configurations and a peer that may never come.
ValidConfigs == {c \in ConfigType : c.scheme = "srt" /\ c.optionsValid}
NoFaults == {}
=============================================================================
