--------------------------- MODULE ConnectionLoop ---------------------------
(***************************************************************************)
(* The connection factory and reconnect loop (misc.cpp: create_connection, *)
(* common_run) together with the life of the SRT socket objects it builds  *)
(* (srt_socket.cpp: the URI constructor, listen, accept, connect and the   *)
(* destructor).                                                            *)
(*                                                                         *)
(* One thread runs common_run.  Its steps are split only where the thread  *)
(* suspends: the sleep that rate-limits retries, the blocking accept or    *)
(* connect (timeout -1), and the processing callback.  The peer, the SRT   *)
(* library's failures and the signal handler that sets force_break are the *)
(* environment.  Every SRT socket id the library hands out is a handle     *)
(* whose record says what the library holds for it (state, how often      *)
(* srt_close was called on it, whether a C++ srt object still owns it, and *)
(* how many epoll containers were created for it and not released).        *)
(*                                                                         *)
(* Time is kept relative to now, in whole seconds: nextIn is the time left *)
(* until nextReconnect, sleepIn the time left in sleep_until, sinceStart   *)
(* the time since the previous create_connection began (2 = long ago).     *)
(***************************************************************************)
EXTENDS Naturals, FiniteSets

CONSTANTS
    Handles,   \* the SRT socket ids the library can hand out (naturals)
    NoSock,    \* the empty shared_ptr
    Configs,   \* the command-line and URI configurations explored
    Faults     \* the transport failures the SRT library may report

\* connection_mode as configure_pre sets it from the URI.  FAILURE makes it
\* throw; it stays only in accepted objects, whose mode nothing reads.
Modes      == {"LISTENER", "CALLER", "RENDEZVOUS"}
Schemes    == {"srt", "unknown"}
FaultKinds == {"create", "pre", "epoll", "bind", "listen", "post"}
ConfigType == [mode: Modes, scheme: Schemes, optionsValid: BOOLEAN,
               blocking: BOOLEAN, bind: BOOLEAN, reconnect: BOOLEAN,
               closeListener: BOOLEAN, stats: BOOLEAN]

ASSUME /\ Handles \subseteq Nat /\ NoSock \notin Handles
       /\ Configs \subseteq ConfigType /\ Configs # {}
       /\ Faults \subseteq FaultKinds

SockStates == {"free", "open", "listening", "connected", "closed"}
PcValues   == {"top", "sleeping", "accepting", "connecting", "processing",
               "check", "done"}

VARIABLES
    cfg,         \* the configuration of this run (never changes)
    pc,          \* where the common_run thread is
    srt,         \* [Handles -> handle record]
    slot,        \* listeningSock: the held socket object, or NoSock
    conn,        \* the connection handed to processingFn, or NoSock
    stats,       \* the handles registered with the stats writer
    forceBreak,  \* the shared cancellation flag
    lastErr,     \* what the last iteration's catch saw: none/transport/config
    nextIn,      \* seconds until nextReconnect (0 when it has passed)
    sleepIn,     \* seconds left in sleep_until(nextReconnect)
    sinceStart   \* seconds since the previous attempt began, saturating at 2

vars == <<cfg, pc, srt, slot, conn, stats, forceBreak, lastErr,
          nextIn, sleepIn, sinceStart>>

-----------------------------------------------------------------------------
(* Handle records and what the library and the srt class do to them.      *)

\* A socket id no srt object has taken: the members' defaults before the
\* constructor runs (m_bind_socket = SRT_INVALID_SOCK, no epoll: -1).
Unused == [st |-> "free", closes |-> 0, alive |-> FALSE, epolls |-> 0]

\* A socket id the constructor allocated and then abandoned by throwing:
\* no srt object owns it, so no destructor will close it or its epolls.
Orphan(k) == [st |-> "open", closes |-> 0, alive |-> FALSE, epolls |-> k]

\* The epoll containers a non-blocking URI constructor creates
\* (m_epoll_connect and m_epoll_io).
CtorEpolls == IF cfg.blocking THEN 0 ELSE 2

\* A constructed srt object that owns its socket id.
Fresh == [st |-> "open", closes |-> 0, alive |-> TRUE, epolls |-> CtorEpolls]

\* srt_close(m_bind_socket).
SrtClose(r) == [r EXCEPT !.st = "closed", !.closes = @ + 1]

\* Variant: the destructor closes the socket only in non-blocking mode.
DestructedNonBlockingOnly(r) ==
    IF cfg.blocking THEN [r EXCEPT !.alive = FALSE]
                    ELSE [SrtClose(r) EXCEPT !.alive = FALSE, !.epolls = 0]

\* ~srt(): release the epolls (non-blocking mode), then srt_close.
Destructed(r) == [SrtClose(r) EXCEPT !.alive = FALSE, !.epolls = 0]

FreeHandles == {h \in Handles : srt[h].st = "free"}

\* The id srt_create_socket or srt_accept hands out next.
NewHandle == CHOOSE h \in FreeHandles : \A g \in FreeHandles : h <= g

\* handle_hosts binds when a bind option is given, in rendezvous mode
\* (to the remote port) and in listener mode.
NeedsBind == cfg.bind \/ cfg.mode \in {"RENDEZVOUS", "LISTENER"}

\* assert_options_valid throws on a URI option outside srt_options and
\* {bind, mode}; configure_pre throws on a value SrtConfigurePre rejects.
\* Both are configuration errors raised after srt_create_socket.
OptionsRejected == ~cfg.optionsValid

\* configure_pre returns -1 when srt_setsockopt (SRTO_RCVSYN, or
\* SRTO_RENDEZVOUS in rendezvous mode) fails; the constructor throws.
ConfigurePreFails == "pre" \in Faults

\* configure_post returns -1 when setting SRTO_SNDSYN or SRTO_RCVSYN fails;
\* the options SrtConfigurePost cannot set are only logged.
ConfigurePostFails == "post" \in Faults

\* The object srt(sock, blocking) wraps an accepted id in: it owns the id
\* and, when non-blocking, the one epoll m_epoll_io.
AcceptedObject ==
    [st |-> "connected", closes |-> 0, alive |-> TRUE,
     epolls |-> IF cfg.blocking THEN 0 ELSE 1]

\* create_connection accepts when the socket's mode is LISTENER.
Waiting == IF cfg.mode = "LISTENER" THEN "accepting" ELSE "connecting"

-----------------------------------------------------------------------------
(* Control.                                                                *)

\* A socket::exception leaves create_connection and is caught and logged by
\* common_run, which then evaluates the loop condition.
Throw(kind) == pc' = "check" /\ lastErr' = kind

\* Variant: the catch in create_connection closes the socket itself before
\* resetting listeningSock.
ResetOnErrorClosing(f) ==
    /\ srt' = [f EXCEPT ![slot] = Destructed(SrtClose(@))]
    /\ slot' = NoSock

\* Variant: the catch in create_connection rethrows without resetting.
KeepOnError(f) == srt' = f /\ slot' = slot

\* The catch in create_connection: listeningSock.reset() destroys the held
\* object (the slot is its only owner) before the exception is rethrown.
ResetOnError(f) ==
    /\ srt' = [f EXCEPT ![slot] = Destructed(@)]
    /\ slot' = NoSock

\* stats->add_socket(conn) when a stats file and period are configured.
Attach(a) == IF cfg.stats THEN stats \cup {a} ELSE stats

\* create_connection returned a; common_run drops the listener when asked
\* to, registers the connection with the stats writer and calls
\* processingFn.  held is listeningSock as create_connection left it.
BeginSession(a, f, held) ==
    /\ slot' = IF cfg.closeListener THEN NoSock ELSE held
    /\ srt'  = IF cfg.closeListener /\ held # NoSock
                 THEN [f EXCEPT ![held] = Destructed(@)] ELSE f
    /\ conn' = a
    /\ stats' = Attach(a)
    /\ pc' = "processing"
    /\ UNCHANGED lastErr

-----------------------------------------------------------------------------
(* The loop head.                                                          *)

Init ==
    /\ cfg \in Configs
    /\ pc = "top"
    /\ srt = [h \in Handles |-> Unused]
    /\ slot = NoSock
    /\ conn = NoSock
    /\ stats = {}
    /\ forceBreak = FALSE
    /\ lastErr = "none"
    /\ nextIn = 0
    /\ sleepIn = 0
    /\ sinceStart = 2

\* tnow = now; sleep until nextReconnect if it is ahead; nextReconnect is
\* set from tnow, read before the sleep.
LoopTop ==
    /\ pc = "top"
    /\ sleepIn' = nextIn
    /\ nextIn' = 1
    /\ pc' = "sleeping"
    /\ UNCHANGED <<cfg, srt, slot, conn, stats, forceBreak, lastErr, sinceStart>>

\* create_connection up to the blocking accept or connect.
AttemptStarts ==
    /\ pc = "sleeping"
    /\ sleepIn = 0
    /\ sinceStart' = 0
    /\ UNCHANGED <<cfg, conn, stats, forceBreak, nextIn, sleepIn>>

\* Neither UDP nor SRT: "Unknown protocol".
UnknownScheme ==
    /\ AttemptStarts
    /\ cfg.scheme = "unknown"
    /\ Throw("config")
    /\ UNCHANGED <<srt, slot>>

\* listeningSock is held: reuse it, and do not listen again.
ReuseHeld ==
    /\ AttemptStarts
    /\ cfg.scheme = "srt"
    /\ slot # NoSock
    /\ pc' = Waiting
    /\ UNCHANGED <<srt, slot, lastErr>>

\* The URI constructor throws: srt_create_socket fails (or no id is left);
\* the options are invalid, or configure_pre fails, after the socket was
\* created; the epolls cannot
\* be set up; or the bind fails (handle_hosts closes the socket first).
CtorFails ==
    /\ AttemptStarts
    /\ cfg.scheme = "srt"
    /\ slot = NoSock
    /\ UNCHANGED slot
    /\ \/ /\ "create" \in Faults \/ FreeHandles = {}
          /\ Throw("transport")
          /\ UNCHANGED srt
       \/ /\ FreeHandles # {}
          /\ \/ /\ OptionsRejected
                /\ srt' = [srt EXCEPT ![NewHandle] = Orphan(0)]
                /\ Throw("config")
             \/ /\ cfg.optionsValid /\ ConfigurePreFails
                /\ srt' = [srt EXCEPT ![NewHandle] = Orphan(0)]
                /\ Throw("transport")
             \/ /\ cfg.optionsValid /\ ~cfg.blocking /\ "epoll" \in Faults
                /\ \E k \in 0..2 : srt' = [srt EXCEPT ![NewHandle] = Orphan(k)]
                /\ Throw("transport")
             \/ /\ cfg.optionsValid /\ NeedsBind /\ "bind" \in Faults
                /\ srt' = [srt EXCEPT ![NewHandle] = SrtClose(Orphan(CtorEpolls))]
                /\ Throw("transport")

\* The constructor succeeds and its object becomes listeningSock; in
\* LISTENER mode listen() follows, outside create_connection's try: when
\* srt_listen fails it closes the socket, and listeningSock keeps it; when
\* the configure_post after it fails, the socket is left listening.
Constructed ==
    /\ AttemptStarts
    /\ cfg.scheme = "srt"
    /\ slot = NoSock
    /\ cfg.optionsValid
    /\ FreeHandles # {}
    /\ slot' = NewHandle
    /\ IF cfg.mode = "LISTENER"
         THEN \/ /\ "listen" \in Faults
                 /\ srt' = [srt EXCEPT ![NewHandle] = SrtClose(Fresh)]
                 /\ Throw("transport")
              \/ /\ ConfigurePostFails
                 /\ srt' = [srt EXCEPT ![NewHandle] = [Fresh EXCEPT !.st = "listening"]]
                 /\ Throw("transport")
              \/ /\ srt' = [srt EXCEPT ![NewHandle] = [Fresh EXCEPT !.st = "listening"]]
                 /\ pc' = "accepting"
                 /\ UNCHANGED lastErr
         ELSE /\ srt' = [srt EXCEPT ![NewHandle] = Fresh]
              /\ pc' = "connecting"
              /\ UNCHANGED lastErr

CreateConnection == UnknownScheme \/ ReuseHeld \/ CtorFails \/ Constructed

-----------------------------------------------------------------------------
(* The blocking accept and connect.                                        *)

\* accept() on a held socket that srt_listen already closed: the epoll
\* wait or srt_accept fails at once.
AcceptOnClosed ==
    /\ pc = "accepting"
    /\ srt[slot].st = "closed"
    /\ ResetOnError(srt)
    /\ Throw("transport")
    /\ UNCHANGED <<cfg, conn, stats, forceBreak, nextIn, sleepIn, sinceStart>>

\* The epoll wait or srt_accept reports an error.
AcceptFails ==
    /\ pc = "accepting"
    /\ srt[slot].st = "listening"
    /\ ResetOnError(srt)
    /\ Throw("transport")
    /\ UNCHANGED <<cfg, conn, stats, forceBreak, nextIn, sleepIn, sinceStart>>

\* A caller arrives and srt_accept returns a new id.  If configure_post or
\* the new object's epoll setup fails, the id is never wrapped in an object.
Accepted ==
    /\ pc = "accepting"
    /\ srt[slot].st = "listening"
    /\ FreeHandles # {}
    /\ LET a == NewHandle
       IN \/ /\ ConfigurePostFails
             /\ ResetOnError([srt EXCEPT ![a] = [Orphan(0) EXCEPT !.st = "connected"]])
             /\ Throw("transport")
             /\ UNCHANGED <<conn, stats>>
          \/ BeginSession(a, [srt EXCEPT ![a] = AcceptedObject], slot)
    /\ UNCHANGED <<cfg, forceBreak, nextIn, sleepIn, sinceStart>>

\* srt_connect fails: in blocking mode it closes the socket before raising;
\* in non-blocking mode the failure comes either at once (closed as well)
\* or from the epoll wait (not closed).
ConnectFails ==
    /\ pc = "connecting"
    /\ \E closeFirst \in IF cfg.blocking THEN {TRUE} ELSE BOOLEAN :
          ResetOnError([srt EXCEPT ![slot] = IF closeFirst THEN SrtClose(@) ELSE @])
    /\ Throw("transport")
    /\ UNCHANGED <<cfg, conn, stats, forceBreak, nextIn, sleepIn, sinceStart>>

\* The connection is established; configure_post may still fail.  On
\* success connect() returns the object itself, and since the mode is not
\* LISTENER create_connection resets listeningSock: the object lives on as
\* the connection.
Connected ==
    /\ pc = "connecting"
    /\ \/ /\ ConfigurePostFails
          /\ ResetOnError(srt)
          /\ Throw("transport")
          /\ UNCHANGED <<conn, stats>>
       \/ BeginSession(slot, [srt EXCEPT ![slot].st = "connected"], NoSock)
    /\ UNCHANGED <<cfg, forceBreak, nextIn, sleepIn, sinceStart>>

-----------------------------------------------------------------------------
(* Processing and the loop condition.                                      *)

\* Variant: the connection is not removed from the stats writer.
DetachNever(c) == stats

\* stats->remove_socket(conn->id()).
Detach(c) == IF cfg.stats THEN stats \ {c} ELSE stats

\* processingFn returns (its pipe ended on a peer error, or saw force_break
\* after a read returned); the connection is detached and, going out of
\* scope, destroyed.
PipeEnds ==
    /\ pc = "processing"
    /\ stats' = Detach(conn)
    /\ srt' = [srt EXCEPT ![conn] = Destructed(@)]
    /\ conn' = NoSock
    /\ pc' = "check"
    /\ lastErr' = "none"
    /\ UNCHANGED <<cfg, slot, forceBreak, nextIn, sleepIn, sinceStart>>

\* Variant: the loop repeats only after a failed attempt, so a session
\* that ends normally ends the run.
LoopConditionAfterErrorOnly ==
    /\ pc = "check"
    /\ IF cfg.reconnect /\ ~forceBreak /\ lastErr # "none"
         THEN /\ pc' = "top"
              /\ UNCHANGED <<srt, slot>>
         ELSE /\ pc' = "done"
              /\ slot' = NoSock
              /\ srt' = IF slot # NoSock THEN [srt EXCEPT ![slot] = Destructed(@)]
                                         ELSE srt
    /\ UNCHANGED <<cfg, conn, stats, forceBreak, lastErr, nextIn, sleepIn, sinceStart>>

\* while (reconnect && !forceBreak); on leaving common_run the local
\* listeningSock is destroyed.
LoopCondition ==
    /\ pc = "check"
    /\ IF cfg.reconnect /\ ~forceBreak
         THEN /\ pc' = "top"
              /\ UNCHANGED <<srt, slot>>
         ELSE /\ pc' = "done"
              /\ slot' = NoSock
              /\ srt' = IF slot # NoSock THEN [srt EXCEPT ![slot] = Destructed(@)]
                                         ELSE srt
    /\ UNCHANGED <<cfg, conn, stats, forceBreak, lastErr, nextIn, sleepIn, sinceStart>>

\* The signal handler sets the shared flag, once.
Cancel ==
    /\ ~forceBreak
    /\ forceBreak' = TRUE
    /\ UNCHANGED <<cfg, pc, srt, slot, conn, stats, lastErr, nextIn, sleepIn, sinceStart>>

\* One second passes while the thread is suspended: in sleep_until, or
\* blocked in accept, connect or processingFn.
Suspended ==
    \/ pc = "sleeping" /\ sleepIn > 0
    \/ pc \in {"accepting", "connecting", "processing"}

Tick ==
    /\ Suspended
    /\ nextIn > 0 \/ sleepIn > 0 \/ sinceStart < 2
    /\ nextIn' = IF nextIn > 0 THEN nextIn - 1 ELSE 0
    /\ sleepIn' = IF sleepIn > 0 THEN sleepIn - 1 ELSE 0
    /\ sinceStart' = IF sinceStart < 2 THEN sinceStart + 1 ELSE 2
    /\ UNCHANGED <<cfg, pc, srt, slot, conn, stats, forceBreak, lastErr>>

Next ==
    \/ LoopTop \/ CreateConnection \/ AcceptOnClosed \/ LoopCondition \/ Tick
    \/ AcceptFails \/ Accepted \/ ConnectFails \/ Connected \/ PipeEnds
    \/ Cancel

\* The loop's own steps and time are weakly fair.  A connect ends: srt
\* gives up after its connection timeout (SRTO_CONNTIMEO), which fails the
\* blocking srt_connect and raises the error event the non-blocking epoll
\* wait returns on.  The peer (accept, the end of the pipe) and the signal
\* handler get no fairness.
Fairness ==
    /\ WF_vars(LoopTop) /\ WF_vars(CreateConnection) /\ WF_vars(AcceptOnClosed)
    /\ WF_vars(LoopCondition) /\ WF_vars(Tick)
    /\ WF_vars(ConnectFails \/ Connected)

Spec == Init /\ [][Next]_vars /\ Fairness

-----------------------------------------------------------------------------
(* Properties.                                                             *)

HandleRecord == [st: SockStates, closes: 0..2, alive: BOOLEAN, epolls: 0..2]

\* Every variable keeps its type.
TypeOK ==
    /\ cfg \in Configs
    /\ pc \in PcValues
    /\ srt \in [Handles -> HandleRecord]
    /\ slot \in Handles \cup {NoSock}
    /\ conn \in Handles \cup {NoSock}
    /\ stats \in SUBSET Handles
    /\ forceBreak \in BOOLEAN
    /\ lastErr \in {"none", "transport", "config"}
    /\ nextIn \in 0..1 /\ sleepIn \in 0..1 /\ sinceStart \in 0..2

\* A caller or rendezvous socket is never carried into the next attempt:
\* whatever way create_connection ended (connected, refused, configure_post
\* failure), listeningSock is empty when the loop starts over.
CallerSocketNotReused ==
    (pc \in {"top", "sleeping"} /\ cfg.mode # "LISTENER") => slot = NoSock

\* No listening socket is ever out of reach: a handle in the listening
\* state is the one listeningSock holds, across closeListener, accept
\* failures and the end of common_run.
NoOrphanListener ==
    \A h \in Handles : srt[h].st = "listening" => h = slot

\* The stats writer samples exactly the connection being processed: it is
\* attached before processingFn runs and detached before the next attempt.
StatsTracksSession ==
    stats = IF pc = "processing" /\ cfg.stats THEN {conn} ELSE {}

\* The retry policy of common_run (spec 4.2): an attempt begins at least one
\* second after the previous one began, and a configuration error (unknown
\* scheme, an invalid URI option) is fatal: the loop check after it never
\* goes back to the top of the loop for another attempt.
RetryPolicy ==
    [][/\ (pc = "sleeping" /\ pc' # "sleeping" => sinceStart >= 1)
       /\ (pc = "check" /\ lastErr = "config" => pc' # "top")]_vars

\* An SRT socket id or epoll container is leaked when no live srt object
\* owns it and it was not released.
Leaked(h) == ~srt[h].alive /\ (srt[h].st \notin {"free", "closed"} \/ srt[h].epolls > 0)

\* The lifecycle of every SRT socket (spec 5: an endpoint has one owner,
\* and the prior owner performs no further operation on it; spec 8: it is
\* closed exactly once): every socket id and epoll container the library
\* handed out is released exactly once, nothing being left behind by a
\* constructor that throws, and the socket held across iterations for the
\* next accept has not been released but can still accept.
SocketLifecycle ==
    /\ \A h \in Handles : ~Leaked(h) /\ srt[h].closes <= 1
    /\ (pc \in {"top", "sleeping"} /\ slot # NoSock) => srt[slot].st = "listening"

\* Once force_break is set, common_run eventually returns.
CancelTerminates == forceBreak ~> (pc = "done")

=============================================================================
