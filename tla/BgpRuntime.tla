----------------------------- MODULE BgpRuntime -----------------------------
(***************************************************************************)
(* The BGP runtime thread (bgp/runtime.zig) and what it owns: the TCP      *)
(* transport, the reconnect timer and back-off, the connector handle, and  *)
(* the accounting state that must balance before the bundle is destroyed   *)
(* (reconnect_ownership.zig, runtime/allocation_tracker*.zig).             *)
(*                                                                         *)
(* Beside the thread run the listener thread, which offers inbound         *)
(* connections, the main thread's cleanupBgpBundle, the peer, and time.    *)
(* The hand-off of an inbound connection is one step here, with the        *)
(* outcomes its race may have; PassiveListener models the race itself and  *)
(* accounts for the descriptors it loses.  One iteration of the session is *)
(* one step; BgpSession models what happens inside it.                     *)
(*                                                                         *)
(* Time is counted in units of the initial back-off, and a deadline is the *)
(* time left until it.                                                     *)
(***************************************************************************)
EXTENDS Naturals

CONSTANTS
    InitialBackoff,     \* DEFAULT_RECONNECT_INITIAL_MS
    MaxBackoff,         \* DEFAULT_RECONNECT_MAX_MS
    HasListener,        \* local_address is configured
    HoldTimer           \* the two ends negotiate a hold time other than 0

ASSUME BackoffAssumption ==
    /\ InitialBackoff \in Nat \ {0}
    /\ MaxBackoff \in Nat
    /\ InitialBackoff <= MaxBackoff

ASSUME ListenerAssumption == HasListener \in BOOLEAN /\ HoldTimer \in BOOLEAN

VARIABLES
    pc,                         \* runtime thread
    state,                      \* bundle.state
    sess_state,                 \* bundle.sess.status.state
    export_complete,            \* bundle.sess.export_complete
    tcp,                        \* bundle.tcp: how the connection came about
    peer_port,                  \* bundle.session_config.peer_port
    socket_owned,
    active_connector_handle,
    acquire_inflight,           \* production_connector_ctx
    reconnect_timer_active,
    reconnect_deadline,
    backoff_ms,
    mem,                        \* ReconnectMemoryState
    mpc,                        \* main thread: progress of cleanupBgpBundle
    pending,                    \* what has_pending_accept announces
    open_fds,                   \* open descriptors the thread opened or took over
    peer,                       \* the BGP peer
    link,                       \* the connection of tcp, seen from the peer
    routes_sent,                \* the UPDATEs were sent on the connection of tcp
    waited                      \* time since the last scheduleReconnect

thread == <<pc, state>>
sess == <<sess_state, export_complete>>
conn == <<tcp, socket_owned, active_connector_handle, acquire_inflight, peer_port>>
timer == <<reconnect_timer_active, reconnect_deadline, backoff_ms, waited>>
env == <<peer, link, routes_sent>>
vars == <<thread, sess, conn, timer, mem, mpc, pending, open_fds, env>>

NoConn == "none"
Closed == "closed"
NoHandle == "none"

SessionStates == {"idle", "open_sent", "open_confirm", "established", "failed"}

\* a connection the peer serves, one whose end the thread can read (a FIN, a
\* reset, a NOTIFICATION, a bad frame), one on which nothing comes any more
Links == {"good", "ended", "silent"}

\* an attempt is under way
Attempting == pc \in {"connecting", "dialling"}

\* open sockets and timers, the adopted handle, handles not yet released
ReconnectMemoryState ==
    [sockets : Nat, timers : Nat, handle : {NoHandle, "adopted"}, unreleased : Nat,
     fate : {"ok", "panicked"}]

TypeOK ==
    /\ pc \in {"top", "connecting", "dialling", "passive", "session", "exited"}
    /\ state \in {"configured", "reconnect_wait"}
    /\ sess_state \in SessionStates
    /\ export_complete \in BOOLEAN
    /\ tcp \in {Closed, "active", "passive"}
    /\ peer_port \in {"configured", "ephemeral"}
    /\ socket_owned \in BOOLEAN
    /\ active_connector_handle \in BOOLEAN
    /\ acquire_inflight \in BOOLEAN
    /\ reconnect_timer_active \in BOOLEAN
    /\ reconnect_deadline \in 0 .. MaxBackoff
    /\ backoff_ms \in 0 .. MaxBackoff
    /\ waited \in 0 .. MaxBackoff
    /\ mem \in ReconnectMemoryState
    /\ mpc \in {"serving", "joining", "closing", "destroying", "done"}
    /\ pending \in {NoConn, "empty"} \cup Links
    /\ open_fds \in Nat
    /\ peer \in {"down", "up", "stable"}
    /\ link \in Links
    /\ routes_sent \in BOOLEAN

(* loadConfigAndBgp connected before the bundle was built; the thread may  *)
(* fail to start, and the daemon goes on without it.                       *)
Init ==
    /\ pc \in {"top", "exited"}
    /\ state = "configured"
    /\ sess_state = "idle"
    /\ export_complete = FALSE
    /\ tcp = "active"
    /\ peer_port = "configured"
    /\ socket_owned = TRUE
    /\ active_connector_handle = FALSE
    /\ acquire_inflight = FALSE
    /\ reconnect_timer_active = FALSE
    /\ reconnect_deadline = 0
    /\ backoff_ms = 0
    /\ waited = 0
    /\ mem = [sockets |-> 1, timers |-> 0, handle |-> NoHandle, unreleased |-> 0,
              fate |-> "ok"]
    /\ mpc = "serving"
    /\ pending = NoConn
    /\ open_fds = 1
    /\ peer = "up"
    /\ link = "good"
    /\ routes_sent = FALSE

-----------------------------------------------------------------------------
(* ReconnectMemoryState: every function takes the state and returns it.    *)

Panic(m) == [m EXCEPT !.fate = "panicked"]

recordSocketOpen(m) == [m EXCEPT !.sockets = @ + 1]
recordSocketClose(m) == IF m.sockets = 0 THEN Panic(m) ELSE [m EXCEPT !.sockets = @ - 1]
recordTimerStart(m) == [m EXCEPT !.timers = @ + 1]
recordTimerStop(m) == IF m.timers = 0 THEN Panic(m) ELSE [m EXCEPT !.timers = @ - 1]

adoptHandle(m) == [m EXCEPT !.handle = "adopted", !.unreleased = @ + 1]

\* the callers turn its NoActiveHandle error into a panic
releaseHandle(m) ==
    IF m.handle = NoHandle THEN Panic(m)
    ELSE [m EXCEPT !.handle = NoHandle, !.unreleased = @ - 1]

validateForDestroy(m) ==
    m.handle = NoHandle /\ m.unreleased = 0 /\ m.sockets = 0 /\ m.timers = 0

-----------------------------------------------------------------------------
(* reconnect_lifecycle.zig and reconnect_ownership.zig                     *)

\* variant: the case of a back-off that was reset is missing
computeNextBackoff_NoInitial(current) ==
    IF 2 * current > MaxBackoff THEN MaxBackoff ELSE 2 * current

computeNextBackoff(current) ==
    IF current = 0 THEN InitialBackoff
    ELSE IF 2 * current > MaxBackoff THEN MaxBackoff ELSE 2 * current

scheduleReconnect(m) ==
    /\ backoff_ms' = computeNextBackoff(backoff_ms)
    /\ mem' = IF reconnect_timer_active THEN m ELSE recordTimerStart(m)
    /\ reconnect_timer_active' = TRUE
    /\ reconnect_deadline' = backoff_ms'
    /\ waited' = 0
    /\ state' = "reconnect_wait"

resetBackoff == backoff_ms' = 0 /\ reconnect_deadline' = 0

\* the accounting of closeForReconnect and of cancelReconnectTimer
ClosedMem ==
    LET m1 == IF socket_owned THEN recordSocketClose(mem) ELSE mem
        m2 == IF active_connector_handle THEN releaseHandle(m1) ELSE m1
    IN  IF reconnect_timer_active THEN recordTimerStop(m2) ELSE m2

Bit(b) == IF b THEN 1 ELSE 0

\* the rest of closeForReconnect: the bundle and the session
closeForReconnect ==
    /\ tcp' = Closed
    /\ socket_owned' = FALSE
    /\ active_connector_handle' = FALSE
    /\ reconnect_timer_active' = FALSE
    /\ reconnect_deadline' = 0
    /\ sess_state' = "idle"
    /\ export_complete' = FALSE

-----------------------------------------------------------------------------
(* bgpRuntimeThread, one iteration                                         *)

Running == mpc = "serving"      \* ~isCleanupRequested(bundle)

ThreadExits ==
    /\ pc = "top" /\ ~Running
    /\ pc' = "exited"
    /\ UNCHANGED <<state, sess, conn, timer, mem, mpc, pending, open_fds, env>>

\* not waiting: on to the passive connection and the session
BeginIteration ==
    /\ pc = "top" /\ Running /\ state = "configured"
    /\ pc' = "passive"
    /\ UNCHANGED <<state, sess, conn, timer, mem, mpc, pending, open_fds, env>>

\* isReconnectReady cancels the timer; doReconnectWithClock tears the old
\* generation down and reconnectTransport goes as far as the connect().
\* AcquireNeverRefused: acquire and adoptHandle have nothing to refuse here.
StartAttempt ==
    /\ pc = "top" /\ Running /\ state = "reconnect_wait"
    /\ reconnect_deadline = 0
    /\ closeForReconnect
    /\ mem' = adoptHandle(recordSocketOpen(ClosedMem))
    /\ acquire_inflight' = TRUE
    /\ open_fds' = open_fds - Bit(tcp /= Closed)
    /\ pc' = "connecting"
    /\ UNCHANGED <<state, peer_port, backoff_ms, waited, mpc, pending, env>>

\* TcpTransport.connect: the descriptor exists from socket() on
OpenSocket ==
    /\ pc = "connecting"
    /\ open_fds' = open_fds + 1
    /\ pc' = "dialling"
    /\ UNCHANGED <<state, sess, conn, timer, mem, mpc, pending, env>>

AttemptSucceeds ==
    /\ pc = "dialling"
    /\ peer /= "down" /\ peer_port = "configured"
    /\ tcp' = "active" /\ link' = "good" /\ routes_sent' = FALSE
    /\ socket_owned' = TRUE
    /\ active_connector_handle' = TRUE
    /\ acquire_inflight' = FALSE
    /\ resetBackoff
    /\ state' = "configured"
    /\ pc' = "passive"
    /\ UNCHANGED <<sess, peer_port, reconnect_timer_active, waited, mem, mpc, pending,
                   open_fds, peer>>

\* variants: the errdefer of recordSocketOpen is missing; so is that of socket()
AttemptFails_SocketStaysOpen ==
    /\ Attempting
    /\ ~(peer = "stable" /\ peer_port = "configured")
    /\ open_fds' = open_fds - Bit(pc = "dialling")
    /\ scheduleReconnect(releaseHandle(mem))
    /\ acquire_inflight' = FALSE
    /\ pc' = "top"
    /\ UNCHANGED <<sess, tcp, socket_owned, active_connector_handle, peer_port, mpc,
                   pending, env>>

AttemptFails_LeaksDescriptor ==
    /\ Attempting
    /\ ~(peer = "stable" /\ peer_port = "configured")
    /\ scheduleReconnect(recordSocketClose(releaseHandle(mem)))
    /\ acquire_inflight' = FALSE
    /\ pc' = "top"
    /\ UNCHANGED <<sess, tcp, socket_owned, active_connector_handle, peer_port, mpc,
                   pending, open_fds, env>>

\* the errdefers release the handle, the accounted socket and, from socket()
\* on, the descriptor; the thread schedules the next attempt.  Nobody listens
\* on the port a peer dialled from.
AttemptFails ==
    /\ Attempting
    /\ ~(peer = "stable" /\ peer_port = "configured")
    /\ open_fds' = open_fds - Bit(pc = "dialling")
    /\ scheduleReconnect(recordSocketClose(releaseHandle(mem)))
    /\ acquire_inflight' = FALSE
    /\ pc' = "top"
    /\ UNCHANGED <<sess, tcp, socket_owned, active_connector_handle, peer_port, mpc,
                   pending, env>>

NoPassive ==
    /\ pc = "passive" /\ pending = NoConn
    /\ pc' = "session"
    /\ UNCHANGED <<state, sess, conn, timer, mem, mpc, pending, open_fds, env>>

\* the listener stored another connection while acceptConnection reset the
\* slot: the flag is up again, and there is no descriptor behind it
Refilled == pending' \in {NoConn, "empty"}

\* variant: the guard on the session's state is missing
TakePassive_Preempts ==
    /\ pc = "passive" /\ pending \in Links
    /\ tcp' = "passive" /\ link' = pending /\ routes_sent' = FALSE
    /\ open_fds' = open_fds + 1 - Bit(tcp /= Closed)
    /\ Refilled
    /\ sess_state' = "idle"
    /\ peer_port' = "ephemeral"
    /\ pc' = "session"
    /\ UNCHANGED <<state, export_complete, socket_owned, active_connector_handle,
                   acquire_inflight, timer, mem, mpc, peer>>

\* the session moves to the inbound connection; its export flags stay, and
\* the port the peer dialled from replaces the configured one
TakePassive ==
    /\ pc = "passive" /\ pending \in Links /\ sess_state /= "established"
    /\ tcp' = "passive" /\ link' = pending /\ routes_sent' = FALSE
    /\ open_fds' = open_fds + 1 - Bit(tcp /= Closed)
    /\ Refilled
    /\ sess_state' = "idle"
    /\ peer_port' = "ephemeral"
    /\ state' = "configured"
    /\ pc' = "session"
    /\ UNCHANGED <<export_complete, socket_owned, active_connector_handle,
                   acquire_inflight, timer, mem, mpc, peer>>

\* acceptConnection finds no descriptor: the iteration ends without the session
AcceptFails ==
    /\ pc = "passive" /\ pending = "empty" /\ sess_state /= "established"
    /\ pending' = NoConn
    /\ pc' = "top"
    /\ UNCHANGED <<state, sess, conn, timer, mem, mpc, open_fds, env>>

\* taken from the slot and closed at once, if there is one
RefusePassive ==
    /\ pc = "passive" /\ pending /= NoConn /\ sess_state = "established"
    /\ IF pending = "empty" THEN pending' = NoConn ELSE Refilled
    /\ pc' = "session"
    /\ UNCHANGED <<state, sess, conn, timer, mem, mpc, open_fds, env>>

(* runSessionOnce and the switch on its result.  The UPDATEs of a session  *)
(* go out in the first iteration that finds it established.                *)
Export ==
    /\ export_complete' = (export_complete \/ sess_state = "established")
    /\ routes_sent' = (routes_sent \/ (sess_state = "established" /\ ~export_complete))

\* states runOnce may leave the session in without failing it; on a link that
\* has ended or fell silent nothing more comes from the peer
Advance(s) ==
    CASE s = "idle"                            -> {"open_sent"}
      [] s = "open_sent" /\ link = "good"      -> {"open_sent", "open_confirm", "established"}
      [] s = "open_confirm" /\ link = "good"   -> {"open_confirm", "established"}
      [] s = "failed"                          -> {}
      [] OTHER                                 -> {s}

\* result .ok, or .established on the step that establishes the session
SessionAdvances ==
    /\ pc = "session"
    /\ sess_state' \in Advance(sess_state)
    /\ Export
    /\ IF sess_state' = "established" /\ sess_state /= "established"
       THEN resetBackoff
       ELSE UNCHANGED <<backoff_ms, reconnect_deadline>>
    /\ pc' = "top"
    /\ UNCHANGED <<state, conn, reconnect_timer_active, waited, mem, mpc, pending, open_fds,
                   peer, link>>

\* variant: only errors of runOnce schedule a reconnect, its result .failed
\* does not
SessionFails_Unscheduled ==
    /\ pc = "session"
    /\ link /= "good" \/ sess_state = "failed"
    /\ sess_state' = "failed"
    /\ Export \/ UNCHANGED <<export_complete, routes_sent>>
    /\ pc' = "top"
    /\ UNCHANGED <<state, conn, timer, mem, mpc, pending, open_fds, peer, link>>

\* result .failed, or an error of runOnce, which runSessionOnce turns into it;
\* an expired hold timer fails the session before it exports.  A connection
\* that fell silent may also end by the kernel's own time-outs.
SessionFails ==
    /\ pc = "session"
    /\ link /= "good" \/ sess_state = "failed"
    /\ sess_state' = "failed"
    /\ Export \/ UNCHANGED <<export_complete, routes_sent>>
    /\ scheduleReconnect(mem)
    /\ pc' = "top"
    /\ UNCHANGED <<conn, mpc, pending, open_fds, peer, link>>

\* tryDecodeFrame fails the session on a bad frame and returns null, as it
\* does when no frame is complete: runOnce returns .ok
SessionFailsUnreported ==
    /\ pc = "session"
    /\ link = "ended" /\ sess_state \in {"open_sent", "open_confirm", "established"}
    /\ sess_state' = "failed"
    /\ Export
    /\ pc' = "top"
    /\ UNCHANGED <<state, conn, timer, mem, mpc, pending, open_fds, peer, link>>

-----------------------------------------------------------------------------
(* cleanupBgpBundle *)

RequestCleanup ==
    /\ mpc = "serving"
    /\ mpc' = "joining"
    /\ UNCHANGED <<thread, sess, conn, timer, mem, pending, open_fds, env>>

JoinRuntimeThread ==
    /\ mpc = "joining" /\ pc = "exited"
    /\ mpc' = "closing"
    /\ UNCHANGED <<thread, sess, conn, timer, mem, pending, open_fds, env>>

\* closePassiveListener, then closeForReconnect
CloseBundle ==
    /\ mpc = "closing"
    /\ mpc' = "destroying"
    /\ pending' = NoConn
    /\ open_fds' = open_fds - Bit(tcp /= Closed)
    /\ closeForReconnect
    /\ mem' = ClosedMem
    /\ UNCHANGED <<thread, acquire_inflight, peer_port, backoff_ms, waited, env>>

destroyMemoryState ==
    /\ mpc = "destroying"
    /\ mpc' = "done"
    /\ mem' = IF validateForDestroy(mem) THEN mem ELSE Panic(mem)
    /\ UNCHANGED <<thread, sess, conn, timer, pending, open_fds, env>>

-----------------------------------------------------------------------------
(* The peer, its connections, and time *)

PeerDown ==
    /\ peer = "up"
    /\ peer' = "down" /\ link' \in Links \ {"good"}
    /\ pending' \in IF pending = "good" THEN Links \ {"good"} ELSE {pending}
    /\ UNCHANGED <<thread, sess, conn, timer, mem, mpc, open_fds, routes_sent>>

PeerUp ==
    /\ peer = "down"
    /\ peer' = "up"
    /\ UNCHANGED <<thread, sess, conn, timer, mem, mpc, pending, open_fds, link, routes_sent>>

\* from here on the peer stays up and keeps to the protocol, and what this
\* host needs for an attempt is there
PeerStable ==
    /\ peer = "up"
    /\ peer' = "stable"
    /\ UNCHANGED <<thread, sess, conn, timer, mem, mpc, pending, open_fds, link, routes_sent>>

\* it closes the connection, sends a NOTIFICATION or what the session cannot
\* decode, or goes silent: the thread has read everything before that
PeerEndsSession ==
    /\ peer = "up" /\ link = "good"
    /\ link' \in {"ended", "silent"}
    /\ UNCHANGED <<thread, sess, conn, timer, mem, mpc, pending, open_fds, peer, routes_sent>>

\* the listener closes a second connection while one is pending
PeerDials ==
    /\ HasListener /\ mpc \in {"serving", "joining"}
    /\ peer /= "down" /\ pending = NoConn
    /\ pending' = "good"
    /\ UNCHANGED <<thread, sess, conn, timer, mem, mpc, open_fds, env>>

Tick ==
    /\ reconnect_deadline > 0
    /\ reconnect_deadline' = reconnect_deadline - 1
    /\ waited' = waited + 1
    /\ UNCHANGED <<thread, sess, conn, reconnect_timer_active, backoff_ms, mem, mpc, pending,
                   open_fds, env>>

-----------------------------------------------------------------------------
RuntimeThread ==
    \/ ThreadExits
    \/ BeginIteration
    \/ StartAttempt
    \/ OpenSocket
    \/ AttemptSucceeds
    \/ AttemptFails
    \/ NoPassive
    \/ TakePassive
    \/ AcceptFails
    \/ RefusePassive
    \/ SessionAdvances
    \/ SessionFails
    \/ SessionFailsUnreported

Cleanup == JoinRuntimeThread \/ CloseBundle \/ destroyMemoryState

Environment == PeerDown \/ PeerUp \/ PeerStable \/ PeerEndsSession \/ PeerDials

Next ==
    \/ RuntimeThread
    \/ RequestCleanup
    \/ Cleanup
    \/ Environment
    \/ Tick
    \/ mpc = "done" /\ UNCHANGED vars       \* the process has shut down

Spec == Init /\ [][Next]_vars

\* the session waits for a peer that says nothing, and no timer runs: a hold
\* timer exists in .established only, TCP keep-alive is not switched on, and
\* what the kernel does of itself depends on what it has left to send
Unwatched ==
    /\ link = "silent"
    /\ \/ sess_state \in {"open_sent", "open_confirm"}
       \/ sess_state = "established" /\ ~HoldTimer

(* The thread runs, time passes and a shutdown that was begun goes on.  A  *)
(* session whose connection has ended reads so, one that is watched runs   *)
(* into its hold timer, and a peer that keeps its end answers.  PeerStable *)
(* is not fair: nothing says the peer ever settles.                        *)
Fairness ==
    /\ WF_vars(RuntimeThread)
    /\ SF_vars(SessionFails /\ ~Unwatched)
    /\ SF_vars(SessionAdvances /\ sess_state' /= sess_state)
    /\ WF_vars(Cleanup)
    /\ WF_vars(Tick)

FairSpec == Spec /\ Fairness

-----------------------------------------------------------------------------
(* The accounting state mirrors what the bundle owns, at every step: one   *)
(* socket and one handle while an attempt is under way or a connection is  *)
(* held, one timer while it waits (closeForReconnect, reconnectTransport   *)
(* and its errdefers, scheduleReconnect, cancelReconnectTimer).            *)
AccountingMatches ==
    /\ mem.sockets = Bit(socket_owned) + Bit(Attempting)
    /\ mem.timers = Bit(reconnect_timer_active)
    /\ mem.handle /= NoHandle <=> active_connector_handle \/ Attempting
    /\ mem.unreleased = Bit(mem.handle /= NoHandle)

(* Of the descriptors the thread opened by socket() or took over from the  *)
(* listener, those still open are the one of bundle.tcp and the one an     *)
(* attempt is connecting: none is left behind by an attempt that fails at  *)
(* any point, by a take-over, a refusal or the shutdown.  The accounting   *)
(* state, which is kept elsewhere, counts them, with the one an attempt    *)
(* records before socket() opens it.                                       *)
DescriptorsMatch ==
    /\ open_fds = Bit(tcp /= Closed) + Bit(pc = "dialling")
    /\ mem.sockets = open_fds + Bit(pc = "connecting")

(* None of the fail-loud checks of the accounting state ever fires: not    *)
(* recordSocketClose, recordTimerStop, releaseHandle, nor the validation   *)
(* in destroyMemoryState, at whatever step the shutdown comes.             *)
NeverPanics == mem.fate = "ok"

(* The bundle owns a socket whenever an iteration of the session runs, and *)
(* the timer runs exactly while the thread waits.                          *)
OwnedWhileRunning ==
    /\ pc \in {"passive", "session"} => socket_owned /\ tcp /= Closed
    /\ pc = "top" => (reconnect_timer_active <=> state = "reconnect_wait")

(* An attempt never finds a handle in flight, so realAcquire and           *)
(* adoptHandle never return HandleAlreadyActive.                           *)
AcquireNeverRefused ==
    pc = "top" => ~acquire_inflight /\ ClosedMem.handle = NoHandle

(* "no hot loop" (docs/bgp/README.md): an attempt comes at least the       *)
(* initial back-off after the failure it follows, whatever reset the       *)
(* back-off in between.                                                    *)
PacedRetries == Attempting => waited >= InitialBackoff

(* An established session ends only because its own connection did: no     *)
(* inbound connection, retry or reset of the runtime displaces it, except  *)
(* the shutdown.                                                           *)
EstablishedKept ==
    [][sess_state = "established" /\ sess_state' /= "established"
        => link /= "good" \/ mpc = "closing"]_vars

(* A failed session is always followed up, by a new attempt or by an       *)
(* inbound connection, also when the failing iteration reported .ok.       *)
FailureFollowedUp == sess_state = "failed" ~> sess_state /= "failed" \/ pc = "exited"

(* cleanupBgpBundle terminates, also in the middle of a back-off.          *)
CleanupTerminates == mpc = "joining" ~> mpc = "done"

(* A peer that has settled gets its session from the daemon's attempts,    *)
(* unless an inbound connection has replaced the port they dial, or the    *)
(* session waits for ever for one who fell silent during the handshake.    *)
RecoversByDialling ==
    \/ <>[]Unwatched
    \/ peer = "stable" /\ pc /= "exited"
          ~> \/ sess_state = "established" /\ link = "good"
             \/ mpc /= "serving" \/ peer_port = "ephemeral"

(* Nothing the runtime owes is left undone: a failed session is followed   *)
(* up, a dialled peer gets its session, and a shutdown ends.               *)
RuntimeProgress == FailureFollowedUp /\ RecoversByDialling /\ CleanupTerminates

(* "lifecycle resilience without daemon restart" (docs/bgp/README.md): a   *)
(* peer that has settled gets its session.  No run checks this: after an   *)
(* inbound connection the daemon dials a port nobody listens on.           *)
RecoversWithoutRestart ==
    peer = "stable" /\ pc /= "exited" ~> sess_state = "established" \/ mpc /= "serving"

(* The accounting of the bundle and what the bundle owns never part, so    *)
(* that none of its fail-loud checks ends the daemon and an attempt always *)
(* finds the connector handle free (ReconnectMemoryState).                 *)
AccountingSound ==
    AccountingMatches /\ NeverPanics /\ AcquireNeverRefused /\ OwnedWhileRunning

(* session.zig on export_complete: "All prefixes have been exported" - on  *)
(* the connection the session now has.  No run checks this: a take-over    *)
(* leaves the flag of the old connection as it was.                        *)
ExportedOnThisConnection ==
    sess_state = "established" /\ export_complete => routes_sent
=============================================================================
