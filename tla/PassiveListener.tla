-------------------------- MODULE PassiveListener --------------------------
(***************************************************************************)
(* The hand-off of an inbound BGP connection from the passive listener's   *)
(* thread to the BGP runtime thread (bgp/passive_listener.zig), at the     *)
(* granularity of one access to shared memory per step: the two threads    *)
(* share a one-place slot (accepted_fd, accepted_peer_port) and the atomic *)
(* flag has_pending_accept, and no lock.  The main thread's shutdown       *)
(* (serve_integration.zig, cleanupBgpBundle) runs beside them.             *)
(*                                                                         *)
(* A connection stands for its descriptor and for the peer address and     *)
(* port the kernel reports with it, so a torn hand-off is visible as a     *)
(* descriptor delivered with another connection's address.  A connection   *)
(* the daemon dials itself is not one of Conn.                             *)
(*                                                                         *)
(* The accesses are sequentially consistent.  The only reordering the      *)
(* build may add is to load accepted_fd before the release store that      *)
(* clears the flag, and that gives the value of a load placed right after  *)
(* the store: the listener does not write the slot while the flag is set.  *)
(***************************************************************************)
EXTENDS Naturals, FiniteSets

CONSTANTS
    Conn,       \* the connections peers may open to local_address:179
    Allowed,    \* those whose source is allowed_peer_address
    NoFd        \* the descriptor value -1

ASSUME AllowedAssumption == Allowed \subseteq Conn
ASSUME NoFdAssumption == NoFd \notin Conn
ASSUME FiniteAssumption == IsFiniteSet(Conn)

VARIABLES
    conn,                   \* kernel's view of each connection
    cleanup_requested,      \* the listener's stop flag
    has_pending_accept,     \* the flag both threads synchronise on
    accepted_fd,            \* the slot: descriptor ...
    accepted_peer_port,     \* ... and whose address it carries
    lpc, client_fd,         \* listener thread: next step, local descriptor
    rpc, fd,                \* runtime thread: next step, local descriptor
    tcp,                    \* descriptor of bundle.tcp; NoFd: none of Conn
    established,            \* sess.status.state = .established
    delivered,              \* the AcceptResults returned so far
    calls,                  \* acceptConnection calls that cleared the flag
    mpc                     \* main thread: progress of cleanupBgpBundle

slot == <<has_pending_accept, accepted_fd, accepted_peer_port>>
listener == <<lpc, client_fd>>
runtime == <<rpc, fd, tcp, established, delivered, calls>>
vars == <<conn, cleanup_requested, slot, listener, runtime, mpc>>

Fd == Conn \cup {NoFd}

TypeOK ==
    /\ conn \in [Conn -> {"new", "queued", "open", "closed", "closed_twice"}]
    /\ cleanup_requested \in BOOLEAN
    /\ has_pending_accept \in BOOLEAN
    /\ accepted_fd \in Fd
    /\ accepted_peer_port \in Fd
    /\ lpc \in {"top", "accept", "flag", "write_fd", "write_port", "set_flag", "done"}
    /\ client_fd \in Fd
    /\ rpc \in {"top", "poll", "clear", "read_fd", "reset_fd", "read_port", "done"}
    /\ fd \in Fd
    /\ tcp \in Fd
    /\ established \in BOOLEAN
    /\ delivered \in SUBSET [socket_fd : Conn, peer_port : Fd]
    /\ calls \in Nat
    /\ mpc \in {"serving", "join_runtime", "request_stop", "join_listener",
                "close_slot", "close_tcp", "done"}

Init ==
    /\ conn = [c \in Conn |-> "new"]
    /\ cleanup_requested = FALSE
    /\ has_pending_accept = FALSE
    /\ accepted_fd = NoFd
    /\ accepted_peer_port = NoFd
    /\ lpc = "top" /\ client_fd = NoFd
    /\ rpc = "top" /\ fd = NoFd
    /\ tcp = NoFd
    /\ established = FALSE
    /\ delivered = {}
    /\ calls = 0
    /\ mpc = "serving"

\* close() of the descriptors of S; a second close() hits whatever descriptor
\* the kernel has given the number to since
CloseAll(S) ==
    conn' = [c \in Conn |-> IF c \notin S THEN conn[c]
                            ELSE IF conn[c] = "closed" THEN "closed_twice" ELSE "closed"]

-----------------------------------------------------------------------------
(* A peer completes the TCP handshake: the connection waits in the backlog *)
(* of the listening socket, which is closed only once the main thread has  *)
(* joined the listener thread.                                             *)
Connect(c) ==
    /\ conn[c] = "new"
    /\ mpc \in {"serving", "join_runtime", "request_stop", "join_listener"}
    /\ conn' = [conn EXCEPT ![c] = "queued"]
    /\ UNCHANGED <<cleanup_requested, slot, listener, runtime, mpc>>

-----------------------------------------------------------------------------
(* listenerThread *)

\* variant: the stop flag is never read
ListenerTop_Deaf ==
    /\ lpc = "top"
    /\ lpc' = "accept"
    /\ UNCHANGED <<conn, cleanup_requested, slot, client_fd, runtime, mpc>>

ListenerTop ==
    /\ lpc = "top"
    /\ lpc' = IF cleanup_requested THEN "done" ELSE "accept"
    /\ UNCHANGED <<conn, cleanup_requested, slot, client_fd, runtime, mpc>>

\* poll times out, or reports an error
ListenerPollTimeout ==
    /\ lpc = "accept"
    /\ lpc' = "top"
    /\ UNCHANGED <<conn, cleanup_requested, slot, client_fd, runtime, mpc>>

\* accept, then the comparison with allowed_peer_address
ListenerAccept(c) ==
    /\ lpc = "accept"
    /\ conn[c] = "queued"
    /\ IF c \in Allowed
       THEN /\ conn' = [conn EXCEPT ![c] = "open"]
            /\ client_fd' = c
            /\ lpc' = "flag"
       ELSE /\ conn' = [conn EXCEPT ![c] = "closed"]
            /\ lpc' = "top"
            /\ UNCHANGED client_fd
    /\ UNCHANGED <<cleanup_requested, slot, runtime, mpc>>

\* variants: the test of the flag is missing; the thread returns where it
\* should go on
ListenerLoadFlag_Untested ==
    /\ lpc = "flag"
    /\ lpc' = "write_fd"
    /\ UNCHANGED <<conn, client_fd, cleanup_requested, slot, runtime, mpc>>

ListenerLoadFlag_Returns ==
    /\ lpc = "flag"
    /\ IF has_pending_accept
       THEN CloseAll({client_fd}) /\ client_fd' = NoFd /\ lpc' = "done"
       ELSE lpc' = "write_fd" /\ UNCHANGED <<conn, client_fd>>
    /\ UNCHANGED <<cleanup_requested, slot, runtime, mpc>>

\* a connection is pending already: the new one is closed
ListenerLoadFlag ==
    /\ lpc = "flag"
    /\ IF has_pending_accept
       THEN /\ CloseAll({client_fd})
            /\ client_fd' = NoFd
            /\ lpc' = "top"
       ELSE /\ lpc' = "write_fd"
            /\ UNCHANGED <<conn, client_fd>>
    /\ UNCHANGED <<cleanup_requested, slot, runtime, mpc>>

ListenerWriteFd ==
    /\ lpc = "write_fd"
    /\ accepted_fd' = client_fd
    /\ lpc' = "write_port"
    /\ UNCHANGED <<conn, cleanup_requested, has_pending_accept, accepted_peer_port,
                   client_fd, runtime, mpc>>

ListenerWritePort ==
    /\ lpc = "write_port"
    /\ accepted_peer_port' = client_fd
    /\ lpc' = "set_flag"
    /\ UNCHANGED <<conn, cleanup_requested, has_pending_accept, accepted_fd,
                   client_fd, runtime, mpc>>

ListenerSetFlag ==
    /\ lpc = "set_flag"
    /\ has_pending_accept' = TRUE
    /\ client_fd' = NoFd
    /\ lpc' = "top"
    /\ UNCHANGED <<conn, cleanup_requested, accepted_fd, accepted_peer_port, runtime, mpc>>

-----------------------------------------------------------------------------
(* bgpRuntimeThread: isCleanupRequested at the top of every iteration      *)
RuntimeTop ==
    /\ rpc = "top"
    /\ rpc' = IF mpc = "serving" THEN "poll" ELSE "done"
    /\ UNCHANGED <<conn, cleanup_requested, slot, listener, fd, tcp, established,
                   delivered, calls, mpc>>

\* nothing is pending, or the loop waits for its reconnect deadline and does
\* not look: then the iteration ends here
RuntimeNoPending ==
    /\ rpc = "poll"
    /\ rpc' = "top"
    /\ UNCHANGED <<conn, cleanup_requested, slot, listener, fd, tcp, established,
                   delivered, calls, mpc>>

\* the deadline has passed: closeForReconnect gives the connection up before
\* another is dialled, which may fail
RuntimeReconnect ==
    /\ rpc = "poll" /\ ~established
    /\ CloseAll({tcp} \ {NoFd})
    /\ tcp' = NoFd
    /\ UNCHANGED <<cleanup_requested, slot, listener, rpc, fd, established, delivered,
                   calls, mpc>>

\* hasPendingConnection is tested by the loop and again by acceptConnection;
\* only this thread clears the flag, so one test stands for both
RuntimeTestFlag ==
    /\ rpc = "poll"
    /\ has_pending_accept
    /\ rpc' = "clear"
    /\ UNCHANGED <<conn, cleanup_requested, slot, listener, fd, tcp, established,
                   delivered, calls, mpc>>

\* acceptConnection clears the flag before it reads the slot
RuntimeClearFlag ==
    /\ rpc = "clear"
    /\ has_pending_accept' = FALSE
    /\ calls' = calls + 1
    /\ rpc' = "read_fd"
    /\ UNCHANGED <<conn, cleanup_requested, accepted_fd, accepted_peer_port, listener,
                   fd, tcp, established, delivered, mpc>>

RuntimeReadFd ==
    /\ rpc = "read_fd"
    /\ fd' = accepted_fd
    /\ rpc' = IF accepted_fd = NoFd THEN "top" ELSE "reset_fd"
    /\ UNCHANGED <<conn, cleanup_requested, slot, listener, tcp, established, delivered,
                   calls, mpc>>

RuntimeResetFd ==
    /\ rpc = "reset_fd"
    /\ accepted_fd' = NoFd
    /\ rpc' = "read_port"
    /\ UNCHANGED <<conn, cleanup_requested, has_pending_accept, accepted_peer_port,
                   listener, fd, tcp, established, delivered, calls, mpc>>

\* variant: the socket that is replaced is not closed
RuntimeTakeOver_LeavesOld ==
    /\ rpc = "read_port"
    /\ delivered' = delivered \cup {[socket_fd |-> fd, peer_port |-> accepted_peer_port]}
    /\ IF established
       THEN CloseAll({fd}) /\ UNCHANGED tcp
       ELSE tcp' = fd /\ UNCHANGED conn
    /\ fd' = NoFd
    /\ rpc' = "top"
    /\ UNCHANGED <<cleanup_requested, slot, listener, established, calls, mpc>>

\* acceptConnection returns; the loop either closes the newcomer because the
\* session is established, or replaces bundle.tcp by it
RuntimeTakeOver ==
    /\ rpc = "read_port"
    /\ delivered' = delivered \cup {[socket_fd |-> fd, peer_port |-> accepted_peer_port]}
    /\ IF established
       THEN CloseAll({fd}) /\ UNCHANGED tcp
       ELSE CloseAll({tcp} \ {NoFd}) /\ tcp' = fd
    /\ fd' = NoFd
    /\ rpc' = "top"
    /\ UNCHANGED <<cleanup_requested, slot, listener, established, calls, mpc>>

\* the session on bundle.tcp comes up or goes down between two iterations
RuntimeSession ==
    /\ rpc = "poll"
    /\ established' = ~established
    /\ UNCHANGED <<conn, cleanup_requested, slot, listener, rpc, fd, tcp, delivered,
                   calls, mpc>>

-----------------------------------------------------------------------------
(* cleanupBgpBundle: join the runtime thread, then passive_listener.close, *)
(* then closeForReconnect                                                  *)

MainBeginCleanup ==
    /\ mpc = "serving"
    /\ mpc' = "join_runtime"
    /\ UNCHANGED <<conn, cleanup_requested, slot, listener, runtime>>

MainJoinRuntime ==
    /\ mpc = "join_runtime" /\ rpc = "done"
    /\ mpc' = "request_stop"
    /\ UNCHANGED <<conn, cleanup_requested, slot, listener, runtime>>

requestStop ==
    /\ mpc = "request_stop"
    /\ cleanup_requested' = TRUE
    /\ mpc' = "join_listener"
    /\ UNCHANGED <<conn, slot, listener, runtime>>

\* join the thread, close listen_fd: the kernel resets what is in its backlog
MainJoinListener ==
    /\ mpc = "join_listener" /\ lpc = "done"
    /\ CloseAll({c \in Conn : conn[c] = "queued"})
    /\ mpc' = "close_slot"
    /\ UNCHANGED <<cleanup_requested, slot, listener, runtime>>

MainCloseSlot ==
    /\ mpc = "close_slot"
    /\ CloseAll({accepted_fd} \ {NoFd})
    /\ accepted_fd' = NoFd
    /\ mpc' = "close_tcp"
    /\ UNCHANGED <<cleanup_requested, has_pending_accept, accepted_peer_port, listener,
                   runtime>>

MainCloseTcp ==
    /\ mpc = "close_tcp"
    /\ CloseAll({tcp} \ {NoFd})
    /\ tcp' = NoFd
    /\ mpc' = "done"
    /\ UNCHANGED <<cleanup_requested, slot, listener, rpc, fd, established, delivered, calls>>

-----------------------------------------------------------------------------
Listener ==
    \/ ListenerTop
    \/ ListenerPollTimeout
    \/ \E c \in Conn : ListenerAccept(c)
    \/ ListenerLoadFlag
    \/ ListenerWriteFd
    \/ ListenerWritePort
    \/ ListenerSetFlag

Runtime ==
    \/ RuntimeTop
    \/ RuntimeNoPending
    \/ RuntimeReconnect
    \/ RuntimeTestFlag
    \/ RuntimeClearFlag
    \/ RuntimeReadFd
    \/ RuntimeResetFd
    \/ RuntimeTakeOver

Main ==
    \/ MainBeginCleanup
    \/ MainJoinRuntime
    \/ requestStop
    \/ MainJoinListener
    \/ MainCloseSlot
    \/ MainCloseTcp

Next ==
    \/ \E c \in Conn : Connect(c)
    \/ Listener
    \/ Runtime
    \/ RuntimeSession
    \/ Main
    \/ mpc = "done" /\ UNCHANGED vars   \* the process has shut down

Spec == Init /\ [][Next]_vars

(* Every thread keeps running, and poll does not time out for ever while a *)
(* connection is queued.                                                   *)
Fairness ==
    /\ WF_vars(Listener)
    /\ \A c \in Conn : SF_vars(ListenerAccept(c))
    /\ WF_vars(Runtime)
    /\ WF_vars(MainJoinRuntime \/ requestStop \/ MainJoinListener
               \/ MainCloseSlot \/ MainCloseTcp)

FairSpec == Spec /\ Fairness

-----------------------------------------------------------------------------
(* Descriptors this process still holds but no longer knows: the runtime   *)
(* reset the slot over a connection the listener had just stored, or the   *)
(* listener stored over one the runtime had not read yet.                  *)
Owned ==
    {tcp, accepted_fd}
      \cup (IF rpc \in {"reset_fd", "read_port"} THEN {fd} ELSE {})
      \cup (IF lpc \in {"flag", "write_fd"} THEN {client_fd} ELSE {})

Lost == {c \in Conn : conn[c] = "open"} \ Owned

(* A descriptor is closed once: no thread and no shutdown step closes a    *)
(* number that is no longer its own (accepted_fd = -1 after the hand-off,  *)
(* passive_listener.close only after the joins).                           *)
ClosedOnce == \A c \in Conn : conn[c] /= "closed_twice"

(* Whatever a thread or the shutdown path is about to use or close is a    *)
(* descriptor that is open and that no other place will close as well.     *)
UsedIsOpen ==
    /\ tcp /= NoFd => conn[tcp] = "open"
    /\ accepted_fd /= NoFd => conn[accepted_fd] = "open" /\ accepted_fd /= tcp
    /\ rpc \in {"reset_fd", "read_port"} =>
          fd /= NoFd /\ conn[fd] = "open" /\ fd /= tcp
    /\ rpc = "read_port" => accepted_fd /= fd

(* acceptConnection never returns the same descriptor twice, so a session  *)
(* is never moved to a socket the runtime has already closed.              *)
DeliveredOnce ==
    [][rpc = "read_port" /\ rpc' = "top" => \A r \in delivered : r.socket_fd /= fd]_vars

(* The race costs at most one descriptor per acceptConnection call, and    *)
(* none is lost while the runtime has taken nothing: a peer that connects  *)
(* again and again while the session is up cannot make the daemon leak.    *)
LeakBounded == Cardinality(Lost) <= calls

(* After the shutdown no thread runs, no connection waits in the backlog,  *)
(* and every descriptor the bundle knew of is closed.                      *)
ShutdownComplete ==
    mpc = "done" =>
        /\ lpc = "done" /\ rpc = "done"
        /\ \A c \in Conn : conn[c] \in {"new", "closed"} \/ c \in Lost
        /\ accepted_fd = NoFd /\ tcp = NoFd

(* Descriptors are used by one owner and come back: while the daemon runs  *)
(* it loses at most one for each connection it takes over, and a shutdown  *)
(* leaves no other behind.                                                 *)
DescriptorsSound == UsedIsOpen /\ LeakBounded /\ ShutdownComplete

\* the listener has stored since the flag was cleared
Stored == has_pending_accept \/ lpc \in {"write_port", "set_flag"}

\* the call that is under way may still lose a descriptor
Owing == \/ rpc = "read_fd" /\ ~Stored
         \/ rpc = "reset_fd" /\ (~Stored \/ accepted_fd /= fd)

Place ==
    [c \in Conn |-> IF conn[c] /= "open" THEN conn[c]
                    ELSE IF c = tcp THEN "current"
                    ELSE IF c \in Owned THEN "held" ELSE "lost"]

Abstract == INSTANCE Handoff WITH
    place   <- Place,
    takes   <- calls,
    mayLose <- Owing,
    serving <- mpc \notin {"close_slot", "close_tcp", "done"}

(* Whatever the two threads do to the slot, a connection goes forward from *)
(* the backlog to the session to its close, each acceptConnection loses at *)
(* most one, and nothing moves on once cleanupBgpBundle has joined both    *)
(* threads, but to its close.                                              *)
HandoffKept == Abstract!HandoffSpec

(* cleanupBgpBundle terminates: the joins do not wait on each other.       *)
ShutdownTerminates == mpc = "join_runtime" ~> mpc = "done"

(* An inbound connection is not forgotten in the backlog: it is accepted   *)
(* or reset.                                                               *)
BacklogServed == \A c \in Conn : conn[c] = "queued" ~> conn[c] /= "queued"

(* What the header of PassiveListener says of the flag: "release/acquire   *)
(* ordering on this flag ensures proper visibility of accepted_* fields".  *)
(* An AcceptResult then describes one connection.  No run checks this: the *)
(* flag is cleared before the slot is read, and results may be torn.       *)
AcceptResultCoherent ==
    \A r \in delivered : r.socket_fd = r.peer_port
=============================================================================
