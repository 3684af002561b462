----------------------- MODULE ListenerAndExport_proofs -----------------------
(***************************************************************************)
(* The two neighbours of the BGP runtime thread, for every value of their  *)
(* constants: the listener that hands it connections (PassiveListener),    *)
(* and the prefix files whose content it tells the peer (BgpExport).       *)
(*                                                                         *)
(* The hand-off between the listener thread and the runtime thread never   *)
(* closes a descriptor twice and never delivers one twice, whatever the    *)
(* connections and whatever the interleaving - although it may lose one.   *)
(* UsedIsOpen and ClosedOnce are not inductive: they say nothing of the    *)
(* descriptor the listener still holds in a local variable, nor of which   *)
(* threads are gone when the main thread closes what they left.  IInv adds *)
(* both.  Every step of it is one of Handoff, which knows neither the slot *)
(* nor the threads.                                                        *)
(*                                                                         *)
(* The export commits whole reloads only, and a peer that was told of      *)
(* every commit has what is committed.  Neither is inductive: ReloadInv    *)
(* adds what the reload under way has read, SyncInv what the peer has of a *)
(* session whose batches are not all sent.                                 *)
(***************************************************************************)
EXTENDS PassiveListener, BgpExport, FiniteSetTheorems, SequenceTheorems,
        NaturalsInduction, WellFoundedInduction, TLAPS

-----------------------------------------------------------------------------
(* PassiveListener: the hand-off.                                          *)

\* the descriptor the listener has accepted and not yet stored is its own
ListenerHolds ==
    lpc \in {"flag", "write_fd"} =>
        /\ client_fd /= NoFd
        /\ conn[client_fd] = "open"
        /\ client_fd /= accepted_fd /\ client_fd /= tcp
        /\ rpc \in {"reset_fd", "read_port"} => client_fd /= fd
        /\ \A r \in delivered : r.socket_fd /= client_fd

ListenerStores == lpc \in {"write_port", "set_flag"} => client_fd /= NoFd

\* what was delivered is nobody's to deliver again
DeliveredGone ==
    \A r \in delivered :
        /\ conn[r.socket_fd] \notin {"new", "queued"}
        /\ r.socket_fd /= accepted_fd
        /\ rpc \in {"reset_fd", "read_port"} => r.socket_fd /= fd

\* the order of cleanupBgpBundle: each join precedes the closes it protects
CleanupOrder ==
    /\ mpc \in {"request_stop", "join_listener", "close_slot", "close_tcp", "done"} => rpc = "done"
    /\ mpc \in {"close_slot", "close_tcp", "done"} => lpc = "done"

IInv ==
    /\ TypeOK
    /\ ClosedOnce
    /\ UsedIsOpen
    /\ ListenerHolds
    /\ ListenerStores
    /\ DeliveredGone
    /\ CleanupOrder

LEMMA InitIInv == Init => IInv
<1> SUFFICES ASSUME Init PROVE IInv
  OBVIOUS
<1> USE NoFdAssumption DEF Init
<1>1. TypeOK
  BY DEF TypeOK, Fd
<1>2. ClosedOnce
  BY DEF ClosedOnce
<1>3. UsedIsOpen
  BY DEF UsedIsOpen
<1>4. ListenerHolds /\ ListenerStores /\ DeliveredGone /\ CleanupOrder
  BY DEF ListenerHolds, ListenerStores, DeliveredGone, CleanupOrder
<1> QED
  BY <1>1, <1>2, <1>3, <1>4 DEF IInv

LEMMA NextIInv == IInv /\ [Next]_vars => IInv'
<1> SUFFICES ASSUME IInv, [Next]_vars PROVE IInv'
  OBVIOUS
<1> USE NoFdAssumption, AllowedAssumption
    DEF IInv, TypeOK, Fd, ClosedOnce, UsedIsOpen, ListenerHolds, ListenerStores,
        DeliveredGone, CleanupOrder, slot, listener, runtime
<1>1. ASSUME NEW c \in Conn, Connect(c) PROVE IInv'
  BY <1>1 DEF Connect
<1>2. ASSUME NEW c \in Conn, ListenerAccept(c) PROVE IInv'
  BY <1>2 DEF ListenerAccept
<1>3. CASE ListenerTop
  BY <1>3 DEF ListenerTop
<1>4. CASE ListenerPollTimeout
  BY <1>4 DEF ListenerPollTimeout
<1>5. CASE ListenerLoadFlag
  BY <1>5 DEF ListenerLoadFlag, CloseAll
<1>6. CASE ListenerWriteFd
  BY <1>6 DEF ListenerWriteFd
<1>7. CASE ListenerWritePort
  BY <1>7 DEF ListenerWritePort
<1>8. CASE ListenerSetFlag
  BY <1>8 DEF ListenerSetFlag
<1>9. CASE RuntimeTop
  BY <1>9 DEF RuntimeTop
<1>10. CASE RuntimeNoPending
  BY <1>10 DEF RuntimeNoPending
<1>11. CASE RuntimeTestFlag
  BY <1>11 DEF RuntimeTestFlag
<1>12. CASE RuntimeClearFlag
  <2>1. calls' \in Nat
    BY <1>12 DEF RuntimeClearFlag
  <2>2. has_pending_accept' = FALSE /\ rpc' = "read_fd" /\ rpc = "clear"
        /\ UNCHANGED <<conn, cleanup_requested, accepted_fd, accepted_peer_port, lpc,
                       client_fd, fd, tcp, established, delivered, mpc>>
    BY <1>12 DEF RuntimeClearFlag
  <2>3. TypeOK'
    BY <2>1, <2>2, ZenonT(60)
  <2>4. (ClosedOnce /\ UsedIsOpen /\ CleanupOrder)'
    BY <2>2
  <2>5. (ListenerHolds /\ ListenerStores /\ DeliveredGone)'
    BY <2>2
  <2> QED
    BY <2>3, <2>4, <2>5
<1>13. CASE RuntimeReadFd
  BY <1>13 DEF RuntimeReadFd
<1>14. CASE RuntimeResetFd
  BY <1>14 DEF RuntimeResetFd
<1>15. CASE RuntimeTakeOver
  BY <1>15 DEF RuntimeTakeOver, CloseAll
<1>16. CASE RuntimeSession
  BY <1>16 DEF RuntimeSession
<1>17. CASE MainBeginCleanup
  BY <1>17 DEF MainBeginCleanup
<1>18. CASE MainJoinRuntime
  BY <1>18 DEF MainJoinRuntime
<1>19. CASE requestStop
  BY <1>19 DEF requestStop
<1>20. CASE MainJoinListener
  BY <1>20 DEF MainJoinListener, CloseAll
<1>21. CASE MainCloseSlot
  BY <1>21 DEF MainCloseSlot, CloseAll
<1>22. CASE MainCloseTcp
  BY <1>22 DEF MainCloseTcp, CloseAll
<1>23. CASE RuntimeReconnect
  BY <1>23 DEF RuntimeReconnect, CloseAll
<1>24. CASE UNCHANGED vars
  BY <1>24 DEF vars
<1> QED
  BY <1>1, <1>2, <1>3, <1>4, <1>5, <1>6, <1>7, <1>8, <1>9, <1>10, <1>11, <1>12, <1>13, <1>14, <1>15, <1>16, <1>17, <1>18, <1>19, <1>20, <1>21, <1>22, <1>23, <1>24
     DEF Next, Listener, Runtime, Main

(* Every reachable state has the types the code declares.                  *)
THEOREM TypeCorrect == Spec => []TypeOK
<1>1. IInv => TypeOK
  BY DEF IInv
<1> QED
  BY <1>1, InitIInv, NextIInv, PTL DEF Spec

(* Whatever is used or closed is open and has one owner, and no descriptor *)
(* is closed twice: the hand-off of acceptConnection and the shutdown of   *)
(* passive_listener.close keep the descriptors apart without a lock.       *)
THEOREM DescriptorsSafe == Spec => [](UsedIsOpen /\ ClosedOnce)
<1>1. IInv => UsedIsOpen /\ ClosedOnce
  BY DEF IInv
<1> QED
  BY <1>1, InitIInv, NextIInv, PTL DEF Spec

(* acceptConnection never returns a descriptor it has returned before.     *)
THEOREM NeverRedelivered == Spec => DeliveredOnce
<1>1. IInv /\ [Next]_vars =>
        [rpc = "read_port" /\ rpc' = "top" => \A r \in delivered : r.socket_fd /= fd]_vars
  BY DEF IInv, DeliveredGone
<1> QED
  BY <1>1, InitIInv, NextIInv, PTL DEF Spec, DeliveredOnce

-----------------------------------------------------------------------------
(* Losses.  A call of acceptConnection clears the flag before it reads and *)
(* resets the slot, and in between the listener can store once, no more:   *)
(* the flag is not cleared again before that call has ended.  LInv keeps   *)
(* the books: what was lost, and one more while the call that is under way *)
(* may still lose one, is never more than the calls.                       *)

\* the slot is empty, but for what was stored and not yet taken
SlotTaken ==
    ~Stored => IF rpc = "reset_fd" THEN accepted_fd = fd
               ELSE rpc /= "read_fd" => accepted_fd = NoFd

WritesUnflagged == lpc \in {"write_fd", "write_port", "set_flag"} => ~has_pending_accept

Books == Cardinality(Lost) + (IF Owing THEN 1 ELSE 0) <= calls

\* what the main thread has closed stays closed
Closed ==
    /\ mpc \in {"close_slot", "close_tcp", "done"} => \A c \in Conn : conn[c] /= "queued"
    /\ mpc \in {"close_tcp", "done"} => accepted_fd = NoFd
    /\ mpc = "done" => tcp = NoFd

LInv == SlotTaken /\ WritesUnflagged /\ Books /\ Closed

(* Lost is finite, so that what a step loses can be counted.               *)
LEMMA FewerLost == Lost' \subseteq Lost => Cardinality(Lost') <= Cardinality(Lost)
<1> SUFFICES ASSUME Lost' \subseteq Lost PROVE Cardinality(Lost') <= Cardinality(Lost)
  OBVIOUS
<1>1. IsFiniteSet(Lost)
  BY FiniteAssumption, FS_Subset DEF Lost
<1> QED
  BY <1>1, FS_Subset

LEMMA OneMoreLost ==
    ASSUME NEW c, Lost' \subseteq Lost \cup {c}
    PROVE  Cardinality(Lost') <= Cardinality(Lost) + 1
<1>1. IsFiniteSet(Lost) /\ Cardinality(Lost) \in Nat
  BY FiniteAssumption, FS_Subset, FS_CardinalityType DEF Lost
<1>2. IsFiniteSet(Lost \cup {c})
      /\ Cardinality(Lost \cup {c}) = IF c \in Lost THEN Cardinality(Lost) ELSE Cardinality(Lost) + 1
  BY <1>1, FS_AddElement, Zenon
<1>3. Cardinality(Lost \cup {c}) <= Cardinality(Lost) + 1
  BY <1>1, <1>2
<1>4. Cardinality(Lost') <= Cardinality(Lost \cup {c}) /\ Cardinality(Lost') \in Nat
  BY <1>2, FS_Subset, FS_CardinalityType
<1> QED
  BY <1>1, <1>2, <1>3, <1>4

LEMMA InitLInv == Init => LInv
<1> SUFFICES ASSUME Init PROVE LInv
  OBVIOUS
<1>1. Lost = {}
  BY DEF Init, Lost
<1>2. Cardinality(Lost) = 0
  BY <1>1, FS_EmptySet
<1> QED
  BY <1>2 DEF Init, LInv, SlotTaken, WritesUnflagged, Books, Owing, Closed, Stored

(* A step that takes no descriptor out of sight and no call further leaves *)
(* the books as they are.                                                  *)
LEMMA BooksKept ==
    ASSUME IInv, Books, calls' = calls, Lost' \subseteq Lost, Owing' => Owing
    PROVE  Books'
<1>1. Cardinality(Lost') <= Cardinality(Lost)
  BY FewerLost
<1>2. Cardinality(Lost) \in Nat /\ Cardinality(Lost') \in Nat
  <2>1. IsFiniteSet(Lost) /\ IsFiniteSet(Lost')
    BY FiniteAssumption, FS_Subset DEF Lost
  <2> QED
    BY <2>1, FS_CardinalityType
<1> QED
  BY <1>1, <1>2 DEF Books, IInv, TypeOK

(* The two ways the books move: a call comes in, or the call that was      *)
(* under way loses its one.                                                *)
LEMMA CallCounted ==
    ASSUME Books, calls \in Nat, calls' = calls + 1, Lost' \subseteq Lost, ~Owing
    PROVE  Books'
<1>1. Cardinality(Lost') <= Cardinality(Lost)
  BY FewerLost
<1>2. IsFiniteSet(Lost) /\ IsFiniteSet(Lost')
  BY FiniteAssumption, FS_Subset DEF Lost
<1>3. Cardinality(Lost) \in Nat /\ Cardinality(Lost') \in Nat
  BY <1>2, FS_CardinalityType
<1> QED
  BY <1>1, <1>3 DEF Books

LEMMA OneMoreCounted ==
    ASSUME Books, calls \in Nat, calls' = calls, NEW c, Lost' \subseteq Lost \cup {c}, Owing, ~Owing'
    PROVE  Books'
<1>1. Cardinality(Lost') <= Cardinality(Lost) + 1
  BY OneMoreLost
<1>2. IsFiniteSet(Lost) /\ IsFiniteSet(Lost')
  BY FiniteAssumption, FS_Subset DEF Lost
<1>3. Cardinality(Lost) \in Nat /\ Cardinality(Lost') \in Nat
  BY <1>2, FS_CardinalityType
<1> QED
  BY <1>1, <1>3 DEF Books

LEMMA NextLInv == IInv /\ LInv /\ [Next]_vars => LInv'
<1> SUFFICES ASSUME IInv, LInv, [Next]_vars PROVE LInv'
  OBVIOUS
<1>0. LInv => SlotTaken /\ WritesUnflagged /\ Books /\ Closed
  BY DEF LInv
\* what a step leaves where it was: all of them but the four below
<1>a. ASSUME calls' = calls, Lost' \subseteq Lost, Owing' => Owing,
             SlotTaken', WritesUnflagged', Closed'
      PROVE  LInv'
  BY <1>a, <1>0, BooksKept DEF LInv
<1> USE NoFdAssumption, AllowedAssumption
    DEF slot, listener, runtime, Stored, Owing, SlotTaken, WritesUnflagged, Closed
<1>1. ASSUME NEW c \in Conn, Connect(c) PROVE LInv'
  <2>1. Lost' \subseteq Lost
    BY <1>1 DEF Connect, Lost, Owned, IInv, TypeOK
  <2>2. calls' = calls /\ (Owing' => Owing) /\ SlotTaken' /\ WritesUnflagged' /\ Closed'
    BY <1>0, <1>1 DEF Connect, IInv, TypeOK
  <2> QED
    BY <2>1, <2>2, <1>a
<1>2. ASSUME NEW c \in Conn, ListenerAccept(c) PROVE LInv'
  <2>1. Lost' \subseteq Lost
    BY <1>2 DEF ListenerAccept, Lost, Owned, IInv, TypeOK, Fd
  <2>2. calls' = calls /\ (Owing' => Owing) /\ SlotTaken' /\ WritesUnflagged' /\ Closed'
    BY <1>0, <1>2 DEF ListenerAccept, IInv, TypeOK, CleanupOrder
  <2> QED
    BY <2>1, <2>2, <1>a
<1>3. CASE ListenerTop \/ ListenerPollTimeout
  <2>1. Lost' \subseteq Lost
    BY <1>3 DEF ListenerTop, ListenerPollTimeout, Lost, Owned
  <2>2. calls' = calls /\ (Owing' => Owing) /\ SlotTaken' /\ WritesUnflagged' /\ Closed'
    BY <1>0, <1>3 DEF ListenerTop, ListenerPollTimeout
  <2> QED
    BY <2>1, <2>2, <1>a
<1>4. CASE ListenerLoadFlag
  <2>1. Lost' \subseteq Lost
    BY <1>4 DEF ListenerLoadFlag, CloseAll, Lost, Owned, IInv, TypeOK, ListenerHolds, Fd
  <2>2. calls' = calls /\ (Owing' => Owing) /\ SlotTaken' /\ WritesUnflagged' /\ Closed'
    BY <1>0, <1>4 DEF ListenerLoadFlag, CloseAll, IInv, TypeOK, CleanupOrder
  <2> QED
    BY <2>1, <2>2, <1>a
\* the listener stores over what the runtime thread has not read yet
<1>5. CASE ListenerWriteFd
  <2>1. Lost' \subseteq Lost \cup {accepted_fd} /\ calls' = calls
    BY <1>5 DEF ListenerWriteFd, Lost, Owned
  <2>2. SlotTaken' /\ WritesUnflagged' /\ Closed'
    BY <1>0, <1>5 DEF ListenerWriteFd, IInv, CleanupOrder
  <2>3. CASE rpc = "read_fd"
    <3>1. Owing /\ ~Owing'
      BY <1>0, <1>5, <2>3 DEF ListenerWriteFd
    <3>2. Books'
      BY <2>1, <3>1, <1>0, OneMoreCounted DEF IInv, TypeOK
    <3> QED
      BY <3>2, <2>2 DEF LInv
  <2>4. CASE rpc /= "read_fd"
    <3>1. accepted_fd = NoFd \/ (rpc = "reset_fd" /\ accepted_fd = fd)
      BY <1>0, <1>5, <2>4 DEF ListenerWriteFd
    <3>2. Lost' \subseteq Lost
      BY <1>5, <3>1 DEF ListenerWriteFd, Lost, Owned
    <3>3. Owing' => Owing
      BY <1>0, <1>5, <2>4 DEF ListenerWriteFd
    <3> QED
      BY <2>1, <2>2, <3>2, <3>3, <1>a
  <2> QED
    BY <2>3, <2>4
<1>6. CASE ListenerWritePort \/ ListenerSetFlag
  <2>1. Lost' \subseteq Lost
    BY <1>6 DEF ListenerWritePort, ListenerSetFlag, Lost, Owned
  <2>2. calls' = calls /\ (Owing' => Owing) /\ SlotTaken' /\ WritesUnflagged' /\ Closed'
    BY <1>0, <1>6 DEF ListenerWritePort, ListenerSetFlag
  <2> QED
    BY <2>1, <2>2, <1>a
<1>7. CASE RuntimeTop \/ RuntimeNoPending \/ RuntimeTestFlag
  <2>1. Lost' \subseteq Lost
    BY <1>7 DEF RuntimeTop, RuntimeNoPending, RuntimeTestFlag, Lost, Owned
  <2>2. calls' = calls /\ (Owing' => Owing) /\ SlotTaken' /\ WritesUnflagged' /\ Closed'
    BY <1>0, <1>7 DEF RuntimeTop, RuntimeNoPending, RuntimeTestFlag
  <2> QED
    BY <2>1, <2>2, <1>a
\* a call begins: it may lose one
<1>8. CASE RuntimeClearFlag
  <2>1. Lost' \subseteq Lost
    BY <1>8 DEF RuntimeClearFlag, Lost, Owned
  <2>2. SlotTaken' /\ WritesUnflagged' /\ Closed'
    BY <1>0, <1>8 DEF RuntimeClearFlag, IInv, CleanupOrder
  <2>3. calls' = calls + 1 /\ ~Owing
    BY <1>8 DEF RuntimeClearFlag
  <2>4. Books'
    BY <2>1, <2>3, <1>0, CallCounted DEF IInv, TypeOK
  <2> QED
    BY <2>2, <2>4 DEF LInv
<1>9. CASE RuntimeReadFd
  <2>1. Lost' \subseteq Lost
    BY <1>9 DEF RuntimeReadFd, Lost, Owned
  <2>2. calls' = calls /\ (Owing' => Owing) /\ SlotTaken' /\ WritesUnflagged' /\ Closed'
    BY <1>0, <1>9 DEF RuntimeReadFd
  <2> QED
    BY <2>1, <2>2, <1>a
\* the runtime thread resets away what the listener has just stored
<1>10. CASE RuntimeResetFd
  <2>1. Lost' \subseteq Lost \cup {accepted_fd} /\ calls' = calls
    BY <1>10 DEF RuntimeResetFd, Lost, Owned
  <2>2. SlotTaken' /\ WritesUnflagged' /\ Closed'
    BY <1>0, <1>10 DEF RuntimeResetFd, IInv, CleanupOrder
  <2>3. CASE accepted_fd /= fd
    <3>1. Owing /\ ~Owing'
      BY <1>10, <2>3 DEF RuntimeResetFd
    <3>2. Books'
      BY <2>1, <3>1, <1>0, OneMoreCounted DEF IInv, TypeOK
    <3> QED
      BY <3>2, <2>2 DEF LInv
  <2>4. CASE accepted_fd = fd
    <3>1. Lost' \subseteq Lost
      BY <1>10, <2>4 DEF RuntimeResetFd, Lost, Owned
    <3>2. ~Owing'
      BY <1>10 DEF RuntimeResetFd
    <3> QED
      BY <2>1, <2>2, <3>1, <3>2, <1>a
  <2> QED
    BY <2>3, <2>4
<1>11. CASE RuntimeTakeOver
  <2>1. Lost' \subseteq Lost
    BY <1>11 DEF RuntimeTakeOver, CloseAll, Lost, Owned, IInv, TypeOK, UsedIsOpen, Fd
  <2>2. calls' = calls /\ (Owing' => Owing) /\ SlotTaken' /\ WritesUnflagged'
    BY <1>0, <1>11 DEF RuntimeTakeOver
  <2>3. Closed'
    BY <1>0, <1>11 DEF RuntimeTakeOver, IInv, CleanupOrder
  <2> QED
    BY <2>1, <2>2, <2>3, <1>a
<1>12. CASE RuntimeSession
  <2>1. Lost' \subseteq Lost
    BY <1>12 DEF RuntimeSession, Lost, Owned
  <2>2. calls' = calls /\ (Owing' => Owing) /\ SlotTaken' /\ WritesUnflagged' /\ Closed'
    BY <1>0, <1>12 DEF RuntimeSession
  <2> QED
    BY <2>1, <2>2, <1>a
<1>13. CASE MainBeginCleanup \/ MainJoinRuntime \/ requestStop
  <2>1. Lost' \subseteq Lost
    BY <1>13 DEF MainBeginCleanup, MainJoinRuntime, requestStop, Lost, Owned
  <2>2. calls' = calls /\ (Owing' => Owing) /\ SlotTaken' /\ WritesUnflagged' /\ Closed'
    BY <1>0, <1>13 DEF MainBeginCleanup, MainJoinRuntime, requestStop
  <2> QED
    BY <2>1, <2>2, <1>a
<1>14. CASE MainJoinListener \/ MainCloseSlot \/ MainCloseTcp
  <2>1. Lost' \subseteq Lost
    BY <1>14 DEF MainJoinListener, MainCloseSlot, MainCloseTcp, CloseAll, Lost, Owned, IInv, TypeOK, Fd
  <2>2. calls' = calls /\ rpc' = rpc /\ ~Owing' /\ WritesUnflagged' /\ SlotTaken'
    BY <1>0, <1>14 DEF MainJoinListener, MainCloseSlot, MainCloseTcp, IInv, CleanupOrder
  <2>3. Closed'
    BY <1>0, <1>14 DEF MainJoinListener, MainCloseSlot, MainCloseTcp, CloseAll, IInv, TypeOK
  <2> QED
    BY <2>1, <2>2, <2>3, <1>a
<1>15. CASE RuntimeReconnect
  <2>1. Lost' \subseteq Lost
    BY <1>15 DEF RuntimeReconnect, CloseAll, Lost, Owned, IInv, TypeOK, Fd
  <2>2. calls' = calls /\ (Owing' => Owing) /\ SlotTaken' /\ WritesUnflagged'
    BY <1>0, <1>15 DEF RuntimeReconnect
  <2>3. Closed'
    BY <1>0, <1>15 DEF RuntimeReconnect, IInv, CleanupOrder
  <2> QED
    BY <2>1, <2>2, <2>3, <1>a
<1>16. CASE UNCHANGED vars
  <2>1. Lost' = Lost
    BY <1>16 DEF vars, Lost, Owned
  <2>2. calls' = calls /\ (Owing' => Owing) /\ SlotTaken' /\ WritesUnflagged' /\ Closed'
    BY <1>0, <1>16 DEF vars
  <2> QED
    BY <2>1, <2>2, <1>a
<1> QED
  BY <1>1, <1>2, <1>3, <1>4, <1>5, <1>6, <1>7, <1>8, <1>9, <1>10, <1>11, <1>12, <1>13, <1>14, <1>15, <1>16
  DEF Next, Listener, Runtime, Main

(* What is used is open and has one owner; the hand-off loses at most one  *)
(* descriptor for each acceptConnection, although its slot is shared       *)
(* without a lock, and a shutdown at any step leaves no thread and no      *)
(* descriptor behind but those.                                            *)
THEOREM DescriptorsComeBack == Spec => []DescriptorsSound
<1>1. IInv /\ LInv => DescriptorsSound
  <2> SUFFICES ASSUME IInv, LInv PROVE DescriptorsSound
    OBVIOUS
  <2>1. LeakBounded
    <3>1. IsFiniteSet(Lost)
      BY FiniteAssumption, FS_Subset DEF Lost
    <3>2. Cardinality(Lost) \in Nat
      BY <3>1, FS_CardinalityType
    <3> QED
      BY <3>2 DEF LInv, Books, LeakBounded, IInv, TypeOK
  <2>2. ShutdownComplete
    BY NoFdAssumption
    DEF LInv, Closed, IInv, TypeOK, CleanupOrder, ClosedOnce, ShutdownComplete, Lost, Owned
  <2> QED
    BY <2>1, <2>2 DEF DescriptorsSound, IInv
<1>2. Init => IInv /\ LInv
  BY InitIInv, InitLInv
<1>3. (IInv /\ LInv) /\ [Next]_vars => (IInv /\ LInv)'
  BY NextIInv, NextLInv
<1> QED
  BY <1>1, <1>2, <1>3, PTL DEF Spec

-----------------------------------------------------------------------------
(* The hand-off implements Handoff: where a connection is follows from its *)
(* state and from who owns it.                                             *)

LEMMA PlaceKept ==
    ASSUME conn' = conn, tcp' = tcp, Owned' \ {NoFd} = Owned \ {NoFd}
    PROVE  Place' = Place
BY NoFdAssumption DEF Place

\* what changes place, and to where
LEMMA PlaceMoves ==
    ASSUME NEW S, NEW to, \A c \in Conn : Place'[c] = IF c \in S THEN to ELSE Place[c]
    PROVE  Abstract!Move(S, to)
<1>1. Place' = [c \in Conn |-> Place'[c]]
  BY DEF Place
<1> QED
  BY <1>1 DEF Abstract!Move

(* A step that moves nothing may give up the right to lose one. *)
LEMMA NothingMoves ==
    ASSUME Place' = Place, calls' = calls, Owing' => Owing,
           (mpc' \in {"close_slot", "close_tcp", "done"}) = (mpc \in {"close_slot", "close_tcp", "done"})
    PROVE  [Abstract!HandoffNext]_(Abstract!handoff_vars)
<1>1. Owing \in BOOLEAN /\ Owing' \in BOOLEAN
  BY DEF Owing
<1>2. CASE Owing'
  <2>1. Owing' = Owing
    BY <1>1, <1>2
  <2> QED
    BY <2>1 DEF Abstract!handoff_vars
<1>3. CASE ~Owing'
  <2>1. Owing' = FALSE
    BY <1>1, <1>3
  <2> QED
    BY <2>1 DEF Abstract!HandoffNext, Abstract!Settle
<1> QED
  BY <1>2, <1>3

LEMMA ListenerHandsOff ==
    IInv /\ LInv /\ Listener => [Abstract!HandoffNext]_(Abstract!handoff_vars)
<1> SUFFICES ASSUME IInv, LInv, Listener PROVE [Abstract!HandoffNext]_(Abstract!handoff_vars)
  OBVIOUS
<1> USE NoFdAssumption DEF slot, runtime
<1>0. /\ TypeOK /\ UsedIsOpen /\ ListenerHolds /\ CleanupOrder
      /\ SlotTaken /\ WritesUnflagged
  BY DEF IInv, LInv
<1>a. mpc' = mpc /\ calls' = calls /\ tcp' = tcp /\ mpc \notin {"close_slot", "close_tcp", "done"}
  BY <1>0 DEF Listener, ListenerTop, ListenerPollTimeout, ListenerAccept, ListenerLoadFlag,
     ListenerWriteFd, ListenerWritePort, ListenerSetFlag, CleanupOrder
<1>1. CASE ListenerTop \/ ListenerPollTimeout \/ ListenerWritePort \/ ListenerSetFlag
  <2>1. Place' = Place
    <3>1. conn' = conn /\ tcp' = tcp /\ Owned' = Owned
      BY <1>1 DEF ListenerTop, ListenerPollTimeout, ListenerWritePort, ListenerSetFlag, Owned
    <3> QED
      BY <3>1, PlaceKept
  <2>2. Owing' => Owing
    BY <1>1 DEF ListenerTop, ListenerPollTimeout, ListenerWritePort, ListenerSetFlag, Owing, Stored
  <2> QED
    BY <1>a, <2>1, <2>2, NothingMoves
<1>2. ASSUME NEW c \in Conn, ListenerAccept(c)
      PROVE  Abstract!HandoffNext
  <2>1. conn[c] = "queued" /\ Place[c] = "queued"
    BY <1>2 DEF ListenerAccept, Place
  <2>2. Owing' = Owing
    BY <1>2 DEF ListenerAccept, Owing, Stored
  <2>3. CASE c \in Allowed
    <3>1. conn' = [conn EXCEPT ![c] = "open"] /\ client_fd' = c /\ lpc' = "flag"
      BY <1>2, <2>3 DEF ListenerAccept
    <3>2. \A d \in Conn : Place'[d] = IF d \in {c} THEN "held" ELSE Place[d]
      BY <1>0, <1>2, <2>1, <3>1 DEF ListenerAccept, Place, Owned, TypeOK, UsedIsOpen, Fd
    <3>3. Abstract!Move({c}, "held")
      BY <3>2, PlaceMoves
    <3> QED
      BY <1>a, <2>1, <2>2, <2>3, <3>3
      DEF Abstract!HandoffNext, Abstract!Admit, Abstract!At
  <2>4. CASE c \notin Allowed
    <3>1. conn' = [conn EXCEPT ![c] = "closed"] /\ lpc' = "top" /\ lpc = "accept"
      BY <1>2, <2>4 DEF ListenerAccept
    <3>2. \A d \in Conn : Place'[d] = IF d \in {c} THEN "closed" ELSE Place[d]
      BY <1>0, <1>2, <2>1, <3>1 DEF ListenerAccept, Place, Owned, TypeOK
    <3>3. Abstract!Move({c}, "closed")
      BY <3>2, PlaceMoves
    <3> QED
      BY <1>a, <2>1, <2>2, <2>4, <3>3
      DEF Abstract!HandoffNext, Abstract!TurnAway, Abstract!At
  <2> QED
    BY <2>3, <2>4
<1>3. CASE ListenerLoadFlag
  <2>1. CASE has_pending_accept
    <3> DEFINE c == client_fd
    <3>1. /\ c \in Conn /\ conn[c] = "open" /\ c # tcp /\ c # accepted_fd /\ c \in Owned
          /\ rpc \in {"reset_fd", "read_port"} => c # fd
      BY <1>0, <1>3 DEF ListenerLoadFlag, ListenerHolds, TypeOK, Fd, Owned
    <3>2. /\ conn' = [d \in Conn |-> IF d # c THEN conn[d] ELSE "closed"]
          /\ lpc = "flag" /\ lpc' = "top"
          /\ UNCHANGED <<rpc, fd, accepted_fd, has_pending_accept>>
      BY <1>3, <2>1, <3>1 DEF ListenerLoadFlag, CloseAll
    <3>3. \A d \in Conn : Place'[d] = IF d \in {c} THEN "closed" ELSE Place[d]
      BY <1>a, <3>1, <3>2 DEF Place, Owned
    <3>4. Abstract!Move({c}, "closed") /\ Place[c] = "held"
      BY <3>1, <3>3, PlaceMoves DEF Place
    <3>5. Owing' = Owing
      BY <3>2 DEF Owing, Stored
    <3> QED
      BY <1>a, <3>1, <3>4, <3>5 DEF Abstract!HandoffNext, Abstract!TurnAway, Abstract!At
  <2>2. CASE ~has_pending_accept
    <3>1. conn' = conn /\ Owned' = Owned
      BY <1>3, <2>2 DEF ListenerLoadFlag, Owned
    <3>2. Owing' => Owing
      BY <1>3, <2>2 DEF ListenerLoadFlag, Owing, Stored
    <3> QED
      BY <1>a, <3>1, <3>2, PlaceKept, NothingMoves
  <2> QED
    BY <2>1, <2>2
\* the listener stores over what the runtime thread has not read yet
<1>4. CASE ListenerWriteFd
  <2> DEFINE c == accepted_fd
  <2>1. /\ conn' = conn /\ accepted_fd' = client_fd /\ lpc = "write_fd" /\ lpc' = "write_port"
        /\ ~Stored /\ UNCHANGED <<rpc, fd, has_pending_accept, client_fd>>
    BY <1>0, <1>4 DEF ListenerWriteFd, WritesUnflagged, Stored
  <2>2. CASE rpc = "read_fd" /\ c # NoFd
    <3>1. c \in Conn /\ conn[c] = "open" /\ c # tcp /\ c # client_fd /\ c \in Owned
      BY <1>0, <2>1, <2>2 DEF UsedIsOpen, ListenerHolds, TypeOK, Fd, Owned
    <3>2. \A d \in Conn : Place'[d] = IF d \in {c} THEN "lost" ELSE Place[d]
      BY <1>a, <2>1, <2>2, <3>1 DEF Place, Owned
    <3>3. Abstract!Move({c}, "lost") /\ Place[c] = "held"
      BY <3>1, <3>2, PlaceMoves DEF Place
    <3>4. Owing /\ Owing' = FALSE
      BY <2>1, <2>2 DEF Owing, Stored
    <3> QED
      BY <1>a, <3>1, <3>3, <3>4 DEF Abstract!HandoffNext, Abstract!Lose, Abstract!At
  <2>3. CASE ~(rpc = "read_fd" /\ c # NoFd)
    <3>1. c = NoFd \/ (rpc = "reset_fd" /\ c = fd)
      BY <1>0, <2>1, <2>3 DEF SlotTaken
    <3>2. Owned' \ {NoFd} = Owned \ {NoFd}
      BY <1>a, <2>1, <3>1 DEF Owned
    <3>3. Owing' => Owing
      BY <2>1 DEF Owing
    <3> QED
      BY <1>a, <2>1, <3>2, <3>3, PlaceKept, NothingMoves
  <2> QED
    BY <2>2, <2>3
<1> QED
  BY <1>1, <1>2, <1>3, <1>4 DEF Listener

LEMMA RuntimeHandsOff ==
    IInv /\ LInv /\ (Runtime \/ RuntimeSession)
        => [Abstract!HandoffNext]_(Abstract!handoff_vars)
<1> SUFFICES ASSUME IInv, LInv, Runtime \/ RuntimeSession
             PROVE  [Abstract!HandoffNext]_(Abstract!handoff_vars)
  OBVIOUS
<1> USE NoFdAssumption DEF slot, listener
<1>0. TypeOK /\ UsedIsOpen /\ ListenerHolds /\ CleanupOrder
  BY DEF IInv, LInv
<1>a. mpc' = mpc
  BY DEF Runtime, RuntimeTop, RuntimeNoPending, RuntimeTestFlag, RuntimeClearFlag, RuntimeReadFd,
     RuntimeResetFd, RuntimeTakeOver, RuntimeReconnect, RuntimeSession
<1>1. CASE RuntimeTop \/ RuntimeNoPending \/ RuntimeTestFlag \/ RuntimeReadFd \/ RuntimeSession
  <2>1. conn' = conn /\ tcp' = tcp /\ calls' = calls
    BY <1>1 DEF RuntimeTop, RuntimeNoPending, RuntimeTestFlag, RuntimeReadFd, RuntimeSession
  <2>2. Owned' \ {NoFd} = Owned \ {NoFd}
    BY <1>1 DEF RuntimeTop, RuntimeNoPending, RuntimeTestFlag, RuntimeReadFd, RuntimeSession, Owned
  <2>3. Owing' => Owing
    BY <1>1 DEF RuntimeTop, RuntimeNoPending, RuntimeTestFlag, RuntimeReadFd, RuntimeSession,
       Owing, Stored
  <2> QED
    BY <1>a, <2>1, <2>2, <2>3, PlaceKept, NothingMoves
<1>2. CASE RuntimeClearFlag
  <2>1. conn' = conn /\ tcp' = tcp /\ calls' = calls + 1 /\ Owned' = Owned
    BY <1>2 DEF RuntimeClearFlag, Owned
  <2>2. mpc \notin {"close_slot", "close_tcp", "done"}
    BY <1>0, <1>2 DEF RuntimeClearFlag, CleanupOrder
  <2>3. Place' = Place
    BY <2>1, PlaceKept
  <2>4. Owing' \in BOOLEAN
    BY DEF Owing
  <2> QED
    BY <1>a, <2>1, <2>2, <2>3, <2>4 DEF Abstract!HandoffNext, Abstract!Take
\* the runtime thread resets away what the listener has just stored
<1>3. CASE RuntimeResetFd
  <2> DEFINE c == accepted_fd
  <2>1. /\ conn' = conn /\ tcp' = tcp /\ calls' = calls /\ accepted_fd' = NoFd
        /\ rpc = "reset_fd" /\ rpc' = "read_port" /\ fd' = fd /\ UNCHANGED <<lpc, client_fd>>
    BY <1>3 DEF RuntimeResetFd
  <2>2. Owing' = FALSE
    BY <2>1 DEF Owing
  <2>3. CASE c # fd /\ c # NoFd
    <3>1. c \in Conn /\ conn[c] = "open" /\ c # tcp /\ c \in Owned
      BY <1>0, <2>3 DEF UsedIsOpen, TypeOK, Fd, Owned
    <3>2. lpc \in {"flag", "write_fd"} => c # client_fd
      BY <1>0 DEF ListenerHolds
    <3>3. \A d \in Conn : Place'[d] = IF d \in {c} THEN "lost" ELSE Place[d]
      BY <2>1, <2>3, <3>1, <3>2 DEF Place, Owned
    <3>4. Abstract!Move({c}, "lost") /\ Place[c] = "held"
      BY <3>1, <3>3, PlaceMoves DEF Place
    <3>5. Owing /\ mpc \notin {"close_slot", "close_tcp", "done"}
      BY <1>0, <2>1, <2>3 DEF Owing, CleanupOrder
    <3> QED
      BY <1>a, <2>1, <2>2, <3>1, <3>4, <3>5 DEF Abstract!HandoffNext, Abstract!Lose, Abstract!At
  <2>4. CASE c = fd \/ c = NoFd
    <3>1. Owned' \ {NoFd} = Owned \ {NoFd}
      BY <2>1, <2>4 DEF Owned
    <3> QED
      BY <1>a, <2>1, <2>2, <3>1, PlaceKept, NothingMoves
  <2> QED
    BY <2>3, <2>4
<1>4. CASE RuntimeTakeOver
  <2> DEFINE c == fd
  <2>1. /\ rpc = "read_port" /\ rpc' = "top" /\ calls' = calls
        /\ UNCHANGED <<accepted_fd, has_pending_accept, lpc, client_fd>>
    BY <1>4 DEF RuntimeTakeOver
  <2>2. /\ c \in Conn /\ conn[c] = "open" /\ c # tcp /\ c # accepted_fd /\ c \in Owned
        /\ lpc \in {"flag", "write_fd"} => c # client_fd
    BY <1>0, <2>1 DEF UsedIsOpen, ListenerHolds, TypeOK, Fd, Owned
  <2>3. Place[c] = "held" /\ Owing = FALSE /\ Owing' = FALSE
    BY <2>1, <2>2 DEF Place, Owing
  <2>4. CASE established
    <3>1. conn' = [d \in Conn |-> IF d # c THEN conn[d] ELSE "closed"] /\ tcp' = tcp
      BY <1>4, <2>2, <2>4 DEF RuntimeTakeOver, CloseAll
    <3>2. \A d \in Conn : Place'[d] = IF d \in {c} THEN "closed" ELSE Place[d]
      BY <2>1, <2>2, <3>1 DEF Place, Owned
    <3>3. Abstract!Move({c}, "closed")
      BY <3>2, PlaceMoves
    <3> QED
      BY <1>a, <2>1, <2>2, <2>3, <3>3 DEF Abstract!HandoffNext, Abstract!TurnAway, Abstract!At
  <2>5. CASE ~established
    <3>1. /\ conn' = [d \in Conn |-> IF d # tcp THEN conn[d] ELSE "closed"] /\ tcp' = c
          /\ tcp # NoFd => conn[tcp] = "open"
      BY <1>0, <1>4, <2>5 DEF RuntimeTakeOver, CloseAll, UsedIsOpen, TypeOK, Fd
    <3>2. tcp # NoFd => tcp # accepted_fd /\ (lpc \in {"flag", "write_fd"} => tcp # client_fd)
      BY <1>0 DEF UsedIsOpen, ListenerHolds
    <3>3. \A d \in Conn : Place'[d] = IF d = c THEN "current"
                                      ELSE IF Place[d] = "current" THEN "closed" ELSE Place[d]
      BY <1>0, <2>1, <2>2, <3>1, <3>2 DEF Place, Owned, TypeOK
    <3>4. Place' = [d \in Conn |-> IF d = c THEN "current"
                                   ELSE IF Place[d] = "current" THEN "closed" ELSE Place[d]]
      <4>1. Place' = [d \in Conn |-> Place'[d]]
        BY DEF Place
      <4> QED
        BY <3>3, <4>1
    <3>5. mpc \notin {"close_slot", "close_tcp", "done"}
      BY <1>0, <2>1 DEF CleanupOrder
    <3> QED
      BY <1>a, <2>1, <2>2, <2>3, <3>4, <3>5 DEF Abstract!HandoffNext, Abstract!Install, Abstract!At
  <2> QED
    BY <2>4, <2>5
\* an attempt gives up the current connection
<1>5. CASE RuntimeReconnect
  <2>1. /\ rpc = "poll" /\ rpc' = "poll" /\ tcp' = NoFd
        /\ UNCHANGED <<accepted_fd, calls, lpc, client_fd, fd>>
        /\ conn' = [d \in Conn |-> IF d # tcp THEN conn[d]
                                   ELSE IF conn[d] = "closed" THEN "closed_twice" ELSE "closed"]
    BY <1>0, <1>5 DEF RuntimeReconnect, CloseAll, TypeOK, Fd
  <2>2. Owing = FALSE /\ Owing' = FALSE
    BY <2>1 DEF Owing
  <2>3. tcp # NoFd => /\ conn[tcp] = "open" /\ tcp # accepted_fd
                      /\ lpc \in {"flag", "write_fd"} => tcp # client_fd
    BY <1>0 DEF UsedIsOpen, ListenerHolds
  <2> DEFINE S == {c \in Conn : Place[c] = "current"}
  <2>4. \A c \in Conn : Place'[c] = IF c \in S THEN "closed" ELSE Place[c]
    BY <1>0, <2>1, <2>3 DEF Place, Owned, TypeOK
  <2>5. Abstract!Move(S, "closed")
    <3> HIDE DEF S
    <3> QED
      BY <2>4, PlaceMoves
  <2> QED
    BY <1>a, <2>1, <2>2, <2>5 DEF Abstract!HandoffNext, Abstract!Release, Abstract!At
<1> QED
  BY <1>1, <1>2, <1>3, <1>4, <1>5 DEF Runtime

LEMMA MainHandsOff ==
    IInv /\ LInv /\ Main => [Abstract!HandoffNext]_(Abstract!handoff_vars)
<1> SUFFICES ASSUME IInv, LInv, Main PROVE [Abstract!HandoffNext]_(Abstract!handoff_vars)
  OBVIOUS
<1> USE NoFdAssumption DEF slot, listener, runtime
<1>0. TypeOK /\ UsedIsOpen /\ CleanupOrder
  BY DEF IInv, LInv
<1>1. CASE MainBeginCleanup \/ MainJoinRuntime \/ requestStop
  <2>1. conn' = conn /\ tcp' = tcp /\ calls' = calls /\ Owned' = Owned /\ Owing' = Owing
    BY <1>1 DEF MainBeginCleanup, MainJoinRuntime, requestStop, Owned, Owing, Stored
  <2>2. (mpc' \in {"close_slot", "close_tcp", "done"}) = (mpc \in {"close_slot", "close_tcp", "done"})
    BY <1>1 DEF MainBeginCleanup, MainJoinRuntime, requestStop
  <2> QED
    BY <2>1, <2>2, PlaceKept, NothingMoves
<1>2. CASE MainJoinListener
  <2>1. /\ mpc = "join_listener" /\ mpc' = "close_slot" /\ lpc = "done" /\ rpc = "done"
        /\ conn' = [c \in Conn |-> IF conn[c] # "queued" THEN conn[c] ELSE "closed"]
        /\ UNCHANGED <<tcp, calls, accepted_fd, lpc, rpc, fd, client_fd>>
    BY <1>0, <1>2 DEF MainJoinListener, CloseAll, CleanupOrder
  <2>2. Owing = FALSE /\ Owing' = FALSE
    BY <2>1 DEF Owing
  <2> DEFINE S == {c \in Conn : Place[c] = "queued"}
  <2>3. \A c \in Conn : Place'[c] = IF c \in S THEN "closed" ELSE Place[c]
    BY <2>1 DEF Place, Owned
  <2>4. Abstract!Move(S, "closed")
    <3> HIDE DEF S
    <3> QED
      BY <2>3, PlaceMoves
  <2> QED
    BY <2>1, <2>2, <2>4 DEF Abstract!HandoffNext, Abstract!Stop, Abstract!At
<1>3. CASE MainCloseSlot
  <2>1. /\ mpc = "close_slot" /\ mpc' = "close_tcp" /\ lpc = "done" /\ rpc = "done"
        /\ accepted_fd' = NoFd
        /\ UNCHANGED <<tcp, calls, lpc, rpc, fd, client_fd>>
    BY <1>0, <1>3 DEF MainCloseSlot, CleanupOrder
  <2>2. Owing = FALSE /\ Owing' = FALSE
    BY <2>1 DEF Owing
  <2> DEFINE c == accepted_fd
  <2>3. CASE c = NoFd
    <3>1. conn' = conn
      BY <1>0, <1>3, <2>3 DEF MainCloseSlot, CloseAll, TypeOK
    <3>2. Owned' \ {NoFd} = Owned \ {NoFd}
      BY <2>1, <2>3 DEF Owned
    <3> QED
      BY <2>1, <2>2, <3>1, <3>2, PlaceKept, NothingMoves
  <2>4. CASE c # NoFd
    <3>1. c \in Conn /\ conn[c] = "open" /\ c # tcp /\ c \in Owned
      BY <1>0, <2>4 DEF UsedIsOpen, TypeOK, Fd, Owned
    <3>2. conn' = [d \in Conn |-> IF d # c THEN conn[d] ELSE "closed"]
      BY <1>3, <2>4, <3>1 DEF MainCloseSlot, CloseAll
    <3>3. \A d \in Conn : Place'[d] = IF d \in {c} THEN "closed" ELSE Place[d]
      BY <2>1, <3>1, <3>2 DEF Place, Owned
    <3>4. Abstract!Move({c}, "closed") /\ Place[c] = "held"
      BY <3>1, <3>3, PlaceMoves DEF Place
    <3> QED
      BY <2>1, <2>2, <3>1, <3>4 DEF Abstract!HandoffNext, Abstract!TurnAway, Abstract!At
  <2> QED
    BY <2>3, <2>4
<1>4. CASE MainCloseTcp
  <2>1. /\ mpc = "close_tcp" /\ mpc' = "done" /\ lpc = "done" /\ rpc = "done" /\ tcp' = NoFd
        /\ UNCHANGED <<accepted_fd, calls, lpc, rpc, fd, client_fd>>
        /\ conn' = [d \in Conn |-> IF d # tcp THEN conn[d]
                                   ELSE IF conn[d] = "closed" THEN "closed_twice" ELSE "closed"]
    BY <1>0, <1>4 DEF MainCloseTcp, CleanupOrder, CloseAll, TypeOK, Fd
  <2>2. Owing = FALSE /\ Owing' = FALSE
    BY <2>1 DEF Owing
  <2>3. tcp # NoFd => conn[tcp] = "open" /\ tcp # accepted_fd
    BY <1>0 DEF UsedIsOpen
  <2> DEFINE S == {c \in Conn : Place[c] = "current"}
  <2>4. \A c \in Conn : Place'[c] = IF c \in S THEN "closed" ELSE Place[c]
    BY <1>0, <2>1, <2>3 DEF Place, Owned, TypeOK
  <2>5. Abstract!Move(S, "closed")
    <3> HIDE DEF S
    <3> QED
      BY <2>4, PlaceMoves
  <2> QED
    BY <2>1, <2>2, <2>5 DEF Abstract!HandoffNext, Abstract!Release, Abstract!At
<1> QED
  BY <1>1, <1>2, <1>3, <1>4 DEF Main

LEMMA StepsHandOff ==
    IInv /\ LInv /\ [Next]_vars => [Abstract!HandoffNext]_(Abstract!handoff_vars)
<1> SUFFICES ASSUME IInv, LInv, [Next]_vars
             PROVE  [Abstract!HandoffNext]_(Abstract!handoff_vars)
  OBVIOUS
<1>1. ASSUME NEW c \in Conn, Connect(c) PROVE Abstract!HandoffNext
  <2>1. /\ conn[c] = "new" /\ conn' = [conn EXCEPT ![c] = "queued"]
        /\ mpc' = mpc /\ mpc \notin {"close_slot", "close_tcp", "done"}
        /\ UNCHANGED <<slot, listener, runtime>>
    BY <1>1 DEF Connect
  <2>2. tcp' = tcp /\ calls' = calls /\ Owned' = Owned /\ Owing' = Owing
    BY <2>1 DEF slot, listener, runtime, Owned, Owing, Stored
  <2>3. \A d \in Conn : Place'[d] = IF d \in {c} THEN "queued" ELSE Place[d]
    <3> HIDE DEF Owned
    <3> QED
      BY <2>1, <2>2 DEF Place, IInv, TypeOK
  <2>4. Abstract!Move({c}, "queued") /\ Place[c] = "new"
    BY <2>1, <2>3, PlaceMoves DEF Place
  <2> QED
    BY <2>1, <2>2, <2>4 DEF Abstract!HandoffNext, Abstract!Arrive, Abstract!At
<1>2. UNCHANGED vars => UNCHANGED Abstract!handoff_vars
  BY DEF vars, slot, listener, runtime, Abstract!handoff_vars, Place, Owned, Owing, Stored
<1> QED
  BY <1>1, <1>2, ListenerHandsOff, RuntimeHandsOff, MainHandsOff DEF Next

LEMMA StartsHandOff == Init => Abstract!HandoffInit
<1> SUFFICES ASSUME Init PROVE Abstract!HandoffInit
  OBVIOUS
<1>1. Place = [c \in Conn |-> "new"]
  BY DEF Init, Place
<1>2. calls = 0 /\ Owing = FALSE /\ mpc = "serving"
  BY DEF Init, Owing
<1> QED
  BY <1>1, <1>2 DEF Abstract!HandoffInit

(* The slot, the flag and the two threads implement Handoff: a connection  *)
(* only goes forward, acceptConnection loses one a call at most, and       *)
(* cleanupBgpBundle closes what is left when both threads are joined.      *)
THEOREM HandoffImplemented == Spec => HandoffKept
BY StartsHandOff, StepsHandOff, InitIInv, NextIInv, InitLInv, NextLInv, PTL
DEF Spec, HandoffKept, Abstract!HandoffSpec

-----------------------------------------------------------------------------
(* FlattenSeq of SequencesExt, which a reload builds file by file.  It is  *)
(* defined by a recursive function: that the function exists, and that it  *)
(* is the only one, are shown by least counterexample.                     *)

LEMMA LeastNat ==
    ASSUME NEW S \in SUBSET Nat, S # {}
    PROVE  \E x \in S : \A y \in S : x <= y
<1> DEFINE R == {p \in Nat \X Nat : p[1] < p[2]}
<1>1. R = OpToRel(<, Nat)
  BY DEF OpToRel
<1>2. IsWellFoundedOn(R, Nat)
  BY <1>1, NatLessThanWellFounded
<1>3. PICK x \in S : \A y \in S : ~ (<<y, x>> \in R)
  <2> HIDE DEF R
  <2> QED
    BY <1>2, WFMin
<1>4. \A y \in S : ~(y < x)
  BY <1>3
<1> QED
  BY <1>4

(* The sequences that FlattenSeq goes through up to the n-th of s.         *)
Flattens(f, s, n) == \A i \in 1..n : f[i] = IF i = 1 THEN s[i] ELSE f[i - 1] \o s[i]

LEMMA FlatteningExists ==
    ASSUME NEW S, NEW n \in Nat, NEW s \in [1..n -> Seq(S)]
    PROVE  \E f \in [1..n -> Seq(S)] : Flattens(f, s, n)
<1> DEFINE Good(k) == \E f \in [1..k -> Seq(S)] : Flattens(f, s, k)
           Bad == {k \in 0..n : ~Good(k)}
<1>1. SUFFICES ASSUME Bad # {} PROVE FALSE
  <2>1. n \in 0..n
    OBVIOUS
  <2> HIDE DEF Good
  <2>2. Good(n)
    BY <1>1, <2>1, Zenon
  <2> QED
    BY <2>2 DEF Good
<1>2. PICK k \in Bad : \A j \in Bad : k <= j
  <2>1. Bad \in SUBSET Nat
    OBVIOUS
  <2> HIDE DEF Bad
  <2> QED
    BY <1>1, <2>1, LeastNat
<1>3. k # 0
  <2> DEFINE f == [i \in 1..0 |-> <<>>]
  <2>1. Good(0)
    <3>1. f \in [1..0 -> Seq(S)] /\ Flattens(f, s, 0)
      BY DEF Flattens
    <3> HIDE DEF f
    <3> QED
      BY <3>1
  <2> HIDE DEF Good
  <2> QED
    BY <1>2, <2>1
<1>4. k \in 1..n /\ k - 1 \in 0..n /\ k - 1 \notin Bad
  BY <1>2, <1>3, SMTT(60)
<1>5. PICK f \in [1..(k - 1) -> Seq(S)] : Flattens(f, s, k - 1)
  BY <1>4
<1> DEFINE e == IF k = 1 THEN s[k] ELSE f[k - 1] \o s[k]
           g == [i \in 1..k |-> IF i < k THEN f[i] ELSE e]
<1>6. e \in Seq(S)
  <2>1. CASE k = 1
    BY <1>4, <2>1
  <2>2. CASE k # 1
    <3>1. k - 1 \in 1..(k - 1)
      BY <1>4, <2>2
    <3>2. f[k - 1] \in Seq(S) /\ s[k] \in Seq(S)
      BY <1>4, <1>5, <3>1 DEF Flattens
    <3> QED
      BY <2>2, <3>2, ConcatProperties
  <2> QED
    BY <2>1, <2>2
<1>7. \A i \in 1..k : i < k => i \in 1..(k - 1)
  BY <1>4
<1>8. g \in [1..k -> Seq(S)]
  <2> HIDE DEF e
  <2> QED
    BY <1>5, <1>6, <1>7 DEF Flattens
<1>9. ASSUME NEW i \in 1..k
      PROVE  g[i] = IF i = 1 THEN s[i] ELSE g[i - 1] \o s[i]
  <2>1. i # 1 => i - 1 \in 1..k /\ i - 1 < k
    BY <1>4
  <2>2. i # 1 => g[i - 1] = f[i - 1]
    BY <2>1
  <2>3. CASE i = k
    BY <2>2, <2>3
  <2>4. CASE i # k
    <3>1. i < k /\ i \in 1..(k - 1)
      BY <1>4, <2>4
    <3>2. g[i] = f[i]
      BY <3>1
    <3>3. f[i] = IF i = 1 THEN s[i] ELSE f[i - 1] \o s[i]
      BY <1>5, <3>1 DEF Flattens
    <3> HIDE DEF g
    <3> QED
      BY <2>2, <3>2, <3>3
  <2> QED
    BY <2>3, <2>4
<1> HIDE DEF g
<1>10. Good(k)
  BY <1>8, <1>9 DEF Flattens
<1> HIDE DEF Good
<1> QED
  BY <1>2, <1>10

LEMMA FlatteningIsOne ==
    ASSUME NEW n \in Nat \ {0}, NEW s, NEW f, NEW g, Flattens(f, s, n), Flattens(g, s, n)
    PROVE  f[n] = g[n]
<1> DEFINE Bad == {k \in 1..n : f[k] # g[k]}
<1>1. SUFFICES ASSUME Bad # {} PROVE FALSE
  <2>1. n \in 1..n
    OBVIOUS
  <2> QED
    BY <1>1, <2>1, Zenon
<1>2. PICK k \in Bad : \A j \in Bad : k <= j
  <2>1. Bad \in SUBSET Nat
    OBVIOUS
  <2> HIDE DEF Bad
  <2> QED
    BY <1>1, <2>1, LeastNat
<1>3. k \in 1..n
  BY <1>2
<1>4. f[k] = (IF k = 1 THEN s[k] ELSE f[k - 1] \o s[k])
  BY <1>3 DEF Flattens
<1>5. g[k] = (IF k = 1 THEN s[k] ELSE g[k - 1] \o s[k])
  BY <1>3 DEF Flattens
<1>6. k # 1 => f[k - 1] = g[k - 1]
  <2>1. k - 1 \notin Bad
    BY <1>2, <1>3
  <2> QED
    BY <1>3, <2>1
<1> QED
  BY <1>2, <1>3, <1>4, <1>5, <1>6

(* FlattenSeq is the last of them.                                         *)
LEMMA FlattenIs ==
    ASSUME NEW S, NEW n \in Nat \ {0}, NEW s \in [1..n -> Seq(S)]
    PROVE  \E f \in [1..n -> Seq(S)] : Flattens(f, s, n) /\ FlattenSeq(s) = f[n]
<1> DEFINE E(f) == f = [i \in 1..n |-> IF i = 1 THEN s[i] ELSE f[i - 1] \o s[i]]
           c == CHOOSE f : E(f)
<1>1. PICK f \in [1..n -> Seq(S)] : Flattens(f, s, n)
  BY FlatteningExists
<1>2. E(f)
  BY <1>1 DEF Flattens
<1>3. E(c)
  <2> HIDE DEF E
  <2> QED
    BY <1>2
<1>4. s \in Seq(Seq(S)) /\ Len(s) = n
  OBVIOUS
<1>5. FlattenSeq(s) = c[n]
  BY <1>4 DEF FlattenSeq
<1> HIDE DEF c
<1>6. Flattens(c, s, n)
  <2>1. \A i \in 1..n : c[i] = [j \in 1..n |-> IF j = 1 THEN s[j] ELSE c[j - 1] \o s[j]][i]
    BY <1>3
  <2> QED
    BY <2>1 DEF Flattens
<1>7. c[n] = f[n]
  BY <1>1, <1>6, FlatteningIsOne
<1> QED
  BY <1>1, <1>5, <1>7

(* One more sequence is appended.                                          *)
LEMMA FlattenAppends ==
    ASSUME NEW S, NEW n \in Nat, NEW s \in [1..n -> Seq(S)], NEW t \in [1..(n + 1) -> Seq(S)],
           \A i \in 1..n : t[i] = s[i]
    PROVE  FlattenSeq(s) \in Seq(S) /\ FlattenSeq(t) = FlattenSeq(s) \o t[n + 1]
<1>1. PICK g \in [1..(n + 1) -> Seq(S)] : Flattens(g, t, n + 1) /\ FlattenSeq(t) = g[n + 1]
  BY FlattenIs
<1>2. n + 1 \in 1..(n + 1) /\ t[n + 1] \in Seq(S)
  OBVIOUS
<1>3. CASE n = 0
  <2>1. s \in Seq(Seq(S)) /\ Len(s) = 0
    BY <1>3
  <2>2. FlattenSeq(s) = <<>>
    <3>1. s = <<>>
      BY <2>1, EmptySeq, SeqEqual
    <3>2. FlattenSeq(s) = s
      BY <2>1, Zenon DEF FlattenSeq
    <3> QED
      BY <3>1, <3>2
  <2>3. FlattenSeq(t) = t[1]
    <3>1. 1 \in 1..(n + 1)
      BY <1>3
    <3>2. g[1] = t[1]
      BY <1>1, <3>1 DEF Flattens
    <3> QED
      BY <1>1, <1>3, <3>2
  <2> QED
    BY <1>2, <1>3, <2>2, <2>3, ConcatEmptySeq, EmptySeq
<1>4. CASE n # 0
  <2>1. PICK f \in [1..n -> Seq(S)] : Flattens(f, s, n) /\ FlattenSeq(s) = f[n]
    BY <1>4, FlattenIs
  <2>2. f[n] = g[n]
    <3>1. \A i \in 1..n : i \in 1..(n + 1)
      OBVIOUS
    <3>2. Flattens(g, s, n)
      BY <1>1, <3>1 DEF Flattens
    <3> QED
      BY <1>4, <2>1, <3>2, FlatteningIsOne
  <2>3. g[n + 1] = g[n] \o t[n + 1]
    <3>1. n + 1 # 1 /\ (n + 1) - 1 = n
      BY <1>4
    <3> QED
      BY <1>1, <1>2, <3>1 DEF Flattens
  <2>4. f[n] \in Seq(S)
    BY <1>4
  <2> QED
    BY <1>1, <2>1, <2>2, <2>3, <2>4
<1> QED
  BY <1>3, <1>4

-----------------------------------------------------------------------------
(* BgpExport: the contents of the files and what a reload makes of them.   *)

LEMMA ContentsAreLists ==
    ASSUME NEW f \in Files
    PROVE  /\ Contents(f) \subseteq Seq(Routes)
           /\ <<>> \in Contents(f)
<1>1. MaxLines \in Nat
  BY FilesAssumption
<1>2. Own(f) \subseteq Routes
  BY DEF Routes
<1>3. \A S : <<>> \in SeqOf(S, MaxLines)
  <2> SUFFICES ASSUME NEW S PROVE <<>> \in SeqOf(S, MaxLines)
    OBVIOUS
  <2>1. <<>> \in [1..0 -> S] /\ 0 \in 0..MaxLines
    BY <1>1
  <2> QED
    BY <2>1 DEF SeqOf
<1>4. \A S, T : S \subseteq T => SeqOf(S, MaxLines) \subseteq Seq(T)
  <2> SUFFICES ASSUME NEW S, NEW T, S \subseteq T, NEW list \in SeqOf(S, MaxLines)
               PROVE  list \in Seq(T)
    OBVIOUS
  <2>1. PICK m \in 0..MaxLines : list \in [1..m -> S]
    BY DEF SeqOf
  <2>2. m \in Nat /\ list \in [1..m -> T]
    BY <1>1, <2>1
  <2> QED
    BY <2>2
<1>5. IsInjective(<<>>)
  BY DEF IsInjective
<1>6. CASE Overlaps
  BY <1>3, <1>4, <1>6 DEF Contents
<1>7. CASE ~Overlaps
  BY <1>2, <1>3, <1>4, <1>5, <1>7 DEF Contents
<1> QED
  BY <1>6, <1>7

(* list is what was read from the first n files, each as it once was.      *)
ReadWhole(list, n, h) ==
    \E read \in [1..n -> Seq(Routes)] :
        /\ \A f \in 1..n : read[f] \in h[f] \ {Broken}
        /\ list = FlattenSeq(read)

LEMMA NothingRead == \A h : ReadWhole(<<>>, 0, h)
<1> SUFFICES ASSUME NEW h PROVE ReadWhole(<<>>, 0, h)
  OBVIOUS
<1>1. <<>> \in [1..0 -> Seq(Routes)] /\ Len(<<>>) = 0
  BY EmptySeq
<1>2. FlattenSeq(<<>>) = <<>>
  BY <1>1, Zenon DEF FlattenSeq
<1>3. \A f \in 1..0 : FALSE
  OBVIOUS
<1> QED
  BY <1>1, <1>2, <1>3 DEF ReadWhole

LEMMA OneMoreRead ==
    ASSUME NEW list, NEW n \in Nat, NEW h, ReadWhole(list, n, h),
           NEW c \in Seq(Routes), c \in h[n + 1], c # Broken
    PROVE  ReadWhole(list \o c, n + 1, h)
<1>1. PICK read \in [1..n -> Seq(Routes)] :
        (\A f \in 1..n : read[f] \in h[f] \ {Broken}) /\ list = FlattenSeq(read)
  BY DEF ReadWhole
<1> DEFINE more == [f \in 1..(n + 1) |-> IF f = n + 1 THEN c ELSE read[f]]
<1>2. \A f \in 1..(n + 1) : f # n + 1 => f \in 1..n
  OBVIOUS
<1>3. \A f \in 1..n : f \in 1..(n + 1) /\ f # n + 1
  OBVIOUS
<1>4. more \in [1..(n + 1) -> Seq(Routes)]
  BY <1>2
<1>5. \A f \in 1..n : more[f] = read[f]
  BY <1>3
<1>6. n + 1 \in 1..(n + 1) /\ more[n + 1] = c
  OBVIOUS
<1>7. \A f \in 1..(n + 1) : more[f] \in h[f] \ {Broken}
  BY <1>1, <1>2
<1> HIDE DEF more
<1>8. FlattenSeq(more) = list \o c
  BY <1>1, <1>4, <1>5, <1>6, FlattenAppends, ZenonT(60)
<1> QED
  BY <1>4, <1>7, <1>8 DEF ReadWhole

LEMMA ReadStays ==
    ASSUME NEW list, NEW n, NEW h, NEW hh, ReadWhole(list, n, h), \A f \in 1..n : h[f] \subseteq hh[f]
    PROVE  ReadWhole(list, n, hh)
BY DEF ReadWhole

\* the files and the contents they have had
FilesHeld ==
    /\ DOMAIN disk = Files /\ DOMAIN had = Files
    /\ \A f \in Files : disk[f] \in had[f]

\* what a reload has read so far
Reading ==
    /\ pc \in {"read", "apply"} /\ ~any_file_failed => ReadWhole(candidate, unread - 1, had)
    /\ pc = "apply" => unread = NFiles + 1 /\ ~any_file_failed

Committed ==
    current_exported_prefixes = prefixes \/ ReadWhole(current_exported_prefixes, NFiles, had)

ReloadInv == ExportTypeOK /\ FilesHeld /\ Reading /\ Committed

LEMMA FlattenTyped ==
    ASSUME NEW s \in [Files -> Seq(Routes)]
    PROVE  FlattenSeq(s) \in Seq(Routes)
<1>1. NFiles \in Nat \ {0} /\ s \in [1..NFiles -> Seq(Routes)]
  BY FilesAssumption DEF Files
<1>2. PICK f \in [1..NFiles -> Seq(Routes)] : FlattenSeq(s) = f[NFiles]
  BY <1>1, FlattenIs
<1> QED
  BY <1>1, <1>2

LEMMA InlineTyped == Inline \in Seq(Routes)
<1>1. NInline \in Nat
  BY FilesAssumption
<1>2. \A i \in 1..NInline : Inline[i] \in Routes
  <2>1. DOMAIN Inline = 1..NInline
    BY DEF Inline
  <2>2. \A i \in DOMAIN Inline : Inline[i] \in ToSet(Inline)
    BY Zenon DEF ToSet
  <2>3. ToSet(Inline) \subseteq Routes
    BY DEF Routes
  <2> HIDE DEF Inline
  <2> QED
    BY <2>1, <2>2, <2>3, Zenon
<1>3. Inline \in [1..NInline -> Routes]
  BY <1>2 DEF Inline
<1> QED
  BY <1>1, <1>3

LEMMA StartTyped ==
    ExportInit => /\ disk \in [Files -> Seq(Routes)]
                  /\ prefixes \in Seq(Routes)
<1> SUFFICES ASSUME ExportInit PROVE disk \in [Files -> Seq(Routes)] /\ prefixes \in Seq(Routes)
  OBVIOUS
<1>1. disk \in [Files -> Seq(Routes)]
  BY ContentsAreLists DEF ExportInit
<1>2. FlattenSeq(disk) \in Seq(Routes)
  BY <1>1, FlattenTyped
<1>3. prefixes = Inline \o FlattenSeq(disk)
  BY DEF ExportInit
<1> QED
  BY <1>1, <1>2, <1>3, InlineTyped, ConcatProperties

LEMMA InitReload == ExportInit => ReloadInv
<1> SUFFICES ASSUME ExportInit PROVE ReloadInv
  OBVIOUS
<1>1. prefixes \in Seq(Routes) /\ Len(prefixes) \in Nat /\ <<>> \in Seq(Routes)
  BY StartTyped, EmptySeq, LenProperties
<1>2. ExportTypeOK
  <2> USE DEF ExportInit
  <2>1. writing \in Files \cup {NoFile} /\ writes_left \in 0..Writes /\ unread \in 1..NFiles + 1
    BY FilesAssumption
  <2>2. candidate \in Seq(Routes) /\ prefixes \in Seq(Routes)
        /\ current_exported_prefixes \in Seq(Routes) /\ export_batch_index \in 0..Len(prefixes)
    BY <1>1
  <2>3. \A f \in Files : /\ disk[f] \in Contents(f) \cup {Broken}
                          /\ had[f] \subseteq Contents(f) \cup {Broken}
    OBVIOUS
  <2>4. session \in SessionStates /\ told \in BOOLEAN /\ mixed \in BOOLEAN
    BY DEF SessionStates
  <2> QED
    BY <2>1, <2>2, <2>3, <2>4 DEF ExportTypeOK
<1>3. FilesHeld /\ Reading /\ Committed
  BY DEF ExportInit, FilesHeld, Reading, Committed
<1> QED
  BY <1>2, <1>3 DEF ReloadInv

(* A file that is edited is another thing to read, and what was read stays *)
(* read.                                                                   *)
LEMMA EditKeepsReload ==
    ASSUME ReloadInv, Unchanging, NEW f \in Files, NEW content \in Contents(f) \cup {Broken},
           Changes(f, content), writing' \in Files \cup {NoFile}, writes_left' \in 0..Writes,
           watches' \subseteq Files, Notices(f)
    PROVE  ReloadInv'
<1> USE DEF ReloadInv, Changes, Unchanging, reload, bgp
<1>1. \A g \in Files : disk'[g] = IF g = f THEN content ELSE disk[g]
  BY DEF FilesHeld
<1>2. \A g \in Files : had'[g] = IF g = f THEN had[g] \cup {content} ELSE had[g]
  BY DEF FilesHeld
<1>3. ExportTypeOK'
  <2>1. \A g \in Files : disk'[g] \in Contents(g) \cup {Broken}
    BY <1>1 DEF ExportTypeOK
  <2>2. \A g \in Files : had'[g] \subseteq Contents(g) \cup {Broken}
    BY <1>2 DEF ExportTypeOK
  <2>3. events' \in BOOLEAN
    BY DEF Notices
  <2> QED
    BY <2>1, <2>2, <2>3 DEF ExportTypeOK
<1>4. FilesHeld'
  BY <1>1, <1>2 DEF FilesHeld
<1>5. \A g \in Files : had[g] \subseteq had'[g]
  BY <1>2
<1>6. \A list : ReadWhole(list, NFiles, had) => ReadWhole(list, NFiles, had')
  BY <1>5, ReadStays DEF Files
<1>7. \A list : ReadWhole(list, unread - 1, had) => ReadWhole(list, unread - 1, had')
  <2>1. \A g \in 1..(unread - 1) : g \in Files
    BY FilesAssumption DEF Files, ExportTypeOK
  <2> QED
    BY <1>5, <2>1, ReadStays, ZenonT(60)
<1>8. Reading' /\ Committed'
  BY <1>6, <1>7 DEF Reading, Committed
<1> QED
  BY <1>3, <1>4, <1>8

LEMMA EditorKeepsReload == ReloadInv /\ Editor => ReloadInv'
<1> SUFFICES ASSUME ReloadInv, NEW f \in Files, Truncate(f) \/ WriteAndClose(f) \/ Replace(f)
             PROVE  ReloadInv'
  BY DEF Editor
<1>1. writes_left \in 0..Writes /\ Writes \in Nat /\ watches \subseteq Files
      /\ writing \in Files \cup {NoFile}
  BY FilesAssumption DEF ReloadInv, ExportTypeOK
<1>2. CASE Truncate(f)
  <2>1. <<>> \in Contents(f) \cup {Broken}
    BY ContentsAreLists
  <2>2. Changes(f, <<>>) /\ Unchanging /\ Notices(f)
    BY <1>2 DEF Truncate
  <2>3. writing' \in Files \cup {NoFile} /\ writes_left' \in 0..Writes /\ watches' \subseteq Files
    BY <1>1, <1>2 DEF Truncate
  <2> QED
    BY <2>1, <2>2, <2>3, EditKeepsReload
<1>3. CASE WriteAndClose(f)
  <2>1. PICK content \in Contents(f) \cup {Broken} : Changes(f, content)
    BY <1>3 DEF WriteAndClose
  <2>2. Unchanging /\ Notices(f)
    BY <1>3 DEF WriteAndClose
  <2>3. writing' \in Files \cup {NoFile} /\ writes_left' \in 0..Writes /\ watches' \subseteq Files
    BY <1>1, <1>3 DEF WriteAndClose
  <2> QED
    BY <2>1, <2>2, <2>3, EditKeepsReload
<1>4. CASE Replace(f)
  <2>1. PICK content \in Contents(f) \cup {Broken} : Changes(f, content)
    BY <1>4 DEF Replace
  <2>2. Unchanging /\ Notices(f)
    BY <1>4 DEF Replace
  <2>3. writing' \in Files \cup {NoFile} /\ writes_left' \in 0..Writes /\ watches' \subseteq Files
    BY <1>1, <1>4 DEF Replace
  <2> QED
    BY <2>1, <2>2, <2>3, EditKeepsReload
<1> QED
  BY <1>2, <1>3, <1>4

\* what the runtime thread does of the session before it gets to the watch
SessionPart ==
    \/ AwaitReconnect \/ Reconnect \/ TakeOver
    \/ SessionUp \/ ExportBatch \/ NothingToExport \/ SessionFails

LEMMA SessionKeepsReload ==
    ReloadInv /\ SessionPart => ReloadInv'
<1> SUFFICES ASSUME ReloadInv, SessionPart PROVE ReloadInv'
  OBVIOUS
<1> USE DEF ReloadInv
<1> USE DEF SessionPart, AwaitReconnect, Reconnect, TakeOver, SessionUp, ExportBatch,
            NothingToExport, SessionFails, SessionStep
<1>1. OnlySession /\ pc = "session" /\ pc' \in {"session", "watch", "sleep"}
  OBVIOUS
<1>2. session' \in SessionStates
  BY DEF ExportTypeOK, SessionStates, bgp
<1>3. told' \in BOOLEAN /\ mixed' \in BOOLEAN
  <2>1. told \in BOOLEAN /\ mixed \in BOOLEAN
    BY DEF ExportTypeOK
  <2> QED
    BY <2>1, ZenonT(60) DEF bgp
<1>4. export_batch_index' \in 0..Len(prefixes) /\ peer_routes' \subseteq Routes
  <2>1. Len(prefixes) \in Nat
    BY DEF ExportTypeOK
  <2>2. export_batch_index < Len(prefixes) => prefixes[export_batch_index + 1] \in Routes
    BY <2>1 DEF ExportTypeOK
  <2>3. export_batch_index \in 0..Len(prefixes) /\ peer_routes \subseteq Routes
    BY DEF ExportTypeOK
  <2> QED
    BY <2>1, <2>2, <2>3 DEF bgp
<1>5. ExportTypeOK'
  BY <1>1, <1>2, <1>3, <1>4 DEF OnlySession, ExportTypeOK, editor, watcher, reload
<1>6. FilesHeld' /\ Reading' /\ Committed'
  BY <1>1 DEF OnlySession, FilesHeld, Reading, Committed, editor, reload
<1> QED
  BY <1>5, <1>6

LEMMA ReadFileKeepsReload == ReloadInv /\ ReadFile => ReloadInv'
<1> SUFFICES ASSUME ReloadInv, ReadFile PROVE ReloadInv'
  OBVIOUS
<1> USE DEF ReloadInv, ReadFile, editor, watcher, bgp
<1>1. unread \in Files /\ unread - 1 \in Nat /\ (unread - 1) + 1 = unread /\ unread' - 1 = unread
  BY FilesAssumption DEF ExportTypeOK, Files
<1>2. disk[unread] # Broken => disk[unread] \in Seq(Routes)
  BY <1>1, ContentsAreLists DEF ExportTypeOK
<1>3. candidate' \in Seq(Routes) /\ any_file_failed' \in BOOLEAN
  BY <1>2, ConcatProperties, ZenonT(60) DEF ExportTypeOK
<1>4. ExportTypeOK'
  <2>1. unread' \in 1..NFiles + 1
    BY <1>1, FilesAssumption DEF Files
  <2> QED
    BY <1>3, <2>1 DEF ExportTypeOK
<1>5. FilesHeld' /\ Committed'
  BY DEF FilesHeld, Committed
<1>6. Reading'
  <2> SUFFICES ASSUME ~any_file_failed' PROVE ReadWhole(candidate', unread' - 1, had')
    BY DEF Reading
  <2>1. disk[unread] # Broken /\ candidate' = candidate \o disk[unread] /\ ~any_file_failed
        /\ had' = had
    OBVIOUS
  <2>2. ReadWhole(candidate, unread - 1, had)
    BY <2>1 DEF Reading
  <2>3. disk[unread] \in had[(unread - 1) + 1]
    BY <1>1 DEF FilesHeld
  <2>4. ReadWhole(candidate \o disk[unread], (unread - 1) + 1, had)
    BY <1>1, <1>2, <2>1, <2>2, <2>3, OneMoreRead
  <2> QED
    BY <1>1, <2>1, <2>4
<1> QED
  BY <1>4, <1>5, <1>6

LEMMA NextReload == ReloadInv /\ [ExportNext]_export_vars => ReloadInv'
<1> SUFFICES ASSUME ReloadInv, [ExportNext]_export_vars PROVE ReloadInv'
  OBVIOUS
<1> USE DEF ReloadInv, editor, watcher, reload, bgp
<1>1. CASE EventsScheduleReload \/ NoReload
  BY <1>1 DEF EventsScheduleReload, NoReload, ExportTypeOK, FilesHeld, Reading, Committed
<1>2. CASE BeginReload
  <2>1. ReadWhole(candidate', unread' - 1, had')
    BY <1>2, NothingRead DEF BeginReload
  <2>2. ExportTypeOK'
    <3>1. candidate' \in Seq(Routes) /\ unread' \in 1..NFiles + 1
      BY <1>2, FilesAssumption, EmptySeq DEF BeginReload
    <3> QED
      BY <1>2, <3>1 DEF BeginReload, ExportTypeOK
  <2> QED
    BY <1>2, <2>1, <2>2 DEF BeginReload, FilesHeld, Reading, Committed
<1>3. CASE ReadingDone
  <2>1. unread = NFiles + 1
    BY <1>3, FilesAssumption DEF ReadingDone, ExportTypeOK
  <2> QED
    BY <1>3, <2>1 DEF ReadingDone, ExportTypeOK, FilesHeld, Reading, Committed
<1>4. CASE Commit
  <2>1. ReadWhole(candidate, NFiles, had)
    <3>1. unread - 1 = NFiles
      BY <1>4, FilesAssumption DEF Commit, Reading
    <3> QED
      BY <1>4, <3>1 DEF Commit, Reading
  <2>2. peer_routes' \subseteq Routes /\ told' \in BOOLEAN /\ mixed' \in BOOLEAN
    <3>1. Added \subseteq Routes
      BY DEF Added, added, ToSet, ExportTypeOK
    <3> QED
      BY <1>4, <3>1 DEF Commit, ExportTypeOK
  <2>3. ExportTypeOK'
    BY <1>4, <2>2 DEF Commit, ExportTypeOK
  <2> QED
    BY <1>4, <2>1, <2>3 DEF Commit, FilesHeld, Reading, Committed
<1>5. CASE ApplyFails \/ Sleep
  BY <1>5 DEF ApplyFails, Sleep, ExportTypeOK, SessionStates, FilesHeld, Reading, Committed
<1>6. CASE UNCHANGED export_vars
  BY <1>6 DEF export_vars, ExportTypeOK, FilesHeld, Reading, Committed
<1> QED
  BY <1>1, <1>2, <1>3, <1>4, <1>5, <1>6, SessionKeepsReload, ReadFileKeepsReload,
     EditorKeepsReload DEF ExportNext, RuntimeThread, SessionPart

(* Every reachable state has the types the code declares.                  *)
THEOREM ExportTypeCorrect == ExportSpec => []ExportTypeOK
<1>1. ReloadInv => ExportTypeOK
  BY DEF ReloadInv
<1> QED
  BY <1>1, InitReload, NextReload, PTL DEF ExportSpec

(* What applyReloadResult commits was read from every file, each as it was *)
(* at some moment, or is the start-up set: reloadPrefixes commits nothing  *)
(* of a reload in which a file failed, whoever writes to the files between *)
(* two reads and whatever a list repeats.                                  *)
THEOREM ReloadsAlwaysWhole == ExportSpec => []WholeReloads
<1>1. ReloadInv => WholeReloads
  <2> SUFFICES ASSUME ReloadInv, ReadWhole(current_exported_prefixes, NFiles, had)
               PROVE  WholeReloads
    BY DEF ReloadInv, Committed, WholeReloads
  <2>1. PICK read \in [1..NFiles -> Seq(Routes)] :
          /\ \A f \in 1..NFiles : read[f] \in had[f] \ {Broken}
          /\ current_exported_prefixes = FlattenSeq(read)
    BY DEF ReadWhole
  <2>2. read \in [Files -> UNION {had[f] : f \in Files}]
    BY <2>1 DEF Files
  <2> QED
    BY <2>1, <2>2 DEF WholeReloads, Files
<1> QED
  BY <1>1, InitReload, NextReload, PTL DEF ExportSpec

-----------------------------------------------------------------------------
(* Where no prefix is listed twice: no list of routes repeats one, be it   *)
(* the start-up set or the outcome of a reload.                            *)

LEMMA ConcatInjective ==
    ASSUME NEW S, NEW a \in Seq(S), NEW b \in Seq(S), IsInjective(a), IsInjective(b),
           \A i \in 1..Len(a), j \in 1..Len(b) : a[i] # b[j]
    PROVE  IsInjective(a \o b)
<1> DEFINE c == a \o b
<1>1. /\ c \in Seq(S) /\ Len(c) = Len(a) + Len(b) /\ Len(a) \in Nat /\ Len(b) \in Nat
      /\ \A i \in 1..Len(a) + Len(b) : c[i] = IF i <= Len(a) THEN a[i] ELSE b[i - Len(a)]
  BY ConcatProperties, LenProperties
<1> HIDE DEF c
<1>2. DOMAIN a = 1..Len(a) /\ DOMAIN b = 1..Len(b) /\ DOMAIN c = 1..Len(a) + Len(b)
  BY <1>1, LenProperties
<1>3. ASSUME NEW i \in 1..Len(a) + Len(b), NEW j \in 1..Len(a) + Len(b), c[i] = c[j]
      PROVE  i = j
  <2>1. i > Len(a) => i - Len(a) \in 1..Len(b)
    BY <1>1
  <2>2. j > Len(a) => j - Len(a) \in 1..Len(b)
    BY <1>1
  <2>3. CASE i <= Len(a) /\ j <= Len(a)
    <3>1. i \in DOMAIN a /\ j \in DOMAIN a /\ a[i] = a[j]
      BY <1>1, <1>2, <1>3, <2>3
    <3> QED
      BY <3>1 DEF IsInjective
  <2>4. CASE i > Len(a) /\ j > Len(a)
    <3>1. i - Len(a) \in DOMAIN b /\ j - Len(a) \in DOMAIN b /\ b[i - Len(a)] = b[j - Len(a)]
      BY <1>1, <1>2, <1>3, <2>1, <2>2, <2>4
    <3>2. i - Len(a) = j - Len(a)
      BY <3>1 DEF IsInjective
    <3> QED
      BY <1>1, <3>2
  <2>5. CASE i <= Len(a) /\ j > Len(a)
    BY <1>1, <1>3, <2>2, <2>5, SMTT(60)
  <2>6. CASE i > Len(a) /\ j <= Len(a)
    BY <1>1, <1>3, <2>1, <2>6
  <2> QED
    BY <1>1, <2>3, <2>4, <2>5, <2>6
<1>4. IsInjective(c)
  BY <1>2, <1>3 DEF IsInjective
<1> QED
  BY <1>4 DEF c

\* no route twice, and each of one of the first n files
Apart(list, n) ==
    /\ list \in Seq(Routes) /\ IsInjective(list)
    /\ \A i \in 1..Len(list) : list[i][1] \in 1..n

LEMMA ContentsApart ==
    ASSUME ~Overlaps, NEW f \in Files, NEW list \in Contents(f)
    PROVE  /\ list \in Seq(Routes) /\ IsInjective(list)
           /\ \A i \in 1..Len(list) : list[i][1] = f
<1>1. list \in Seq(Routes)
  BY ContentsAreLists
<1>2. list \in SeqOf(Own(f), MaxLines) /\ IsInjective(list)
  BY DEF Contents
<1>3. PICK m \in 0..MaxLines : list \in [1..m -> Own(f)]
  BY <1>2 DEF SeqOf
<1>4. Len(list) = m
  BY <1>3, FilesAssumption
<1> QED
  BY <1>1, <1>2, <1>3, <1>4 DEF Own

LEMMA ReadApart ==
    ASSUME ~Overlaps, NEW s \in [Files -> Seq(Routes)], \A f \in Files : s[f] \in Contents(f)
    PROVE  Apart(FlattenSeq(s), NFiles)
<1> DEFINE part(k) == [f \in 1..k |-> s[f]]
           Good(k) == Apart(FlattenSeq(part(k)), k)
           Bad == {k \in 0..NFiles : ~Good(k)}
<1>0. NFiles \in Nat /\ Files = 1..NFiles
  BY FilesAssumption DEF Files
<1>1. SUFFICES ASSUME Bad # {} PROVE FALSE
  <2>1. NFiles \in 0..NFiles
    BY <1>0
  <2>2. part(NFiles) = s
    BY <1>0
  <2> HIDE DEF Good
  <2>3. Good(NFiles)
    BY <1>1, <2>1, Zenon
  <2> HIDE DEF part
  <2> QED
    BY <2>2, <2>3 DEF Good
<1>2. PICK k \in Bad : \A j \in Bad : k <= j
  <2>1. Bad \in SUBSET Nat
    BY <1>0
  <2> HIDE DEF Bad
  <2> QED
    BY <1>1, <2>1, LeastNat
<1>3. k # 0
  <2>1. part(0) = <<>>
    OBVIOUS
  <2>2. FlattenSeq(<<>>) = <<>> /\ <<>> \in Seq(Routes) /\ Len(<<>>) = 0
    BY EmptySeq DEF FlattenSeq
  <2>3. Apart(<<>>, 0)
    BY <2>2 DEF Apart, IsInjective
  <2>4. Good(0)
    <3> HIDE DEF part
    <3> QED
      BY <2>1, <2>2, <2>3
  <2> HIDE DEF Good
  <2> QED
    BY <1>2, <2>4
<1>4. k \in Files /\ k - 1 \in 0..NFiles /\ k - 1 \in Nat /\ (k - 1) + 1 = k /\ k - 1 \notin Bad
  BY <1>0, <1>2, <1>3
<1> DEFINE a == FlattenSeq(part(k - 1))
           b == s[k]
<1>5. Apart(a, k - 1)
  <2> HIDE DEF Good
  <2>1. Good(k - 1)
    BY <1>4
  <2> QED
    BY <2>1 DEF Good
<1>6. b \in Seq(Routes) /\ IsInjective(b) /\ \A i \in 1..Len(b) : b[i][1] = k
  BY <1>4, ContentsApart
<1>7. FlattenSeq(part(k)) = a \o b
  <2>1. PICK n \in Nat : n = k - 1 /\ k = n + 1
    BY <1>4
  <2>2. part(n) \in [1..n -> Seq(Routes)] /\ part(n + 1) \in [1..(n + 1) -> Seq(Routes)]
    BY <1>0, <1>4, <2>1
  <2>3. \A i \in 1..n : part(n + 1)[i] = part(n)[i]
    BY <2>1
  <2>4. part(n + 1)[n + 1] = b
    BY <2>1
  <2> HIDE DEF part, b
  <2>5. FlattenSeq(part(n + 1)) = FlattenSeq(part(n)) \o b
    BY <2>2, <2>3, <2>4, FlattenAppends
  <2> QED
    BY <2>1, <2>5
<1> HIDE DEF a, b
<1>8. IsInjective(a \o b)
  <2>1. \A i \in 1..Len(a), j \in 1..Len(b) : a[i] # b[j]
    <3>1. \A i \in 1..Len(a) : a[i][1] # k
      BY <1>4, <1>5 DEF Apart
    <3> QED
      BY <1>6, <3>1
  <2> QED
    BY <1>5, <1>6, <2>1, ConcatInjective DEF Apart
<1>9. Apart(a \o b, k)
  <2>1. /\ a \o b \in Seq(Routes) /\ Len(a \o b) = Len(a) + Len(b)
        /\ Len(a) \in Nat /\ Len(b) \in Nat
        /\ \A i \in 1..Len(a) + Len(b) : (a \o b)[i] = IF i <= Len(a) THEN a[i] ELSE b[i - Len(a)]
    BY <1>5, <1>6, ConcatProperties, LenProperties DEF Apart
  <2>2. ASSUME NEW i \in 1..Len(a \o b) PROVE (a \o b)[i][1] \in 1..k
    <3>1. CASE i <= Len(a)
      <4>1. (a \o b)[i] = a[i] /\ i \in 1..Len(a)
        BY <2>1, <3>1
      <4>2. a[i][1] \in 1..(k - 1)
        BY <1>5, <4>1 DEF Apart
      <4> QED
        BY <1>4, <4>1, <4>2
    <3>2. CASE i > Len(a)
      <4>1. (a \o b)[i] = b[i - Len(a)] /\ i - Len(a) \in 1..Len(b)
        BY <2>1, <3>2
      <4>2. b[i - Len(a)][1] = k
        BY <1>6, <4>1
      <4> QED
        BY <1>0, <1>4, <4>1, <4>2
    <3> QED
      BY <2>1, <3>1, <3>2
  <2> QED
    BY <1>8, <2>1, <2>2 DEF Apart
<1>10. Good(k)
  BY <1>7, <1>9
<1> HIDE DEF Good
<1> QED
  BY <1>2, <1>10

LEMMA StartInjective == ~Overlaps /\ ExportInit => IsInjective(prefixes)
<1> SUFFICES ASSUME ~Overlaps, ExportInit PROVE IsInjective(prefixes)
  OBVIOUS
<1> DEFINE a == Inline
           b == FlattenSeq(disk)
<1>1. Apart(b, NFiles)
  BY StartTyped, ReadApart DEF ExportInit
<1>2. /\ a \in Seq(Routes) /\ Len(a) = NInline /\ IsInjective(a)
      /\ \A i \in 1..Len(a) : a[i][1] = 0
  <2>1. a \in Seq(Routes) /\ Len(a) = NInline
    BY InlineTyped, FilesAssumption DEF Inline
  <2>2. \A i \in 1..NInline : a[i][1] = 0 /\ a[i][2] = i
    BY DEF Inline, NoFile
  <2>3. DOMAIN a = 1..NInline
    BY DEF Inline
  <2> HIDE DEF a
  <2> QED
    BY <2>1, <2>2, <2>3 DEF IsInjective
<1>3. prefixes = a \o b
  BY DEF ExportInit
<1> HIDE DEF a, b
<1>4. \A i \in 1..Len(a), j \in 1..Len(b) : a[i] # b[j]
  <2>1. \A j \in 1..Len(b) : b[j][1] # 0
    BY <1>1, FilesAssumption DEF Apart
  <2> QED
    BY <1>2, <2>1
<1> QED
  BY <1>1, <1>2, <1>3, <1>4, ConcatInjective DEF Apart

LEMMA ReloadInjective ==
    ASSUME ~Overlaps, ReloadInv, NEW list, ReadWhole(list, NFiles, had)
    PROVE  IsInjective(list)
<1>1. PICK read \in [1..NFiles -> Seq(Routes)] :
        /\ \A f \in 1..NFiles : read[f] \in had[f] \ {Broken}
        /\ list = FlattenSeq(read)
  BY DEF ReadWhole
<1>2. read \in [Files -> Seq(Routes)] /\ \A f \in Files : read[f] \in Contents(f)
  BY <1>1 DEF Files, ReloadInv, ExportTypeOK
<1> QED
  BY <1>1, <1>2, ReadApart DEF Apart

(* Where no prefix is listed twice, the delta is the difference of sets.   *)
LEMMA CountOnce ==
    ASSUME NEW list \in Seq(Routes), IsInjective(list), NEW p
    PROVE  Count(list, p) = IF p \in ToSet(list) THEN 1 ELSE 0
<1>1. CASE p \in ToSet(list)
  <2>1. PICK i \in DOMAIN list : p = list[i]
    BY <1>1 DEF ToSet
  <2>2. {j \in DOMAIN list : list[j] = p} = {i}
    BY <2>1 DEF IsInjective
  <2> QED
    BY <1>1, <2>2, FS_Singleton DEF Count
<1>2. CASE p \notin ToSet(list)
  <2>1. {j \in DOMAIN list : list[j] = p} = {}
    BY <1>2 DEF ToSet
  <2> QED
    BY <1>2, <2>1, FS_EmptySet DEF Count
<1> QED
  BY <1>1, <1>2

LEMMA DeltaIsDifference ==
    ASSUME NEW old \in Seq(Routes), NEW new \in Seq(Routes), IsInjective(old), IsInjective(new)
    PROVE  /\ removed(old, new) = ToSet(old) \ ToSet(new)
           /\ added(old, new) = ToSet(new) \ ToSet(old)
<1>1. \A p : /\ Count(old, p) = IF p \in ToSet(old) THEN 1 ELSE 0
             /\ Count(new, p) = IF p \in ToSet(new) THEN 1 ELSE 0
  BY CountOnce
<1>2. removed(old, new) = ToSet(old) \ ToSet(new)
  BY <1>1 DEF removed
<1>3. added(old, new) = ToSet(new) \ ToSet(old)
  BY <1>1 DEF added
<1> QED
  BY <1>2, <1>3

\* what a new session has still to export
Rest(n) == {prefixes[i] : i \in n + 1 .. Len(prefixes)}

\* what a session knows that began well: nothing that is committed is neither
\* sent nor to come, and nothing else was sent but in a delta between batches
Begun ==
    /\ ToSet(current_exported_prefixes) \subseteq peer_routes \cup Rest(export_batch_index)
    /\ peer_routes \subseteq ToSet(current_exported_prefixes)
                            \cup (IF mixed THEN ToSet(prefixes) ELSE {})
    /\ ~mixed /\ export_batch_index < Len(prefixes) =>
          ToSet(current_exported_prefixes) = ToSet(prefixes)

Synced ==
    /\ session \in {"down", "failed", "waiting"} => peer_routes = {}
    /\ session = "up" /\ told => Begun

SyncInv == ReloadInv /\ IsInjective(prefixes) /\ Synced

LEMMA RestShrinks ==
    ASSUME prefixes \in Seq(Routes), NEW n \in 0 .. Len(prefixes)
    PROVE  /\ Rest(0) = ToSet(prefixes)
           /\ Rest(Len(prefixes)) = {}
           /\ n < Len(prefixes) => Rest(n) = Rest(n + 1) \cup {prefixes[n + 1]}
<1>1. Len(prefixes) \in Nat /\ DOMAIN prefixes = 1..Len(prefixes)
  OBVIOUS
<1>2. Rest(0) = ToSet(prefixes)
  BY <1>1 DEF Rest, ToSet
<1>3. Rest(Len(prefixes)) = {}
  BY <1>1 DEF Rest
<1>4. ASSUME n < Len(prefixes) PROVE Rest(n) = Rest(n + 1) \cup {prefixes[n + 1]}
  <2>1. n + 1..Len(prefixes) = (n + 1) + 1..Len(prefixes) \cup {n + 1}
    BY <1>1, <1>4
  <2> QED
    BY <2>1 DEF Rest
<1> QED
  BY <1>2, <1>3, <1>4

LEMMA UndisturbedSync ==
    SyncInv /\ UNCHANGED <<prefixes, current_exported_prefixes, bgp>>
        => IsInjective(prefixes)' /\ Synced'
BY DEF SyncInv, Synced, Begun, Rest, bgp

LEMMA SessionKeepsSync ==
    SyncInv /\ SessionPart => IsInjective(prefixes)' /\ Synced'
<1> SUFFICES ASSUME SyncInv, SessionPart PROVE IsInjective(prefixes)' /\ Synced'
  OBVIOUS
<1> USE DEF SyncInv
<1>1. prefixes' = prefixes /\ current_exported_prefixes' = current_exported_prefixes
  BY DEF SessionPart, AwaitReconnect, Reconnect, TakeOver, SessionUp, ExportBatch,
         NothingToExport, SessionFails, SessionStep, OnlySession
<1>2. prefixes \in Seq(Routes) /\ Len(prefixes) \in Nat /\ export_batch_index \in 0..Len(prefixes)
  BY DEF ReloadInv, ExportTypeOK
<1>3. \A n : Rest(n)' = Rest(n)
  BY <1>1 DEF Rest
<1>4. CASE AwaitReconnect \/ NothingToExport
  <2>1. UNCHANGED <<prefixes, current_exported_prefixes, bgp>>
    BY <1>1, <1>4 DEF AwaitReconnect, NothingToExport
  <2> QED
    BY <2>1, UndisturbedSync
<1>5. CASE Reconnect \/ TakeOver
  BY <1>1, <1>5 DEF Reconnect, TakeOver, Synced
<1>6. CASE SessionUp
  <2>1. session' = "up" /\ peer_routes' = {} /\ ~mixed' /\ export_batch_index' = export_batch_index
    BY <1>6 DEF SessionUp, Synced
  <2>2. ASSUME told' PROVE Begun'
    <3>1. export_batch_index = 0 /\ ToSet(prefixes) = ToSet(current_exported_prefixes)
      BY <1>6, <2>2 DEF SessionUp
    <3>2. Rest(0) = ToSet(prefixes)
      BY <1>2, RestShrinks
    <3> QED
      BY <1>1, <1>3, <2>1, <3>1, <3>2 DEF Begun
  <2> QED
    BY <1>1, <2>1, <2>2 DEF Synced
<1>7. CASE ExportBatch
  <2> DEFINE n == export_batch_index
             p == prefixes[n + 1]
  <2>1. session = "up" /\ session' = "up" /\ told' = told /\ mixed' = mixed
        /\ n < Len(prefixes) /\ n' = n + 1 /\ peer_routes' = peer_routes \cup {p}
    BY <1>7 DEF ExportBatch
  <2>2. Rest(n) = Rest(n + 1) \cup {p} /\ p \in ToSet(prefixes)
    BY <1>2, <2>1, RestShrinks DEF ToSet
  <2>3. ASSUME told PROVE Begun'
    <3>1. Begun
      BY <2>1, <2>3 DEF Synced
    <3>2. p \in ToSet(current_exported_prefixes) \cup (IF mixed THEN ToSet(prefixes) ELSE {})
      BY <2>1, <2>2, <3>1 DEF Begun
    <3> HIDE DEF p
    <3>3. Rest(export_batch_index') = Rest(n + 1)
      BY <2>1
    <3>4. (ToSet(current_exported_prefixes) \subseteq peer_routes \cup Rest(export_batch_index))'
      BY <1>1, <1>3, <2>1, <2>2, <3>1, <3>3 DEF Begun
    <3>5. (peer_routes \subseteq ToSet(current_exported_prefixes)
                                 \cup (IF mixed THEN ToSet(prefixes) ELSE {}))'
      BY <1>1, <2>1, <3>1, <3>2 DEF Begun
    <3>6. (~mixed /\ export_batch_index < Len(prefixes) =>
             ToSet(current_exported_prefixes) = ToSet(prefixes))'
      BY <1>1, <1>2, <2>1, <3>1 DEF Begun
    <3> QED
      BY <3>4, <3>5, <3>6 DEF Begun
  <2> QED
    BY <1>1, <2>1, <2>3 DEF Synced
<1>8. CASE SessionFails
  BY <1>1, <1>8 DEF SessionFails, Synced
<1> QED
  BY <1>4, <1>5, <1>6, <1>7, <1>8 DEF SessionPart

LEMMA CommitKeepsSync ==
    ~Overlaps /\ SyncInv /\ Commit => IsInjective(prefixes)' /\ Synced'
<1> SUFFICES ASSUME ~Overlaps, SyncInv, Commit PROVE IsInjective(prefixes)' /\ Synced'
  OBVIOUS
<1> USE DEF SyncInv
<1>1. prefixes' = prefixes /\ current_exported_prefixes' = candidate /\ session' = session
      /\ export_batch_index' = export_batch_index /\ told' = told
  BY DEF Commit
<1>2. current_exported_prefixes \in Seq(Routes) /\ candidate \in Seq(Routes)
  BY DEF ReloadInv, ExportTypeOK
<1>3. IsInjective(candidate)
  <2>1. unread - 1 = NFiles /\ ReadWhole(candidate, unread - 1, had)
    BY FilesAssumption DEF Commit, ReloadInv, Reading
  <2> QED
    BY <2>1, ReloadInjective
<1>4. IsInjective(current_exported_prefixes)
  BY ReloadInjective DEF ReloadInv, Committed
<1> DEFINE old == ToSet(current_exported_prefixes)
           new == ToSet(candidate)
           start == ToSet(prefixes)
<1>5. Removed = old \ new /\ Added = new \ old
  BY <1>2, <1>3, <1>4, DeltaIsDifference DEF Removed, Added
<1>6. CASE session # "up"
  <2>1. peer_routes' = peer_routes
    BY <1>6 DEF Commit
  <2> QED
    BY <1>1, <1>6, <2>1 DEF Synced
<1>7. CASE session = "up"
  <2>1. /\ peer_routes' = (peer_routes \ (old \ new)) \cup (new \ old)
        /\ mixed' = (mixed \/ (old # new /\ export_batch_index < Len(prefixes)))
    <3>1. Removed \cup Added = {} <=> old = new
      BY <1>5
    <3> HIDE DEF old, new
    <3> QED
      BY <1>5, <1>7, <3>1 DEF Commit
  <2>2. ASSUME told PROVE Begun'
    <3>1. /\ old \subseteq peer_routes \cup Rest(export_batch_index)
          /\ peer_routes \subseteq old \cup (IF mixed THEN start ELSE {})
          /\ ~mixed /\ export_batch_index < Len(prefixes) => old = start
      BY <1>7, <2>2 DEF Synced, Begun
    <3>2. Rest(export_batch_index)' = Rest(export_batch_index) /\ old' = new /\ start' = start
      BY <1>1 DEF Rest
    <3> HIDE DEF old, new, start
    <3>3. new \subseteq peer_routes' \cup Rest(export_batch_index)
      BY <2>1, <3>1
    <3>4. peer_routes' \subseteq new \cup (IF mixed' THEN start ELSE {})
      BY <2>1, <3>1
    <3>5. ~mixed' /\ export_batch_index < Len(prefixes) => new = start
      BY <2>1, <3>1
    <3> QED
      BY <1>1, <3>2, <3>3, <3>4, <3>5 DEF Begun, old, new, start
  <2> QED
    BY <1>1, <1>7, <2>2 DEF Synced
<1> QED
  BY <1>1, <1>6, <1>7

LEMMA NextSync == ~Overlaps /\ SyncInv /\ [ExportNext]_export_vars => SyncInv'
<1> SUFFICES ASSUME ~Overlaps, SyncInv, [ExportNext]_export_vars PROVE SyncInv'
  OBVIOUS
<1>1. ReloadInv'
  BY NextReload DEF SyncInv
<1> SUFFICES IsInjective(prefixes)' /\ Synced'
  BY <1>1 DEF SyncInv
<1>2. CASE ApplyFails
  <2>1. prefixes' = prefixes /\ session' = "closed"
    BY <1>2 DEF ApplyFails
  <2> QED
    BY <2>1 DEF SyncInv, Synced
<1>3. CASE EventsScheduleReload \/ NoReload \/ BeginReload \/ ReadFile \/ ReadingDone \/ Sleep
           \/ Editor \/ UNCHANGED export_vars
  <2>1. UNCHANGED <<prefixes, current_exported_prefixes, bgp>>
    BY <1>3 DEF EventsScheduleReload, NoReload, BeginReload, ReadFile, ReadingDone, Sleep,
                Editor, Truncate, WriteAndClose, Replace, Unchanging, export_vars
  <2> QED
    BY <2>1, UndisturbedSync
<1> QED
  BY <1>2, <1>3, SessionKeepsSync, CommitKeepsSync DEF ExportNext, RuntimeThread, SessionPart

(* A peer whose session began with the first prefix, while the start-up    *)
(* set was committed, ends up with every committed prefix, and with no     *)
(* other but one that a delta withdrew before its batch went out:          *)
(* computeDelta, its UPDATEs and the batches lose none, for every number   *)
(* of files and every interleaving with their editors, with failed and     *)
(* taken-over sessions in between.  A prefix that is listed twice is       *)
(* withdrawn with its first copy, so the lists must not repeat one; and a  *)
(* take-over that goes on in the middle of the export, as the code does,   *)
(* is a session that did not begin with the first prefix.                  *)
THEOREM PeerAlwaysInSync == ~Overlaps => (ExportSpec => []PeerInSync)
<1> SUFFICES ASSUME ~Overlaps PROVE ExportSpec => []PeerInSync
  OBVIOUS
<1>1. ExportInit => SyncInv
  BY InitReload, StartInjective DEF SyncInv, Synced, ExportInit
<1>2. SyncInv /\ [ExportNext]_export_vars => SyncInv'
  BY NextSync
<1>3. SyncInv => PeerInSync
  <2> SUFFICES ASSUME SyncInv, session = "up", told, export_batch_index = Len(prefixes)
               PROVE  /\ ToSet(current_exported_prefixes) \subseteq peer_routes
                      /\ peer_routes \ ToSet(current_exported_prefixes)
                            \subseteq (IF mixed THEN ToSet(prefixes) ELSE {})
    BY DEF PeerInSync
  <2>1. Rest(export_batch_index) = {}
    BY RestShrinks DEF SyncInv, ReloadInv, ExportTypeOK
  <2>2. Begun
    BY DEF SyncInv, Synced
  <2> QED
    BY <2>1, <2>2 DEF Begun
<1> QED
  BY <1>1, <1>2, <1>3, PTL DEF ExportSpec
=============================================================================
