-------------------------- MODULE BgpRuntime_proofs --------------------------
(***************************************************************************)
(* The accounting of the reconnect loop balances for every back-off policy *)
(* and every interleaving of the runtime thread, the listener, the peer    *)
(* and the shutdown: the fail-loud checks never fire, the thread leaves no *)
(* descriptor of its own behind, and no retry comes before the initial     *)
(* back-off has passed.                                                    *)
(*                                                                         *)
(* AccountingMatches is not inductive: whether the next give-back finds    *)
(* something to give back depends on which resources exist at which step   *)
(* of the thread and of the shutdown, and PacedRetries on time waited and  *)
(* time left adding up.  Ownership, Shutdown and Pacing say so.            *)
(***************************************************************************)
EXTENDS BgpRuntime, TLAPS

\* which resources exist at which step of the thread
Ownership ==
    /\ socket_owned <=> tcp /= Closed
    /\ active_connector_handle => socket_owned
    /\ state = "reconnect_wait" => sess_state \in {"failed", "idle"}
    /\ acquire_inflight <=> Attempting
    /\ Attempting =>
          /\ ~socket_owned /\ ~active_connector_handle /\ ~reconnect_timer_active
          /\ state = "reconnect_wait"
    /\ pc \in {"passive", "session"} =>
          socket_owned /\ ~reconnect_timer_active /\ state = "configured"
    /\ pc \in {"top", "exited"} /\ mpc \notin {"destroying", "done"} =>
          /\ reconnect_timer_active <=> state = "reconnect_wait"
          /\ state = "configured" => socket_owned

\* what is left at which step of the shutdown
Shutdown ==
    /\ mpc \in {"closing", "destroying", "done"} => pc = "exited"
    /\ mpc \in {"destroying", "done"} =>
          /\ tcp = Closed
          /\ ~active_connector_handle /\ ~reconnect_timer_active

\* the time waited and the time left add up to the back-off
Pacing ==
    /\ reconnect_timer_active =>
          waited + reconnect_deadline = backoff_ms /\ backoff_ms >= InitialBackoff
    /\ ~reconnect_timer_active => reconnect_deadline = 0
    /\ backoff_ms = 0 \/ backoff_ms >= InitialBackoff
    /\ Attempting => waited = backoff_ms /\ backoff_ms >= InitialBackoff

IInv ==
    /\ TypeOK
    /\ AccountingMatches
    /\ DescriptorsMatch
    /\ NeverPanics
    /\ Ownership
    /\ Shutdown
    /\ Pacing

\* the fields of an accounting state, one by one
Has(m, sockets, timers, handle, unreleased) ==
    /\ m \in ReconnectMemoryState
    /\ m.sockets = sockets /\ m.timers = timers
    /\ m.handle = handle /\ m.unreleased = unreleased
    /\ m.fate = "ok"

LEMMA HandleFields ==
    ASSUME NEW m \in ReconnectMemoryState, NEW h \in {NoHandle, "adopted"}, NEW u \in Nat
    PROVE  [m EXCEPT !.handle = h, !.unreleased = u] \in ReconnectMemoryState
BY DEF ReconnectMemoryState, NoHandle

(* What the four operations that give something back do to a state that    *)
(* has it.                                                                 *)
LEMMA RecordsGiveBack ==
    ASSUME NEW m, NEW s \in Nat, NEW t \in Nat, NEW h \in {NoHandle, "adopted"}, NEW u \in Nat,
           Has(m, s, t, h, u)
    PROVE  /\ s > 0 => Has(recordSocketClose(m), s - 1, t, h, u)
           /\ t > 0 => Has(recordTimerStop(m), s, t - 1, h, u)
           /\ h = "adopted" /\ u > 0 => Has(releaseHandle(m), s, t, NoHandle, u - 1)
           /\ Has(recordTimerStart(m), s, t + 1, h, u)
           /\ Has(adoptHandle(recordSocketOpen(m)), s + 1, t, "adopted", u + 1)
<1> USE DEF Has
<1>1. s > 0 => Has(recordSocketClose(m), s - 1, t, h, u)
  BY DEF recordSocketClose, ReconnectMemoryState
<1>2. t > 0 => Has(recordTimerStop(m), s, t - 1, h, u)
  BY DEF recordTimerStop, ReconnectMemoryState
<1>3. h = "adopted" /\ u > 0 => Has(releaseHandle(m), s, t, NoHandle, u - 1)
  <2> SUFFICES ASSUME h = "adopted", u > 0 PROVE Has(releaseHandle(m), s, t, NoHandle, u - 1)
    OBVIOUS
  <2> DEFINE r == [m EXCEPT !.handle = NoHandle, !.unreleased = u - 1]
  <2>1. releaseHandle(m) = r
    BY DEF releaseHandle, NoHandle
  <2>2. r \in ReconnectMemoryState
    <3>1. m \in ReconnectMemoryState /\ u - 1 \in Nat
      OBVIOUS
    <3> QED
      BY <3>1, HandleFields, Zenon
  <2>3. r.handle = NoHandle /\ r.unreleased = u - 1
    BY DEF ReconnectMemoryState
  <2>4. r.sockets = s /\ r.timers = t /\ r.fate = "ok"
    BY DEF ReconnectMemoryState
  <2> HIDE DEF r
  <2> QED
    BY <2>1, <2>2, <2>3, <2>4
<1>4. Has(recordTimerStart(m), s, t + 1, h, u)
  BY DEF recordTimerStart, ReconnectMemoryState
<1>5. Has(adoptHandle(recordSocketOpen(m)), s + 1, t, "adopted", u + 1)
  <2> DEFINE o == recordSocketOpen(m)
             r == [o EXCEPT !.handle = "adopted", !.unreleased = u + 1]
  <2>1. Has(o, s + 1, t, h, u)
    BY DEF recordSocketOpen, ReconnectMemoryState
  <2> HIDE DEF o
  <2>2. adoptHandle(o) = r
    BY <2>1 DEF adoptHandle
  <2>3. r \in ReconnectMemoryState
    <3>1. o \in ReconnectMemoryState /\ u + 1 \in Nat
      BY <2>1
    <3> QED
      BY <3>1, HandleFields, Zenon
  <2>4. r.handle = "adopted" /\ r.unreleased = u + 1
    BY <2>1 DEF ReconnectMemoryState
  <2>5. r.sockets = s + 1 /\ r.timers = t /\ r.fate = "ok"
    BY <2>1 DEF ReconnectMemoryState
  <2> HIDE DEF r
  <2>6. Has(adoptHandle(o), s + 1, t, "adopted", u + 1)
    BY <2>2, <2>3, <2>4, <2>5
  <2> QED
    BY <2>6 DEF o
<1> QED
  BY <1>1, <1>2, <1>3, <1>4, <1>5

(* closeForReconnect gives everything back, and finds everything it gives  *)
(* back there.                                                             *)
LEMMA ClosedMemBalanced ==
    ASSUME TypeOK, AccountingMatches, NeverPanics, ~Attempting
    PROVE  Has(ClosedMem, 0, 0, NoHandle, 0)
<1> DEFINE m1 == IF socket_owned THEN recordSocketClose(mem) ELSE mem
           m2 == IF active_connector_handle THEN releaseHandle(m1) ELSE m1
           H == IF active_connector_handle THEN "adopted" ELSE NoHandle
           t == Bit(reconnect_timer_active)
<1>1. Has(mem, Bit(socket_owned), t, H, Bit(active_connector_handle))
  BY DEF Has, TypeOK, ReconnectMemoryState, AccountingMatches, NeverPanics, Attempting, Bit, NoHandle
<1>2. t \in Nat /\ H \in {NoHandle, "adopted"} /\ Bit(active_connector_handle) \in Nat
  BY DEF Bit
<1>3. Has(m1, 0, t, H, Bit(active_connector_handle))
  <2>1. CASE socket_owned
    BY <1>1, <1>2, <2>1, RecordsGiveBack DEF Bit
  <2>2. CASE ~socket_owned
    BY <1>1, <2>2 DEF Bit
  <2> QED
    BY <2>1, <2>2
<1>4. Has(m2, 0, t, NoHandle, 0)
  <2>1. CASE active_connector_handle
    <3> HIDE DEF m1, t
    <3>1. Has(m1, 0, t, "adopted", 1)
      BY <1>3, <2>1 DEF Bit
    <3> QED
      BY <1>2, <2>1, <3>1, RecordsGiveBack
  <2>2. CASE ~active_connector_handle
    BY <1>3, <2>2 DEF Bit
  <2> QED
    BY <2>1, <2>2
<1>5. ClosedMem = IF reconnect_timer_active THEN recordTimerStop(m2) ELSE m2
  BY DEF ClosedMem
<1> HIDE DEF m2
<1>6. CASE reconnect_timer_active
  BY <1>4, <1>5, <1>6, RecordsGiveBack DEF Bit
<1>7. CASE ~reconnect_timer_active
  BY <1>4, <1>5, <1>7 DEF Bit
<1> QED
  BY <1>6, <1>7

(* An attempt begins with one socket and one handle.                       *)
LEMMA AttemptBegins ==
    ASSUME TypeOK, AccountingMatches, NeverPanics, ~Attempting
    PROVE  Has(adoptHandle(recordSocketOpen(ClosedMem)), 1, 0, "adopted", 1)
<1>1. Has(ClosedMem, 0, 0, NoHandle, 0)
  BY ClosedMemBalanced
<1>2. Has(adoptHandle(recordSocketOpen(ClosedMem)), 0 + 1, 0, "adopted", 0 + 1)
  BY <1>1, RecordsGiveBack, Zenon
<1> QED
  BY <1>2

(* While an attempt is under way its socket and its handle are all there   *)
(* is; the errdefers give both back before the timer starts.               *)
LEMMA ErrdefersBalance ==
    ASSUME TypeOK, AccountingMatches, NeverPanics, Ownership, Attempting
    PROVE  Has(recordTimerStart(recordSocketClose(releaseHandle(mem))), 0, 1, NoHandle, 0)
<1>1. Has(mem, 1, 0, "adopted", 1)
  BY DEF Has, TypeOK, ReconnectMemoryState, AccountingMatches, NeverPanics, Ownership, Attempting, Bit, NoHandle
<1>2. Has(releaseHandle(mem), 1, 0, NoHandle, 0)
  BY <1>1, RecordsGiveBack
<1>3. Has(recordSocketClose(releaseHandle(mem)), 0, 0, NoHandle, 0)
  BY <1>2, RecordsGiveBack
<1>4. Has(recordTimerStart(recordSocketClose(releaseHandle(mem))), 0, 0 + 1, NoHandle, 0)
  BY <1>3, RecordsGiveBack, Zenon
<1> QED
  BY <1>4

(* The next back-off is between the two bounds.                            *)
LEMMA BackoffBounded ==
    ASSUME NEW b \in 0 .. MaxBackoff, b = 0 \/ b >= InitialBackoff
    PROVE  /\ computeNextBackoff(b) \in 0 .. MaxBackoff
           /\ computeNextBackoff(b) >= InitialBackoff
BY BackoffAssumption DEF computeNextBackoff

LEMMA InitIInv == Init => IInv
<1> SUFFICES ASSUME Init PROVE IInv
  OBVIOUS
<1> USE BackoffAssumption DEF Init, NoConn, Closed, NoHandle, Bit, Attempting
<1>1. Has(mem, 1, 0, NoHandle, 0)
  BY DEF Has, ReconnectMemoryState
<1>2. TypeOK
  <2>1. mem \in ReconnectMemoryState
    BY <1>1 DEF Has
  <2>2. backoff_ms \in 0 .. MaxBackoff /\ reconnect_deadline \in 0 .. MaxBackoff
        /\ waited \in 0 .. MaxBackoff /\ open_fds \in Nat
    OBVIOUS
  <2>3. pending \in {NoConn, "empty"} \cup Links /\ link \in Links
    BY DEF Links
  <2> QED
    BY <2>1, <2>2, <2>3, ZenonT(20) DEF TypeOK, SessionStates
<1>3. AccountingMatches /\ NeverPanics
  BY <1>1 DEF AccountingMatches, NeverPanics, Has
<1>4. DescriptorsMatch
  BY <1>1 DEF DescriptorsMatch, Has
<1>5. Ownership
  BY DEF Ownership
<1>6. Shutdown
  BY DEF Shutdown
<1>7. Pacing
  BY DEF Pacing
<1> QED
  BY <1>2, <1>3, <1>4, <1>5, <1>6, <1>7 DEF IInv

LEMMA NextIInv == IInv /\ [Next]_vars => IInv'
<1> SUFFICES ASSUME IInv, [Next]_vars PROVE IInv'
  OBVIOUS
<1> USE BackoffAssumption, ListenerAssumption
    DEF IInv, TypeOK, SessionStates, AccountingMatches, DescriptorsMatch, NeverPanics, Ownership,
        Shutdown, Pacing, Bit, NoConn, Closed, NoHandle, Attempting, Links, thread, sess, conn, timer, env, Running
<1>1. CASE ThreadExits
  BY <1>1 DEF ThreadExits
<1>2. CASE BeginIteration
  BY <1>2 DEF BeginIteration
<1>3. CASE StartAttempt
  <2>1. Has(mem', 1, 0, "adopted", 1)
    BY <1>3, AttemptBegins DEF StartAttempt
  <2>2. TypeOK'
    <3>1. mem' \in ReconnectMemoryState /\ open_fds' \in Nat
      BY <1>3, <2>1 DEF StartAttempt, closeForReconnect, Has
    <3>2. backoff_ms' \in 0 .. MaxBackoff /\ reconnect_deadline' \in 0 .. MaxBackoff
          /\ waited' \in 0 .. MaxBackoff
      BY <1>3, <2>1 DEF StartAttempt, closeForReconnect, Has
    <3>3. (socket_owned \in BOOLEAN /\ active_connector_handle \in BOOLEAN
           /\ acquire_inflight \in BOOLEAN /\ reconnect_timer_active \in BOOLEAN
           /\ export_complete \in BOOLEAN /\ routes_sent \in BOOLEAN)'
      BY <1>3, <2>1 DEF StartAttempt, closeForReconnect, Has
    <3>4. (pc \in {"top", "connecting", "dialling", "passive", "session", "exited"}
           /\ state \in {"configured", "reconnect_wait"} /\ sess_state \in SessionStates
           /\ tcp \in {Closed, "active", "passive"} /\ peer_port \in {"configured", "ephemeral"})'
      BY <1>3, <2>1 DEF StartAttempt, closeForReconnect, Has
    <3>5. (mpc \in {"serving", "joining", "closing", "destroying", "done"}
           /\ pending \in {NoConn, "empty"} \cup Links /\ peer \in {"down", "up", "stable"}
           /\ link \in Links)'
      BY <1>3, <2>1 DEF StartAttempt, closeForReconnect, Has
    <3> QED
      BY <3>1, <3>2, <3>3, <3>4, <3>5, ZenonT(30) DEF TypeOK
  <2>3. AccountingMatches' /\ NeverPanics'
    BY <1>3, <2>1 DEF StartAttempt, closeForReconnect, Has
  <2>4. DescriptorsMatch'
    BY <1>3, <2>1 DEF StartAttempt, closeForReconnect, Has
  <2>5. Ownership'
    BY <1>3, <2>1 DEF StartAttempt, closeForReconnect
  <2>6. Shutdown'
    BY <1>3, <2>1 DEF StartAttempt, closeForReconnect
  <2>7. Pacing'
    BY <1>3, <2>1 DEF StartAttempt, closeForReconnect
  <2> QED
    BY <2>2, <2>3, <2>4, <2>5, <2>6, <2>7
<1>4. CASE AttemptSucceeds
  <2>1. mem' = mem
    BY <1>4 DEF AttemptSucceeds
  <2>2. TypeOK'
    <3>1. mem' \in ReconnectMemoryState /\ open_fds' \in Nat
      BY <1>4, <2>1 DEF AttemptSucceeds, resetBackoff, Has
    <3>2. backoff_ms' \in 0 .. MaxBackoff /\ reconnect_deadline' \in 0 .. MaxBackoff
          /\ waited' \in 0 .. MaxBackoff
      BY <1>4, <2>1 DEF AttemptSucceeds, resetBackoff, Has
    <3>3. (socket_owned \in BOOLEAN /\ active_connector_handle \in BOOLEAN
           /\ acquire_inflight \in BOOLEAN /\ reconnect_timer_active \in BOOLEAN
           /\ export_complete \in BOOLEAN /\ routes_sent \in BOOLEAN)'
      BY <1>4, <2>1 DEF AttemptSucceeds, resetBackoff, Has
    <3>4. (pc \in {"top", "connecting", "dialling", "passive", "session", "exited"}
           /\ state \in {"configured", "reconnect_wait"} /\ sess_state \in SessionStates
           /\ tcp \in {Closed, "active", "passive"} /\ peer_port \in {"configured", "ephemeral"})'
      BY <1>4, <2>1 DEF AttemptSucceeds, resetBackoff, Has
    <3>5. (mpc \in {"serving", "joining", "closing", "destroying", "done"}
           /\ pending \in {NoConn, "empty"} \cup Links /\ peer \in {"down", "up", "stable"}
           /\ link \in Links)'
      BY <1>4, <2>1 DEF AttemptSucceeds, resetBackoff, Has
    <3> QED
      BY <3>1, <3>2, <3>3, <3>4, <3>5, ZenonT(30) DEF TypeOK
  <2>3. AccountingMatches' /\ NeverPanics'
    BY <1>4, <2>1 DEF AttemptSucceeds, resetBackoff, Has
  <2>4. DescriptorsMatch'
    BY <1>4, <2>1 DEF AttemptSucceeds, resetBackoff
  <2>5. Ownership'
    BY <1>4, <2>1 DEF AttemptSucceeds, resetBackoff
  <2>6. Shutdown'
    BY <1>4, <2>1 DEF AttemptSucceeds, resetBackoff
  <2>7. Pacing'
    BY <1>4, <2>1 DEF AttemptSucceeds, resetBackoff
  <2> QED
    BY <2>2, <2>3, <2>4, <2>5, <2>6, <2>7
<1>5. CASE AttemptFails
  <2>1. Has(mem', 0, 1, NoHandle, 0)
    BY <1>5, ErrdefersBalance DEF AttemptFails, scheduleReconnect
  <2>2. TypeOK'
    <3>1. mem' \in ReconnectMemoryState /\ open_fds' \in Nat
      BY <1>5, <2>1, BackoffBounded DEF AttemptFails, scheduleReconnect, Has
    <3>2. backoff_ms' \in 0 .. MaxBackoff /\ reconnect_deadline' \in 0 .. MaxBackoff
          /\ waited' \in 0 .. MaxBackoff
      BY <1>5, <2>1, BackoffBounded DEF AttemptFails, scheduleReconnect, Has
    <3>3. (socket_owned \in BOOLEAN /\ active_connector_handle \in BOOLEAN
           /\ acquire_inflight \in BOOLEAN /\ reconnect_timer_active \in BOOLEAN
           /\ export_complete \in BOOLEAN /\ routes_sent \in BOOLEAN)'
      BY <1>5, <2>1, BackoffBounded DEF AttemptFails, scheduleReconnect, Has
    <3>4. (pc \in {"top", "connecting", "dialling", "passive", "session", "exited"}
           /\ state \in {"configured", "reconnect_wait"} /\ sess_state \in SessionStates
           /\ tcp \in {Closed, "active", "passive"} /\ peer_port \in {"configured", "ephemeral"})'
      BY <1>5, <2>1, BackoffBounded DEF AttemptFails, scheduleReconnect, Has
    <3>5. (mpc \in {"serving", "joining", "closing", "destroying", "done"}
           /\ pending \in {NoConn, "empty"} \cup Links /\ peer \in {"down", "up", "stable"}
           /\ link \in Links)'
      BY <1>5, <2>1, BackoffBounded DEF AttemptFails, scheduleReconnect, Has
    <3> QED
      BY <3>1, <3>2, <3>3, <3>4, <3>5, ZenonT(30) DEF TypeOK
  <2>3. AccountingMatches' /\ NeverPanics'
    BY <1>5, <2>1, BackoffBounded DEF AttemptFails, scheduleReconnect, Has
  <2>4. DescriptorsMatch'
    BY <1>5, <2>1 DEF AttemptFails, scheduleReconnect, Has
  <2>5. Ownership'
    BY <1>5, <2>1, BackoffBounded DEF AttemptFails, scheduleReconnect
  <2>6. Shutdown'
    BY <1>5, <2>1, BackoffBounded DEF AttemptFails, scheduleReconnect
  <2>7. Pacing'
    BY <1>5, <2>1, BackoffBounded DEF AttemptFails, scheduleReconnect
  <2> QED
    BY <2>2, <2>3, <2>4, <2>5, <2>6, <2>7
<1>6. CASE NoPassive
  BY <1>6 DEF NoPassive
<1>7. CASE TakePassive
  <2>1. mem' = mem
    BY <1>7 DEF TakePassive, Refilled
  <2>2. TypeOK'
    <3>1. mem' \in ReconnectMemoryState /\ open_fds' \in Nat
      BY <1>7, <2>1 DEF TakePassive, Refilled, Has
    <3>2. backoff_ms' \in 0 .. MaxBackoff /\ reconnect_deadline' \in 0 .. MaxBackoff
          /\ waited' \in 0 .. MaxBackoff
      BY <1>7, <2>1 DEF TakePassive, Refilled, Has
    <3>3. (socket_owned \in BOOLEAN /\ active_connector_handle \in BOOLEAN
           /\ acquire_inflight \in BOOLEAN /\ reconnect_timer_active \in BOOLEAN
           /\ export_complete \in BOOLEAN /\ routes_sent \in BOOLEAN)'
      BY <1>7, <2>1 DEF TakePassive, Refilled, Has
    <3>4. (pc \in {"top", "connecting", "dialling", "passive", "session", "exited"}
           /\ state \in {"configured", "reconnect_wait"} /\ sess_state \in SessionStates
           /\ tcp \in {Closed, "active", "passive"} /\ peer_port \in {"configured", "ephemeral"})'
      BY <1>7, <2>1 DEF TakePassive, Refilled, Has
    <3>5. (mpc \in {"serving", "joining", "closing", "destroying", "done"}
           /\ pending \in {NoConn, "empty"} \cup Links /\ peer \in {"down", "up", "stable"}
           /\ link \in Links)'
      BY <1>7, <2>1 DEF TakePassive, Refilled, Has
    <3> QED
      BY <3>1, <3>2, <3>3, <3>4, <3>5, ZenonT(30) DEF TypeOK
  <2>3. AccountingMatches' /\ NeverPanics'
    BY <1>7, <2>1 DEF TakePassive, Refilled, Has
  <2>4. DescriptorsMatch'
    BY <1>7, <2>1 DEF TakePassive, Refilled
  <2>5. Ownership'
    BY <1>7, <2>1 DEF TakePassive, Refilled
  <2>6. Shutdown'
    BY <1>7, <2>1 DEF TakePassive, Refilled
  <2>7. Pacing'
    BY <1>7, <2>1 DEF TakePassive, Refilled
  <2> QED
    BY <2>2, <2>3, <2>4, <2>5, <2>6, <2>7
<1>8. CASE RefusePassive
  BY <1>8 DEF RefusePassive, Refilled
<1>9. CASE SessionAdvances
  BY <1>9 DEF SessionAdvances, Export, Advance, resetBackoff
<1>10. CASE SessionFails
  <2>1. mem' = recordTimerStart(mem)
    BY <1>10 DEF SessionFails, scheduleReconnect
  <2>2. TypeOK'
    <3>1. mem' \in ReconnectMemoryState /\ open_fds' \in Nat
      BY <1>10, <2>1, BackoffBounded DEF SessionFails, Export, scheduleReconnect, recordTimerStart, Has,
             ReconnectMemoryState
    <3>2. backoff_ms' \in 0 .. MaxBackoff /\ reconnect_deadline' \in 0 .. MaxBackoff
          /\ waited' \in 0 .. MaxBackoff
      BY <1>10, <2>1, BackoffBounded DEF SessionFails, Export, scheduleReconnect, recordTimerStart, Has
    <3>3. (socket_owned \in BOOLEAN /\ active_connector_handle \in BOOLEAN
           /\ acquire_inflight \in BOOLEAN /\ reconnect_timer_active \in BOOLEAN
           /\ export_complete \in BOOLEAN /\ routes_sent \in BOOLEAN)'
      BY <1>10, <2>1, BackoffBounded DEF SessionFails, Export, scheduleReconnect, recordTimerStart, Has
    <3>4. (pc \in {"top", "connecting", "dialling", "passive", "session", "exited"}
           /\ state \in {"configured", "reconnect_wait"} /\ sess_state \in SessionStates
           /\ tcp \in {Closed, "active", "passive"} /\ peer_port \in {"configured", "ephemeral"})'
      BY <1>10, <2>1, BackoffBounded DEF SessionFails, Export, scheduleReconnect, recordTimerStart, Has
    <3>5. (mpc \in {"serving", "joining", "closing", "destroying", "done"}
           /\ pending \in {NoConn, "empty"} \cup Links /\ peer \in {"down", "up", "stable"}
           /\ link \in Links)'
      BY <1>10, <2>1, BackoffBounded DEF SessionFails, Export, scheduleReconnect, recordTimerStart, Has
    <3> QED
      BY <3>1, <3>2, <3>3, <3>4, <3>5, ZenonT(30) DEF TypeOK
  <2>3. AccountingMatches' /\ NeverPanics'
    BY <1>10, <2>1, BackoffBounded DEF SessionFails, Export, scheduleReconnect, recordTimerStart, Has
  <2>4. DescriptorsMatch'
    BY <1>10, <2>1, BackoffBounded DEF SessionFails, Export, scheduleReconnect, recordTimerStart
  <2>5. Ownership'
    BY <1>10, <2>1, BackoffBounded DEF SessionFails, Export, scheduleReconnect, recordTimerStart
  <2>6. Shutdown'
    BY <1>10, <2>1, BackoffBounded DEF SessionFails, Export, scheduleReconnect, recordTimerStart
  <2>7. Pacing'
    BY <1>10, <2>1, BackoffBounded DEF SessionFails, Export, scheduleReconnect, recordTimerStart
  <2> QED
    BY <2>2, <2>3, <2>4, <2>5, <2>6, <2>7
<1>11. CASE SessionFailsUnreported
  BY <1>11 DEF SessionFailsUnreported, Export
<1>12. CASE RequestCleanup
  BY <1>12 DEF RequestCleanup
<1>13. CASE JoinRuntimeThread
  BY <1>13 DEF JoinRuntimeThread
<1>14. CASE CloseBundle
  <2>1. Has(mem', 0, 0, NoHandle, 0)
    BY <1>14, ClosedMemBalanced DEF CloseBundle
  <2>2. TypeOK'
    <3>1. mem' \in ReconnectMemoryState /\ open_fds' \in Nat
      BY <1>14, <2>1 DEF CloseBundle, closeForReconnect, Has
    <3>2. backoff_ms' \in 0 .. MaxBackoff /\ reconnect_deadline' \in 0 .. MaxBackoff
          /\ waited' \in 0 .. MaxBackoff
      BY <1>14, <2>1 DEF CloseBundle, closeForReconnect, Has
    <3>3. (socket_owned \in BOOLEAN /\ active_connector_handle \in BOOLEAN
           /\ acquire_inflight \in BOOLEAN /\ reconnect_timer_active \in BOOLEAN
           /\ export_complete \in BOOLEAN /\ routes_sent \in BOOLEAN)'
      BY <1>14, <2>1 DEF CloseBundle, closeForReconnect, Has
    <3>4. (pc \in {"top", "connecting", "dialling", "passive", "session", "exited"}
           /\ state \in {"configured", "reconnect_wait"} /\ sess_state \in SessionStates
           /\ tcp \in {Closed, "active", "passive"} /\ peer_port \in {"configured", "ephemeral"})'
      BY <1>14, <2>1 DEF CloseBundle, closeForReconnect, Has
    <3>5. (mpc \in {"serving", "joining", "closing", "destroying", "done"}
           /\ pending \in {NoConn, "empty"} \cup Links /\ peer \in {"down", "up", "stable"}
           /\ link \in Links)'
      BY <1>14, <2>1 DEF CloseBundle, closeForReconnect, Has
    <3> QED
      BY <3>1, <3>2, <3>3, <3>4, <3>5, ZenonT(30) DEF TypeOK
  <2>3. AccountingMatches' /\ NeverPanics'
    BY <1>14, <2>1 DEF CloseBundle, closeForReconnect, Has
  <2>4. DescriptorsMatch'
    BY <1>14, <2>1 DEF CloseBundle, closeForReconnect, Has
  <2>5. Ownership'
    BY <1>14, <2>1 DEF CloseBundle, closeForReconnect
  <2>6. Shutdown'
    BY <1>14, <2>1 DEF CloseBundle, closeForReconnect
  <2>7. Pacing'
    BY <1>14, <2>1 DEF CloseBundle, closeForReconnect
  <2> QED
    BY <2>2, <2>3, <2>4, <2>5, <2>6, <2>7
<1>15. CASE destroyMemoryState
  BY <1>15 DEF destroyMemoryState, validateForDestroy, Panic
<1>16. CASE PeerDown
  BY <1>16 DEF PeerDown
<1>17. CASE PeerUp
  BY <1>17 DEF PeerUp
<1>18. CASE PeerStable
  BY <1>18 DEF PeerStable
<1>19. CASE PeerEndsSession
  BY <1>19 DEF PeerEndsSession
<1>20. CASE PeerDials
  BY <1>20 DEF PeerDials
<1>21. CASE Tick
  BY <1>21 DEF Tick
<1>22. CASE OpenSocket
  BY <1>22 DEF OpenSocket
<1>23. CASE AcceptFails
  BY <1>23 DEF AcceptFails
<1>24. CASE UNCHANGED vars
  BY <1>24 DEF vars
<1> QED
  BY <1>1, <1>2, <1>3, <1>4, <1>5, <1>6, <1>7, <1>8, <1>9, <1>10, <1>11, <1>12, <1>13, <1>14,
     <1>15, <1>16, <1>17, <1>18, <1>19, <1>20, <1>21, <1>22, <1>23, <1>24
     DEF Next, RuntimeThread, Cleanup, Environment

(* Every reachable state has the types the code declares; in particular    *)
(* the back-off stays below its cap (computeNextBackoff).                  *)
THEOREM TypeCorrect == Spec => []TypeOK
<1>1. IInv => TypeOK
  BY DEF IInv
<1> QED
  BY <1>1, InitIInv, NextIInv, PTL DEF Spec

(* The accounting state mirrors what the bundle owns, and none of its      *)
(* fail-loud checks fires: recordSocketClose, recordTimerStop,             *)
(* releaseHandle and destroyMemoryState never panic.                       *)
THEOREM AccountsFollow == Spec => [](AccountingMatches /\ NeverPanics)
<1>1. IInv => AccountingMatches /\ NeverPanics
  BY DEF IInv
<1> QED
  BY <1>1, InitIInv, NextIInv, PTL DEF Spec

(* The thread leaves no descriptor behind, whether socket() fails, the     *)
(* connection does, an inbound one takes over or the daemon shuts down;    *)
(* and the accounting state counts what is there.                          *)
THEOREM DescriptorsBalance == Spec => []DescriptorsMatch
<1>1. IInv => DescriptorsMatch
  BY DEF IInv
<1> QED
  BY <1>1, InitIInv, NextIInv, PTL DEF Spec

(* An iteration of the session always has its socket, and the timer runs   *)
(* exactly while the thread waits.                                         *)
THEOREM SocketOwned == Spec => []OwnedWhileRunning
<1>1. IInv => OwnedWhileRunning
  BY DEF IInv, TypeOK, Ownership, Shutdown, OwnedWhileRunning
<1> QED
  BY <1>1, InitIInv, NextIInv, PTL DEF Spec

(* reconnectTransport never finds a handle in flight.                      *)
THEOREM HandleFree == Spec => []AcquireNeverRefused
<1>1. IInv => AcquireNeverRefused
  <2> SUFFICES ASSUME IInv, pc = "top" PROVE ~acquire_inflight /\ ClosedMem.handle = NoHandle
    BY DEF AcquireNeverRefused
  <2>1. Has(ClosedMem, 0, 0, NoHandle, 0)
    BY ClosedMemBalanced DEF IInv, Attempting
  <2> QED
    BY <2>1 DEF IInv, Ownership, Attempting, Has
<1> QED
  BY <1>1, InitIInv, NextIInv, PTL DEF Spec

(* The accounting of the bundle and what the bundle owns never part.       *)
THEOREM AccountingBalances == Spec => []AccountingSound
<1>1. AccountingMatches /\ NeverPanics /\ AcquireNeverRefused /\ OwnedWhileRunning
        => AccountingSound
  BY DEF AccountingSound
<1> QED
  BY <1>1, AccountsFollow, SocketOwned, HandleFree, PTL

(* No attempt comes before the initial back-off has passed since the       *)
(* failure it follows, for every pair of back-off bounds.                  *)
THEOREM RetriesPaced == Spec => []PacedRetries
<1>1. IInv => PacedRetries
  BY BackoffAssumption DEF IInv, TypeOK, Pacing, PacedRetries
<1> QED
  BY <1>1, InitIInv, NextIInv, PTL DEF Spec

(* The runtime never takes an established session from its connection.     *)
THEOREM SessionUndisturbed == Spec => EstablishedKept
<1> DEFINE Kept == sess_state = "established" /\ sess_state' /= "established"
                      => link /= "good" \/ mpc = "closing"
<1>1. IInv /\ [Next]_vars => [Kept]_vars
  <2> SUFFICES ASSUME IInv, Next PROVE Kept
    BY DEF vars
  <2> USE DEF IInv, Ownership, sess
  <2>1. CASE StartAttempt
    BY <2>1 DEF StartAttempt
  <2>2. CASE SessionAdvances
    BY <2>2 DEF SessionAdvances, Advance, TypeOK
  <2>3. CASE SessionFails \/ SessionFailsUnreported
    BY <2>3 DEF SessionFails, SessionFailsUnreported
  <2>4. CASE TakePassive \/ CloseBundle
    BY <2>4 DEF TakePassive, CloseBundle
  <2>5. CASE ThreadExits \/ BeginIteration \/ OpenSocket \/ AttemptSucceeds \/ AttemptFails \/ NoPassive \/ AcceptFails
             \/ RefusePassive \/ RequestCleanup \/ JoinRuntimeThread \/ destroyMemoryState
             \/ Environment \/ Tick \/ UNCHANGED vars
    BY <2>5 DEF ThreadExits, BeginIteration, OpenSocket, AttemptSucceeds, AttemptFails, NoPassive, AcceptFails,
                RefusePassive, RequestCleanup, JoinRuntimeThread, destroyMemoryState,
                Environment, PeerDown, PeerUp, PeerStable, PeerEndsSession, PeerDials, Tick, vars
  <2> QED
    BY <2>1, <2>2, <2>3, <2>4, <2>5 DEF Next, RuntimeThread, Cleanup
<1> QED
  BY <1>1, InitIInv, NextIInv, PTL DEF Spec, EstablishedKept

=============================================================================
