----------------------------- MODULE BgpSession -----------------------------
(***************************************************************************)
(* One BGP session as the runtime thread steps it: runOnce (session.zig),  *)
(* its timers (session_timers.zig), the TCP transport it reads and writes  *)
(* (tcp_transport.zig), the delta a prefix reload applies at the end of an *)
(* iteration (session_delta.zig), and the peer at the other end.           *)
(*                                                                         *)
(* An iteration is a few steps, so that the peer and the clock act between *)
(* them.  A message is one piece, or two when TCP cuts it; what the peer   *)
(* receives it handles at once, since nothing obliges it to answer.  The   *)
(* clock ticks in seconds, and the loop runs at least once a second.       *)
(***************************************************************************)
EXTENDS Naturals, SequencesExt

CONSTANTS
    HoldTime,           \* config.hold_time_seconds
    KeepaliveTime,      \* config.keepalive_seconds
    PeerHolds,          \* hold times the peer may propose in its OPEN
    Batches,            \* UPDATEs the configured prefixes take
    Reloads,            \* a prefix file may change while the daemon runs
    Splits,             \* TCP may cut a message in two
    MaxWire             \* bound: pieces waiting in the socket

ASSUME TimesAssumption ==
    /\ HoldTime \in Nat /\ (HoldTime /= 0 => HoldTime >= 3)
    /\ KeepaliveTime \in Nat /\ (HoldTime /= 0 => KeepaliveTime < HoldTime)
    /\ PeerHolds \subseteq Nat

ASSUME BoundsAssumption ==
    /\ Batches \in Nat /\ MaxWire \in Nat \ {0}
    /\ Reloads \in BOOLEAN /\ Splits \in BOOLEAN

VARIABLES
    pc,                     \* where the iteration is
    state,                  \* status.state
    send_buf,               \* the message of send_buf[0..send_pos], or Nothing
    recv_buf,               \* pieces of recv_buf[0..recv_len]
    chunk,                  \* transport: pieces of its recv_buf[0..recv_len]
    peer_open,              \* <<hold time>> of the peer's OPEN, or NoOpen
    negotiated_hold_time,
    keepalive_interval,
    pending_keepalive,
    keepalive_age,          \* now - pending_keepalive_ms
    hold_left,              \* hold_timer_deadline - now
    export_batch_index,
    pending_update,         \* the local variable of runOnce
    wire,                   \* pieces the peer has sent and the socket holds
    peer_out,               \* what the peer has sent last
    peer_in,                \* how far the peer has come with what it received
    ended,                  \* why the session failed
    unheard,                \* time since something was read from the socket
    unsent,                 \* time since something was sent, once established
    ran                     \* an iteration has ended since the last tick

out == <<send_buf, export_batch_index, pending_update>>
in == <<recv_buf, chunk>>
agreed == <<peer_open, negotiated_hold_time, keepalive_interval>>
timers == <<pending_keepalive, keepalive_age, hold_left>>
peer == <<peer_out, peer_in>>
clock == <<unheard, unsent, ran>>
vars == <<pc, state, out, in, agreed, timers, wire, peer, ended, clock>>

Nothing == "nothing"
NoOpen == <<>>
Held == {"open_sent", "open_confirm", "established"}

Longest == HoldTime         \* no interval that is agreed on is longer

Messages ==
    [kind : {"OPEN"}, hold : PeerHolds] \cup [kind : {"BAD_OPEN", "KEEPALIVE", "UPDATE", "NOTIFICATION"}]
Pieces == [msg : Messages, part : {"whole", "first", "last"}]

TypeOK ==
    /\ pc \in {"top", "export", "flush", "recv", "decode", "delta"}
    /\ state \in {"idle", "failed"} \cup Held
    /\ send_buf \in {Nothing, "KEEPALIVE", "UPDATE", "OPEN"}
    /\ recv_buf \in Seq(Pieces) /\ chunk \in Seq(Pieces) /\ wire \in Seq(Pieces)
    /\ peer_open \in {NoOpen} \cup {<<h>> : h \in PeerHolds}
    /\ negotiated_hold_time \in 0 .. HoldTime
    /\ keepalive_interval \in 0 .. HoldTime
    /\ pending_keepalive \in BOOLEAN
    /\ keepalive_age \in 0 .. Longest
    /\ hold_left \in 0 .. HoldTime
    /\ export_batch_index \in 0 .. Batches
    /\ pending_update \in BOOLEAN
    /\ peer_out \in {"nothing", "open", "keepalive", "ending", "closed"}
    /\ peer_in \in {"nothing", "open", "keepalive", "error"}
    /\ ended \in {"no", "send", "closed", "hold", "frame", "open", "garbled", "notification"}
    /\ unheard \in 0 .. Longest /\ unsent \in 0 .. Longest
    /\ ran \in BOOLEAN

Init ==
    /\ pc = "top" /\ state = "idle"
    /\ send_buf = Nothing /\ export_batch_index = 0 /\ pending_update = FALSE
    /\ recv_buf = <<>> /\ chunk = <<>>
    /\ peer_open = NoOpen /\ negotiated_hold_time = 0 /\ keepalive_interval = 0
    /\ pending_keepalive = FALSE /\ keepalive_age = 0 /\ hold_left = 0
    /\ wire = <<>> /\ peer_out = "nothing" /\ peer_in = "nothing"
    /\ ended = "no" /\ unheard = 0 /\ unsent = 0 /\ ran = FALSE

-----------------------------------------------------------------------------
(* Sending *)

\* what the peer makes of a message: an OPEN, then a KEEPALIVE, then anything
PeerGets(m) ==
    peer_in' = CASE peer_in = "nothing" /\ m = "OPEN"      -> "open"
                 [] peer_in = "open" /\ m = "KEEPALIVE"    -> "keepalive"
                 [] peer_in = "keepalive" /\ m /= "OPEN"   -> "keepalive"
                 [] OTHER                                  -> "error"

Fail(why) == state' = "failed" /\ ended' = why /\ pc' = "top"

\* flushSend of message m: what goes to a closed end is lost, or refused
Send(m) ==
    /\ send_buf' = Nothing /\ unsent' = 0
    /\ IF peer_out = "closed" THEN UNCHANGED peer_in ELSE PeerGets(m)

\* refused by a closed end, or by a full socket (EAGAIN)
SendFails == UNCHANGED <<unsent, peer_in>>

RunIdle ==
    /\ pc = "top" /\ state = "idle"
    /\ \/ Send("OPEN") /\ state' = "open_sent" /\ pc' = "delta" /\ UNCHANGED ended
       \/ SendFails /\ send_buf' = "OPEN" /\ Fail("send")
    /\ UNCHANGED <<export_batch_index, pending_update, in, agreed, timers, wire, peer_out,
                   unheard, ran>>

-----------------------------------------------------------------------------
(* runOnce of a held session: timers, export, flush, receive, decode *)

RunHandshake ==
    /\ pc = "top" /\ state \in {"open_sent", "open_confirm"}
    /\ pc' = "flush" /\ pending_update' = FALSE
    /\ UNCHANGED <<state, send_buf, export_batch_index, in, agreed, timers, wire, peer, ended, clock>>

HoldExpired == negotiated_hold_time > 0 /\ hold_left = 0

KeepaliveDue ==
    negotiated_hold_time > 0 /\ pending_keepalive /\ keepalive_age >= keepalive_interval

\* stepEstablishedTimers
HoldTimerExpires ==
    /\ pc = "top" /\ state = "established" /\ HoldExpired
    /\ Fail("hold") /\ pending_update' = FALSE
    /\ UNCHANGED <<send_buf, export_batch_index, in, agreed, timers, wire, peer, clock>>

SendKeepalive ==
    /\ pc = "top" /\ state = "established" /\ ~HoldExpired /\ KeepaliveDue
    /\ keepalive_age' = 0 /\ pending_update' = FALSE
    /\ \/ Send("KEEPALIVE") /\ pc' = "export" /\ UNCHANGED <<state, ended>>
       \/ SendFails /\ send_buf' = "KEEPALIVE" /\ Fail("send")
    /\ UNCHANGED <<export_batch_index, in, agreed, pending_keepalive, hold_left, wire,
                   peer_out, unheard, ran>>

TimersIdle ==
    /\ pc = "top" /\ state = "established" /\ ~HoldExpired /\ ~KeepaliveDue
    /\ pc' = "export" /\ pending_update' = FALSE
    /\ UNCHANGED <<state, send_buf, export_batch_index, in, agreed, timers, wire, peer, ended, clock>>

\* variant: a message that waits in send_buf is not looked at
Export_Overwrites ==
    /\ pc = "export"
    /\ IF export_batch_index < Batches
       THEN send_buf' = "UPDATE" /\ pending_update' = TRUE
       ELSE UNCHANGED <<send_buf, pending_update>>
    /\ pc' = "flush"
    /\ UNCHANGED <<state, export_batch_index, in, agreed, timers, wire, peer, ended, clock>>

Export ==
    /\ pc = "export"
    /\ IF export_batch_index < Batches /\ send_buf = Nothing
       THEN send_buf' = "UPDATE" /\ pending_update' = TRUE
       ELSE UNCHANGED <<send_buf, pending_update>>
    /\ pc' = "flush"
    /\ UNCHANGED <<state, export_batch_index, in, agreed, timers, wire, peer, ended, clock>>

Flush ==
    /\ pc = "flush"
    /\ \/ /\ IF send_buf = Nothing
             THEN UNCHANGED <<send_buf, unsent, peer_in>>
             ELSE Send(send_buf)
          /\ export_batch_index' = export_batch_index + (IF pending_update THEN 1 ELSE 0)
          /\ pc' = "recv" /\ UNCHANGED <<state, ended>>
       \/ /\ send_buf /= Nothing /\ SendFails /\ Fail("send")
          /\ UNCHANGED <<send_buf, export_batch_index>>
    /\ UNCHANGED <<pending_update, in, agreed, timers, wire, peer_out, unheard, ran>>

\* recv returns a chunk it has just read, and once more when called again
Receive ==
    /\ pc = "recv" /\ chunk = <<>> /\ wire /= <<>>
    /\ \E n \in 1 .. Len(wire) :
          /\ chunk' = SubSeq(wire, 1, n)
          /\ wire' = SubSeq(wire, n + 1, Len(wire))
    /\ recv_buf' = recv_buf \o chunk'
    /\ unheard' = 0 /\ pc' = "decode"
    /\ UNCHANGED <<state, out, agreed, timers, peer, ended, unsent, ran>>

ReceiveAgain ==
    /\ pc = "recv" /\ chunk /= <<>>
    /\ recv_buf' = recv_buf \o chunk /\ chunk' = <<>>
    /\ pc' = "decode"
    /\ UNCHANGED <<state, out, agreed, timers, wire, peer, ended, clock>>

\* variant: an empty read resets the hold timer
ReceiveNothing_Resets ==
    /\ pc = "recv" /\ chunk = <<>> /\ wire = <<>> /\ peer_out /= "closed"
    /\ hold_left' = negotiated_hold_time
    /\ pc' = "decode"
    /\ UNCHANGED <<state, out, in, agreed, pending_keepalive, keepalive_age, wire, peer, ended, clock>>

ReceiveNothing ==
    /\ pc = "recv" /\ chunk = <<>> /\ wire = <<>> /\ peer_out /= "closed"
    /\ pc' = "decode"
    /\ UNCHANGED <<state, out, in, agreed, timers, wire, peer, ended, clock>>

\* end of file; a hang-up or a reset hides what the socket still holds
ConnectionClosed ==
    /\ pc = "recv" /\ chunk = <<>> /\ peer_out = "closed"
    /\ Fail("closed")
    /\ UNCHANGED <<out, in, agreed, timers, wire, peer, clock>>

-----------------------------------------------------------------------------
(* tryDecodeFrame and handleMessage *)

\* the frame at the front, when all of it is there
Complete ==
    /\ recv_buf /= <<>>
    /\ \/ recv_buf[1].part = "whole"
       \/ /\ recv_buf[1].part = "first"
          /\ Len(recv_buf) > 1
          /\ recv_buf[2].msg = recv_buf[1].msg /\ recv_buf[2].part = "last"

Incomplete == recv_buf = <<>> \/ (Len(recv_buf) = 1 /\ recv_buf[1].part = "first")

Frame == recv_buf[1].msg
Rest == SubSeq(recv_buf, IF recv_buf[1].part = "whole" THEN 2 ELSE 3, Len(recv_buf))

Decoded == pc = "decode" /\ Complete /\ recv_buf' = Rest

NoMoreFrames ==
    /\ pc = "decode" /\ Incomplete
    /\ pc' = "delta"
    /\ UNCHANGED <<state, out, in, agreed, timers, wire, peer, ended, clock>>

\* tryDecodeFrame fails the session and returns null: runOnce returns .ok
BadFrame ==
    /\ pc = "decode" /\ ~Complete /\ ~Incomplete
    /\ state' = "failed" /\ ended' = "frame" /\ pc' = "delta"
    /\ UNCHANGED <<out, in, agreed, timers, wire, peer, clock>>

\* The frame's body is a slice of the buffer that tryDecodeFrame has just
\* compacted: what is moved to the front overwrites the body unless it is no
\* longer than a KEEPALIVE, which ends where the body begins.  A NOTIFICATION
\* is two bytes longer, and these may be what they replace.
OneMessage == Len(Rest) <= 1 \/ (Len(Rest) = 2 /\ Rest[1].part = "first")
MayBeGarbled == ~OneMessage \/ \E p \in ToSet(Rest) : p.msg.kind /= "KEEPALIVE"
MayBeIntact == OneMessage

\* variant: the OPEN is not confirmed
HandleOpen_Unconfirmed ==
    /\ Decoded /\ state = "open_sent" /\ Frame.kind = "OPEN" /\ MayBeIntact
    /\ peer_open' = <<Frame.hold>>
    /\ state' = "open_confirm"
    /\ UNCHANGED <<pc, out, chunk, negotiated_hold_time, keepalive_interval, timers, wire, peer,
                   ended, clock>>

HandleOpen ==
    /\ Decoded /\ state = "open_sent" /\ Frame.kind = "OPEN" /\ MayBeIntact
    /\ peer_open' = <<Frame.hold>>
    /\ state' = "open_confirm"
    /\ send_buf' = "KEEPALIVE"
    /\ UNCHANGED <<pc, export_batch_index, pending_update, chunk, negotiated_hold_time,
                   keepalive_interval, timers, wire, peer, ended, clock>>

\* wrong version or AS number
RefuseOpen ==
    /\ Decoded /\ state = "open_sent" /\ Frame.kind \in {"OPEN", "BAD_OPEN"}
    /\ \/ Frame.kind = "OPEN" /\ MayBeGarbled /\ Fail("garbled")
       \/ Frame.kind = "BAD_OPEN" /\ Fail("open")
    /\ UNCHANGED <<out, chunk, agreed, timers, wire, peer, clock>>

Smaller(a, b) == IF a <= b THEN a ELSE b

calcKeepaliveInterval(configured, hold) ==
    IF hold = 0 THEN 0
    ELSE IF configured > 0 /\ configured < hold \div 3 THEN configured ELSE hold \div 3

\* transitionToEstablished; runOnce returns and leaves the rest of the buffer
HandleFirstKeepalive ==
    /\ Decoded /\ state = "open_confirm" /\ Frame.kind = "KEEPALIVE"
    /\ state' = "established"
    /\ negotiated_hold_time' = Smaller(HoldTime, IF peer_open = NoOpen THEN HoldTime ELSE peer_open[1])
    /\ keepalive_interval' = calcKeepaliveInterval(KeepaliveTime, negotiated_hold_time')
    /\ hold_left' = negotiated_hold_time'
    /\ IF keepalive_interval' = 0
       THEN UNCHANGED <<pending_keepalive, keepalive_age>>
       ELSE pending_keepalive' = TRUE /\ keepalive_age' = 0
    /\ unsent' = 0 /\ pc' = "delta"
    /\ UNCHANGED <<out, chunk, peer_open, wire, peer, ended, unheard, ran>>

\* variant: only KEEPALIVEs reset the hold timer
HandleEstablished_KeepaliveOnly ==
    /\ Decoded /\ state = "established" /\ Frame.kind /= "NOTIFICATION"
    /\ hold_left' = IF Frame.kind = "KEEPALIVE" THEN negotiated_hold_time ELSE hold_left
    /\ UNCHANGED <<pc, state, out, chunk, agreed, pending_keepalive, keepalive_age, wire, peer,
                   ended, clock>>

HandleEstablished ==
    /\ Decoded /\ state = "established" /\ Frame.kind /= "NOTIFICATION"
    /\ hold_left' = negotiated_hold_time
    /\ UNCHANGED <<pc, state, out, chunk, agreed, pending_keepalive, keepalive_age, wire, peer,
                   ended, clock>>

HandleNotification ==
    /\ Decoded /\ Frame.kind = "NOTIFICATION"
    /\ hold_left' = IF state = "established" THEN negotiated_hold_time ELSE hold_left
    /\ Fail("notification")
    /\ UNCHANGED <<out, chunk, agreed, pending_keepalive, keepalive_age, wire, peer, clock>>

Ignore ==
    /\ Decoded
    /\ \/ state = "open_sent" /\ Frame.kind \in {"KEEPALIVE", "UPDATE"}
       \/ state = "open_confirm" /\ Frame.kind \in {"OPEN", "BAD_OPEN", "UPDATE"}
    /\ UNCHANGED <<pc, state, out, chunk, agreed, timers, wire, peer, ended, clock>>

-----------------------------------------------------------------------------
(* The end of the iteration, and the next connection *)

\* applyPrefixReloadIfWatched: applyDelta writes over send_buf, and does not
\* end the session when the message is refused
ApplyDelta ==
    /\ pc = "delta" /\ Reloads /\ state = "established"
    /\ pc' = "top" /\ ran' = TRUE
    /\ Send("UPDATE") \/ (peer_out = "closed" /\ SendFails /\ send_buf' = "UPDATE")
    /\ UNCHANGED <<state, export_batch_index, pending_update, in, agreed, timers, wire, peer_out,
                   ended, unheard>>

NoDelta ==
    /\ pc = "delta"
    /\ pc' = "top" /\ ran' = TRUE
    /\ UNCHANGED <<state, out, in, agreed, timers, wire, peer, ended, unheard, unsent>>

\* what closeForReconnect and the take-over of an inbound connection both
\* reset, and the new connection
FreshConnection ==
    /\ state' = "idle" /\ ended' = "no" /\ ran' = TRUE
    /\ send_buf' = Nothing /\ recv_buf' = <<>> /\ chunk' = <<>>
    /\ peer_open' = NoOpen /\ negotiated_hold_time' = 0 /\ keepalive_interval' = 0
    /\ pending_keepalive' = FALSE /\ keepalive_age' = 0 /\ hold_left' = 0
    /\ wire' = <<>> /\ peer_out' = "nothing" /\ peer_in' = "nothing"
    /\ unheard' = 0 /\ unsent' = 0

Reconnect ==
    /\ pc = "top" /\ state = "failed"
    /\ FreshConnection /\ export_batch_index' = 0
    /\ UNCHANGED <<pc, pending_update>>

TakePassive ==
    /\ pc = "top" /\ state /= "established"
    /\ FreshConnection
    /\ UNCHANGED <<pc, export_batch_index, pending_update>>

-----------------------------------------------------------------------------
(* The peer sends in its own order; it opens at once, but confirms only    *)
(* what it has received.                                                   *)

Piece(m, p) == [msg |-> m, part |-> p]
Cut(m) ==
    {<<Piece(m, "whole")>>} \cup
    (IF Splits THEN {<<Piece(m, "first"), Piece(m, "last")>>} ELSE {})

PeerSends(m) ==
    /\ \E pieces \in Cut(m) : wire' = wire \o pieces
    /\ Len(wire') <= MaxWire
    /\ UNCHANGED <<pc, state, out, in, agreed, timers, peer_in, ended, clock>>

PeerOpens ==
    /\ peer_out = "nothing"
    /\ \/ \E h \in PeerHolds : PeerSends([kind |-> "OPEN", hold |-> h])
       \/ PeerSends([kind |-> "BAD_OPEN"])
    /\ peer_out' = "open"

PeerConfirms ==
    /\ peer_out = "open" /\ peer_in \in {"open", "keepalive"}
    /\ PeerSends([kind |-> "KEEPALIVE"])
    /\ peer_out' = "keepalive"

PeerTalks ==
    /\ peer_out = "keepalive" /\ peer_in = "keepalive"
    /\ PeerSends([kind |-> "KEEPALIVE"]) \/ PeerSends([kind |-> "UPDATE"])
    /\ UNCHANGED peer_out

PeerNotifies ==
    /\ peer_out \notin {"ending", "closed"}
    /\ PeerSends([kind |-> "NOTIFICATION"])
    /\ peer_out' = "ending"

PeerCloses ==
    /\ peer_out /= "closed" /\ peer_out' = "closed"
    /\ UNCHANGED <<pc, state, out, in, agreed, timers, wire, peer_in, ended, clock>>

Up(t) == Smaller(t + 1, Longest)

Tick ==
    /\ ran /\ pc = "top" /\ ran' = FALSE
    /\ hold_left' = IF hold_left = 0 THEN 0 ELSE hold_left - 1
    /\ keepalive_age' = IF pending_keepalive THEN Up(keepalive_age) ELSE 0
    /\ unheard' = Up(unheard) /\ unsent' = Up(unsent)
    /\ UNCHANGED <<pc, state, out, in, agreed, pending_keepalive, wire, peer, ended>>

-----------------------------------------------------------------------------
Iteration ==
    \/ RunIdle \/ RunHandshake \/ HoldTimerExpires \/ SendKeepalive \/ TimersIdle
    \/ Export \/ Flush
    \/ Receive \/ ReceiveAgain \/ ReceiveNothing \/ ConnectionClosed
    \/ NoMoreFrames \/ BadFrame \/ HandleOpen \/ RefuseOpen \/ HandleFirstKeepalive
    \/ HandleEstablished \/ HandleNotification \/ Ignore
    \/ ApplyDelta \/ NoDelta

Peer == PeerOpens \/ PeerConfirms \/ PeerTalks \/ PeerNotifies \/ PeerCloses

Next == Iteration \/ Reconnect \/ TakePassive \/ Peer \/ Tick

Spec == Init /\ [][Next]_vars

(* The loop runs and so does the clock, whatever the loop is doing.        *)
FairSpec == Spec /\ WF_vars(Iteration) /\ SF_vars(Tick)

-----------------------------------------------------------------------------
(* The peer gets the OPEN first, then the KEEPALIVE that confirms its own, *)
(* then the rest: no batch of the export takes the place of a message that *)
(* waits in send_buf, and nothing of an earlier connection is left there.  *)
(* The delta of a reload (pc = "delta") may: applied in the iteration that *)
(* established the session, it is written over the waiting KEEPALIVE.      *)
HandshakeInOrder ==
    [][peer_in /= "error" /\ peer_in' = "error" => pc = "delta"]_vars

(* Both ends agree that the session is up: an established session has had  *)
(* the peer's OPEN and KEEPALIVE on this connection, and the peer has had  *)
(* the OPEN and has, or is about to be sent, the KEEPALIVE, unless it sees *)
(* an error in what it was sent.                                           *)
EstablishedByBoth ==
    state = "established" =>
        /\ peer_out \in {"keepalive", "ending", "closed"} /\ peer_open /= NoOpen
        /\ \/ peer_in = "keepalive"
           \/ peer_in = "open" /\ send_buf = "KEEPALIVE"
           \/ peer_in = "error" \/ peer_out = "closed"

(* The hold timer never ends a session that has read something from its    *)
(* peer within the hold time, whatever it read, unless it is still waiting *)
(* for the rest of a message.                                              *)
HoldTimerSound ==
    state = "established" /\ HoldExpired /\ recv_buf = <<>> => unheard >= negotiated_hold_time

(* The peer of an established session never goes without a message for a   *)
(* third of the hold time the two have agreed on, but for the iteration    *)
(* that is about to send one (calcKeepaliveInterval, scheduleKeepalive).   *)
(* Of 1 and 2 seconds, which RFC 4271 forbids, the third is no interval.   *)
KeepalivesInTime ==
    state = "established" /\ negotiated_hold_time >= 3
        => 3 * unsent <= negotiated_hold_time

(* Neither end takes the other for dead: the daemon's hold timer runs out  *)
(* only after a silence, and its KEEPALIVEs come before the peer's does.   *)
TimersSound == HoldTimerSound /\ KeepalivesInTime

(* An OPEN is parsed from its own bytes, although the buffer has been      *)
(* compacted under it, unless the peer is giving the connection up anyway. *)
OpenFromItsOwnBytes == ended = "garbled" => peer_out \in {"ending", "closed"}

(* The handshake rests on what was really received: the two ends agree     *)
(* about it, and each message is read from its own bytes.                  *)
HandshakeSound == EstablishedByBoth /\ OpenFromItsOwnBytes

(* transport.zig: recv "returns data or empty slice if no data" - what the *)
(* peer sends, and no frame is bad that was not sent so.                   *)
FramesIntact == ended /= "frame"

(* A peer that falls silent ends an established session.                   *)
SilenceEndsSession ==
    state = "established" /\ negotiated_hold_time > 0
        ~> state /= "established" \/ unheard < negotiated_hold_time

(* docs/architecture/tovarisch-state-transition-register.md: "open_confirm *)
(* | hold timer expired | failed" - a peer with a hold time that falls     *)
(* silent before its KEEPALIVE ends the session too.                       *)
SilenceEndsHandshake ==
    state = "open_confirm" /\ peer_open /= <<0>>
        ~> state /= "open_confirm" \/ unheard < HoldTime
=============================================================================
