-------------------------- MODULE BgpSession_proofs --------------------------
(***************************************************************************)
(* The handshake and the timers of a BGP session are sound for all hold    *)
(* and keepalive times, whatever the peer proposes, sends or leaves out,   *)
(* and however TCP cuts it.                                                *)
(***************************************************************************)
EXTENDS BgpSession, SequenceTheorems, TLAPS

\* where an iteration can be, by the state of the session; a batch that is
\* about to be counted is one that is left
Control ==
    /\ state = "idle" => pc = "top"
    /\ state = "failed" => pc \in {"top", "delta"}
    /\ pc = "export" => state = "established" /\ ~pending_update
    /\ pc = "flush" /\ pending_update => export_batch_index < Batches

(* What the daemon has been sent, by how far the peer has come: nobody     *)
(* confirms before it says so.  The three buffers are in the same set, so  *)
(* that moving pieces between them, twice or in part, keeps it.            *)
Confirmed == {"keepalive", "ending", "closed"}
Sendable == {p \in Pieces : p.msg.kind \in {"KEEPALIVE", "UPDATE"} => peer_out \in Confirmed}
BufferTypes == recv_buf \in Seq(Pieces) /\ chunk \in Seq(Pieces) /\ wire \in Seq(Pieces)
Buffers == recv_buf \in Seq(Sendable) /\ chunk \in Seq(Sendable) /\ wire \in Seq(Sendable)

(* What the peer has received of the handshake, and what waits to be sent. *)
Confirming ==
    \/ peer_out = "closed"
    \/ peer_in = "open" /\ send_buf = "KEEPALIVE"
    \/ peer_in = "keepalive" /\ send_buf \in {Nothing, "UPDATE"}

Handshake ==
    /\ state = "idle" => send_buf = Nothing /\ peer_in = "nothing"
    /\ state = "open_sent" => send_buf = Nothing /\ (peer_in = "open" \/ peer_out = "closed")
    /\ state = "open_confirm" =>
          peer_open /= NoOpen /\ send_buf \in {Nothing, "KEEPALIVE"} /\ Confirming
    /\ state = "established" =>
          peer_open /= NoOpen /\ peer_out \in Confirmed /\ (Confirming \/ peer_in = "error")

(* What a peer that is not giving up has sent to a daemon that waits for   *)
(* its OPEN: that OPEN, and then perhaps one KEEPALIVE.                    *)
Ends(w) == IF w[1].part = "whole" THEN 1 ELSE 2
Opening(w, said) ==
    \/ said = "nothing" /\ w = <<>>
    \/ /\ said \in {"open", "keepalive"} /\ Len(w) >= Ends(w) /\ w /= <<>>
       /\ w[1].msg.kind \in {"OPEN", "BAD_OPEN"} /\ w[1].part \in {"whole", "first"}
       /\ w[1].part = "first" => w[2].msg = w[1].msg /\ w[2].part = "last"
       /\ Len(w) <= Ends(w) + 2 /\ (said = "open" => Len(w) = Ends(w))
       /\ \A i \in Ends(w) + 1 .. Len(w) : w[i].msg.kind = "KEEPALIVE"
       /\ Len(w) = Ends(w) + 2 => w[Ends(w) + 1].part = "first"

(* Nothing of it is gone; a first half that has been read is still kept by *)
(* the transport, which returns it once more and so makes the frame bad.   *)
Repeated ==
    /\ pc = "decode" /\ Len(recv_buf) = 2
    /\ recv_buf[1].part = "first" /\ recv_buf[2] = recv_buf[1]

OpenAwaited ==
    /\ state = "idle" => recv_buf = <<>> /\ chunk = <<>>
    /\ state \in {"idle", "open_sent"} /\ peer_out \notin {"ending", "closed"} =>
          \/ /\ Opening(recv_buf \o wire, peer_out)
             /\ chunk = recv_buf /\ (pc /= "decode" => Incomplete)
          \/ Repeated

(* The two timers: what is left of the hold time and the silence make up   *)
(* the whole; a keepalive is due before its interval is exceeded.          *)
HoldCounted ==
    state = "established" /\ negotiated_hold_time > 0 /\ recv_buf = <<>> =>
        hold_left + unheard >= negotiated_hold_time

KeepaliveCounted ==
    state = "established" /\ negotiated_hold_time >= 3 =>
        /\ pending_keepalive
        /\ keepalive_interval >= 1 /\ 3 * keepalive_interval <= negotiated_hold_time
        /\ unsent <= keepalive_age /\ keepalive_age <= keepalive_interval
        /\ pc /= "top" \/ ran => keepalive_age < keepalive_interval

IInv ==
    /\ TypeOK
    /\ Control
    /\ Buffers
    /\ Handshake
    /\ OpenAwaited
    /\ OpenFromItsOwnBytes
    /\ HoldCounted
    /\ KeepaliveCounted

-----------------------------------------------------------------------------
(* Sequences                                                               *)

LEMMA PartOfSeq ==
    ASSUME NEW S, NEW s \in Seq(S), NEW m \in Nat \ {0}, NEW n \in Nat, n <= Len(s)
    PROVE  SubSeq(s, m, n) \in Seq(S)
<1>1. \A i \in m .. n : s[i] \in S
  BY ElementOfSeq
<1> QED
  BY <1>1, SubSeqProperties

\* what is split at n is whole when it is joined again
LEMMA SplitAndJoin ==
    ASSUME NEW S, NEW s \in Seq(S), NEW n \in 1 .. Len(s)
    PROVE  /\ SubSeq(s, 1, n) \in Seq(S) /\ SubSeq(s, n + 1, Len(s)) \in Seq(S)
           /\ SubSeq(s, 1, n) \o SubSeq(s, n + 1, Len(s)) = s
           /\ SubSeq(s, 1, n) /= <<>>
<1>1. Len(s) \in Nat
  BY LenProperties
<1>2. SubSeq(s, 1, n) \o SubSeq(s, n + 1, Len(s)) = SubSeq(s, 1, Len(s))
  BY <1>1, ConcatAdjacentSubSeq
<1>3. SubSeq(s, 1, n) \in Seq(S) /\ SubSeq(s, n + 1, Len(s)) \in Seq(S)
  BY <1>1, PartOfSeq
<1>4. Len(SubSeq(s, 1, n)) = n
  <2>1. \A i \in 1 .. n : s[i] \in S
    BY <1>1, ElementOfSeq
  <2> QED
    BY <1>1, <2>1, SubSeqProperties
<1> QED
  BY <1>1, <1>2, <1>3, <1>4, SubSeqFull

-----------------------------------------------------------------------------
(* The buffers                                                             *)

LEMMA PiecesOfPeer ==
    /\ \A m \in Messages, p \in {"whole", "first", "last"} :
          Piece(m, p) \in Pieces /\ Piece(m, p).msg = m /\ Piece(m, p).part = p
    /\ \A h \in PeerHolds : [kind |-> "OPEN", hold |-> h] \in Messages
    /\ \A k \in {"BAD_OPEN", "KEEPALIVE", "UPDATE", "NOTIFICATION"} :
          [kind |-> k] \in Messages /\ [kind |-> k].kind = k
  BY DEF Piece, Pieces, Messages

LEMMA BuffersTyped ==
    ASSUME Buffers
    PROVE  BufferTypes
<1>1. Sendable \subseteq Pieces
  BY DEF Sendable
<1> QED
  BY <1>1, SeqMonotonic DEF Buffers, BufferTypes

\* the frame at the front was sent by the peer, and so was the rest
LEMMA FrameSent ==
    ASSUME Buffers, Complete
    PROVE  /\ Len(recv_buf) \in Nat /\ Len(recv_buf) >= 1
           /\ Frame \in Messages
           /\ Frame.kind = "OPEN" => Frame.hold \in PeerHolds
           /\ Frame.kind \in {"KEEPALIVE", "UPDATE"} => peer_out \in Confirmed
           /\ Rest \in Seq(Sendable)
<1>1. recv_buf \in Seq(Sendable) /\ recv_buf /= <<>>
  BY DEF Buffers, Complete
<1>2. Len(recv_buf) \in Nat /\ Len(recv_buf) >= 1
  BY <1>1, EmptySeq, LenProperties
<1>3. recv_buf[1] \in Sendable
  BY <1>1, <1>2, ElementOfSeq
<1>4. Frame \in Messages
  BY <1>3 DEF Frame, Sendable, Pieces
<1>5. Rest \in Seq(Sendable)
  BY <1>1, <1>2, PartOfSeq DEF Rest
<1>6. Frame.kind = "OPEN" => Frame.hold \in PeerHolds
  BY <1>4 DEF Messages
<1> QED
  BY <1>2, <1>3, <1>4, <1>5, <1>6 DEF Sendable, Frame

-----------------------------------------------------------------------------
(* The opening of the peer                                                 *)

LEMMA FrontOfStream ==
    ASSUME Buffers
    PROVE  /\ recv_buf \o wire \in Seq(Sendable)
           /\ Len(recv_buf) \in Nat /\ Len(wire) \in Nat
           /\ Len(recv_buf \o wire) = Len(recv_buf) + Len(wire)
           /\ \A i \in 1 .. Len(recv_buf) : (recv_buf \o wire)[i] = recv_buf[i]
           /\ (recv_buf /= <<>> => Len(recv_buf) >= 1) /\ (Len(recv_buf) >= 1 => recv_buf /= <<>>)
<1>1. recv_buf \in Seq(Sendable) /\ wire \in Seq(Sendable)
  BY DEF Buffers
<1>2. Len(recv_buf) \in Nat /\ Len(wire) \in Nat
  BY <1>1, LenProperties
<1>3. (recv_buf /= <<>> => Len(recv_buf) >= 1) /\ (Len(recv_buf) >= 1 => recv_buf /= <<>>)
  BY <1>1, <1>2, EmptySeq
<1> QED
  BY <1>1, <1>2, <1>3, ConcatProperties

\* the frame that is decoded is the peer's OPEN, and what follows it is at
\* most a KEEPALIVE, whole or in two pieces
LEMMA OpeningDecoded ==
    ASSUME Buffers, Complete, Opening(recv_buf \o wire, peer_out)
    PROVE  Frame.kind \in {"OPEN", "BAD_OPEN"} /\ ~MayBeGarbled
<1> DEFINE w == recv_buf \o wire
           e == Ends(w)
<1>1. /\ Len(recv_buf) \in Nat /\ Len(wire) \in Nat /\ Len(w) = Len(recv_buf) + Len(wire)
      /\ \A i \in 1 .. Len(recv_buf) : w[i] = recv_buf[i]
      /\ Len(recv_buf) >= 1
  BY FrontOfStream DEF Complete
<1>2. w[1] = recv_buf[1]
  BY <1>1
<1>3. w /= <<>>
  <2>1. w \in Seq(Sendable)
    BY FrontOfStream
  <2> QED
    BY <1>1, <2>1, EmptySeq
<1>4. /\ w[1].msg.kind \in {"OPEN", "BAD_OPEN"} /\ w[1].part \in {"whole", "first"}
      /\ Len(w) <= e + 2
      /\ \A i \in e + 1 .. Len(w) : w[i].msg.kind = "KEEPALIVE"
      /\ Len(w) = e + 2 => w[e + 1].part = "first"
  BY <1>3 DEF Opening
<1>5. e \in {1, 2} /\ e <= Len(recv_buf) /\ Rest = SubSeq(recv_buf, e + 1, Len(recv_buf))
  BY <1>1, <1>2, <1>4 DEF Ends, Complete, Rest
<1> HIDE DEF w, e
<1>6. /\ Len(Rest) = Len(recv_buf) - e
      /\ \A i \in 1 .. Len(Rest) : Rest[i] = w[e + i]
  <2>1. recv_buf \in Seq(Sendable)
    BY DEF Buffers
  <2>2. \A i \in e + 1 .. Len(recv_buf) : recv_buf[i] \in Sendable
    BY <2>1, <1>1, <1>5, ElementOfSeq
  <2>3. /\ Len(Rest) = IF e + 1 <= Len(recv_buf) THEN Len(recv_buf) - (e + 1) + 1 ELSE 0
        /\ \A i \in 1 .. Len(recv_buf) - (e + 1) + 1 : Rest[i] = recv_buf[e + 1 + i - 1]
    BY <1>1, <1>5, <2>2, SubSeqProperties
  <2>4. Len(Rest) = Len(recv_buf) - e
    BY <1>1, <1>5, <2>3
  <2>5. ASSUME NEW i \in 1 .. Len(Rest) PROVE Rest[i] = w[e + i]
    <3>1. Rest[i] = recv_buf[e + i] /\ e + i \in 1 .. Len(recv_buf)
      BY <1>1, <1>5, <2>3, <2>4
    <3> QED
      BY <1>1, <3>1
  <2> QED
    BY <2>4, <2>5
<1>7. Len(Rest) \in Nat /\ Len(Rest) <= 2 /\ (Len(Rest) = 2 => Rest[1].part = "first")
  <2>1. Len(Rest) \in Nat /\ Len(Rest) <= Len(w) - e
    BY <1>1, <1>5, <1>6
  <2>2. Len(Rest) = 2 => Len(w) = e + 2 /\ Rest[1] = w[e + 1]
    BY <1>1, <1>4, <1>5, <1>6, <2>1
  <2> QED
    BY <1>1, <1>4, <1>5, <2>1, <2>2
<1>8. \A p \in ToSet(Rest) : p.msg.kind = "KEEPALIVE"
  <2>1. Rest \in Seq(Sendable)
    BY FrameSent
  <2>2. DOMAIN Rest = 1 .. Len(Rest)
    BY <2>1, LenProperties
  <2>3. ASSUME NEW i \in 1 .. Len(Rest) PROVE Rest[i].msg.kind = "KEEPALIVE"
    <3>1. Rest[i] = w[e + i] /\ e + i \in e + 1 .. Len(w)
      BY <1>1, <1>5, <1>6, <1>7
    <3> QED
      BY <1>4, <3>1
  <2> QED
    BY <2>2, <2>3 DEF ToSet
<1>9. OneMessage
  <2>1. \A n \in Nat : n <= 2 => n <= 1 \/ n = 2
    OBVIOUS
  <2> QED
    BY <1>7, <2>1, Zenon DEF OneMessage
<1>10. Frame.kind \in {"OPEN", "BAD_OPEN"}
  <2>1. w[1].msg.kind \in {"OPEN", "BAD_OPEN"}
    BY <1>4
  <2> QED
    BY <1>2, <2>1 DEF Frame
<1>11. ~MayBeGarbled
  BY <1>8, <1>9 DEF MayBeGarbled
<1> QED
  BY <1>10, <1>11

-----------------------------------------------------------------------------
(* Times                                                                   *)

LEMMA UpBounds ==
    ASSUME NEW t \in 0 .. HoldTime
    PROVE  Up(t) \in 0 .. HoldTime /\ t <= Up(t) /\ Up(t) <= t + 1
           /\ (t < HoldTime => Up(t) = t + 1)
  BY TimesAssumption DEF Up, Smaller, Longest

LEMMA UpMonotonic ==
    ASSUME NEW t \in 0 .. HoldTime, NEW u \in 0 .. HoldTime, t <= u
    PROVE  Up(t) <= Up(u)
  BY TimesAssumption DEF Up, Smaller, Longest

\* the interval is at most a third of the hold time, and none for less than 3
LEMMA IntervalBounds ==
    ASSUME NEW h \in Nat
    PROVE  /\ calcKeepaliveInterval(KeepaliveTime, h) \in 0 .. h
           /\ h >= 3 => /\ calcKeepaliveInterval(KeepaliveTime, h) >= 1
                        /\ 3 * calcKeepaliveInterval(KeepaliveTime, h) <= h
<1>1. h \div 3 \in Nat /\ 3 * (h \div 3) <= h /\ (h >= 3 => h \div 3 >= 1)
  OBVIOUS
<1> QED
  BY <1>1, TimesAssumption DEF calcKeepaliveInterval

-----------------------------------------------------------------------------
(* Steps that do not touch the buffers                                     *)

LEMMA UnmovedKept ==
    ASSUME IInv, UNCHANGED <<recv_buf, chunk, wire, peer_out>>,
           state' = "idle" => state = "idle",
           state' = "open_sent" => state \in {"idle", "open_sent"},
           pc = "decode" => pc' = "decode" \/ Incomplete \/ state' \notin {"idle", "open_sent"}
    PROVE  Buffers' /\ OpenAwaited' /\ BufferTypes'
<1>1. Buffers'
  BY DEF IInv, Buffers, Sendable
<1>2. BufferTypes'
  BY BuffersTyped DEF IInv, BufferTypes
<1>3. OpenAwaited'
  <2>1. state' = "idle" => recv_buf' = <<>> /\ chunk' = <<>>
    BY DEF IInv, OpenAwaited
  <2>2. ASSUME state' \in {"idle", "open_sent"}, peer_out' \notin {"ending", "closed"}
        PROVE  \/ /\ Opening(recv_buf \o wire, peer_out)'
                  /\ chunk' = recv_buf' /\ (pc' /= "decode" => Incomplete')
               \/ Repeated'
    <3>1. CASE Repeated
      <4>1. ~Incomplete
        BY <3>1, FrontOfStream DEF IInv, Repeated, Incomplete
      <4> QED
        BY <2>2, <3>1, <4>1 DEF Repeated
    <3>2. CASE Opening(recv_buf \o wire, peer_out) /\ chunk = recv_buf /\ (pc /= "decode" => Incomplete)
      <4>1. Opening(recv_buf \o wire, peer_out)'
        BY <3>2 DEF Opening, Ends
      <4>2. pc' /= "decode" => Incomplete'
        BY <2>2, <3>2 DEF Incomplete
      <4> QED
        BY <3>2, <4>1, <4>2
    <3> QED
      BY <2>2, <3>1, <3>2 DEF IInv, OpenAwaited
  <2> QED
    BY <2>1, <2>2 DEF OpenAwaited
<1> QED
  BY <1>1, <1>2, <1>3

LEMMA InitIInv == Init => IInv
<1> SUFFICES ASSUME Init PROVE IInv
  OBVIOUS
<1> USE TimesAssumption, BoundsAssumption DEF Init
<1>1. \A S : <<>> \in Seq(S)
  BY EmptySeq
<1>2. Buffers
  BY <1>1 DEF Buffers
<1>3. TypeOK
  <2>1. pending_keepalive \in BOOLEAN /\ pending_update \in BOOLEAN /\ ran \in BOOLEAN
    OBVIOUS
  <2>2. /\ negotiated_hold_time \in 0 .. HoldTime /\ keepalive_interval \in 0 .. HoldTime
        /\ keepalive_age \in 0 .. Longest /\ hold_left \in 0 .. HoldTime
        /\ export_batch_index \in 0 .. Batches
        /\ unheard \in 0 .. Longest /\ unsent \in 0 .. Longest
    BY DEF Longest
  <2> QED
    BY <1>1, <2>1, <2>2 DEF TypeOK, Held
<1>4. OpenAwaited
  <2>1. Len(recv_buf \o wire) = 0
    BY <1>2, FrontOfStream, EmptySeq
  <2>2. recv_buf \o wire = <<>>
    BY <1>2, <2>1, FrontOfStream, EmptySeq
  <2> QED
    BY <2>2 DEF OpenAwaited, Opening, Incomplete
<1>5. Control /\ Handshake /\ OpenFromItsOwnBytes /\ HoldCounted /\ KeepaliveCounted
  BY DEF Control, Handshake, OpenFromItsOwnBytes, HoldCounted, KeepaliveCounted
<1> QED
  BY <1>2, <1>3, <1>4, <1>5 DEF IInv

LEMMA RunningKeeps ==
    ASSUME IInv,
           \/ RunHandshake \/ HoldTimerExpires \/ TimersIdle \/ Export
           \/ ReceiveNothing \/ ConnectionClosed \/ NoMoreFrames \/ BadFrame \/ NoDelta
    PROVE  IInv'
<1> USE DEF IInv
<1> DEFINE Rest5 == Control' /\ Handshake' /\ OpenFromItsOwnBytes' /\ HoldCounted' /\ KeepaliveCounted'
<1>1. CASE RunHandshake
  <2> USE <1>1 DEF RunHandshake, in, agreed, timers, peer, clock
  <2>1. Buffers' /\ OpenAwaited' /\ BufferTypes'
    BY UnmovedKept
  <2>2. TypeOK'
    <3>1. pending_update' \in BOOLEAN
      BY DEF TypeOK
    <3> QED
      BY <2>1, <3>1 DEF TypeOK, BufferTypes, Held
  <2>3. Rest5
    BY DEF Control, Handshake, Confirming, OpenFromItsOwnBytes, HoldCounted, KeepaliveCounted
  <2> QED
    BY <2>1, <2>2, <2>3
<1>2. CASE HoldTimerExpires
  <2> USE <1>2 DEF HoldTimerExpires, Fail, in, agreed, timers, peer, clock
  <2>1. Buffers' /\ OpenAwaited' /\ BufferTypes'
    BY UnmovedKept
  <2>2. TypeOK'
    BY <2>1, ZenonT(60) DEF TypeOK, BufferTypes, Held
  <2>3. Rest5
    BY DEF Control, Handshake, Confirming, OpenFromItsOwnBytes, HoldCounted, KeepaliveCounted
  <2> QED
    BY <2>1, <2>2, <2>3
<1>3. CASE TimersIdle
  <2> USE <1>3 DEF TimersIdle, in, agreed, timers, peer, clock
  <2>1. Buffers' /\ OpenAwaited' /\ BufferTypes'
    BY UnmovedKept
  <2>2. TypeOK'
    <3>1. pending_update' \in BOOLEAN
      BY DEF TypeOK
    <3> QED
      BY <2>1, <3>1 DEF TypeOK, BufferTypes, Held
  <2>3. Control' /\ Handshake' /\ OpenFromItsOwnBytes' /\ HoldCounted'
    BY DEF Control, Handshake, Confirming, OpenFromItsOwnBytes, HoldCounted
  <2>4. KeepaliveCounted'
    BY SMTT(60) DEF KeepaliveCounted, KeepaliveDue, TypeOK
  <2> QED
    BY <2>1, <2>2, <2>3, <2>4
<1>4. CASE Export
  <2> USE <1>4 DEF Export, in, agreed, timers, peer, clock
  <2>1. Buffers' /\ OpenAwaited' /\ BufferTypes'
    BY UnmovedKept
  <2>2. TypeOK'
    <3>1. pending_update' \in BOOLEAN
      BY DEF TypeOK
    <3> QED
      BY <2>1, <3>1 DEF TypeOK, BufferTypes, Held
  <2>3. Rest5
    BY DEF Control, Handshake, Confirming, OpenFromItsOwnBytes, HoldCounted, KeepaliveCounted, Nothing
  <2> QED
    BY <2>1, <2>2, <2>3
<1>5. CASE ReceiveNothing
  <2> USE <1>5 DEF ReceiveNothing, out, in, agreed, timers, peer, clock
  <2>1. Buffers' /\ OpenAwaited' /\ BufferTypes'
    BY UnmovedKept
  <2>2. TypeOK'
    BY <2>1 DEF TypeOK, BufferTypes, Held
  <2>3. Rest5
    BY DEF Control, Handshake, Confirming, OpenFromItsOwnBytes, HoldCounted, KeepaliveCounted
  <2> QED
    BY <2>1, <2>2, <2>3
<1>6. CASE ConnectionClosed
  <2> USE <1>6 DEF ConnectionClosed, Fail, out, in, agreed, timers, peer, clock
  <2>1. Buffers' /\ OpenAwaited' /\ BufferTypes'
    BY UnmovedKept
  <2>2. TypeOK'
    BY <2>1 DEF TypeOK, BufferTypes, Held
  <2>3. Rest5
    BY DEF Control, Handshake, Confirming, OpenFromItsOwnBytes, HoldCounted, KeepaliveCounted
  <2> QED
    BY <2>1, <2>2, <2>3
<1>7. CASE NoMoreFrames
  <2> USE <1>7 DEF NoMoreFrames, out, in, agreed, timers, peer, clock
  <2>1. Buffers' /\ OpenAwaited' /\ BufferTypes'
    BY UnmovedKept
  <2>2. TypeOK'
    BY <2>1 DEF TypeOK, BufferTypes, Held
  <2>3. Rest5
    BY DEF Control, Handshake, Confirming, OpenFromItsOwnBytes, HoldCounted, KeepaliveCounted
  <2> QED
    BY <2>1, <2>2, <2>3
<1>8. CASE BadFrame
  <2> USE <1>8 DEF BadFrame, out, in, agreed, timers, peer, clock
  <2>1. Buffers' /\ OpenAwaited' /\ BufferTypes'
    BY UnmovedKept
  <2>2. TypeOK'
    BY <2>1 DEF TypeOK, BufferTypes, Held
  <2>3. Rest5
    BY DEF Control, Handshake, Confirming, OpenFromItsOwnBytes, HoldCounted, KeepaliveCounted
  <2> QED
    BY <2>1, <2>2, <2>3
<1>9. CASE NoDelta
  <2> USE <1>9 DEF NoDelta, out, in, agreed, timers, peer
  <2>1. Buffers' /\ OpenAwaited' /\ BufferTypes'
    BY UnmovedKept
  <2>2. TypeOK'
    BY <2>1 DEF TypeOK, BufferTypes, Held
  <2>3. Rest5
    BY DEF Control, Handshake, Confirming, OpenFromItsOwnBytes, HoldCounted, KeepaliveCounted
  <2> QED
    BY <2>1, <2>2, <2>3
<1> QED
  BY <1>1, <1>2, <1>3, <1>4, <1>5, <1>6, <1>7, <1>8, <1>9

-----------------------------------------------------------------------------
(* Steps that send: what waited is gone, and the peer is one message on    *)

LEMMA SendEffect ==
    ASSUME TypeOK, NEW m, Send(m)
    PROVE  /\ send_buf' = Nothing /\ unsent' = 0
           /\ peer_in' \in {"nothing", "open", "keepalive", "error"}
           /\ peer_out = "closed" => peer_in' = peer_in
           /\ peer_in = "nothing" /\ m = "OPEN" => peer_out = "closed" \/ peer_in' = "open"
           /\ peer_in = "open" /\ m = "KEEPALIVE" => peer_out = "closed" \/ peer_in' = "keepalive"
           /\ peer_in = "keepalive" /\ m /= "OPEN" => peer_in' = "keepalive"
           /\ peer_in = "error" => peer_in' = "error"
  BY DEF TypeOK, Send, PeerGets

LEMMA SendingKeeps ==
    ASSUME IInv, RunIdle \/ SendKeepalive \/ Flush \/ ApplyDelta
    PROVE  IInv'
<1> USE TimesAssumption DEF IInv
<1>0. 0 \in 0 .. Longest
  BY DEF Longest
<1>1. CASE RunIdle
  <2> USE <1>1 DEF RunIdle, Fail, SendFails, in, agreed, timers
  <2>1. Buffers' /\ OpenAwaited' /\ BufferTypes'
    BY UnmovedKept
  <2>2. \/ /\ send_buf' = Nothing /\ unsent' = 0 /\ state' = "open_sent" /\ pc' = "delta"
           /\ peer_in' \in {"nothing", "open", "keepalive", "error"} /\ ended' = ended
           /\ peer_out = "closed" \/ peer_in' = "open"
        \/ /\ send_buf' = "OPEN" /\ unsent' = unsent /\ peer_in' = peer_in
           /\ state' = "failed" /\ pc' = "top" /\ ended' = "send"
    BY SendEffect DEF Handshake
  <2>3. TypeOK'
    BY <1>0, <2>1, <2>2 DEF TypeOK, BufferTypes, Held
  <2>4. Control' /\ Handshake' /\ OpenFromItsOwnBytes' /\ HoldCounted' /\ KeepaliveCounted'
    BY <2>2 DEF Control, Handshake, OpenFromItsOwnBytes, HoldCounted, KeepaliveCounted
  <2> QED
    BY <2>1, <2>3, <2>4
<1>2. CASE SendKeepalive
  <2> USE <1>2 DEF SendKeepalive, Fail, SendFails, in, agreed
  <2>1. Buffers' /\ OpenAwaited' /\ BufferTypes'
    BY UnmovedKept
  <2>2. \/ /\ send_buf' = Nothing /\ unsent' = 0 /\ state' = state /\ pc' = "export"
           /\ peer_in' \in {"nothing", "open", "keepalive", "error"} /\ ended' = ended
           /\ peer_out = "closed" \/ peer_in' = "keepalive" \/ peer_in' = "error"
        \/ /\ send_buf' = "KEEPALIVE" /\ unsent' = unsent /\ peer_in' = peer_in
           /\ state' = "failed" /\ pc' = "top" /\ ended' = "send"
    BY SendEffect DEF Handshake, Confirming
  <2>3. keepalive_age' = 0 /\ pending_update' = FALSE
    OBVIOUS
  <2>4. TypeOK'
    <3>1. pending_update' \in BOOLEAN
      BY <2>3
    <3> QED
      BY <1>0, <2>1, <2>2, <2>3, <3>1 DEF TypeOK, BufferTypes, Held
  <2>5. Control' /\ Handshake' /\ OpenFromItsOwnBytes' /\ HoldCounted'
    BY <2>2 DEF Control, Handshake, Confirming, OpenFromItsOwnBytes, HoldCounted
  <2>6. KeepaliveCounted'
    <3>1. keepalive_interval \in Nat /\ state = "established"
      BY DEF TypeOK
    <3>2. UNCHANGED <<negotiated_hold_time, keepalive_interval, pending_keepalive>>
      OBVIOUS
    <3> HIDE <1>2
    <3> QED
      BY <2>2, <2>3, <3>1, <3>2 DEF KeepaliveCounted
  <2> QED
    BY <2>1, <2>4, <2>5, <2>6
<1>3. CASE Flush
  <2> USE <1>3 DEF Flush, Fail, SendFails, in, agreed, timers
  <2>1. Buffers' /\ OpenAwaited' /\ BufferTypes'
    <3>1. state' = state \/ state' = "failed"
      BY <1>3, Zenon DEF Flush, Fail
    <3>2. pc = "flush" /\ UNCHANGED <<recv_buf, chunk, wire, peer_out>>
      BY <1>3, Zenon DEF Flush, in
    <3> HIDE <1>3
    <3> QED
      BY <3>1, <3>2, UnmovedKept
  <2>2. \/ /\ send_buf = Nothing /\ UNCHANGED <<send_buf, unsent, peer_in>>
           /\ state' = state /\ pc' = "recv" /\ ended' = ended
        \/ /\ send_buf /= Nothing /\ send_buf' = Nothing /\ unsent' = 0
           /\ state' = state /\ pc' = "recv" /\ ended' = ended
           /\ peer_in' \in {"nothing", "open", "keepalive", "error"}
           /\ peer_out = "closed" => peer_in' = peer_in
           /\ peer_in = "open" /\ send_buf = "KEEPALIVE" => peer_out = "closed" \/ peer_in' = "keepalive"
           /\ peer_in = "keepalive" /\ send_buf /= "OPEN" => peer_in' = "keepalive"
           /\ peer_in = "error" => peer_in' = "error"
        \/ /\ UNCHANGED <<send_buf, unsent, peer_in>>
           /\ state' = "failed" /\ pc' = "top" /\ ended' = "send"
    BY SendEffect
  <2>3. export_batch_index' \in 0 .. Batches
    <3>1. pending_update => export_batch_index < Batches
      BY DEF Control
    <3>2. \/ pending_update /\ export_batch_index' = export_batch_index + 1
          \/ export_batch_index' = export_batch_index + 0
          \/ export_batch_index' = export_batch_index
      BY <1>3, Zenon DEF Flush
    <3> QED
      BY <3>1, <3>2, BoundsAssumption DEF TypeOK
  <2>4. TypeOK'
    BY <1>0, <2>1, <2>2, <2>3 DEF TypeOK, BufferTypes, Held
  <2>5. Control' /\ Handshake' /\ OpenFromItsOwnBytes' /\ HoldCounted'
    BY <2>2 DEF Control, Handshake, Confirming, OpenFromItsOwnBytes, HoldCounted, TypeOK, Nothing
  <2>6. KeepaliveCounted'
    BY <2>2 DEF KeepaliveCounted, TypeOK
  <2> QED
    BY <2>1, <2>4, <2>5, <2>6
<1>4. CASE ApplyDelta
  <2> USE <1>4 DEF ApplyDelta, SendFails, in, agreed, timers
  <2>1. Buffers' /\ OpenAwaited' /\ BufferTypes'
    BY UnmovedKept
  <2>2. /\ peer_in' \in {"nothing", "open", "keepalive", "error"} /\ unsent' \in {0, unsent}
        /\ send_buf' \in {Nothing, "UPDATE"}
        /\ peer_out = "closed" \/ (send_buf' = Nothing /\ peer_in' \in {"keepalive", "error"})
    <3>1. CASE Send("UPDATE")
      BY <3>1 DEF Send, PeerGets, TypeOK, Handshake, Confirming
    <3>2. CASE peer_out = "closed" /\ SendFails /\ send_buf' = "UPDATE"
      BY <3>2 DEF TypeOK
    <3> QED
      BY <3>1, <3>2
  <2>3. TypeOK'
    <3>1. ran' \in BOOLEAN
      BY <1>4, Zenon DEF ApplyDelta
    <3> QED
      BY <1>0, <2>1, <2>2, <3>1 DEF TypeOK, BufferTypes, Held
  <2>4. Control' /\ Handshake' /\ OpenFromItsOwnBytes' /\ HoldCounted'
    BY <2>2 DEF Control, Handshake, Confirming, OpenFromItsOwnBytes, HoldCounted
  <2>5. KeepaliveCounted'
    BY <2>2 DEF KeepaliveCounted, TypeOK
  <2> QED
    BY <2>1, <2>3, <2>4, <2>5
<1> QED
  BY <1>1, <1>2, <1>3, <1>4

-----------------------------------------------------------------------------
(* Reading: what the socket held follows what is in the buffer             *)

LEMMA ReceivingKeeps ==
    ASSUME IInv, Receive \/ ReceiveAgain
    PROVE  IInv'
<1> USE TimesAssumption DEF IInv
<1>0. /\ recv_buf \in Seq(Sendable) /\ chunk \in Seq(Sendable) /\ wire \in Seq(Sendable)
      /\ Len(recv_buf) \in Nat /\ Len(wire) \in Nat
  BY LenProperties DEF Buffers
<1>1. CASE Receive
  <2>1. PICK n \in 1 .. Len(wire) :
           chunk' = SubSeq(wire, 1, n) /\ wire' = SubSeq(wire, n + 1, Len(wire))
    BY <1>1 DEF Receive
  <2>2. /\ chunk' \in Seq(Sendable) /\ wire' \in Seq(Sendable) /\ chunk' \o wire' = wire
        /\ chunk' /= <<>>
    BY <1>0, <2>1, SplitAndJoin
  <2>3. /\ pc = "recv" /\ chunk = <<>> /\ pc' = "decode" /\ unheard' = 0
        /\ recv_buf' = recv_buf \o chunk'
        /\ UNCHANGED <<state, out, agreed, timers, peer, ended, unsent, ran>>
    BY <1>1 DEF Receive
  <2> USE <2>3 DEF out, agreed, timers, peer
  <2>4. recv_buf' \in Seq(Sendable) /\ recv_buf' /= <<>> /\ recv_buf' \o wire' = recv_buf \o wire
    <3>1. recv_buf' = recv_buf \o chunk'
      OBVIOUS
    <3> HIDE <2>3
    <3>2. recv_buf' \in Seq(Sendable)
      BY <1>0, <2>2, <3>1, ConcatProperties
    <3>3. recv_buf' /= <<>>
      BY <1>0, <2>2, <3>1, ConcatEqualIffEmpty
    <3>4. (recv_buf \o chunk') \o wire' = recv_buf \o (chunk' \o wire')
      <4>1. recv_buf \in Seq(Sendable) /\ chunk' \in Seq(Sendable) /\ wire' \in Seq(Sendable)
        BY <1>0, <2>2
      <4> HIDE DEF IInv
      <4> QED
        BY <4>1, ConcatAssociative, SMTT(60)
    <3> QED
      BY <2>2, <3>1, <3>2, <3>3, <3>4, Zenon
  <2>5. Buffers'
    BY <2>2, <2>4 DEF Buffers, Sendable
  <2>6. BufferTypes'
    BY <2>2, <2>4, SeqMonotonic DEF BufferTypes, Sendable
  <2>7. OpenAwaited'
    <3>1. state /= "idle"
      BY DEF Control
    <3>2. ASSUME state = "open_sent", peer_out \notin {"ending", "closed"}
          PROVE  Opening(recv_buf \o wire, peer_out) /\ recv_buf = <<>>
      BY <3>2 DEF OpenAwaited, Repeated
    <3>3. ASSUME state = "open_sent", peer_out \notin {"ending", "closed"}
          PROVE  Opening(recv_buf \o wire, peer_out)' /\ chunk' = recv_buf'
      <4>1. Opening(recv_buf \o wire, peer_out)'
        BY <2>4, <3>2, <3>3, ZenonT(60) DEF Opening, Ends
      <4>2. <<>> \o chunk' = chunk'
        BY <2>2, ConcatEmptySeq
      <4> QED
        BY <3>2, <3>3, <4>1, <4>2
    <3> QED
      BY <3>1, <3>3 DEF OpenAwaited
  <2>8. TypeOK'
    <3>1. unheard' \in 0 .. Longest
      BY DEF Longest
    <3> QED
      BY <2>6, <3>1 DEF TypeOK, BufferTypes, Held
  <2>9. Control' /\ Handshake' /\ OpenFromItsOwnBytes' /\ HoldCounted' /\ KeepaliveCounted'
    BY <2>4 DEF Control, Handshake, Confirming, OpenFromItsOwnBytes, HoldCounted, KeepaliveCounted
  <2> QED
    BY <2>5, <2>7, <2>8, <2>9
<1>2. CASE ReceiveAgain
  <2> USE <1>2 DEF ReceiveAgain, out, agreed, timers, peer, clock
  <2>1. chunk' \in Seq(Sendable) /\ recv_buf' \in Seq(Sendable) /\ recv_buf' /= <<>>
    <3>1. chunk' = <<>> /\ chunk /= <<>> /\ recv_buf' = recv_buf \o chunk
      OBVIOUS
    <3> HIDE <1>2
    <3> QED
      BY <1>0, <3>1, EmptySeq, ConcatProperties, ConcatEqualIffEmpty
  <2>2. Buffers'
    BY <1>0, <2>1 DEF Buffers, Sendable
  <2>3. BufferTypes'
    BY <1>0, <2>1, SeqMonotonic DEF BufferTypes, Sendable
  <2>4. OpenAwaited'
    <3>1. state /= "idle"
      BY DEF Control
    <3>2. ASSUME state = "open_sent", peer_out \notin {"ending", "closed"}
          PROVE  Repeated'
      <4>1. chunk = recv_buf /\ Incomplete
        BY <3>2 DEF OpenAwaited, Repeated
      <4>2. Len(recv_buf) = 1 /\ recv_buf[1].part = "first"
        BY <4>1 DEF Incomplete
      <4>3. recv_buf' = recv_buf \o recv_buf
        BY <4>1
      <4> HIDE <1>2
      <4>4. Len(recv_buf') = 2 /\ recv_buf'[1] = recv_buf[1] /\ recv_buf'[2] = recv_buf[1]
        <5> DEFINE twice == recv_buf \o recv_buf
        <5>1. /\ Len(twice) = Len(recv_buf) + Len(recv_buf)
              /\ \A i \in 1 .. Len(recv_buf) + Len(recv_buf) :
                    twice[i] = IF i <= Len(recv_buf) THEN recv_buf[i]
                                                     ELSE recv_buf[i - Len(recv_buf)]
          BY <1>0, ConcatProperties
        <5> HIDE DEF twice
        <5>2. Len(twice) = 2 /\ twice[1] = recv_buf[1] /\ twice[2] = recv_buf[1]
          BY <4>2, <5>1
        <5> QED
          BY <4>3, <5>2 DEF twice
      <4>5. pc' = "decode"
        BY <1>2
      <4> QED
        BY <4>2, <4>4, <4>5 DEF Repeated
    <3> QED
      BY <3>1, <3>2 DEF OpenAwaited
  <2>5. TypeOK'
    BY <2>3 DEF TypeOK, BufferTypes, Held
  <2>6. Control' /\ Handshake' /\ OpenFromItsOwnBytes' /\ HoldCounted' /\ KeepaliveCounted'
    BY <2>1 DEF Control, Handshake, Confirming, OpenFromItsOwnBytes, HoldCounted, KeepaliveCounted
  <2> QED
    BY <2>2, <2>4, <2>5, <2>6
<1> QED
  BY <1>1, <1>2


-----------------------------------------------------------------------------
(* Handling a frame                                                        *)

\* no frame but its OPEN comes from a peer that is not giving up
LEMMA OpeningFirst ==
    ASSUME IInv, Complete, state = "open_sent", peer_out \notin {"ending", "closed"}
    PROVE  Frame.kind \in {"OPEN", "BAD_OPEN"} /\ ~MayBeGarbled
<1>1. ~Repeated
  BY DEF Repeated, Complete
<1>2. Opening(recv_buf \o wire, peer_out)
  BY <1>1 DEF IInv, OpenAwaited
<1> QED
  BY <1>2, OpeningDecoded DEF IInv

LEMMA DecodedKept ==
    ASSUME IInv, Decoded, UNCHANGED <<chunk, wire, peer_out>>, state' /= "idle",
           state' /= "open_sent" \/ peer_out \in {"ending", "closed"}
    PROVE  Buffers' /\ OpenAwaited' /\ BufferTypes'
<1>1. recv_buf' \in Seq(Sendable) /\ chunk' \in Seq(Sendable) /\ wire' \in Seq(Sendable)
  BY FrameSent DEF IInv, Decoded, Buffers
<1>2. Buffers'
  BY <1>1 DEF Buffers, Sendable
<1>3. BufferTypes'
  BY <1>1, SeqMonotonic DEF BufferTypes, Sendable
<1>4. OpenAwaited'
  BY DEF OpenAwaited
<1> QED
  BY <1>2, <1>3, <1>4

LEMMA HandlingKeeps ==
    ASSUME IInv,
           \/ HandleOpen \/ RefuseOpen \/ HandleFirstKeepalive
           \/ HandleEstablished \/ HandleNotification \/ Ignore
    PROVE  IInv'
<1> USE TimesAssumption DEF IInv
<1>0. Decoded /\ pc = "decode" /\ Complete
  BY DEF HandleOpen, RefuseOpen, HandleFirstKeepalive, HandleEstablished, HandleNotification,
         Ignore, Decoded
<1>1. /\ Frame.kind = "OPEN" => Frame.hold \in PeerHolds
      /\ Frame.kind \in {"KEEPALIVE", "UPDATE"} => peer_out \in Confirmed
  BY <1>0, FrameSent
<1>2. CASE HandleOpen
  <2> USE <1>2 DEF HandleOpen, timers, peer, clock
  <2>1. Buffers' /\ OpenAwaited' /\ BufferTypes'
    BY <1>0, DecodedKept
  <2>2. /\ state = "open_sent" /\ state' = "open_confirm" /\ send_buf' = "KEEPALIVE"
        /\ peer_open' = <<Frame.hold>> /\ pc' = "decode"
    BY <1>0
  <2>3. TypeOK'
    <3>1. peer_open' \in {NoOpen} \cup {<<h>> : h \in PeerHolds}
      BY <1>1
    <3> QED
      BY <2>1, <2>2, <3>1 DEF TypeOK, BufferTypes, Held
  <2>4. peer_open' /= NoOpen
    BY <2>2 DEF NoOpen
  <2>5. Control' /\ Handshake' /\ OpenFromItsOwnBytes' /\ HoldCounted' /\ KeepaliveCounted'
    BY <2>2, <2>4 DEF Control, Handshake, Confirming, OpenFromItsOwnBytes, HoldCounted,
                      KeepaliveCounted
  <2> QED
    BY <2>1, <2>3, <2>5
<1>3. CASE RefuseOpen
  <2> USE <1>3 DEF RefuseOpen, Fail, out, agreed, timers, peer, clock
  <2>1. Buffers' /\ OpenAwaited' /\ BufferTypes'
    BY <1>0, DecodedKept
  <2>2. TypeOK'
    BY <2>1 DEF TypeOK, BufferTypes, Held
  <2>3. OpenFromItsOwnBytes'
    BY <1>0, OpeningFirst DEF OpenFromItsOwnBytes
  <2>4. Control' /\ Handshake' /\ HoldCounted' /\ KeepaliveCounted'
    BY DEF Control, Handshake, Confirming, HoldCounted, KeepaliveCounted
  <2> QED
    BY <2>1, <2>2, <2>3, <2>4
<1>4. CASE HandleFirstKeepalive
  <2> DEFINE h == negotiated_hold_time'
             k == keepalive_interval'
  <2>1. /\ state = "open_confirm" /\ Frame.kind = "KEEPALIVE"
        /\ state' = "established" /\ pc' = "delta" /\ unsent' = 0
        /\ h = Smaller(HoldTime, IF peer_open = NoOpen THEN HoldTime ELSE peer_open[1])
        /\ k = calcKeepaliveInterval(KeepaliveTime, h) /\ hold_left' = h
        /\ UNCHANGED <<out, chunk, peer_open, wire, peer, ended, unheard, ran>>
    BY <1>4 DEF HandleFirstKeepalive
  <2>2. IF k = 0 THEN UNCHANGED <<pending_keepalive, keepalive_age>>
                 ELSE pending_keepalive' = TRUE /\ keepalive_age' = 0
    BY <1>4 DEF HandleFirstKeepalive
  <2> USE <2>1 DEF out, peer
  <2>3. Buffers' /\ OpenAwaited' /\ BufferTypes'
    BY <1>0, DecodedKept
  <2>4. h \in 0 .. HoldTime
    <3>1. peer_open = NoOpen \/ peer_open[1] \in Nat
      BY DEF TypeOK, NoOpen
    <3> QED
      BY <2>1, <3>1 DEF Smaller
  <2>5. k \in 0 .. HoldTime /\ k \in 0 .. h /\ (h >= 3 => k >= 1 /\ 3 * k <= h)
    BY <2>1, <2>4, IntervalBounds
  <2> HIDE DEF h, k
  <2>6. TypeOK'
    <3>1. pending_keepalive' \in BOOLEAN /\ keepalive_age' \in 0 .. Longest
      <4>1. 0 \in 0 .. Longest
        BY DEF Longest
      <4> QED
        BY <2>2, <4>1, Zenon DEF TypeOK
    <3>2. h \in 0 .. HoldTime /\ k \in 0 .. HoldTime /\ hold_left' \in 0 .. HoldTime
          /\ unsent' \in 0 .. Longest
      BY <2>4, <2>5 DEF Longest
    <3> QED
      BY <2>1, <2>3, <3>1, <3>2 DEF TypeOK, BufferTypes, Held, h, k
  <2>7. Control' /\ Handshake' /\ OpenFromItsOwnBytes'
    BY <1>1 DEF Control, Handshake, Confirming, OpenFromItsOwnBytes
  <2>8. HoldCounted'
    BY <2>4 DEF HoldCounted, TypeOK, Longest, h
  <2>9. KeepaliveCounted'
    <3>1. ASSUME h >= 3 PROVE pending_keepalive' /\ keepalive_age' = 0 /\ k >= 1 /\ 3 * k <= h /\ k \in Nat
      BY <2>2, <2>4, <2>5, <3>1
    <3> QED
      BY <2>1, <3>1 DEF KeepaliveCounted, h, k
  <2> QED
    BY <2>3, <2>6, <2>7, <2>8, <2>9
<1>5. CASE HandleEstablished
  <2> USE <1>5 DEF HandleEstablished, out, agreed, peer, clock
  <2>1. Buffers' /\ OpenAwaited' /\ BufferTypes'
    BY <1>0, DecodedKept
  <2>2. TypeOK'
    BY <2>1 DEF TypeOK, BufferTypes, Held
  <2>3. HoldCounted'
    BY DEF HoldCounted, TypeOK, Longest
  <2>4. Control' /\ Handshake' /\ OpenFromItsOwnBytes' /\ KeepaliveCounted'
    BY DEF Control, Handshake, Confirming, OpenFromItsOwnBytes, KeepaliveCounted
  <2> QED
    BY <2>1, <2>2, <2>3, <2>4
<1>6. CASE HandleNotification
  <2> USE <1>6 DEF HandleNotification, Fail, out, agreed, peer, clock
  <2>1. Buffers' /\ OpenAwaited' /\ BufferTypes'
    BY <1>0, DecodedKept
  <2>2. TypeOK'
    <3>1. hold_left' \in 0 .. HoldTime
      BY DEF TypeOK
    <3> QED
      BY <2>1, <3>1 DEF TypeOK, BufferTypes, Held
  <2>3. Control' /\ Handshake' /\ OpenFromItsOwnBytes' /\ HoldCounted' /\ KeepaliveCounted'
    BY DEF Control, Handshake, Confirming, OpenFromItsOwnBytes, HoldCounted, KeepaliveCounted
  <2> QED
    BY <2>1, <2>2, <2>3
<1>7. CASE Ignore
  <2> USE <1>7 DEF Ignore, out, agreed, timers, peer, clock
  <2>0. state \in {"open_sent", "open_confirm"}
        /\ (state = "open_sent" => Frame.kind \in {"KEEPALIVE", "UPDATE"})
    OBVIOUS
  <2>1. Buffers' /\ OpenAwaited' /\ BufferTypes'
    <3>1. state = "open_confirm" \/ peer_out \in {"ending", "closed"}
      BY <1>0, <2>0, OpeningFirst
    <3> QED
      BY <1>0, <2>0, <3>1, DecodedKept
  <2>2. TypeOK'
    BY <2>1 DEF TypeOK, BufferTypes, Held
  <2>3. Control' /\ Handshake' /\ OpenFromItsOwnBytes' /\ HoldCounted' /\ KeepaliveCounted'
    BY <2>0 DEF Control, Handshake, Confirming, OpenFromItsOwnBytes, HoldCounted, KeepaliveCounted
  <2> QED
    BY <2>1, <2>2, <2>3
<1> QED
  BY <1>2, <1>3, <1>4, <1>5, <1>6, <1>7


-----------------------------------------------------------------------------
(* The next connection, the peer and the clock                             *)

LEMMA ConnectionsKeep ==
    ASSUME IInv, Reconnect \/ TakePassive
    PROVE  IInv'
<1> USE TimesAssumption, BoundsAssumption DEF IInv
<1>1. /\ pc = "top" /\ pc' = "top" /\ FreshConnection
      /\ export_batch_index' \in 0 .. Batches /\ pending_update' = pending_update
  BY DEF Reconnect, TakePassive, TypeOK
<1> USE DEF FreshConnection
<1>2. \A S : <<>> \in Seq(S)
  BY EmptySeq
<1>3. Buffers' /\ BufferTypes'
  BY <1>1, <1>2 DEF Buffers, BufferTypes
<1>4. OpenAwaited'
  <2>1. recv_buf' \o wire' = <<>>
    BY <1>1, <1>2, ConcatEmptySeq
  <2> QED
    BY <1>1, <2>1 DEF OpenAwaited, Opening, Incomplete
<1>5. TypeOK'
  <2>1. pending_keepalive' \in BOOLEAN /\ ran' \in BOOLEAN
    BY <1>1
  <2>2. /\ negotiated_hold_time' \in 0 .. HoldTime /\ keepalive_interval' \in 0 .. HoldTime
        /\ keepalive_age' \in 0 .. Longest /\ hold_left' \in 0 .. HoldTime
        /\ unheard' \in 0 .. Longest /\ unsent' \in 0 .. Longest
    BY <1>1 DEF Longest
  <2> QED
    BY <1>1, <1>3, <2>1, <2>2 DEF TypeOK, BufferTypes, Held
<1>6. Control' /\ Handshake' /\ OpenFromItsOwnBytes' /\ HoldCounted' /\ KeepaliveCounted'
  BY <1>1 DEF Control, Handshake, OpenFromItsOwnBytes, HoldCounted, KeepaliveCounted
<1> QED
  BY <1>3, <1>4, <1>5, <1>6

\* a message is in one piece or in two
LEMMA WholeOrHalves ==
    ASSUME NEW m, NEW pieces \in Cut(m)
    PROVE  /\ \/ pieces = <<Piece(m, "whole")>>
              \/ pieces = <<Piece(m, "first"), Piece(m, "last")>>
           /\ \A S : (\A p \in {"whole", "first", "last"} : Piece(m, p) \in S) => pieces \in Seq(S)
<1>1. pieces = <<Piece(m, "whole")>> \/ pieces = <<Piece(m, "first"), Piece(m, "last")>>
  BY Zenon DEF Cut
<1>2. \A S : \A a, b \in S : <<a>> \in Seq(S) /\ <<a, b>> \in Seq(S)
  OBVIOUS
<1>3. ASSUME NEW S, \A p \in {"whole", "first", "last"} : Piece(m, p) \in S
      PROVE  pieces \in Seq(S)
  <2>1. Piece(m, "whole") \in S /\ Piece(m, "first") \in S /\ Piece(m, "last") \in S
    BY <1>3
  <2> HIDE DEF Piece
  <2> QED
    BY <1>1, <1>2, <2>1, Zenon
<1> QED
  BY <1>1, <1>3, Zenon

\* what the peer sends may come from it, and it never takes anything back
LEMMA PeerSendsSound ==
    ASSUME IInv, NEW m \in Messages, PeerSends(m),
           peer_out \in Confirmed => peer_out' \in Confirmed,
           m.kind \in {"KEEPALIVE", "UPDATE"} => peer_out' \in Confirmed
    PROVE  /\ Buffers' /\ BufferTypes'
           /\ \E pieces \in Cut(m) : /\ pieces \in Seq(Sendable') /\ pieces \in Seq(Pieces)
                                     /\ wire' = wire \o pieces
<1>1. UNCHANGED <<recv_buf, chunk>>
  BY DEF PeerSends, in
<1>2. Sendable \subseteq Sendable'
  BY DEF Sendable
<1>3. recv_buf \in Seq(Sendable') /\ chunk \in Seq(Sendable') /\ wire \in Seq(Sendable')
  <2>1. recv_buf \in Seq(Sendable) /\ chunk \in Seq(Sendable) /\ wire \in Seq(Sendable)
    BY DEF IInv, Buffers
  <2> QED
    BY <1>2, <2>1, SeqMonotonic
<1>4. ASSUME NEW pieces \in Cut(m)
      PROVE  pieces \in Seq(Sendable')
  <2>1. \A p \in {"whole", "first", "last"} : Piece(m, p) \in Sendable'
    BY PiecesOfPeer DEF Sendable
  <2> QED
    BY <2>1, WholeOrHalves
<1>5. PICK pieces \in Cut(m) : wire' = wire \o pieces
  BY DEF PeerSends
<1>6. pieces \in Seq(Sendable')
  BY <1>4
<1>7. wire' \in Seq(Sendable')
  BY <1>3, <1>5, <1>6, ConcatProperties
<1>8. Buffers'
  BY <1>1, <1>3, <1>7 DEF Buffers
<1>9. Sendable' \subseteq Pieces
  BY DEF Sendable
<1>10. BufferTypes'
  BY <1>8, <1>9, SeqMonotonic DEF Buffers, BufferTypes
<1>11. pieces \in Seq(Pieces)
  BY <1>6, <1>9, SeqMonotonic
<1> QED
  BY <1>5, <1>6, <1>8, <1>10, <1>11

LEMMA PeerSendsKeeps ==
    ASSUME IInv, NEW m \in Messages, PeerSends(m),
           peer_out \in {"nothing", "open", "keepalive"},
           peer_out' \in {"open", "keepalive", "ending"},
           peer_out \in Confirmed => peer_out' \in Confirmed,
           m.kind \in {"KEEPALIVE", "UPDATE"} => peer_out' \in Confirmed
    PROVE  /\ TypeOK' /\ Control' /\ Buffers' /\ Handshake'
           /\ OpenFromItsOwnBytes' /\ HoldCounted' /\ KeepaliveCounted'
<1>1. Buffers' /\ BufferTypes'
  BY PeerSendsSound
<1>2. UNCHANGED <<pc, state, out, in, agreed, timers, peer_in, ended, clock>>
  BY DEF PeerSends
<1> USE <1>2 DEF IInv, out, in, agreed, timers, clock
<1>3. TypeOK'
  BY <1>1 DEF TypeOK, BufferTypes, Held
<1>4. Control' /\ Handshake'
  BY DEF Control, Handshake, Confirming
<1>5. OpenFromItsOwnBytes' /\ HoldCounted' /\ KeepaliveCounted'
  BY DEF OpenFromItsOwnBytes, HoldCounted, KeepaliveCounted
<1> QED
  BY <1>1, <1>3, <1>4, <1>5

\* the OPEN is the opening, and a KEEPALIVE after it still belongs to it
LEMMA OpeningSent ==
    ASSUME NEW m, m.kind \in {"OPEN", "BAD_OPEN"}, NEW pieces \in Cut(m)
    PROVE  Opening(pieces, "open")
<1>1. CASE pieces = <<Piece(m, "whole")>>
  BY <1>1 DEF Opening, Ends, Piece
<1>2. CASE pieces = <<Piece(m, "first"), Piece(m, "last")>>
  BY <1>2 DEF Opening, Ends, Piece
<1> QED
  BY <1>1, <1>2, WholeOrHalves

LEMMA OpeningConfirmed ==
    ASSUME NEW S, NEW w \in Seq(S), Opening(w, "open"),
           NEW m, m.kind = "KEEPALIVE", NEW pieces \in Cut(m), pieces \in Seq(S)
    PROVE  Opening(w \o pieces, "keepalive")
<1> DEFINE v == w \o pieces
           e == Ends(w)
<1>1. /\ Len(w) \in Nat /\ Len(pieces) \in Nat /\ Len(v) = Len(w) + Len(pieces)
      /\ \A i \in 1 .. Len(w) + Len(pieces) : v[i] = IF i <= Len(w) THEN w[i] ELSE pieces[i - Len(w)]
  BY LenProperties, ConcatProperties
<1>2. /\ Len(w) = e /\ w[1].msg.kind \in {"OPEN", "BAD_OPEN"} /\ w[1].part \in {"whole", "first"}
      /\ w[1].part = "first" => w[2].msg = w[1].msg /\ w[2].part = "last"
      /\ e \in {1, 2} /\ (w[1].part = "first" => e = 2)
  BY DEF Opening, Ends
<1>3. \/ Len(pieces) = 1 /\ pieces[1].msg = m
      \/ Len(pieces) = 2 /\ pieces[1].msg = m /\ pieces[2].msg = m /\ pieces[1].part = "first"
  <2>1. CASE pieces = <<Piece(m, "whole")>>
    BY <2>1 DEF Piece
  <2>2. CASE pieces = <<Piece(m, "first"), Piece(m, "last")>>
    BY <2>2 DEF Piece
  <2> QED
    BY <2>1, <2>2, WholeOrHalves
<1>4. Ends(v) = e /\ v[1] = w[1] /\ (e = 2 => v[2] = w[2])
  BY <1>1, <1>2 DEF Ends
<1>5. v /= <<>>
  <2>1. v \in Seq(S)
    BY ConcatProperties
  <2> QED
    BY <1>1, <1>2, <2>1, EmptySeq
<1> HIDE DEF v, e
<1>6. \A i \in e + 1 .. Len(v) : v[i].msg.kind = "KEEPALIVE"
  BY <1>1, <1>2, <1>3
<1>7. Len(v) = e + 2 => v[e + 1].part = "first"
  BY <1>1, <1>2, <1>3
<1>8. Len(v) >= e /\ Len(v) <= e + 2
  BY <1>1, <1>2, <1>3
<1> QED
  BY <1>2, <1>4, <1>5, <1>6, <1>7, <1>8 DEF Opening, v

\* what is not the opening has not been read, and is followed by what is sent
LEMMA OpeningExtended ==
    ASSUME IInv, NEW m \in Messages, PeerSends(m), state \in {"idle", "open_sent"},
           peer_out \in {"nothing", "open"}, peer_out' \in {"open", "keepalive"},
           \A pieces \in Cut(m) :
              pieces \in Seq(Pieces) /\ Opening(recv_buf \o wire, peer_out)
                 => Opening((recv_buf \o wire) \o pieces, peer_out')
    PROVE  OpenAwaited'
<1>1. UNCHANGED <<pc, state, recv_buf, chunk>>
  BY DEF PeerSends, in
<1>2. CASE Repeated
  <2>1. Repeated'
    BY <1>1, <1>2 DEF Repeated
  <2> QED
    BY <1>1, <2>1 DEF IInv, OpenAwaited
<1>3. CASE ~Repeated
  <2>1. PICK pieces \in Cut(m) : pieces \in Seq(Pieces) /\ wire' = wire \o pieces
    <3>1. \A p \in {"whole", "first", "last"} : Piece(m, p) \in Pieces
      BY PiecesOfPeer
    <3> QED
      BY <3>1, WholeOrHalves DEF PeerSends
  <2>2. recv_buf' \o wire' = (recv_buf \o wire) \o pieces
    <3>1. recv_buf \in Seq(Pieces) /\ wire \in Seq(Pieces)
      BY BuffersTyped DEF IInv, BufferTypes
    <3>2. recv_buf \o (wire \o pieces) = (recv_buf \o wire) \o pieces
      BY <2>1, <3>1, ConcatAssociative, SMTT(60)
    <3> QED
      BY <1>1, <2>1, <3>2, Zenon
  <2>3. Opening(recv_buf \o wire, peer_out) /\ chunk = recv_buf /\ (pc /= "decode" => Incomplete)
    BY <1>3 DEF IInv, OpenAwaited
  <2>4. Opening(recv_buf' \o wire', peer_out')
    BY <2>1, <2>2, <2>3, Zenon
  <2>5. Incomplete' = Incomplete
    BY <1>1 DEF Incomplete
  <2> QED
    BY <1>1, <2>3, <2>4, <2>5 DEF IInv, OpenAwaited
<1> QED
  BY <1>2, <1>3

LEMMA PeerKeeps ==
    ASSUME IInv, Peer
    PROVE  IInv'
<1>0. \A m \in Messages : PeerSends(m) => UNCHANGED <<pc, state, recv_buf, chunk>>
  BY DEF PeerSends, in
<1>1. CASE PeerOpens
  <2>1. peer_out = "nothing" /\ peer_out' = "open"
    BY <1>1 DEF PeerOpens
  <2>2. PICK m \in Messages : m.kind \in {"OPEN", "BAD_OPEN"} /\ PeerSends(m)
    <3>1. CASE \E h \in PeerHolds : PeerSends([kind |-> "OPEN", hold |-> h])
      <4>1. PICK h \in PeerHolds : PeerSends([kind |-> "OPEN", hold |-> h])
        BY <3>1
      <4>2. [kind |-> "OPEN", hold |-> h].kind = "OPEN"
        OBVIOUS
      <4> QED
        BY <4>1, <4>2, PiecesOfPeer
    <3>2. CASE PeerSends([kind |-> "BAD_OPEN"])
      BY <3>2, PiecesOfPeer
    <3> QED
      BY <1>1, <3>1, <3>2 DEF PeerOpens
  <2>3. /\ TypeOK' /\ Control' /\ Buffers' /\ Handshake'
        /\ OpenFromItsOwnBytes' /\ HoldCounted' /\ KeepaliveCounted'
    BY <2>1, <2>2, PeerSendsKeeps DEF Confirmed
  <2>4. OpenAwaited'
    <3>1. CASE state \in {"idle", "open_sent"}
      <4>1. ASSUME NEW pieces \in Cut(m), pieces \in Seq(Pieces), Opening(recv_buf \o wire, peer_out)
            PROVE  Opening((recv_buf \o wire) \o pieces, peer_out')
        <5>1. recv_buf \o wire = <<>>
          BY <2>1, <4>1 DEF Opening
        <5>2. <<>> \o pieces = pieces
          BY <4>1, ConcatEmptySeq
        <5>3. Opening(pieces, "open")
          BY <2>2, OpeningSent
        <5> QED
          BY <2>1, <5>1, <5>2, <5>3, Zenon
      <4> QED
        BY <2>1, <2>2, <3>1, <4>1, OpeningExtended
    <3>2. CASE state \notin {"idle", "open_sent"}
      BY <1>0, <2>2, <3>2 DEF OpenAwaited
    <3> QED
      BY <3>1, <3>2
  <2> QED
    BY <2>3, <2>4 DEF IInv
<1>2. CASE PeerConfirms
  <2> DEFINE m == [kind |-> "KEEPALIVE"]
  <2>1. peer_out = "open" /\ peer_out' = "keepalive" /\ PeerSends(m)
    BY <1>2 DEF PeerConfirms
  <2>2. m \in Messages /\ m.kind = "KEEPALIVE"
    BY PiecesOfPeer
  <2> HIDE DEF m
  <2>3. /\ TypeOK' /\ Control' /\ Buffers' /\ Handshake'
        /\ OpenFromItsOwnBytes' /\ HoldCounted' /\ KeepaliveCounted'
    BY <2>1, <2>2, PeerSendsKeeps DEF Confirmed
  <2>4. OpenAwaited'
    <3>1. CASE state \in {"idle", "open_sent"}
      <4>1. ASSUME NEW pieces \in Cut(m), pieces \in Seq(Pieces), Opening(recv_buf \o wire, peer_out)
            PROVE  Opening((recv_buf \o wire) \o pieces, peer_out')
        <5>1. recv_buf \o wire \in Seq(Pieces)
          BY BuffersTyped, ConcatProperties DEF IInv, BufferTypes
        <5>2. Opening((recv_buf \o wire) \o pieces, "keepalive")
          BY <2>1, <2>2, <4>1, <5>1, OpeningConfirmed
        <5> QED
          BY <2>1, <5>2
      <4> QED
        BY <2>1, <2>2, <3>1, <4>1, OpeningExtended
    <3>2. CASE state \notin {"idle", "open_sent"}
      BY <1>0, <2>1, <2>2, <3>2 DEF OpenAwaited
    <3> QED
      BY <3>1, <3>2
  <2> QED
    BY <2>3, <2>4 DEF IInv
<1>3. CASE PeerTalks
  <2>1. peer_out = "keepalive" /\ peer_out' = "keepalive" /\ peer_in = "keepalive"
    BY <1>3 DEF PeerTalks
  <2>2. PICK m \in Messages : PeerSends(m)
    BY <1>3, PiecesOfPeer DEF PeerTalks
  <2>3. /\ TypeOK' /\ Control' /\ Buffers' /\ Handshake'
        /\ OpenFromItsOwnBytes' /\ HoldCounted' /\ KeepaliveCounted'
    BY <2>1, <2>2, PeerSendsKeeps DEF Confirmed
  <2>4. OpenAwaited'
    <3>1. state \notin {"idle", "open_sent"}
      BY <2>1 DEF IInv, Handshake
    <3> QED
      BY <1>0, <2>2, <3>1 DEF OpenAwaited
  <2> QED
    BY <2>3, <2>4 DEF IInv
<1>4. CASE PeerNotifies
  <2> DEFINE m == [kind |-> "NOTIFICATION"]
  <2>1. peer_out \notin {"ending", "closed"} /\ peer_out' = "ending" /\ PeerSends(m)
    BY <1>4 DEF PeerNotifies
  <2>2. m \in Messages
    BY PiecesOfPeer
  <2> HIDE DEF m
  <2>3. peer_out \in {"nothing", "open", "keepalive"}
    BY <2>1 DEF IInv, TypeOK
  <2>4. /\ TypeOK' /\ Control' /\ Buffers' /\ Handshake'
        /\ OpenFromItsOwnBytes' /\ HoldCounted' /\ KeepaliveCounted'
    BY <2>1, <2>2, <2>3, PeerSendsKeeps DEF Confirmed
  <2>5. OpenAwaited'
    BY <1>0, <2>1, <2>2 DEF IInv, OpenAwaited
  <2> QED
    BY <2>4, <2>5 DEF IInv
<1>5. CASE PeerCloses
  <2> USE <1>5 DEF PeerCloses, in
  <2>1. Sendable \subseteq Sendable'
    BY DEF Sendable, Confirmed
  <2>2. Buffers'
    BY <2>1, SeqMonotonic DEF IInv, Buffers
  <2>3. OpenAwaited'
    BY DEF IInv, OpenAwaited
  <2> USE DEF IInv, out, agreed, timers, clock
  <2>4. TypeOK'
    BY DEF TypeOK
  <2>5. Control' /\ Handshake' /\ OpenFromItsOwnBytes' /\ HoldCounted' /\ KeepaliveCounted'
    BY DEF Control, Handshake, Confirming, Confirmed, OpenFromItsOwnBytes, HoldCounted,
           KeepaliveCounted
  <2> QED
    BY <2>2, <2>3, <2>4, <2>5
<1> QED
  BY <1>1, <1>2, <1>3, <1>4, <1>5 DEF Peer

LEMMA TickKeeps ==
    ASSUME IInv, Tick
    PROVE  IInv'
<1> USE TimesAssumption DEF IInv, in, out, agreed, peer
<1>1. /\ pc = "top" /\ ran
      /\ hold_left' = IF hold_left = 0 THEN 0 ELSE hold_left - 1
      /\ keepalive_age' = IF pending_keepalive THEN Up(keepalive_age) ELSE 0
      /\ unheard' = Up(unheard) /\ unsent' = Up(unsent)
      /\ UNCHANGED <<pc, state, out, in, agreed, pending_keepalive, wire, peer, ended>>
  BY DEF Tick
<1>2. ran' = FALSE
  BY Zenon DEF Tick
<1>3. Buffers' /\ OpenAwaited' /\ BufferTypes'
  BY <1>1, UnmovedKept
<1>4. /\ hold_left \in 0 .. HoldTime /\ keepalive_age \in 0 .. HoldTime
      /\ unheard \in 0 .. HoldTime /\ unsent \in 0 .. HoldTime
      /\ negotiated_hold_time \in 0 .. HoldTime /\ keepalive_interval \in 0 .. HoldTime
  BY DEF TypeOK, Longest
<1>5. /\ hold_left' \in 0 .. HoldTime /\ keepalive_age' \in 0 .. HoldTime
      /\ unheard' \in 0 .. HoldTime /\ unsent' \in 0 .. HoldTime
  BY <1>1, <1>4, UpBounds
<1>6. TypeOK'
  <2>1. ran' \in BOOLEAN
    BY <1>2
  <2> QED
    BY <1>1, <1>3, <1>5, <2>1 DEF TypeOK, BufferTypes, Held, Longest
<1>7. Control' /\ Handshake' /\ OpenFromItsOwnBytes'
  BY <1>1 DEF Control, Handshake, Confirming, OpenFromItsOwnBytes
<1>8. HoldCounted'
  <2>1. unheard' = unheard + 1 \/ (unheard = HoldTime /\ unheard' >= HoldTime)
    BY <1>1, <1>4, UpBounds
  <2> QED
    BY <1>1, <1>4, <1>5, <2>1 DEF HoldCounted
<1>9. KeepaliveCounted'
  <2>1. ASSUME state = "established", negotiated_hold_time >= 3
        PROVE  /\ pending_keepalive
               /\ keepalive_interval >= 1 /\ 3 * keepalive_interval <= negotiated_hold_time
               /\ unsent' <= keepalive_age' /\ keepalive_age' <= keepalive_interval
    <3>1. /\ pending_keepalive
          /\ keepalive_interval >= 1 /\ 3 * keepalive_interval <= negotiated_hold_time
          /\ unsent <= keepalive_age /\ keepalive_age < keepalive_interval
      BY <1>1, <2>1 DEF KeepaliveCounted
    <3>2. keepalive_age' = keepalive_age + 1
      BY <1>1, <1>4, <3>1, UpBounds
    <3>3. unsent' <= keepalive_age'
      BY <1>1, <1>4, <3>1, UpMonotonic
    <3> QED
      BY <1>4, <3>1, <3>2, <3>3
  <2> QED
    BY <1>1, <1>2, <2>1 DEF KeepaliveCounted
<1> QED
  BY <1>3, <1>6, <1>7, <1>8, <1>9

-----------------------------------------------------------------------------
LEMMA NextIInv == IInv /\ [Next]_vars => IInv'
<1> SUFFICES ASSUME IInv, [Next]_vars PROVE IInv'
  OBVIOUS
<1>1. CASE Iteration
  BY <1>1, RunningKeeps, SendingKeeps, ReceivingKeeps, HandlingKeeps DEF Iteration
<1>2. CASE Reconnect \/ TakePassive
  BY <1>2, ConnectionsKeep
<1>3. CASE Peer
  BY <1>3, PeerKeeps
<1>4. CASE Tick
  BY <1>4, TickKeeps
<1>5. CASE UNCHANGED vars
  <2> USE <1>5 DEF vars, out, in, agreed, timers, peer, clock, IInv
  <2>1. Buffers' /\ OpenAwaited'
    BY UnmovedKept
  <2>2. TypeOK'
    BY DEF TypeOK
  <2>3. Control' /\ Handshake' /\ OpenFromItsOwnBytes' /\ HoldCounted' /\ KeepaliveCounted'
    BY DEF Control, Handshake, Confirming, OpenFromItsOwnBytes, HoldCounted, KeepaliveCounted
  <2> QED
    BY <2>1, <2>2, <2>3
<1> QED
  BY <1>1, <1>2, <1>3, <1>4, <1>5 DEF Next

LEMMA Invariance == Spec => []IInv
<1> QED
  BY InitIInv, NextIInv, PTL DEF Spec

\* The variables of the session stay in their types: no batch is counted that
\* is not one of the export, and no interval is longer than the hold time.
THEOREM TypeCorrect == Spec => []TypeOK
<1>1. IInv => TypeOK
  BY DEF IInv
<1> QED
  BY <1>1, Invariance, PTL

\* Both ends agree that an established session is up, and its OPEN was parsed
\* from its own bytes (session.zig: handleMessage, tryDecodeFrame), for every
\* hold time the peer may propose and however its messages are cut.
THEOREM HandshakesSound == Spec => []HandshakeSound
<1>1. IInv => HandshakeSound
  <2> SUFFICES ASSUME IInv PROVE HandshakeSound
    OBVIOUS
  <2>1. EstablishedByBoth
    BY DEF IInv, Handshake, Confirming, Confirmed, EstablishedByBoth
  <2> QED
    BY <2>1 DEF IInv, HandshakeSound
<1> QED
  BY <1>1, Invariance, PTL

\* The hold timer runs out only after a silence of the hold time, and the peer
\* is never left for a third of it without a message (session_timers.zig), for
\* all configured times and all the peer may propose.
THEOREM TimersAlwaysSound == Spec => []TimersSound
<1>1. IInv => TimersSound
  <2> SUFFICES ASSUME IInv PROVE TimersSound
    OBVIOUS
  <2>1. /\ hold_left \in Nat /\ unheard \in Nat /\ unsent \in Nat /\ keepalive_age \in Nat
        /\ negotiated_hold_time \in Nat /\ keepalive_interval \in Nat
    BY TimesAssumption DEF IInv, TypeOK, Longest
  <2>2. HoldTimerSound
    BY <2>1 DEF IInv, HoldCounted, HoldTimerSound, HoldExpired
  <2>3. KeepalivesInTime
    BY <2>1 DEF IInv, KeepaliveCounted, KeepalivesInTime
  <2> QED
    BY <2>2, <2>3 DEF TimersSound
<1> QED
  BY <1>1, Invariance, PTL

\* Nothing but the delta of a reload sends the peer a message that its side of
\* the handshake does not allow.
LEMMA OrderedSteps == IInv /\ [Next]_vars => [peer_in /= "error" /\ peer_in' = "error" => pc = "delta"]_vars
<1> SUFFICES ASSUME IInv, Next, peer_in /= "error", pc /= "delta"
             PROVE  peer_in' /= "error"
  OBVIOUS
<1>1. CASE RunIdle
  BY <1>1, SendEffect DEF IInv, Handshake, RunIdle, SendFails
<1>2. CASE SendKeepalive
  BY <1>2, SendEffect DEF IInv, Handshake, Confirming, SendKeepalive, SendFails
<1>3. CASE Flush
  <2>1. \/ UNCHANGED peer_in
        \/ send_buf /= Nothing /\ Send(send_buf)
    BY <1>3, Zenon DEF Flush, SendFails
  <2>2. state \in Held /\ pc = "flush"
    BY <1>3 DEF Flush, IInv, Control, TypeOK
  <2>3. CASE send_buf /= Nothing /\ Send(send_buf)
    BY <2>2, <2>3, SendEffect DEF IInv, Handshake, Confirming, Held, Nothing
  <2> QED
    BY <2>1, <2>3
<1>4. CASE Reconnect \/ TakePassive
  BY <1>4 DEF Reconnect, TakePassive, FreshConnection
<1>5. CASE ApplyDelta
  BY <1>5 DEF ApplyDelta
<1>6. CASE RunHandshake \/ HoldTimerExpires \/ TimersIdle \/ Export
           \/ Receive \/ ReceiveAgain \/ ReceiveNothing \/ ConnectionClosed
           \/ NoMoreFrames \/ BadFrame \/ NoDelta
  BY <1>6 DEF RunHandshake, HoldTimerExpires, TimersIdle, Export, Receive, ReceiveAgain,
              ReceiveNothing, ConnectionClosed, NoMoreFrames, BadFrame, NoDelta, peer
<1>7. CASE HandleOpen \/ RefuseOpen \/ HandleFirstKeepalive
           \/ HandleEstablished \/ HandleNotification \/ Ignore
  BY <1>7 DEF HandleOpen, RefuseOpen, HandleFirstKeepalive, HandleEstablished,
              HandleNotification, Ignore, peer
<1>8. CASE Peer
  BY <1>8 DEF Peer, PeerOpens, PeerConfirms, PeerTalks, PeerNotifies, PeerCloses, PeerSends
<1>9. CASE Tick
  BY <1>9 DEF Tick, peer
<1> QED
  BY <1>1, <1>2, <1>3, <1>4, <1>5, <1>6, <1>7, <1>8, <1>9 DEF Next, Iteration

\* The peer gets the OPEN, the KEEPALIVE and the rest in their order, whatever
\* waits in send_buf when the timers, the export or a reconnect come by.
THEOREM HandshakeOrdered == Spec => HandshakeInOrder
<1> QED
  BY Invariance, OrderedSteps, PTL DEF Spec, HandshakeInOrder
=============================================================================
