----------------------------- MODULE BgpExport -----------------------------
(***************************************************************************)
(* What tovarisch advertises, and how a change of the prefix files reaches *)
(* the peer: the inotify watcher (prefix_watch_linux.zig), the debouncer   *)
(* (prefix_watch.zig), the reload that reads every file or none            *)
(* (prefix_watch_reload.zig), the delta (export_delta.zig), its commit     *)
(* (export_reload_apply.zig) and its UPDATEs (session_delta.zig), beside   *)
(* the batches a new session exports (session.zig).                        *)
(*                                                                         *)
(* The runtime thread goes through session, watch, read, apply and sleep;  *)
(* whoever edits the files acts in between, also between two files that    *)
(* one reload reads.  Of the session there is what decides when it exports *)
(* and whether the loop gets to the watch: BgpSession and BgpRuntime have  *)
(* its handshake and its reconnects.                                       *)
(***************************************************************************)
EXTENDS Integers, FiniteSets, SequencesExt

CONSTANTS
    NFiles,             \* advertised_prefix_files, in their order
    NInline,            \* how many advertised_prefixes there are
    Overlaps,           \* a prefix may be listed more than once
    Replaces,           \* a file may be renamed over, or removed
    Outages,            \* the session may fail, and so may a send
    TakeOvers,          \* an inbound connection may replace the session's
    MaxLines,           \* bound: prefixes in a file
    Writes              \* bound: changes of the files

ASSUME FilesAssumption ==
    /\ NFiles \in Nat \ {0} /\ MaxLines \in Nat /\ Writes \in Nat
    /\ NInline \in Nat

ASSUME SwitchAssumption == {Overlaps, Replaces, Outages, TakeOvers} \subseteq BOOLEAN

VARIABLES
    pc,                         \* where the runtime thread is
    disk,                       \* what each file holds
    writing,                    \* the file being written, or NoFile
    writes_left,
    watches,                    \* files whose watch descriptor is alive
    events,                     \* the inotify queue holds relevant events
    pending, due,               \* Debouncer: pending; the window has elapsed
    unread,                     \* reloadPrefixes: the next file to read
    candidate,                  \* reloadPrefixes: prefixes
    any_file_failed,
    prefixes,                   \* sess.config.prefixes
    current_exported_prefixes,
    export_batch_index,
    session,                    \* see SessionStates
    peer_routes,                \* what the peer has from this session
    had,                        \* all that each file has ever held
    told,                       \* the session began with the first prefix, and
                                \* with the start-up set committed
    mixed                       \* a delta went out before the last batch did

editor == <<disk, writing, writes_left, had>>
watcher == <<watches, events, pending, due>>
reload == <<unread, candidate, any_file_failed>>
bgp == <<export_batch_index, session, peer_routes, told, mixed>>
export_vars == <<pc, editor, watcher, reload, prefixes, current_exported_prefixes, bgp>>

Files == 1 .. NFiles
NoFile == 0

(* A prefix, by where it is listed when no prefix is listed twice.         *)
Own(f) == {f} \X (1 .. MaxLines)
Inline == [k \in 1 .. NInline |-> <<NoFile, k>>]
Routes == ToSet(Inline) \cup UNION {Own(f) : f \in Files}

Broken == <<<<NoFile, 0>>>>     \* missing, unreadable or not a prefix list

(* On its way to .established; established; established over a transport   *)
(* that a failed send closed; failed with the result .ok, on a bad frame;  *)
(* bundle.state = .reconnect_wait.                                         *)
SessionStates == {"down", "up", "closed", "failed", "waiting"}

Contents(f) ==
    IF Overlaps THEN SeqOf(Routes, MaxLines)
    ELSE {list \in SeqOf(Own(f), MaxLines) : IsInjective(list)}

ExportTypeOK ==
    /\ pc \in {"session", "watch", "read", "apply", "sleep"}
    /\ \A f \in Files : disk[f] \in Contents(f) \cup {Broken}
    /\ writing \in Files \cup {NoFile} /\ writes_left \in 0 .. Writes
    /\ watches \subseteq Files /\ events \in BOOLEAN
    /\ pending \in BOOLEAN /\ due \in BOOLEAN
    /\ unread \in 1 .. NFiles + 1
    /\ candidate \in Seq(Routes) /\ any_file_failed \in BOOLEAN
    /\ prefixes \in Seq(Routes) /\ current_exported_prefixes \in Seq(Routes)
    /\ export_batch_index \in 0 .. Len(prefixes)
    /\ session \in SessionStates
    /\ peer_routes \subseteq Routes
    /\ \A f \in Files : had[f] \subseteq Contents(f) \cup {Broken}
    /\ told \in BOOLEAN /\ mixed \in BOOLEAN

\* inline prefixes first, then the files in their order
ExportInit ==
    /\ pc = "session"
    /\ disk \in [Files -> UNION {Contents(f) : f \in Files}]
    /\ \A f \in Files : disk[f] \in Contents(f)
    /\ writing = NoFile /\ writes_left = Writes /\ had = [f \in Files |-> {disk[f]}]
    /\ watches = Files /\ events = FALSE /\ pending = FALSE /\ due = FALSE
    /\ unread = 1 /\ candidate = <<>> /\ any_file_failed = FALSE
    /\ prefixes = Inline \o FlattenSeq(disk) /\ prefixes /= <<>>
    /\ current_exported_prefixes = prefixes
    /\ export_batch_index = 0 /\ session = "down" /\ peer_routes = {}
    /\ told = FALSE /\ mixed = FALSE

-----------------------------------------------------------------------------
(* Whoever edits the files: in place, when a reader may find the file      *)
(* empty, or by renaming a new file over the old one                       *)

Changes(f, content) ==
    /\ disk' = [disk EXCEPT ![f] = content]
    /\ had' = [had EXCEPT ![f] = @ \cup {content}]

Unchanging == UNCHANGED <<pc, pending, due, reload, prefixes, current_exported_prefixes, bgp>>

Notices(f) == events' = (events \/ f \in watches)

Truncate(f) ==
    /\ writing = NoFile /\ writes_left > 0 /\ disk[f] /= Broken
    /\ writing' = f /\ writes_left' = writes_left - 1
    /\ Changes(f, <<>>) /\ Notices(f)
    /\ UNCHANGED watches /\ Unchanging

WriteAndClose(f) ==
    /\ writing = f /\ writing' = NoFile
    /\ \E content \in Contents(f) \cup {Broken} : Changes(f, content)
    /\ Notices(f)
    /\ UNCHANGED <<writes_left, watches>> /\ Unchanging

\* the watched file is gone, and with it the watch
Replace(f) ==
    /\ Replaces /\ writing = NoFile /\ writes_left > 0
    /\ writes_left' = writes_left - 1
    /\ \E content \in Contents(f) \cup {Broken} : Changes(f, content)
    /\ Notices(f) /\ watches' = watches \ {f}
    /\ UNCHANGED writing /\ Unchanging

-----------------------------------------------------------------------------
(* bgpRuntimeThread and runOnce, as far as the exported prefixes go.  An   *)
(* iteration in .reconnect_wait does not get to the watch.                 *)

OnlySession == UNCHANGED <<editor, watcher, reload, prefixes, current_exported_prefixes>>

AwaitReconnect ==
    /\ pc = "session" /\ session = "waiting"
    /\ pc' = "sleep"
    /\ UNCHANGED bgp /\ OnlySession

\* the attempt, which may fail: closeForReconnect starts the export over
Reconnect ==
    /\ pc = "session" /\ session = "waiting"
    /\ session' \in {"waiting", "down"} /\ export_batch_index' = 0
    /\ UNCHANGED <<pc, peer_routes, told, mixed>> /\ OnlySession

\* the export position stays where the former connection left it
TakeOver ==
    /\ pc = "session" /\ TakeOvers /\ session \in {"down", "failed"}
    /\ session' = "down"
    /\ UNCHANGED <<pc, export_batch_index, peer_routes, told, mixed>> /\ OnlySession

SessionStep == pc = "session" /\ pc' = "watch" /\ OnlySession

SessionUp ==
    /\ SessionStep /\ session = "down" /\ session' = "up"
    /\ told' = (export_batch_index = 0
                  /\ ToSet(prefixes) = ToSet(current_exported_prefixes))
    /\ mixed' = FALSE
    /\ UNCHANGED <<export_batch_index, peer_routes>>

ExportBatch ==
    /\ SessionStep /\ session = "up" /\ export_batch_index < Len(prefixes)
    /\ export_batch_index' = export_batch_index + 1
    /\ peer_routes' = peer_routes \cup {prefixes[export_batch_index + 1]}
    /\ UNCHANGED <<session, told, mixed>>

NothingToExport ==
    /\ SessionStep
    /\ session = "down" \/ (session = "up" /\ export_batch_index = Len(prefixes))
    /\ UNCHANGED bgp

\* the peer drops its routes; a reconnect is scheduled, or, where a bad frame
\* failed the session, the iteration reports .ok
SessionFails ==
    /\ SessionStep
    /\ \/ session \in {"closed", "failed"} /\ session' = "waiting"
       \/ session \in {"up", "down"} /\ Outages /\ session' \in {"waiting", "failed"}
    /\ peer_routes' = {} /\ told' = FALSE /\ mixed' = FALSE
    /\ UNCHANGED export_batch_index

-----------------------------------------------------------------------------
(* watchAndApply *)

\* variant: an event counts only while the session is up
EventsScheduleReload_WhileUp ==
    /\ pc = "watch" /\ events
    /\ events' = FALSE /\ pc' = "sleep"
    /\ IF session = "up" THEN pending' = TRUE /\ due' = FALSE ELSE UNCHANGED <<pending, due>>
    /\ UNCHANGED <<watches, editor, reload, prefixes, current_exported_prefixes, bgp>>

\* schedule; the window has not elapsed at the time it begins
EventsScheduleReload ==
    /\ pc = "watch" /\ events
    /\ events' = FALSE /\ pending' = TRUE /\ due' = FALSE
    /\ pc' = "sleep"
    /\ UNCHANGED <<watches, editor, reload, prefixes, current_exported_prefixes, bgp>>

NoReload ==
    /\ pc = "watch" /\ ~events /\ ~(pending /\ due)
    /\ pc' = "sleep"
    /\ UNCHANGED <<editor, watcher, reload, prefixes, current_exported_prefixes, bgp>>

BeginReload ==
    /\ pc = "watch" /\ ~events /\ pending /\ due
    /\ pending' = FALSE
    /\ unread' = 1 /\ candidate' = <<>> /\ any_file_failed' = FALSE
    /\ pc' = "read"
    /\ UNCHANGED <<due, watches, events, editor, prefixes, current_exported_prefixes, bgp>>

-----------------------------------------------------------------------------
(* reloadPrefixes *)

ReadFile ==
    /\ pc = "read" /\ unread <= NFiles
    /\ IF disk[unread] = Broken
       THEN any_file_failed' = TRUE /\ UNCHANGED candidate
       ELSE candidate' = candidate \o disk[unread] /\ UNCHANGED any_file_failed
    /\ unread' = unread + 1
    /\ UNCHANGED <<pc, editor, watcher, prefixes, current_exported_prefixes, bgp>>

\* variant: what could be read is enough
ReadingDone_AnyFile ==
    /\ pc = "read" /\ unread > NFiles
    /\ pc' = IF candidate = <<>> /\ any_file_failed THEN "sleep" ELSE "apply"
    /\ UNCHANGED <<editor, watcher, reload, prefixes, current_exported_prefixes, bgp>>

\* a reload with a file that failed ends here
ReadingDone ==
    /\ pc = "read" /\ unread > NFiles
    /\ pc' = IF any_file_failed THEN "sleep" ELSE "apply"
    /\ UNCHANGED <<editor, watcher, reload, prefixes, current_exported_prefixes, bgp>>

-----------------------------------------------------------------------------
(* computeDelta, applyDelta and the commit *)

Count(list, p) == Cardinality({i \in DOMAIN list : list[i] = p})

\* variant: nothing is removed while something is left
removed_OnlyWhenEmpty(current, new) == IF new = <<>> THEN ToSet(current) ELSE {}

\* both lists are sorted and merged, so that one of two equal prefixes counts
removed(current, new) == {p \in ToSet(current) : Count(current, p) > Count(new, p)}
added(current, new) == {p \in ToSet(new) : Count(new, p) > Count(current, p)}

Removed == removed(current_exported_prefixes, candidate)
Added == added(current_exported_prefixes, candidate)

Commit ==
    /\ pc = "apply" /\ pc' = "sleep"
    /\ current_exported_prefixes' = candidate
    /\ IF session = "up"
       THEN /\ peer_routes' = (peer_routes \ Removed) \cup Added
            /\ mixed' = (mixed \/ (Removed \cup Added /= {}
                                   /\ export_batch_index < Len(prefixes)))
       ELSE UNCHANGED <<peer_routes, mixed>>
    /\ UNCHANGED <<editor, watcher, reload, prefixes, export_batch_index, session, told>>

\* a send fails and closes the transport; the candidate is freed
ApplyFails ==
    /\ pc = "apply" /\ pc' = "sleep"
    /\ Outages /\ session = "up" /\ Removed \cup Added /= {}
    /\ session' = "closed" /\ peer_routes' = {}
    /\ UNCHANGED <<editor, watcher, reload, prefixes, current_exported_prefixes,
                   export_batch_index, told, mixed>>

\* the sleep between iterations is as long as the debounce window
Sleep ==
    /\ pc = "sleep" /\ pc' = "session"
    /\ due' = pending
    /\ UNCHANGED <<watches, events, pending, editor, reload, prefixes,
                   current_exported_prefixes, bgp>>

-----------------------------------------------------------------------------
RuntimeThread ==
    \/ AwaitReconnect \/ Reconnect \/ TakeOver
    \/ SessionUp \/ ExportBatch \/ NothingToExport \/ SessionFails
    \/ EventsScheduleReload \/ NoReload \/ BeginReload
    \/ ReadFile \/ ReadingDone
    \/ Commit \/ ApplyFails
    \/ Sleep

Editor == \E f \in Files : Truncate(f) \/ WriteAndClose(f) \/ Replace(f)

ExportNext == RuntimeThread \/ Editor

ExportSpec == ExportInit /\ [][ExportNext]_export_vars

(* The runtime loop goes on; nobody has to edit a file.                    *)
FairExportSpec == ExportSpec /\ WF_export_vars(RuntimeThread)

-----------------------------------------------------------------------------
(* A peer whose session began with the first prefix, while the start-up    *)
(* set was committed, ends up with every prefix that is committed, however *)
(* the batches and the deltas interleave, and with no other: but what a    *)
(* delta withdrew before its batch went out, it is told of again.          *)
PeerInSync ==
    session = "up" /\ told /\ export_batch_index = Len(prefixes) =>
        /\ ToSet(current_exported_prefixes) \subseteq peer_routes
        /\ peer_routes \ ToSet(current_exported_prefixes)
              \subseteq (IF mixed THEN ToSet(prefixes) ELSE {})

(* What is committed is the startup set, or was read from all of the files *)
(* (reload as a transaction), each as it was at some moment.               *)
WholeReloads ==
    \/ current_exported_prefixes = prefixes
    \/ \E read \in [Files -> UNION {had[f] : f \in Files}] :
          /\ \A f \in Files : read[f] \in had[f] \ {Broken}
          /\ current_exported_prefixes = FlattenSeq(read)

(* Once the files stay as they are, and can be read, they are what is      *)
(* committed, whatever had been read half-written before: if every watch   *)
(* is alive, no reload failed to be sent and the loop does not stay in     *)
(* .reconnect_wait, where it watches nothing.                              *)
Settled == writes_left = 0 /\ writing = NoFile /\ \A f \in Files : disk[f] /= Broken
FinalFilesCommitted == Settled /\ Writes > 0 ~> current_exported_prefixes = FlattenSeq(disk)
ChangesReach ==
    [](watches = Files /\ session /= "closed") /\ []<>(session /= "waiting")
        => FinalFilesCommitted

(* prefix_watch.zig on refreshWatch: "Close and reopen watch for a path    *)
(* (handles delete_self/move_self)" - so every change reaches.  No run     *)
(* checks this: refreshWatch has no caller and the property does not hold. *)
RenamesReach == FinalFilesCommitted

(* export_reload_apply.zig: "Failed sessions resync from                   *)
(* current_exported_prefixes on re-establishment".  No run checks this: a  *)
(* new session exports the prefixes of the start-up.                       *)
ResyncedFromCurrent ==
    session = "up" /\ export_batch_index = Len(prefixes)
        => peer_routes = ToSet(current_exported_prefixes)
=============================================================================
