# Formal model of the KGB control plane

KGB keeps a VPN mesh routable under interference. It has two programs:

* **tovarisch** (`src/tovarisch`, Zig): the daemon on a leaf router. It speaks
  BGP to a local BIRD to announce the prefixes listed in files, runs BFD with
  that BIRD to notice a dead neighbour, observes WireGuard and the network, and
  serves its status over HTTP.
* **UVB-76** (`src/uvb76`, Go): the control tower. It probes and scrapes the
  leaves, keeps rings of samples and latency spikes, captures diagnostics when
  a spike begins, and serves a web interface.

The model follows the code where several actors meet. In tovarisch that is the
BGP client with its threads and reconnects, the export and reload of prefixes,
and BFD. In UVB-76 it is the probes that overlap, the tracker they record into,
the spikes and the captures they trigger, and, beside it, the lab that starts
both programs to look for memory leaks. These parts share fields between
threads or goroutines, talk to a network that loses and delays, and own
descriptors, timers, children or reservations through failure and shutdown; that
is where tests reach least. Everything else is listed in the inventory below.

## Contents

1. Inventory of the system
2. Modules and how they correspond to the code
3. What the runs check
4. Bounds
5. Fairness
6. Proofs
7. Where code and documentation disagree
8. What is not modelled
9. Plan

## 1. Inventory

### tovarisch

**BGP passive listener** (`bgp/passive_listener.zig`).
State: a listening socket, a one-place slot (`accepted_fd`,
`accepted_peer_port`), an atomic flag `has_pending_accept`.
Operations: the listener thread polls, accepts, filters by source address and
stores; the runtime thread tests the flag and takes the slot
(`acceptConnection`); the main thread stops, joins and closes.
Hard: the slot is shared without a lock and the flag is cleared *before* the
slot is read. Correct if no descriptor is closed or delivered twice, losses are
bounded, and the shutdown leaves nothing behind.

**BGP runtime thread** (`bgp/runtime.zig`, `reconnect_lifecycle.zig`,
`reconnect_ownership.zig`, `serve_integration.zig`).
State: the TCP connection, the reconnect deadline and back-off, the connector
handle, the session. Operations: one loop that dials after a back-off, takes
over an inbound connection, runs an iteration of the session, or schedules the
next attempt after a failure. It interacts with the listener (above), with the
session (calls `runOnce`), with the accounting state (every socket, timer and
handle is recorded) and with the main thread's shutdown.
Hard: partial failures inside an attempt, take-over in any state, a shutdown at
any step. Correct if the accounting matches reality, no fail-loud check fires,
no descriptor leaks, retries are paced, an established session is not
displaced, and a session comes back.

**Reconnect memory accounting** (`runtime/allocation_tracker*.zig`).
State: counts of open sockets, running timers, the active handle, unreleased
handles, classified bytes. Its checks panic, so an unbalanced call ends the
daemon. Modelled as far as the runtime thread calls it.

**BGP session** (`bgp/session.zig`, `session_timers.zig`, `session_delta.zig`).
State: the FSM, send and receive buffers, hold and keepalive timers, the
position in the export. Operation: `runOnce`, then an optional reload delta.
Hard: one send buffer for handshake, keepalives, export and reload; timers
tested before input is read; frames cut by TCP. Correct if messages leave in the
order the protocol asks for, both ends agree about establishment, timers are
neither late nor premature, and a silent session ends.

**BGP TCP transport** (`bgp/tcp_transport.zig`, `tcp_transport_helpers.zig`).
State: a descriptor and a receive chunk. Its `recv` delivers a chunk twice.

**BGP export and prefix reload** (`bgp/export_reload_apply.zig`,
`export_delta.zig`, `prefix_watch*.zig`, `prefix_file_loader.zig`,
`net/inotify.zig`). State: watches, a debounce deadline, the committed set
`current_exported_prefixes`, the position in the start-up export. Operations:
collect events, read all files, compute a delta, send it, commit.
Hard: files that change or vanish while they are read, reloads between the
batches of an export, a session that fails during a reload. Correct if a peer
that was told of all commits has what is committed, a commit is
all-or-nothing, and what the files finally hold gets committed.

**BGP wire codec and configuration** (`bgp/message.zig`, `frame_decode.zig`,
`config_parse.zig`, ...), **BGP status and diagnostics** (`bgp/status.zig`, ...):
stateless encoders, parsers and projections.

**BFD** (`bfd/session.zig`, `runtime.zig`, `receive.zig`, `transmit.zig`,
`cli/bfd_serve.zig`). State per session: FSM state, both discriminators, time of
the last packet, next transmit time. Operations: the receive thread handles a
packet, the transmit thread ticks (detection timeout, then transmit), the main
thread stops and joins both. Hard: the two threads step the same session
without a lock; packets are lost; the peer restarts. Correct if the session
comes up when it can, goes down when the peer is silent and only then, and is
freed after its threads.

**Command line and serve startup** (`main.zig`, `cli/`): wiring; its shutdown
order (status server, BFD, then BGP) appears as the main thread of the modules.
**HTTP status server, heartbeat, metrics** (`http/`, `status.zig`, `metrics*.zig`):
a sequential accept loop over snapshots. **WireGuard and network diagnostics**
(`net/`, `wg/`): parsers, one-shot probes, and a ring of diagnostic events.

### UVB-76

**Latency tracker** (`state/latency*.go`, `server/latency_series.go`).
State: a ring of samples per target with a head, a count, a running sum and a
running error count, under a read-write lock. Operations: `RecordAt` overwrites
the oldest sample; the summary, the recent samples, the snapshot and the series
read it. Hard: the running totals are corrected by the sample that is
overwritten; three readers walk the ring in three ways. Correct if the ring is
the window of the newest samples, the totals are those of its contents, and what
is read agrees with itself.

**Spike decision, trackers and recoveries** (`internal/uvb76/domain/`,
`state/spike*.go`, `state/recovery.go`). State: the spikes of a target and probe
kind, of which the oldest that nothing protects is purged. Operations: decide
from a latency and a window, record, purge, record a recovery. Hard: what
protects a spike (a capture, a capture in flight) changes while the purge counts.
Correct if the bound holds and only what is unprotected goes.

**Capture cooldown and retention** (`diag/capture.go`, `state/cooldown*.go`,
`state/diag_capture*.go`, `server/spike_anchor_pinning.go`).
State: the peers with a capture in flight, the time and the anchor spike of the
last success per peer, the capture records. Operation: `TriggerCapture`, called
by every probe goroutine that saw a spike: reserve the peer, evaluate the
cooldown, validate its anchor outside the lock, clear the entry or record a
suppression, capture in a goroutine of its own, store, release.
Hard: seven lock regions with other goroutines in between. Correct if a peer has
one capture at a time, a suppression names a success that can be shown, a
cooldown is given up only for an evicted anchor, and every trigger is answered.

**Probes** (`probe/`). *HTTP*: a loop starts a probe per tick whether the last
one has ended or not; a probe reads its baseline, asks, marks the target
reachable or not, records, detects a spike and triggers a capture. *ICMP*: a
target in flight is skipped, all targets share one raw socket under one mutex,
sequence numbers come from the clock. Hard: overlapping probes, late replies.
Correct if every probe leaves what it owes, outages and recoveries alternate,
no probe is judged by its own sample, and a reply is credited to the ping it
answers. **Scraper** (`scraper/`): one poll loop per target over the same state.

**Server, authentication, configuration** (`server/`, `auth/`, `config/`):
handlers over the state manager, and an in-memory session store with expiry
under one lock. **Web interface** (`web/`): a browser client.

### Around them

**UVB-76 memory-leak lab** (`uvb76/cmd/uvb76-memleak-pprof-lab`).
State: two children with a monitor goroutine each, a fake tovarisch in process,
two collectors, a poll goroutine with a one-place channel, `result.json` and the
errors of the run. Operation: one run in phases, from the published
configuration to the exit code. Hard: children die or hang at any step, a
failure in any phase must still stop what was started, a collector may end
without a word, a result of an earlier run may be in the way. Correct if a
success is backed by what was seen, no child, collector or server is left to itself
when the run reports or exits, and it ends.

**Other labs** (`tovarisch/labs/memory`, `tools/memory-lab`, the capture lab in
`uvb76/cmd`): verifiers of evidence files and drivers of containers.
**Repository tooling** (`cmd/`, `scripts/`, `tools/`): gates and packaging. Neither
is part of the running system.

## 2. Modules

| Module | Models | One step is |
|---|---|---|
| `PassiveListener` | the hand-off and its shutdown | one access to shared memory, or one system call |
| `Handoff` | what the hand-off promises (abstract) | a connection moves on, or is asked for |
| `BgpRuntime` | the runtime thread, attempts, take-overs, accounting, shutdown | one part of a loop iteration between points where another thread, the peer or time can intervene |
| `BgpSession` | `runOnce`, timers, transport, reload delta, the peer's view | one phase of an iteration |
| `BgpExport` | watches, debounce, reads, delta, commit against the export batches | one loop phase, or the read of one file |
| `Bfd` | one session, its two threads, the peer, the shutdown | one access to the session the other thread can interfere with |
| `LatencyTracker` | the ring of samples, its totals and its readers | one write under the lock; readers are operators |
| `SampleWindow` | what the tracker promises (abstract) | a sample arrives |
| `SpikeDecision` | when a latency is a spike | none: operators only |
| `CaptureCooldown` | trackers of spikes and `TriggerCapture` | one lock region, or the code between two |
| `CaptureAdmission` | what the capture service promises of a peer (abstract) | a peer is reserved, decided on, captured, released |
| `HttpProbes` | overlapping probes of one target | one part of `probeTarget` between two locks |
| `OutageMonitor` | what the prober promises of outages (abstract) | a verdict, or the report of a recovery |
| `IcmpProbes` | exclusive probes over one shared socket, late replies | one wait, send or receive |
| `MemleakLab` | one run of the lab with its goroutines and children | one phase, or one event of another goroutine |
| `LabRun` | what a run promises (abstract) | parts begin or end, or the run reports |

The modules meet at the runtime thread. `PassiveListener` gives that thread only
what touches the slot, and the close that begins an attempt; `BgpRuntime` takes
the hand-off as one step with the outcomes its race may have (`pending`, which may
announce a connection that is not there)
and the session as an outcome per iteration (it advances, fails, or fails while
the iteration reports `.ok`); `BgpSession` opens that iteration up, and takes a
new connection as the pair `Reconnect` / `TakePassive`; `BgpExport` takes the
session as up, down, failed or waiting for its reconnect, with batches still to send and opens up what
`BgpSession` calls `ApplyDelta`. BFD shares no state with BGP.

The UVB-76 modules meet in the probe: `HttpProbes` takes the tracker as the
sequence of its samples, which is what `LatencyTracker` is shown to be as far as
a window reaches (`WindowKept`), judges by `SpikeDecision`, and hands an event to
the capture service, where `CaptureCooldown` begins. `IcmpProbes` ends where the
same decision would follow. `MC...` modules give TLC the constants a
configuration file cannot write.

Variables have the names of the fields they stand for. Those with no field are
observers, named in the declarations: `delivered`, `calls` (PassiveListener);
`open_fds`, `link`, `waited`, `routes_sent` (BgpRuntime); `unheard`, `unsent`,
`peer_in`, `ran` (BgpSession); `peer_routes`, `told`, `mixed`, `had` (BgpExport);
`quiet`, `heard`, `overtaken` (Bfd); `before` (HttpProbes); `waited` (IcmpProbes); `asked`, `killed` (MemleakLab). No guard of the program's own
actions reads them, except that `link`, `peer_in` and `peer_out` are the state of
the peer, and that `waited` keeps a wait from being counted twice.

**PassiveListener.** `ListenerTop` to `ListenerSetFlag` are the lines of
`listenerThread` in order; `RuntimeTestFlag` is `hasPendingConnection`, and
`RuntimeClearFlag`, `RuntimeReadFd`, `RuntimeResetFd` are `acceptConnection`;
`RuntimeReconnect` is what an attempt does first (`closeForReconnect`);
`MainBeginCleanup` to `MainCloseTcp` are `cleanupBgpBundle`. A connection stands
for its descriptor and for its address, so a torn hand-off shows as a
descriptor with another's address.

**BgpRuntime.** `BeginIteration` is the top of the loop with the deadline test;
`StartAttempt`, `OpenSocket`, `AttemptSucceeds`, `AttemptFails` are
`doReconnectWithClock`, `reconnectTransport` and `TcpTransport.connect` with their
errdefers; `TakePassive`, `AcceptFails` and `RefusePassive` are the inbound branch; `SessionAdvances`, `SessionFails` and
`SessionFailsUnreported` are what `runOnce` reported. The accounting calls are
operators on the record `mem` (`recordSocketOpen`, `adoptHandle`, ...) that set
`mem.fate` where the code panics. Time is counted in units of the initial
back-off. A connection is good, has ended, or has fallen silent, which nobody
notices but a hold timer (`link`). `open_fds` counts the descriptors that the thread
has opened or taken over; those the listener holds, and the ones the race for the
slot loses, are `PassiveListener`'s.

**BgpSession.** `RunIdle`, `RunHandshake`, `HoldTimerExpires`, `SendKeepalive`,
`Export`, `Flush`, `Receive`, then one action for each frame and state
(`HandleOpen`, `HandleFirstKeepalive`, ...), then `ApplyDelta`. A message is a
symbol, cut at most in two by TCP; the chunk that `recv` returns a second time
is kept in `chunk`. A send may be refused by a closed end or by a full socket; in
`ApplyDelta`, where that does not end the session at once, only by a closed end. What the peer makes of the messages it receives is in
`peer_in`. Time is counted in seconds.

**BgpExport.** `EventsScheduleReload`, `NoReload`, `BeginReload` (from
`watchAndApply`), `ReadFile` for each file, `ReadingDone`, then `Commit` or
`ApplyFails`. `added` and `removed` are the result of the two-list merge of
`computeDelta`, duplicates included. Beside them run the
export batches, people who truncate, write or
rename files. The order of reads is the order of
`advertised_prefix_files`, each read a step, so an editor can come in between. The
session fails (`SessionFails`), waits (`AwaitReconnect`, which watches no files), is
dialled again, perhaps in vain (`Reconnect`), or passes to an inbound connection
(`TakeOver`), which leaves the export where it was.

**Bfd.** `RxReceive`, `RxStamp`, `RxDecide`, `RxWrite` are
`handlePacketReceived` cut where the transmit thread can come in between;
`TxTop`, `TxElapsed` are `isDetectionExpired` cut between its two time reads;
`TxTimeout` and `TxForget` are `handleDetectionTimeout`. Whether
`handlePacketReceived` writes back a state it found unchanged depends on how the
compiler reads `sess.state`, and both are allowed. Building and sending a packet
is one step: the receive thread can only add a discriminator or complete a state
change in the middle of it, and the packet that results is one that a whole step
gives at a neighbouring moment. The peer follows RFC 5880 and its packets carry
what BIRD sends. `MainStop` ends the peer's part, since nothing the peer does
affects the joins.

**CaptureCooldown.** A goroutine is named after its spike; `pc[e]` is where it is.
`DetectSpike`, `PickVictim`, `AppendSpike` are `recordSpike` in three parts, since
the capture store is asked what it protects in between (`GetProtectionInfo`, read
without the store's lock being held on); then `ReadClock`, `ReserveInFlight`,
`SnapshotCooldown`, `FindAnchorSpike`, `CheckAnchorCapture`, `ClearCooldownIfSame`,
`StartCapture`, `AddCaptureWithProvenance`, `ReleaseInFlight`, and the records of
what was not captured. `phase` is how far `main` has wired the service: the
probes run first, `EnableRetention` replaces the detector, `SetDiagCapture`
completes it, and a probe that holds the old detector appends to it
(`AppendToOld`).

**LatencyTracker.** `RecordAt` is the write; `GetSummary`, `GetRecentSamples`,
`Snapshot` and `SeriesSnapshot` are computed from the ring as the code computes
them, index by index. Percentiles are in hundredths of a millisecond, in which
the interpolation of whole samples is exact.

**HttpProbes.** `TakeWindow`, `RequestInvalid` / `RequestFails` / `Responds`,
`MarkUnreachable`, `RecordResponse`, `DetectSpike` / `DetectFailure`, `Trigger`,
`RecordRecovery`, `TriggerRecovery`: the lines of `probeTarget`. `SetDiagCapture` may
come at any moment, or never; until then `TriggerCapture` hands nothing over. `ProbeAll` has no
guard against a probe that still runs, because the code has none.

**IcmpProbes.** `ProbeOne` is the loop with the in-flight flag; `Waits`, `Lock`,
`SendFails`, `Send`, `Accept`, `Discard`, `TimesOut`, `Canceled`, `ReadFails` are `Ping`
under the mutex, a name that does not resolve and a send that is refused included; `Record` and `Clear` the end of a probe. Any reply in the socket may be the
next one read; a number of the request may have been used before.

**MemleakLab.** `pc` runs through `runMain` and `runLab`; failures of the start-up go
to the finalizer by `failing`. A child is running, a zombie, reaped by `cmd.Wait`,
or recorded, when `done` is closed: between the last two a signal fails while
`done` is still open. `Terminate`, `WaitForExit`, `ForceKill`, `AwaitKilled` are
`gracefulShutdown` and `forceKill` for each child in turn. `StopFake` shuts the fake
down, which may fail and leave it to finish a request (`lingering`). The collectors, the poll
with its channel and the deadline of the observation are actions of their own;
`Dies` may strike any child at any time. `file` is `result.json`: whose it is,
whether it claims success, whether it was read back.

The variants, operators named `<Action>_<Change>`, are the faults used to show
that each property can fail: a dropped guard, a reset that is missing, a test at
the wrong place. No specification refers to them.

## 3. What the runs check

Runs that pass (distinct states in brackets). A conjunction is written with its
parts.

* **listener** [204 636]. `HandoffKept`: the slot, the flag and the two threads
  implement `Handoff`, in which a connection only goes forward (backlog, held,
  current, closed), the current one is closed to make way for the next or given up
  by an attempt, each taking loses one at most, and nothing is admitted or
  installed after the joins. `DescriptorsSound` (`UsedIsOpen`, `LeakBounded`,
  `ShutdownComplete`): whatever is about to be used or closed is open and in one
  place only, and a shutdown at any step closes all it knows of. `ShutdownTerminates`,
  `BacklogServed`: it joins both threads; a queued connection is accepted or reset.
* **runtime** [26 418]. `AccountingSound` (`AccountingMatches`, `NeverPanics`,
  `AcquireNeverRefused`, `OwnedWhileRunning`): the accounting follows ownership at
  every step and none of its panics is reachable. `DescriptorsMatch`: of the
  descriptors the thread opened or took over, the current connection's and that of an
  attempt under way are open and no other, and the accounting counts the same.
  `PacedRetries`: no attempt comes sooner than the initial back-off after a
  failure. `EstablishedKept`: no inbound connection displaces an established
  session. `RuntimeProgress` (`FailureFollowedUp`, `RecoversByDialling`,
  `CleanupTerminates`): liveness.
* **session** [91 943]. `HandshakeSound` (`EstablishedByBoth`,
  `OpenFromItsOwnBytes`) and `HandshakeInOrder`: the peer sees OPEN and KEEPALIVE
  first and both ends agree; the OPEN is decoded from its own bytes although the
  buffer was compacted. `TimersSound`: the hold timer fires only after a silence of
  the hold time (`HoldTimerSound`), and the peer of an established session is not
  left without a message for more than a third of it (`KeepalivesInTime`).
  `SilenceEndsSession`: a peer that falls silent ends the session.
* **export** [519 589]. `PeerInSync`: a peer that was given the export from its start
  and told of every commit has every committed prefix and no other, but for what a
  delta withdrew before its batch went out, which the batch announces again.
  `WholeReloads`: no commit mixes in an unreadable file. `ChangesReach`: what the
  files finally hold is committed, if the watches are alive, no delta fails to be
  sent and the loop does not wait for a reconnect for ever.
* **bfd** [405 836]. `SessionSafe` (`HeardBeforeInit`, `FreedLast`): the session
  leaves down only for a peer that has heard *this* daemon, not the one before
  it, and is freed after its threads. `NoFalseAlarm`: when the timer takes the session down there
  was a silence, or a packet was accepted between the reading of the clock and that
  act. `SilenceDetected`, `ThreadsLive`
  (`RecoversWhenCalm`, `CleanupTerminates`): a stopped peer is noticed, the session
  comes up again, and the shutdown ends.
* **capture** [354 007]. `SuppressionJustified`: a trigger is turned away only for
  a success whose spike is in its tracker and stays there. `UncapturedBounded`: the
  cap on unprotected spikes holds although captures end while they are counted.
  `ClearedOnlyEvicted`: a cooldown is given up only for an evicted anchor.
  `AdmissionKept`: the whole implements `CaptureAdmission` (one trigger at a time per
  peer, no start within the cooldown of a success that stands, times only
  forward). `CapturesEnd`: every trigger leaves a record and every peer is given
  back.
* **latency** [23 464]. `WindowKept`: the ring implements `SampleWindow`.
  `CountersExact`: the running totals are those of the samples in the ring.
  `SummaryConsistent`, `ReadersAgree`: what is read agrees with itself and with the
  other readers. `EverySampleInOnePoint`: points as wide as the step divide their span
  among them; the span is the range less a remainder shorter than a step, or as much
  of it as the cap on the points leaves.
* **http_probes** [4 274 346]. `ProbeAccounted`: every probe that ended left one sample
  and the events it owes, and what is found once the capture service is wired is
  handed to it. `JudgedFairly` (`BaselineIsPast`, `RelativeJustified`): by
  its past and by that alone. `MonitorKept`: outages and recoveries implement
  `OutageMonitor`, however the probes overlap.
* **icmp_probes** [283 267]. `SamplesInOrder`, `RepliesMatch`, `OnlyLateDiscarded`: a
  target's samples come in the order of its probes, a success rests on a reply of
  the target to a request with that number, and what is thrown away is late.
  `TargetsReleased`: no target stays in flight.
* **memleak_lab** [413 644]. `OutcomeProven`: the lab exits with success, or
  publishes it, only when both children (neither of them the fake) had not been
  reaped when they were told to stop and stopped without being killed, the
  target's scrape completed, both were sampled and no round of profiles was
  missed. `LabKept`: the run implements `LabRun`; when it reports, no child and no
  collector is left, and the fake was told to shut down. It says nothing of the
  goroutines of the poll and the monitors, which end by themselves, nor of a fake
  whose shutdown failed (the run is then FAILED). `RunEnds`: it ends, whatever its children do.

Runs that are expected to fail, each a disagreement with what a comment says (section 7):
`session_split`, `capture_inflight`.

## 4. Bounds

* **listener**: three admitted connections and one refused. A torn hand-off needs
  two, a descriptor stored over another a third.
* **runtime**: initial back-off 2, maximum 5, so that doubling is seen below, at
  and across the cap (2, 4, 5). The record of sockets and timers needs no bound.
  `HoldTimer` is TRUE; without one a silent session lasts (`Unwatched`).
* **session**: hold time 4, keepalive 3, so a third of the hold time (1) and the
  configured interval both occur; the peer proposes 0 or 3 seconds, the two
  cases of the negotiation that differ from ours. `MaxWire` 2 pieces in the
  socket: a whole message and the first half of the next. One export batch: one
  more would repeat the same step.
* **export**: two files and one inline prefix (`NInline`), at most one line a file, two
  changes. A commit that mixes two versions needs two files and one change; a
  change during the reload of another needs two. Outages and take-overs occur
  (`Outages`, `TakeOvers`). `Overlaps` is FALSE: with
  duplicates `PeerInSync` does not hold (section 7).
* **bfd**: timeout after two intervals, one restart of the peer, one packet under
  way. A packet that overtakes is one that is sent while an older one is lost;
  the stale discriminator needs one restart. `HeardBeforeInit`
  includes a peer still in a session with a former daemon.
* **capture**: two trackers of one peer and one without a peer, three spikes: one
  whose capture succeeds and becomes the anchor, one that evicts it (`Cap` 1), one
  that is triggered in between. Clock to 2 and cooldown 2, so that a trigger comes
  within the cooldown, at its end, and with a time read before another's.
* **latency**: a ring of three, filled and overwritten without a bound on the
  number of samples; latencies in the first bucket, in the second and above both.
  Clock to 3, so that all pairs of range and step occur; `MaxOutputPoints` is 2 where
  the code has 1440, so that the cap cuts the longest range.
* **http_probes**: three probes, which may all overlap: one that marks the target
  down, one that marks it up, one late. A window of two samples, which is the
  minimum for a median; latencies 1 and 4 with a multiplier of 3 and a warning at 4.
  The loop stops after the third probe, so deadlock is not checked. The capture service
  may be wired between any two steps.
* **icmp_probes**: two targets, two sequence numbers, so that a number recurs within
  the three probes. Deadlock is not checked for the same reason.
* **memleak_lab**: no bound; the state space of a run is finite. The samples of a
  collector are reduced to whether there is one.

The BGP and BFD modules keep clocks as ages and deadlines counted down, so that
no absolute time has to be bounded; `CaptureCooldown` and `LatencyTracker` compare
times that were stored, and bound the clock by `MaxTime`.

## 5. Fairness

Threads are scheduled: each thread's actions are weakly fair. `Tick` is weakly
fair where it is never disabled for good, strongly where a tick waits until the
loop has had its turn in the interval; that the loops run at least once per
interval is what the poll time-outs and sleeps in the code give
(`runtime.zig`, `transmit.zig`). Beyond that:

* **PassiveListener**: `ListenerAccept(c)` is strongly fair: `poll` does not report
  a time-out for ever while a connection is queued.
* **BgpRuntime**: a session whose connection has ended reads so, and one that is
  watched by a hold timer runs into it (`SessionFails` is strongly fair except when
  `Unwatched`); a peer that answers is heard. A session that waits in the handshake
  for a peer that fell silent is `Unwatched`: no timer runs there, TCP keep-alive is
  off, and nothing obliges the kernel to end it. A peer need not become stable;
  `RecoversByDialling` speaks of one that has, and excepts the session that stays
  unwatched for ever.
* **BgpSession** and **BgpExport**: only the runtime loop and the clock. Nobody is
  obliged to edit a file, to send or to answer.
* **Bfd**: both threads and time; `RxStops` is strongly fair, since the stop flag
  is tested before each poll, and the peer's own timers run. `calm` is a moment
  from which nothing is lost, late or restarted and the clock race of
  `isDetectionExpired` does not recur; it may never come. Without that last part
  there is a behaviour in which the race hits in every interval, which is possible
  and of no interest.
* **CaptureCooldown**: every goroutine that has begun takes its next step; nobody is
  obliged to see a spike. The clock need not move.
* **IcmpProbes**: goroutines run, the read deadline of a ping fires, and the mutex is
  strongly fair for a probe that waits (`sync.Mutex` hands over to a waiter that
  starves). Replies owe nothing.
* **MemleakLab**: the lab's own goroutines run and its deadlines pass. A collector
  whose context is done takes that branch in the end (strong fairness: `select`
  chooses at random among ready cases). No child is obliged to die or to answer.
* **LatencyTracker** and **HttpProbes** state safety only; in particular nothing says
  that the capture service is ever wired, and with diagnostics disabled it is not.

Deadlock is checked wherever the system cannot stop; each specification has a
stutter for the daemon that has shut down.

## 6. Proofs

The `_proofs` modules prove safety for every value of the constants, under the
assumptions named in the modules. Two of them hold the proofs of two components:
`ListenerAndExport_proofs`, of the two neighbours of the runtime thread, and
`BfdAndLab_proofs`, of the BFD session and the memory-leak lab. `BgpExport` and
`MemleakLab` therefore name their specifications `ExportSpec` and `RunSpec`.

**The hand-off.** For every interleaving, every set of connections `Conn`
and every subset `Allowed`, from `NoFd \notin Conn` alone: `TypeCorrect`,
`DescriptorsSafe` (`UsedIsOpen` and `ClosedOnce`) and `NeverRedelivered`
(`DeliveredOnce`). `UsedIsOpen` is not inductive, because it is silent about the
descriptor the listener still holds in a local variable and about which threads
are gone when the main thread closes. `IInv` adds `ListenerHolds` and
`ListenerStores` (an accepted descriptor is in no other place until stored),
`DeliveredGone` (what was delivered can come back neither from the slot nor from
the backlog) and `CleanupOrder` (each join precedes the closes it protects).
`DescriptorsComeBack` (`DescriptorsSound`) takes `Conn` to be finite. That at most
one descriptor is lost for each call that takes one is not inductive either: the
loss happens at one of two writes, and which of them it will be depends on the
other thread. `LInv` keeps books (`Books`): what is lost, and one more while the call
under way may still lose one, is at most the number of calls.
`HandoffImplemented` (`HandoffKept`) maps each connection to its place: current if
it is the session's (an attempt gives it up, a take-over replaces it), held if some thread or the slot has it, lost if it is open and
nobody does. That the call under way may still lose one (`Owing`) is part of the
mapping, so that the abstract specification pairs each loss with a call of its own.

**The runtime.** For all back-offs with `1 <= InitialBackoff <= MaxBackoff`, with
and without a listener or a hold timer: `TypeCorrect`, `AccountsFollow`
(`AccountingMatches` and `NeverPanics`), `DescriptorsBalance` (`DescriptorsMatch`,
from socket() to the errdefer that closes), `SocketOwned`,
`HandleFree`, together `AccountingBalances` (`AccountingSound`), `RetriesPaced` and
`SessionUndisturbed`. `IInv` adds `Ownership`
(which of the socket, the handle and the inflight mark the loop holds at each
step), `Shutdown` (what the main thread has still to release at each stage) and
`Pacing` (the deadline and the time waited add up to the back-off that was set).
The accounting calls are dealt with once, in lemmas about the record:
`RecordsGiveBack`, `ClosedMemBalanced`, `AttemptBegins`, `ErrdefersBalance`; the
step proofs then only cite them.

**The BGP session.** For all configured times that pass the validation, all hold
times a peer may propose, any number of batches and of pieces in the socket, with
and without reloads and split messages: `TypeCorrect`, `HandshakesSound`,
`TimersAlwaysSound` and `HandshakeOrdered` (`HandshakeInOrder`). That both ends agree
on an established session is a fact about messages under way, so the inductive
invariant follows them: nobody has a KEEPALIVE or an UPDATE in any of the three
buffers before the peer has sent one (`Buffers`; all three range over one set, so
that moving pieces, also twice or in part, keeps it); `Handshake` and `Confirming`
say what the peer has of ours; `OpenAwaited` says that what a peer has sent to a
daemon that waits for its OPEN is that OPEN, whole or in two halves, and perhaps one
KEEPALIVE - or a half that the transport is about to repeat. The timers rest on
two counts: what is left of the hold time and the silence add up to the whole
(`HoldCounted`), and no KEEPALIVE is later than its interval, which is a third at
most (`KeepaliveCounted`, for hold times of 3 seconds and more).

**The export.** For any number of files, inline prefixes, lines and changes:
`ExportTypeCorrect`, `ReloadsAlwaysWhole` (`WholeReloads`), lists with duplicates and
overlaps included, and `PeerAlwaysInSync` (`PeerInSync`) when no list repeats a prefix
(`~Overlaps`; with duplicates it is false, section 7). `WholeReloads` speaks of a
finished reload only. `ReloadInv` adds that a file holds something it has held
(`FilesHeld`), that the candidate of a reload under way is the concatenation of one
such content for each file already read (`Reading`), and what was committed
(`Committed`). `FlattenSeq` is defined by recursion and its meaning is needed for a
list one longer (`FlattenAppends`): `FlatteningExists` and `FlatteningIsOne` give it by
the least length at which it would fail. `PeerInSync` speaks of a peer that has had
every batch; `SyncInv` says what it has before that (`Synced`): of the batches, the
ones already sent, and whether a delta came between them. A take-over keeps the
position in the export, so `told` is only of a session that began at the first batch. It also needs that a list has no duplicates, since the merge of
`computeDelta` is a difference of sets only then (`DeltaIsDifference`), which holds of
what was read because no two files list the same prefix (`ReadApart`).

**BFD.** For every detection multiplier, any number of restarts of the peer and of
packets under way: `TypeCorrect`, `SessionAlwaysSafe` (`SessionSafe`) and
`AlarmsJustified` (`NoFalseAlarm`). `IInv` follows the claim that the peer has heard
this daemon through the peer, each packet, the packet being handled and the state
about to be written (`Heard`), bounds what the threads measure, and what the transmit thread has
decided, by the real silence, except while a packet is accepted and not yet stamped
or has overtaken the test (`Measured`), and orders the joins (`Joined`).

**Captures.** For any trackers, peers, mapping, cap and cooldown, and any number of
spikes: `TypeCorrect`, `CapturesExclusive` (`OneCapturePerPeer`),
`ImplementsAdmission` (`AdmissionKept`), `SuppressionsJustified`,
`ClearsOnlyEvicted` and `UncapturedAlwaysBounded`. The names of peers and the ids of
spikes, which are a time and random digits, are taken to differ
(`PeersAssumption`). `IInv` adds to the types where a goroutine can be (`Placed`),
that a reserved peer has one holder (`Exclusive`), and that what the holder has
read of its peer's cooldown is still so until it acts on it (`Cooled`): only the
holder may change it, which is why reading under one lock and clearing under
another is right. The mapping to `CaptureAdmission` sends a peer to what its holder
is doing. Suppressions need a second invariant, `RInv`, about the trackers: an
anchor that a goroutine relies on is protected from every purge that has begun.
The bound on unprotected spikes needs a third, `CInv`: one goroutine at a time is
between the count and the append of a tracker, and when it appends there is room,
because a capture that ends meanwhile can only protect one more.

**The tracker.** `RingIsWindow` (`WindowKept`): for every capacity, a write to the
ring is an append to the window, in the two cases of a ring that is full or not.
`CountersAlwaysExact` (`CountersExact`): the error count by cardinalities over the
indices of that window (`ErrorsCounted`), from which the slice of the successes is
never made with a negative room (`RoomNeverNegative`); the sum, from the invariant
that it is the last of the partial sums of the window (`SumInv`), which an eviction
shifts by what it takes away. `ReadersAlwaysAgree` (`ReadersAgree`) needs that the
timestamps of the window rise (`InOrder`), since one reader takes the ends and the
other searches for them. `EverySampleDrawnOnce` (`EverySampleInOnePoint`) is
arithmetic of the rounded division and its cap (`SpanOfRange`), for every cap. `SummaryAlwaysConsistent` (`SummaryConsistent`):
there is a latency of every rank (`KthExists`), a higher rank is not a smaller one
(`KthRises`), and what is interpolated between two ranks rises with them
(`InterpolationRises`), for all windows and boundaries.

The prover has no induction over data. Where a sum, a window or the existence of a
rank needs one, the proofs take the least place at which the claim would fail
(`LeastNat`, from the well-foundedness of the naturals) and show that it fails one
place before.

**The HTTP probes.** For any number of probes: `ImplementsMonitor` (`MonitorKept`),
from the invariant that a probe that ended an outage has not reported it before;
`ProbesAccounted` (`ProbeAccounted`), from one that says at each step what the
probe has left so far and, of that, handed over since the service was wired; and `ProbesJudgedFairly` (`JudgedFairly`). For the last,
`WindowLists` shows that the loop of `GetSampleWindow` collects the successes of its
range in their order. `JudgeInv` then holds on to the moment at which a probe took
its window (`Past`): what was recorded stays, so that the window remains that of the
first n samples, and the probe had recorded nothing at that moment, which
`ProbesAccounted`'s invariant says. `ThresholdMeans` turns the median, of an odd or
an even number, into latencies of the window.

**The ICMP probes.** For any targets, numbers and probes: `TypeCorrect`,
`SuccessesAnswered` (`RepliesMatch`), `ProbesExclusive` (`OneProbePerTarget`),
`DiscardsLate`, `RecordedInOrder` (`SamplesInOrder`) and `RequestsAccounted`
(`PingsAccounted`: every request is counted once more when its ping ends, but for
those taken for cancellations; a send that is refused counts as an error and not as
a request, a name that does not resolve as neither). `IInv` adds whose turn a target is (`Turns`), who
holds the mutex (`Holder`) and what an accepted reply is (`Replied`).

**The lab.** `RunTypeCorrect`, `OutcomeAlwaysProven` (`OutcomeProven`) and
`LabImplemented` (`LabKept`). The module has no constants and its run explores all of
its states, so the proofs add no instance; they add the reason. A success claims what was seen over the
whole run, and most of it is never looked at again: a child that was asked to stop,
a poll that ended, a round of profiles. What the verdict does look at is `errors`, so
`Untroubled` says what a run that has none must have met at each phase behind it, and
`Concluded` takes from it what `classifyLabResult` does not test. For the mapping,
`NotYet` keeps parts from beginning twice, `NoLonger` has every part gone, or the fake
shut down as far as it goes, by the phase that publishes; each step is then a step of `LabRun` that begins parts
(`StartsBegin`), ends them (`StopsEnd`), reports (`ResultsPublish`), or a stutter
(`QuietSteps`).

`ClosedOnce`, `DeliveredOnce`, `OneCapturePerPeer`, `OneProbePerTarget`,
`PingsAccounted` and the types of these modules are proved, and no run repeats them.

Only model-checked are the liveness properties: `ShutdownTerminates`, `BacklogServed`,
`RuntimeProgress`, `SilenceEndsSession`, `ChangesReach`, `SilenceDetected`, `ThreadsLive`,
`CapturesEnd`, `TargetsReleased`, `RunEnds`. They rest on fairness, hence on `ENABLED`,
which is beyond the prover. Every safety property of a passing run is a theorem. Of
the two runs that end in a violation there is nothing to prove.

## 7. Where code and documentation disagree

Shown by a run:

* **session_split** (`tcp_transport.zig:133`): `recv` returns a chunk twice; if TCP
  cut a message, the repeated half makes the frame bad and the session fails.
* **capture_inflight** (`state/cooldown.go:362`): `GetProtectionInfo` looks an event
  id up in `inFlight`, which `TriggerCapture` fills with peer names. The spike whose
  capture is in flight is therefore not protected and may be purged before the
  result is stored, where `spike_tracker.go:28` says that it never is.

Read from the code. The models have the behaviour of the following, and the
properties say so or state what holds in spite of it; definitions named in
brackets state what is promised and does not hold:

* `passive_listener.zig:250`: the flag is cleared before the slot is read, so the
  listener may store the next connection in between. The result then carries one
  connection's descriptor and another's port, or a descriptor is reset away and
  never closed (`AcceptResultCoherent`).
* `runtime.zig:199`: a take-over stores the port the peer dialled *from* as the port
  to dial, and while waiting for its deadline the loop ignores pending
  connections; after one inbound connection the daemon may dial a closed port for
  ever (`RecoversWithoutRestart`).
* `session.zig:354`: the hold timer is set and tested in established only.
  `docs/architecture/tovarisch-state-transition-register.md:61` and `:67` list it in
  open_sent and open_confirm too; a peer that falls silent there holds the session
  for ever, and with it the runtime (`Unwatched`), since there is no TCP keep-alive
  (`SilenceEndsHandshake`).
* `runtime.zig:184`: a take-over keeps `export_complete` and `export_batch_index` of the
  connection before, and the new connection gets the rest of the prefixes or none
  (`ExportedOnThisConnection`); `PeerInSync` speaks of a session whose export began
  with the first batch.
* `export_reload_apply.zig:265`: a reload may commit between the batches of an export.
  What its delta withdraws is announced by a later batch and stays with the peer;
  `PeerInSync` says that this is all that goes wrong.
* `bfd/runtime.zig:178`: the detection timeout is tested and acted on without a lock. A
  packet that is accepted between the reading of the clock and the act is stamped too
  late for the test, makes its unsigned difference wrap, or is handled whole and then
  undone: the session that was just heard goes down (`overtaken` in `NoFalseAlarm`).
* `runtime.zig:110`: an iteration in reconnect_wait looks neither at inbound connections
  nor at the watched files, so with a peer that cannot be reached no edit is committed
  (`ChangesReach` excepts it).
* `server/latency_series.go:211`: the points of a series leave out the remainder of the
  range by the step, and beyond 1440 points the older part of the range, while the
  answer still names the whole range.
* `process.go:43` of the lab: a fake whose Shutdown fails is forgotten all the same and
  may outlive the cleanup (`lingering`).
* `session.zig:383`: a new session exports the start-up prefixes; what reloads
  committed since is not announced, although `export_reload_apply.zig:12` says
  sessions resync from the committed set (`ResyncedFromCurrent`).
* `export_reload_apply.zig:357`: the watch of a file that was replaced by a rename is
  dropped and never renewed (`refreshWatch` has no caller), so later edits are not
  seen (`RenamesReach`).
* `bfd/session.zig:143`: the peer's discriminator is stored only while none is known
  and cleared only by a detection timeout. A BIRD that comes back sooner than that
  takes the session down with its first packet, and from then on every packet
  names a discriminator that no longer exists (`RecoversAfterRestart`).
* `uvb76/main.go:92-156`: the scraper and the probes are started before retention and
  capture are wired, against the warning in `spike_retention.go:29`. A detector
  that is replaced takes its spikes with it, and a probe may still append to it.
* `main.go:175` of the lab: after the result was published aside, renamed, read back
  and compared (`result_persist.go:208`), `runMain` writes another structure over it,
  neither atomically nor checked; after a finalizer that refuses to publish beside
  a stale result (`lifecycle_failure_finalize.go:317`) it publishes all the same.
  `OutcomeProven` holds of what that file claims.

Further, noted where they bear on a property:

* The delta of a reload in the very iteration that established the session is
  encoded over the KEEPALIVE that waits in the send buffer
  (`session_delta.zig:54`). `BgpSession` has this behaviour; `HandshakeInOrder`
  excepts exactly that step.
* A prefix listed twice and then once is withdrawn although it is still listed
  (`export_delta.zig:129`). `BgpExport` has this behaviour when `Overlaps` is TRUE,
  and `PeerInSync` then fails.
* The back-off is reset by the TCP connect (`reconnect_ownership.zig:383`), where
  `docs/bgp/README.md:91` resets it on establishment. Retries stay paced by the
  initial back-off, which is what `PacedRetries` states.
* Inline prefixes take no part in a reload (`prefix_watch_reload.zig:81`), so the
  first commit withdraws them; `docs/bgp/README.md:108` describes both sources.
* A reload whose UPDATE fails to be sent is neither committed nor retried
  (`export_reload_apply.zig:267`); `ChangesReach` assumes no send fails.
* A BFD session that accepts a packet while the timeout of an earlier silence is
  being handled may be up with no remote discriminator and so without a detection
  timer, until the next packet. `SilenceDetected` excepts it.
* The BFD receive socket is closed by the main thread (`bfd_serve.zig:252`) and
  again by the receive loop when it ends, while the BGP threads, which are
  stopped later, may open sockets; the number may be another socket's by then.
* A spike whose capture succeeded is never evicted and the capture records are
  never pruned, so both grow with the run of the daemon. `ClearStaleCooldown`,
  `SetAnchorValidator`, `ProbeTarget`, `CleanupExpired` and `InvalidateAllForUser` have
  no caller outside tests. The response of a 200 without `network_diag` leaves a
  record that is no anchor (the record `bare`).
* A late failure of an overlapped probe marks the target down after a newer
  success, and the next success then reports a recovery of an outage that was
  over; the recovery may be recorded before the failure it ends. With a median of
  0 every success exceeds the relative threshold, which
  `state/spike.go:275` excludes on the older path.
* A ping that times out while its context is done is counted neither as a timeout
  nor as an error (`native_icmp.go:164`). A late reply may be taken for that of a
  later ping of the same target with the same number.
* A run of the lab without a midpoint (a profile interval as long as the run) is
  validated against profiles it did not take; one that finds them in a reused
  directory passes. The end of the observation cuts a request for the number of
  goroutines, which counts as an error and makes a healthy run fail. In fake mode
  no run can be OBSERVED, since the fake has no process id. A child that died a
  moment before its SIGTERM, and is still a zombie, counts as stopped by it.

## 8. What is not modelled

* Bytes: encoders, decoders, parsers and their limits. The models take their
  verdict (accepted, refused, incomplete, bad) as an input. The receive buffer is
  unbounded, so the silent drop of bytes that do not fit
  (`session.zig:195`) is not seen.
* What is lost when a hang-up is reported together with unread data
  (`tcp_transport_helpers.zig:175`): the connection's end is modelled, the reason
  in a last NOTIFICATION is not.
* How long an editor takes: a file read while it is truncated counts as an empty
  list, and only the debounce window stands between that and a withdrawal.
* Runs with hold times of 1 or 2 seconds, which a peer that breaks RFC 4271 may
  propose. The proofs include them, but for `KeepalivesInTime`: a third of them is no
  interval.
* Out-of-memory branches and the failures of construction
  (`serve_bundle_constructor.zig`, `loadConfigAndBfd`).
* Counters, error texts, logs, and the status fields built from them.
* Where an allocator moves memory: `session_config.prefixes` is a view into a list
  whose storage `toOwnedSlice` may move (`serve_integration.zig:248`).
* Several BFD sessions in one runtime; they are independent but for one thing: a
  failing send ends the tick for the sessions after it.
* Captures: the transport to the peer, the contents of a capture, the read-only
  pinning of anchors into a response (`server/spike_anchor_pinning.go`), a second
  capture of one spike (each spike is triggered once, so the limit of ten records a
  spike is not reached).
* Tracker: the rounding of floating point; latencies are whole milliseconds.
* Probes: DNS, TLS and the parts of a request; the fallback to the ping command with
  its semaphore, and the scraper, whose loop is that of the HTTP prober without
  overlap; the wait of `Stop` for the loop (it does not wait for probes).
* Lab: bytes of configuration, samples, profiles and results; the guards that parse
  the lab's own source (`authority_guard.go`); the tools that compare profiles; a lab
  that is itself killed, which leaves its children, and process ids that are used
  again. The two checks of the ports are one, and that a port belongs to another
  program is a possible outcome of it and no state.
* The other labs and the tooling: sequential programs over files and containers,
  with no state that outlives a call but the files. The session store of UVB-76 is
  a map under one lock with an expiry test at each read. The status server, the
  command line and the probes of the host in tovarisch are sequential; their
  parsers are outside what TLC can enumerate in a way that says something.

## 9. Plan

Done: the BGP listener with the hand-off it implements, the runtime, the session, the
export and BFD, with proofs; the tracker, the capture service, both probers and the
memory-leak lab of UVB-76 with proofs, and with the abstract specifications they
implement.

Left, in order of importance:

1. The scraper and the command semaphore with time-outs; the session store.
2. The tracking allocator's classified byte counters as a module below
   `BgpRuntime`'s record, and the ring of diagnostic events as a pure algorithm
   against a reference definition.
