---------------------------- MODULE MemleakLab ----------------------------
(***************************************************************************)
(* One run of the memory-leak lab of UVB-76                                *)
(* (cmd/uvb76-memleak-pprof-lab): it starts tovarisch (or a fake of it)    *)
(* and UVB-76, samples both while it polls UVB-76 and takes profiles,      *)
(* stops them, classifies what it saw and publishes result.json.           *)
(* Several goroutines run: the lab itself, a monitor for each child        *)
(* (cmd.Wait), a collector for each child, and the poll.  The children may *)
(* die at any moment and may ignore SIGTERM; every request and every write *)
(* may fail.                                                               *)
(***************************************************************************)
EXTENDS Naturals, FiniteSets

Procs == {"tovarisch", "uvb76"}

VARIABLES
    pc,          \* where runMain and runLab are
    mode,        \* ExecutionModeReal or ExecutionModeFake
    turn,        \* the child that cleanup is at
    failing,     \* the run ends in finalizeLifecycleFailure
    proc,        \* a child: not started, running, a zombie, reaped by
                 \* cmd.Wait, or recorded as exited with done closed
    asked,       \* the children that were sent SIGTERM
    killed,      \* the children that were sent SIGKILL
    fake,        \* the fake tovarisch: none, serving, stopped, or lingering
                 \* with a request when Shutdown had failed
    observing,   \* observationCtx is open
    poll,        \* the poll goroutine
    channel,     \* the one place of pollResultCh
    got,         \* PollResult as the drain received it
    terminated,  \* PollGoroutineTerminated
    coll,        \* the collectors
    sampled,     \* the collectors that have appended a sample
    collErrors,  \* CollectorErrors is not empty
    profileErr,  \* ProfileErr is not nil
    errors,      \* result.Errors is not empty
    verdict,     \* Classification; OK is that it is OBSERVED
    file,        \* result.json
    exit         \* what runMain returned

mainVars == <<turn, failing, errors, verdict, file, exit>>
procVars == <<proc, asked, killed>>
pollVars == <<poll, channel>>
drainVars == <<got, terminated>>
collVars == <<coll, sampled, collErrors>>
runVars == <<pc, mode, mainVars, procVars, fake, observing, pollVars, drainVars,
          collVars, profileErr>>

NoFile == [by |-> "none", ok |-> FALSE, checked |-> FALSE]
Torn   == [by |-> "torn", ok |-> FALSE, checked |-> FALSE]
Earlier == [by |-> "earlier", ok |-> TRUE, checked |-> FALSE]
Ours(checked) ==
    [by |-> "this", ok |-> verdict = "OBSERVED", checked |-> checked]

RunInit ==
    /\ pc = "config"
    /\ mode \in {"real", "fake"}
    /\ turn = "uvb76" /\ failing = FALSE
    /\ proc = [p \in Procs |-> "none"]
    /\ asked = {} /\ killed = {}
    /\ fake = "none"
    /\ observing = FALSE
    /\ poll = "idle" /\ channel = "empty"
    /\ got = "zero" /\ terminated = FALSE
    /\ coll = [c \in Procs |-> "idle"]
    /\ sampled = {} /\ collErrors = FALSE
    /\ profileErr = FALSE
    /\ errors = FALSE /\ verdict = "PARTIAL"
    /\ file \in {NoFile, Earlier}
    /\ exit = "none"

(****************************** The start-up ********************************)

(* runMain before the run: the configuration is generated, validated,      *)
(* published, read again and compared; any failure ends the program.       *)
PublishConfig ==
    /\ pc = "config"
    /\ \/ pc' = "identity" /\ UNCHANGED exit
       \/ pc' = "done" /\ exit' = "failure"
    /\ UNCHANGED <<turn, failing, errors, verdict, file, procVars, fake,
                   observing, pollVars, drainVars, collVars, profileErr, mode>>

(* What the run reports when it returns at once, with nothing to finalize. *)
ReturnsFailed ==
    /\ errors' = TRUE /\ verdict' = "FAILED"
    /\ pc' = "write"

ValidateIdentity ==
    /\ pc = "identity"
    /\ \/ pc' = "startTovarisch" /\ UNCHANGED <<errors, verdict>>
       \/ ReturnsFailed
    /\ UNCHANGED <<turn, failing, file, exit, procVars, fake, observing,
                   pollVars, drainVars, collVars, profileErr, mode>>

StartTovarisch ==
    /\ pc = "startTovarisch"
    /\ \/ /\ pc' = "awaitTovarisch"
          /\ IF mode = "fake"
               THEN fake' = "serving" /\ UNCHANGED proc
               ELSE proc' = [proc EXCEPT !["tovarisch"] = "running"]
                    /\ UNCHANGED fake
          /\ UNCHANGED <<errors, verdict>>
       \/ ReturnsFailed /\ UNCHANGED <<proc, fake>>
    /\ UNCHANGED <<turn, failing, file, exit, asked, killed, observing,
                   pollVars, drainVars, collVars, profileErr, mode>>

(* Every later failure of the start-up goes to finalizeLifecycleFailure,   *)
(* which begins with the cleanup.                                          *)
GoesToFinalizer ==
    /\ errors' = TRUE /\ failing' = TRUE
    /\ pc' = "stopFake"

(* Mutant: the run that gives up leaves its children alone. *)
AwaitTovarisch_ReturnsAtOnce ==
    /\ pc = "awaitTovarisch"
    /\ \/ /\ proc["tovarisch"] = "running" \/ fake = "serving"
          /\ pc' = "startUvb76" /\ UNCHANGED <<errors, verdict>>
       \/ ReturnsFailed
    /\ UNCHANGED <<turn, failing, file, exit, procVars, fake, observing,
                   pollVars, drainVars, collVars, profileErr, mode>>

AwaitTovarisch ==
    /\ pc = "awaitTovarisch"
    /\ \/ /\ proc["tovarisch"] = "running" \/ fake = "serving"
          /\ pc' = "startUvb76" /\ UNCHANGED <<errors, failing>>
       \/ GoesToFinalizer
    /\ UNCHANGED <<turn, verdict, file, exit, procVars, fake, observing,
                   pollVars, drainVars, collVars, profileErr, mode>>

StartUvb76 ==
    /\ pc = "startUvb76"
    /\ \/ /\ proc' = [proc EXCEPT !["uvb76"] = "running"]
          /\ pc' = "pprof" /\ UNCHANGED <<errors, failing>>
       \/ GoesToFinalizer /\ UNCHANGED proc
    /\ UNCHANGED <<turn, verdict, file, exit, asked, killed, fake, observing,
                   pollVars, drainVars, collVars, profileErr, mode>>

(* The four answers UVB-76 owes before the collection: pprof, its          *)
(* endpoints, the status of the API, and the login.                        *)
Following == [pprof |-> "endpoints", endpoints |-> "api", api |-> "login"]

CheckUvb76 ==
    /\ pc \in DOMAIN Following
    /\ \/ /\ proc["uvb76"] = "running"
          /\ pc' = Following[pc] /\ UNCHANGED <<errors, failing>>
       \/ GoesToFinalizer
    /\ UNCHANGED <<turn, verdict, file, exit, procVars, fake, observing,
                   pollVars, drainVars, collVars, profileErr, mode>>

(* The login; then the two collectors and the poll are started.            *)
BeginCollection ==
    /\ pc = "login"
    /\ \/ /\ proc["uvb76"] = "running"
          /\ observing' = TRUE
          /\ coll' = [c \in Procs |-> "running"]
          /\ poll' = "running"
          /\ pc' = "captureStart" /\ UNCHANGED <<errors, failing>>
       \/ GoesToFinalizer /\ UNCHANGED <<observing, coll, poll>>
    /\ UNCHANGED <<turn, verdict, file, exit, procVars, fake, channel,
                   drainVars, sampled, collErrors, profileErr, mode>>

(***************************** The collection *******************************)

(* captureProfilesWithValidation: the rounds of profiles in order, each     *)
(* taken in full only if UVB-76 answers.  The one in the middle is left    *)
(* out when its time comes after the end.  profileCtx may be done before   *)
(* any round.                                                              *)
CaptureRound(from, to) ==
    /\ pc = from
    /\ \/ /\ proc["uvb76"] = "running" \/ from = "captureMid"
          /\ pc' = to /\ UNCHANGED profileErr
       \/ /\ profileErr' = TRUE
          /\ pc' \in {to, "drain"}
    /\ UNCHANGED <<mainVars, procVars, fake, observing, pollVars, drainVars,
                   collVars, mode>>

Capture ==
    \/ CaptureRound("captureStart", "captureMid")
    \/ CaptureRound("captureMid", "captureFinal")
    \/ CaptureRound("captureFinal", "drain")

Capturing == pc \in {"captureStart", "captureMid", "captureFinal"}

(* The deadline of observationCtx, or CollectAndSnapshot cancels it. *)
ObservationEnds ==
    /\ observing
    /\ observing' = FALSE
    /\ UNCHANGED <<pc, mainVars, procVars, fake, pollVars, drainVars,
                   collVars, profileErr, mode>>

(* PollTargetAuthority: a snapshot of UVB-76 shows the target with its      *)
(* scrape completed; until then it asks again.                             *)
PollCompletes ==
    /\ poll = "running" /\ proc["uvb76"] = "running"
    /\ poll' = "sent" /\ channel' = "completed"
    /\ UNCHANGED <<pc, mainVars, procVars, fake, observing, drainVars,
                   collVars, profileErr, mode>>

(* The poll gives up with an error: a terminal one, or its context is done *)
(* (pollCancel, or the observation is over).                               *)
PollGivesUp ==
    /\ poll = "running"
    /\ poll' = "sent" /\ channel' = "failed"
    /\ UNCHANGED <<pc, mainVars, procVars, fake, observing, drainVars,
                   collVars, profileErr, mode>>

PollCancelled == (~Capturing \/ ~observing) /\ PollGivesUp

(* The deferred close(pollDone). *)
PollExits ==
    /\ poll = "sent"
    /\ poll' = "ended"
    /\ UNCHANGED <<channel, pc, mainVars, procVars, fake, observing,
                   drainVars, collVars, profileErr, mode>>

(* processIsGone: a zombie is still there.  In fake mode the pid is 99999, *)
(* which may be some other process.                                        *)
MayBeGone(p) ==
    \/ mode = "fake" /\ p = "tovarisch"
    \/ proc[p] \in {"none", "reaped", "recorded"}

MayBeThere(p) ==
    \/ mode = "fake" /\ p = "tovarisch"
    \/ proc[p] \in {"running", "zombie"}

Measurable(p) ==
    \/ mode = "fake" /\ p = "tovarisch"
    \/ proc[p] = "running"

collFrame == <<pc, mainVars, procVars, fake, observing, pollVars, drainVars,
               profileErr, mode>>

(* A collector whose process has gone returns; it says so only if it has   *)
(* no sample yet.                                                          *)
ProcessGone(c) ==
    /\ coll[c] = "running" /\ MayBeGone(c)
    /\ collErrors' = (collErrors \/ c \notin sampled)
    /\ coll' = [coll EXCEPT ![c] = "ended"]
    /\ UNCHANGED <<sampled, collFrame>>

SamplingFails(c) ==
    /\ coll[c] = "running" /\ MayBeThere(c)
    /\ collErrors' = TRUE
    /\ UNCHANGED <<coll, sampled, collFrame>>

(* The sample of UVB-76 also needs the number of its goroutines. *)
Sample(c) ==
    /\ coll[c] = "running" /\ Measurable(c)
    /\ IF c = "uvb76"
         THEN coll' = [coll EXCEPT ![c] = "fetch"] /\ UNCHANGED sampled
         ELSE sampled' = sampled \cup {c} /\ UNCHANGED coll
    /\ UNCHANGED <<collErrors, collFrame>>

(* FetchGoroutineCount; the end of the observation cuts the request, which *)
(* is an error like any other.                                             *)
FetchGoroutineCount(c) ==
    /\ coll[c] = "fetch"
    /\ coll' = [coll EXCEPT ![c] = "running"]
    /\ \/ proc[c] = "running" /\ sampled' = sampled \cup {c}
          /\ UNCHANGED collErrors
       \/ collErrors' = TRUE /\ UNCHANGED sampled
    /\ UNCHANGED collFrame

CollectorStops(c) ==
    /\ coll[c] = "running" /\ ~observing
    /\ coll' = [coll EXCEPT ![c] = "ended"]
    /\ UNCHANGED <<sampled, collErrors, collFrame>>

Collect(c) ==
    \/ ProcessGone(c) \/ SamplingFails(c) \/ Sample(c)
    \/ FetchGoroutineCount(c) \/ CollectorStops(c)

(* drainTargetPoll, entered after pollCancel: the result and the end of    *)
(* the goroutine, in either order, or the deadline of the drain.           *)
DrainReceives ==
    /\ pc = "drain" /\ channel # "empty"
    /\ got' = channel /\ channel' = "empty"
    /\ UNCHANGED <<terminated, pc, mainVars, procVars, fake, observing, poll,
                   collVars, profileErr, mode>>

DrainSeesEnd ==
    /\ pc = "drain" /\ poll = "ended" /\ ~terminated
    /\ terminated' = TRUE
    /\ UNCHANGED <<got, pc, mainVars, procVars, fake, observing, pollVars,
                   collVars, profileErr, mode>>

(* What runLab makes of the poll: it must have ended without an error,     *)
(* which is that the scrape was completed.                                 *)
DrainEnds ==
    /\ pc = "drain"
    /\ LET drained == got # "zero" /\ terminated
       IN  \/ drained /\ errors' = (errors \/ got # "completed")
           \/ ~drained /\ errors' = TRUE
    /\ pc' = "join"
    /\ UNCHANGED <<turn, failing, verdict, file, exit, procVars, fake,
                   observing, pollVars, drainVars, collVars, profileErr, mode>>

(* CollectAndSnapshot waits for both collectors; then runLab validates the *)
(* profiles it finds in the directory, and writes the series and deltas.   *)
Snapshot ==
    /\ pc = "join" /\ ~observing
    /\ \A c \in Procs : coll[c] = "ended"
    /\ \E valid, written \in BOOLEAN :
          errors' = (errors \/ collErrors \/ profileErr
                     \/ ~valid \/ ~written)
    /\ pc' = "stopFake"
    /\ UNCHANGED <<turn, failing, verdict, file, exit, procVars, fake,
                   observing, pollVars, drainVars, collVars, profileErr,
                   mode>>

(******************************* The cleanup ********************************)

(* Shutdown has five seconds to wait for the requests under way; whatever   *)
(* it returns, the fake is let go of.                                      *)
StopFake ==
    /\ pc = "stopFake"
    /\ \/ fake # "serving" /\ UNCHANGED <<fake, errors>>
       \/ fake = "serving" /\ fake' = "stopped" /\ UNCHANGED errors
       \/ /\ fake = "serving"
          /\ fake' \in {"stopped", "lingering"} /\ errors' = TRUE
    /\ pc' = "terminate"
    /\ UNCHANGED <<turn, failing, verdict, file, exit, procVars, observing,
                   pollVars, drainVars, collVars, profileErr, mode>>

(* UVB-76 first, then tovarisch. *)
NextChild ==
    IF turn = "uvb76"
      THEN turn' = "tovarisch" /\ pc' = "terminate"
      ELSE pc' = "verify" /\ UNCHANGED turn

cleanFrame == <<failing, verdict, file, exit, fake, observing, pollVars,
                drainVars, collVars, profileErr, mode>>

(* Mutant: a child that is no longer there counts as shut down. *)
Terminate_TakesReaped ==
    /\ pc = "terminate"
    /\ \/ proc[turn] \in {"none", "reaped", "recorded"}
          /\ NextChild /\ UNCHANGED <<asked, errors>>
       \/ /\ proc[turn] \in {"running", "zombie"}
          /\ asked' = asked \cup {turn}
          /\ pc' = "wait" /\ UNCHANGED <<turn, errors>>
    /\ UNCHANGED <<proc, killed, cleanFrame>>

(* gracefulShutdown: SIGTERM reaches a child that was not reaped; for one  *)
(* that was, Signal fails and the child counts as not shut down.           *)
Terminate ==
    /\ pc = "terminate"
    /\ \/ proc[turn] = "none" /\ NextChild /\ UNCHANGED <<asked, errors>>
       \/ /\ proc[turn] \in {"running", "zombie"}
          /\ asked' = asked \cup {turn}
          /\ pc' = "wait" /\ UNCHANGED <<turn, errors>>
       \/ /\ proc[turn] \in {"reaped", "recorded"}
          /\ errors' = TRUE
          /\ pc' = "kill" /\ UNCHANGED <<turn, asked>>
    /\ UNCHANGED <<proc, killed, cleanFrame>>

(* ps.done or ten seconds, whichever select takes. *)
WaitForExit ==
    /\ pc = "wait"
    /\ \/ proc[turn] = "recorded" /\ NextChild /\ UNCHANGED errors
       \/ errors' = TRUE /\ pc' = "kill" /\ UNCHANGED turn
    /\ UNCHANGED <<procVars, cleanFrame>>

(* Mutant: the child is waited for and not killed. *)
ForceKill_OnlyWaits ==
    /\ pc = "kill"
    /\ IF proc[turn] \in {"running", "zombie"}
         THEN pc' = "await" /\ UNCHANGED turn
         ELSE NextChild
    /\ UNCHANGED <<procVars, errors, cleanFrame>>

(* forceKill: a child that was reaped is not waited for. *)
ForceKill ==
    /\ pc = "kill"
    /\ IF proc[turn] \in {"running", "zombie"}
         THEN /\ proc' = [proc EXCEPT ![turn] = "zombie"]
              /\ killed' = killed \cup {turn}
              /\ pc' = "await" /\ UNCHANGED turn
         ELSE NextChild /\ UNCHANGED <<proc, killed>>
    /\ UNCHANGED <<asked, errors, cleanFrame>>

AwaitKilled ==
    /\ pc = "await" /\ proc[turn] = "recorded"
    /\ NextChild
    /\ UNCHANGED <<procVars, errors, cleanFrame>>

Cleanup == StopFake \/ Terminate \/ WaitForExit \/ ForceKill \/ AwaitKilled

(* The ports may also be held by a program that is not of the run; a fake  *)
(* that lingers has closed its listener.                                   *)
PortsMayBeFree == fake # "serving" /\ \A p \in Procs : proc[p] # "running"

(* cleanup sets the pid of a child that is recorded to zero, and a child   *)
(* without a pid is removed.  The fake pid is never set to zero.           *)
MaySeeRemoved(p)  == proc[p] \in {"none", "recorded"} \/ MayBeGone(p)
MaySeeResidual(p) == proc[p] # "recorded" /\ MayBeThere(p)

(* classifyLabResult. *)
classifyLabResult(failures, complete) ==
    CASE failures              -> "FAILED"
      [] ~failures /\ complete -> "OBSERVED"
      [] OTHER                 -> "PARTIAL"

(* The end of a run that was not aborted: what cleanup left behind, and    *)
(* the classification.                                                     *)
VerifyAndClassify ==
    /\ pc = "verify" /\ ~failing
    /\ \/ PortsMayBeFree /\ UNCHANGED errors
       \/ errors' = TRUE
    /\ \E removed \in BOOLEAN :
          /\ IF removed THEN \A p \in Procs : MaySeeRemoved(p)
                        ELSE \E p \in Procs : MaySeeResidual(p)
          /\ verdict' = classifyLabResult(
                            errors' \/ ~removed,
                            got = "completed" /\ sampled = Procs)
    /\ pc' = "persist"
    /\ UNCHANGED <<turn, failing, file, exit, procVars, fake, observing,
                   pollVars, drainVars, collVars, profileErr, mode>>

(* finalizeLifecycleFailureWithOps after its cleanup: what is left behind  *)
(* is reported, and an earlier result is removed; if it cannot be, nothing *)
(* is published.                                                           *)
Finalize ==
    /\ pc = "verify" /\ failing
    /\ verdict' = "FAILED"
    /\ \/ file' = NoFile /\ pc' = "persist"
       \/ file # NoFile /\ pc' = "write" /\ UNCHANGED file
    /\ UNCHANGED <<turn, failing, errors, exit, procVars, fake, observing,
                   pollVars, drainVars, collVars, profileErr, mode>>

(***************************** The publication ******************************)

(* BuildResultFromLabResult wants the pid of a real tovarisch. *)
BuildResult ==
    /\ pc = "persist" /\ ~failing /\ mode = "fake"
    /\ ReturnsFailed
    /\ UNCHANGED <<turn, failing, file, exit, procVars, fake, observing,
                   pollVars, drainVars, collVars, profileErr, mode>>

(* persistResult: written aside and renamed, read again and compared.  A   *)
(* failure before the rename changes nothing; a file that is not confirmed *)
(* is removed, if that succeeds.                                           *)
PersistResult ==
    /\ pc = "persist" /\ (failing \/ mode = "real")
    /\ \/ file' = Ours(TRUE) /\ UNCHANGED <<errors, verdict>>
       \/ /\ file' \in {file, Ours(FALSE), NoFile}
          /\ errors' = TRUE /\ verdict' = "FAILED"
    /\ pc' = "write"
    /\ UNCHANGED <<turn, failing, exit, procVars, fake, observing, pollVars,
                   drainVars, collVars, profileErr, mode>>

(* runMain writes the result of runLab over whatever is there.  The write  *)
(* may fail before it touches the file, or in the middle.                  *)
WriteResult ==
    /\ pc = "write"
    /\ \/ /\ file' = Ours(FALSE)
          /\ exit' = IF verdict = "OBSERVED" THEN "success" ELSE "failure"
       \/ file' \in {file, Torn} /\ exit' = "failure"
    /\ pc' = "done"
    /\ UNCHANGED <<turn, failing, errors, verdict, procVars, fake, observing,
                   pollVars, drainVars, collVars, profileErr, mode>>

(************************** The world around the run ************************)

procFrame == <<pc, mainVars, asked, killed, fake, observing, pollVars,
               drainVars, collVars, profileErr, mode>>

(* A child dies, of SIGTERM or on its own. *)
Dies(p) ==
    /\ proc[p] = "running"
    /\ proc' = [proc EXCEPT ![p] = "zombie"]
    /\ UNCHANGED procFrame

(* The monitor of a child: cmd.Wait, then the fields and done. *)
Monitor(p) ==
    /\ \/ proc[p] = "zombie" /\ proc' = [proc EXCEPT ![p] = "reaped"]
       \/ proc[p] = "reaped" /\ proc' = [proc EXCEPT ![p] = "recorded"]
    /\ UNCHANGED procFrame

Finished == pc = "done" /\ UNCHANGED runVars

Main ==
    \/ PublishConfig \/ ValidateIdentity \/ StartTovarisch \/ AwaitTovarisch
    \/ StartUvb76 \/ CheckUvb76 \/ BeginCollection
    \/ Capture \/ DrainEnds \/ Snapshot
    \/ Cleanup \/ VerifyAndClassify \/ Finalize
    \/ BuildResult \/ PersistResult \/ WriteResult

RunNext ==
    \/ Main \/ DrainReceives \/ DrainSeesEnd
    \/ ObservationEnds
    \/ PollCompletes \/ PollGivesUp \/ PollExits
    \/ \E p \in Procs : Collect(p) \/ Dies(p) \/ Monitor(p)
    \/ Finished

RunSpec == RunInit /\ [][RunNext]_runVars

(* The lab's goroutines are scheduled, its deadlines pass, and a collector *)
(* whose context is done takes that branch of its select in the end.       *)
FairRunSpec ==
    /\ RunSpec
    /\ WF_runVars(Main) /\ WF_runVars(ObservationEnds)
    /\ WF_runVars(PollCancelled) /\ WF_runVars(PollExits)
    /\ \A p \in Procs :
          /\ WF_runVars(Monitor(p)) /\ WF_runVars(FetchGoroutineCount(p))
          /\ SF_runVars(CollectorStops(p))

(******************************** Properties ********************************)

(* What a successful run has seen: both children, neither of them the      *)
(* fake, had not been reaped when they were told to stop, and stopped      *)
(* without being killed; the target's scrape completed; both were sampled; *)
(* and no round of profiles was missed.                                    *)
Observed ==
    /\ mode = "real"
    /\ \A p \in Procs : proc[p] = "recorded" /\ p \in asked \ killed
    /\ got = "completed" /\ terminated
    /\ sampled = Procs
    /\ ~profileErr

(* The lab succeeds, or publishes that it did, only if it has seen all     *)
(* that (classifyLabResult).  A child that died early goes unnoticed by a  *)
(* collector that has a sample, and must be noticed by the cleanup.        *)
OutcomeProven ==
    exit = "success" \/ (file.by = "this" /\ file.ok) => Observed

Live ==
    {<<"child", p>> : p \in {q \in Procs : proc[q] \in {"running", "zombie"}}}
    \cup {<<"collector", c>> :
              c \in {d \in Procs : coll[d] \in {"running", "fetch"}}}
    \cup {<<"server", p>> : p \in {q \in {"tovarisch"} : fake = "serving"}}

Used ==
    {<<"child", p>> : p \in {q \in Procs : proc[q] # "none"}}
    \cup {<<"collector", c>> : c \in {d \in Procs : coll[d] # "idle"}}
    \cup {<<"server", p>> :
              p \in {q \in {"tovarisch"} : fake # "none"}}

Lab == INSTANCE LabRun WITH
    Needed    <- {"child", "collector"} \X Procs,
    live      <- Live,
    used      <- Used,
    published <- file.by = "this",
    outcome   <- IF exit = "none" THEN "pending" ELSE exit

(* Nothing is published and the run does not end while a child or a        *)
(* collector is left, or a fake server that was not shut down (cleanup,    *)
(* cleanupOwnedProcesses, CollectAndSnapshot).  It says nothing of the     *)
(* goroutines of the poll and of the monitors, nor of a fake whose         *)
(* Shutdown failed, which may still answer a request.                      *)
LabKept == Lab!LabSpec

(* A run ends, whatever its children do (gracefulShutdown, forceKill,      *)
(* drainTargetPoll, CollectAndSnapshot), given that a child is gone once   *)
(* it was sent SIGKILL.                                                    *)
RunEnds == <>(pc = "done")

=============================================================================
