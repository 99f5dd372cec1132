----------------------------- MODULE SandboxRunner -----------------------------
(***************************************************************************)
(* The command that DockerSandboxRunner.run or HostRunner.run is asked to  *)
(* run (runtime/sandbox/docker.py, host.py): the coroutine, its child (the *)
(* shell, or the docker client), the docker daemon with the container, and *)
(* docker rm --force.  The caller may cancel at every await, the timer may *)
(* fire at any moment of communicate().                                    *)
(*                                                                         *)
(* The variables are those of the latest command; Launch forgets the one   *)
(* before it.  Output, exit code and durations are left out, and so are    *)
(* faults of the docker client and daemon themselves.                      *)
(***************************************************************************)
EXTENDS Naturals

CONSTANT MaxCancels       \* bound: how often the caller cancels one command

ASSUME CancelsAssumption == MaxCancels \in Nat

VARIABLES
    isolation,    \* of the runner: "none" is the host's, "container" docker's
    runner,       \* where run() is
    reason,       \* what interrupted it
    outcome,      \* how it ended; os_error: an OSError left it
    process,      \* its child; closed: the transport has let go of it
    background,   \* what a shell started; attached: it holds the pipes
    request,      \* the docker client's to the daemon
    container,
    remover,      \* docker rm --force
    cancels       \* how often the caller has cancelled

command == <<isolation, background, request, container>>
coroutine == <<runner, reason, outcome>>
sandbox == <<isolation, runner, reason, outcome, process, background, request,
             container, remover, cancels>>

SandboxTypeOK ==
    /\ isolation \in {"none", "container"}
    /\ runner \in {"idle", "connecting", "communicate", "waiting",
                   "starting_rm", "removing", "ended"}
    /\ reason \in {"none", "timeout", "cancel"}
    /\ outcome \in {"undecided", "completed", "timed_out", "cancelled", "os_error"}
    /\ process \in {"none", "running", "exited", "closed"}
    /\ background \in {"none", "attached", "detached"}
    /\ request \in {"none", "create", "start", "refused"}
    /\ container \in {"absent", "created", "running", "gone"}
    /\ remover \in {"none", "running", "ended", "failed", "killed"}
    /\ cancels \in 0..MaxCancels

SandboxInit ==
    /\ isolation \in {"none", "container"}
    /\ runner = "idle" /\ reason = "none" /\ outcome = "undecided"
    /\ process = "none" /\ background = "none" /\ request = "none"
    /\ container = "absent" /\ remover = "none" /\ cancels = 0

InFlight == request \in {"create", "start"}

(* The container exists, or may yet.                                       *)
ContainerLeft == container \in {"created", "running"} \/ InFlight

(* The command's own code runs; it runs, or may yet.                       *)
Runs ==
    \/ container = "running"
    \/ background # "none"
    \/ isolation = "none" /\ process = "running"

MayRun == Runs \/ (container = "created" /\ request = "start")

------------------------------------------------------------------------------
(* run(): the way to a result.                                             *)

End(how) == runner' = "ended" /\ outcome' = how

Launch ==
    /\ runner \in {"idle", "ended"}
    /\ \/ End("os_error") /\ process' = "none"
       \/ runner' = "connecting" /\ outcome' = "undecided" /\ process' = "running"
    /\ reason' = "none" /\ background' = "none" /\ request' = "none"
    /\ container' = "absent" /\ remover' = "none" /\ cancels' = 0
    /\ UNCHANGED isolation

Connected ==
    /\ runner = "connecting"
    /\ runner' = "communicate"
    /\ UNCHANGED <<command, reason, outcome, process, remover, cancels>>

(* communicate() ends when the child has and its pipes are closed.         *)
Complete ==
    /\ runner = "communicate"
    /\ process = "closed"
    /\ End("completed")
    /\ UNCHANGED <<command, reason, process, remover, cancels>>

(* A variant of the next definition: the child is not killed.              *)
InterruptWithoutKill(why) ==
    /\ runner = "communicate"
    /\ reason' = why
    /\ runner' = "waiting"
    /\ UNCHANGED <<command, process, outcome, remover>>

(* The handlers of TimeoutError and of CancelledError up to their first    *)
(* await.  kill() raises ProcessLookupError, an OSError, when the process  *)
(* has ended and the transport is closed, but communicate() not resumed.   *)
Interrupt(why) ==
    /\ runner = "communicate"
    /\ reason' = why
    /\ IF process = "closed"
         THEN End("os_error") /\ UNCHANGED process
         ELSE process' = "exited" /\ runner' = "waiting" /\ UNCHANGED outcome
    /\ UNCHANGED <<command, remover>>

(* A variant of the next definition: it waits for the pipes of a child     *)
(* that has ended, however long a descendant holds them.                   *)
TimeoutWhileRunning ==
    process = "running" /\ Interrupt("timeout") /\ UNCHANGED cancels

Timeout == Interrupt("timeout") /\ UNCHANGED cancels

Interrupted == IF reason = "timeout" THEN "timed_out" ELSE "cancelled"

(* A variant of the next definition: a timeout does not remove.            *)
StopWaitingLeaves ==
    /\ runner = "waiting"
    /\ End(Interrupted)
    /\ UNCHANGED <<command, reason, process, remover, cancels>>

(* process.wait() is over: _force_remove, whose rm may fail to start.      *)
StopWaiting ==
    /\ runner = "waiting"
    /\ \/ isolation = "none" /\ End(Interrupted) /\ UNCHANGED remover
       \/ isolation = "container" /\ End(Interrupted) /\ remover' = "failed"
       \/ /\ isolation = "container" /\ remover' = "running"
          /\ runner' = "starting_rm" /\ UNCHANGED outcome
    /\ UNCHANGED <<command, reason, process, cancels>>

RemoverStarted ==
    /\ runner = "starting_rm"
    /\ runner' = "removing"
    /\ UNCHANGED <<command, reason, outcome, process, remover, cancels>>

(* rm has ended, or five seconds have passed: rm goes on by itself.        *)
StopRemoving ==
    /\ runner = "removing"
    /\ End(Interrupted)
    /\ UNCHANGED <<command, reason, process, remover, cancels>>

RunnerStep ==
    \/ Connected \/ Complete \/ Timeout \/ StopWaiting \/ RemoverStarted
    \/ StopRemoving

------------------------------------------------------------------------------
(* The caller cancels.                                                     *)

(* Before run()'s try block: asyncio kills and reaps the new process.      *)
CancelLaunch ==
    /\ runner = "connecting"
    /\ process' = IF process = "running" THEN "exited" ELSE process
    /\ reason' = "cancel"
    /\ End("cancelled")
    /\ UNCHANGED <<command, remover>>

(* In a handler: the rest of it is skipped.  An rm that is being started   *)
(* is killed, before or after its request; one that runs goes on.          *)
CancelCleanup ==
    /\ runner \in {"waiting", "starting_rm", "removing"}
    /\ remover' = IF runner = "starting_rm" /\ remover = "running"
                    THEN "killed" ELSE remover
    /\ reason' = "cancel"
    /\ End("cancelled")
    /\ UNCHANGED <<command, process>>

Cancel ==
    /\ cancels < MaxCancels
    /\ cancels' = cancels + 1
    /\ CancelLaunch \/ Interrupt("cancel") \/ CancelCleanup

------------------------------------------------------------------------------
(* The processes, the docker client, the daemon and docker rm.             *)

ShellStarts ==
    /\ isolation = "none" /\ process = "running" /\ background = "none"
    /\ background' \in {"attached", "detached"}
    /\ UNCHANGED <<coroutine, isolation, process, request, container, remover, cancels>>

BackgroundEnds ==
    /\ background # "none"
    /\ background' = "none"
    /\ UNCHANGED <<coroutine, isolation, process, request, container, remover, cancels>>

(* A variant of the next definition: the client does not wait.             *)
ProcessExitsEarly ==
    /\ process = "running"
    /\ process' = "exited"
    /\ UNCHANGED <<coroutine, command, remover, cancels>>

(* The shell ends when it likes; docker run --rm when the container it     *)
(* started is gone, or the daemon has refused it one.                      *)
ProcessExits ==
    /\ process = "running"
    /\ isolation = "container" => container = "gone" \/ request = "refused"
    /\ process' = "exited"
    /\ UNCHANGED <<coroutine, command, remover, cancels>>

PipesClose ==
    /\ process = "exited" /\ background # "attached"
    /\ process' = "closed"
    /\ UNCHANGED <<coroutine, command, remover, cancels>>

ClientAsks ==
    /\ isolation = "container" /\ process = "running" /\ request = "none"
    /\ \/ container = "absent" /\ request' = "create"
       \/ container = "created" /\ request' = "start"
    /\ UNCHANGED <<coroutine, isolation, process, background, container, remover, cancels>>

(* The daemon does what it was asked even when the client is dead by then. *)
DaemonAnswers ==
    /\ InFlight
    /\ \/ request = "create" /\ container' = "created" /\ request' = "none"
       \/ request = "create" /\ UNCHANGED container /\ request' = "refused"
       \/ request = "start" /\ container = "created" /\ container' = "running"
          /\ request' = "none"
       \/ request = "start" /\ container' = "gone" /\ request' = "refused"
    /\ UNCHANGED <<coroutine, isolation, process, background, remover, cancels>>

(* The command ends and the daemon removes its container (--rm).           *)
CommandEnds ==
    /\ container = "running"
    /\ container' = "gone"
    /\ UNCHANGED <<coroutine, isolation, process, background, request, remover, cancels>>

(* It removes what is there now: not what is still being created.          *)
RemoverEnds ==
    /\ remover = "running"
    /\ container' = IF container \in {"created", "running"} THEN "gone" ELSE container
    /\ remover' = "ended"
    /\ UNCHANGED <<coroutine, isolation, process, background, request, cancels>>

WorldStep ==
    \/ ShellStarts \/ BackgroundEnds \/ ProcessExits \/ PipesClose \/ ClientAsks
    \/ DaemonAnswers \/ CommandEnds \/ RemoverEnds
==============================================================================
