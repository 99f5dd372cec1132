------------------------------- MODULE ToolCalls -------------------------------
(***************************************************************************)
(* The tool calls of one run and their surroundings: approval policy, tool *)
(* registry and runtime, file and shell tool over one file of a workspace, *)
(* the detector of repeated failures, and the verification of an answer    *)
(* by CompositeTaskVerifier (runtime/loop.py _execute_tool_call,           *)
(* runtime/policies, runtime/tools, runtime/verification.py).  Commands of *)
(* the shell tool and of the verifier go through SandboxRunner.            *)
(*                                                                         *)
(* Out of the model: the model's turns (any call may come next), outputs   *)
(* and their rendering, and paths: calls of one kind are the same call.    *)
(***************************************************************************)
EXTENDS SandboxRunner, Sequences, SequencesExt

CONSTANTS Policies,       \* the approval policies a run may have
          VerifierLists,  \* the verifiers of a run, in their order
          Threshold       \* RepeatedFailedActionDetector.threshold

Call == {"write", "read", "shell"}
Content == {"absent", "wanted", "other"}

Policy == [allow_file_writes : BOOLEAN, allow_shell : BOOLEAN,
           denied_tools : SUBSET {"file", "shell"}]

ASSUME ToolsAssumption ==
    /\ Policies \subseteq Policy
    /\ VerifierLists \subseteq Seq({"file", "command"})
    /\ Threshold \in Nat /\ Threshold >= 2

VARIABLES
    policy,
    verifiers,
    phase,      \* of the run; in "tool" and "verify_command" it awaits run()
    file,       \* the content of the file
    stray,      \* commands before the latest still run
    recent,     \* the last Threshold entries of tool_history
    warned,     \* the detector's answer after the last of them
    streak,     \* auxiliary: identical failures at the history's end
    due,        \* the verifiers that have not spoken yet
    passed,     \* whether all that have were content
    meddled     \* auxiliary: a command wrote the file after it was checked

run == <<policy, verifiers, phase>>
history == <<recent, warned, streak>>
verification == <<due, passed, meddled>>
tools == <<policy, verifiers, phase, file, stray, recent, warned, streak, due, passed,
           meddled>>
vars == <<sandbox, tools>>

Execution == [call : Call, success : BOOLEAN]

TypeOK ==
    /\ SandboxTypeOK
    /\ policy \in Policies /\ verifiers \in VerifierLists
    /\ phase \in {"turn", "tool", "verify", "verify_command", "completed",
                  "failed", "cancelled"}
    /\ file \in Content /\ stray \in BOOLEAN
    /\ recent \in Seq(Execution) /\ Len(recent) <= Threshold
    /\ warned \in BOOLEAN /\ streak \in 0..Threshold
    /\ due \in Seq({"file", "command"}) /\ passed \in BOOLEAN /\ meddled \in BOOLEAN

Init ==
    /\ SandboxInit
    /\ policy \in Policies /\ verifiers \in VerifierLists /\ phase = "turn"
    /\ file \in Content /\ stray = FALSE
    /\ recent = <<>> /\ warned = FALSE /\ streak = 0
    /\ due = <<>> /\ passed = TRUE /\ meddled = FALSE

------------------------------------------------------------------------------
(* Approval.                                                               *)

tool(call) == IF call = "shell" THEN "shell" ELSE "file"

(* ToolApprovalPolicy.evaluate: allow, or else deny or require approval.   *)
Allows(call) ==
    /\ tool(call) \notin policy.denied_tools
    /\ \/ call = "read"
       \/ call = "write" /\ policy.allow_file_writes
       \/ call = "shell" /\ policy.allow_shell

------------------------------------------------------------------------------
(* The history and its detector.                                           *)

(* A variant of the next definition: the calls may differ.                 *)
DetectsAnyCall(executions) ==
    /\ Len(executions) >= Threshold
    /\ \A i \in DOMAIN executions : ~executions[i].success

(* RepeatedFailedActionDetector.detect on the last Threshold executions.   *)
Detects(executions) ==
    /\ Len(executions) >= Threshold
    /\ \A i \in DOMAIN executions :
           ~executions[i].success /\ executions[i].call = executions[1].call

(* A variant of the next definition: one entry too many is kept.           *)
RecordOneMore(call, success) ==
    LET kept == IF Len(recent) <= Threshold THEN recent ELSE Tail(recent)
    IN  /\ recent' = Append(kept, [call |-> call, success |-> success])
        /\ UNCHANGED <<warned, streak>>

Record(call, success) ==
    LET kept == IF Len(recent) < Threshold THEN recent ELSE Tail(recent)
    IN  /\ recent' = Append(kept, [call |-> call, success |-> success])
        /\ warned' = Detects(recent')
        /\ streak' = CASE success -> 0
                       [] ~success /\ streak > 0 /\ Last(recent).call = call ->
                              IF streak < Threshold THEN streak + 1 ELSE streak
                       [] OTHER -> 1

------------------------------------------------------------------------------
(* Calls.                                                                  *)

(* Refused by the policy, unknown to the registry, or failing in the tool  *)
(* before it did anything; of any kind, unclassified ones included.        *)
FailCall(call) ==
    /\ phase = "turn"
    /\ Record(call, FALSE)
    /\ UNCHANGED <<sandbox, run, file, stray, verification>>

ReadFile ==
    /\ phase = "turn" /\ Allows("read")
    /\ file # "absent"
    /\ Record("read", TRUE)
    /\ UNCHANGED <<sandbox, run, file, stray, verification>>

(* The file is truncated when it is opened: a write that fails later than  *)
(* that leaves something else, often nothing, in it.                       *)
WriteFile ==
    /\ phase = "turn" /\ Allows("write")
    /\ \/ file' \in {"wanted", "other"} /\ Record("write", TRUE)
       \/ file' = "other" /\ Record("write", FALSE)
    /\ UNCHANGED <<sandbox, run, stray, verification>>

(* The policy catches nothing, FileTool no TypeError, and ShellTool only   *)
(* OSErrors of its runner: an argument of another type, or a command with  *)
(* a NUL character, ends the run.                                          *)
CallRaises ==
    /\ phase = "turn"
    /\ phase' = "failed"
    /\ UNCHANGED <<sandbox, policy, verifiers, file, stray, history, verification>>

StartCommand == Launch /\ stray' = (stray \/ MayRun)

RunShell ==
    /\ phase = "turn" /\ Allows("shell")
    /\ StartCommand
    /\ phase' = "tool"
    /\ UNCHANGED <<policy, verifiers, file, history, verification>>

Cancelled ==
    /\ phase' = "cancelled"
    /\ UNCHANGED <<sandbox, policy, verifiers, file, stray, history, verification>>

(* ShellTool.execute after runner.run: an OSError is a failure to launch.  *)
ShellReturns ==
    /\ phase = "tool" /\ runner = "ended"
    /\ \/ outcome = "cancelled" /\ Cancelled
       \/ /\ outcome # "cancelled"
          /\ \E success \in BOOLEAN :
                 (success => outcome = "completed") /\ Record("shell", success)
          /\ phase' = "turn"
          /\ UNCHANGED <<sandbox, policy, verifiers, file, stray, verification>>

------------------------------------------------------------------------------
(* Verification of an answer.                                              *)

BeginVerification ==
    /\ phase = "turn"
    /\ phase' = "verify" /\ due' = verifiers /\ passed' = TRUE
    /\ meddled' = FALSE
    /\ UNCHANGED <<sandbox, policy, verifiers, file, stray, history>>

Judge(verdict) == due' = Tail(due) /\ passed' = (passed /\ verdict)

(* FileStateVerifier: the file must exist with the content that is wanted; *)
(* one that is no UTF-8 text, or cannot be read, raises out of the run.    *)
VerifyFile ==
    /\ phase = "verify" /\ due # <<>> /\ Head(due) = "file"
    /\ \/ Judge(file = "wanted") /\ meddled' = FALSE /\ UNCHANGED phase
       \/ file = "other" /\ phase' = "failed" /\ UNCHANGED verification
    /\ UNCHANGED <<sandbox, policy, verifiers, file, stray, history>>

VerifyCommand ==
    /\ phase = "verify" /\ due # <<>> /\ Head(due) = "command"
    /\ StartCommand
    /\ phase' = "verify_command"
    /\ UNCHANGED <<policy, verifiers, file, history, verification>>

(* A variant of the next definition: every command that ends is content.   *)
CommandPasses ==
    /\ phase = "verify_command" /\ runner = "ended"
    /\ Judge(TRUE) /\ phase' = "verify"
    /\ UNCHANGED <<sandbox, policy, verifiers, file, stray, history, meddled>>

(* CommandTaskVerifier after runner.run: an OSError leaves it and the run. *)
CommandReturns ==
    /\ phase = "verify_command" /\ runner = "ended"
    /\ \/ outcome = "cancelled" /\ Cancelled
       \/ /\ outcome = "os_error" /\ phase' = "failed"
          /\ UNCHANGED <<sandbox, policy, verifiers, file, stray, history, verification>>
       \/ /\ outcome \in {"completed", "timed_out"}
          /\ \E zero \in BOOLEAN : Judge(outcome = "completed" /\ zero)
          /\ phase' = "verify"
          /\ UNCHANGED <<sandbox, policy, verifiers, file, stray, history, meddled>>

Conclude ==
    /\ phase = "verify" /\ due = <<>>
    /\ phase' = IF passed THEN "completed" ELSE "turn"
    /\ meddled' = (meddled /\ passed)
    /\ UNCHANGED <<sandbox, policy, verifiers, file, stray, history, due, passed>>

------------------------------------------------------------------------------
(* What goes on beside the run.                                            *)

CommandWrites ==
    /\ Runs \/ stray
    /\ file' \in Content
    /\ meddled' = (phase \in {"verify", "verify_command", "completed"})
    /\ UNCHANGED <<sandbox, run, stray, history, due, passed>>

StrayEnds ==
    /\ stray /\ stray' = FALSE
    /\ UNCHANGED <<sandbox, run, file, history, verification>>

Awaiting == phase \in {"tool", "verify_command"}

RunTurn ==
    \/ \E call \in Call : FailCall(call)
    \/ ReadFile \/ WriteFile \/ CallRaises \/ RunShell \/ ShellReturns
    \/ BeginVerification \/ VerifyFile \/ VerifyCommand \/ CommandReturns
    \/ Conclude

RunnerTurn == Awaiting /\ RunnerStep /\ UNCHANGED tools
CancelTurn == Awaiting /\ Cancel /\ UNCHANGED tools
WorldTurn == WorldStep /\ UNCHANGED tools
RemoverTurn == RemoverEnds /\ UNCHANGED tools

Next ==
    \/ RunTurn \/ RunnerTurn \/ CancelTurn \/ WorldTurn
    \/ CommandWrites \/ StrayEnds

(* The event loop goes on and its timers fire; a docker rm ends.  Nothing  *)
(* is assumed of commands, of the docker client or of the model's turns.   *)
Returns == ShellReturns \/ CommandReturns

Spec ==
    /\ Init /\ [][Next]_vars
    /\ WF_vars(RunnerTurn) /\ WF_vars(Returns) /\ WF_vars(RemoverTurn)

------------------------------------------------------------------------------
(* Properties.                                                             *)

HasVerifier(kind) == \E i \in DOMAIN verifiers : verifiers[i] = kind

ShellApproved == policy.allow_shell /\ "shell" \notin policy.denied_tools
WritesApproved == policy.allow_file_writes /\ "file" \notin policy.denied_tools

(* A result that docker run gave was given by a command that is over: no   *)
(* container of it exists or is still being made, whatever the order in    *)
(* which client, daemon, timer and caller acted (docker.py 147-152).       *)
CompletedLeavesNothing ==
    outcome = "completed" /\ isolation = "container" => ~ContainerLeft

(* A command that was interrupted when the daemon had nothing of it in     *)
(* hand has its container removed in the end, also when rm outlives its    *)
(* five seconds: unless rm could not start, or the caller has cancelled    *)
(* before rm did (docker.py 105-145).                                      *)
InterruptedIsRemoved ==
    (runner = "waiting" /\ isolation = "container" /\ ~InFlight)
        ~> \/ ~ContainerLeft
           \/ runner = "ended" /\ remover = "failed"
           \/ outcome = "cancelled" /\ remover \in {"none", "killed"}

(* A command that hangs, with its container or its pipes, does not keep    *)
(* the run: the tool and the verifier get their answer (docker.py 127-134, *)
(* host.py 23-28; the caller may cancel, or not).                          *)
CommandsReturn == Awaiting ~> ~Awaiting

CommandsApproved == ShellApproved \/ HasVerifier("command")

(* What a command has left behind the result that the run got of it: what  *)
(* a shell put into the background, or a container whose removal was cut   *)
(* off, could not begin, or is still under way.                            *)
Outlives ==
    \/ background # "none"
    \/ /\ isolation = "container"
       /\ \/ outcome = "timed_out" /\ remover \in {"running", "failed"}
          \/ outcome = "cancelled" /\ remover # "ended"

(* Whoever changes the file is known: a call that was granted, or a        *)
(* command that was approved and that the run awaits, or that it knows     *)
(* may outlive its result.  Nothing of a command writes after a result it  *)
(* gave itself, in a container, after a docker rm that ended (a container  *)
(* that comes later is never started), after kill() on the host but for    *)
(* its background, or after an OSError of the runner: in whatever order    *)
(* client, daemon, timer, rm and caller acted (approval.py 35-52,          *)
(* host.py 23-40, docker.py 105-152, shell.py 62-102).                     *)
WritersAreKnown ==
    [][file' # file =>
           \/ WriteFile /\ WritesApproved
           \/ CommandsApproved /\ (Awaiting \/ stray \/ Outlives)]_vars

(* The detector warns exactly when the last Threshold executions are       *)
(* failures of one call, counted one by one (loop_detection.py 23-34).     *)
WarningIsStreak == warned <=> streak >= Threshold

(* An answer is accepted only after a verification command that ended in   *)
(* time and by itself, and with the file as it must be: unless a command   *)
(* has written it since it was checked (verification.py 82, 130, 162-172). *)
CompletedIsVerified ==
    phase = "completed" =>
        /\ HasVerifier("command") => outcome = "completed"
        /\ HasVerifier("file") => file = "wanted" \/ meddled

(* A run whose caller has cancelled while a command ran goes no further    *)
(* (tests/test_cancellation.py:118).  It can: the error that kill() raises *)
(* takes the place of the cancellation.                                    *)
CancelIsHonoured == cancels > 0 /\ ~Awaiting => phase = "cancelled"

(* After a timeout or a cancellation the container is removed              *)
(* (docs/sandbox-runner.md:41).  It may stay: run() is cancelled before    *)
(* its try block, twice, or while the daemon still creates the container.  *)
ContainerIsRemoved == outcome \in {"timed_out", "cancelled"} ~> ~ContainerLeft
==============================================================================
