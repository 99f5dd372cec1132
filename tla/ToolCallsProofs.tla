---------------------------- MODULE ToolCallsProofs ----------------------------
(***************************************************************************)
(* Commands and tool calls, for every bound on the cancellations, every    *)
(* set of policies, list of verifiers and threshold of the detector.       *)
(*                                                                         *)
(* The argument goes through three invariants.  RequestsInOrder says what  *)
(* a request to the daemon means for the container; CommandInOrder what    *)
(* the coroutine knows of its child and of the container; PhasesInOrder    *)
(* who has approved what may write, and what the verification has seen.    *)
(***************************************************************************)
EXTENDS ToolCalls, TLAPS

(* A request that is not answered was made of the container as it was, or  *)
(* rm has removed it since, which happens to dead clients only.            *)
RequestsInOrder ==
    /\ request = "create" => container = "absent"
    /\ request = "start" => \/ container = "created"
                            \/ container = "gone" /\ process # "running"
    /\ request = "refused" => container \in {"absent", "gone"}

(* The child is watched while it runs, and no result comes before its end; *)
(* what rm has removed is not started again, and a timeout has tried rm.   *)
CommandInOrder ==
    /\ runner = "ended" <=> outcome # "undecided"
    /\ isolation = "none" => request = "none" /\ container = "absent"
    /\ process = "running" => runner \in {"connecting", "communicate"}
    /\ runner \in {"connecting", "communicate"} => remover = "none"
    /\ /\ isolation = "container"
       /\ runner \in {"connecting", "communicate"}
       /\ process \in {"exited", "closed"}
       => ~ContainerLeft
    /\ outcome = "completed" => process = "closed"
    /\ outcome \in {"completed", "os_error"} /\ isolation = "container" => ~ContainerLeft
    /\ runner \in {"starting_rm", "removing"} => remover \in {"running", "ended"}
    /\ outcome = "timed_out" /\ isolation = "container"
           => remover \in {"running", "failed", "ended"}
    /\ remover = "ended"
           => container # "running" /\ ~(container = "created" /\ request = "start")

SandboxInv == SandboxTypeOK /\ RequestsInOrder /\ CommandInOrder

SandboxStep == Launch \/ RunnerStep \/ Cancel \/ WorldStep

(* Before the first command.                                               *)
NothingRuns ==
    /\ process = "none" /\ background = "none" /\ request = "none"
    /\ container = "absent" /\ remover = "none"

Due(kind) == \E i \in DOMAIN due : due[i] = kind

(* What may write has been approved; a verdict is about the file, unless a *)
(* command has written since.                                              *)
PhasesInOrder ==
    /\ runner = "idle" => NothingRuns
    /\ runner \in {"idle", "ended"} \/ Awaiting
    /\ runner # "idle" \/ stray => CommandsApproved
    /\ \A i \in DOMAIN due : HasVerifier(due[i])
    /\ phase = "verify" /\ passed /\ HasVerifier("command") /\ ~Due("command")
           => outcome = "completed"
    /\ /\ phase \in {"verify", "verify_command"}
       /\ passed /\ HasVerifier("file") /\ ~Due("file")
       => file = "wanted" \/ meddled
    /\ phase = "verify_command"
           => CommandsApproved /\ due # <<>> /\ Head(due) = "command"

ToolsInv ==
    /\ TypeOK /\ SandboxInv
    /\ PhasesInOrder
    /\ CompletedIsVerified

------------------------------------------------------------------------------
(* The command.                                                            *)

(* The runner, the caller and the world keep the sandbox in order.         *)
LEMMA SandboxStepKeeps ==
    ASSUME SandboxInv, SandboxStep
    PROVE  SandboxInv'
<1> USE CancelsAssumption
<1>1. CASE Launch
    BY <1>1 DEF Launch, End, SandboxInv, SandboxTypeOK, RequestsInOrder,
                CommandInOrder, ContainerLeft, InFlight
<1>2. CASE RunnerStep
    <2> USE DEF command, End, SandboxInv, SandboxTypeOK, RequestsInOrder,
                CommandInOrder, ContainerLeft, InFlight
    <2>1. CASE Connected BY <2>1 DEF Connected
    <2>2. CASE Complete BY <2>2 DEF Complete
    <2>3. CASE Timeout BY <2>3 DEF Timeout, Interrupt
    <2>4. CASE StopWaiting BY <2>4 DEF StopWaiting, Interrupted
    <2>5. CASE RemoverStarted BY <2>5 DEF RemoverStarted
    <2>6. CASE StopRemoving BY <2>6 DEF StopRemoving, Interrupted
    <2> QED
        BY <1>2, <2>1, <2>2, <2>3, <2>4, <2>5, <2>6 DEF RunnerStep
<1>3. CASE Cancel
    <2> USE DEF command, End, SandboxInv, SandboxTypeOK, RequestsInOrder,
                CommandInOrder, ContainerLeft, InFlight
    <2>1. cancels' \in 0..MaxCancels
        BY <1>3 DEF Cancel
    <2>2. CASE CancelLaunch BY <2>1, <2>2 DEF CancelLaunch
    <2>3. CASE Interrupt("cancel") BY <2>1, <2>3 DEF Interrupt
    <2>4. CASE CancelCleanup BY <2>1, <2>4 DEF CancelCleanup
    <2> QED
        BY <1>3, <2>2, <2>3, <2>4 DEF Cancel
<1>4. CASE WorldStep
    <2> USE DEF command, coroutine, SandboxInv, SandboxTypeOK, RequestsInOrder,
                CommandInOrder, ContainerLeft, InFlight
    <2>1. CASE ShellStarts BY <2>1 DEF ShellStarts
    <2>2. CASE BackgroundEnds BY <2>2 DEF BackgroundEnds
    <2>3. CASE ProcessExits BY <2>3 DEF ProcessExits
    <2>4. CASE PipesClose BY <2>4 DEF PipesClose
    <2>5. CASE ClientAsks BY <2>5 DEF ClientAsks
    <2>6. CASE DaemonAnswers BY <2>6 DEF DaemonAnswers
    <2>7. CASE CommandEnds BY <2>7 DEF CommandEnds
    <2>8. CASE RemoverEnds BY <2>8 DEF RemoverEnds
    <2> QED
        BY <1>4, <2>1, <2>2, <2>3, <2>4, <2>5, <2>6, <2>7, <2>8 DEF WorldStep
<1> QED
    BY <1>1, <1>2, <1>3, <1>4 DEF SandboxStep

(* A step of the tools that runs no command leaves the sandbox alone.      *)
LEMMA SandboxUnchangedKeeps ==
    ASSUME SandboxInv, UNCHANGED sandbox
    PROVE  SandboxInv'
BY DEF sandbox, SandboxInv, SandboxTypeOK, RequestsInOrder, CommandInOrder,
       ContainerLeft, InFlight

(* Whatever step the run or its surroundings take.                         *)
LEMMA NextKeepsSandbox ==
    ASSUME SandboxInv, [Next]_vars
    PROVE  SandboxInv'
<1>1. CASE RunTurn
    <2>1. SandboxStep \/ UNCHANGED sandbox
        BY <1>1 DEF RunTurn, FailCall, ReadFile, WriteFile, CallRaises, RunShell,
                    ShellReturns, Cancelled, BeginVerification, VerifyFile,
                    VerifyCommand, CommandReturns, Conclude, StartCommand, SandboxStep
    <2> QED
        BY <2>1, SandboxStepKeeps, SandboxUnchangedKeeps
<1>2. CASE RunnerTurn \/ CancelTurn \/ WorldTurn
    BY <1>2, SandboxStepKeeps DEF RunnerTurn, CancelTurn, WorldTurn, SandboxStep
<1>3. CASE CommandWrites \/ StrayEnds \/ UNCHANGED vars
    BY <1>3, SandboxUnchangedKeeps DEF CommandWrites, StrayEnds, vars
<1> QED
    BY <1>1, <1>2, <1>3 DEF Next

------------------------------------------------------------------------------
(* The history.                                                            *)

(* An execution is recorded as an execution, and no more than Threshold    *)
(* are kept.                                                               *)
LEMMA RecordTypes ==
    ASSUME NEW call \in Call, NEW success \in BOOLEAN,
           recent \in Seq(Execution), Len(recent) <= Threshold,
           streak \in 0..Threshold, Record(call, success)
    PROVE  /\ recent' \in Seq(Execution) /\ Len(recent') <= Threshold
           /\ warned' \in BOOLEAN /\ streak' \in 0..Threshold
<1> DEFINE kept == IF Len(recent) < Threshold THEN recent ELSE Tail(recent)
           entry == [call |-> call, success |-> success]
<1>1. Threshold \in Nat /\ Threshold >= 2
    BY ToolsAssumption
<1>2. kept \in Seq(Execution) /\ Len(kept) < Threshold
    BY <1>1
<1>3. entry \in Execution
    BY DEF Execution
<1>4. recent' = Append(kept, entry)
    BY DEF Record
<1>5. recent' \in Seq(Execution) /\ Len(recent') <= Threshold
    <2> HIDE DEF kept, entry
    <2> QED BY <1>1, <1>2, <1>3, <1>4
<1>6. warned' \in BOOLEAN
    BY DEF Record, Detects
<1>7. streak' \in 0..Threshold
    BY <1>1 DEF Record
<1> QED
    BY <1>5, <1>6, <1>7

(* The last n executions, and no more, are failures of one call.           *)
EndsWith(executions, n) ==
    LET len == Len(executions)
    IN  /\ n \in 0..len
        /\ \A i \in 1..len : i > len - n =>
               ~executions[i].success /\ executions[i].call = executions[len].call
        /\ n < len => \/ executions[len - n].success
                      \/ n > 0 /\ executions[len - n].call # executions[len].call

StreakInv == EndsWith(recent, streak) /\ (warned <=> streak >= Threshold)

(* The detector sees a failure streak as long as its window.               *)
LEMMA DetectsStreak ==
    ASSUME NEW r \in Seq(Execution), Len(r) <= Threshold,
           NEW n \in Nat, EndsWith(r, n)
    PROVE  Detects(r) <=> n >= Threshold
<1>1. Threshold \in Nat /\ Threshold >= 2 /\ Len(r) \in Nat
    BY ToolsAssumption
<1>0. DOMAIN r = 1..Len(r)
    OBVIOUS
<1>4. n \in 0..Len(r)
    BY Zenon DEF EndsWith
<1>2. ASSUME n >= Threshold PROVE Detects(r)
    <2>1. n = Len(r) /\ Len(r) = Threshold
        BY <1>1, <1>2, <1>4
    <2>2. \A i \in 1..Len(r) : ~r[i].success /\ r[i].call = r[Len(r)].call
        BY <1>1, <2>1 DEF EndsWith
    <2>3. 1 \in 1..Len(r)
        BY <1>1, <2>1
    <2> QED
        BY <1>0, <1>1, <2>1, <2>2, <2>3 DEF Detects
<1>3. ASSUME Detects(r), n < Threshold PROVE FALSE
    <2>0. Len(r) >= Threshold
        BY <1>3, Zenon DEF Detects
    <2>1. Len(r) = Threshold /\ n < Len(r)
        BY <1>1, <1>3, <2>0
    <2>2. \A i \in 1..Len(r) : ~r[i].success /\ r[i].call = r[1].call
        BY <1>0, <1>3 DEF Detects
    <2>3. Len(r) \in 1..Len(r) /\ Len(r) - n \in 1..Len(r)
        BY <1>1, <2>1
    <2> QED
        BY <2>1, <2>2, <2>3 DEF EndsWith
<1> QED
    BY <1>1, <1>2, <1>3, <1>4

(* One more execution makes the streak longer, or begins another.          *)
LEMMA RecordKeepsStreak ==
    ASSUME NEW call \in Call, NEW success \in BOOLEAN,
           recent \in Seq(Execution), Len(recent) <= Threshold,
           streak \in 0..Threshold, StreakInv, Record(call, success)
    PROVE  StreakInv'
<1> DEFINE d == IF Len(recent) < Threshold THEN 0 ELSE 1
           kept == IF Len(recent) < Threshold THEN recent ELSE Tail(recent)
           entry == [call |-> call, success |-> success]
           new == Append(kept, entry)
           n == Len(recent)
<1>1. Threshold \in Nat /\ Threshold >= 2 /\ n \in Nat /\ streak \in Nat
    BY ToolsAssumption
<1>2. entry \in Execution /\ entry.call = call /\ entry.success = success
    BY DEF Execution
<1>3. kept \in Seq(Execution) /\ Len(kept) = n - d
    BY <1>1
<1>4. \A i \in 1..(n - d) : kept[i] = recent[i + d]
    BY <1>1
<1>5. d \in {0, 1} /\ d <= n
    BY <1>1
<1>6. new \in Seq(Execution) /\ Len(new) = n + 1 - d /\ Len(new) <= Threshold
    <2>1. d = 0 => n < Threshold
        OBVIOUS
    <2> HIDE DEF kept, entry, d
    <2> QED BY <1>1, <1>2, <1>3, <1>5, <2>1
<1>7. /\ \A i \in 1..(n - d) : new[i] = recent[i + d]
      /\ new[n + 1 - d] = entry
    <2> HIDE DEF kept, entry, d
    <2> QED BY <1>1, <1>2, <1>3, <1>4, <1>5
<1>8. recent' = new
    BY DEF Record
<1>9. EndsWith(recent, streak)
    BY DEF StreakInv
<1>10. EndsWith(new, streak')
    <2>1. CASE success
        <3>1. streak' = 0
            BY <2>1 DEF Record
        <3> HIDE DEF new, entry, d, kept, n
        <3>2. /\ streak' \in 0..Len(new) /\ Len(new) - streak' = n + 1 - d
              /\ \A i \in 1..Len(new) : ~(i > Len(new) - streak')
            BY <1>1, <1>5, <1>6, <3>1
        <3>3. new[n + 1 - d].success
            BY <1>2, <1>7, <2>1, Zenon
        <3> QED
            BY <3>2, <3>3, Zenon DEF EndsWith
    <2>2. CASE ~success /\ streak > 0 /\ recent[n].call = call
        <3>1. streak' = IF streak < Threshold THEN streak + 1 ELSE streak
            BY <2>2 DEF Record, Last
        <3>2. streak = Threshold => d = 1 /\ n = Threshold
            BY <1>1, <1>9 DEF EndsWith
        <3>3. d = 0 => n < Threshold
            OBVIOUS
        <3>4. d = 1 => n = Threshold
            BY <1>1
        <3> HIDE DEF new, entry, d, kept, n
        <3>5. streak' \in 0..(n + 1 - d)
            BY <1>1, <1>5, <1>9, <3>1, <3>2, <3>3, <3>4 DEF EndsWith, n
        <3>6. Len(new) = n + 1 - d /\ new[Len(new)] = entry
            BY <1>6, <1>7
        <3>7. ASSUME NEW i \in 1..Len(new), i > Len(new) - streak'
              PROVE  ~new[i].success /\ new[i].call = new[Len(new)].call
            <4>1. CASE i = Len(new)
                BY <1>2, <2>2, <3>6, <4>1
            <4>2. CASE i # Len(new)
                <5>1. i \in 1..(n - d) /\ i + d \in 1..n /\ i + d > n - streak
                    BY <1>1, <1>5, <3>1, <3>2, <3>6, <3>7, <4>2
                <5>2. ~recent[i + d].success /\ recent[i + d].call = recent[n].call
                    BY <1>9, <5>1 DEF EndsWith, n
                <5> QED
                    BY <1>2, <1>7, <2>2, <3>6, <5>1, <5>2
            <4> QED
                BY <4>1, <4>2
        <3>8. ASSUME streak' < Len(new)
              PROVE  \/ new[Len(new) - streak'].success
                     \/ new[Len(new) - streak'].call # new[Len(new)].call
            <4>1. streak' = streak + 1 /\ streak < n
                BY <1>1, <1>5, <3>1, <3>2, <3>6, <3>8
            <4>2. n - d - streak \in 1..(n - d)
                BY <1>1, <1>5, <3>6, <3>8, <4>1
            <4>3. new[n - d - streak] = recent[n - streak]
                BY <1>1, <1>5, <1>7, <4>2
            <4>4. recent[n - streak].success \/ recent[n - streak].call # recent[n].call
                BY <1>9, <2>2, <4>1 DEF EndsWith, n
            <4>5. Len(new) - streak' = n - d - streak
                BY <1>1, <1>5, <3>6, <4>1
            <4> QED
                BY <1>2, <2>2, <3>6, <4>3, <4>4, <4>5
        <3>9. streak' > 0 /\ streak' \in 0..Len(new)
            BY <1>1, <2>2, <3>1, <3>5, <3>6
        <3> QED
            BY <3>7, <3>8, <3>9, Zenon DEF EndsWith
    <2>3. CASE ~success /\ ~(streak > 0 /\ recent[n].call = call)
        <3>1. streak' = 1
            BY <2>3 DEF Record, Last
        <3>2. ASSUME n > 0 PROVE recent[n].success \/ recent[n].call # call
            BY <1>1, <1>9, <2>3, <3>2 DEF EndsWith
        <3>3. n - d > 0 => n - d \in 1..(n - d) /\ new[n - d] = recent[n] /\ n > 0
            <4> HIDE DEF new, d
            <4> QED BY <1>1, <1>5, <1>7
        <3> HIDE DEF new, entry, d, kept, n
        <3> QED
            BY <1>1, <1>2, <1>5, <1>6, <1>7, <2>3, <3>1, <3>2, <3>3 DEF EndsWith
    <2> QED
        BY <2>1, <2>2, <2>3
<1>11. warned' = Detects(new)
    BY <1>8 DEF Record
<1>12. streak' \in Nat
    BY <1>1 DEF Record
<1>13. Detects(new) <=> streak' >= Threshold
    <2> HIDE DEF new
    <2> QED BY <1>6, <1>10, <1>12, DetectsStreak
<1> QED
    BY <1>8, <1>10, <1>11, <1>13 DEF StreakInv

------------------------------------------------------------------------------
(* The run.                                                                *)

(* A run begins in order, with nothing running.                            *)
LEMMA InitToolsInv == Init => ToolsInv
<1> SUFFICES ASSUME Init PROVE ToolsInv
    OBVIOUS
<1>1. SandboxInv
    BY CancelsAssumption
       DEF Init, SandboxInit, SandboxInv, SandboxTypeOK, RequestsInOrder,
           CommandInOrder, ContainerLeft, InFlight
<1>2. streak \in 0..Threshold /\ Len(recent) <= Threshold
    <2>1. Threshold \in Nat /\ Threshold >= 2
        BY ToolsAssumption
    <2>2. streak = 0 /\ recent = <<>>
        BY DEF Init
    <2> QED
        BY <2>1, <2>2
<1>3. TypeOK
    <2>1. recent \in Seq(Execution) /\ due \in Seq({"file", "command"})
        BY DEF Init
    <2>2. /\ policy \in Policies /\ verifiers \in VerifierLists
          /\ phase = "turn" /\ file \in Content
        BY DEF Init
    <2>3. /\ stray \in BOOLEAN /\ warned \in BOOLEAN
          /\ passed \in BOOLEAN /\ meddled \in BOOLEAN
        BY DEF Init
    <2> QED
        BY <1>1, <1>2, <2>1, <2>2, <2>3 DEF SandboxInv, TypeOK
<1>4. PhasesInOrder
    BY DEF Init, SandboxInit, PhasesInOrder, NothingRuns, Awaiting
<1>5. CompletedIsVerified
    BY DEF Init, CompletedIsVerified
<1> QED
    BY <1>1, <1>3, <1>4, <1>5 DEF ToolsInv

(* Every variable keeps its type.                                          *)
LEMMA NextKeepsType ==
    ASSUME TypeOK, SandboxInv, PhasesInOrder, [Next]_vars
    PROVE  TypeOK'
<1>1. SandboxTypeOK'
    BY NextKeepsSandbox DEF SandboxInv
<1> DEFINE ToolsType ==
        /\ policy \in Policies /\ verifiers \in VerifierLists
        /\ phase \in {"turn", "tool", "verify", "verify_command", "completed",
                      "failed", "cancelled"}
        /\ file \in Content /\ stray \in BOOLEAN
        /\ recent \in Seq(Execution) /\ Len(recent) <= Threshold
        /\ warned \in BOOLEAN /\ streak \in 0..Threshold
        /\ due \in Seq({"file", "command"}) /\ passed \in BOOLEAN /\ meddled \in BOOLEAN
<1>2. ToolsType
    BY DEF TypeOK
<1>3. ToolsType'
    <2>1. ASSUME NEW call \in Call, FailCall(call) PROVE ToolsType'
        BY <1>2, <2>1, RecordTypes DEF FailCall, run, verification
    <2>2. CASE ReadFile
        BY <1>2, <2>2, RecordTypes DEF ReadFile, run, verification, Call
    <2>3. CASE WriteFile
        BY <1>2, <2>3, RecordTypes DEF WriteFile, run, verification, Call, Content
    <2>4. CASE CallRaises
        BY <1>2, <2>4 DEF CallRaises, history, verification
    <2>5. CASE RunShell
        BY <1>2, <2>5 DEF RunShell, StartCommand, history, verification, MayRun, Runs
    <2>6. CASE ShellReturns
        BY <1>2, <2>6, RecordTypes DEF ShellReturns, Cancelled, history, verification, Call
    <2>7. CASE BeginVerification
        BY <1>2, <2>7, ToolsAssumption DEF BeginVerification, history
    <2>8. CASE VerifyFile
        <3>1. passed' \in BOOLEAN
            BY <1>2, <2>8, Zenon DEF VerifyFile, Judge, verification
        <3>2. due' \in Seq({"file", "command"})
            <4>1. due # <<>> /\ (due' = Tail(due) \/ due' = due)
                BY <2>8, Zenon DEF VerifyFile, Judge, verification
            <4>2. due \in Seq({"file", "command"})
                BY <1>2
            <4> QED
                BY ONLY <4>1, <4>2
        <3>3. /\ UNCHANGED <<policy, verifiers, file, stray, history>>
              /\ phase' \in {phase, "failed"}
            BY <2>8 DEF VerifyFile
        <3>4. meddled' \in BOOLEAN
            BY <1>2, <2>8, Zenon DEF VerifyFile, verification
        <3> QED
            BY <1>2, <3>1, <3>2, <3>3, <3>4 DEF history
    <2>9. CASE VerifyCommand
        BY <1>2, <2>9 DEF VerifyCommand, StartCommand, history, verification, MayRun, Runs
    <2>10. CASE CommandReturns
        <3>1. passed' \in BOOLEAN
            BY <1>2, <2>10, Zenon DEF CommandReturns, Cancelled, Judge, verification
        <3>2. due' \in Seq({"file", "command"})
            <4>1. due # <<>>
                BY <2>10, Zenon DEF CommandReturns, PhasesInOrder
            <4>2. due' = Tail(due) \/ due' = due
                BY <2>10, Zenon DEF CommandReturns, Cancelled, Judge, verification
            <4>3. due \in Seq({"file", "command"})
                BY <1>2
            <4> QED
                BY ONLY <4>1, <4>2, <4>3
        <3>3. /\ UNCHANGED <<policy, verifiers, file, stray, history>>
              /\ phase' \in {"verify", "failed", "cancelled"}
            BY <2>10 DEF CommandReturns, Cancelled
        <3>4. meddled' = meddled
            BY <2>10, Zenon DEF CommandReturns, Cancelled, verification
        <3> QED
            BY <1>2, <3>1, <3>2, <3>3, <3>4 DEF history
    <2>11. CASE Conclude
        <3>1. meddled' \in BOOLEAN
            BY <1>2, <2>11, Zenon DEF Conclude
        <3>2. /\ UNCHANGED <<policy, verifiers, file, stray, history, due, passed>>
              /\ phase' \in {"completed", "turn"}
            BY <2>11 DEF Conclude
        <3> QED
            BY <1>2, <3>1, <3>2 DEF history
    <2>12. CASE RunnerTurn \/ CancelTurn \/ WorldTurn \/ UNCHANGED vars
        BY <1>2, <2>12 DEF RunnerTurn, CancelTurn, WorldTurn, tools, vars
    <2>13. CASE CommandWrites \/ StrayEnds
        <3>1. meddled' \in BOOLEAN
            <4>1. CASE CommandWrites
                BY <4>1, SMT DEF CommandWrites
            <4>2. CASE StrayEnds
                BY <1>2, <4>2, Zenon DEF StrayEnds, verification
            <4> QED
                BY <2>13, <4>1, <4>2
        <3>2. /\ UNCHANGED <<run, history, due, passed>>
              /\ file' \in Content /\ stray' \in BOOLEAN
            BY <1>2, <2>13 DEF CommandWrites, StrayEnds, verification
        <3> QED
            BY <1>2, <3>1, <3>2 DEF run, history
    <2> QED
        BY <2>1, <2>2, <2>3, <2>4, <2>5, <2>6, <2>7, <2>8, <2>9, <2>10, <2>11,
           <2>12, <2>13 DEF Next, RunTurn
<1> QED
    BY <1>1, <1>3 DEF TypeOK

------------------------------------------------------------------------------
(* The order of the phases.                                                *)

(* The sandbox does not run before the first command.                      *)
LEMMA IdleStays ==
    ASSUME PhasesInOrder, SandboxTypeOK, runner = "idle", RunnerStep \/ Cancel \/ WorldStep
    PROVE  FALSE
BY DEF PhasesInOrder, NothingRuns, RunnerStep, Connected, Complete, Timeout, Interrupt,
       StopWaiting, RemoverStarted, StopRemoving, Cancel, CancelLaunch, CancelCleanup,
       WorldStep, ShellStarts, BackgroundEnds, ProcessExits, PipesClose, ClientAsks,
       DaemonAnswers, InFlight, CommandEnds, RemoverEnds

(* Once a verifier has spoken, the others are still due.                   *)
LEMMA JudgeKeepsOthers ==
    ASSUME due \in Seq({"file", "command"}), due # <<>>, due' = Tail(due)
    PROVE  /\ \A i \in DOMAIN due' : \E j \in DOMAIN due : due'[i] = due[j]
           /\ \A kind : Due(kind) => Head(due) = kind \/ \E i \in DOMAIN due' : due'[i] = kind
<1>1. Len(due') = Len(due) - 1 /\ Len(due) \in Nat /\ Len(due) > 0
    OBVIOUS
<1>2. \A i \in 1..Len(due') : due'[i] = due[i + 1]
    BY <1>1
<1>3. DOMAIN due = 1..Len(due) /\ DOMAIN due' = 1..Len(due')
    BY <1>1
<1>4. \A i \in DOMAIN due' : i + 1 \in DOMAIN due /\ due'[i] = due[i + 1]
    BY <1>1, <1>2, <1>3
<1>5. ASSUME NEW kind, NEW i \in DOMAIN due, due[i] = kind, Head(due) # kind
      PROVE  i - 1 \in DOMAIN due' /\ due'[i - 1] = kind
    BY <1>1, <1>2, <1>3, <1>5
<1> QED
    BY <1>4, <1>5 DEF Due

(* No step writes without approval or forgets a verifier.                  *)
LEMMA NextKeepsPhases ==
    ASSUME TypeOK, SandboxInv, PhasesInOrder, CompletedIsVerified, [Next]_vars
    PROVE  PhasesInOrder' /\ CompletedIsVerified'
<1> USE DEF CommandsApproved, ShellApproved, HasVerifier, Awaiting
<1> DEFINE Goal == PhasesInOrder' /\ CompletedIsVerified'
<1>2. ASSUME NEW call \in Call, FailCall(call) PROVE Goal
    BY <1>2 DEF FailCall, PhasesInOrder, CompletedIsVerified, NothingRuns, sandbox,
                run, verification, Due
<1>3. CASE ReadFile
    BY <1>3 DEF ReadFile, PhasesInOrder, CompletedIsVerified, NothingRuns, sandbox,
                run, verification, Due
<1>4. CASE WriteFile
    BY <1>4 DEF WriteFile, PhasesInOrder, CompletedIsVerified, NothingRuns, sandbox,
                run, verification, Due
<1>5. CASE CallRaises
    BY <1>5 DEF CallRaises, PhasesInOrder, CompletedIsVerified, NothingRuns, sandbox,
                verification, Due
<1>6. CASE RunShell
    <2>1. ShellApproved /\ runner' # "idle"
        BY <1>6 DEF RunShell, Allows, tool, StartCommand, Launch, End
    <2> QED
        BY <1>6, <2>1 DEF RunShell, PhasesInOrder, CompletedIsVerified, verification, Due
<1>7. CASE ShellReturns
    BY <1>7 DEF ShellReturns, Cancelled, PhasesInOrder, CompletedIsVerified, NothingRuns,
                sandbox, verification, Due
<1>8. CASE BeginVerification
    BY <1>8 DEF BeginVerification, PhasesInOrder, CompletedIsVerified, NothingRuns,
                sandbox, Due
<1>9. CASE VerifyFile
    <2>1. CASE Judge(file = "wanted") /\ UNCHANGED phase
        <3>1. /\ \A i \in DOMAIN due' : \E j \in DOMAIN due : due'[i] = due[j]
              /\ Due("command") => Due("command")'
            BY <1>9, <2>1, JudgeKeepsOthers DEF VerifyFile, Judge, TypeOK, Due
        <3>2. (passed' => passed /\ file = "wanted") /\ phase' = phase /\ phase = "verify"
            BY <1>9, <2>1 DEF VerifyFile, Judge
        <3> QED
            BY <1>9, <3>1, <3>2 DEF VerifyFile, PhasesInOrder, CompletedIsVerified,
                                    NothingRuns, sandbox
    <2>2. CASE phase' = "failed" /\ UNCHANGED verification
        BY <1>9, <2>2 DEF VerifyFile, PhasesInOrder, CompletedIsVerified, NothingRuns,
                          sandbox, verification, Due
    <2> QED
        BY <1>9, <2>1, <2>2 DEF VerifyFile
<1>10. CASE VerifyCommand
    <2>1. HasVerifier("command") /\ runner' # "idle"
        <3>1. due \in Seq({"file", "command"}) /\ due # <<>> /\ Head(due) = "command"
            BY <1>10 DEF VerifyCommand, TypeOK
        <3>2. 1 \in DOMAIN due /\ due[1] = "command"
            BY <3>1
        <3> QED
            BY <1>10, <3>2 DEF VerifyCommand, StartCommand, Launch, End, PhasesInOrder
    <2> QED
        BY <1>10, <2>1 DEF VerifyCommand, PhasesInOrder, CompletedIsVerified,
                           verification, Due
<1>11. CASE CommandReturns
    <2>1. CASE phase' = "verify"
        <3>1. Judge(outcome = "completed") \/ Judge(FALSE)
            BY <1>11, <2>1 DEF CommandReturns, Cancelled, Judge
        <3>2. (passed' => outcome = "completed") /\ due' = Tail(due) /\ due # <<>>
            BY <1>11, <3>1 DEF Judge, PhasesInOrder, CommandReturns
        <3>3. /\ \A i \in DOMAIN due' : \E j \in DOMAIN due : due'[i] = due[j]
              /\ Due("file") => Due("file")'
            <4>1. Head(due) = "command"
                BY <1>11 DEF CommandReturns, PhasesInOrder
            <4> QED
                BY <3>2, <4>1, JudgeKeepsOthers DEF TypeOK, Due
        <3>4. (passed' => passed) /\ meddled' = meddled /\ phase = "verify_command"
            BY <1>11, <2>1, <3>1 DEF CommandReturns, Cancelled, Judge
        <3>5. /\ UNCHANGED <<sandbox, policy, verifiers, file, stray>>
              /\ runner = "ended"
            BY <1>11, <2>1 DEF CommandReturns, Cancelled
        <3>6. passed' /\ HasVerifier("file") /\ ~Due("file")' => file' = "wanted" \/ meddled'
            BY <3>3, <3>4, <3>5 DEF PhasesInOrder
        <3>7. CompletedIsVerified'
            BY <2>1 DEF CompletedIsVerified
        <3> QED
            BY <2>1, <3>2, <3>3, <3>5, <3>6, <3>7 DEF PhasesInOrder, NothingRuns, sandbox
    <2>2. CASE phase' # "verify"
        BY <1>11, <2>2 DEF CommandReturns, Cancelled, PhasesInOrder, CompletedIsVerified,
                           NothingRuns, sandbox, verification, Due
    <2> QED
        BY <2>1, <2>2
<1>12. CASE Conclude
    <2>1. /\ phase = "verify" /\ due = <<>>
          /\ UNCHANGED <<sandbox, policy, verifiers, file, stray, due>>
          /\ phase' \in {"completed", "turn"} /\ (phase' = "completed" => passed)
        BY <1>12 DEF Conclude
    <2>2. passed /\ meddled => meddled'
        BY <1>12, Zenon DEF Conclude
    <2>3. ~Due("file") /\ ~Due("command")
        BY <2>1 DEF Due
    <2>4. runner \in {"idle", "ended"}
        BY <2>1 DEF PhasesInOrder
    <2>5. CompletedIsVerified'
        BY <2>1, <2>2, <2>3 DEF PhasesInOrder, CompletedIsVerified, sandbox
    <2> QED
        BY <2>1, <2>4, <2>5 DEF PhasesInOrder, NothingRuns, sandbox, Due
<1>13. CASE RunnerTurn \/ CancelTurn
    <2>1. runner # "idle"
        BY <1>13, IdleStays DEF RunnerTurn, CancelTurn, SandboxInv
    <2>2. UNCHANGED tools /\ phase \in {"tool", "verify_command"}
        BY <1>13 DEF RunnerTurn, CancelTurn, Awaiting
    <2>3. runner' # "idle"
        BY <1>13, <2>1 DEF RunnerTurn, CancelTurn, RunnerStep, Connected, Complete,
            Timeout, Interrupt, StopWaiting, RemoverStarted, StopRemoving, Cancel,
            CancelLaunch, CancelCleanup, End
    <2> QED
        BY <2>1, <2>2, <2>3 DEF tools, PhasesInOrder, CompletedIsVerified, Due
<1>14. CASE WorldTurn
    <2>1. runner # "idle"
        BY <1>14, IdleStays DEF WorldTurn, SandboxInv
    <2>2. UNCHANGED <<tools, runner, outcome>>
        BY <1>14 DEF WorldTurn, WorldStep, ShellStarts, BackgroundEnds, ProcessExits,
            PipesClose, ClientAsks, DaemonAnswers, CommandEnds, RemoverEnds, coroutine
    <2> QED
        BY <2>1, <2>2 DEF tools, PhasesInOrder, CompletedIsVerified, Due
<1>15. CASE CommandWrites
    <2>1. CommandsApproved
        BY <1>15 DEF CommandWrites, Runs, PhasesInOrder, NothingRuns
    <2> QED
        BY <1>15, <2>1 DEF CommandWrites, PhasesInOrder, CompletedIsVerified, NothingRuns,
                           sandbox, run, verification, Due
<1>16. CASE StrayEnds \/ UNCHANGED vars
    BY <1>16 DEF StrayEnds, vars, tools, PhasesInOrder, CompletedIsVerified, NothingRuns,
                 sandbox, run, verification, Due
<1> QED
    BY <1>2, <1>3, <1>4, <1>5, <1>6, <1>7, <1>8, <1>9, <1>10, <1>11, <1>12, <1>13,
       <1>14, <1>15, <1>16 DEF Next, RunTurn

(* The three invariants hold of every run.                                 *)
LEMMA ToolsInvInvariant == Spec => []ToolsInv
<1>1. Init => ToolsInv
    BY InitToolsInv
<1>2. ToolsInv /\ [Next]_vars => ToolsInv'
    BY NextKeepsSandbox, NextKeepsType, NextKeepsPhases DEF ToolsInv
<1> QED
    BY <1>1, <1>2, PTL DEF Spec

------------------------------------------------------------------------------
(* What holds of every run.                                                *)

(* Every variable of a run and of its command keeps its type.              *)
THEOREM TypeCorrect == Spec => []TypeOK
<1>1. ToolsInv => TypeOK
    BY DEF ToolsInv
<1> QED
    BY <1>1, ToolsInvInvariant, PTL

(* A result of docker run means that its container is gone and none is     *)
(* still being made (docker.py 147-152).                                   *)
THEOREM ContainerEndsFirst == Spec => []CompletedLeavesNothing
<1>1. ToolsInv => CompletedLeavesNothing
    BY DEF ToolsInv, SandboxInv, CommandInOrder, CompletedLeavesNothing
<1> QED
    BY <1>1, ToolsInvInvariant, PTL

(* A completed run's verification command ended by itself, and its file is *)
(* as required unless a command has written it since it was checked        *)
(* (verification.py 82, 122-172).                                          *)
THEOREM AnswersAreChecked == Spec => []CompletedIsVerified
<1>1. ToolsInv => CompletedIsVerified
    BY DEF ToolsInv
<1> QED
    BY <1>1, ToolsInvInvariant, PTL

(* What a command may write after its result: what a shell left in the     *)
(* background, or a container whose removal has not come to its end.       *)
LEMMA LateWriterOutlives ==
    ASSUME SandboxInv, Runs, runner = "ended"
    PROVE  Outlives
<1>1. process # "running" /\ outcome # "undecided"
    BY DEF SandboxInv, CommandInOrder
<1>2. CASE background # "none"
    BY <1>2 DEF Outlives
<1>3. CASE container = "running"
    <2>1. isolation = "container" /\ ContainerLeft
        BY <1>3 DEF SandboxInv, SandboxTypeOK, CommandInOrder, ContainerLeft
    <2>2. remover # "ended" /\ outcome \in {"timed_out", "cancelled"}
        BY <1>1, <1>3, <2>1 DEF SandboxInv, SandboxTypeOK, CommandInOrder
    <2> QED
        BY <2>1, <2>2 DEF SandboxInv, CommandInOrder, Outlives
<1> QED
    BY <1>1, <1>2, <1>3 DEF Runs

(* The file is changed by a granted call, or by an approved command that   *)
(* the run awaits or that is known to outlive its result (approval.py      *)
(* 35-52, host.py 23-40, docker.py 105-152).                               *)
THEOREM OnlyKnownWriters == Spec => WritersAreKnown
<1>1. ToolsInv /\ [Next]_vars =>
          [file' # file =>
               \/ WriteFile /\ WritesApproved
               \/ CommandsApproved /\ (Awaiting \/ stray \/ Outlives)]_vars
    <2> SUFFICES ASSUME ToolsInv, Next, file' # file
                 PROVE  \/ WriteFile /\ WritesApproved
                        \/ CommandsApproved /\ (Awaiting \/ stray \/ Outlives)
        OBVIOUS
    <2>1. CASE WriteFile
        BY <2>1 DEF WriteFile, Allows, tool, WritesApproved
    <2>2. CASE CommandWrites
        <3>1. Runs \/ stray
            BY <2>2 DEF CommandWrites
        <3>2. runner # "idle" \/ stray
            BY <3>1 DEF Runs, ToolsInv, PhasesInOrder, NothingRuns
        <3>3. CommandsApproved
            BY <3>2 DEF ToolsInv, PhasesInOrder
        <3>4. ~Awaiting /\ ~stray => runner = "ended"
            BY <3>2 DEF ToolsInv, PhasesInOrder
        <3> QED
            BY <3>1, <3>3, <3>4, LateWriterOutlives DEF ToolsInv
    <2>3. CASE ~WriteFile /\ ~CommandWrites
        BY <2>3 DEF Next, RunTurn, FailCall, ReadFile, CallRaises, RunShell,
            ShellReturns, Cancelled, BeginVerification, VerifyFile, VerifyCommand,
            CommandReturns, Conclude, RunnerTurn, CancelTurn, WorldTurn, StrayEnds, tools
    <2> QED
        BY <2>1, <2>2, <2>3
<1> QED
    BY <1>1, ToolsInvInvariant, PTL DEF Spec, WritersAreKnown

(* The detector warns exactly when as many failures of one call as its     *)
(* threshold have come one after the other (loop_detection.py 23-34).      *)
THEOREM DetectorCountsStreaks == Spec => []WarningIsStreak
<1> DEFINE Inv == ToolsInv /\ StreakInv
<1>1. Init => Inv
    <2> SUFFICES ASSUME Init PROVE StreakInv
        BY InitToolsInv
    <2>1. Threshold \in Nat /\ Threshold >= 2
        BY ToolsAssumption
    <2>2. recent = <<>> /\ streak = 0 /\ warned = FALSE
        BY DEF Init
    <2>3. EndsWith(recent, streak)
        BY <2>2 DEF EndsWith
    <2> QED
        BY <2>1, <2>2, <2>3 DEF StreakInv
<1>2. Inv /\ [Next]_vars => Inv'
    <2> SUFFICES ASSUME Inv, [Next]_vars PROVE StreakInv'
        BY NextKeepsSandbox, NextKeepsType, NextKeepsPhases DEF ToolsInv
    <2>1. CASE \E call \in Call, success \in BOOLEAN : Record(call, success)
        BY <2>1, RecordKeepsStreak DEF ToolsInv, TypeOK
    <2>2. CASE UNCHANGED history
        BY <2>2 DEF history, StreakInv, EndsWith
    <2>3. \/ UNCHANGED history
          \/ \E call \in Call, success \in BOOLEAN : Record(call, success)
        BY DEF Next, RunTurn, FailCall, ReadFile, WriteFile, CallRaises, RunShell,
            ShellReturns, Cancelled, BeginVerification, VerifyFile, VerifyCommand,
            CommandReturns, Conclude, RunnerTurn, CancelTurn, WorldTurn, CommandWrites,
            StrayEnds, tools, vars, history, Call
    <2> QED
        BY <2>1, <2>2, <2>3
<1>3. Inv => WarningIsStreak
    BY DEF StreakInv, WarningIsStreak
<1> QED
    BY <1>1, <1>2, <1>3, PTL DEF Spec
==============================================================================
