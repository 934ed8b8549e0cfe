------------------------------ MODULE CloudRun ------------------------------
(***************************************************************************)
(* One job in the cloud (tools/cloud-run), an experiment or the build of   *)
(* its image: the operator's process builds the image or packs its sources *)
(* (build.rs), launches a machine and may follow it, polling a bucket and  *)
(* the cloud's interface; the boot script on the machine stages data, runs *)
(* the command beside a heartbeat, pushes the image if it built one,       *)
(* uploads, signals and stops the machine; the user may stop the run, kill *)
(* the monitor or clean up. The parts share the bucket and the state of    *)
(* the machine and fail on their own.                                      *)
(*                                                                         *)
(* Time is counted in poll intervals (30 s), the calls of a poll take less *)
(* than one. Machine and cloud are external: a machine that is terminated  *)
(* stops at once; a call that fails has no effect, except that the answer  *)
(* of a pod's creation may be lost. A run meets failing calls (flaky) or   *)
(* none.                                                                   *)
(***************************************************************************)
EXTENDS Naturals

CONSTANTS
  Codes,         (* exit codes of the experiment                            *)
  None,
  MaxRuntime,    (* max_runtime_minutes                                     *)
  BeatTimeout,   (* timeout_minutes of the heartbeat                        *)
  ReadyTimeout,  (* how long wait_ready waits for a pod                     *)
  IdleEvery      (* idle_check_interval (5)                                 *)

ASSUME CloudAssumption ==
  /\ None \notin Codes
  /\ MaxRuntime \in Nat /\ MaxRuntime >= 2
  /\ BeatTimeout \in Nat /\ ReadyTimeout \in Nat /\ IdleEvery \in Nat \ {0}

VARIABLES
  job,      (* "experiment" or "build"                                      *)
  backend,  (* "aws" or "runpod"                                            *)
  flaky,    (* remote calls of this run may fail                            *)
  machine,  (* "none", "running", "exited" (a stopped pod) or "gone"        *)
  market,   (* how an EC2 instance is paid: "spot" or "on-demand"           *)
  age,      (* the machine's age, up to just past its time to live          *)
  box,      (* where the boot script is                                     *)
  beating,  (* the heartbeat process of the machine is alive                *)
  pushed,   (* the job's image is in the registry                           *)
  code,     (* the exit code of the command, None before it ended           *)
  synced,   (* history: the upload of the results was tried                 *)
  beat,     (* heartbeat.json is in the bucket                              *)
  signal,   (* the exit code in status.json, None when it is not there      *)
  mpc,      (* where the operator's process is                              *)
  elapsed,  (* time since the loop it is in began, up to LongAgo            *)
  booted,   (* the monitor saw a heartbeat                                  *)
  quiet,    (* time since it last did, up to just past BeatTimeout          *)
  polls,    (* poll_count modulo IdleEvery                                  *)
  idle,     (* consecutive_idle_checks                                      *)
  outcome,  (* how the process ended                                        *)
  fault     (* history: a call of the poll under way failed                 *)

cloud   == <<job, backend, flaky, market>>
script  == <<box, beating, pushed, code, synced, beat, signal>>
watch   == <<booted, quiet, polls, idle>>
process == <<mpc, elapsed, watch, outcome, fault>>
vars    == <<cloud, machine, age, script, process>>

Done      == {"detached", "killed", "returned"}
Following == {"sleep", "completion", "heartbeat", "running", "recheck", "guards", "idle"}
Outcomes  == [how : {"none", "launch failed", "not ready", "gone", "timed out", "idle",
                     "call failed", "completed"}, code : Codes \cup {None}]

(* ceil(1.5 * max_runtime) *)
MaxTtlTight == MaxRuntime  (* mutant: no buffer *)
MaxTtl == (3 * MaxRuntime + 1) \div 2

UpTo(n, limit) == IF n > limit THEN limit ELSE n

(* Past every limit a loop compares its elapsed time with. *)
LongAgo == MaxRuntime + ReadyTimeout + 1

Init ==
  /\ job \in {"experiment", "build"} /\ flaky \in BOOLEAN
  /\ backend \in {"aws", "runpod"} /\ (job = "build" => backend = "aws")
  /\ pushed = FALSE
  /\ machine = "none" /\ market = "on-demand" /\ age = 0
  /\ box = "off" /\ beating = FALSE /\ code = None /\ synced = FALSE
  /\ beat = FALSE /\ signal = None
  /\ mpc = "image" /\ elapsed = 0
  /\ booted = FALSE /\ quiet = 0 /\ polls = 0 /\ idle = 0
  /\ outcome = [how |-> "none", code |-> None] /\ fault = FALSE

-----------------------------------------------------------------------------
(* The machine. *)

Up == machine = "running"

(* The script and its heartbeat go with the machine. *)
Down(how) ==
  /\ machine' = how
  /\ box' = "ended" /\ beating' = FALSE
  /\ UNCHANGED <<pushed, code, synced, beat, signal>>

Reclaimed ==
  /\ Up /\ market = "spot"
  /\ Down("gone")
  /\ UNCHANGED <<cloud, age, process>>

(* terminate-instances and podTerminate; Err when the call fails. *)
Terminate == Down("gone")

-----------------------------------------------------------------------------
(* The boot script, under set -eo pipefail: whatever fails ends it, with no *)
(* signal and no shutdown. The command runs under set +e, and what follows  *)
(* "|| true" may fail.                                                      *)

Script(from) == Up /\ box = from /\ UNCHANGED <<cloud, age, process>>

Boot ==
  /\ Script("off")
  /\ box' = "prepare"
  /\ UNCHANGED <<machine, beating, pushed, code, synced, beat, signal>>

(* Login, pull, staging; then the heartbeat and the command start. *)
Prepare ==
  /\ Script("prepare")
  /\ \/ box' = "work" /\ beating' = TRUE
     \/ box' = "ended" /\ UNCHANGED beating
  /\ UNCHANGED <<machine, pushed, code, synced, beat, signal>>

(* The heartbeat loop inherits set -e: a failed upload ends it. *)
Heartbeat ==
  /\ Up /\ beating
  /\ \/ beat' = TRUE /\ UNCHANGED beating
     \/ flaky /\ beating' = FALSE /\ UNCHANGED beat
  /\ UNCHANGED <<cloud, machine, age, box, pushed, code, synced, signal, process>>

(* A build that succeeded is pushed first. *)
CommandEnds ==
  /\ Script("work")
  /\ \E c \in Codes :
       /\ code' = c
       /\ box' = IF job = "build" /\ c = 0 THEN "push" ELSE "upload"
  /\ UNCHANGED <<machine, beating, pushed, synced, beat, signal>>

PushLogged ==  (* mutant: the status of tee is taken for that of the push *)
  /\ Script("push")
  /\ box' = "upload" /\ pushed' \in BOOLEAN
  /\ UNCHANGED <<machine, beating, code, synced, beat, signal>>

(* set -e is on again: a failing push ends the script before its exit code  *)
(* is looked at, and the heartbeat goes on.                                 *)
Push ==
  /\ Script("push")
  /\ \/ box' = "upload" /\ pushed' = TRUE
     \/ box' = "ended" /\ UNCHANGED pushed
  /\ UNCHANGED <<machine, beating, code, synced, beat, signal>>

Upload ==
  /\ Script("upload")
  /\ beating' = FALSE /\ synced' = TRUE
  /\ box' = "signal"
  /\ UNCHANGED <<machine, pushed, code, beat, signal>>

Signal ==
  /\ Script("signal")
  /\ \/ signal' = code /\ box' = "stop"
     \/ flaky /\ box' = "ended" /\ UNCHANGED signal
  /\ UNCHANGED <<machine, beating, pushed, code, synced, beat>>

(* An instance is launched so that its shutdown terminates it; a pod stops  *)
(* itself through a call whose failure is ignored.                          *)
Shutdown ==
  /\ Script("stop")
  /\ \/ backend = "aws" /\ Down("gone")
     \/ backend = "runpod" /\ Down("exited")
     \/ /\ backend = "runpod" /\ flaky
        /\ box' = "ended"
        /\ UNCHANGED <<machine, beating, pushed, code, synced, beat, signal>>

ScriptEnds == Push \/ Upload \/ Signal \/ Shutdown

-----------------------------------------------------------------------------
(* The operator's process: launch. *)

Completed == mpc' = "returned" /\ outcome' = [how |-> "completed", code |-> signal]

Return(how) == mpc' = "returned" /\ outcome' = [how |-> how, code |-> None]

(* An experiment's image is built and pushed here, or the configuration     *)
(* names one; build may be all that was asked for.                          *)
BuildEcr ==
  /\ job = "experiment" /\ backend = "aws"
  /\ pushed' = TRUE /\ mpc' \in {"launch", "detached"}

BuildDockerHub ==
  /\ job = "experiment" /\ backend = "runpod"
  /\ pushed' = TRUE /\ mpc' \in {"launch", "detached"}

(* A remote build packs its sources and uploads them. *)
PackSources ==
  /\ job = "build"
  /\ UNCHANGED pushed /\ mpc' = "launch"

Image ==
  /\ mpc = "image"
  /\ BuildEcr \/ BuildDockerHub \/ PackSources
  /\ UNCHANGED <<cloud, machine, age, box, beating, code, synced, beat, signal,
                 elapsed, watch, outcome, fault>>

LaunchFails ==
  /\ mpc \in {"image", "launch"}
  /\ Return("launch failed")
  /\ UNCHANGED <<cloud, machine, age, script, elapsed, watch, fault>>

(* With spot asked for, an instance that cannot be had is launched on demand. *)
SpotFirst == market' \in {"spot", "on-demand"}

Started == machine' = "running" /\ elapsed' = 0

OnEc2 ==
  /\ mpc = "launch"
  /\ SpotFirst /\ Started
  /\ mpc' \in {"sleep", "detached"}
  /\ UNCHANGED <<job, backend, flaky, age, script, watch, outcome, fault>>

LaunchEc2 == job = "experiment" /\ backend = "aws" /\ OnEc2

LaunchBuilder == job = "build" /\ backend = "aws" /\ OnEc2

(* When the answer is lost, the launch fails and the pod is there. *)
CreatePod ==
  /\ Started
  /\ \/ mpc' = "query" /\ UNCHANGED outcome
     \/ flaky /\ Return("launch failed")

LaunchRunpod ==
  /\ mpc = "launch" /\ backend = "runpod"
  /\ CreatePod
  /\ UNCHANGED <<cloud, age, script, watch, fault>>

PodReady == machine = "exited" \/ (Up /\ box # "off")

(* wait_ready. When it times out the pod is left as it is. *)
WaitReady ==
  /\ mpc = "query"
  /\ \/ elapsed > ReadyTimeout /\ Return("not ready") /\ UNCHANGED elapsed
     \/ /\ elapsed <= ReadyTimeout
        /\ PodReady
        /\ mpc' \in {"sleep", "detached"} /\ elapsed' = 0 /\ UNCHANGED outcome
     \/ /\ elapsed <= ReadyTimeout
        /\ flaky \/ ~PodReady
        /\ mpc' = "wait" /\ UNCHANGED <<elapsed, outcome>>
  /\ UNCHANGED <<cloud, machine, age, script, watch, fault>>

-----------------------------------------------------------------------------
(* The monitor loop: sleep, and one step per call. *)

(* Time passes while the process sleeps, or when it is no longer there. *)
Tick ==
  /\ mpc \in {"wait", "sleep"} \cup Done
  /\ mpc' = CASE mpc = "wait" -> "query" [] mpc = "sleep" -> "completion" [] OTHER -> mpc
  /\ age' = IF Up THEN UpTo(age + 1, MaxTtl + 1) ELSE age
  /\ IF mpc \in Done THEN UNCHANGED <<elapsed, quiet, polls, fault>>
     ELSE /\ elapsed' = UpTo(elapsed + 1, LongAgo)
          /\ quiet' = UpTo(quiet + 1, BeatTimeout + 1)
          /\ polls' = (polls + 1) % IdleEvery
          /\ fault' = FALSE
  /\ UNCHANGED <<cloud, machine, script, booted, idle, outcome>>

Poll(at) ==
  mpc = at /\ UNCHANGED <<cloud, age, elapsed, polls>>

(* What a failing read returns is what a read of nothing does. *)
CheckCompletion ==
  /\ Poll("completion")
  /\ \/ signal # None /\ Completed /\ UNCHANGED fault
     \/ /\ signal = None \/ flaky
        /\ mpc' = "heartbeat" /\ UNCHANGED outcome
        /\ fault' = (fault \/ signal # None)
  /\ UNCHANGED <<machine, script, booted, quiet, idle>>

(* Any heartbeat.json in the bucket will do, however old. *)
CheckHeartbeat ==
  /\ Poll("heartbeat")
  /\ \/ beat /\ booted' = TRUE /\ quiet' = 0
     \/ (~beat \/ flaky) /\ UNCHANGED <<booted, quiet>>
  /\ mpc' = "running"
  /\ UNCHANGED <<machine, script, idle, outcome, fault>>

(* A failing call counts as a machine that is gone. *)
CheckRunning ==
  /\ Poll("running")
  /\ \/ Up /\ mpc' = "guards" /\ UNCHANGED fault
     \/ (~Up \/ flaky) /\ mpc' = "recheck" /\ fault' = (fault \/ Up)
  /\ UNCHANGED <<machine, script, booted, quiet, idle, outcome>>

RecheckNot ==  (* mutant: the status is not looked at again *)
  /\ Poll("recheck")
  /\ Return("gone")
  /\ UNCHANGED <<machine, script, booted, quiet, idle, fault>>

Recheck ==
  /\ Poll("recheck")
  /\ \/ signal # None /\ Completed /\ UNCHANGED fault
     \/ /\ signal = None \/ flaky
        /\ Return("gone")
        /\ fault' = (fault \/ signal # None)
  /\ UNCHANGED <<machine, script, booted, quiet, idle>>

EndMachine(why) ==
  \/ Terminate /\ Return(why)
  \/ flaky /\ Return("call failed") /\ UNCHANGED <<machine, script>>

ExpiredIfBooted ==  (* mutant: a machine that never booted is waited for *)
  booted /\ (quiet > BeatTimeout \/ elapsed > MaxRuntime)

Expired == (booted /\ quiet > BeatTimeout) \/ elapsed > MaxRuntime

GuardsLeave ==  (* mutant: the machine is not terminated *)
  /\ Poll("guards")
  /\ \/ Expired /\ Return("timed out") /\ UNCHANGED <<machine, script>>
     \/ ~Expired /\ mpc' = "idle" /\ UNCHANGED <<machine, script, outcome>>
  /\ UNCHANGED <<booted, quiet, idle, fault>>

Guards ==
  /\ Poll("guards")
  /\ \/ Expired /\ EndMachine("timed out")
     \/ ~Expired /\ mpc' = "idle" /\ UNCHANGED <<machine, script, outcome>>
  /\ UNCHANGED <<booted, quiet, idle, fault>>

(* Average CPU below five percent, five percent or more, or no data.        *)
IdleNever(n) == n > 2  (* mutant *)
IdleEnough(n) == n >= 2

CheckIdle ==
  /\ Poll("idle")
  /\ \/ /\ backend = "aws" /\ booted /\ polls = 0
        /\ idle' = idle + 1
        /\ \/ IdleEnough(idle + 1) /\ EndMachine("idle")
           \/ ~IdleEnough(idle + 1) /\ mpc' = "sleep" /\ UNCHANGED <<machine, script, outcome>>
     \/ /\ backend = "aws" /\ booted /\ polls = 0
        /\ idle' = 0
        /\ mpc' = "sleep" /\ UNCHANGED <<machine, script, outcome>>
     \/ /\ mpc' = "sleep" /\ UNCHANGED <<idle, machine, script, outcome>>
  /\ UNCHANGED <<booted, quiet, fault>>

Operate ==
  \/ WaitReady \/ CheckCompletion \/ CheckHeartbeat \/ CheckRunning \/ Recheck
  \/ Guards \/ CheckIdle

-----------------------------------------------------------------------------
(* The user. *)

(* stop finds an instance by its tag and a pod by its name, which is cut to *)
(* 28 characters of the run's.                                              *)
FoundInstance == backend = "aws" /\ Up
FoundPod      == backend = "runpod" /\ machine \in {"running", "exited"}

Stop ==
  /\ FoundInstance \/ FoundPod
  /\ Terminate
  /\ UNCHANGED <<cloud, age, process>>

(* cleanup terminates instances past their time to live, and stopped pods.  *)
ExpiredInstance == backend = "aws" /\ Up /\ age > MaxTtl
StoppedPod      == backend = "runpod" /\ machine = "exited"

Cleanup ==
  /\ ExpiredInstance \/ StoppedPod
  /\ Terminate
  /\ UNCHANGED <<cloud, age, process>>

Kill ==
  /\ mpc \in Following \cup {"query", "wait"}
  /\ mpc' = "killed"
  /\ UNCHANGED <<cloud, machine, age, script, elapsed, watch, outcome, fault>>

Next ==
  \/ Boot \/ Prepare \/ Heartbeat \/ CommandEnds \/ ScriptEnds \/ Reclaimed
  \/ Image \/ LaunchFails \/ LaunchEc2 \/ LaunchBuilder \/ LaunchRunpod \/ Tick \/ Operate
  \/ Stop \/ Cleanup \/ Kill

Spec == Init /\ [][Next]_vars

(* Time passes, the process goes on, and a script whose command ended runs  *)
(* to its end. Nothing is asked of the machine's boot or of the command.    *)
Fairness == WF_vars(Tick) /\ WF_vars(Operate) /\ WF_vars(ScriptEnds)

FairSpec == Spec /\ Fairness

-----------------------------------------------------------------------------
TypeOK ==
  /\ job \in {"experiment", "build"} /\ backend \in {"aws", "runpod"}
  /\ machine \in {"none", "running", "exited", "gone"}
  /\ market \in {"spot", "on-demand"} /\ age \in 0 .. MaxTtl + 1
  /\ box \in {"off", "prepare", "work", "push", "upload", "signal", "stop", "ended"}
  /\ {flaky, beating, pushed, synced, beat, booted, fault} \subseteq BOOLEAN
  /\ {code, signal} \subseteq Codes \cup {None}
  /\ mpc \in {"image", "launch", "query", "wait"} \cup Following \cup Done
  /\ elapsed \in 0 .. LongAgo
  /\ quiet \in 0 .. BeatTimeout + 1 /\ polls \in 0 .. IdleEvery - 1 /\ idle \in 0 .. 2
  /\ outcome \in Outcomes

(* The exit code a followed launch reports is that of the command, and its  *)
(* results were uploaded before (userdata.rs:115-127): a run that lost its  *)
(* machine, its data or its heartbeat is never reported as complete, nor a  *)
(* build as successful whose image did not reach the registry               *)
(* (build.rs:276-278, 579-600).                                             *)
ResultIsReal ==
  outcome.how = "completed" =>
    /\ outcome.code = code /\ synced
    /\ job = "build" /\ code = 0 => pushed

(* A machine that signals and stops between two calls of a poll is not      *)
(* taken for one that died: "no longer running and no completion status" is *)
(* true, unless a call of that poll failed (monitor.rs:92-101).             *)
NoLostCompletion ==
  outcome.how = "gone" /\ ~fault => signal = None /\ ~Up

(* cleanup never takes the machine of a run that is followed: its time to   *)
(* live is longer than the monitor lets it run (launch.rs:423).             *)
FollowedIsYoung ==
  backend = "aws" /\ mpc \in Following => age <= MaxTtl

(* A followed launch returns, whatever the machine and the calls do.        *)
MonitorReturns == mpc \in Following ~> mpc \in Done

(* If calls do not fail, a followed machine does not run for ever: it stops *)
(* itself after the signal, or the monitor terminates it (main.rs, README:  *)
(* automatic shutdown), also when its script died before the heartbeat.     *)
MachineIsFreed == mpc \in Following /\ ~flaky ~> ~Up \/ mpc = "killed"

(* The inductive invariant behind these. What status.json says, and what    *)
(* the process returned because of it:                                      *)
SignalInv ==
  /\ box \in {"push", "upload", "signal", "stop"} => code # None
  /\ job = "build" /\ code = 0 /\ box \in {"upload", "signal", "stop"} => pushed
  /\ box \in {"signal", "stop"} => synced
  /\ box \in {"push", "upload", "signal"} => signal = None
  /\ signal # None =>
       /\ signal = code /\ synced /\ box \in {"stop", "ended"}
       /\ job = "build" /\ code = 0 => pushed

OutcomeInv ==
  /\ mpc # "returned" => outcome.how = "none" /\ idle < 2
  /\ outcome.how = "completed" => signal # None /\ outcome.code = signal
  /\ mpc = "recheck" /\ ~fault => ~Up
  /\ outcome.how = "gone" /\ ~fault => signal = None /\ ~Up

(* The time since the launch is the time since the monitor began.           *)
AgeInv ==
  /\ mpc \in {"image", "launch"} => age = 0 /\ elapsed = 0
  /\ backend = "aws" => mpc \notin {"query", "wait"}
  /\ backend = "aws" /\ mpc \in Following =>
       /\ age <= elapsed /\ elapsed <= MaxRuntime + 1
       /\ mpc \in {"sleep", "idle"} => elapsed <= MaxRuntime

IInv == TypeOK /\ SignalInv /\ OutcomeInv /\ AgeInv
=============================================================================
