--------------------------- MODULE CloudRunProofs ---------------------------
(***************************************************************************)
(* The safety properties of a cloud run, for any exit codes, time limits   *)
(* and idle interval. IInv of CloudRun is inductive: one lemma per part,   *)
(* one step per action. TypeOK is split into four parts, which disturb     *)
(* each other only through the count of idle checks.                       *)
(***************************************************************************)
EXTENDS CloudRun, TLAPS

(* One and a half times a limit of two or more is more than the limit, so a *)
(* monitor that overshoots it by one poll is still within the time to live. *)
LEMMA TimeToLive == MaxTtl \in Nat /\ MaxTtl >= MaxRuntime + 1
BY CloudAssumption DEF MaxTtl

(* The parts of TypeOK. *)
MachineTypes ==
  /\ job \in {"experiment", "build"} /\ backend \in {"aws", "runpod"}
  /\ machine \in {"none", "running", "exited", "gone"}
  /\ market \in {"spot", "on-demand"}
  /\ box \in {"off", "prepare", "work", "push", "upload", "signal", "stop", "ended"}
  /\ code \in Codes \cup {None} /\ signal \in Codes \cup {None}

Flags ==
  /\ flaky \in BOOLEAN /\ beating \in BOOLEAN /\ pushed \in BOOLEAN /\ synced \in BOOLEAN
  /\ beat \in BOOLEAN /\ booted \in BOOLEAN /\ fault \in BOOLEAN

Counts ==
  /\ age \in 0 .. MaxTtl + 1 /\ elapsed \in 0 .. LongAgo
  /\ quiet \in 0 .. BeatTimeout + 1 /\ polls \in 0 .. IdleEvery - 1 /\ idle \in 0 .. 2

ProcessTypes ==
  /\ mpc \in {"image", "launch", "query", "wait"} \cup Following \cup Done
  /\ outcome \in Outcomes

(* TypeOK is the conjunction of its parts. *)
LEMMA TypeParts == TypeOK <=> MachineTypes /\ Flags /\ Counts /\ ProcessTypes
BY DEF TypeOK, MachineTypes, Flags, Counts, ProcessTypes

(* What the ways to return leave behind. *)
LEMMA Ended ==
  ASSUME NEW how \in {"launch failed", "not ready", "gone", "timed out", "idle", "call failed"},
         Return(how)
  PROVE  /\ mpc' = "returned" /\ outcome' \in Outcomes
         /\ outcome'.how = how
BY DEF Return, Outcomes

(* A completion reports what status.json says. *)
LEMMA CompletedEnds ==
  ASSUME MachineTypes, Completed
  PROVE  /\ mpc' = "returned" /\ outcome' \in Outcomes
         /\ outcome'.how = "completed" /\ outcome'.code = signal
BY DEF Completed, MachineTypes, Outcomes

(* The two steps of a poll that may terminate the machine either go on and  *)
(* leave everything as it is, or return.                                    *)
LEMMA GuardsEnd ==
  ASSUME Guards
  PROVE  /\ mpc = "guards" /\ UNCHANGED <<backend, age, elapsed, idle, fault>>
         /\ \/ mpc' = "idle" /\ ~Expired /\ UNCHANGED <<machine, signal, outcome>>
            \/ Return("timed out")
            \/ Return("call failed")
BY DEF Guards, Poll, cloud, script, EndMachine

(* The idle check also counts: it goes on only with a count below two.      *)
LEMMA CheckIdleEnds ==
  ASSUME CheckIdle
  PROVE  /\ mpc = "idle" /\ UNCHANGED <<backend, age, elapsed, fault>>
         /\ \/ mpc' = "sleep" /\ UNCHANGED <<machine, signal, outcome>>
            \/ Return("idle")
            \/ Return("call failed")
         /\ \/ idle' = idle + 1 /\ (IdleEnough(idle + 1) \/ mpc' = "sleep")
            \/ idle' \in {0, idle}
         /\ mpc' = "sleep" => idle' \in {0, idle} \/ (idle' = idle + 1 /\ ~IdleEnough(idle + 1))
BY DEF CheckIdle, Poll, cloud, script, EndMachine, Return

(* Machine, script and status keep their types. *)
LEMMA StepMachineTypes ==
  ASSUME MachineTypes, [Next]_vars PROVE MachineTypes'
<1> USE CloudAssumption DEF MachineTypes, vars, cloud, script, process, watch
<1>1. CASE Boot
  BY <1>1 DEF Boot, Script
<1>2. CASE Prepare
  BY <1>2 DEF Prepare, Script
<1>3. CASE Heartbeat
  BY <1>3 DEF Heartbeat
<1>4. CASE CommandEnds
  BY <1>4 DEF CommandEnds, Script
<1>5. CASE Upload
  BY <1>5 DEF Upload, Script
<1>6. CASE Signal
  BY <1>6 DEF Signal, Script
<1>7. CASE Shutdown
  BY <1>7 DEF Shutdown, Script, Down
<1>8. CASE Reclaimed
  BY <1>8 DEF Reclaimed, Down
<1>9. CASE LaunchFails
  BY <1>9 DEF LaunchFails, Return
<1>10. CASE LaunchEc2
  BY <1>10 DEF LaunchEc2, OnEc2, SpotFirst, Started
<1>11. CASE LaunchRunpod
  BY <1>11 DEF LaunchRunpod, CreatePod, Started, Return
<1>12. CASE Tick
  BY <1>12 DEF Tick, UpTo
<1>13. CASE WaitReady
  BY <1>13 DEF WaitReady, Return
<1>14. CASE CheckCompletion
  BY <1>14 DEF CheckCompletion, Poll, Completed
<1>15. CASE CheckHeartbeat
  BY <1>15 DEF CheckHeartbeat, Poll
<1>16. CASE CheckRunning
  BY <1>16 DEF CheckRunning, Poll
<1>17. CASE Recheck
  BY <1>17 DEF Recheck, Poll, Completed, Return
<1>18. CASE Guards
  BY <1>18 DEF Guards, Poll, Expired, EndMachine, Return, Terminate, Down
<1>19. CASE CheckIdle
  BY <1>19 DEF CheckIdle, Poll, EndMachine, Return, Terminate, Down, IdleEnough
<1>20. CASE Stop
  BY <1>20 DEF Stop, Terminate, Down
<1>21. CASE Cleanup
  BY <1>21 DEF Cleanup, Terminate, Down
<1>22. CASE Kill
  BY <1>22 DEF Kill
<1>23. CASE Image
  BY <1>23 DEF Image, BuildEcr, BuildDockerHub, PackSources
<1>24. CASE Push
  BY <1>24 DEF Push, Script
<1>25. CASE LaunchBuilder
  BY <1>25 DEF LaunchBuilder, OnEc2, SpotFirst, Started
<1>26. CASE UNCHANGED vars
  BY <1>26 DEF vars
<1> QED
  BY <1>1, <1>2, <1>3, <1>4, <1>5, <1>6, <1>7, <1>8, <1>9, <1>10, <1>11, <1>12, <1>13, <1>14, <1>15, <1>16, <1>17, <1>18, <1>19, <1>20, <1>21, <1>22, <1>23, <1>24, <1>25, <1>26 DEF Next, ScriptEnds, Operate

(* The flags stay Boolean. *)
LEMMA StepFlags ==
  ASSUME Flags, [Next]_vars PROVE Flags'
<1> USE CloudAssumption DEF Flags, vars, cloud, script, process, watch
<1>1. CASE Boot
  BY <1>1 DEF Boot, Script
<1>2. CASE Prepare
  BY <1>2 DEF Prepare, Script
<1>3. CASE Heartbeat
  BY <1>3 DEF Heartbeat
<1>4. CASE CommandEnds
  BY <1>4 DEF CommandEnds, Script
<1>5. CASE Upload
  BY <1>5 DEF Upload, Script
<1>6. CASE Signal
  BY <1>6 DEF Signal, Script
<1>7. CASE Shutdown
  BY <1>7 DEF Shutdown, Script, Down
<1>8. CASE Reclaimed
  BY <1>8 DEF Reclaimed, Down
<1>9. CASE LaunchFails
  BY <1>9 DEF LaunchFails, Return
<1>10. CASE LaunchEc2
  BY <1>10 DEF LaunchEc2, OnEc2, SpotFirst, Started
<1>11. CASE LaunchRunpod
  BY <1>11 DEF LaunchRunpod, CreatePod, Started, Return
<1>12. CASE Tick
  BY <1>12 DEF Tick, UpTo
<1>13. CASE WaitReady
  BY <1>13 DEF WaitReady, Return
<1>14. CASE CheckCompletion
  BY <1>14 DEF CheckCompletion, Poll, Completed
<1>15. CASE CheckHeartbeat
  BY <1>15 DEF CheckHeartbeat, Poll
<1>16. CASE CheckRunning
  BY <1>16 DEF CheckRunning, Poll
<1>17. CASE Recheck
  BY <1>17 DEF Recheck, Poll, Completed, Return
<1>18. CASE Guards
  BY <1>18 DEF Guards, Poll, Expired, EndMachine, Return, Terminate, Down
<1>19. CASE CheckIdle
  BY <1>19 DEF CheckIdle, Poll, EndMachine, Return, Terminate, Down, IdleEnough
<1>20. CASE Stop
  BY <1>20 DEF Stop, Terminate, Down
<1>21. CASE Cleanup
  BY <1>21 DEF Cleanup, Terminate, Down
<1>22. CASE Kill
  BY <1>22 DEF Kill
<1>23. CASE Image
  BY <1>23 DEF Image, BuildEcr, BuildDockerHub, PackSources
<1>24. CASE Push
  BY <1>24 DEF Push, Script
<1>25. CASE LaunchBuilder
  BY <1>25 DEF LaunchBuilder, OnEc2, SpotFirst, Started
<1>26. CASE UNCHANGED vars
  BY <1>26 DEF vars
<1> QED
  BY <1>1, <1>2, <1>3, <1>4, <1>5, <1>6, <1>7, <1>8, <1>9, <1>10, <1>11, <1>12, <1>13, <1>14, <1>15, <1>16, <1>17, <1>18, <1>19, <1>20, <1>21, <1>22, <1>23, <1>24, <1>25, <1>26 DEF Next, ScriptEnds, Operate

(* The counts stay in their ranges; the idle count because the loop is left *)
(* at two.                                                                  *)
LEMMA StepCounts ==
  ASSUME Counts, OutcomeInv, [Next]_vars PROVE Counts'
<1> USE CloudAssumption DEF Counts, OutcomeInv, LongAgo, vars, cloud, script, process, watch
<1>1. CASE Boot
  BY <1>1 DEF Boot, Script
<1>2. CASE Prepare
  BY <1>2 DEF Prepare, Script
<1>3. CASE Heartbeat
  BY <1>3 DEF Heartbeat
<1>4. CASE CommandEnds
  BY <1>4 DEF CommandEnds, Script
<1>5. CASE Upload
  BY <1>5 DEF Upload, Script
<1>6. CASE Signal
  BY <1>6 DEF Signal, Script
<1>7. CASE Shutdown
  BY <1>7 DEF Shutdown, Script, Down
<1>8. CASE Reclaimed
  BY <1>8 DEF Reclaimed, Down
<1>9. CASE LaunchFails
  BY <1>9 DEF LaunchFails, Return
<1>10. CASE LaunchEc2
  BY <1>10 DEF LaunchEc2, OnEc2, SpotFirst, Started
<1>11. CASE LaunchRunpod
  <2>1. UNCHANGED <<age, quiet, polls, idle>> /\ elapsed' = 0
    BY <1>11 DEF LaunchRunpod, CreatePod, Started
  <2> QED
    BY <2>1
<1>12. CASE Tick
  BY <1>12, TimeToLive DEF Tick, UpTo
<1>13. CASE WaitReady
  <2>1. UNCHANGED <<age, quiet, polls, idle>> /\ elapsed' \in {0, elapsed}
    BY <1>13 DEF WaitReady
  <2> QED
    BY <2>1
<1>14. CASE CheckCompletion
  BY <1>14 DEF CheckCompletion, Poll, Completed
<1>15. CASE CheckHeartbeat
  BY <1>15 DEF CheckHeartbeat, Poll
<1>16. CASE CheckRunning
  BY <1>16 DEF CheckRunning, Poll
<1>17. CASE Recheck
  BY <1>17 DEF Recheck, Poll, Completed, Return
<1>18. CASE Guards
  BY <1>18 DEF Guards, Poll, Expired, EndMachine, Return, Terminate, Down
<1>19. CASE CheckIdle
  <2>1. UNCHANGED <<age, elapsed, quiet, polls>>
    BY <1>19 DEF CheckIdle, Poll
  <2>2. idle < 2
    BY <1>19 DEF CheckIdle, Poll
  <2>3. idle' \in {0, idle, idle + 1}
    BY <1>19 DEF CheckIdle
  <2> QED
    BY <2>1, <2>2, <2>3
<1>20. CASE Stop
  BY <1>20 DEF Stop, Terminate, Down
<1>21. CASE Cleanup
  BY <1>21 DEF Cleanup, Terminate, Down
<1>22. CASE Kill
  BY <1>22 DEF Kill
<1>23. CASE Image
  BY <1>23 DEF Image, BuildEcr, BuildDockerHub, PackSources
<1>24. CASE Push
  BY <1>24 DEF Push, Script
<1>25. CASE LaunchBuilder
  BY <1>25 DEF LaunchBuilder, OnEc2, SpotFirst, Started
<1>26. CASE UNCHANGED vars
  BY <1>26 DEF vars
<1> QED
  BY <1>1, <1>2, <1>3, <1>4, <1>5, <1>6, <1>7, <1>8, <1>9, <1>10, <1>11, <1>12, <1>13, <1>14, <1>15, <1>16, <1>17, <1>18, <1>19, <1>20, <1>21, <1>22, <1>23, <1>24, <1>25, <1>26 DEF Next, ScriptEnds, Operate

(* The operator's process stays at one of its points, its outcome one of    *)
(* its ways to end.                                                         *)
LEMMA StepProcessTypes ==
  ASSUME ProcessTypes, MachineTypes, [Next]_vars PROVE ProcessTypes'
<1> USE CloudAssumption DEF ProcessTypes, Following, Done, vars, cloud, script, process, watch
<1>1. CASE Boot
  BY <1>1 DEF Boot, Script
<1>2. CASE Prepare
  BY <1>2 DEF Prepare, Script
<1>3. CASE Heartbeat
  BY <1>3 DEF Heartbeat
<1>4. CASE CommandEnds
  BY <1>4 DEF CommandEnds, Script
<1>5. CASE Upload
  BY <1>5 DEF Upload, Script
<1>6. CASE Signal
  BY <1>6 DEF Signal, Script
<1>7. CASE Shutdown
  BY <1>7 DEF Shutdown, Script, Down
<1>8. CASE Reclaimed
  BY <1>8 DEF Reclaimed, Down
<1>9. CASE LaunchFails
  BY <1>9, Ended DEF LaunchFails
<1>10. CASE LaunchEc2
  BY <1>10 DEF LaunchEc2, OnEc2, SpotFirst, Started
<1>11. CASE LaunchRunpod
  <2>1. CASE Return("launch failed")
    BY <1>11, <2>1, Ended DEF LaunchRunpod
  <2>2. CASE mpc' = "query" /\ UNCHANGED outcome
    BY <1>11, <2>2 DEF LaunchRunpod
  <2> QED
    BY <1>11, <2>1, <2>2 DEF LaunchRunpod, CreatePod
<1>12. CASE Tick
  BY <1>12 DEF Tick, UpTo
<1>13. CASE WaitReady
  <2>1. CASE Return("not ready")
    BY <1>13, <2>1, Ended DEF WaitReady
  <2>2. CASE mpc' \in {"sleep", "detached", "wait"} /\ UNCHANGED outcome
    BY <1>13, <2>2 DEF WaitReady
  <2> QED
    BY <1>13, <2>1, <2>2 DEF WaitReady
<1>14. CASE CheckCompletion
  <2>1. CASE Completed
    BY <1>14, <2>1, CompletedEnds DEF CheckCompletion, Poll
  <2>2. CASE mpc' = "heartbeat" /\ UNCHANGED outcome
    BY <1>14, <2>2, Ended DEF CheckCompletion, Poll
  <2> QED
    BY <1>14, <2>1, <2>2 DEF CheckCompletion
<1>15. CASE CheckHeartbeat
  BY <1>15 DEF CheckHeartbeat, Poll
<1>16. CASE CheckRunning
  BY <1>16 DEF CheckRunning, Poll
<1>17. CASE Recheck
  <2>1. CASE Completed
    BY <1>17, <2>1, CompletedEnds DEF Recheck, Poll
  <2>2. CASE Return("gone")
    BY <1>17, <2>2, Ended DEF Recheck, Poll
  <2> QED
    BY <1>17, <2>1, <2>2 DEF Recheck
<1>18. CASE Guards
  BY <1>18, GuardsEnd, Ended
<1>19. CASE CheckIdle
  BY <1>19, CheckIdleEnds, Ended
<1>20. CASE Stop
  BY <1>20 DEF Stop, Terminate, Down
<1>21. CASE Cleanup
  BY <1>21 DEF Cleanup, Terminate, Down
<1>22. CASE Kill
  BY <1>22 DEF Kill
<1>23. CASE Image
  BY <1>23 DEF Image, BuildEcr, BuildDockerHub, PackSources
<1>24. CASE Push
  BY <1>24 DEF Push, Script
<1>25. CASE LaunchBuilder
  BY <1>25 DEF LaunchBuilder, OnEc2, SpotFirst, Started
<1>26. CASE UNCHANGED vars
  BY <1>26 DEF vars
<1> QED
  BY <1>1, <1>2, <1>3, <1>4, <1>5, <1>6, <1>7, <1>8, <1>9, <1>10, <1>11, <1>12, <1>13, <1>14, <1>15, <1>16, <1>17, <1>18, <1>19, <1>20, <1>21, <1>22, <1>23, <1>24, <1>25, <1>26 DEF Next, ScriptEnds, Operate

(* A script that has signalled had uploaded, and never signals again. *)
LEMMA StepSignalInv ==
  ASSUME MachineTypes, SignalInv, [Next]_vars PROVE SignalInv'
<1> USE CloudAssumption DEF MachineTypes, SignalInv, Up, vars, cloud, script, process, watch
<1>1. CASE Boot
  BY <1>1 DEF Boot, Script
<1>2. CASE Prepare
  BY <1>2 DEF Prepare, Script
<1>3. CASE Heartbeat
  BY <1>3 DEF Heartbeat
<1>4. CASE CommandEnds
  BY <1>4 DEF CommandEnds, Script
<1>5. CASE Upload
  BY <1>5 DEF Upload, Script
<1>6. CASE Signal
  BY <1>6 DEF Signal, Script
<1>7. CASE Shutdown
  BY <1>7 DEF Shutdown, Script, Down
<1>8. CASE Reclaimed
  BY <1>8 DEF Reclaimed, Down
<1>9. CASE LaunchFails
  BY <1>9 DEF LaunchFails, Return
<1>10. CASE LaunchEc2
  BY <1>10 DEF LaunchEc2, OnEc2, SpotFirst, Started
<1>11. CASE LaunchRunpod
  BY <1>11 DEF LaunchRunpod, CreatePod, Started, Return
<1>12. CASE Tick
  BY <1>12 DEF Tick, UpTo
<1>13. CASE WaitReady
  BY <1>13 DEF WaitReady, Return
<1>14. CASE CheckCompletion
  BY <1>14 DEF CheckCompletion, Poll, Completed
<1>15. CASE CheckHeartbeat
  BY <1>15 DEF CheckHeartbeat, Poll
<1>16. CASE CheckRunning
  BY <1>16 DEF CheckRunning, Poll
<1>17. CASE Recheck
  BY <1>17 DEF Recheck, Poll, Completed, Return
<1>18. CASE Guards
  BY <1>18 DEF Guards, Poll, Expired, EndMachine, Return, Terminate, Down
<1>19. CASE CheckIdle
  BY <1>19 DEF CheckIdle, Poll, EndMachine, Return, Terminate, Down, IdleEnough
<1>20. CASE Stop
  BY <1>20 DEF Stop, Terminate, Down
<1>21. CASE Cleanup
  BY <1>21 DEF Cleanup, Terminate, Down
<1>22. CASE Kill
  BY <1>22 DEF Kill
<1>23. CASE Image
  BY <1>23 DEF Image, BuildEcr, BuildDockerHub, PackSources
<1>24. CASE Push
  BY <1>24 DEF Push, Script
<1>25. CASE LaunchBuilder
  BY <1>25 DEF LaunchBuilder, OnEc2, SpotFirst, Started
<1>26. CASE UNCHANGED vars
  BY <1>26 DEF vars
<1> QED
  BY <1>1, <1>2, <1>3, <1>4, <1>5, <1>6, <1>7, <1>8, <1>9, <1>10, <1>11, <1>12, <1>13, <1>14, <1>15, <1>16, <1>17, <1>18, <1>19, <1>20, <1>21, <1>22, <1>23, <1>24, <1>25, <1>26 DEF Next, ScriptEnds, Operate

(* What the process returned stays true of the machine and the bucket. *)
LEMMA StepOutcomeInv ==
  ASSUME TypeOK, SignalInv, OutcomeInv, [Next]_vars PROVE OutcomeInv'
<1> USE CloudAssumption DEF TypeOK, SignalInv, OutcomeInv, Up, Following, Done, vars, cloud, script, process, watch
<1>1. CASE Boot
  BY <1>1 DEF Boot, Script
<1>2. CASE Prepare
  BY <1>2 DEF Prepare, Script
<1>3. CASE Heartbeat
  BY <1>3 DEF Heartbeat
<1>4. CASE CommandEnds
  BY <1>4 DEF CommandEnds, Script
<1>5. CASE Upload
  BY <1>5 DEF Upload, Script
<1>6. CASE Signal
  BY <1>6 DEF Signal, Script
<1>7. CASE Shutdown
  BY <1>7 DEF Shutdown, Script, Down
<1>8. CASE Reclaimed
  BY <1>8 DEF Reclaimed, Down
<1>9. CASE LaunchFails
  BY <1>9 DEF LaunchFails, Return
<1>10. CASE LaunchEc2
  BY <1>10 DEF LaunchEc2, OnEc2, SpotFirst, Started
<1>11. CASE LaunchRunpod
  <2>1. CASE Return("launch failed")
    BY <1>11, <2>1, Ended DEF LaunchRunpod
  <2>2. CASE mpc' = "query" /\ UNCHANGED outcome
    BY <1>11, <2>2 DEF LaunchRunpod
  <2> QED
    BY <1>11, <2>1, <2>2 DEF LaunchRunpod, CreatePod
<1>12. CASE Tick
  BY <1>12 DEF Tick, UpTo
<1>13. CASE WaitReady
  <2>1. CASE Return("not ready")
    BY <1>13, <2>1, Ended DEF WaitReady
  <2>2. CASE mpc' \in {"sleep", "detached", "wait"} /\ UNCHANGED outcome
    BY <1>13, <2>2 DEF WaitReady
  <2> QED
    BY <1>13, <2>1, <2>2 DEF WaitReady
<1>14. CASE CheckCompletion
  BY <1>14 DEF CheckCompletion, Poll, Completed
<1>15. CASE CheckHeartbeat
  BY <1>15 DEF CheckHeartbeat, Poll
<1>16. CASE CheckRunning
  BY <1>16 DEF CheckRunning, Poll
<1>17. CASE Recheck
  BY <1>17 DEF Recheck, Poll, Completed, Return
<1>18. CASE Guards
  BY <1>18, GuardsEnd, Ended
<1>19. CASE CheckIdle
  <2>1. idle < 2 /\ idle \in Nat
    <3>1. mpc = "idle"
      BY <1>19, CheckIdleEnds
    <3> QED
      BY <3>1
  <2>2. CASE mpc' = "sleep" /\ UNCHANGED <<machine, signal, outcome>>
    <3>1. idle' < 2
      BY <1>19, <2>1, <2>2, CheckIdleEnds DEF IdleEnough
    <3> QED
      BY <1>19, <2>2, <3>1, CheckIdleEnds
  <2>3. CASE mpc' = "returned" /\ outcome'.how \in {"idle", "call failed"}
    BY <2>3
  <2> QED
    BY <1>19, <2>2, <2>3, CheckIdleEnds, Ended
<1>20. CASE Stop
  BY <1>20 DEF Stop, Terminate, Down
<1>21. CASE Cleanup
  BY <1>21 DEF Cleanup, Terminate, Down
<1>22. CASE Kill
  BY <1>22 DEF Kill
<1>23. CASE Image
  BY <1>23 DEF Image, BuildEcr, BuildDockerHub, PackSources
<1>24. CASE Push
  BY <1>24 DEF Push, Script
<1>25. CASE LaunchBuilder
  BY <1>25 DEF LaunchBuilder, OnEc2, SpotFirst, Started
<1>26. CASE UNCHANGED vars
  BY <1>26 DEF vars
<1> QED
  BY <1>1, <1>2, <1>3, <1>4, <1>5, <1>6, <1>7, <1>8, <1>9, <1>10, <1>11, <1>12, <1>13, <1>14, <1>15, <1>16, <1>17, <1>18, <1>19, <1>20, <1>21, <1>22, <1>23, <1>24, <1>25, <1>26 DEF Next, ScriptEnds, Operate

(* Both clocks start at the launch, and a poll past the limit is the last. *)
LEMMA StepAgeInv ==
  ASSUME Counts, AgeInv, [Next]_vars PROVE AgeInv'
<1> USE CloudAssumption DEF Counts, AgeInv, Following, Done, LongAgo, vars, cloud, script, process, watch
<1>1. CASE Boot
  BY <1>1 DEF Boot, Script
<1>2. CASE Prepare
  BY <1>2 DEF Prepare, Script
<1>3. CASE Heartbeat
  BY <1>3 DEF Heartbeat
<1>4. CASE CommandEnds
  BY <1>4 DEF CommandEnds, Script
<1>5. CASE Upload
  BY <1>5 DEF Upload, Script
<1>6. CASE Signal
  BY <1>6 DEF Signal, Script
<1>7. CASE Shutdown
  BY <1>7 DEF Shutdown, Script, Down
<1>8. CASE Reclaimed
  BY <1>8 DEF Reclaimed, Down
<1>9. CASE LaunchFails
  BY <1>9 DEF LaunchFails, Return
<1>10. CASE LaunchEc2
  BY <1>10 DEF LaunchEc2, OnEc2, SpotFirst, Started
<1>11. CASE LaunchRunpod
  BY <1>11 DEF LaunchRunpod, CreatePod, Started, Return
<1>12. CASE Tick
  <2>1. mpc # "launch" /\ mpc' # "launch" /\ backend' = backend
    BY <1>12 DEF Tick
  <2>2. CASE mpc = "sleep"
    <3>1. age' <= age + 1 /\ elapsed' = UpTo(elapsed + 1, LongAgo) /\ mpc' = "completion"
      BY <1>12, <2>2, TimeToLive DEF Tick, UpTo
    <3>2. CASE backend = "aws"
      <4>1. age <= elapsed /\ elapsed <= MaxRuntime
        BY <2>2, <3>2
      <4>2. elapsed' = elapsed + 1
        BY <3>1, <4>1 DEF UpTo
      <4>3. age' \in Nat
        BY <1>12, TimeToLive DEF Tick, UpTo, Up
      <4> QED
        BY <2>1, <3>1, <4>1, <4>2, <4>3
    <3> QED
      BY <2>1, <3>1, <3>2
  <2>3. CASE mpc = "wait"
    BY <1>12, <2>1, <2>3 DEF Tick
  <2>4. CASE mpc \in Done
    BY <1>12, <2>1, <2>4 DEF Tick
  <2> QED
    BY <1>12, <2>2, <2>3, <2>4 DEF Tick
<1>13. CASE WaitReady
  BY <1>13 DEF WaitReady, Return
<1>14. CASE CheckCompletion
  BY <1>14 DEF CheckCompletion, Poll, Completed
<1>15. CASE CheckHeartbeat
  BY <1>15 DEF CheckHeartbeat, Poll
<1>16. CASE CheckRunning
  BY <1>16 DEF CheckRunning, Poll
<1>17. CASE Recheck
  BY <1>17 DEF Recheck, Poll, Completed, Return
<1>18. CASE Guards
  <2>1. mpc = "guards" /\ UNCHANGED <<backend, age, elapsed>>
    BY <1>18, GuardsEnd
  <2>2. CASE mpc' = "returned"
    BY <2>1, <2>2
  <2>3. CASE mpc' = "idle" /\ ~Expired
    <3>1. elapsed <= MaxRuntime
      BY <2>3 DEF Expired
    <3> QED
      BY <2>1, <2>3, <3>1
  <2> QED
    BY <1>18, <2>2, <2>3, GuardsEnd, Ended
<1>19. CASE CheckIdle
  BY <1>19 DEF CheckIdle, Poll, EndMachine, Return, Terminate, Down, IdleEnough
<1>20. CASE Stop
  BY <1>20 DEF Stop, Terminate, Down
<1>21. CASE Cleanup
  BY <1>21 DEF Cleanup, Terminate, Down
<1>22. CASE Kill
  BY <1>22 DEF Kill
<1>23. CASE Image
  BY <1>23 DEF Image, BuildEcr, BuildDockerHub, PackSources
<1>24. CASE Push
  BY <1>24 DEF Push, Script
<1>25. CASE LaunchBuilder
  BY <1>25 DEF LaunchBuilder, OnEc2, SpotFirst, Started
<1>26. CASE UNCHANGED vars
  BY <1>26 DEF vars
<1> QED
  BY <1>1, <1>2, <1>3, <1>4, <1>5, <1>6, <1>7, <1>8, <1>9, <1>10, <1>11, <1>12, <1>13, <1>14, <1>15, <1>16, <1>17, <1>18, <1>19, <1>20, <1>21, <1>22, <1>23, <1>24, <1>25, <1>26 DEF Next, ScriptEnds, Operate

-----------------------------------------------------------------------------
(* The invariant holds at the launch... *)
LEMMA InitIInv == Init => IInv
<1> SUFFICES ASSUME Init PROVE TypeOK /\ SignalInv /\ OutcomeInv /\ AgeInv
  BY DEF IInv
<1> USE CloudAssumption DEF Init
<1>1. MachineTypes /\ Flags
  BY DEF MachineTypes, Flags
<1>2. Counts
  BY TimeToLive DEF Counts, LongAgo
<1>3. ProcessTypes
  BY DEF ProcessTypes, Outcomes
<1>4. SignalInv
  BY DEF SignalInv
<1>5. OutcomeInv
  BY DEF OutcomeInv
<1>6. AgeInv
  BY DEF AgeInv, Following
<1> QED
  BY <1>1, <1>2, <1>3, <1>4, <1>5, <1>6, TypeParts

(* ...and every step keeps it. *)
LEMMA StepIInv == IInv /\ [Next]_vars => IInv'
<1> SUFFICES ASSUME IInv, [Next]_vars
             PROVE  TypeOK' /\ SignalInv' /\ OutcomeInv' /\ AgeInv'
  BY DEF IInv
<1>1. TypeOK /\ SignalInv /\ OutcomeInv /\ AgeInv
  BY DEF IInv
<1>2. MachineTypes /\ Flags /\ Counts /\ ProcessTypes
  BY <1>1, TypeParts
<1>3. MachineTypes' /\ Flags' /\ Counts' /\ ProcessTypes'
  BY <1>1, <1>2, StepMachineTypes, StepFlags, StepCounts, StepProcessTypes
<1>4. TypeOK'
  BY <1>3 DEF TypeOK, MachineTypes, Flags, Counts, ProcessTypes
<1>5. SignalInv' /\ OutcomeInv' /\ AgeInv'
  BY <1>1, <1>2, StepSignalInv, StepOutcomeInv, StepAgeInv
<1> QED
  BY <1>4, <1>5

(* Every reachable state of a cloud run, for any exit codes, time limits    *)
(* and idle interval, satisfies the inductive invariant.                    *)
THEOREM Invariance == Spec => []IInv
<1> QED
  BY InitIInv, StepIInv, PTL DEF Spec

(* Types, and the bounds of what the monitor counts: at most two idle       *)
(* checks in a row, whatever comes between them.                            *)
THEOREM TypeCorrect == Spec => []TypeOK
<1>1. IInv => TypeOK
  BY DEF IInv
<1> QED
  BY <1>1, Invariance, PTL

(* A followed launch that reports an exit code reports that of the          *)
(* experiment, after the upload of its results was tried.                   *)
THEOREM RealResult == Spec => []ResultIsReal
<1>1. IInv => ResultIsReal
  BY DEF IInv, SignalInv, OutcomeInv, ResultIsReal
<1> QED
  BY <1>1, Invariance, PTL

(* A machine that signalled is not reported as gone, unless a call failed:  *)
(* the second look at the status after the look at the machine is enough.   *)
THEOREM CompletionIsFound == Spec => []NoLostCompletion
<1>1. IInv => NoLostCompletion
  BY DEF IInv, OutcomeInv, NoLostCompletion
<1> QED
  BY <1>1, Invariance, PTL

(* For every time limit of at least two poll intervals, cleanup finds no    *)
(* instance past its time to live while a monitor follows it.               *)
THEOREM CleanupSparesFollowed == Spec => []FollowedIsYoung
<1>1. ASSUME IInv PROVE FollowedIsYoung
  <2> SUFFICES ASSUME backend = "aws", mpc \in Following PROVE age <= MaxTtl
    BY DEF FollowedIsYoung
  <2>1. age <= elapsed /\ elapsed <= MaxRuntime + 1
    BY <1>1 DEF IInv, AgeInv
  <2>2. age \in Nat /\ elapsed \in Nat
    BY <1>1, TimeToLive, CloudAssumption DEF IInv, TypeOK, LongAgo
  <2> QED
    BY <2>1, <2>2, TimeToLive, CloudAssumption
<1> QED
  BY <1>1, Invariance, PTL

=============================================================================
