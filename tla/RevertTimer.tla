----------------------------- MODULE RevertTimer -----------------------------
(***************************************************************************)
(* The rollback timer of netcli/internal/manager: a session that changes   *)
(* the configuration over the network first arms a timer; unless it        *)
(* confirms in time, a detached process, the watchdog, puts back the       *)
(* configuration that was running when the timer was armed.                *)
(*                                                                         *)
(* Nothing here holds the store lock except the Replace that reverts,      *)
(* which is Manager's: the commands and the watchdog work on two files     *)
(* (revert.json, which names the watchdog, and revert.yaml, the snapshot)  *)
(* and on the signal the commands send to the process that is named there. *)
(* A step is a read or a rename or an unlink of one of these files, a      *)
(* spawn, or a signal; a read of revert.json and the signal to the process *)
(* found there are one step.                                               *)
(*                                                                         *)
(* Every behaviour of this module is one of Manager (ManagerProofs then    *)
(* applies to it): a killed watchdog is a process that dies in its call.   *)
(***************************************************************************)
EXTENDS Manager, FiniteSets

CONSTANTS
  Sessions,   \* CLI sessions and web requests
  Dogs,       \* the watchdogs ever spawned (each PID is used once)
  Calls,      \* what a session asks of the manager outside the timer
  Upsets      \* "hangup":  a session dies, at its prompt or in a change
              \* "cutoff":  a session dies inside a revert command
              \* "overlap": revert commands and expiries overlap
              \* "files":   writing a file or spawning a process fails

ASSUME RevertTimerAssumption ==
  /\ Procs = Sessions \cup Dogs
  /\ Sessions \cap Dogs = {}
  /\ Calls \subseteq Requests
  /\ "die" \in Faults
  /\ \A d \in Dogs : d # NoFile
  /\ Upsets \subseteq {"hangup", "cutoff", "overlap", "files"}

VARIABLES
  stateFile,  \* revert.json: the PID of the watchdog
  snapshot,   \* revert.yaml
  at,         \* where each process is in a command or in the watchdog
  cmd,        \* the revert command of each session
  hand,       \* what it holds: the snapshot it loaded, the child it started
  parent,     \* the living session that spawned the watchdog
  promised    \* history: what the user was promised to get back

timerFiles == <<stateFile, snapshot>>
timerVars == <<stateFile, snapshot, at, cmd, hand, parent, promised>>
allVars == <<vars, timerVars>>

Resting == {"shell", "unborn", "asleep", "ended"}
Places == Resting \cup {"stop", "snapshot", "spawn", "state", "load", "replace",
                        "replacing", "removeState", "removeSnapshot"}

TimerTypeOK ==
  /\ TypeOK
  /\ stateFile \in {NoFile} \cup Dogs
  /\ snapshot \in FileContents
  /\ at \in [Procs -> Places]
  /\ cmd \in [Procs -> {"none", "arm", "confirm", "show", "revert"}]
  /\ hand \in [Procs -> {NoFile} \cup Configs \cup Dogs]
  /\ parent \in [Dogs -> Sessions \cup {NoProc}]
  /\ promised \in FileContents

TimerInit ==
  /\ Init
  /\ stateFile = NoFile
  /\ snapshot = NoFile
  /\ at = [p \in Procs |-> IF p \in Sessions THEN "shell" ELSE "unborn"]
  /\ cmd = [p \in Procs |-> "none"]
  /\ hand = [p \in Procs |-> NoFile]
  /\ parent = [d \in Dogs |-> NoProc]
  /\ promised = NoFile

Unborn == {d \in Dogs : at[d] = "unborn"}
Living == {d \in Dogs : at[d] \notin {"unborn", "ended"}}

(* kill(pid, 0) succeeds: the process lives, or it ended and the session   *)
(* that started it, which never waits for it, is still there.              *)
Answers(d) == d \in Living \/ (at[d] = "ended" /\ parent[d] # NoProc)

(* Without "overlap" a revert command and a watchdog that woke up are      *)
(* finished before the next one starts.                                    *)
MayStart == "overlap" \in Upsets \/ \A q \in Procs : at[q] \in Resting

Ready(s) == at[s] = "shell" /\ pc[s] = "idle"

(* A bound: a PID is left for every timer that is being armed.             *)
PidLeft ==
  Cardinality(Unborn) >
    Cardinality({s \in Sessions : cmd[s] = "arm" /\ at[s] # "state"})

-----------------------------------------------------------------------------
(* Steps the commands share                                                *)

Goto(p, place, command, held) ==
  /\ at' = [at EXCEPT ![p] = place]
  /\ cmd' = [cmd EXCEPT ![p] = command]
  /\ hand' = [hand EXCEPT ![p] = held]

Return(s) == Goto(s, "shell", "none", NoFile)

(* Signal d while p goes on; a watchdog that is in its Replace dies there. *)
Kill(p, d, place, command, held) ==
  /\ at' = [at EXCEPT ![p] = place, ![d] = "ended"]
  /\ cmd' = [cmd EXCEPT ![p] = command]
  /\ hand' = [hand EXCEPT ![p] = held, ![d] = NoFile]
  /\ IF pc[d] = "idle" THEN UNCHANGED vars ELSE Die(d)

(* Mutant: a timer that is already armed is not noticed.                   *)
FoundAliveResnapshot(s, command) ==
  /\ Ready(s) /\ MayStart
  /\ command = "arm" => PidLeft
  /\ stateFile # NoFile
  /\ Answers(stateFile)
  /\ command # "show"
  /\ Goto(s, IF command = "arm" THEN "snapshot" ELSE "stop", command, NoFile)
  /\ UNCHANGED <<vars, timerFiles, parent, promised>>

(* RevertPending, first step of every command but "revert now".  A timer   *)
(* whose process answers is pending.                                       *)
FoundAlive(s, command) ==
  /\ Ready(s) /\ MayStart
  /\ command = "arm" => PidLeft
  /\ stateFile # NoFile
  /\ Answers(stateFile)
  /\ command # "show"
  /\ Goto(s, "stop", command, NoFile)
  /\ UNCHANGED <<vars, timerFiles, parent, promised>>

(* One whose process is gone is cleared, by whoever looks; a confirm has   *)
(* nothing more to do then than to say so.                                 *)
FoundDead(s, command) ==
  /\ Ready(s) /\ MayStart
  /\ command = "arm" => PidLeft
  /\ stateFile # NoFile
  /\ ~Answers(stateFile)
  /\ Goto(s, "removeState", IF command = "arm" THEN "arm" ELSE "show", NoFile)
  /\ UNCHANGED <<vars, timerFiles, parent, promised>>

FoundNone(s, command) ==
  /\ Ready(s) /\ MayStart
  /\ command = "arm" /\ PidLeft
  /\ stateFile = NoFile
  /\ Goto(s, "snapshot", command, NoFile)
  /\ UNCHANGED <<vars, timerFiles, parent, promised>>

AfterStop(s) ==
  [arm |-> "spawn", confirm |-> "removeState", revert |-> "replace"][cmd[s]]

(* stopWatchdog reads the file again.                                      *)
StopWatchdog(s) ==
  /\ at[s] = "stop"
  /\ \/ /\ stateFile \in Living
        /\ Kill(s, stateFile, AfterStop(s), cmd[s], hand[s])
     \/ /\ stateFile \notin Living
        /\ Goto(s, AfterStop(s), cmd[s], hand[s])
        /\ UNCHANGED vars
  /\ UNCHANGED <<timerFiles, parent, promised>>

(* clearRevert, in its two steps.                                          *)
RemoveState(p) ==
  /\ at[p] = "removeState"
  /\ stateFile' = NoFile
  /\ Goto(p, "removeSnapshot", cmd[p], hand[p])
  /\ UNCHANGED <<vars, snapshot, parent, promised>>

RemoveSnapshot(p) ==
  /\ at[p] = "removeSnapshot"
  /\ snapshot' = NoFile
  /\ \/ p \in Dogs /\ Goto(p, "ended", "none", NoFile)
     \/ p \in Sessions /\ cmd[p] = "arm" /\ Goto(p, "snapshot", "arm", NoFile)
     \/ p \in Sessions /\ cmd[p] # "arm" /\ Return(p)
  /\ promised' = IF cmd[p] = "confirm" THEN NoFile ELSE promised
  /\ UNCHANGED <<vars, stateFile, parent>>

-----------------------------------------------------------------------------
(* ArmRevert                                                               *)

(* The running configuration is read without the lock.                     *)
SaveSnapshot(s) ==
  /\ at[s] = "snapshot"
  /\ snapshot' = Running
  /\ Goto(s, "spawn", "arm", NoFile)
  /\ UNCHANGED <<vars, stateFile, parent, promised>>

(* Neither is the child that was stopped started again nor a snapshot that *)
(* was just saved removed.                                                 *)
ArmFails(s) ==
  /\ "files" \in Upsets
  /\ at[s] \in {"snapshot", "spawn"}
  /\ Return(s)
  /\ UNCHANGED <<vars, timerFiles, parent, promised>>

Spawn(s, d) ==
  /\ at[s] = "spawn"
  /\ d \in Unborn
  /\ at' = [at EXCEPT ![s] = "state", ![d] = "asleep"]
  /\ hand' = [hand EXCEPT ![s] = d]
  /\ parent' = [parent EXCEPT ![d] = s]
  /\ UNCHANGED <<vars, timerFiles, cmd, promised>>

(* Mutant: the state names the session, not the child.                     *)
WriteStateOwnPid(s) ==
  /\ at[s] = "state"
  /\ stateFile' = s
  /\ promised' = IF promised = NoFile THEN snapshot ELSE promised
  /\ Return(s)
  /\ UNCHANGED <<vars, snapshot, parent>>

WriteState(s) ==
  /\ at[s] = "state"
  /\ stateFile' = hand[s]
  /\ promised' = IF promised = NoFile THEN snapshot ELSE promised
  /\ Return(s)
  /\ UNCHANGED <<vars, snapshot, parent>>

WriteStateFails(s) ==
  /\ "files" \in Upsets
  /\ at[s] = "state"
  /\ \/ hand[s] \in Living /\ Kill(s, hand[s], "shell", "none", NoFile)
     \/ hand[s] \notin Living /\ Return(s) /\ UNCHANGED vars
  /\ UNCHANGED <<timerFiles, parent, promised>>

-----------------------------------------------------------------------------
(* RevertNow and the watchdog                                              *)

(* "configure revert now" without a snapshot is an error.                  *)
LoadSnapshot(s) ==
  /\ Ready(s) /\ MayStart
  /\ snapshot # NoFile
  /\ Goto(s, "stop", "revert", snapshot)
  /\ UNCHANGED <<vars, timerFiles, parent, promised>>

(* The deadline passes.  A watchdog that is not the one revert.json names  *)
(* has been superseded, or confirmed.                                      *)
Expire(d) ==
  /\ at[d] = "asleep" /\ MayStart
  /\ Goto(d, IF stateFile = d THEN "load" ELSE "ended", "none", NoFile)
  /\ UNCHANGED <<vars, timerFiles, parent, promised>>

LoadToRevert(d) ==
  /\ at[d] = "load"
  /\ \/ snapshot = NoFile /\ Goto(d, "ended", "none", NoFile)
     \/ snapshot # NoFile /\ Goto(d, "replace", "none", snapshot)
  /\ UNCHANGED <<vars, timerFiles, parent, promised>>

(* Mutant: the reverting commit does not wait for the lock.                *)
CallReplaceUnlocked(p) ==
  /\ at[p] = "replace"
  /\ pc' = [pc EXCEPT ![p] = "load"]
  /\ req' = [req EXCEPT ![p] = [op |-> "replace", config |-> hand[p]]]
  /\ reply' = [reply EXCEPT ![p] = "none"]
  /\ UNCHANGED <<lock, files, system, locals, suspect>>
  /\ Goto(p, "replacing", cmd[p], hand[p])
  /\ UNCHANGED <<timerFiles, parent, promised>>

CallReplace(p) ==
  /\ at[p] = "replace"
  /\ Invoke(p, [op |-> "replace", config |-> hand[p]])
  /\ Goto(p, "replacing", cmd[p], hand[p])
  /\ UNCHANGED <<timerFiles, parent, promised>>

(* The watchdog clears the timer whatever became of its Replace, a session *)
(* only if it succeeded.                                                   *)
ReplaceReturns(p) ==
  /\ at[p] = "replacing"
  /\ pc[p] = "idle"
  /\ IF p \in Dogs \/ reply[p] = "ok" THEN Goto(p, "removeState", cmd[p], NoFile)
                                      ELSE Return(p)
  /\ promised' = IF reply[p] = "ok" /\ hand[p] = promised THEN NoFile ELSE promised
  /\ UNCHANGED <<vars, timerFiles, parent>>

-----------------------------------------------------------------------------
(* Sessions, crashes and the specification                                 *)

SessionCalls(s, request) ==
  /\ Ready(s)
  /\ Invoke(s, request)
  /\ UNCHANGED timerVars

(* Mutant: the watchdog is not detached and dies with its session.         *)
SessionDiesWithDogs(s) ==
  /\ (IF at[s] = "shell" THEN "hangup" ELSE "cutoff") \in Upsets
  /\ pc[s] = "idle" \/ Die(s)
  /\ pc[s] = "idle" => UNCHANGED vars
  /\ at' = [p \in Procs |-> IF p = s THEN "shell"
                            ELSE IF p \in Dogs /\ at[p] = "asleep" /\ parent[p] = s
                            THEN "ended" ELSE at[p]]
  /\ cmd' = [cmd EXCEPT ![s] = "none"]
  /\ hand' = [hand EXCEPT ![s] = NoFile]
  /\ parent' = [d \in Dogs |-> IF parent[d] = s THEN NoProc ELSE parent[d]]
  /\ UNCHANGED <<timerFiles, promised>>

(* The connection is cut.  The watchdogs are in sessions of their own and  *)
(* live on; another session may log in.                                    *)
SessionDies(s) ==
  /\ (IF at[s] = "shell" THEN "hangup" ELSE "cutoff") \in Upsets
  /\ pc[s] = "idle" \/ Die(s)
  /\ pc[s] = "idle" => UNCHANGED vars
  /\ Return(s)
  /\ parent' = [d \in Dogs |-> IF parent[d] = s THEN NoProc ELSE parent[d]]
  /\ UNCHANGED <<timerFiles, promised>>

(* /var/run is emptied, the startup configuration will be booted.          *)
PowerCycle ==
  /\ PowerLoss
  /\ stateFile' = NoFile
  /\ snapshot' = NoFile
  /\ at' = [p \in Procs |-> IF p \in Sessions THEN "shell"
                            ELSE IF at[p] = "unborn" THEN "unborn" ELSE "ended"]
  /\ cmd' = [p \in Procs |-> "none"]
  /\ hand' = [p \in Procs |-> NoFile]
  /\ parent' = [d \in Dogs |-> NoProc]
  /\ promised' = NoFile

(* What a process does of its own accord once it is in a command.          *)
Proceed(p) ==
  \/ RemoveState(p) \/ RemoveSnapshot(p) \/ CallReplace(p) \/ ReplaceReturns(p)
  \/ /\ p \in Sessions
     /\ \/ StopWatchdog(p) \/ SaveSnapshot(p) \/ WriteState(p)
        \/ \E d \in Dogs : Spawn(p, d)
        \/ ArmFails(p) \/ WriteStateFails(p)
  \/ p \in Dogs /\ (Expire(p) \/ LoadToRevert(p))

ManagerStep(p) == (AcquireLock(p) \/ Serve(p)) /\ UNCHANGED timerVars

TimerNext ==
  \/ \E s \in Sessions :
       \/ \E command \in {"arm", "confirm", "show"} :
            FoundAlive(s, command) \/ FoundDead(s, command) \/ FoundNone(s, command)
       \/ LoadSnapshot(s)
       \/ \E request \in Calls : SessionCalls(s, request)
       \/ SessionDies(s)
  \/ \E p \in Procs : Proceed(p) \/ ManagerStep(p)
  \/ PowerCycle

TimerSpec == TimerInit /\ [][TimerNext]_allVars

(* A process that is in a command or in a call is scheduled, and the time  *)
(* that passes reaches every deadline (SF: without "overlap" an expiry is  *)
(* put off while commands run, and they may be typed again and again).     *)
TimerFairness ==
  \A p \in Procs :
    /\ SF_allVars(AcquireLock(p) /\ UNCHANGED timerVars)
    /\ WF_allVars(Serve(p) /\ UNCHANGED timerVars)
    /\ SF_allVars(Proceed(p))

FairTimerSpec == TimerSpec /\ TimerFairness

-----------------------------------------------------------------------------
(* Why the timer is a client of the manager                                *)

(* What a process holds where it is about to use it.                       *)
CommandDiscipline ==
  \A p \in Procs :
    /\ at[p] = "stop" => cmd[p] \in {"arm", "confirm", "revert"}
    /\ \/ at[p] \in {"replace", "replacing"}
       \/ at[p] = "stop" /\ cmd[p] = "revert"
       => hand[p] \in Configs
    /\ at[p] = "state" => hand[p] \in Dogs

TimerIInv == TimerTypeOK /\ CommandDiscipline

-----------------------------------------------------------------------------
(* Why promises are kept                                                   *)

(* No command overlaps another or fails, and the power comes back to a     *)
(* startup file that boot accepts.                                         *)
Undisturbed ==
  /\ Upsets \subseteq {"hangup"}
  /\ Faults \subseteq {"die", "power"}

OnlyValidFiles == {running, startup, snapshot} \subseteq Valid \cup {NoFile}

Active == {p \in Procs : at[p] \notin Resting}

(* revert.json names a watchdog that waits to put back what was promised.  *)
Armed ==
  /\ promised # NoFile /\ stateFile # NoFile
  /\ at[stateFile] = "asleep"
  /\ snapshot = promised

Disarmed == promised = NoFile /\ stateFile = NoFile /\ snapshot = NoFile

(* What there is while p is in a command or in the watchdog.               *)
HalfWay(p) ==
  /\ at[p] = "stop" => Armed /\ (cmd[p] = "revert" => hand[p] = promised)
  /\ at[p] = "snapshot" => cmd[p] = "arm" /\ promised = NoFile
  /\ at[p] \in {"spawn", "state"} =>
       cmd[p] = "arm" /\ snapshot # NoFile /\ promised \in {NoFile, snapshot}
  /\ at[p] = "state" => at[hand[p]] = "asleep"
  /\ at[p] = "load" => promised # NoFile /\ snapshot = promised
  /\ at[p] \in {"replace", "replacing"} =>
       promised # NoFile /\ hand[p] = promised /\ promised \in Valid
  /\ at[p] \in {"replace", "replacing", "removeState", "removeSnapshot"} /\ p \in Sessions =>
       cmd[p] \in {"confirm", "revert"}
  /\ at[p] \in {"removeState", "removeSnapshot"} => cmd[p] = "confirm" \/ promised = NoFile
  /\ at[p] = "removeSnapshot" => stateFile = NoFile

(* The Replace of a revert succeeds.                                       *)
Reverting(p) ==
  at[p] = "replacing" =>
    IF pc[p] \in {"idle", "return"} THEN reply[p] = "ok"
    ELSE req[p] = [op |-> "replace", config |-> hand[p]] /\ pc[p] # "rollback"

PromiseInv ==
  /\ Undisturbed /\ OnlyValidFiles
  /\ \A p, q \in Active : p = q
  /\ \A p \in Procs : failed[p] = {}
  /\ Active = {} => Armed \/ Disarmed
  /\ \A p \in Procs : HalfWay(p) /\ Reverting(p)

-----------------------------------------------------------------------------
(* Properties                                                              *)

Quiet == \A p \in Procs : at[p] \in Resting

(* Between the commands, a configuration that was promised can still be    *)
(* given back: revert.json names a watchdog that is waiting and revert.yaml*)
(* holds what was promised when the timer was first armed (ArmRevert: "If  *)
(* a timer is already armed its snapshot is kept and only the deadline is  *)
(* extended"); and when nothing is promised no watchdog and no snapshot is *)
(* left over.                                                              *)
PromiseKept ==
  Quiet =>
    /\ promised = NoFile => stateFile = NoFile /\ snapshot = NoFile
    /\ promised # NoFile =>
         /\ stateFile # NoFile
         /\ at[stateFile] = "asleep"
         /\ snapshot = promised

(* What was promised is in the end put back or confirmed, also when the    *)
(* session that armed the timer is cut off (manager.go: "it still fires    *)
(* when the SSH session that made a bad firewall change has been cut off").*)
PromiseResolved == promised # NoFile ~> promised = NoFile

(* The timer uses the manager as its other clients do: what is shown of    *)
(* Manager holds here.                                                     *)
UsesManager == Spec

(* However commands overlap, a watchdog that waits with its name in        *)
(* revert.json has a snapshot to restore (ArmRevert, "its snapshot is      *)
(* kept").                                                                 *)
ArmedHasSnapshot ==
  Quiet /\ stateFile # NoFile /\ at[stateFile] = "asleep" => snapshot # NoFile

(* Between the commands the system is as the running file says, also after *)
(* a confirm that stopped the watchdog ("ConfirmRevert cancels an armed    *)
(* revert timer, keeping the changes").                                    *)
QuietAgreement ==
  Quiet /\ (\A p \in Procs : pc[p] = "idle") => system = Recorded

(* A timer that "show rollback", the CLI's notes and the web overview      *)
(* report as armed has a watchdog waiting ("RevertPending returns the      *)
(* deadline of an armed revert timer").                                    *)
PendingIsArmed ==
  Quiet /\ stateFile # NoFile /\ Answers(stateFile) => at[stateFile] = "asleep"
=============================================================================
