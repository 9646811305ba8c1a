------------------------------- MODULE Manager -------------------------------
(***************************************************************************)
(* netcli/internal/manager with the store under it: the processes that     *)
(* change, replace, save, erase and boot the configuration, serialised by  *)
(* an exclusive lock on a file, each of them mortal at every step.         *)
(*                                                                         *)
(* A call is cut where another process, a crash or a failing command can   *)
(* come between: waiting for the lock, reading the files, every piece that *)
(* is applied to the system, every piece that is rolled back, the rename   *)
(* of the new file, the release of the lock.                               *)
(*                                                                         *)
(* The system (kernel, daemons) is the set of pieces in force.  Apply is   *)
(* incremental: it touches the pieces in which the two configurations it   *)
(* is given differ, never the others.                                      *)
(***************************************************************************)
EXTENDS Configuration

CONSTANTS
  Procs,      \* processes (CLI sessions, web handlers, boot script, watchdog)
  NoProc,     \* the lock is free
  Forced,     \* pieces a boot pass writes even when the configuration lacks
              \* them: forwarding sysctls, NPF rule set, DHCP server
  Faults      \* what the environment may do

AllFaults == {"read", "apply", "write", "die", "power"}

ASSUME ManagerAssumption ==
  /\ NoProc \notin Procs
  /\ Forced \in Configs
  /\ Faults \subseteq AllFaults

VARIABLES
  lock,       \* the process that holds netcli.lock
  running,    \* /var/run/netcli/running.yaml
  startup,    \* /etc/netcli/startup.yaml
  system,     \* the pieces in force in the kernel and the daemons
  pc,         \* where each process is in its call
  req,        \* the call
  old, next,  \* its copies of the configuration, before and after
  todo,       \* pieces the current Apply has still to touch
  failed,     \* pieces whose command failed in the current Apply
  reply,      \* what the last call of the process returned
  suspect     \* history: pieces a fault may have left out of step

files == <<running, startup>>
locals == <<old, next, todo, failed>>
vars == <<lock, running, startup, system, pc, req, old, next, todo, failed,
          reply, suspect>>

PCs == {"idle", "wait", "load", "apply", "rollback", "record", "store", "return"}
Replies == {"none", "ok", "rolledback", "error"}

TypeOK ==
  /\ lock \in Procs \cup {NoProc}
  /\ running \in FileContents
  /\ startup \in FileContents
  /\ system \in Configs
  /\ pc \in [Procs -> PCs]
  /\ req \in [Procs -> Requests \cup {NoRequest}]
  /\ old \in [Procs -> Configs]
  /\ next \in [Procs -> Configs]
  /\ todo \in [Procs -> Configs]
  /\ failed \in [Procs -> Configs]
  /\ reply \in [Procs -> Replies]
  /\ suspect \in Configs

(* What the store says is in force: with no running file, nothing is.      *)
Recorded == IF running = NoFile THEN NewConfig ELSE running

(* What Store.Running returns to this process now.                         *)
Running == RunningView(running, startup)

(* The pieces the call of p touches: a change those in which old and next  *)
(* differ, a boot those of the configuration and the forced ones.          *)
Touched(p) ==
  IF req[p].op = "boot" THEN next[p] \cup Forced ELSE SymDiff(old[p], next[p])

(* The pieces p's read copy has and the record does not: not empty only    *)
(* when p read the startup file because there is no running file.          *)
NeverApplied(p) == SymDiff(old[p], Recorded)

(* A power cycle leaves the startup file and nothing else.                 *)
Init ==
  /\ lock = NoProc
  /\ running = NoFile
  /\ startup \in FileContents
  /\ system = {}
  /\ pc = [p \in Procs |-> "idle"]
  /\ req = [p \in Procs |-> NoRequest]
  /\ old = [p \in Procs |-> NewConfig]
  /\ next = [p \in Procs |-> NewConfig]
  /\ todo = [p \in Procs |-> {}]
  /\ failed = [p \in Procs |-> {}]
  /\ reply = [p \in Procs |-> "none"]
  /\ suspect = {}

-----------------------------------------------------------------------------
(* Taking and releasing the lock                                           *)

(* The lock is an flock: a call waits for it as long as it takes.          *)
Invoke(p, request) ==
  /\ pc[p] = "idle"
  /\ pc' = [pc EXCEPT ![p] = "wait"]
  /\ req' = [req EXCEPT ![p] = request]
  /\ reply' = [reply EXCEPT ![p] = "none"]
  /\ UNCHANGED <<lock, files, system, locals, suspect>>

(* Mutant: the lock is opened but never waited for.                        *)
AcquireLockAnyway(p) ==
  /\ pc[p] = "wait"
  /\ lock' = p
  /\ pc' = [pc EXCEPT ![p] = "load"]
  /\ UNCHANGED <<files, system, req, locals, reply, suspect>>

AcquireLock(p) ==
  /\ pc[p] = "wait"
  /\ lock = NoProc
  /\ lock' = p
  /\ pc' = [pc EXCEPT ![p] = "load"]
  /\ UNCHANGED <<files, system, req, locals, reply, suspect>>

(* The rest of the call is decided: only the deferred unlock is left.      *)
Finish(p, r) ==
  /\ pc' = [pc EXCEPT ![p] = "return"]
  /\ reply' = [reply EXCEPT ![p] = r]

Forget(p) ==
  /\ req' = [req EXCEPT ![p] = NoRequest]
  /\ old' = [old EXCEPT ![p] = NewConfig]
  /\ next' = [next EXCEPT ![p] = NewConfig]
  /\ todo' = [todo EXCEPT ![p] = {}]
  /\ failed' = [failed EXCEPT ![p] = {}]
  /\ pc' = [pc EXCEPT ![p] = "idle"]

(* Mutant: the lock file is removed with the lock.                         *)
UnlockRemovesFile(p) ==
  /\ pc[p] = "return"
  /\ lock' = NoFile
  /\ Forget(p)
  /\ UNCHANGED <<files, system, reply, suspect>>

Unlock(p) ==
  /\ pc[p] = "return"
  /\ lock' = NoProc
  /\ Forget(p)
  /\ UNCHANGED <<files, system, reply, suspect>>

-----------------------------------------------------------------------------
(* Change and Replace                                                      *)

(* A file that cannot be read or parsed ends any call but an erase.        *)
LoadFails(p) ==
  /\ pc[p] = "load"
  /\ req[p].op # "erase"
  /\ "read" \in Faults
  /\ Finish(p, "error")
  /\ UNCHANGED <<lock, files, system, req, locals, suspect>>

(* The mutate function may say that there is nothing to do; the document   *)
(* must validate; one that equals the running one is not applied.          *)
NothingToApply(p) ==
  /\ pc[p] = "load"
  /\ req[p].op \in {"change", "replace"}
  /\ LET wanted == Requested(Running, req[p]) IN
       \/ wanted \notin Valid /\ Finish(p, "error")
       \/ /\ wanted = Running
          /\ wanted \in Valid \/ req[p].op = "change"
          /\ Finish(p, "ok")
  /\ UNCHANGED <<lock, files, system, req, locals, suspect>>

(* Mutant: a change is committed without Validate.                         *)
StartCommitUnchecked(p) ==
  /\ pc[p] = "load"
  /\ req[p].op \in {"change", "replace"}
  /\ LET wanted == Requested(Running, req[p]) IN
       /\ wanted # Running
       /\ old' = [old EXCEPT ![p] = Running]
       /\ next' = [next EXCEPT ![p] = wanted]
       /\ todo' = [todo EXCEPT ![p] = SymDiff(Running, wanted)]
  /\ pc' = [pc EXCEPT ![p] = "apply"]
  /\ UNCHANGED <<lock, files, system, req, failed, reply, suspect>>

StartCommit(p) ==
  /\ pc[p] = "load"
  /\ req[p].op \in {"change", "replace"}
  /\ LET wanted == Requested(Running, req[p]) IN
       /\ wanted \in Valid
       /\ wanted # Running
       /\ old' = [old EXCEPT ![p] = Running]
       /\ next' = [next EXCEPT ![p] = wanted]
       /\ todo' = [todo EXCEPT ![p] = SymDiff(Running, wanted)]
  /\ pc' = [pc EXCEPT ![p] = "apply"]
  /\ UNCHANGED <<lock, files, system, req, failed, reply, suspect>>

(* Mutant: the rollback calls Apply(old, next) instead of Apply(next, old).*)
TargetSwapped(p) == next[p]

(* The configuration the current Apply moves the system to.                *)
Target(p) == IF pc[p] = "rollback" THEN old[p] ELSE next[p]

(* One piece is put in force or taken out of force.                        *)
ApplyPiece(p, piece) ==
  /\ pc[p] \in {"apply", "rollback"}
  /\ piece \in todo[p]
  /\ system' = IF piece \in Target(p) THEN system \cup {piece}
                                      ELSE system \ {piece}
  /\ todo' = [todo EXCEPT ![p] = @ \ {piece}]
  /\ UNCHANGED <<lock, files, pc, req, old, next, failed, reply, suspect>>

(* A command fails: the error is kept, the pass goes on, and the piece is  *)
(* left in force or not (a daemon may be stopped and not started again).   *)
ApplyPieceFails(p, piece) ==
  /\ "apply" \in Faults
  /\ pc[p] \in {"apply", "rollback"}
  /\ piece \in todo[p]
  /\ system' \in {system \cup {piece}, system \ {piece}}
  /\ todo' = [todo EXCEPT ![p] = @ \ {piece}]
  /\ failed' = [failed EXCEPT ![p] = @ \cup {piece}]
  /\ UNCHANGED <<lock, files, pc, req, old, next, reply, suspect>>

(* Every piece applied; a boot records its configuration whatever failed.  *)
ApplyDone(p) ==
  /\ pc[p] = "apply"
  /\ todo[p] = {}
  /\ failed[p] = {} \/ req[p].op = "boot"
  /\ pc' = [pc EXCEPT ![p] = "record"]
  /\ UNCHANGED <<lock, files, system, req, locals, reply, suspect>>

(* A change or replace that failed is rolled back: Apply(next, old).       *)
StartRollback(p) ==
  /\ pc[p] = "apply"
  /\ todo[p] = {}
  /\ failed[p] # {}
  /\ req[p].op # "boot"
  /\ pc' = [pc EXCEPT ![p] = "rollback"]
  /\ todo' = [todo EXCEPT ![p] = Touched(p)]
  /\ failed' = [failed EXCEPT ![p] = {}]
  /\ UNCHANGED <<lock, files, system, req, old, next, reply, suspect>>

(* Mutant: the error of the rollback is not looked at.                     *)
RollbackDoneBlindly(p) ==
  /\ pc[p] = "rollback"
  /\ todo[p] = {}
  /\ Finish(p, "rolledback")
  /\ suspect' = (suspect \ Touched(p)) \cup (NeverApplied(p) \cap Touched(p))
  /\ UNCHANGED <<lock, files, system, req, locals>>

(* The running file was never rewritten.                                   *)
RollbackDone(p) ==
  /\ pc[p] = "rollback"
  /\ todo[p] = {}
  /\ failed[p] = {}
  /\ Finish(p, "rolledback")
  /\ suspect' = (suspect \ Touched(p)) \cup (NeverApplied(p) \cap Touched(p))
  /\ UNCHANGED <<lock, files, system, req, locals>>

(* The rollback failed too: the attempted configuration is recorded.       *)
RollbackFails(p) ==
  /\ pc[p] = "rollback"
  /\ todo[p] = {}
  /\ failed[p] # {}
  /\ pc' = [pc EXCEPT ![p] = "record"]
  /\ UNCHANGED <<lock, files, system, req, locals, reply, suspect>>

(* SaveRunning.  The error of the Apply, if there was one, is the reply.   *)
SaveRunning(p) ==
  /\ pc[p] = "record"
  /\ running' = next[p]
  /\ Finish(p, IF failed[p] = {} THEN "ok" ELSE "error")
  /\ suspect' =
       IF req[p].op = "boot"
       THEN ((suspect \cup Recorded) \ Touched(p)) \cup failed[p]
       ELSE IF failed[p] = {}
       THEN (suspect \cup NeverApplied(p)) \ Touched(p)
       ELSE suspect \cup NeverApplied(p) \cup Touched(p)
  /\ UNCHANGED <<lock, startup, system, req, locals>>

(* The new file could not be written: the old one stands.                  *)
SaveRunningFails(p) ==
  /\ "write" \in Faults
  /\ pc[p] = "record"
  /\ Finish(p, "error")
  /\ suspect' = suspect \cup Touched(p)
  /\ UNCHANGED <<lock, files, system, req, locals>>

-----------------------------------------------------------------------------
(* Boot, Save and Erase                                                    *)

BootRefused(p) ==
  /\ pc[p] = "load"
  /\ req[p].op = "boot"
  /\ startup \notin Valid
  /\ Finish(p, "error")
  /\ UNCHANGED <<lock, files, system, req, locals, suspect>>

(* Apply(nil, c, true): nothing is assumed to be in force.                 *)
StartBoot(p) ==
  /\ pc[p] = "load"
  /\ req[p].op = "boot"
  /\ startup \in Valid
  /\ next' = [next EXCEPT ![p] = startup]
  /\ todo' = [todo EXCEPT ![p] = startup \cup Forced]
  /\ pc' = [pc EXCEPT ![p] = "apply"]
  /\ UNCHANGED <<lock, files, system, req, old, failed, reply, suspect>>

LoadForSave(p) ==
  /\ pc[p] = "load"
  /\ req[p].op = "save"
  /\ next' = [next EXCEPT ![p] = Running]
  /\ pc' = [pc EXCEPT ![p] = "store"]
  /\ UNCHANGED <<lock, files, system, req, old, todo, failed, reply, suspect>>

SaveStartup(p) ==
  /\ pc[p] = "store"
  /\ startup' = next[p]
  /\ Finish(p, "ok")
  /\ UNCHANGED <<lock, running, system, req, locals, suspect>>

SaveStartupFails(p) ==
  /\ "write" \in Faults
  /\ pc[p] = "store"
  /\ Finish(p, "error")
  /\ UNCHANGED <<lock, files, system, req, locals, suspect>>

(* Removing a startup file that does not exist is no error.                *)
EraseStartup(p) ==
  /\ pc[p] = "load"
  /\ req[p].op = "erase"
  /\ startup' = NoFile
  /\ Finish(p, "ok")
  /\ UNCHANGED <<lock, running, system, req, locals, suspect>>

EraseFails(p) ==
  /\ "write" \in Faults
  /\ pc[p] = "load"
  /\ req[p].op = "erase"
  /\ Finish(p, "error")
  /\ UNCHANGED <<lock, files, system, req, locals, suspect>>

-----------------------------------------------------------------------------
(* Crashes                                                                 *)

(* Mutant: a lock file that outlives the process that created it.          *)
DieHoldingLock(p) ==
  /\ pc[p] # "idle"
  /\ suspect' = IF pc[p] \in {"apply", "rollback", "record"}
                THEN suspect \cup Touched(p) ELSE suspect
  /\ Forget(p)
  /\ reply' = [reply EXCEPT ![p] = "none"]
  /\ UNCHANGED <<lock, files, system>>

(* A process is killed (a hangup of its terminal, a SIGTERM, a panic): the *)
(* kernel drops its lock with its file descriptors.                        *)
Die(p) ==
  /\ pc[p] # "idle"
  /\ lock' = IF lock = p THEN NoProc ELSE lock
  /\ suspect' = IF pc[p] \in {"apply", "rollback", "record"}
                THEN suspect \cup Touched(p) ELSE suspect
  /\ Forget(p)
  /\ reply' = [reply EXCEPT ![p] = "none"]
  /\ UNCHANGED <<files, system>>

PowerLoss ==
  /\ "power" \in Faults
  /\ lock' = NoProc
  /\ running' = NoFile
  /\ system' = {}
  /\ pc' = [p \in Procs |-> "idle"]
  /\ req' = [p \in Procs |-> NoRequest]
  /\ old' = [p \in Procs |-> NewConfig]
  /\ next' = [p \in Procs |-> NewConfig]
  /\ todo' = [p \in Procs |-> {}]
  /\ failed' = [p \in Procs |-> {}]
  /\ reply' = [p \in Procs |-> "none"]
  /\ suspect' = {}
  /\ UNCHANGED startup

-----------------------------------------------------------------------------
(* The specification                                                       *)

(* The steps of a call once the lock is held.                              *)
Serve(p) ==
  \/ LoadFails(p) \/ NothingToApply(p) \/ StartCommit(p)
  \/ \E piece \in Settings : ApplyPiece(p, piece) \/ ApplyPieceFails(p, piece)
  \/ ApplyDone(p) \/ StartRollback(p) \/ RollbackDone(p) \/ RollbackFails(p)
  \/ SaveRunning(p) \/ SaveRunningFails(p)
  \/ BootRefused(p) \/ StartBoot(p)
  \/ LoadForSave(p) \/ SaveStartup(p) \/ SaveStartupFails(p)
  \/ EraseStartup(p) \/ EraseFails(p)
  \/ Unlock(p)

Crash(p) == "die" \in Faults /\ Die(p)

Next ==
  \/ \E p \in Procs :
       \/ \E request \in Requests : Invoke(p, request)
       \/ AcquireLock(p) \/ Serve(p) \/ Crash(p)
  \/ PowerLoss

Spec == Init /\ [][Next]_vars

-----------------------------------------------------------------------------
(* Why the properties hold: an inductive invariant                         *)

Committing == {"apply", "rollback", "record"}

(* Exactly the process that holds the lock is past waiting for it.         *)
LockDiscipline ==
  \A p \in Procs : lock = p <=> pc[p] \notin {"idle", "wait"}

(* What a call keeps in memory, step by step.                              *)
CopyDiscipline ==
  \A p \in Procs :
    /\ req[p] = NoRequest <=> pc[p] = "idle"
    /\ pc[p] \in {"idle", "wait", "load"} =>
         /\ old[p] = NewConfig /\ next[p] = NewConfig
         /\ todo[p] = {} /\ failed[p] = {}
    /\ pc[p] = "rollback" => req[p].op # "boot"
    /\ pc[p] \in Committing =>
         /\ req[p].op \in {"change", "replace", "boot"}
         /\ next[p] \in Valid
         /\ todo[p] \subseteq Touched(p) /\ failed[p] \subseteq Touched(p)
         /\ req[p].op = "boot" => next[p] = startup /\ startup # NoFile
         /\ req[p].op # "boot" =>
              old[p] = Running /\ next[p] = Requested(Running, req[p])
    /\ pc[p] = "record" => todo[p] = {}
    /\ pc[p] = "store" => req[p].op = "save" /\ next[p] = Running

(* Where the system can differ from the recorded configuration, and from   *)
(* the one being applied.                                                  *)
DriftBound ==
  /\ (\A p \in Procs : pc[p] \notin Committing) =>
       SymDiff(system, Recorded) \subseteq suspect
  /\ \A p \in Procs :
       /\ pc[p] \in Committing =>
            SymDiff(system, Recorded) \subseteq suspect \cup Touched(p)
       /\ \/ pc[p] = "apply"
          \/ pc[p] = "record" /\ (failed[p] = {} \/ req[p].op = "boot")
          =>
            SymDiff(system, next[p]) \cap Touched(p) \subseteq todo[p] \cup failed[p]
       /\ pc[p] = "rollback" =>
            SymDiff(system, old[p]) \cap Touched(p) \subseteq todo[p] \cup failed[p]

-----------------------------------------------------------------------------
(* Properties                                                              *)

(* Whenever nobody holds the lock the system differs from the recorded     *)
(* running configuration at most in pieces that a fault accounts for: a    *)
(* death in mid-commit, a rollback or a write that failed, a command that  *)
(* failed at boot, a change made before anything was applied (commit's     *)
(* comment: "so the system and the recorded running configuration stay in  *)
(* agreement").                                                            *)
Agreement == lock = NoProc => SymDiff(system, Recorded) \subseteq suspect

(* The copy a call works on is the current one for as long as it works:    *)
(* nobody else's change is overwritten (store.go: "so they never work on   *)
(* stale copies of each other's changes").                                 *)
NoStaleCopy ==
  \A p \in Procs :
    /\ pc[p] \in Committing =>
         IF req[p].op = "boot" THEN next[p] = startup ELSE old[p] = Running
    /\ pc[p] = "store" => next[p] = Running

(* A commit that reports success is in the running file and in force, and  *)
(* one that reports "change rolled back" is in neither.                    *)
TruthfulReply ==
  \A p \in Procs :
    pc[p] = "return" /\ req[p].op \in {"change", "replace"} /\ Touched(p) # {} =>
      /\ reply[p] = "ok" =>
           /\ running = next[p]
           /\ system \cap Touched(p) = next[p] \cap Touched(p)
      /\ reply[p] = "rolledback" =>
           /\ Running = old[p]
           /\ system \cap Touched(p) = old[p] \cap Touched(p)

(* Only configurations that validate are ever recorded as running.         *)
RunningIsValid == running \in Valid \cup {NoFile}

(* What every step preserves.                                              *)
IInv ==
  /\ TypeOK
  /\ LockDiscipline
  /\ CopyDiscipline
  /\ DriftBound
  /\ TruthfulReply
  /\ RunningIsValid

(* A startup configuration that netcli writes is one its boot accepts.     *)
SavedIsBootable == [][startup' \in Valid \cup {startup, NoFile}]_vars

(* Every call comes to an end, although lock holders may die.  Checked of  *)
(* FairTimerSpec, whose watchdogs are callers, too.                        *)
EveryCallEnds == \A p \in Procs : pc[p] = "wait" ~> pc[p] = "idle"

(* The calls are atomic: Manager implements the abstract store.  A call is *)
(* pending until its effect on the files, or its failure, is decided.      *)
Undecided ==
  [p \in Procs |-> IF pc[p] \in {"idle", "return"} THEN NoRequest ELSE req[p]]

Store == INSTANCE ConfigStore WITH
  recorded <- running, saved <- startup, pending <- Undecided

AtomicCalls == Store!StoreSpec
=============================================================================
