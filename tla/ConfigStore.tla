----------------------------- MODULE ConfigStore -----------------------------
(***************************************************************************)
(* What the configuration store promises its clients (CLI sessions, web    *)
(* requests, the revert watchdog, the boot script), as config/store.go     *)
(* lines 12-16 and the package comment of manager state it: every call     *)
(* works on the contents the previous one left behind, never on a stale    *)
(* copy.  A call that is accepted takes effect at one instant between its  *)
(* invocation and its reply, at most once; a call may also be abandoned    *)
(* (rejected, failed and rolled back, or its process died).                *)
(*                                                                         *)
(* Module Manager, in which a call is many steps of a process that may die *)
(* between any two of them, implements this one.                           *)
(***************************************************************************)
EXTENDS Configuration

CONSTANT Procs      \* the processes that call the manager

VARIABLES
  recorded,   \* content of the running file
  saved,      \* content of the startup file
  pending     \* pending[p]: the call of p that has not taken effect yet

storeVars == <<recorded, saved, pending>>

Current == RunningView(recorded, saved)

StoreInit ==
  /\ recorded = NoFile
  /\ saved \in FileContents
  /\ pending = [p \in Procs |-> NoRequest]

Call(p) ==
  /\ pending[p] = NoRequest
  /\ pending'[p] \in Requests
  /\ pending' = [pending EXCEPT ![p] = pending'[p]]
  /\ UNCHANGED <<recorded, saved>>

(* The configuration asked for is computed from the current one at the     *)
(* very instant it replaces it.                                            *)
TakeEffect(p) ==
  /\ pending[p].op \in {"change", "replace"}
  /\ Requested(Current, pending[p]) \in Valid
  /\ recorded' = Requested(Current, pending[p])
  /\ pending' = [pending EXCEPT ![p] = NoRequest]
  /\ UNCHANGED saved

BootFromSaved(p) ==
  /\ pending[p].op = "boot"
  /\ saved \in Valid
  /\ recorded' = saved
  /\ pending' = [pending EXCEPT ![p] = NoRequest]
  /\ UNCHANGED saved

WriteMemory(p) ==
  /\ pending[p].op = "save"
  /\ saved' = Current
  /\ pending' = [pending EXCEPT ![p] = NoRequest]
  /\ UNCHANGED recorded

EraseSaved(p) ==
  /\ pending[p].op = "erase"
  /\ saved' = NoFile
  /\ pending' = [pending EXCEPT ![p] = NoRequest]
  /\ UNCHANGED recorded

Abandon(p) ==
  /\ pending[p] # NoRequest
  /\ pending' = [pending EXCEPT ![p] = NoRequest]
  /\ UNCHANGED <<recorded, saved>>

(* Only the startup file survives: /var/run is emptied at boot.            *)
LosePower ==
  /\ recorded' = NoFile
  /\ pending' = [p \in Procs |-> NoRequest]
  /\ UNCHANGED saved

StoreNext ==
  \/ \E p \in Procs :
       \/ Call(p) \/ Abandon(p)
       \/ TakeEffect(p) \/ BootFromSaved(p)
       \/ WriteMemory(p) \/ EraseSaved(p)
  \/ LosePower

StoreSpec == StoreInit /\ [][StoreNext]_storeVars
=============================================================================
