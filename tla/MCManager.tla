------------------------------ MODULE MCManager ------------------------------
(* Two pieces, an access list and an interface that refers to it: the      *)
(* interface alone does not validate.                                      *)
EXTENDS Manager, TLC

CONSTANTS acl, nic

MCSettings == {acl, nic}
MCValid == {{}, {acl}, {acl, nic}}
MCForced == {acl}
MCEdits == {[set |-> {s}, unset |-> {}] : s \in MCSettings}
           \cup {[set |-> {}, unset |-> {s}] : s \in MCSettings}

ProcSymmetry == Permutations(Procs)

(* After a boot that refused the startup configuration.                    *)
UnbootableInit == Init /\ startup \notin {NoFile} \cup Valid
UnbootableSpec == UnbootableInit /\ [][Next]_vars

(* With no fault at all the running configuration is what is in force      *)
(* (store.go, lines 12-14: "the running configuration (what is applied     *)
(* now ...)"; manager.go, lines 99-100).                                   *)
InStepWithoutFaults ==
  lock = NoProc /\ running # NoFile => system = running
=============================================================================
