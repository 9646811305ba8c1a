---------------------------- MODULE MCRevertTimer ----------------------------
(* One piece that sessions put in and take out, two watchdogs.             *)
EXTENDS RevertTimer, TLC

CONSTANT acl

MCSettings == {acl}
MCValid == {{}, {acl}}
MCEdits == {[set |-> {acl}, unset |-> {}], [set |-> {}, unset |-> {acl}]}
MCCalls == [op : {"change"}, edit : MCEdits]

(* What is added is taken out by the timer.                                *)
MCAdds == {[op |-> "change", edit |-> [set |-> {acl}, unset |-> {}]]}
MCProcs == Sessions \cup Dogs

TimerSymmetry == Permutations(Dogs) \cup Permutations(Sessions)
=============================================================================
