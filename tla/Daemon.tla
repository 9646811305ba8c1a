------------------------------- MODULE Daemon -------------------------------
(***************************************************************************)
(* A service of one interface and the pidfiles it is stopped by            *)
(* (system/exec.go, StopPidfile; apply.go, stopWireless, startWireless and *)
(* dhcpServer).  Of the programs that can serve it (hostapd or             *)
(* wpa_supplicant; or dhcpd alone) one should run, with the settings that  *)
(* were applied last.  The programs are not part of the repository: they   *)
(* leave when told to, sooner or later, and may then remove their pidfile. *)
(***************************************************************************)
EXTENDS Integers, SequencesExt

CONSTANTS
  Programs,   \* a sequence: the order in which they are stopped
  Settings,
  Pids,
  Patience,   \* polls before StopPidfile goes on, 30 in the code
  Nothing     \* no program, no process

Program == ToSet(Programs)

ASSUME DaemonAssumption ==
  /\ Programs \in Seq(Program)
  /\ Patience \in Nat
  /\ Nothing \notin Pids \cup Program

VARIABLES
  process,    \* of each PID: program, settings, whether it was told to end
  pidfile,    \* of each program, the PID on file
  wanted,     \* what is being applied, or was applied last
  pass,       \* how the last pass ended: "done", "failed", "killed"; or "busy"
  toStop,     \* programs that this pass has still to stop
  signalled,  \* process whose end StopPidfile waits for
  polls,      \* polls it has left
  outlived,   \* history: a process has outlived that wait
  misled      \* history: it has later removed the pidfile of another

daemonVars == <<process, pidfile, wanted, pass, toStop, signalled, polls, outlived, misled>>

NoProcess == [program |-> Nothing, settings |-> Nothing, told |-> FALSE]
NoService == [program |-> Nothing, settings |-> Nothing]
Services == {NoService} \cup [program : Program, settings : Settings]

DaemonInit ==
  /\ process = [p \in Pids |-> NoProcess]
  /\ pidfile = [d \in Program |-> Nothing]
  /\ wanted = NoService /\ pass = "done"
  /\ toStop = <<>> /\ signalled = Nothing /\ polls = 0
  /\ outlived = FALSE /\ misled = FALSE

Alive(p) == p \in Pids /\ process[p] # NoProcess
InCharge(p) == Alive(p) /\ ~process[p].told

-----------------------------------------------------------------------------
(* A pass: everything is stopped, then the program that is wanted started  *)

(* Mutant: only the program that is wanted next is stopped.                *)
BeginOfOneKind(w) ==
  /\ pass # "busy"
  /\ wanted' = w /\ pass' = "busy"
  /\ toStop' = SelectSeq(Programs, LAMBDA d : d = w.program)
  /\ signalled' = Nothing
  /\ UNCHANGED <<process, pidfile, polls, outlived, misled>>

(* Mutant: the program runs on if it is wanted again.                      *)
BeginUnlessRunning(w) ==
  /\ pass # "busy"
  /\ wanted' = w
  /\ IF wanted.program = w.program /\ pass = "done"
     THEN pass' = "done" /\ toStop' = <<>>
     ELSE pass' = "busy" /\ toStop' = Programs
  /\ signalled' = Nothing
  /\ UNCHANGED <<process, pidfile, polls, outlived, misled>>

Begin(w) ==
  /\ pass # "busy"
  /\ wanted' = w /\ pass' = "busy"
  /\ toStop' = Programs /\ signalled' = Nothing
  /\ UNCHANGED <<process, pidfile, polls, outlived, misled>>

Stopping == pass = "busy" /\ toStop # <<>>

(* os.Remove, and on to the next program.                                  *)
RemovePidfile ==
  /\ pidfile' = [pidfile EXCEPT ![Head(toStop)] = Nothing]
  /\ toStop' = Tail(toStop) /\ signalled' = Nothing /\ polls' = 0

(* There is no pidfile, or no such process (ESRCH).                        *)
NothingToStop ==
  /\ Stopping /\ signalled = Nothing
  /\ ~Alive(pidfile[Head(toStop)])
  /\ RemovePidfile
  /\ UNCHANGED <<process, wanted, pass, outlived, misled>>

(* Mutant: the end of the process is not waited for.                       *)
SignalOnly ==
  LET p == pidfile[Head(toStop)] IN
  /\ Stopping /\ signalled = Nothing
  /\ Alive(p)
  /\ process' = [process EXCEPT ![p].told = TRUE]
  /\ RemovePidfile
  /\ UNCHANGED <<wanted, pass, outlived, misled>>

(* SIGTERM                                                                 *)
Signal ==
  LET p == pidfile[Head(toStop)] IN
  /\ Stopping /\ signalled = Nothing
  /\ Alive(p)
  /\ process' = [process EXCEPT ![p].told = TRUE]
  /\ signalled' = p /\ polls' = Patience
  /\ UNCHANGED <<pidfile, wanted, pass, toStop, outlived, misled>>

(* Mutant: as long as it takes.                                            *)
PollPatiently ==
  /\ Stopping /\ signalled # Nothing
  /\ Alive(signalled)
  /\ UNCHANGED daemonVars

Poll ==
  /\ Stopping /\ signalled # Nothing
  /\ Alive(signalled) /\ polls > 0
  /\ polls' = polls - 1
  /\ UNCHANGED <<process, pidfile, wanted, pass, toStop, signalled, outlived, misled>>

(* The process is gone, or the polls are used up.                          *)
StopWaiting ==
  /\ Stopping /\ signalled # Nothing
  /\ ~Alive(signalled) \/ polls = 0
  /\ RemovePidfile
  /\ outlived' = (outlived \/ Alive(signalled))
  /\ UNCHANGED <<process, wanted, pass, misled>>

EndPass(result) ==
  /\ pass = "busy" /\ toStop = <<>>
  /\ pass' = result
  /\ UNCHANGED <<wanted, toStop, signalled, polls, outlived, misled>>

(* startWireless, dhcpServer: the program is in the background, and its    *)
(* pidfile written, when the command returns.                              *)
Start(p) ==
  /\ EndPass("done")
  /\ wanted # NoService /\ ~Alive(p)
  /\ process' = [process EXCEPT ![p] =
       [program |-> wanted.program, settings |-> wanted.settings, told |-> FALSE]]
  /\ pidfile' = [pidfile EXCEPT ![wanted.program] = p]

NothingToStart ==
  /\ EndPass("done")
  /\ wanted = NoService
  /\ UNCHANGED <<process, pidfile>>

(* Its file cannot be written, or the program does not start.              *)
StartFails ==
  /\ EndPass("failed")
  /\ wanted # NoService
  /\ UNCHANGED <<process, pidfile>>

(* netcli is killed in mid-pass.                                           *)
Killed ==
  /\ pass = "busy"
  /\ pass' = "killed" /\ toStop' = <<>> /\ signalled' = Nothing /\ polls' = 0
  /\ UNCHANGED <<process, pidfile, wanted, outlived, misled>>

-----------------------------------------------------------------------------
(* The programs: one ends because it was told to, or by itself, and        *)
(* removes what is in its place or does not.                               *)
Exit(p, tidy) ==
  LET d == process[p].program IN
  /\ Alive(p)
  /\ process' = [process EXCEPT ![p] = NoProcess]
  /\ pidfile' = IF tidy THEN [pidfile EXCEPT ![d] = Nothing] ELSE pidfile
  /\ misled' = (misled \/ (tidy /\ pidfile[d] \notin {p, Nothing}))
  /\ UNCHANGED <<wanted, pass, toStop, signalled, polls, outlived>>

Proceed ==
  \/ NothingToStop \/ Signal \/ Poll \/ StopWaiting
  \/ (\E p \in Pids : Start(p)) \/ NothingToStart \/ StartFails

DaemonNext ==
  \/ \E w \in Services : Begin(w)
  \/ Proceed
  \/ Killed
  \/ \E p \in Pids, tidy \in BOOLEAN : Exit(p, tidy)

(* netcli is scheduled; nothing makes a program leave.                     *)
DaemonFairness == WF_daemonVars(Proceed)

DaemonSpec == DaemonInit /\ [][DaemonNext]_daemonVars /\ DaemonFairness

-----------------------------------------------------------------------------
(* Properties                                                              *)

(* Two programs are never left to serve one interface, also when the mode  *)
(* changes from one to the other and back, processes crash, netcli is      *)
(* killed while it restarts them and programs are slow to leave; and the   *)
(* one there is can be found by its pidfile.  Left out: a slow program     *)
(* that has removed its successor's pidfile as it left.                    *)
OneInCharge ==
  ~misled =>
    /\ \A p, q \in Pids : InCharge(p) /\ InCharge(q) => p = q
    /\ \A p \in Pids : InCharge(p) => pidfile[process[p].program] = p

(* Before one starts its predecessor has ended ("waits briefly for it to   *)
(* exit"), unless some process has taken longer than the wait.             *)
OneAtATime ==
  ~outlived => \A p, q \in Pids : Alive(p) /\ Alive(q) => p = q

(* After a pass without an error whatever still runs runs what was wanted. *)
UpToDate ==
  pass = "done" /\ ~misled =>
    \A p \in Pids : InCharge(p) =>
      [program |-> process[p].program, settings |-> process[p].settings] = wanted

(* A pass ends, although a program may ignore its signal for ever.         *)
PassEnds == (pass = "busy") ~> (pass # "busy")
=============================================================================
