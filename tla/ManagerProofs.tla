---------------------------- MODULE ManagerProofs ----------------------------
(***************************************************************************)
(* What module Manager guarantees for every set of processes, pieces,      *)
(* valid configurations and edits, and whatever faults occur; and that the *)
(* rollback timer (module RevertTimer) is a client of the manager like any *)
(* other, however its commands, watchdogs, deaths and failures overlap, so *)
(* that all of it holds with the timer too, and what the timer promises.   *)
(***************************************************************************)
EXTENDS RevertTimer, TLAPS

USE ConfigurationAssumption, ManagerAssumption

(* The types of the helpers the actions are built from.                    *)
LEMMA HelperTypes ==
  ASSUME TypeOK
  PROVE  /\ Running \in Configs
         /\ Recorded \in Configs
         /\ \A r \in ChangeRequests \cup ReplaceRequests :
              \A c \in Configs : Requested(c, r) \in Configs
         /\ \A r \in Requests : r.op \in {"change", "replace"} =>
              r \in ChangeRequests \cup ReplaceRequests
         /\ \A a, b \in Configs : SymDiff(a, b) \in Configs
         /\ \A p \in Procs : Touched(p) \in Configs /\ NeverApplied(p) \in Configs
<1>1. Running \in Configs /\ Recorded \in Configs
  BY DEF TypeOK, Running, Recorded, RunningView, FileContents, Configs, NewConfig
<1>2. \A r \in ChangeRequests \cup ReplaceRequests :
        \A c \in Configs : Requested(c, r) \in Configs
  BY DEF Requested, Mutate, ChangeRequests, ReplaceRequests, Configs
<1>3. \A r \in Requests : r.op \in {"change", "replace"} =>
        r \in ChangeRequests \cup ReplaceRequests
  BY DEF Requests, ChangeRequests, ReplaceRequests, OtherRequests
<1>4. \A a, b \in Configs : SymDiff(a, b) \in Configs
  BY DEF SymDiff, Configs
<1>5. \A p \in Procs : Touched(p) \in Configs /\ NeverApplied(p) \in Configs
  BY <1>1, <1>4 DEF Touched, NeverApplied, TypeOK, Configs
<1> QED
  BY <1>1, <1>2, <1>3, <1>4, <1>5

(* A call is never mistaken for the absence of one.                        *)
LEMMA RequestTypes ==
  /\ \A r \in Requests : r # NoRequest
  /\ \A r \in Requests :
       r.op \in {"change", "replace", "save", "erase", "boot"}
  /\ NoRequest.op = "none"
  BY DEF Requests, ChangeRequests, ReplaceRequests, OtherRequests, NoRequest

(* Two sets that differ nowhere in T agree on T.                           *)
LEMMA AgreeOn ==
  ASSUME NEW A, NEW B, NEW T, SymDiff(A, B) \cap T \subseteq {}
  PROVE  A \cap T = B \cap T
  BY DEF SymDiff

(* Every step of the system preserves the types.                           *)
LEMMA TypeStep ==
  ASSUME TypeOK, [Next]_vars
  PROVE  TypeOK'
<1> USE HelperTypes DEF TypeOK, files, locals, PCs, Replies, Finish
<1>1. ASSUME NEW p \in Procs, NEW r \in Requests, Invoke(p, r) PROVE TypeOK'
  BY <1>1 DEF Invoke
<1>2. ASSUME NEW p \in Procs, AcquireLock(p) PROVE TypeOK'
  BY <1>2 DEF AcquireLock
<1>3. ASSUME NEW p \in Procs, LoadFails(p) PROVE TypeOK'
  BY <1>3 DEF LoadFails
<1>4. ASSUME NEW p \in Procs, NothingToApply(p) PROVE TypeOK'
  BY <1>4 DEF NothingToApply
<1>5. ASSUME NEW p \in Procs, StartCommit(p) PROVE TypeOK'
  BY <1>5 DEF StartCommit
<1>6. ASSUME NEW p \in Procs, NEW s \in Settings, ApplyPiece(p, s) PROVE TypeOK'
  BY <1>6 DEF ApplyPiece, Configs
<1>7. ASSUME NEW p \in Procs, NEW s \in Settings, ApplyPieceFails(p, s)
      PROVE  TypeOK'
  BY <1>7 DEF ApplyPieceFails, Configs
<1>8. ASSUME NEW p \in Procs, ApplyDone(p) PROVE TypeOK'
  BY <1>8 DEF ApplyDone
<1>9. ASSUME NEW p \in Procs, StartRollback(p) PROVE TypeOK'
  BY <1>9 DEF StartRollback, Configs
<1>10. ASSUME NEW p \in Procs, RollbackDone(p) PROVE TypeOK'
  BY <1>10 DEF RollbackDone, Configs
<1>11. ASSUME NEW p \in Procs, RollbackFails(p) PROVE TypeOK'
  BY <1>11 DEF RollbackFails
<1>12. ASSUME NEW p \in Procs, SaveRunning(p) PROVE TypeOK'
  BY <1>12 DEF SaveRunning, Configs, FileContents
<1>13. ASSUME NEW p \in Procs, SaveRunningFails(p) PROVE TypeOK'
  BY <1>13 DEF SaveRunningFails, Configs
<1>14. ASSUME NEW p \in Procs, BootRefused(p) PROVE TypeOK'
  BY <1>14 DEF BootRefused
<1>15. ASSUME NEW p \in Procs, StartBoot(p) PROVE TypeOK'
  BY <1>15 DEF StartBoot, Configs
<1>16. ASSUME NEW p \in Procs, LoadForSave(p) PROVE TypeOK'
  BY <1>16 DEF LoadForSave
<1>17. ASSUME NEW p \in Procs, SaveStartup(p) PROVE TypeOK'
  BY <1>17 DEF SaveStartup, FileContents
<1>18. ASSUME NEW p \in Procs, SaveStartupFails(p) PROVE TypeOK'
  BY <1>18 DEF SaveStartupFails
<1>19. ASSUME NEW p \in Procs, EraseStartup(p) PROVE TypeOK'
  BY <1>19 DEF EraseStartup, FileContents
<1>20. ASSUME NEW p \in Procs, EraseFails(p) PROVE TypeOK'
  BY <1>20 DEF EraseFails
<1>21. ASSUME NEW p \in Procs, Unlock(p) PROVE TypeOK'
  BY <1>21 DEF Unlock, Forget, Configs, NewConfig
<1>22. ASSUME NEW p \in Procs, Die(p) PROVE TypeOK'
  BY <1>22 DEF Die, Forget, Configs, NewConfig
<1>23. ASSUME PowerLoss PROVE TypeOK'
  BY <1>23 DEF PowerLoss, Configs, NewConfig, FileContents
<1>24. CASE UNCHANGED vars
  BY <1>24 DEF vars
<1> QED
  BY <1>1, <1>2, <1>3, <1>4, <1>5, <1>6, <1>7, <1>8, <1>9, <1>10, <1>11,
     <1>12, <1>13, <1>14, <1>15, <1>16, <1>17, <1>18, <1>19, <1>20, <1>21,
     <1>22, <1>23, <1>24 DEF Next, Serve, Crash

(* Every variable keeps its type.                                          *)
THEOREM TypeCorrect == Spec => []TypeOK
<1>1. Init => TypeOK
  BY DEF Init, TypeOK, FileContents, Configs, NewConfig, PCs, Replies
<1>2. TypeOK /\ [Next]_vars => TypeOK'
  BY TypeStep
<1> QED
  BY <1>1, <1>2, PTL DEF Spec

(* The lock passes from process to process only through being free.        *)
LEMMA LockStep ==
  ASSUME IInv, [Next]_vars
  PROVE  LockDiscipline'
<1> USE HelperTypes, RequestTypes DEF IInv, TypeOK, files, locals, Finish, PCs,
      Replies, LockDiscipline
<1>1. ASSUME NEW p \in Procs, NEW r \in Requests, Invoke(p, r)
      PROVE  LockDiscipline'
  BY <1>1 DEF Invoke
<1>2. ASSUME NEW p \in Procs, AcquireLock(p) PROVE  LockDiscipline'
  BY <1>2 DEF AcquireLock
<1>3. ASSUME NEW p \in Procs, LoadFails(p) PROVE  LockDiscipline'
  BY <1>3 DEF LoadFails
<1>4. ASSUME NEW p \in Procs, NothingToApply(p) PROVE  LockDiscipline'
  BY <1>4 DEF NothingToApply
<1>5. ASSUME NEW p \in Procs, StartCommit(p) PROVE  LockDiscipline'
  BY <1>5 DEF StartCommit
<1>6. ASSUME NEW p \in Procs, NEW s \in Settings, ApplyPiece(p, s)
      PROVE  LockDiscipline'
  BY <1>6 DEF ApplyPiece
<1>7. ASSUME NEW p \in Procs, NEW s \in Settings, ApplyPieceFails(p, s)
      PROVE  LockDiscipline'
  BY <1>7 DEF ApplyPieceFails
<1>8. ASSUME NEW p \in Procs, ApplyDone(p) PROVE  LockDiscipline'
  BY <1>8 DEF ApplyDone
<1>9. ASSUME NEW p \in Procs, StartRollback(p) PROVE  LockDiscipline'
  BY <1>9 DEF StartRollback
<1>10. ASSUME NEW p \in Procs, RollbackDone(p) PROVE  LockDiscipline'
  BY <1>10 DEF RollbackDone
<1>11. ASSUME NEW p \in Procs, RollbackFails(p) PROVE  LockDiscipline'
  BY <1>11 DEF RollbackFails
<1>12. ASSUME NEW p \in Procs, SaveRunning(p) PROVE  LockDiscipline'
  BY <1>12 DEF SaveRunning
<1>13. ASSUME NEW p \in Procs, SaveRunningFails(p) PROVE  LockDiscipline'
  BY <1>13 DEF SaveRunningFails
<1>14. ASSUME NEW p \in Procs, BootRefused(p) PROVE  LockDiscipline'
  BY <1>14 DEF BootRefused
<1>15. ASSUME NEW p \in Procs, StartBoot(p) PROVE  LockDiscipline'
  BY <1>15 DEF StartBoot
<1>16. ASSUME NEW p \in Procs, LoadForSave(p) PROVE  LockDiscipline'
  BY <1>16 DEF LoadForSave
<1>17. ASSUME NEW p \in Procs, SaveStartup(p) PROVE  LockDiscipline'
  BY <1>17 DEF SaveStartup
<1>18. ASSUME NEW p \in Procs, SaveStartupFails(p) PROVE  LockDiscipline'
  BY <1>18 DEF SaveStartupFails
<1>19. ASSUME NEW p \in Procs, EraseStartup(p) PROVE  LockDiscipline'
  BY <1>19 DEF EraseStartup
<1>20. ASSUME NEW p \in Procs, EraseFails(p) PROVE  LockDiscipline'
  BY <1>20 DEF EraseFails
<1>21. ASSUME NEW p \in Procs, Unlock(p) PROVE  LockDiscipline'
  BY <1>21 DEF Unlock, Forget
<1>22. ASSUME NEW p \in Procs, Die(p) PROVE  LockDiscipline'
  BY <1>22 DEF Die, Forget
<1>23. ASSUME PowerLoss PROVE LockDiscipline'
  BY <1>23 DEF PowerLoss
<1>24. CASE UNCHANGED vars
  BY <1>24 DEF vars
<1> HIDE DEF LockDiscipline
<1> QED
  BY <1>1, <1>2, <1>3, <1>4, <1>5, <1>6, <1>7, <1>8, <1>9, <1>10, <1>11,
     <1>12, <1>13, <1>14, <1>15, <1>16, <1>17, <1>18, <1>19, <1>20, <1>21,
     <1>22, <1>23, <1>24 DEF Next, Serve, Crash

(* Nobody but the holder of the lock moves the files its copies come from. *)
LEMMA CopyStep ==
  ASSUME IInv, [Next]_vars
  PROVE  CopyDiscipline'
<1> USE HelperTypes, RequestTypes DEF IInv, TypeOK, files, locals, Finish, PCs,
      Replies, LockDiscipline, CopyDiscipline, Committing, NewConfig, Touched,
      Configs, Running, Recorded, RunningView, Requested
<1>1. ASSUME NEW p \in Procs, NEW r \in Requests, Invoke(p, r)
      PROVE  CopyDiscipline'
  BY <1>1 DEF Invoke
<1>2. ASSUME NEW p \in Procs, AcquireLock(p) PROVE  CopyDiscipline'
  BY <1>2 DEF AcquireLock
<1>3. ASSUME NEW p \in Procs, LoadFails(p) PROVE  CopyDiscipline'
  BY <1>3 DEF LoadFails
<1>4. ASSUME NEW p \in Procs, NothingToApply(p) PROVE  CopyDiscipline'
  BY <1>4 DEF NothingToApply
<1>5. ASSUME NEW p \in Procs, StartCommit(p) PROVE  CopyDiscipline'
  BY <1>5 DEF StartCommit
<1>6. ASSUME NEW p \in Procs, NEW s \in Settings, ApplyPiece(p, s)
      PROVE  CopyDiscipline'
  BY <1>6 DEF ApplyPiece
<1>7. ASSUME NEW p \in Procs, NEW s \in Settings, ApplyPieceFails(p, s)
      PROVE  CopyDiscipline'
  BY <1>7 DEF ApplyPieceFails
<1>8. ASSUME NEW p \in Procs, ApplyDone(p) PROVE  CopyDiscipline'
  BY <1>8 DEF ApplyDone
<1>9. ASSUME NEW p \in Procs, StartRollback(p) PROVE  CopyDiscipline'
  BY <1>9 DEF StartRollback
<1>10. ASSUME NEW p \in Procs, RollbackDone(p) PROVE  CopyDiscipline'
  BY <1>10 DEF RollbackDone
<1>11. ASSUME NEW p \in Procs, RollbackFails(p) PROVE  CopyDiscipline'
  BY <1>11 DEF RollbackFails
<1>12. ASSUME NEW p \in Procs, SaveRunning(p) PROVE  CopyDiscipline'
  BY <1>12 DEF SaveRunning
<1>13. ASSUME NEW p \in Procs, SaveRunningFails(p) PROVE  CopyDiscipline'
  BY <1>13 DEF SaveRunningFails
<1>14. ASSUME NEW p \in Procs, BootRefused(p) PROVE  CopyDiscipline'
  BY <1>14 DEF BootRefused
<1>15. ASSUME NEW p \in Procs, StartBoot(p) PROVE  CopyDiscipline'
  BY <1>15 DEF StartBoot
<1>16. ASSUME NEW p \in Procs, LoadForSave(p) PROVE  CopyDiscipline'
  BY <1>16 DEF LoadForSave
<1>17. ASSUME NEW p \in Procs, SaveStartup(p) PROVE  CopyDiscipline'
  BY <1>17 DEF SaveStartup
<1>18. ASSUME NEW p \in Procs, SaveStartupFails(p) PROVE  CopyDiscipline'
  BY <1>18 DEF SaveStartupFails
<1>19. ASSUME NEW p \in Procs, EraseStartup(p) PROVE  CopyDiscipline'
  BY <1>19 DEF EraseStartup
<1>20. ASSUME NEW p \in Procs, EraseFails(p) PROVE  CopyDiscipline'
  BY <1>20 DEF EraseFails
<1>21. ASSUME NEW p \in Procs, Unlock(p) PROVE  CopyDiscipline'
  BY <1>21 DEF Unlock, Forget
<1>22. ASSUME NEW p \in Procs, Die(p) PROVE  CopyDiscipline'
  BY <1>22 DEF Die, Forget
<1>23. ASSUME PowerLoss PROVE CopyDiscipline'
  BY <1>23 DEF PowerLoss
<1>24. CASE UNCHANGED vars
  BY <1>24 DEF vars
<1> HIDE DEF CopyDiscipline, LockDiscipline, IInv, TypeOK
<1> QED
  BY <1>1, <1>2, <1>3, <1>4, <1>5, <1>6, <1>7, <1>8, <1>9, <1>10, <1>11,
     <1>12, <1>13, <1>14, <1>15, <1>16, <1>17, <1>18, <1>19, <1>20, <1>21,
     <1>22, <1>23, <1>24 DEF Next, Serve, Crash

(* A piece leaves its recorded state only while it is being touched, and   *)
(* what is not put back is accounted for in suspect.                       *)
LEMMA DriftStep ==
  ASSUME IInv, [Next]_vars
  PROVE  DriftBound'
<1> USE HelperTypes, RequestTypes DEF IInv, TypeOK, files, locals, Finish, PCs,
      Replies, LockDiscipline, CopyDiscipline, DriftBound, Committing, NewConfig,
      Touched, Configs, SymDiff, Target, NeverApplied, Recorded, Running,
      RunningView
<1>1. ASSUME NEW p \in Procs, NEW r \in Requests, Invoke(p, r)
      PROVE  DriftBound'
  BY <1>1 DEF Invoke
<1>2. ASSUME NEW p \in Procs, AcquireLock(p) PROVE  DriftBound'
  BY <1>2 DEF AcquireLock
<1>3. ASSUME NEW p \in Procs, LoadFails(p) PROVE  DriftBound'
  BY <1>3 DEF LoadFails
<1>4. ASSUME NEW p \in Procs, NothingToApply(p) PROVE  DriftBound'
  BY <1>4 DEF NothingToApply
<1>5. ASSUME NEW p \in Procs, StartCommit(p) PROVE  DriftBound'
  BY <1>5 DEF StartCommit
<1>6. ASSUME NEW p \in Procs, NEW s \in Settings, ApplyPiece(p, s)
      PROVE  DriftBound'
  BY <1>6 DEF ApplyPiece
<1>7. ASSUME NEW p \in Procs, NEW s \in Settings, ApplyPieceFails(p, s)
      PROVE  DriftBound'
  BY <1>7 DEF ApplyPieceFails
<1>8. ASSUME NEW p \in Procs, ApplyDone(p) PROVE  DriftBound'
  BY <1>8 DEF ApplyDone
<1>9. ASSUME NEW p \in Procs, StartRollback(p) PROVE  DriftBound'
  BY <1>9 DEF StartRollback
<1>10. ASSUME NEW p \in Procs, RollbackDone(p) PROVE  DriftBound'
  BY <1>10 DEF RollbackDone
<1>11. ASSUME NEW p \in Procs, RollbackFails(p) PROVE  DriftBound'
  BY <1>11 DEF RollbackFails
<1>12. ASSUME NEW p \in Procs, SaveRunning(p) PROVE  DriftBound'
  BY <1>12 DEF SaveRunning
<1>13. ASSUME NEW p \in Procs, SaveRunningFails(p) PROVE  DriftBound'
  BY <1>13 DEF SaveRunningFails
<1>14. ASSUME NEW p \in Procs, BootRefused(p) PROVE  DriftBound'
  BY <1>14 DEF BootRefused
<1>15. ASSUME NEW p \in Procs, StartBoot(p) PROVE  DriftBound'
  BY <1>15 DEF StartBoot
<1>16. ASSUME NEW p \in Procs, LoadForSave(p) PROVE  DriftBound'
  BY <1>16 DEF LoadForSave
<1>17. ASSUME NEW p \in Procs, SaveStartup(p) PROVE  DriftBound'
  BY <1>17 DEF SaveStartup
<1>18. ASSUME NEW p \in Procs, SaveStartupFails(p) PROVE  DriftBound'
  BY <1>18 DEF SaveStartupFails
<1>19. ASSUME NEW p \in Procs, EraseStartup(p) PROVE  DriftBound'
  BY <1>19 DEF EraseStartup
<1>20. ASSUME NEW p \in Procs, EraseFails(p) PROVE  DriftBound'
  BY <1>20 DEF EraseFails
<1>21. ASSUME NEW p \in Procs, Unlock(p) PROVE  DriftBound'
  BY <1>21 DEF Unlock, Forget
<1>22. ASSUME NEW p \in Procs, Die(p) PROVE  DriftBound'
  BY <1>22 DEF Die, Forget
<1>23. ASSUME PowerLoss PROVE DriftBound'
  BY <1>23 DEF PowerLoss
<1>24. CASE UNCHANGED vars
  BY <1>24 DEF vars
<1> HIDE DEF DriftBound, CopyDiscipline, LockDiscipline, IInv, TypeOK
<1> QED
  BY <1>1, <1>2, <1>3, <1>4, <1>5, <1>6, <1>7, <1>8, <1>9, <1>10, <1>11,
     <1>12, <1>13, <1>14, <1>15, <1>16, <1>17, <1>18, <1>19, <1>20, <1>21,
     <1>22, <1>23, <1>24 DEF Next, Serve, Crash

(* Between the decision of a call and its return nothing else moves.       *)
LEMMA ReplyStep ==
  ASSUME IInv, [Next]_vars
  PROVE  TruthfulReply'
<1> USE HelperTypes, RequestTypes DEF IInv, TypeOK, files, locals, Finish, PCs,
      Replies, LockDiscipline, CopyDiscipline, DriftBound, TruthfulReply,
      Committing, Touched, SymDiff, Running, Recorded, RunningView
<1>1. ASSUME NEW p \in Procs, NEW r \in Requests, Invoke(p, r)
      PROVE  TruthfulReply'
  BY <1>1 DEF Invoke
<1>2. ASSUME NEW p \in Procs, AcquireLock(p) PROVE  TruthfulReply'
  BY <1>2 DEF AcquireLock
<1>3. ASSUME NEW p \in Procs, LoadFails(p) PROVE  TruthfulReply'
  BY <1>3 DEF LoadFails
<1>4. ASSUME NEW p \in Procs, NothingToApply(p) PROVE  TruthfulReply'
  <2>1. Touched(p) = {} /\ Touched(p)' = {}
    BY <1>4 DEF NothingToApply
  <2>2. \A q \in Procs : pc'[q] = "return" => q = p
    <3>1. \A q \in Procs : pc[q] = "return" => lock = q
      OBVIOUS
    <3> QED
      BY <3>1, <1>4 DEF NothingToApply
  <2> HIDE DEF Touched
  <2> QED
    BY <2>1, <2>2
<1>5. ASSUME NEW p \in Procs, StartCommit(p) PROVE  TruthfulReply'
  <2>1. lock = p /\ pc'[p] # "return"
    BY <1>5 DEF StartCommit
  <2>2. \A q \in Procs : pc'[q] # "return"
    BY <2>1, <1>5 DEF StartCommit
  <2> QED
    BY <2>2
<1>6. ASSUME NEW p \in Procs, NEW s \in Settings, ApplyPiece(p, s)
      PROVE  TruthfulReply'
  <2>1. lock = p /\ pc[p] # "return" /\ pc' = pc
    BY <1>6 DEF ApplyPiece
  <2>2. \A q \in Procs : pc'[q] # "return"
    BY <2>1
  <2> QED
    BY <2>2
<1>7. ASSUME NEW p \in Procs, NEW s \in Settings, ApplyPieceFails(p, s)
      PROVE  TruthfulReply'
  <2>1. lock = p /\ pc[p] # "return" /\ pc' = pc
    BY <1>7 DEF ApplyPieceFails
  <2>2. \A q \in Procs : pc'[q] # "return"
    BY <2>1
  <2> QED
    BY <2>2
<1>8. ASSUME NEW p \in Procs, ApplyDone(p) PROVE  TruthfulReply'
  BY <1>8 DEF ApplyDone
<1>9. ASSUME NEW p \in Procs, StartRollback(p) PROVE  TruthfulReply'
  BY <1>9 DEF StartRollback
<1>10. ASSUME NEW p \in Procs, RollbackDone(p) PROVE  TruthfulReply'
  BY <1>10 DEF RollbackDone
<1>11. ASSUME NEW p \in Procs, RollbackFails(p) PROVE  TruthfulReply'
  BY <1>11 DEF RollbackFails
<1>12. ASSUME NEW p \in Procs, SaveRunning(p) PROVE  TruthfulReply'
  <2>1. lock = p /\ todo[p] = {} /\ failed[p] \subseteq Touched(p)
    BY <1>12 DEF SaveRunning
  <2>2. ASSUME req[p].op # "boot", failed[p] = {}
        PROVE  system \cap Touched(p) = next[p] \cap Touched(p)
    <3>1. SymDiff(system, next[p]) \cap Touched(p) \subseteq {}
      BY <2>1, <2>2, <1>12 DEF SaveRunning
    <3> QED
      BY <3>1, AgreeOn
  <2>3. /\ running' = next[p] /\ reply'[p] # "rolledback"
        /\ reply'[p] = "ok" => failed[p] = {}
        /\ UNCHANGED <<system, req, old, next, todo, failed>>
    BY <2>1, <1>12 DEF SaveRunning
  <2>4. \A q \in Procs : pc'[q] = "return" => q = p
    <3>1. \A q \in Procs : pc[q] = "return" => lock = q /\ q # p
      BY <1>12 DEF SaveRunning
    <3> QED
      BY <2>1, <3>1, <1>12 DEF SaveRunning
  <2>5. Touched(p)' = Touched(p)
    BY <2>3
  <2> HIDE DEF Touched
  <2> QED
    BY <2>2, <2>3, <2>4, <2>5
<1>13. ASSUME NEW p \in Procs, SaveRunningFails(p) PROVE  TruthfulReply'
  BY <1>13 DEF SaveRunningFails
<1>14. ASSUME NEW p \in Procs, BootRefused(p) PROVE  TruthfulReply'
  BY <1>14 DEF BootRefused
<1>15. ASSUME NEW p \in Procs, StartBoot(p) PROVE  TruthfulReply'
  BY <1>15 DEF StartBoot
<1>16. ASSUME NEW p \in Procs, LoadForSave(p) PROVE  TruthfulReply'
  BY <1>16 DEF LoadForSave
<1>17. ASSUME NEW p \in Procs, SaveStartup(p) PROVE  TruthfulReply'
  BY <1>17 DEF SaveStartup
<1>18. ASSUME NEW p \in Procs, SaveStartupFails(p) PROVE  TruthfulReply'
  BY <1>18 DEF SaveStartupFails
<1>19. ASSUME NEW p \in Procs, EraseStartup(p) PROVE  TruthfulReply'
  BY <1>19, SMTT(30) DEF EraseStartup
<1>20. ASSUME NEW p \in Procs, EraseFails(p) PROVE  TruthfulReply'
  BY <1>20 DEF EraseFails
<1>21. ASSUME NEW p \in Procs, Unlock(p) PROVE  TruthfulReply'
  BY <1>21 DEF Unlock, Forget
<1>22. ASSUME NEW p \in Procs, Die(p) PROVE  TruthfulReply'
  BY <1>22 DEF Die, Forget
<1>23. ASSUME PowerLoss PROVE TruthfulReply'
  BY <1>23 DEF PowerLoss
<1>24. CASE UNCHANGED vars
  BY <1>24 DEF vars
<1> HIDE DEF TruthfulReply, DriftBound, CopyDiscipline, LockDiscipline, IInv, TypeOK
<1> QED
  BY <1>1, <1>2, <1>3, <1>4, <1>5, <1>6, <1>7, <1>8, <1>9, <1>10, <1>11,
     <1>12, <1>13, <1>14, <1>15, <1>16, <1>17, <1>18, <1>19, <1>20, <1>21,
     <1>22, <1>23, <1>24 DEF Next, Serve, Crash

(* A commit records what it validated, a boot what it validated.           *)
LEMMA ValidStep ==
  ASSUME IInv, [Next]_vars
  PROVE  RunningIsValid'
<1> USE HelperTypes, RequestTypes DEF IInv, TypeOK, files, locals, Finish, PCs,
      Replies, CopyDiscipline, RunningIsValid, Committing
<1>1. ASSUME NEW p \in Procs, NEW r \in Requests, Invoke(p, r)
      PROVE  RunningIsValid'
  BY <1>1 DEF Invoke
<1>2. ASSUME NEW p \in Procs, AcquireLock(p) PROVE  RunningIsValid'
  BY <1>2 DEF AcquireLock
<1>3. ASSUME NEW p \in Procs, LoadFails(p) PROVE  RunningIsValid'
  BY <1>3 DEF LoadFails
<1>4. ASSUME NEW p \in Procs, NothingToApply(p) PROVE  RunningIsValid'
  BY <1>4 DEF NothingToApply
<1>5. ASSUME NEW p \in Procs, StartCommit(p) PROVE  RunningIsValid'
  BY <1>5 DEF StartCommit
<1>6. ASSUME NEW p \in Procs, NEW s \in Settings, ApplyPiece(p, s)
      PROVE  RunningIsValid'
  BY <1>6 DEF ApplyPiece
<1>7. ASSUME NEW p \in Procs, NEW s \in Settings, ApplyPieceFails(p, s)
      PROVE  RunningIsValid'
  BY <1>7 DEF ApplyPieceFails
<1>8. ASSUME NEW p \in Procs, ApplyDone(p) PROVE  RunningIsValid'
  BY <1>8 DEF ApplyDone
<1>9. ASSUME NEW p \in Procs, StartRollback(p) PROVE  RunningIsValid'
  BY <1>9 DEF StartRollback
<1>10. ASSUME NEW p \in Procs, RollbackDone(p) PROVE  RunningIsValid'
  BY <1>10 DEF RollbackDone
<1>11. ASSUME NEW p \in Procs, RollbackFails(p) PROVE  RunningIsValid'
  BY <1>11 DEF RollbackFails
<1>12. ASSUME NEW p \in Procs, SaveRunning(p) PROVE  RunningIsValid'
  BY <1>12 DEF SaveRunning
<1>13. ASSUME NEW p \in Procs, SaveRunningFails(p) PROVE  RunningIsValid'
  BY <1>13 DEF SaveRunningFails
<1>14. ASSUME NEW p \in Procs, BootRefused(p) PROVE  RunningIsValid'
  BY <1>14 DEF BootRefused
<1>15. ASSUME NEW p \in Procs, StartBoot(p) PROVE  RunningIsValid'
  BY <1>15 DEF StartBoot
<1>16. ASSUME NEW p \in Procs, LoadForSave(p) PROVE  RunningIsValid'
  BY <1>16 DEF LoadForSave
<1>17. ASSUME NEW p \in Procs, SaveStartup(p) PROVE  RunningIsValid'
  BY <1>17 DEF SaveStartup
<1>18. ASSUME NEW p \in Procs, SaveStartupFails(p) PROVE  RunningIsValid'
  BY <1>18 DEF SaveStartupFails
<1>19. ASSUME NEW p \in Procs, EraseStartup(p) PROVE  RunningIsValid'
  BY <1>19 DEF EraseStartup
<1>20. ASSUME NEW p \in Procs, EraseFails(p) PROVE  RunningIsValid'
  BY <1>20 DEF EraseFails
<1>21. ASSUME NEW p \in Procs, Unlock(p) PROVE  RunningIsValid'
  BY <1>21 DEF Unlock, Forget
<1>22. ASSUME NEW p \in Procs, Die(p) PROVE  RunningIsValid'
  BY <1>22 DEF Die, Forget
<1>23. ASSUME PowerLoss PROVE RunningIsValid'
  BY <1>23 DEF PowerLoss
<1>24. CASE UNCHANGED vars
  BY <1>24 DEF vars
<1> HIDE DEF RunningIsValid, CopyDiscipline, IInv, TypeOK
<1> QED
  BY <1>1, <1>2, <1>3, <1>4, <1>5, <1>6, <1>7, <1>8, <1>9, <1>10, <1>11,
     <1>12, <1>13, <1>14, <1>15, <1>16, <1>17, <1>18, <1>19, <1>20, <1>21,
     <1>22, <1>23, <1>24 DEF Next, Serve, Crash

(* The inductive invariant holds in every reachable state: the step that   *)
(* breaks one part would need another part broken before it.               *)
THEOREM InductiveInvariant == Spec => []IInv
<1>1. Init => IInv
  <2> SUFFICES ASSUME Init PROVE IInv
    OBVIOUS
  <2>1. TypeOK
    BY DEF Init, TypeOK, FileContents, Configs, NewConfig, PCs, Replies
  <2>2. LockDiscipline /\ CopyDiscipline
    BY DEF Init, LockDiscipline, CopyDiscipline, Committing
  <2>3. DriftBound /\ TruthfulReply /\ RunningIsValid
    BY DEF Init, DriftBound, TruthfulReply, RunningIsValid, Committing, SymDiff,
           Recorded, NewConfig
  <2> QED
    BY <2>1, <2>2, <2>3 DEF IInv
<1>2. IInv /\ TypeOK' /\ [Next]_vars => IInv'
  BY LockStep, CopyStep, DriftStep, ReplyStep, ValidStep DEF IInv
<1> QED
  BY <1>1, <1>2, TypeCorrect, PTL DEF Spec

(* Whenever the lock is free the system differs from the recorded running  *)
(* configuration at most in pieces a fault accounts for.                   *)
THEOREM SystemAgrees == Spec => []Agreement
<1>1. IInv => Agreement
  BY DEF IInv, Agreement, DriftBound, LockDiscipline, Committing, TypeOK, PCs
<1> QED
  BY <1>1, InductiveInvariant, PTL

(* No call works on a stale copy of the configuration.                     *)
THEOREM CopiesAreFresh == Spec => []NoStaleCopy
<1>1. IInv => NoStaleCopy
  BY DEF IInv, NoStaleCopy, CopyDiscipline
<1> QED
  BY <1>1, InductiveInvariant, PTL

(* The reply of a commit says what became of the files and of the system.  *)
THEOREM RepliesAreTruthful == Spec => []TruthfulReply
<1>1. IInv => TruthfulReply
  BY DEF IInv
<1> QED
  BY <1>1, InductiveInvariant, PTL

(* Only configurations that validate are recorded as running.              *)
THEOREM OnlyValidRuns == Spec => []RunningIsValid
<1>1. IInv => RunningIsValid
  BY DEF IInv
<1> QED
  BY <1>1, InductiveInvariant, PTL

(* A startup configuration that netcli writes is one its boot accepts.     *)
THEOREM SavedConfigurationsBoot == Spec => SavedIsBootable
<1>1. IInv /\ [Next]_vars => [startup' \in Valid \cup {startup, NoFile}]_vars
  <2> SUFFICES ASSUME IInv, [Next]_vars
               PROVE  startup' \in Valid \cup {startup, NoFile}
    OBVIOUS
  <2>1. Running \in Valid \cup {startup}
    BY DEF IInv, RunningIsValid, Running, RunningView
  <2>2. ASSUME NEW p \in Procs, SaveStartup(p)
        PROVE  startup' \in Valid \cup {startup}
    BY <2>1, <2>2 DEF SaveStartup, IInv, CopyDiscipline
  <2>3. ASSUME NEW p \in Procs, EraseStartup(p) PROVE startup' = NoFile
    BY <2>3 DEF EraseStartup
  <2>4. ASSUME UNCHANGED vars \/ PowerLoss PROVE startup' = startup
    BY <2>4 DEF vars, PowerLoss
  <2>5. ASSUME NEW p \in Procs, NEW r \in Requests, Invoke(p, r)
        PROVE  startup' = startup
    BY <2>5 DEF Invoke, files
  <2>6. ASSUME NEW p \in Procs, AcquireLock(p) \/ Crash(p)
        PROVE  startup' = startup
    BY <2>6 DEF AcquireLock, Crash, Die, files
  <2>7. ASSUME NEW p \in Procs, Serve(p), ~SaveStartup(p), ~EraseStartup(p)
        PROVE  startup' = startup
    BY <2>7 DEF Serve, LoadFails, NothingToApply, StartCommit, ApplyPiece,
         ApplyPieceFails, ApplyDone, StartRollback, RollbackDone, RollbackFails,
         SaveRunning, SaveRunningFails, BootRefused, StartBoot, LoadForSave,
         SaveStartupFails, EraseFails, Unlock, files
  <2> QED
    BY <2>2, <2>3, <2>4, <2>5, <2>6, <2>7 DEF Next
<1> QED
  BY <1>1, InductiveInvariant, PTL DEF Spec, SavedIsBootable
(* How the pending calls change with the steps of a process: its call stays *)
(* pending through the work, and is decided by the step to "return".        *)
LEMMA PendingCalls ==
  ASSUME TypeOK, NEW p \in Procs, NEW v \in PCs,
         pc[p] \notin {"idle", "return"}, req' = req, pc' = [pc EXCEPT ![p] = v]
  PROVE  /\ v \notin {"idle", "return"} => Undecided' = Undecided
         /\ v = "return" => Undecided' = [Undecided EXCEPT ![p] = NoRequest]
         /\ Undecided[p] = req[p]
  BY DEF TypeOK, Undecided, PCs

(* The operators the abstract store is built from are those of Manager.    *)
LEMMA SameStore ==
  /\ Store!NoRequest = NoRequest
  /\ Store!Requests = Requests
  /\ Store!Current = Running
  /\ \A c, r : Store!Requested(c, r) = Requested(c, r)
<1>1. Store!NoRequest = NoRequest
  BY DEF NoRequest, Store!NoRequest
<1>2. Store!Requests = Requests
  BY DEF Requests, Store!Requests, ChangeRequests, Store!ChangeRequests,
     ReplaceRequests, Store!ReplaceRequests, OtherRequests, Store!OtherRequests,
     Configs, Store!Configs
<1>3. Store!Current = Running
  BY DEF Running, Store!Current, RunningView, Store!RunningView, NewConfig,
     Store!NewConfig
<1>4. \A c, r : Store!Requested(c, r) = Requested(c, r)
  BY DEF Requested, Store!Requested, Mutate, Store!Mutate
<1> QED
  BY <1>1, <1>2, <1>3, <1>4

(* Every step of Manager is a step of the abstract store or invisible to it.*)
LEMMA AtomicStep ==
  ASSUME IInv, [Next]_vars
  PROVE  [Store!StoreNext]_(Store!storeVars)
<1> DEFINE Hidden == UNCHANGED <<running, startup, Undecided>>
<1> USE SameStore, RequestTypes DEF TypeOK, files, Finish
<1>0. TypeOK /\ CopyDiscipline
  BY DEF IInv
<1>1. ASSUME NEW p \in Procs, NEW r \in Requests, Invoke(p, r)
      PROVE  Store!Call(p)
  BY <1>0, <1>1 DEF Invoke, Store!Call, Undecided
<1>2. ASSUME NEW p \in Procs,
             \/ AcquireLock(p) \/ StartCommit(p) \/ ApplyDone(p)
             \/ StartRollback(p) \/ RollbackFails(p) \/ StartBoot(p) \/ LoadForSave(p)
      PROVE  Hidden
  BY <1>0, <1>2, PendingCalls DEF AcquireLock, StartCommit, ApplyDone, StartRollback,
     RollbackFails, StartBoot, LoadForSave, PCs
<1>3. ASSUME NEW p \in Procs, NEW s \in Settings,
             ApplyPiece(p, s) \/ ApplyPieceFails(p, s)
      PROVE  Hidden
  BY <1>3 DEF ApplyPiece, ApplyPieceFails, Undecided
<1>4. ASSUME NEW p \in Procs,
             \/ LoadFails(p) \/ NothingToApply(p) \/ RollbackDone(p)
             \/ SaveRunningFails(p) \/ BootRefused(p) \/ SaveStartupFails(p)
             \/ EraseFails(p)
      PROVE  Store!Abandon(p)
  BY <1>0, <1>4, PendingCalls DEF LoadFails, NothingToApply, RollbackDone,
     SaveRunningFails, BootRefused, SaveStartupFails, EraseFails, PCs,
     CopyDiscipline, Store!Abandon
<1>5. ASSUME NEW p \in Procs, SaveRunning(p)
      PROVE  Store!TakeEffect(p) \/ Store!BootFromSaved(p)
  BY <1>0, <1>5, PendingCalls DEF SaveRunning, CopyDiscipline, Committing, PCs,
     Store!TakeEffect, Store!BootFromSaved
<1>6. ASSUME NEW p \in Procs, SaveStartup(p) PROVE Store!WriteMemory(p)
  BY <1>0, <1>6, PendingCalls DEF SaveStartup, CopyDiscipline, PCs,
     Store!WriteMemory
<1>7. ASSUME NEW p \in Procs, EraseStartup(p) PROVE Store!EraseSaved(p)
  BY <1>0, <1>7, PendingCalls DEF EraseStartup, PCs, Store!EraseSaved
<1>8. ASSUME NEW p \in Procs, Unlock(p) PROVE Hidden
  BY <1>0, <1>8 DEF Unlock, Forget, Undecided
<1>9. ASSUME NEW p \in Procs, Crash(p) PROVE Store!Abandon(p) \/ Hidden
  <2>1. CASE pc[p] = "return"
    BY <1>0, <1>9, <2>1 DEF Crash, Die, Forget, Undecided
  <2>2. CASE pc[p] # "return"
    BY <1>0, <1>9, <2>2 DEF Crash, Die, Forget, Undecided, Store!Abandon,
       CopyDiscipline
  <2> QED
    BY <2>1, <2>2
<1>10. ASSUME PowerLoss PROVE Store!LosePower
  BY <1>10 DEF PowerLoss, Undecided, Store!LosePower
<1>11. CASE UNCHANGED vars
  BY <1>11 DEF vars, Undecided, Store!storeVars
<1> QED
  <2>1. \A p \in Procs : Serve(p) =>
          \/ Hidden \/ Store!Abandon(p) \/ Store!TakeEffect(p)
          \/ Store!BootFromSaved(p) \/ Store!WriteMemory(p) \/ Store!EraseSaved(p)
    BY <1>2, <1>3, <1>4, <1>5, <1>6, <1>7, <1>8 DEF Serve
  <2>2. ASSUME NEW p \in Procs, AcquireLock(p) \/ Crash(p)
        PROVE  Hidden \/ Store!Abandon(p)
    BY <1>2, <1>9, <2>2
  <2> QED
    BY <1>1, <1>10, <1>11, <2>1, <2>2 DEF Next, Store!StoreNext, Store!storeVars

(* Manager implements the abstract store: whatever the interleaving of the *)
(* calls, the deaths of their processes and the failures of their steps,   *)
(* each call takes effect at one instant, on the contents the previous one *)
(* left behind, or not at all.                                             *)
THEOREM CallsAreAtomic == Spec => AtomicCalls
<1>1. Init => Store!StoreInit
  BY SameStore DEF Init, Store!StoreInit, Undecided, Store!FileContents, FileContents,
     Store!Configs, Configs
<1>2. IInv /\ [Next]_vars => [Store!StoreNext]_(Store!storeVars)
  BY AtomicStep
<1> QED
  BY <1>1, <1>2, InductiveInvariant, PTL DEF Spec, AtomicCalls, Store!StoreSpec

-----------------------------------------------------------------------------
(* The rollback timer                                                      *)

USE RevertTimerAssumption

(* The steps of the sessions and the watchdogs, as the manager sees them.  *)
LEMMA TimerStep ==
  ASSUME TimerIInv, [TimerNext]_allVars
  PROVE  [Next]_vars
<1> USE DEF TimerIInv
<1>1. ASSUME NEW s \in Sessions, NEW c,
             FoundAlive(s, c) \/ FoundDead(s, c) \/ FoundNone(s, c) \/ LoadSnapshot(s)
      PROVE  UNCHANGED vars
  BY <1>1 DEF FoundAlive, FoundDead, FoundNone, LoadSnapshot
<1>2. ASSUME NEW s \in Sessions, NEW r \in Calls, SessionCalls(s, r)
      PROVE  Next
  BY <1>2 DEF SessionCalls, Next
<1>3. ASSUME NEW s \in Sessions, SessionDies(s) PROVE [Next]_vars
  BY <1>3 DEF SessionDies, Next, Crash
<1>4. ASSUME NEW p \in Procs,
             \/ RemoveState(p) \/ RemoveSnapshot(p) \/ ReplaceReturns(p)
             \/ SaveSnapshot(p) \/ WriteState(p) \/ ArmFails(p)
             \/ Expire(p) \/ LoadToRevert(p)
      PROVE  UNCHANGED vars
  BY <1>4 DEF RemoveState, RemoveSnapshot, ReplaceReturns, SaveSnapshot,
     WriteState, ArmFails, Expire, LoadToRevert
<1>5. ASSUME NEW p \in Procs, NEW d \in Dogs, Spawn(p, d) PROVE UNCHANGED vars
  BY <1>5 DEF Spawn
<1>6. ASSUME NEW p \in Procs, CallReplace(p) PROVE Next
  <2>1. [op |-> "replace", config |-> hand[p]] \in Requests
    BY <1>6 DEF CallReplace, CommandDiscipline, Requests, ReplaceRequests
  <2> QED
    BY <1>6, <2>1 DEF CallReplace, Next
<1>7. ASSUME NEW s \in Sessions, StopWatchdog(s) \/ WriteStateFails(s)
      PROVE  [Next]_vars
  BY <1>7 DEF StopWatchdog, WriteStateFails, Living, Kill, Next, Crash
<1>8. ASSUME NEW p \in Procs, ManagerStep(p) PROVE Next
  BY <1>8 DEF ManagerStep, Next
<1>9. ASSUME PowerCycle PROVE Next
  BY <1>9 DEF PowerCycle, Next
<1>10. CASE UNCHANGED allVars
  BY <1>10 DEF allVars
<1> QED
  BY <1>1, <1>2, <1>3, <1>4, <1>5, <1>6, <1>7, <1>8, <1>9, <1>10
  DEF TimerNext, Proceed

(* The types of the timer's own state, and what each command holds.        *)
LEMMA TimerIInvStep ==
  ASSUME TimerIInv, [TimerNext]_allVars
  PROVE  TimerIInv'
<1>0. TypeOK' /\ Running \in Configs
  BY TimerStep, TypeStep, HelperTypes DEF TimerIInv, TimerTypeOK
<1> USE <1>0 DEF TimerIInv, TimerTypeOK, CommandDiscipline, timerFiles, Goto, Return,
      Places, Resting
<1>1. ASSUME NEW s \in Sessions, NEW c \in {"arm", "confirm", "show"},
             FoundAlive(s, c) \/ FoundDead(s, c) \/ FoundNone(s, c)
      PROVE  TimerIInv'
  BY <1>1 DEF FoundAlive, FoundDead, FoundNone
<1>2. ASSUME NEW s \in Sessions, LoadSnapshot(s) PROVE TimerIInv'
  BY <1>2 DEF LoadSnapshot, FileContents
<1>3. ASSUME NEW s \in Sessions, NEW r \in Calls, SessionCalls(s, r)
      PROVE  TimerIInv'
  BY <1>3 DEF SessionCalls, timerVars
<1>4. ASSUME NEW s \in Sessions, SessionDies(s) PROVE TimerIInv'
  BY <1>4 DEF SessionDies
<1>5. ASSUME NEW p \in Procs, RemoveState(p) \/ RemoveSnapshot(p)
      PROVE  TimerIInv'
  BY <1>5 DEF RemoveState, RemoveSnapshot, FileContents
<1>6. ASSUME NEW p \in Procs, CallReplace(p) \/ ReplaceReturns(p)
      PROVE  TimerIInv'
  BY <1>6 DEF CallReplace, ReplaceReturns, FileContents
<1>7. ASSUME NEW s \in Sessions, SaveSnapshot(s) \/ ArmFails(s) PROVE TimerIInv'
  BY <1>7 DEF SaveSnapshot, ArmFails, FileContents
<1>8. ASSUME NEW s \in Sessions, WriteState(s) PROVE TimerIInv'
  BY <1>8 DEF WriteState
<1>9. ASSUME NEW s \in Sessions, NEW d \in Dogs, Spawn(s, d) PROVE TimerIInv'
  BY <1>9 DEF Spawn
<1>10. ASSUME NEW s \in Sessions, StopWatchdog(s) PROVE TimerIInv'
  BY <1>10 DEF StopWatchdog, AfterStop, Kill, Living
<1>11. ASSUME NEW s \in Sessions, WriteStateFails(s) PROVE TimerIInv'
  BY <1>11 DEF WriteStateFails, Kill, Living
<1>12. ASSUME NEW d \in Dogs, Expire(d) \/ LoadToRevert(d) PROVE TimerIInv'
  BY <1>12 DEF Expire, LoadToRevert, FileContents
<1>13. ASSUME NEW p \in Procs, ManagerStep(p) PROVE TimerIInv'
  BY <1>13 DEF ManagerStep, timerVars
<1>14. ASSUME PowerCycle PROVE TimerIInv'
  BY <1>14 DEF PowerCycle, FileContents
<1>15. CASE UNCHANGED allVars
  BY <1>15 DEF allVars, timerVars
<1> HIDE DEF TimerIInv
<1> QED
  BY <1>1, <1>2, <1>3, <1>4, <1>5, <1>6, <1>7, <1>8, <1>9, <1>10, <1>11, <1>12,
     <1>13, <1>14, <1>15 DEF TimerNext, Proceed

(* The types of the timer and of the manager under it.                     *)
THEOREM TimerTypeCorrect == TimerSpec => []TimerTypeOK
<1>1. TimerInit => TimerIInv
  <2>1. Init => TypeOK
    BY DEF Init, TypeOK, FileContents, Configs, NewConfig, PCs, Replies
  <2> QED
    BY <2>1 DEF TimerInit, TimerIInv, TimerTypeOK, CommandDiscipline, FileContents,
       Places, Resting
<1>2. TimerIInv /\ [TimerNext]_allVars => TimerIInv'
  BY TimerIInvStep
<1>3. TimerIInv => TimerTypeOK
  BY DEF TimerIInv
<1> QED
  BY <1>1, <1>2, <1>3, PTL DEF TimerSpec

(* Every behaviour with the timer is one of the manager.                   *)
THEOREM TimerIsAClient == TimerSpec => UsesManager
<1>1. TimerInit => Init /\ TimerIInv
  <2>1. Init => TypeOK
    BY DEF Init, TypeOK, FileContents, Configs, NewConfig, PCs, Replies
  <2> QED
    BY <2>1 DEF TimerInit, TimerIInv, TimerTypeOK, CommandDiscipline, FileContents,
       Places, Resting
<1>2. TimerIInv /\ [TimerNext]_allVars => TimerIInv'
  BY TimerIInvStep
<1>3. TimerIInv /\ [TimerNext]_allVars => [Next]_vars
  BY TimerStep
<1> QED
  BY <1>1, <1>2, <1>3, PTL DEF TimerSpec, UsesManager, Spec

(* With the timer, too, the system differs from the recorded running       *)
(* configuration at most where a fault, or a signal in mid-revert, left it.*)
THEOREM SystemAgreesWithTimer == TimerSpec => []Agreement
  BY TimerIsAClient, SystemAgrees DEF UsesManager

(* And every call, the watchdog's revert included, is atomic.              *)
THEOREM CallsAreAtomicWithTimer == TimerSpec => AtomicCalls
  BY TimerIsAClient, CallsAreAtomic DEF UsesManager

-----------------------------------------------------------------------------
(* Where no command overlaps another and no command or file fails, a       *)
(* promise of the rollback timer is kept, whatever sessions there are and  *)
(* whenever they are cut off at their prompts or in a change.              *)

(* A step of one process's call leaves the other calls alone; the one call *)
(* of a revert, a replace by a valid configuration, is going to succeed.   *)
LEMMA CallStep ==
  ASSUME TypeOK, Undisturbed, \A q \in Procs : failed[q] = {},
         NEW p \in Procs, AcquireLock(p) \/ Serve(p)
  PROVE  /\ \A q \in Procs : failed'[q] = {}
         /\ \A q \in Procs \ {p} :
              pc'[q] = pc[q] /\ req'[q] = req[q] /\ reply'[q] = reply[q]
         /\ \A c \in Valid :
              /\ pc[p] \in {"idle", "return"} => reply[p] = "ok"
              /\ pc[p] \notin {"idle", "return"} =>
                   req[p] = [op |-> "replace", config |-> c] /\ pc[p] # "rollback"
              => /\ pc'[p] \in {"idle", "return"} => reply'[p] = "ok"
                 /\ pc'[p] \notin {"idle", "return"} =>
                      req'[p] = [op |-> "replace", config |-> c] /\ pc'[p] # "rollback"
<1> USE DEF TypeOK, Undisturbed, files, locals, Finish, PCs, Replies
<1> DEFINE Others == \A q \in Procs \ {p} :
              pc'[q] = pc[q] /\ req'[q] = req[q] /\ reply'[q] = reply[q]
<1> DEFINE Fine(c) ==
              /\ pc[p] \in {"idle", "return"} => reply[p] = "ok"
              /\ pc[p] \notin {"idle", "return"} =>
                   req[p] = [op |-> "replace", config |-> c] /\ pc[p] # "rollback"
<1> DEFINE Kept == (\A q \in Procs : failed'[q] = {}) /\ Others /\ \A c \in Valid : Fine(c) => Fine(c)'
<1>1. CASE AcquireLock(p) BY <1>1 DEF AcquireLock
<1>2. CASE LoadFails(p) BY <1>2 DEF LoadFails
<1>3. CASE NothingToApply(p) BY <1>3 DEF NothingToApply, Requested
<1>4. CASE StartCommit(p) BY <1>4 DEF StartCommit
<1>5. ASSUME NEW s \in Settings, ApplyPiece(p, s) PROVE Kept
  BY <1>5 DEF ApplyPiece
<1>6. ASSUME NEW s \in Settings, ApplyPieceFails(p, s) PROVE FALSE
  BY <1>6 DEF ApplyPieceFails
<1>7. CASE ApplyDone(p) BY <1>7 DEF ApplyDone
<1>8. CASE StartRollback(p) BY <1>8 DEF StartRollback
<1>9. CASE RollbackDone(p) BY <1>9 DEF RollbackDone
<1>10. CASE RollbackFails(p) BY <1>10 DEF RollbackFails
<1>11. CASE SaveRunning(p) BY <1>11 DEF SaveRunning
<1>12. CASE SaveRunningFails(p) BY <1>12 DEF SaveRunningFails
<1>13. CASE BootRefused(p) BY <1>13 DEF BootRefused
<1>14. CASE StartBoot(p) BY <1>14 DEF StartBoot
<1>15. CASE LoadForSave(p) BY <1>15 DEF LoadForSave
<1>16. CASE SaveStartup(p) BY <1>16 DEF SaveStartup
<1>17. CASE SaveStartupFails(p) BY <1>17 DEF SaveStartupFails
<1>18. CASE EraseStartup(p) BY <1>18 DEF EraseStartup
<1>19. CASE EraseFails(p) BY <1>19 DEF EraseFails
<1>20. CASE Unlock(p) BY <1>20 DEF Unlock, Forget
<1> QED
  BY <1>1, <1>2, <1>3, <1>4, <1>5, <1>6, <1>7, <1>8, <1>9, <1>10, <1>11, <1>12,
     <1>13, <1>14, <1>15, <1>16, <1>17, <1>18, <1>19, <1>20 DEF Serve

(* Commands and expiries begin only when no other is under way.            *)
LEMMA StartsAlone ==
  ASSUME PromiseInv, MayStart
  PROVE  Active = {} /\ (Armed \/ Disarmed)
BY DEF PromiseInv, MayStart, Undisturbed, Active

(* A step of p after which nobody else is in a command: what is left to    *)
(* show is where p is then.                                                *)
LEMMA OneMoves ==
  ASSUME NEW p \in Procs,
         Undisturbed, OnlyValidFiles',
         \A q \in Procs : failed'[q] = {},
         \A q \in Procs \ {p} : at'[q] \in Resting,
         HalfWay(p)', Reverting(p)',
         at'[p] \in Resting => Armed' \/ Disarmed'
  PROVE  PromiseInv'
BY DEF PromiseInv, Undisturbed, Active, HalfWay, Reverting, Resting

(* One case per action; what a call of the manager does is CallStep's.     *)
LEMMA PromiseStep ==
  ASSUME TimerIInv, RunningIsValid, startup \in Valid \cup {NoFile},
         RunningIsValid', startup' \in Valid \cup {NoFile},
         PromiseInv, [TimerNext]_allVars
  PROVE  PromiseInv'
<1>0. Undisturbed'
  BY DEF PromiseInv, Undisturbed
<1> USE <1>0 DEF TimerIInv, TimerTypeOK, CommandDiscipline, timerFiles, Goto, Return,
      Places, Resting, RunningIsValid, OnlyValidFiles, Active, Armed, Disarmed, HalfWay, Reverting
<1>1. ASSUME NEW s \in Sessions, NEW c \in {"arm", "confirm", "show"}, FoundAlive(s, c)
      PROVE  PromiseInv'
  BY <1>1, StartsAlone DEF PromiseInv, FoundAlive, Ready, vars, files, locals
<1>2. ASSUME NEW s \in Sessions, NEW c \in {"arm", "confirm", "show"}, FoundDead(s, c)
      PROVE  FALSE
  BY <1>2, StartsAlone DEF FoundDead, Answers, Living
<1>3. ASSUME NEW s \in Sessions, NEW c \in {"arm", "confirm", "show"}, FoundNone(s, c)
      PROVE  PromiseInv'
  BY <1>3, StartsAlone DEF PromiseInv, FoundNone, Ready, vars, files, locals
<1>4. ASSUME NEW s \in Sessions, LoadSnapshot(s) PROVE PromiseInv'
  BY <1>4, StartsAlone DEF PromiseInv, LoadSnapshot, Ready, vars, files, locals
<1>5. ASSUME NEW s \in Sessions, NEW r \in Calls, SessionCalls(s, r)
      PROVE  PromiseInv'
  BY <1>5 DEF PromiseInv, SessionCalls, timerVars, Ready, Invoke, files, locals
<1>6. ASSUME NEW s \in Sessions, SessionDies(s) PROVE PromiseInv'
  BY <1>6, SMTT(60) DEF PromiseInv, SessionDies, Undisturbed, Die, Forget, vars, files, locals,
     TypeOK
<1>7. ASSUME NEW p \in Procs, RemoveState(p) PROVE PromiseInv'
  <2>1. \A q \in Procs \ {p} : at'[q] \in Resting /\ failed'[q] = {}
    BY <1>7 DEF PromiseInv, RemoveState, vars, files, locals
  <2>2. failed'[p] = {} /\ OnlyValidFiles' /\ (at'[p] \in Resting => Armed' \/ Disarmed')
    BY <1>7 DEF PromiseInv, RemoveState, vars, files, locals
  <2>3. HalfWay(p)' /\ Reverting(p)'
    BY <1>7 DEF PromiseInv, RemoveState, vars, files, locals
  <2> HIDE DEF HalfWay, Reverting, Armed, Disarmed, OnlyValidFiles, Resting
  <2> QED
    BY <2>1, <2>2, <2>3, OneMoves DEF PromiseInv
<1>8. ASSUME NEW p \in Procs, RemoveSnapshot(p) PROVE PromiseInv'
  <2>1. \A q \in Procs \ {p} : at'[q] \in Resting /\ failed'[q] = {}
    BY <1>8 DEF PromiseInv, RemoveSnapshot, vars, files, locals
  <2>2. failed'[p] = {} /\ OnlyValidFiles' /\ (at'[p] \in Resting => Armed' \/ Disarmed')
    <3>1. at[p] = "removeSnapshot" /\ HalfWay(p)
      BY <1>8 DEF PromiseInv, RemoveSnapshot
    <3>2. stateFile = NoFile /\ (cmd[p] = "confirm" \/ promised = NoFile)
      BY <3>1
    <3>3. Disarmed'
      BY <1>8, <3>2 DEF RemoveSnapshot
    <3>4. failed'[p] = {} /\ OnlyValidFiles'
      BY <1>8 DEF PromiseInv, RemoveSnapshot, vars, files, locals
    <3> QED
      BY <3>3, <3>4
  <2>3. HalfWay(p)' /\ Reverting(p)'
    <3>1. at[p] = "removeSnapshot" /\ HalfWay(p)
      BY <1>8 DEF PromiseInv, RemoveSnapshot
    <3>2. p \in Sessions => cmd[p] \in {"confirm", "revert"}
      BY <3>1
    <3>3. at'[p] \in Resting
      BY <1>8, <3>2 DEF RemoveSnapshot
    <3> QED
      BY <3>3
  <2> HIDE DEF HalfWay, Reverting, Armed, Disarmed, OnlyValidFiles, Resting
  <2> QED
    BY <2>1, <2>2, <2>3, OneMoves DEF PromiseInv
<1>9. ASSUME NEW p \in Procs, CallReplace(p) PROVE PromiseInv'
  <2>1. \A q \in Procs \ {p} : at'[q] \in Resting /\ failed'[q] = {}
    BY <1>9 DEF PromiseInv, CallReplace, Invoke, TypeOK, vars, files, locals
  <2>2. failed'[p] = {} /\ OnlyValidFiles' /\ (at'[p] \in Resting => Armed' \/ Disarmed')
    BY <1>9 DEF PromiseInv, CallReplace, Invoke, TypeOK, vars, files, locals
  <2>3. HalfWay(p)' /\ Reverting(p)'
    BY <1>9 DEF PromiseInv, CallReplace, Invoke, TypeOK, vars, files, locals
  <2> HIDE DEF HalfWay, Reverting, Armed, Disarmed, OnlyValidFiles, Resting
  <2> QED
    BY <2>1, <2>2, <2>3, OneMoves DEF PromiseInv
<1>10. ASSUME NEW p \in Procs, ReplaceReturns(p) PROVE PromiseInv'
  <2>1. /\ at[p] = "replacing" /\ pc[p] = "idle" /\ reply[p] = "ok"
        /\ hand[p] = promised
        /\ p \in Sessions => cmd[p] \in {"confirm", "revert"}
    BY <1>10 DEF PromiseInv, ReplaceReturns
  <2>2. /\ promised' = NoFile
         /\ at' = [at EXCEPT ![p] = "removeState"]
         /\ cmd' = [cmd EXCEPT ![p] = cmd[p]]
    BY <1>10, <2>1 DEF ReplaceReturns
  <2>3. \A q \in Procs \ {p} : at'[q] \in Resting /\ failed'[q] = {}
    BY <1>10 DEF PromiseInv, ReplaceReturns, vars, files, locals
  <2>4. failed'[p] = {} /\ OnlyValidFiles' /\ (at'[p] \in Resting => Armed' \/ Disarmed')
    BY <1>10, <2>1, <2>2 DEF PromiseInv, ReplaceReturns, vars, files, locals
  <2>5. HalfWay(p)' /\ Reverting(p)'
    BY <1>10, <2>1, <2>2 DEF PromiseInv, ReplaceReturns, vars, files, locals
  <2> HIDE DEF HalfWay, Reverting, Armed, Disarmed, OnlyValidFiles, Resting
  <2> QED
    BY <2>3, <2>4, <2>5, OneMoves DEF PromiseInv
<1>11. ASSUME NEW s \in Sessions, SaveSnapshot(s) PROVE PromiseInv'
  <2>1. Running \in Valid
    BY ConfigurationAssumption DEF Running, RunningView
  <2>2. Running # NoFile
    BY <2>1, ConfigurationAssumption
  <2>3. \A q \in Procs \ {s} : at'[q] \in Resting /\ failed'[q] = {}
    BY <1>11 DEF PromiseInv, SaveSnapshot, vars, files, locals
  <2>4. failed'[s] = {} /\ OnlyValidFiles' /\ (at'[s] \in Resting => Armed' \/ Disarmed')
    BY <1>11, <2>1, <2>2 DEF PromiseInv, SaveSnapshot, vars, files, locals
  <2>5. HalfWay(s)' /\ Reverting(s)'
    BY <1>11, <2>1, <2>2 DEF PromiseInv, SaveSnapshot, vars, files, locals
  <2> HIDE DEF HalfWay, Reverting, Armed, Disarmed, OnlyValidFiles, Resting
  <2> QED
    BY <2>3, <2>4, <2>5, OneMoves DEF PromiseInv
<1>12. ASSUME NEW s \in Sessions, ArmFails(s) \/ WriteStateFails(s) PROVE FALSE
  BY <1>12 DEF PromiseInv, Undisturbed, ArmFails, WriteStateFails
<1>13. ASSUME NEW s \in Sessions, NEW d \in Dogs, Spawn(s, d) PROVE PromiseInv'
  <2>1. \A q \in Procs \ {s} : at'[q] \in Resting /\ failed'[q] = {}
    BY <1>13 DEF PromiseInv, Spawn, Unborn, vars, files, locals
  <2>2. failed'[s] = {} /\ OnlyValidFiles' /\ (at'[s] \in Resting => Armed' \/ Disarmed')
    BY <1>13 DEF PromiseInv, Spawn, Unborn, vars, files, locals
  <2>3. HalfWay(s)' /\ Reverting(s)'
    BY <1>13 DEF PromiseInv, Spawn, Unborn, vars, files, locals
  <2> HIDE DEF HalfWay, Reverting, Armed, Disarmed, OnlyValidFiles, Resting
  <2> QED
    BY <2>1, <2>2, <2>3, OneMoves DEF PromiseInv
<1>14. ASSUME NEW s \in Sessions, WriteState(s) PROVE PromiseInv'
  <2>1. \A q \in Procs \ {s} : at'[q] \in Resting /\ failed'[q] = {}
    BY <1>14 DEF PromiseInv, WriteState, vars, files, locals
  <2>2. failed'[s] = {} /\ OnlyValidFiles' /\ (at'[s] \in Resting => Armed' \/ Disarmed')
    <3>1. at[s] = "state" /\ HalfWay(s)
      BY <1>14 DEF PromiseInv, WriteState
    <3>2. /\ snapshot # NoFile /\ promised \in {NoFile, snapshot} /\ at[hand[s]] = "asleep"
          /\ hand[s] # NoFile /\ hand[s] # s
      BY <1>14, <3>1 DEF PromiseInv, WriteState
    <3>3. /\ at' = [at EXCEPT ![s] = "shell"] /\ stateFile' = hand[s] /\ snapshot' = snapshot
          /\ promised' = IF promised = NoFile THEN snapshot ELSE promised
      BY <1>14 DEF WriteState
    <3>4. at'[hand[s]] = at[hand[s]]
      BY <3>2, <3>3
    <3>5. Armed'
      BY <3>2, <3>3, <3>4
    <3>6. failed'[s] = {} /\ OnlyValidFiles'
      BY <1>14 DEF PromiseInv, WriteState, vars, files, locals
    <3> QED
      BY <3>5, <3>6
  <2>3. HalfWay(s)' /\ Reverting(s)'
    <3>1. at'[s] \in Resting
      BY <1>14 DEF WriteState
    <3> QED
      BY <3>1
  <2> HIDE DEF HalfWay, Reverting, Armed, Disarmed, OnlyValidFiles, Resting
  <2> QED
    BY <2>1, <2>2, <2>3, OneMoves DEF PromiseInv
<1>15. ASSUME NEW s \in Sessions, StopWatchdog(s) PROVE PromiseInv'
  <2>1. \A q \in Procs \ {s} : at'[q] \in Resting /\ failed'[q] = {}
    BY <1>15 DEF PromiseInv, StopWatchdog, AfterStop, Kill, Living, Die, Forget, TypeOK, vars, files, locals
  <2>2. failed'[s] = {} /\ OnlyValidFiles' /\ (at'[s] \in Resting => Armed' \/ Disarmed')
    BY <1>15 DEF PromiseInv, StopWatchdog, AfterStop, Kill, Living, Die, Forget, TypeOK, vars, files, locals
  <2>3. HalfWay(s)' /\ Reverting(s)'
    BY <1>15 DEF PromiseInv, StopWatchdog, AfterStop, Kill, Living, Die, Forget, TypeOK, vars, files, locals
  <2> HIDE DEF HalfWay, Reverting, Armed, Disarmed, OnlyValidFiles, Resting
  <2> QED
    BY <2>1, <2>2, <2>3, OneMoves DEF PromiseInv
<1>16. ASSUME NEW d \in Dogs, Expire(d) PROVE PromiseInv'
  <2>1. \A q \in Procs \ {d} : at'[q] \in Resting /\ failed'[q] = {}
    BY <1>16, StartsAlone DEF PromiseInv, Expire, vars, files, locals
  <2>2. failed'[d] = {} /\ OnlyValidFiles' /\ (at'[d] \in Resting => Armed' \/ Disarmed')
    BY <1>16, StartsAlone DEF PromiseInv, Expire, vars, files, locals
  <2>3. HalfWay(d)' /\ Reverting(d)'
    BY <1>16, StartsAlone DEF PromiseInv, Expire, vars, files, locals
  <2> HIDE DEF HalfWay, Reverting, Armed, Disarmed, OnlyValidFiles, Resting
  <2> QED
    BY <2>1, <2>2, <2>3, OneMoves DEF PromiseInv
<1>17. ASSUME NEW d \in Dogs, LoadToRevert(d) PROVE PromiseInv'
  <2>1. snapshot # NoFile /\ snapshot = promised /\ snapshot \in Valid
    BY <1>17 DEF PromiseInv, LoadToRevert
  <2>2. \A q \in Procs \ {d} : at'[q] \in Resting /\ failed'[q] = {}
    BY <1>17, <2>1 DEF PromiseInv, LoadToRevert, vars, files, locals
  <2>3. failed'[d] = {} /\ OnlyValidFiles' /\ (at'[d] \in Resting => Armed' \/ Disarmed')
    BY <1>17, <2>1 DEF PromiseInv, LoadToRevert, vars, files, locals
  <2>4. HalfWay(d)' /\ Reverting(d)'
    BY <1>17, <2>1 DEF PromiseInv, LoadToRevert, vars, files, locals
  <2> HIDE DEF HalfWay, Reverting, Armed, Disarmed, OnlyValidFiles, Resting
  <2> QED
    BY <2>2, <2>3, <2>4, OneMoves DEF PromiseInv
<1>18. ASSUME NEW p \in Procs, ManagerStep(p) PROVE PromiseInv'
  BY <1>18, CallStep DEF PromiseInv, ManagerStep, timerVars
<1>19. ASSUME PowerCycle PROVE PromiseInv'
  BY <1>19 DEF PromiseInv, PowerCycle, PowerLoss
<1>20. CASE UNCHANGED allVars
  BY <1>20 DEF PromiseInv, allVars, timerVars, vars
<1> HIDE DEF TimerIInv, RunningIsValid, OnlyValidFiles
<1> QED
  BY <1>1, <1>2, <1>3, <1>4, <1>5, <1>6, <1>7, <1>8, <1>9, <1>10, <1>11, <1>12,
     <1>13, <1>14, <1>15, <1>16, <1>17, <1>18, <1>19, <1>20 DEF TimerNext, Proceed

StartupBoots == startup \in Valid \cup {NoFile}

(* Between the commands a promise is kept, if no command overlaps another  *)
(* or fails and the startup file is one that boot accepts.                 *)
THEOREM PromisesAreKept ==
  TimerSpec /\ Undisturbed /\ StartupBoots => []PromiseKept
<1>1. TimerInit /\ Undisturbed /\ StartupBoots => PromiseInv
  BY DEF TimerInit, Init, PromiseInv, StartupBoots, OnlyValidFiles, Active, Resting,
     Disarmed, HalfWay, Reverting
<1>2. StartupBoots /\ [startup' \in Valid \cup {startup, NoFile}]_vars => StartupBoots'
  BY DEF StartupBoots, vars
<1>3. TimerIInv /\ RunningIsValid /\ RunningIsValid' /\ StartupBoots /\ StartupBoots'
        /\ PromiseInv /\ [TimerNext]_allVars => PromiseInv'
  BY PromiseStep DEF StartupBoots
<1>4. PromiseInv => PromiseKept
  BY DEF PromiseInv, PromiseKept, Quiet, Active, Armed, Disarmed
<1>5. TimerInit => TimerIInv
  <2>1. Init => TypeOK
    BY DEF Init, TypeOK, FileContents, Configs, NewConfig, PCs, Replies
  <2> QED
    BY <2>1 DEF TimerInit, TimerIInv, TimerTypeOK, CommandDiscipline, FileContents,
       Places, Resting
<1>6. TimerIInv /\ [TimerNext]_allVars => TimerIInv'
  BY TimerIInvStep
<1>7. TimerSpec => Spec
  BY TimerIsAClient DEF UsesManager
<1> QED
  BY <1>1, <1>2, <1>3, <1>4, <1>5, <1>6, <1>7, OnlyValidRuns, SavedConfigurationsBoot,
     PTL DEF TimerSpec, SavedIsBootable
=============================================================================
