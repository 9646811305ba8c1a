------------------------------- MODULE MCRouter -------------------------------
(* The manager and the documents its calls edit: a behaviour follows the   *)
(* processes and their files, with an edit as a set of pieces, or the      *)
(* sessions and the document, with a call as one step.                     *)
EXTENDS MCManager, MCEditor

VARIABLE part

routerVars == <<vars, editorVars, part>>

RouterInit ==
  /\ Init /\ EditorInit
  /\ part \in {"manager", "editor"}
  /\ part = "manager" => document = NewDocument
  /\ part = "editor" => startup = NoFile

RouterNext ==
  \/ part = "manager" /\ Next /\ UNCHANGED <<editorVars, part>>
  \/ part = "editor" /\ EditorNext /\ UNCHANGED <<vars, part>>

RouterSpec == RouterInit /\ [][RouterNext]_routerVars
=============================================================================
