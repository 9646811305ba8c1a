------------------------------- MODULE Lists -------------------------------
(***************************************************************************)
(* The loop with which the code keeps some members of a list in their      *)
(* order:                                                                  *)
(*     for _, x := range s { if ... { kept = append(kept, x) } }           *)
(* SelectSeq of the standard modules is the same for TLC, but it has no    *)
(* definition that the provers can use.                                    *)
(***************************************************************************)
EXTENDS Integers, Sequences

(* What has been kept of s after its first i members.                      *)
Kept(s, T) ==
  LET kept[i \in 0 .. Len(s)] ==
        IF i = 0 THEN <<>>
        ELSE IF s[i] \in T THEN Append(kept[i - 1], s[i]) ELSE kept[i - 1]
  IN  kept

Only(s, T) == Kept(s, T)[Len(s)]

(* A slice, whatever it holds.                                             *)
IsList(s) == s \in Seq({s[i] : i \in DOMAIN s})
=============================================================================
