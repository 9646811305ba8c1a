---------------------------- MODULE Configuration ----------------------------
(***************************************************************************)
(* What a configuration is to the parts of netcli that store and apply it. *)
(*                                                                         *)
(* config.Config is a YAML document: hostname, interfaces, routes, access  *)
(* lists, NAT rules, DHCP pools, users.  The store and the applier treat   *)
(* it as a bag of independent pieces: they compare two documents, apply    *)
(* the pieces in which they differ and leave the rest alone.  Here a       *)
(* configuration is the set of pieces (Settings) that are present in it;   *)
(* two documents that Normalize to the same text are the same set.         *)
(***************************************************************************)
EXTENDS FiniteSetsExt

CONSTANTS
  Settings,   \* the pieces a configuration is made of
  Valid,      \* the configurations Config.Validate accepts
  Edits,      \* what a mutate function handed to Manager.Change may do
  NoFile      \* content of a file that does not exist

Configs == SUBSET Settings

(* The empty document config.New() returns.                                *)
NewConfig == {}

ASSUME ConfigurationAssumption ==
  /\ Valid \subseteq Configs
  /\ NewConfig \in Valid
  /\ Edits \subseteq [set : Configs, unset : Configs]
  /\ \A c \in Configs : c # NoFile

(* What a configuration file can hold: WriteFileAtomic renames a complete  *)
(* temporary file over it, so a reader never finds half a document.        *)
FileContents == {NoFile} \cup Configs

(* Config.Clone and the mutate function applied to the clone.              *)
Mutate(c, edit) == (c \ edit.unset) \cup edit.set

(* Store.Running: the running file, before anything has been applied the   *)
(* startup file, and without either of them the empty document.            *)
RunningView(running, startup) ==
  IF running # NoFile THEN running
  ELSE IF startup # NoFile THEN startup
  ELSE NewConfig

(* The calls on a Manager that take the store lock.                        *)
NoRequest == [op |-> "none"]
ChangeRequests  == [op : {"change"}, edit : Edits]
ReplaceRequests == [op : {"replace"}, config : Configs]
OtherRequests   == [op : {"save", "erase", "boot"}]
Requests == ChangeRequests \cup ReplaceRequests \cup OtherRequests

(* The configuration a change or a replace asks for, given the running one.*)
Requested(c, request) ==
  IF request.op = "change" THEN Mutate(c, request.edit) ELSE request.config
=============================================================================
