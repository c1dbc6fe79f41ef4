----------------------------- MODULE NameChoice -----------------------------
(***************************************************************************)
(* Which VM a command is about (resolveVM, parseCopyArg, DefaultVM, List   *)
(* and Get): the one it names, or, if it names none, the only one there    *)
(* is. `vc exec` takes a name that no VM has for the first word of a       *)
(* command for the only one. List reads the directory of VMs once and then *)
(* each record, with no lock, while other invocations create and remove    *)
(* VMs; a directory with no record in it, of a creation not yet or never   *)
(* finished, is no VM.                                                     *)
(***************************************************************************)
EXTENDS FiniteSets

CONSTANTS VMNames, NoName

ASSUME NameAssumption == NoName \notin VMNames

VARIABLES
  entry,    \* per name: "none", "dir" or "vm" (a directory with a record)
  chooser   \* a command: its step, the name it was given, and its locals

nameVars == <<entry, chooser>>

\* lasting, which no code has: the VMs there have been ever since the command began.
Choosing == [at : {"idle", "exists", "list", "read", "get", "acts", "error"},
             arg : VMNames \union {NoName}, todo : SUBSET VMNames,
             found : SUBSET VMNames, lasting : SUBSET VMNames]
Unasked == [at |-> "idle", arg |-> NoName, todo |-> {}, found |-> {}, lasting |-> {}]

NameTypeOK == entry \in [VMNames -> {"none", "dir", "vm"}] /\ chooser \in Choosing

NameInit == entry = [n \in VMNames |-> "none"] /\ chooser = Unasked

Existing == {n \in VMNames : entry[n] = "vm"}

ChooserAt(step) == chooser.at = step

\* A command begins, with a name or, where that may be left out, without one.
AskFor(n) ==
  /\ ChooserAt("idle")
  /\ chooser' = [Unasked EXCEPT !.at = IF n = NoName THEN "list" ELSE "get",
                                !.arg = n, !.lasting = Existing]
  /\ UNCHANGED entry

\* `vc exec`, with its first word.
AskExec(n) ==
  /\ ChooserAt("idle")
  /\ chooser' = [Unasked EXCEPT !.at = "exists", !.arg = n, !.lasting = Existing]
  /\ UNCHANGED entry

ExecExists ==
  /\ ChooserAt("exists")
  /\ chooser' = [chooser EXCEPT !.at = IF entry[chooser.arg] = "vm" THEN "get" ELSE "list"]
  /\ UNCHANGED entry

\* List: the directory.
ReadDir ==
  /\ ChooserAt("list")
  /\ chooser' = [chooser EXCEPT !.at = "read",
                                !.todo = {n \in VMNames : entry[n] # "none"}]
  /\ UNCHANGED entry

\* List: the record of one entry.  What cannot be read is skipped.
ReadEntry ==
  /\ ChooserAt("read")
  /\ \E n \in chooser.todo :
       chooser' = [chooser EXCEPT !.todo = @ \ {n},
                     !.found = IF entry[n] = "vm" THEN @ \union {n} ELSE @]
  /\ UNCHANGED entry

\* Mutant of DefaultVM: the first of the list.
DefaultVMFirst ==
  /\ ChooserAt("read") /\ chooser.todo = {}
  /\ \/ /\ chooser.found = {}
        /\ chooser' = [chooser EXCEPT !.at = "error"]
     \/ \E n \in chooser.found : chooser' = [chooser EXCEPT !.at = "get", !.arg = n]
  /\ UNCHANGED entry

\* DefaultVM: none, or more than one, is an error, upon which exec tries the name after
\* all.
DefaultVM ==
  /\ ChooserAt("read") /\ chooser.todo = {}
  /\ \/ /\ Cardinality(chooser.found) # 1
        /\ chooser' = [chooser EXCEPT !.at = IF chooser.arg = NoName THEN "error" ELSE "get"]
     \/ \E n \in chooser.found :
          /\ chooser.found = {n}
          /\ chooser' = [chooser EXCEPT !.at = "get", !.arg = n]
  /\ UNCHANGED entry

\* Get, of the name given or found, by the operation that follows.
GetRecord ==
  /\ ChooserAt("get")
  /\ chooser' = [chooser EXCEPT !.at = IF entry[chooser.arg] = "vm" THEN "acts" ELSE "error"]
  /\ UNCHANGED entry

CommandEndsHere ==
  /\ chooser.at \in {"acts", "error"}
  /\ chooser' = Unasked
  /\ UNCHANGED entry

\* Other invocations.
Appears(n) ==
  /\ \/ entry[n] = "none" /\ entry' = [entry EXCEPT ![n] = "dir"]
     \/ entry[n] = "dir" /\ entry' = [entry EXCEPT ![n] = "vm"]
  /\ UNCHANGED chooser

Disappears(n) ==
  /\ entry[n] # "none"
  /\ entry' = [entry EXCEPT ![n] = "none"]
  /\ chooser' = [chooser EXCEPT !.lasting = @ \ {n}]

NameNext ==
  \/ \E n \in VMNames \union {NoName} : AskFor(n)
  \/ \E n \in VMNames : AskExec(n)
  \/ ExecExists \/ ReadDir \/ ReadEntry \/ DefaultVM \/ GetRecord \/ CommandEndsHere
  \/ \E n \in VMNames : Appears(n) \/ Disappears(n)

NameSpec == NameInit /\ [][NameNext]_nameVars

-----------------------------------------------------------------------------
\* A command never picks one of several VMs: if it turns to a VM it did not name, no
\* other was there all the while, though List is no snapshot.
NeverPicks ==
  [][\A n \in VMNames :
       (ChooserAt("read") /\ chooser'.at = "get" /\ chooser'.arg = n /\ chooser.arg # n)
         => chooser.lasting \subseteq {n}]_nameVars

=============================================================================
