----------------------------- MODULE StateFile -----------------------------
(***************************************************************************)
(* The coordinator's state file (internal/persist/persist.go): Save opens  *)
(* path.tmp with O_TRUNC, writes the JSON, closes it, and renames it over  *)
(* path.  The name of the temporary file is fixed, and callers hold no     *)
(* lock, so two Saves may have the same file open at once.  A descriptor   *)
(* follows the file and not its name: after another Save renames path.tmp, *)
(* a Save that still has it open writes into path itself.                  *)
(*                                                                         *)
(* A file holds a whole snapshot, or is Empty (just truncated), or is Torn *)
(* (a shorter snapshot written over a longer one: not JSON any more).      *)
(***************************************************************************)
EXTENDS Names

CONSTANTS NoFile,   \* the name does not exist
          Empty,  \* a file of length zero
          Torn    \* a file that does not parse

VARIABLES path,  \* what is under the state path
          tmp,   \* what is under path.tmp
          fd     \* handler -> where the file it has open is now

fileVars == <<path, tmp, fd>>

Marks == {NoFile, Empty, Torn}
IsSnapshot(content) == content \notin Marks

FileInit ==
  /\ path = NoFile
  /\ tmp = NoFile
  /\ fd = [s \in Handlers |-> "closed"]

\* Mutant: Save writes the state file in place.
OpenInPlace(s) ==
  /\ path' = Empty
  /\ fd' = [fd EXCEPT ![s] = "path"]
  /\ UNCHANGED tmp

\* os.WriteFile's open: creates or truncates path.tmp.
OpenTmp(s) ==
  /\ tmp' = Empty
  /\ fd' = [fd EXCEPT ![s] = "tmp"]
  /\ UNCHANGED path

\* What a file may hold after data is written at its beginning.
Overwritten(old, data) ==
  IF old \in {Empty, data} THEN {data} ELSE {data, Torn}

\* os.WriteFile's write and close, into whatever the descriptor is now.
WriteAndClose(s, data) ==
  /\ CASE fd[s] = "tmp"  -> tmp' \in Overwritten(tmp, data) /\ UNCHANGED path
       [] fd[s] = "path" -> path' \in Overwritten(path, data) /\ UNCHANGED tmp
       [] OTHER          -> UNCHANGED <<path, tmp>>
  /\ fd' = [fd EXCEPT ![s] = "closed"]

\* The write fails part way (a full disk): Save returns without a rename.
WriteFails(s) ==
  /\ CASE fd[s] = "tmp"  -> tmp' = Torn /\ UNCHANGED path
       [] fd[s] = "path" -> path' = Torn /\ UNCHANGED tmp
       [] OTHER          -> UNCHANGED <<path, tmp>>
  /\ fd' = [fd EXCEPT ![s] = "closed"]

\* Where an open file is once path.tmp has been renamed to path.
Moved(place) ==
  CASE place = "tmp"  -> "path"
    [] place = "path" -> "unlinked"
    [] OTHER          -> place

\* os.Rename, which fails when another Save already renamed path.tmp.
Rename ==
  IF tmp = NoFile
  THEN UNCHANGED fileVars
  ELSE /\ path' = tmp
       /\ tmp' = NoFile
       /\ fd' = [s \in Handlers |-> Moved(fd[s])]

\* The process dies: its descriptors close, the files stay.
CloseAll ==
  /\ fd' = [s \in Handlers |-> "closed"]
  /\ UNCHANGED <<path, tmp>>
=============================================================================
