-------------------------- MODULE DirectoryClient --------------------------
(***************************************************************************)
(* A node's client of the directory (internal/coordinator/client.go and    *)
(* bootstrap.go), used by several goroutines at once: it fails over across *)
(* the coordinator's addresses, verifies each signed directory against the *)
(* highest serial it has accepted, keeps the last one in a file for when   *)
(* nobody answers, and as a last resort replaces its addresses by a signed *)
(* list from elsewhere.  The coordinator is the serial it signs next and   *)
(* which of its addresses can be reached.                                  *)
(*                                                                         *)
(* All objects here carry a good signature.  Time is left out: a directory *)
(* in the cache may have expired, a live one has not.  Every access to the *)
(* shared fields is under a lock, but each call takes the locks several    *)
(* times, once per step below:                                             *)
(*   try* -> answer -> verify -> raise -> save -> write -> rename -> done  *)
(*   try* -> file -> verifyFile -> raiseFile -> done                       *)
(*                \-> heal -> verifyList -> raiseList -> replace -> try*   *)
(***************************************************************************)
EXTENDS Naturals, Sequences, FiniteSets

CONSTANTS Callers,     \* goroutines that can call DirectoryFor at once
          Endpoints,   \* addresses
          Configured,  \* the addresses given on the command line
          Lists,       \* address lists an operator may publish
          None,
          NoFile, Empty, Torn,  \* as in StateFile
          DiskMayFail, \* whether a write of the cache file may fail
          MaxSerial,   \* bound: directories signed in one life of the server
          MaxLists,    \* bound: lists published
          MaxRestarts  \* bound: restarts of the server, and of the client

Directories == [serial : 1..MaxSerial, made : 1..(MaxSerial * (MaxRestarts + 1))]

ASSUME ClientAssumption ==
  /\ Configured \in Seq(Endpoints) /\ Configured # <<>>
  /\ Lists \subseteq Seq(Endpoints) \ {<<>>}
  /\ DiskMayFail \in BOOLEAN
  /\ {MaxSerial, MaxLists, MaxRestarts} \subseteq Nat
  /\ {NoFile, Empty, Torn} \cap Directories = {}

VARIABLES reachable,  \* addresses that answer
          serial,     \* Server.dirSerial
          signed,     \* history: directories signed in all lives of the server
          published,  \* the lists published, in the order of their serials
          restarts,   \* restarts of server and client so far
          floor,      \* Client.dirFloor
          cache,      \* what is in the cache file
          tmp,        \* what is in the temporary file next to it
          fd,         \* caller -> where the file it has open is now
          endpoints,  \* Client.endpoints
          current,    \* Client.current, counted from zero
          listFloor,  \* Client.bootstrapFloor
          pc,         \* caller -> its next step
          call        \* caller -> its local variables

serverVars == <<reachable, serial, signed, published, restarts>>
cacheVars == <<cache, tmp, fd>>
clientVars == <<floor, cacheVars, endpoints, current, listFloor>>
vars == <<serverVars, clientVars, pc, call>>

\* saveDirectoryCache writes the way persist.Save does.
CacheFile == INSTANCE StateFile WITH
  Handlers <- Callers, Peers <- {}, Groups <- {}, path <- cache

NoCall ==
  [start |-> 0, eps |-> <<>>, tries |-> 0, last |-> FALSE, got |-> None,
   known |-> 0, before |-> 0, list |-> 0]

Init ==
  /\ reachable = Endpoints
  /\ serial = 0
  /\ signed = 0
  /\ published = <<>>
  /\ restarts = 0
  /\ floor = 0
  /\ CacheFile!FileInit
  /\ endpoints = Configured
  /\ current = 0
  /\ listFloor = 0
  /\ pc = [h \in Callers |-> "idle"]
  /\ call = [h \in Callers |-> NoCall]

-----------------------------------------------------------------------------
(* The world.                                                              *)

\* Addresses are blocked and unblocked.
Reach(eps) ==
  /\ eps # reachable
  /\ reachable' = eps
  /\ UNCHANGED <<serial, signed, published, restarts, clientVars, pc, call>>

Publish(list) ==
  /\ Len(published) < MaxLists
  /\ published' = Append(published, list)
  /\ UNCHANGED <<reachable, serial, signed, restarts, clientVars, pc, call>>

\* The serial is kept in memory only.
ServerRestart ==
  /\ restarts < MaxRestarts
  /\ restarts' = restarts + 1
  /\ serial' = 0
  /\ UNCHANGED <<reachable, signed, published, clientVars, pc, call>>

\* The cache file outlives the client; the floors and learnt addresses do not.
ClientRestart ==
  /\ restarts < MaxRestarts
  /\ restarts' = restarts + 1
  /\ floor' = 0
  /\ endpoints' = Configured
  /\ current' = 0
  /\ listFloor' = 0
  /\ pc' = [h \in Callers |-> "idle"]
  /\ call' = [h \in Callers |-> NoCall]
  /\ CacheFile!CloseAll
  /\ UNCHANGED <<reachable, serial, signed, published>>

-----------------------------------------------------------------------------
(* DirectoryFor.                                                           *)

Goto(h, label) == pc' = [pc EXCEPT ![h] = label]
Move(h, from, to) == pc[h] = from /\ Goto(h, to)

\* The call returns, a directory or an error.
Return(h) ==
  /\ Goto(h, "idle")
  /\ call' = [call EXCEPT ![h] = NoCall]
  /\ UNCHANGED serverVars

\* attempt starts from a copy of the addresses, at the last one that answered.
Attempt(h) ==
  call' = [call EXCEPT ![h] = [@ EXCEPT !.start = current, !.eps = endpoints,
                                        !.tries = 0, !.got = None]]

Begin(h) ==
  /\ Move(h, "idle", "try")
  /\ call' = [call EXCEPT ![h] = [NoCall EXCEPT !.start = current,
                                                !.eps = endpoints,
                                                !.before = floor]]
  /\ UNCHANGED <<serverVars, clientVars>>

Index(h) == (call[h].start + call[h].tries) % Len(call[h].eps)
Address(h) == call[h].eps[Index(h) + 1]

TryFails(h) ==
  /\ pc[h] = "try"
  /\ call[h].tries < Len(call[h].eps)
  /\ Address(h) \notin reachable
  /\ call' = [call EXCEPT ![h].tries = @ + 1]
  /\ UNCHANGED <<serverVars, clientVars, pc>>

\* The coordinator signs the directory as it is now.
TryAnswers(h) ==
  /\ Move(h, "try", "answer")
  /\ call[h].tries < Len(call[h].eps)
  /\ Address(h) \in reachable
  /\ serial < MaxSerial
  /\ serial' = serial + 1
  /\ signed' = signed + 1
  /\ call' = [call EXCEPT ![h].got = [serial |-> serial + 1, made |-> signed + 1]]
  /\ UNCHANGED <<reachable, published, restarts, clientVars>>

\* Or it answers with an HTTP error, which sends the caller to the cache.
TryErrs(h) ==
  /\ Move(h, "try", "file")
  /\ call[h].tries < Len(call[h].eps)
  /\ Address(h) \in reachable
  /\ current' = Index(h)
  /\ call' = [call EXCEPT ![h].last = TRUE]
  /\ UNCHANGED <<serverVars, floor, cacheVars, endpoints, listFloor>>

\* Nobody answered.  The round after healing is the last one.
Unreachable(h) ==
  /\ pc[h] = "try"
  /\ call[h].tries = Len(call[h].eps)
  /\ IF call[h].last
     THEN Return(h)
     ELSE /\ Goto(h, "file")
          /\ UNCHANGED <<serverVars, call>>
  /\ UNCHANGED clientVars

\* Mutant: the index of the address is not wrapped round.
AnsweredUnwrapped(h) ==
  /\ Move(h, "answer", "verify")
  /\ current' = call[h].start + call[h].tries
  /\ UNCHANGED <<serverVars, floor, cacheVars, endpoints, listFloor, call>>

Answered(h) ==
  /\ Move(h, "answer", "verify")
  /\ current' = Index(h)
  /\ UNCHANGED <<serverVars, floor, cacheVars, endpoints, listFloor, call>>

\* The cached directory, if it can be read and parsed.
ReadFile(h) ==
  /\ pc[h] = "file"
  /\ IF CacheFile!IsSnapshot(cache)
     THEN /\ Goto(h, "verifyFile")
          /\ call' = [call EXCEPT ![h].got = cache]
          /\ UNCHANGED serverVars
     ELSE IF call[h].last
          THEN Return(h)
          ELSE Goto(h, "heal") /\ UNCHANGED <<serverVars, call>>
  /\ UNCHANGED clientVars

\* Mutant: the cached directory is not held against the floor.
FileTrusted(h) ==
  /\ Move(h, "verifyFile", "raiseFile")
  /\ UNCHANGED <<serverVars, clientVars, call>>

\* verifyDirectory: the check reads the floor, and raises it later.
Verified(h) ==
  /\ Move(h, "verify", "raise")
  /\ call[h].got.serial >= floor
  /\ UNCHANGED <<serverVars, clientVars, call>>

\* An error: the cache does not mask it.
Refused(h) ==
  /\ Move(h, "verify", "refused")
  /\ call[h].got.serial < floor
  /\ UNCHANGED <<serverVars, clientVars, call>>

RefusedReturns(h) ==
  /\ pc[h] = "refused"
  /\ Return(h)
  /\ UNCHANGED clientVars

FileVerified(h) ==
  /\ Move(h, "verifyFile", "raiseFile")
  /\ call[h].got.serial >= floor
  /\ UNCHANGED <<serverVars, clientVars, call>>

\* Below the floor, or expired.
FileRefused(h) ==
  /\ pc[h] = "verifyFile"
  /\ IF call[h].last
     THEN Return(h)
     ELSE Goto(h, "heal") /\ UNCHANGED <<serverVars, call>>
  /\ UNCHANGED clientVars

\* Mutant: the floor is set to the serial just checked.
RaisedBlindly(old, new) == new

Raised(old, new) == IF new > old THEN new ELSE old

Raise(h) ==
  /\ Move(h, "raise", "save")
  /\ floor' = Raised(floor, call[h].got.serial)
  /\ call' = [call EXCEPT ![h].known = call[h].got.serial]
  /\ UNCHANGED <<serverVars, cacheVars, endpoints, current, listFloor>>

\* saveDirectoryCache, step by step; an error is ignored.
SaveStep(h, from, to) ==
  /\ Move(h, from, to)
  /\ UNCHANGED <<serverVars, floor, endpoints, current, listFloor, call>>

Save(h) == SaveStep(h, "save", "write") /\ CacheFile!OpenTmp(h)

Write(h) ==
  SaveStep(h, "write", "rename") /\ CacheFile!WriteAndClose(h, call[h].got)

WriteFails(h) ==
  /\ DiskMayFail
  /\ SaveStep(h, "write", "done")
  /\ CacheFile!WriteFails(h)

\* Mutant: a directory that is there already is not replaced.
ReplaceOnce(h) ==
  /\ SaveStep(h, "rename", "done")
  /\ IF cache = NoFile THEN CacheFile!Rename ELSE UNCHANGED cacheVars

ReplaceFile(h) == SaveStep(h, "rename", "done") /\ CacheFile!Rename

RaiseFile(h) ==
  /\ Move(h, "raiseFile", "done")
  /\ floor' = Raised(floor, call[h].got.serial)
  /\ call' = [call EXCEPT ![h].known = call[h].got.serial]
  /\ UNCHANGED <<serverVars, cacheVars, endpoints, current, listFloor>>

Done(h) ==
  /\ pc[h] = "done"
  /\ Return(h)
  /\ UNCHANGED clientVars

-----------------------------------------------------------------------------
(* RefreshFromBootstrap and ApplyBootstrap.                                *)

\* The list's channel cannot be reached, or has nothing.
FetchFails(h) ==
  /\ pc[h] = "heal"
  /\ Return(h)
  /\ UNCHANGED clientVars

\* A mirror may serve any of the lists published so far.
Fetch(h) ==
  /\ Move(h, "heal", "verifyList")
  /\ \E n \in 1..Len(published) : call' = [call EXCEPT ![h].list = n]
  /\ UNCHANGED <<serverVars, clientVars>>

ListVerified(h) ==
  /\ Move(h, "verifyList", "raiseList")
  /\ call[h].list >= listFloor
  /\ UNCHANGED <<serverVars, clientVars, call>>

ListRefused(h) ==
  /\ pc[h] = "verifyList"
  /\ call[h].list < listFloor
  /\ Return(h)
  /\ UNCHANGED clientVars

RaiseList(h) ==
  /\ Move(h, "raiseList", "replace")
  /\ listFloor' = Raised(listFloor, call[h].list)
  /\ UNCHANGED <<serverVars, floor, cacheVars, endpoints, current, call>>

\* Mutant: the round after healing may heal again.
ReplaceAndForget(h) ==
  /\ Move(h, "replace", "again")
  /\ endpoints' = published[call[h].list]
  /\ current' = 0
  /\ UNCHANGED <<serverVars, floor, cacheVars, listFloor, call>>

Replace(h) ==
  /\ Move(h, "replace", "again")
  /\ endpoints' = published[call[h].list]
  /\ current' = 0
  /\ call' = [call EXCEPT ![h].last = TRUE]
  /\ UNCHANGED <<serverVars, floor, cacheVars, listFloor>>

Again(h) ==
  /\ Move(h, "again", "try")
  /\ Attempt(h)
  /\ UNCHANGED <<serverVars, clientVars>>

CallerStep(h) ==
  \/ TryFails(h) \/ TryAnswers(h) \/ TryErrs(h) \/ Unreachable(h)
  \/ Answered(h) \/ Verified(h) \/ Refused(h) \/ RefusedReturns(h)
  \/ Raise(h) \/ Done(h)
  \/ Save(h) \/ Write(h) \/ WriteFails(h) \/ ReplaceFile(h)
  \/ ReadFile(h) \/ FileVerified(h) \/ FileRefused(h) \/ RaiseFile(h)
  \/ FetchFails(h) \/ Fetch(h) \/ ListVerified(h) \/ ListRefused(h)
  \/ RaiseList(h) \/ Replace(h) \/ Again(h)

Next ==
  \/ \E eps \in SUBSET Endpoints : Reach(eps)
  \/ \E list \in Lists : Publish(list)
  \/ ServerRestart \/ ClientRestart
  \/ \E h \in Callers : Begin(h) \/ CallerStep(h)

Spec == Init /\ [][Next]_vars

FairSpec == Spec /\ \A h \in Callers : WF_vars(CallerStep(h))

-----------------------------------------------------------------------------
(* Properties                                                              *)

Labels == {"idle", "try", "answer", "verify", "raise", "save", "write",
           "rename", "done", "refused", "file", "verifyFile", "raiseFile", "heal",
           "verifyList", "raiseList", "replace", "again"}

\* Every variable has its type; in particular no list of addresses is empty
\* and the remembered index is one of an address in some list.
TypeOK ==
  /\ reachable \subseteq Endpoints
  /\ serial \in 0..MaxSerial /\ signed \in 0..(MaxSerial * (MaxRestarts + 1))
  /\ published \in Seq(Lists) /\ Len(published) <= MaxLists
  /\ restarts \in 0..MaxRestarts
  /\ floor \in 0..MaxSerial /\ listFloor \in 0..MaxLists
  /\ {cache, tmp} \subseteq Directories \cup {NoFile, Empty, Torn}
  /\ fd \in [Callers -> {"closed", "tmp", "path", "unlinked"}]
  /\ endpoints \in Lists \cup {Configured}
  /\ current \in Nat /\ \E list \in Lists \cup {Configured} : current < Len(list)
  /\ pc \in [Callers -> Labels]
  /\ \A h \in Callers : call[h].got \in Directories \cup {None}

\* A call never returns a directory older than one that some call had accepted
\* before it began, be it live or from the file, although the floor is read
\* and raised in two steps and files are written in any order.
NoRollback ==
  \A h \in Callers :
    pc[h] \in {"save", "write", "rename", "done"} => call[h].known >= call[h].before

\* In one life of the client no caller lowers a floor another one raised.
FloorsRise ==
  [][\/ ClientRestart
     \/ floor' >= floor /\ listFloor' >= listFloor]_vars

AtRest == \A h \in Callers : pc[h] = "idle"

\* "if set (and pinned), the last verified directory is cached here": between
\* calls the file holds the newest directory accepted, so that it is of use
\* when nobody answers.
FileIsLast ==
  AtRest /\ floor > 0 => CacheFile!IsSnapshot(cache) /\ cache.serial >= floor

\* "a node rejects a rolled-back list": between calls the addresses are those
\* of the newest list accepted.
AddressesAreLast ==
  AtRest /\ listFloor > 0 => endpoints = published[listFloor]

\* What a call leaves behind, on disk and in memory, is the newest there was,
\* whatever was fetched, failed or healed on the way.
NewestKept == FileIsLast /\ AddressesAreLast

\* Every call returns: it tries each address at most twice and heals once.
CallsReturn == \A h \in Callers : pc[h] # "idle" ~> pc[h] = "idle"
=============================================================================
