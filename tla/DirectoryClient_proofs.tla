----------------------- MODULE DirectoryClient_proofs -----------------------
(***************************************************************************)
(* Proofs about the client of the directory.  For any number of goroutines *)
(* that call it, of addresses and of lists, whether or not writes fail: no *)
(* call returns a directory older than one accepted before it began, and   *)
(* no caller lowers a floor.  For one goroutine whose writes do not fail:  *)
(* the file and the addresses are the newest accepted.                     *)
(***************************************************************************)
EXTENDS DirectoryClient, TLAPS

Calls ==
  [start : Nat, eps : Seq(Endpoints), tries : Nat, last : BOOLEAN,
   got : Directories \cup {None}, known : Nat, before : Nat, list : Nat]

\* What a caller at a step has in its local variables c, when the client's
\* floor is at least f and n lists have been published.
Local(step, c, f, n) ==
  /\ step \in {"try", "answer"} => c.eps \in Lists \cup {Configured}
  /\ step \in {"answer", "verify", "raise", "save", "write", "rename",
               "verifyFile", "raiseFile"} => c.got \in Directories
  /\ step \in {"verifyList", "raiseList", "replace"} => c.list \in 1..n
  /\ c.before <= f
  /\ step \in {"raise", "raiseFile"} => c.got.serial >= c.before
  /\ step \in {"save", "write", "rename", "done"} => c.known >= c.before

Callings ==
  /\ pc \in [Callers -> Labels] /\ call \in [Callers -> Calls]
  /\ \A h \in Callers : Local(pc[h], call[h], floor, Len(published))

Globals ==
  /\ reachable \subseteq Endpoints
  /\ serial \in 0..MaxSerial /\ signed \in Nat
  /\ signed <= MaxSerial * restarts + serial
  /\ published \in Seq(Lists) /\ Len(published) <= MaxLists
  /\ restarts \in 0..MaxRestarts
  /\ floor \in 0..MaxSerial /\ listFloor \in 0..MaxLists
  /\ endpoints \in Lists \cup {Configured}
  /\ current \in Nat /\ \E list \in Lists \cup {Configured} : current < Len(list)

Files ==
  /\ {cache, tmp} \subseteq Directories \cup {NoFile, Empty, Torn}
  /\ fd \in [Callers -> {"closed", "tmp", "path", "unlinked"}]

\* The inductive invariant: types, what each step finds in the local variables,
\* and how many directories can have been signed.
IInv == Globals /\ Files /\ Callings

-----------------------------------------------------------------------------
LEMMA Bounds ==
  /\ MaxSerial \in Nat /\ MaxLists \in Nat /\ MaxRestarts \in Nat
  /\ Configured \in Seq(Endpoints) /\ Lists \subseteq Seq(Endpoints)
  /\ \A list \in Lists \cup {Configured} : list \in Seq(Endpoints) /\ Len(list) \in Nat \ {0}
BY ClientAssumption

\* The bound on what is signed in all lives of the server.
LEMMA SignedBound ==
  ASSUME NEW a \in Nat, a <= MaxRestarts, NEW b \in 0..MaxSerial
  PROVE  /\ MaxSerial * a + b \in 0..(MaxSerial * (MaxRestarts + 1))
         /\ MaxSerial * a \in Nat /\ MaxSerial * (a + 1) = MaxSerial * a + MaxSerial
<1>1. MaxSerial * a \in Nat /\ MaxSerial * MaxRestarts \in Nat
  BY Bounds
<1>2. MaxSerial * a <= MaxSerial * MaxRestarts
  BY Bounds
<1>3. /\ MaxSerial * (MaxRestarts + 1) = MaxSerial * MaxRestarts + MaxSerial
      /\ MaxSerial * (a + 1) = MaxSerial * a + MaxSerial
  BY Bounds
<1> QED
  BY <1>1, <1>2, <1>3, Bounds

\* A higher floor and more lists leave what a caller has as good as it was.
LEMMA LocalStays ==
  ASSUME NEW step, NEW c \in Calls, NEW f \in Nat, NEW g \in Nat, f <= g,
         NEW n \in Nat, NEW m \in Nat, n <= m, Local(step, c, f, n)
  PROVE  Local(step, c, g, m)
BY DEF Local, Calls

LEMMA RaisedIs ==
  ASSUME NEW old \in Nat, NEW new \in Nat
  PROVE  Raised(old, new) \in {old, new} /\ Raised(old, new) >= old /\ Raised(old, new) >= new
BY DEF Raised

LEMMA NoCallIs == NoCall \in Calls /\ NoCall.before = 0 /\ Local("idle", NoCall, 0, 0)
BY DEF NoCall, Calls, Local

\* The file operations.
LEMMA WriteStays ==
  ASSUME Files, NEW h \in Callers, NEW d \in Directories, CacheFile!WriteAndClose(h, d)
  PROVE  Files'
BY DEF Files, CacheFile!WriteAndClose, CacheFile!Overwritten

LEMMA FilesStay ==
  ASSUME Files, NEW h \in Callers,
         \/ CacheFile!OpenTmp(h) \/ CacheFile!WriteFails(h) \/ CacheFile!Rename
         \/ CacheFile!CloseAll \/ UNCHANGED cacheVars
  PROVE  Files'
<1> DEFINE Places == {"closed", "tmp", "path", "unlinked"}
<1>1. CASE CacheFile!OpenTmp(h)
  BY <1>1 DEF Files, CacheFile!OpenTmp
<1>3. CASE CacheFile!WriteFails(h)
  BY <1>3 DEF Files, CacheFile!WriteFails
<1>4. CASE CacheFile!Rename
  <2>1. \A s \in Callers : CacheFile!Moved(fd[s]) \in Places
    BY DEF Files, CacheFile!Moved
  <2> QED
    BY <1>4, <2>1 DEF Files, CacheFile!Rename, CacheFile!fileVars
<1>5. CASE CacheFile!CloseAll
  BY <1>5 DEF Files, CacheFile!CloseAll
<1>6. CASE UNCHANGED cacheVars
  BY <1>6 DEF Files, cacheVars
<1> QED
  BY <1>1, <1>3, <1>4, <1>5, <1>6

-----------------------------------------------------------------------------
\* A caller's step changes its own place and local variables only, and they
\* fit the step it has come to.
Fits(h) ==
  /\ pc' \in [Callers -> Labels] /\ call' \in [Callers -> Calls]
  /\ \A u \in Callers \ {h} : pc'[u] = pc[u] /\ call'[u] = call[u]
  /\ Local(pc'[h], call'[h], floor', Len(published'))

LEMMA ReturnFits ==
  ASSUME IInv, NEW h \in Callers, Return(h), floor' \in Nat
  PROVE  Fits(h)
<1>1. pc' = [pc EXCEPT ![h] = "idle"] /\ call' = [call EXCEPT ![h] = NoCall]
      /\ published' = published
  BY DEF Return, Goto, serverVars
<1>2. Local("idle", NoCall, floor', Len(published))
  BY NoCallIs, LocalStays DEF IInv, Globals
<1> QED
  BY <1>1, <1>2, NoCallIs DEF Fits, IInv, Callings, Labels

LEMMA MoveFits ==
  ASSUME IInv, NEW h \in Callers, NEW step \in Labels, NEW c \in Calls,
         pc' = [pc EXCEPT ![h] = step], call' = [call EXCEPT ![h] = c],
         published' = published, Local(step, c, floor', Len(published))
  PROVE  Fits(h)
BY DEF Fits, IInv, Callings

\* A step that leaves the local variables alone.
LEMMA JumpFits ==
  ASSUME IInv, NEW h \in Callers, NEW step \in Labels,
         pc' = [pc EXCEPT ![h] = step], call' = call, published' = published,
         Local(step, call[h], floor', Len(published))
  PROVE  Fits(h)
BY DEF Fits, IInv, Callings

\* What a caller finds at the beginning of its step.
LEMMA Found ==
  ASSUME IInv, NEW h \in Callers
  PROVE  /\ pc[h] \in Labels /\ call[h] \in Calls
         /\ Local(pc[h], call[h], floor, Len(published))
         /\ floor \in Nat /\ listFloor \in Nat /\ Len(published) \in Nat
         /\ call[h].got \in Directories => call[h].got.serial \in 1..MaxSerial
<1>1. \A d \in Directories : d.serial \in 1..MaxSerial
  BY DEF Directories
<1> QED
  BY <1>1, Bounds DEF IInv, Callings, Globals

LEMMA IndexIs ==
  ASSUME IInv, NEW h \in Callers, pc[h] \in {"try", "answer"}
  PROVE  Index(h) \in Nat /\ Index(h) < Len(call[h].eps)
<1>1. call[h].start \in Nat /\ call[h].tries \in Nat /\ Len(call[h].eps) \in Nat \ {0}
  BY Found, Bounds DEF Local, Calls
<1> DEFINE a == call[h].start + call[h].tries  b == Len(call[h].eps)
<1>2. a \in Nat /\ b \in Nat /\ b > 0
  BY <1>1
<1> HIDE DEF a, b
<1>3. a % b \in 0..(b - 1)
  BY <1>2
<1> QED
  BY <1>2, <1>3 DEF a, b, Index

\* The search for an address that answers.
LEMMA TryingFits ==
  ASSUME IInv, NEW h \in Callers,
         \/ Begin(h) \/ TryFails(h) \/ TryAnswers(h) \/ TryErrs(h) \/ Unreachable(h)
         \/ Answered(h) \/ Again(h)
  PROVE  Fits(h) /\ floor' = floor
<1> USE DEF Move, Goto, clientVars, serverVars, Labels
<1>1. endpoints \in Seq(Endpoints) /\ current \in Nat /\ floor \in Nat
  BY Bounds DEF IInv, Globals
<1>2. CASE Begin(h)
  <2> DEFINE c == [NoCall EXCEPT !.start = current, !.eps = endpoints, !.before = floor]
  <2>0. c \in Calls
    BY <1>1, NoCallIs DEF Calls
  <2>1. c \in Calls /\ Local("try", c, floor, Len(published))
    <3>1. c.eps = endpoints /\ c.before = floor
      BY NoCallIs DEF Calls
    <3> HIDE DEF c
    <3> QED
      BY <1>1, <2>0, <3>1 DEF Local, IInv, Globals
  <2> HIDE DEF c
  <2> QED
    BY <1>2, <2>1, MoveFits DEF Begin, c
<1>3. CASE TryFails(h)
  <2> DEFINE c == [call[h] EXCEPT !.tries = @ + 1]
  <2> DEFINE old == call[h]
  <2>4. old \in Calls /\ old.tries + 1 \in Nat
    BY Found DEF Calls
  <2>0. c.eps = call[h].eps /\ c.before = call[h].before /\ c \in Calls
    <3> HIDE DEF old
    <3> SUFFICES [old EXCEPT !.tries = @ + 1] \in Calls
                 /\ [old EXCEPT !.tries = @ + 1].eps = old.eps
                 /\ [old EXCEPT !.tries = @ + 1].before = old.before
      BY DEF old
    <3> QED
      BY <2>4 DEF Calls
  <2>1. c \in Calls /\ Local("try", c, floor, Len(published))
    <3> HIDE DEF c
    <3> QED
      BY <1>3, <2>0, Found DEF Local, TryFails
  <2>2. pc' = [pc EXCEPT ![h] = "try"]
    BY <1>3 DEF TryFails, IInv, Callings
  <2>3. call' = [call EXCEPT ![h] = c]
    BY <1>3 DEF TryFails, IInv, Callings
  <2> HIDE DEF c
  <2> QED
    BY <1>3, <2>1, <2>2, <2>3, MoveFits DEF TryFails
<1>4. CASE TryAnswers(h)
  <2> DEFINE d == [serial |-> serial + 1, made |-> signed + 1]
             c == [call[h] EXCEPT !.got = d]
  <2>1. d \in Directories
    <3>0. serial \in 0..MaxSerial
      BY DEF IInv, Globals
    <3>1. serial + 1 \in 1..MaxSerial
      BY <1>4, <3>0, Bounds DEF TryAnswers
    <3>2. /\ restarts \in Nat /\ restarts <= MaxRestarts /\ signed \in Nat
          /\ signed <= MaxSerial * restarts + serial
      BY Bounds DEF IInv, Globals
    <3>3. /\ MaxSerial * restarts + (serial + 1) \in 0..(MaxSerial * (MaxRestarts + 1))
          /\ MaxSerial * restarts \in Nat
      BY <3>1, <3>2, SignedBound
    <3>4. serial \in Nat
      BY Bounds DEF IInv, Globals
    <3>5. signed + 1 <= MaxSerial * restarts + (serial + 1)
      BY <3>2, <3>3, <3>4
    <3> HIDE DEF d
    <3>6. signed + 1 \in 1..(MaxSerial * (MaxRestarts + 1))
      BY <3>2, <3>3, <3>5, Bounds
    <3> QED
      BY <3>1, <3>6 DEF Directories, d
  <2> HIDE DEF d
  <2>2. c \in Calls /\ Local("answer", c, floor, Len(published))
    BY <1>4, <2>1, Found DEF Calls, Local, TryAnswers
  <2>3. call' = [call EXCEPT ![h] = c]
    BY <1>4 DEF TryAnswers, IInv, Callings, d
  <2> HIDE DEF c
  <2> QED
    BY <1>4, <2>2, <2>3, MoveFits DEF TryAnswers
<1>5. CASE TryErrs(h)
  <2> DEFINE c == [call[h] EXCEPT !.last = TRUE]
  <2>1. c \in Calls /\ Local("file", c, floor, Len(published))
    BY <1>5, Found DEF Calls, Local
  <2>2. call' = [call EXCEPT ![h] = c]
    BY <1>5 DEF TryErrs, IInv, Callings
  <2> HIDE DEF c
  <2> QED
    BY <1>5, <2>1, <2>2, MoveFits DEF TryErrs
<1>6. CASE Unreachable(h)
  <2>1. CASE call[h].last
    BY <1>1, <1>6, <2>1, ReturnFits DEF Unreachable
  <2>2. CASE ~call[h].last
    <3>1. Local("file", call[h], floor, Len(published))
      BY Found DEF Local
    <3> QED
      BY <1>6, <2>2, <3>1, JumpFits DEF Unreachable
  <2> QED
    BY <1>6, <2>1, <2>2 DEF Unreachable
<1>7. CASE Answered(h)
  <2>1. Local("verify", call[h], floor, Len(published))
    BY <1>7, Found DEF Local, Answered
  <2> QED
    BY <1>7, <2>1, JumpFits DEF Answered
<1>8. CASE Again(h)
  <2> DEFINE c == [call[h] EXCEPT !.start = current, !.eps = endpoints,
                                  !.tries = 0, !.got = None]
  <2>1. c \in Calls /\ Local("try", c, floor, Len(published))
    BY <1>1, Found DEF Calls, Local, IInv, Globals
  <2>2. call' = [call EXCEPT ![h] = c]
    BY <1>8 DEF Again, Attempt, IInv, Callings
  <2> HIDE DEF c
  <2> QED
    BY <1>8, <2>1, <2>2, MoveFits DEF Again
<1> QED
  BY <1>2, <1>3, <1>4, <1>5, <1>6, <1>7, <1>8

\* A directory is accepted, from the wire or from the file, and kept.
LEMMA AcceptingFits ==
  ASSUME IInv, NEW h \in Callers,
         \/ Verified(h) \/ Refused(h) \/ RefusedReturns(h) \/ Raise(h) \/ Done(h)
         \/ Save(h) \/ Write(h) \/ WriteFails(h) \/ ReplaceFile(h)
         \/ ReadFile(h) \/ FileVerified(h) \/ FileRefused(h) \/ RaiseFile(h)
  PROVE  Fits(h) /\ floor' \in 0..MaxSerial /\ floor' >= floor
<1> USE DEF Move, Goto, clientVars, serverVars, Labels
<1>1. floor \in 0..MaxSerial /\ floor >= floor
  BY Bounds DEF IInv, Globals
<1> DEFINE n == Len(published)
<1>2. CASE Verified(h)
  <2>1. call[h].before <= floor /\ floor <= call[h].got.serial /\ call[h].before \in Nat
    BY <1>2, Found DEF Verified, Local, Calls
  <2>2. Local("raise", call[h], floor, n)
    BY <1>1, <1>2, <2>1, Found DEF Local, Verified
  <2> QED
    BY <1>1, <1>2, <2>2, JumpFits DEF Verified
<1>3. CASE Refused(h)
  <2>1. Local("refused", call[h], floor, n)
    BY <1>3, Found DEF Local, Refused
  <2> QED
    BY <1>1, <1>3, <2>1, JumpFits DEF Refused
<1>4. CASE RefusedReturns(h) \/ Done(h)
  BY <1>1, <1>4, ReturnFits DEF RefusedReturns, Done
<1>5. ASSUME NEW step \in {"save", "done"}, NEW from \in {"raise", "raiseFile"},
             Move(h, from, step), floor' = Raised(floor, call[h].got.serial),
             call' = [call EXCEPT ![h].known = call[h].got.serial], published' = published
      PROVE  Fits(h) /\ floor' \in 0..MaxSerial /\ floor' >= floor
  <2> DEFINE old == call[h]  s == old.got.serial  c == [old EXCEPT !.known = s]
  <2>1. /\ old \in Calls /\ old.got \in Directories /\ s \in 1..MaxSerial
        /\ old.before <= floor /\ s >= old.before
    BY <1>5, Found DEF Local
  <2>2. floor' \in {floor, s} /\ floor' >= floor
    BY <1>1, <1>5, <2>1, RaisedIs
  <2> HIDE DEF s
  <2>3. c \in Calls /\ c.before = old.before /\ c.got = old.got /\ c.known = s
    <3> HIDE DEF old
    <3> QED
      BY <2>1 DEF Calls
  <2>4. call' = [call EXCEPT ![h] = c]
    BY <1>5 DEF IInv, Callings, s
  <2>5. old.before \in Nat
    BY <2>1 DEF Calls
  <2> HIDE DEF c, old
  <2>6. Local(step, c, floor', n)
    BY <1>1, <2>1, <2>2, <2>3, <2>5 DEF Local
  <2>7. Fits(h)
    <3>1. step \in Labels /\ pc' = [pc EXCEPT ![h] = step] /\ published' = published
      BY <1>5
    <3> QED
      BY <2>3, <2>4, <2>6, <3>1, MoveFits
  <2> QED
    BY <1>1, <2>1, <2>2, <2>7
<1>6. CASE Raise(h)
  BY <1>5, <1>6 DEF Raise
<1>7. CASE RaiseFile(h)
  BY <1>5, <1>7 DEF RaiseFile
<1>8. ASSUME NEW from \in {"save", "write", "rename"}, NEW to \in {"write", "rename", "done"},
             SaveStep(h, from, to)
      PROVE  Fits(h) /\ floor' \in 0..MaxSerial /\ floor' >= floor
  <2>1. Local(to, call[h], floor, n)
    BY <1>8, Found DEF Local, SaveStep
  <2> QED
    BY <1>1, <1>8, <2>1, JumpFits DEF SaveStep
<1>9. CASE Save(h) \/ Write(h) \/ WriteFails(h) \/ ReplaceFile(h)
  BY <1>8, <1>9 DEF Save, Write, WriteFails, ReplaceFile
<1>10. CASE ReadFile(h)
  <2>1. CASE CacheFile!IsSnapshot(cache)
    <3> DEFINE old == call[h]  c == [old EXCEPT !.got = cache]
    <3>1. cache \in Directories
      BY <2>1 DEF IInv, Files, CacheFile!IsSnapshot, CacheFile!Marks
    <3>2. old \in Calls /\ old.before <= floor
      BY Found DEF Local
    <3>3. c \in Calls /\ c.before = old.before /\ c.got = cache
      <4> HIDE DEF old
      <4> QED
        BY <3>1, <3>2 DEF Calls
    <3>4. call' = [call EXCEPT ![h] = c]
      BY <1>10, <2>1 DEF ReadFile, IInv, Callings
    <3>5. pc' = [pc EXCEPT ![h] = "verifyFile"] /\ published' = published /\ floor' = floor
      BY <1>10, <2>1 DEF ReadFile
    <3> HIDE DEF c, old
    <3>6. Local("verifyFile", c, floor, n)
      BY <3>1, <3>2, <3>3 DEF Local
    <3> QED
      BY <1>1, <3>3, <3>4, <3>5, <3>6, MoveFits
  <2>2. CASE ~CacheFile!IsSnapshot(cache) /\ call[h].last
    BY <1>1, <1>10, <2>2, ReturnFits DEF ReadFile
  <2>3. CASE ~CacheFile!IsSnapshot(cache) /\ ~call[h].last
    <3>1. Local("heal", call[h], floor, n)
      BY Found DEF Local
    <3> QED
      BY <1>1, <1>10, <2>3, <3>1, JumpFits DEF ReadFile
  <2> QED
    BY <2>1, <2>2, <2>3
<1>11. CASE FileVerified(h)
  <2>1. call[h].before <= floor /\ floor <= call[h].got.serial /\ call[h].before \in Nat
    BY <1>11, Found DEF FileVerified, Local, Calls
  <2>2. Local("raiseFile", call[h], floor, n)
    BY <1>1, <1>11, <2>1, Found DEF Local, FileVerified
  <2> QED
    BY <1>1, <1>11, <2>2, JumpFits DEF FileVerified
<1>12. CASE FileRefused(h)
  <2>1. CASE call[h].last
    BY <1>1, <1>12, <2>1, ReturnFits DEF FileRefused
  <2>2. CASE ~call[h].last
    <3>1. Local("heal", call[h], floor, n)
      BY Found DEF Local
    <3> QED
      BY <1>1, <1>12, <2>2, <3>1, JumpFits DEF FileRefused
  <2> QED
    BY <1>12, <2>1, <2>2
<1> QED
  BY <1>2, <1>3, <1>4, <1>6, <1>7, <1>9, <1>10, <1>11, <1>12

\* Healing from a list.
LEMMA HealingFits ==
  ASSUME IInv, NEW h \in Callers,
         \/ FetchFails(h) \/ Fetch(h) \/ ListVerified(h) \/ ListRefused(h)
         \/ RaiseList(h) \/ Replace(h)
  PROVE  Fits(h) /\ floor' = floor
<1> USE DEF Move, Goto, clientVars, serverVars, Labels
<1> DEFINE n == Len(published)
<1>1. floor \in Nat
  BY Found
<1>2. CASE FetchFails(h) \/ ListRefused(h)
  BY <1>1, <1>2, ReturnFits DEF FetchFails, ListRefused
<1>3. CASE Fetch(h)
  <2>1. PICK i \in 1..n : call' = [call EXCEPT ![h].list = i]
    BY <1>3 DEF Fetch
  <2> DEFINE old == call[h]  c == [old EXCEPT !.list = i]
  <2>2. old \in Calls /\ old.before <= floor
    BY Found DEF Local
  <2>3. c \in Calls /\ c.before = old.before /\ c.list = i
    <3>1. i \in Nat
      BY Found
    <3> HIDE DEF old
    <3> QED
      BY <2>2, <3>1 DEF Calls
  <2>4. call' = [call EXCEPT ![h] = c]
    BY <2>1 DEF IInv, Callings
  <2> HIDE DEF c, old
  <2>5. Local("verifyList", c, floor, n)
    BY <2>2, <2>3 DEF Local
  <2> QED
    BY <1>3, <2>3, <2>4, <2>5, MoveFits DEF Fetch
<1>4. CASE ListVerified(h)
  <2>1. Local("raiseList", call[h], floor, n)
    BY <1>4, Found DEF Local, ListVerified
  <2> QED
    BY <1>4, <2>1, JumpFits DEF ListVerified
<1>5. CASE RaiseList(h)
  <2>1. Local("replace", call[h], floor, n)
    BY <1>5, Found DEF Local, RaiseList
  <2> QED
    BY <1>5, <2>1, JumpFits DEF RaiseList
<1>6. CASE Replace(h)
  <2> DEFINE old == call[h]  c == [old EXCEPT !.last = TRUE]
  <2>1. old \in Calls /\ old.before <= floor
    BY Found DEF Local
  <2>2. c \in Calls /\ c.before = old.before
    <3> HIDE DEF old
    <3> QED
      BY <2>1 DEF Calls
  <2>3. call' = [call EXCEPT ![h] = c]
    BY <1>6 DEF Replace, IInv, Callings
  <2> HIDE DEF c, old
  <2>4. Local("again", c, floor, n)
    BY <2>1, <2>2 DEF Local
  <2> QED
    BY <1>6, <2>2, <2>3, <2>4, MoveFits DEF Replace
<1> QED
  BY <1>2, <1>3, <1>4, <1>5, <1>6

LEMMA CallerFits ==
  ASSUME IInv, NEW h \in Callers, Begin(h) \/ CallerStep(h)
  PROVE  Fits(h) /\ floor' \in 0..MaxSerial /\ floor' >= floor
<1>1. floor \in 0..MaxSerial /\ floor >= floor
  BY Bounds DEF IInv, Globals
<1> QED
  BY <1>1, TryingFits, AcceptingFits, HealingFits DEF CallerStep

LEMMA ListFloorRises ==
  ASSUME IInv, NEW h \in Callers, Begin(h) \/ CallerStep(h)
  PROVE  listFloor' \in 0..MaxLists /\ listFloor' >= listFloor
<1>1. listFloor \in 0..MaxLists /\ listFloor >= listFloor
  BY Bounds DEF IInv, Globals
<1>2. CASE RaiseList(h)
  <2>1. call[h].list \in 1..Len(published)
    BY <1>2, Found DEF RaiseList, Move, Local
  <2>2. Len(published) <= MaxLists /\ Len(published) \in Nat
    BY Bounds DEF IInv, Globals
  <2>3. call[h].list \in 0..MaxLists
    BY <2>1, <2>2, Bounds
  <2> QED
    BY <1>1, <1>2, <2>3, Bounds, RaisedIs DEF RaiseList
<1>3. CASE listFloor' = listFloor
  BY <1>1, <1>3
<1>4. RaiseList(h) \/ listFloor' = listFloor
  BY DEF CallerStep, Begin, TryFails, TryAnswers, TryErrs, Unreachable, Answered, Verified,
         Refused, RefusedReturns, Raise, Done, Save, Write, WriteFails, ReplaceFile, SaveStep,
         ReadFile, FileVerified, FileRefused, RaiseFile, FetchFails, Fetch, ListVerified,
         ListRefused, Replace, Again, clientVars
<1> QED
  BY <1>2, <1>3, <1>4

LEMMA AddressesStay ==
  ASSUME IInv, NEW h \in Callers, Begin(h) \/ CallerStep(h)
  PROVE  /\ endpoints' \in Lists \cup {Configured}
         /\ current' \in Nat /\ \E list \in Lists \cup {Configured} : current' < Len(list)
<1>1. CASE TryErrs(h) \/ Answered(h)
  <2>1. /\ pc[h] \in {"try", "answer"} /\ endpoints' = endpoints /\ current' = Index(h)
    BY <1>1 DEF TryErrs, Answered, Move
  <2>2. call[h].eps \in Lists \cup {Configured}
    BY <2>1, Found DEF Local
  <2> QED
    BY <2>1, <2>2, IndexIs DEF IInv, Globals
<1>2. CASE Replace(h)
  <2>1. call[h].list \in 1..Len(published)
    BY <1>2, Found DEF Replace, Move, Local
  <2>2. published[call[h].list] \in Lists
    BY <2>1 DEF IInv, Globals
  <2>3. Len(published[call[h].list]) > 0
    BY <2>2, Bounds
  <2> QED
    BY <1>2, <2>2, <2>3 DEF Replace
<1>3. CASE UNCHANGED <<endpoints, current>>
  BY <1>3 DEF IInv, Globals
<1>4. TryErrs(h) \/ Answered(h) \/ Replace(h) \/ UNCHANGED <<endpoints, current>>
  BY DEF CallerStep, Begin, TryFails, TryAnswers, Unreachable, Verified,
         Refused, RefusedReturns, Raise, Done, Save, Write, WriteFails, ReplaceFile, SaveStep,
         ReadFile, FileVerified, FileRefused, RaiseFile, FetchFails, Fetch, ListVerified,
         ListRefused, RaiseList, Again, clientVars
<1> QED
  BY <1>1, <1>2, <1>3, <1>4

\* A caller's step changes nothing of the world but the serials.
LEMMA ServerStays ==
  ASSUME IInv, NEW h \in Callers, Begin(h) \/ CallerStep(h)
  PROVE  /\ UNCHANGED <<reachable, published, restarts>>
         /\ \/ UNCHANGED <<serial, signed>>
            \/ serial < MaxSerial /\ serial' = serial + 1 /\ signed' = signed + 1
BY DEF CallerStep, Begin, TryFails, TryAnswers, TryErrs, Unreachable, Answered, Verified,
       Refused, RefusedReturns, Raise, Done, Save, Write, WriteFails, ReplaceFile, SaveStep,
       ReadFile, FileVerified, FileRefused, RaiseFile, FetchFails, Fetch, ListVerified,
       ListRefused, RaiseList, Replace, Again, serverVars, Return

LEMMA CallerFiles ==
  ASSUME IInv, NEW h \in Callers, Begin(h) \/ CallerStep(h)
  PROVE  Files'
<1>1. CASE Write(h)
  <2>1. call[h].got \in Directories
    BY <1>1, Found DEF Write, SaveStep, Move, Local
  <2> QED
    BY <1>1, <2>1, WriteStays DEF Write, IInv
<1>2. \/ Write(h) \/ CacheFile!OpenTmp(h) \/ CacheFile!WriteFails(h) \/ CacheFile!Rename
      \/ UNCHANGED cacheVars
  BY DEF CallerStep, Begin, TryFails, TryAnswers, TryErrs, Unreachable, Answered, Verified,
         Refused, RefusedReturns, Raise, Done, Save, WriteFails, ReplaceFile, SaveStep,
         ReadFile, FileVerified, FileRefused, RaiseFile, FetchFails, Fetch, ListVerified,
         ListRefused, RaiseList, Replace, Again, clientVars
<1> QED
  BY <1>1, <1>2, FilesStay DEF IInv

-----------------------------------------------------------------------------
LEMMA InvInit == ASSUME Init PROVE IInv
<1>1. Configured \in Lists \cup {Configured} /\ 0 < Len(Configured) /\ 0 \in Nat
  BY Bounds
<1>2. \E list \in Lists \cup {Configured} : current < Len(list)
  BY <1>1 DEF Init
<1>3. MaxSerial * 0 = 0 /\ 0 \in 0..MaxSerial /\ 0 \in 0..MaxLists /\ 0 \in 0..MaxRestarts
  BY Bounds
<1>4. <<>> \in Seq(Lists) /\ Len(<<>>) = 0
  OBVIOUS
<1>5. signed <= MaxSerial * restarts + serial
  BY <1>3 DEF Init
<1>6. Globals
  BY <1>2, <1>3, <1>4, <1>5, Bounds DEF Init, Globals
<1>7. Files
  BY DEF Init, Files, CacheFile!FileInit
<1>8. Callings
  BY <1>4, NoCallIs DEF Init, Callings, Labels
<1> QED
  BY <1>6, <1>7, <1>8 DEF IInv

LEMMA InvNext == ASSUME IInv, [Next]_vars PROVE IInv'
<1> USE DEF clientVars, serverVars, IInv
<1>0. /\ serial \in 0..MaxSerial /\ signed \in Nat /\ floor \in Nat /\ Len(published) \in Nat
      /\ signed <= MaxSerial * restarts + serial
      /\ restarts \in Nat /\ restarts <= MaxRestarts
      /\ MaxSerial * restarts \in Nat /\ MaxSerial \in Nat
      /\ MaxSerial * (restarts + 1) = MaxSerial * restarts + MaxSerial
  BY Bounds, SignedBound DEF Globals
<1>1. ASSUME NEW h \in Callers, Begin(h) \/ CallerStep(h) PROVE IInv'
  <2>1. Files'
    BY <1>1, CallerFiles
  <2>2. /\ Fits(h) /\ floor' \in 0..MaxSerial /\ floor' >= floor
        /\ published' = published
    BY <1>1, CallerFits, ServerStays
  <2>3. Callings'
    <3>1. ASSUME NEW u \in Callers PROVE Local(pc'[u], call'[u], floor', Len(published'))
      <4>1. CASE u = h
        BY <2>2, <4>1 DEF Fits
      <4>2. CASE u # h
        <5>1. /\ pc'[u] = pc[u] /\ call'[u] = call[u] /\ call[u] \in Calls /\ floor' \in Nat
              /\ Local(pc[u], call[u], floor, Len(published))
          BY <2>2, <4>2, Found, Bounds DEF Fits
        <5> QED
          BY <1>0, <2>2, <5>1, LocalStays
      <4> QED
        BY <4>1, <4>2
    <3> QED
      BY <2>2, <3>1 DEF Callings, Fits
  <2>4. /\ serial' \in 0..MaxSerial /\ signed' \in Nat
        /\ signed' <= MaxSerial * restarts' + serial'
    BY <1>0, <1>1, ServerStays
  <2>5. Globals'
    BY <1>1, <2>2, <2>4, ServerStays, AddressesStay, ListFloorRises DEF Globals
  <2> QED
    BY <2>1, <2>3, <2>5
<1>2. CASE ServerRestart
  <2>1. /\ restarts' \in 0..MaxRestarts /\ serial' \in 0..MaxSerial
        /\ signed' <= MaxSerial * restarts' + serial'
    BY <1>0, <1>2, Bounds DEF ServerRestart
  <2>2. Globals' /\ Callings'
    BY <1>2, <2>1 DEF ServerRestart, Globals, Callings
  <2> QED
    BY <1>2, <2>2 DEF ServerRestart, Files, cacheVars
<1>3. CASE ClientRestart
  <2>1. /\ restarts' \in 0..MaxRestarts
        /\ signed' <= MaxSerial * restarts' + serial'
    BY <1>0, <1>3, Bounds DEF ClientRestart
  <2>2. /\ endpoints' \in Lists \cup {Configured} /\ current' \in Nat
        /\ \E list \in Lists \cup {Configured} : current' < Len(list)
    BY <1>3, Bounds DEF ClientRestart
  <2>3. Globals'
    BY <1>3, <2>1, <2>2, Bounds DEF ClientRestart, Globals
  <2>4. Local("idle", NoCall, floor', Len(published'))
    BY <1>0, <1>3, NoCallIs, LocalStays DEF ClientRestart
  <2>5. Callings'
    BY <1>3, <2>4, NoCallIs DEF ClientRestart, Callings, Labels
  <2>6. Files'
    BY <1>3 DEF ClientRestart, CacheFile!CloseAll, Files
  <2> QED
    BY <2>3, <2>5, <2>6
<1>4. ASSUME NEW eps \in SUBSET Endpoints, Reach(eps) PROVE IInv'
  BY <1>4 DEF Reach, Globals, Callings, Files, cacheVars
<1>5. ASSUME NEW list \in Lists, Publish(list) PROVE IInv'
  <2>1. published' = Append(published, list) /\ Len(published) < MaxLists
    BY <1>5 DEF Publish
  <2>2. published' \in Seq(Lists) /\ Len(published') = Len(published) + 1
    BY <2>1 DEF Globals
  <2>3. Globals'
    BY <1>0, <1>5, <2>1, <2>2, Bounds DEF Publish, Globals
  <2>4. \A u \in Callers : Local(pc[u], call[u], floor, Len(published'))
    BY <1>0, <2>2, Found, LocalStays
  <2> QED
    BY <1>5, <2>3, <2>4 DEF Publish, Callings, Files, cacheVars
<1>6. CASE UNCHANGED vars
  BY <1>6 DEF vars, Globals, Callings, Files, cacheVars
<1> QED
  BY <1>1, <1>2, <1>3, <1>4, <1>5, <1>6 DEF Next

\* What every step of every caller relies on, in all reachable states.
THEOREM InductiveInvariant == Spec => []IInv
BY InvInit, InvNext, PTL DEF Spec

\* Types, and a remembered address that is one of a list, for any number of
\* callers.
THEOREM TypeCorrect == Spec => []TypeOK
<1>1. ASSUME IInv PROVE TypeOK
  <2>1. /\ signed <= MaxSerial * restarts + serial /\ signed \in Nat
        /\ restarts \in Nat /\ restarts <= MaxRestarts /\ serial \in 0..MaxSerial
    BY <1>1, Bounds DEF IInv, Globals
  <2>2. MaxSerial * restarts + serial \in 0..(MaxSerial * (MaxRestarts + 1))
    BY <2>1, SignedBound
  <2>3. signed \in 0..(MaxSerial * (MaxRestarts + 1))
    BY <2>1, <2>2, Bounds
  <2>4. \A h \in Callers : call[h].got \in Directories \cup {None}
    BY <1>1 DEF IInv, Callings, Calls
  <2> QED
    BY <1>1, <2>3, <2>4 DEF IInv, Globals, Files, Callings, TypeOK
<1> QED
  BY <1>1, InductiveInvariant, PTL

\* No call returns a directory older than one accepted before it began.
THEOREM NoRollbackHolds == Spec => []NoRollback
<1>1. ASSUME IInv PROVE NoRollback
  BY <1>1 DEF IInv, Callings, Local, NoRollback
<1> QED
  BY <1>1, InductiveInvariant, PTL

\* Only a restart of the client lowers a floor.
THEOREM FloorsRiseHolds == Spec => FloorsRise
<1>1. ASSUME IInv, [Next]_vars
      PROVE  [ClientRestart \/ (floor' >= floor /\ listFloor' >= listFloor)]_vars
  <2>1. floor >= floor /\ listFloor >= listFloor
    BY <1>1, Bounds DEF IInv, Globals
  <2>2. ASSUME NEW h \in Callers, Begin(h) \/ CallerStep(h)
        PROVE  floor' >= floor /\ listFloor' >= listFloor
    BY <1>1, <2>2, CallerFits, ListFloorRises
  <2> QED
    BY <1>1, <2>1, <2>2 DEF Next, Reach, Publish, ServerRestart, clientVars
<1> QED
  BY <1>1, InductiveInvariant, PTL DEF Spec, FloorsRise

-----------------------------------------------------------------------------
(* One caller, and a disk that takes what is written.                      *)

Writing == {"save", "write", "rename"}

\* The file is the newest directory accepted, unless the caller is about to
\* put it there.
FileKept(h) ==
  /\ IF pc[h] \in Writing THEN call[h].got.serial >= floor
     ELSE floor > 0 => CacheFile!IsSnapshot(cache) /\ cache.serial >= floor
  /\ pc[h] \in {"raise", "raiseFile"} => call[h].got.serial >= floor
  /\ pc[h] = "write" => fd[h] = "tmp" /\ tmp = Empty
  /\ pc[h] = "rename" => tmp = call[h].got
  /\ pc[h] \in {"verifyFile", "raiseFile"} => cache = call[h].got

\* The addresses are those of the newest list accepted, unless the caller is
\* about to take them over.
ListKept(h) ==
  /\ listFloor <= Len(published)
  /\ pc[h] = "raiseList" => call[h].list >= listFloor
  /\ IF pc[h] = "replace" THEN call[h].list = listFloor
     ELSE listFloor > 0 => endpoints = published[listFloor]

LEMMA DirectoryIsSnapshot ==
  ASSUME NEW d \in Directories
  PROVE  CacheFile!IsSnapshot(d) /\ d.serial \in Nat
BY ClientAssumption DEF CacheFile!IsSnapshot, CacheFile!Marks, Directories

\* What a caller's step may do to the file.
LEMMA FileKeptStays ==
  ASSUME IInv, NEW h \in Callers, Callers = {h}, ~DiskMayFail, FileKept(h),
         Begin(h) \/ CallerStep(h)
  PROVE  FileKept(h)'
<1> USE DEF Move, Goto, clientVars, cacheVars, Labels, Writing
<1>1. /\ pc[h] \in Labels /\ call[h] \in Calls /\ floor \in Nat
      /\ pc \in [Callers -> Labels] /\ call \in [Callers -> Calls]
      /\ Local(pc[h], call[h], floor, Len(published))
  BY Found DEF IInv, Callings
<1>2. ASSUME UNCHANGED <<floor, cacheVars>>, pc[h] \notin Writing,
             pc'[h] \notin Writing \cup {"raise", "verifyFile", "raiseFile"}
      PROVE  FileKept(h)'
  BY <1>2 DEF FileKept
<1>3. CASE \/ Begin(h) \/ TryFails(h) \/ TryAnswers(h) \/ TryErrs(h) \/ Unreachable(h)
           \/ Answered(h) \/ Refused(h) \/ RefusedReturns(h) \/ Done(h) \/ FileRefused(h)
           \/ FetchFails(h) \/ Fetch(h) \/ ListVerified(h) \/ ListRefused(h)
           \/ RaiseList(h) \/ Replace(h) \/ Again(h)
  <2>1. UNCHANGED <<floor, cacheVars>> /\ pc[h] \notin Writing
    BY <1>3 DEF Begin, TryFails, TryAnswers, TryErrs, Unreachable, Answered, Refused,
         RefusedReturns, Done, FileRefused, FetchFails, Fetch, ListVerified, ListRefused,
         RaiseList, Replace, Again
  <2>2. pc'[h] \notin Writing \cup {"raise", "verifyFile", "raiseFile"}
    BY <1>1, <1>3 DEF Begin, TryFails, TryAnswers, TryErrs, Unreachable, Answered, Refused,
         RefusedReturns, Done, FileRefused, FetchFails, Fetch, ListVerified, ListRefused,
         RaiseList, Replace, Again, Return
  <2> QED
    BY <1>2, <2>1, <2>2
<1>4. CASE Verified(h)
  BY <1>1, <1>4 DEF Verified, FileKept
<1>5. CASE Raise(h)
  <2> DEFINE s == call[h].got.serial
  <2>1. s \in Nat /\ s >= floor /\ pc[h] = "raise"
    BY <1>1, <1>5, Found DEF Raise, FileKept, Local
  <2> HIDE DEF s
  <2>2. floor' = s
    BY <1>1, <1>5, <2>1 DEF Raise, Raised, s
  <2>3. pc'[h] = "save" /\ call'[h].got = call[h].got
    BY <1>1, <1>5 DEF Raise, Calls
  <2> QED
    BY <1>1, <2>1, <2>2, <2>3 DEF FileKept, s
<1>6. CASE Save(h)
  BY <1>1, <1>6 DEF Save, SaveStep, CacheFile!OpenTmp, FileKept, IInv, Files
<1>7. CASE Write(h)
  <2>1. fd[h] = "tmp" /\ tmp = Empty
    BY <1>7 DEF Write, SaveStep, FileKept
  <2>2. tmp' = call[h].got /\ UNCHANGED cache
    BY <1>7, <2>1 DEF Write, CacheFile!WriteAndClose, CacheFile!Overwritten
  <2> QED
    BY <1>1, <1>7, <2>2 DEF Write, SaveStep, FileKept
<1>8. CASE ReplaceFile(h)
  <2>1. pc[h] = "rename" /\ pc'[h] = "done" /\ call' = call /\ floor' = floor
    BY <1>1, <1>8 DEF ReplaceFile, SaveStep
  <2>2. tmp = call[h].got /\ call[h].got \in Directories /\ call[h].got.serial >= floor
    BY <1>1, <2>1 DEF FileKept, Local
  <2>3. tmp # NoFile
    BY <2>2, DirectoryIsSnapshot DEF CacheFile!IsSnapshot, CacheFile!Marks
  <2>4. cache' = tmp
    BY <1>8, <2>3 DEF ReplaceFile, CacheFile!Rename
  <2> QED
    BY <2>1, <2>2, <2>4, DirectoryIsSnapshot DEF FileKept
<1>9. CASE ReadFile(h)
  <2>1. CASE CacheFile!IsSnapshot(cache)
    <3>1. /\ pc'[h] = "verifyFile" /\ call'[h].got = cache /\ pc[h] = "file"
          /\ UNCHANGED <<floor, cacheVars>>
      BY <1>1, <1>9, <2>1 DEF ReadFile, Calls
    <3> QED
      BY <3>1 DEF FileKept
  <2>2. CASE ~CacheFile!IsSnapshot(cache)
    <3>1. /\ pc'[h] \in {"idle", "heal"} /\ pc[h] = "file" /\ UNCHANGED <<floor, cacheVars>>
      BY <1>1, <1>9, <2>2 DEF ReadFile, Return
    <3> QED
      BY <1>2, <3>1
  <2> QED
    BY <2>1, <2>2
<1>10. CASE FileVerified(h)
  BY <1>1, <1>10 DEF FileVerified, FileKept
<1>11. CASE RaiseFile(h)
  <2> DEFINE s == call[h].got.serial
  <2>1. s \in Nat /\ s >= floor /\ pc[h] = "raiseFile" /\ cache = call[h].got
    BY <1>1, <1>11, Found DEF RaiseFile, FileKept, Local
  <2>2. CacheFile!IsSnapshot(cache) /\ cache.serial = s
    BY <1>1, <2>1, DirectoryIsSnapshot DEF Local
  <2> HIDE DEF s
  <2>3. floor' = s /\ cache' = cache /\ pc'[h] = "done"
    BY <1>1, <1>11, <2>1 DEF RaiseFile, Raised, s
  <2> QED
    BY <2>1, <2>2, <2>3 DEF FileKept
<1> QED
  BY <1>3, <1>4, <1>5, <1>6, <1>7, <1>8, <1>9, <1>10, <1>11 DEF CallerStep, WriteFails

\* What a caller's step may do to the addresses.
LEMMA ListKeptStays ==
  ASSUME IInv, NEW h \in Callers, ListKept(h), Begin(h) \/ CallerStep(h)
  PROVE  ListKept(h)'
<1> USE DEF Move, Goto, clientVars, serverVars, Labels
<1>1. /\ pc[h] \in Labels /\ call[h] \in Calls /\ listFloor \in Nat /\ Len(published) \in Nat
      /\ pc \in [Callers -> Labels] /\ call \in [Callers -> Calls]
      /\ Local(pc[h], call[h], floor, Len(published))
  BY Found DEF IInv, Callings
<1>2. published' = published
  BY ServerStays
<1>3. CASE RaiseList(h)
  <2>1. call[h].list \in Nat /\ call[h].list >= listFloor /\ call[h].list <= Len(published)
    BY <1>1, <1>3 DEF RaiseList, Local, ListKept
  <2>2. listFloor' = call[h].list /\ pc'[h] = "replace" /\ call' = call
    BY <1>1, <1>3, <2>1 DEF RaiseList, Raised
  <2> QED
    BY <1>2, <2>1, <2>2 DEF ListKept
<1>4. CASE Replace(h)
  <2>1. endpoints' = published[listFloor] /\ pc'[h] = "again" /\ listFloor' = listFloor
    BY <1>1, <1>4 DEF Replace, ListKept
  <2> QED
    BY <1>2, <2>1 DEF ListKept
<1>5. CASE ListVerified(h)
  BY <1>1, <1>2, <1>5 DEF ListVerified, ListKept
<1>6. CASE ~(RaiseList(h) \/ Replace(h) \/ ListVerified(h))
  <2>1. /\ UNCHANGED <<listFloor, endpoints>>
        /\ pc[h] # "replace" /\ pc'[h] \notin {"raiseList", "replace"}
    BY <1>1, <1>6 DEF CallerStep, Begin, TryFails, TryAnswers, TryErrs, Unreachable, Answered,
         Verified, Refused, RefusedReturns, Raise, Done, Save, Write, WriteFails, ReplaceFile,
         SaveStep, ReadFile, FileVerified, FileRefused, RaiseFile, FetchFails, Fetch,
         ListRefused, Again, Return
  <2> QED
    BY <1>2, <2>1 DEF ListKept
<1> QED
  BY <1>3, <1>4, <1>5, <1>6

LEMMA KeptStays ==
  ASSUME IInv, NEW h \in Callers, Callers = {h}, ~DiskMayFail, FileKept(h), ListKept(h),
         [Next]_vars
  PROVE  FileKept(h)' /\ ListKept(h)'
<1> USE DEF clientVars, serverVars, cacheVars
<1>1. floor \in Nat /\ listFloor \in Nat /\ Len(published) \in Nat
  BY Found
<1>2. CASE Begin(h) \/ CallerStep(h)
  BY <1>2, FileKeptStays, ListKeptStays
<1>3. CASE ClientRestart
  <2>1. floor' = 0 /\ listFloor' = 0 /\ pc'[h] = "idle" /\ published' = published
    BY <1>3 DEF ClientRestart
  <2> QED
    BY <1>1, <2>1 DEF FileKept, ListKept, Writing
<1>4. ASSUME NEW list \in Lists, Publish(list) PROVE FileKept(h)' /\ ListKept(h)'
  <2>1. /\ published \in Seq(Lists) /\ published' = Append(published, list)
        /\ UNCHANGED <<clientVars, pc, call>>
    BY <1>4 DEF Publish, IInv, Globals
  <2>2. /\ Len(published') = Len(published) + 1
        /\ \A i \in 1..Len(published) : published'[i] = published[i]
    BY <2>1
  <2>3. listFloor > 0 /\ listFloor <= Len(published) => published'[listFloor] = published[listFloor]
    BY <1>1, <2>2
  <2>4. ListKept(h)'
    BY <1>1, <2>1, <2>2, <2>3 DEF ListKept
  <2>5. FileKept(h)'
    BY <2>1 DEF FileKept
  <2> QED
    BY <2>4, <2>5
<1>5. CASE UNCHANGED <<clientVars, pc, call, published>>
  BY <1>5 DEF FileKept, ListKept
<1>6. \/ Begin(h) \/ CallerStep(h) \/ ClientRestart \/ (\E list \in Lists : Publish(list))
      \/ UNCHANGED <<clientVars, pc, call, published>>
  BY DEF Next, vars, Reach, ServerRestart
<1> QED
  BY <1>2, <1>3, <1>4, <1>5, <1>6

\* With one caller and a disk that takes what is written, the file and the
\* addresses between calls are the newest that were accepted.  (Two callers can
\* end with the older of two directories in the file, and a write that fails
\* leaves the file behind the floor.)
THEOREM NewestHolds ==
  ASSUME NEW h, Callers = {h}, ~DiskMayFail
  PROVE  Spec => []NewestKept
<1>1. ASSUME Init PROVE FileKept(h) /\ ListKept(h)
  BY <1>1 DEF Init, FileKept, ListKept, Writing
<1>2. ASSUME IInv, FileKept(h), ListKept(h), [Next]_vars PROVE FileKept(h)' /\ ListKept(h)'
  BY <1>2, KeptStays
<1>3. ASSUME FileKept(h), ListKept(h) PROVE NewestKept
  BY <1>3 DEF FileKept, ListKept, NewestKept, FileIsLast, AddressesAreLast, AtRest, Writing
<1> QED
  BY <1>1, <1>2, <1>3, InductiveInvariant, PTL DEF Spec

=============================================================================
