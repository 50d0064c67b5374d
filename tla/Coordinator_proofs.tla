------------------------- MODULE Coordinator_proofs -------------------------
(***************************************************************************)
(* Proofs about the coordinator, for any number of handlers, requests and  *)
(* crashes: the types; that memory, every snapshot under way and the state *)
(* file always agree on who was admitted through which invite; that all of *)
(* them keep groups and their secrets together, and the file never gets    *)
(* ahead of memory; and, for one handler and a disk that does not fail,    *)
(* that what was answered is in the file.                                  *)
(***************************************************************************)
EXTENDS Coordinator, InviteStore_proofs

-----------------------------------------------------------------------------
(* Types.                                                                  *)

LEMMA EmptySnapshotOK == EmptySnapshot \in Snapshots
BY DEF Snapshots, EmptySnapshot, NoInvites, NoAdmissions, NoMembers, NoSecrets,
       NoPeerRep, NoGroupRep, InviteMap, AdmissionMap

\* What each kind of request holds.
LEMMA RequestFields ==
  ASSUME NEW r \in AllRequests \cup Mints \cup {NoRequest, DecayTick}
  PROVE  /\ r.op = "join" => r.peer \in Peers /\ r.code \in Codes \cup {None}
         /\ r.op = "create" => r.peer \in Peers /\ r.maxUses \in UseLimits
         /\ r.op = "group" => r.peer \in Peers /\ r.group \in Groups
                              /\ r.secret \in Secrets
         /\ r.op = "endorse" => r.peer \in Peers /\ r.group \in Groups
                                /\ r.to \in Groups
         /\ r.op = "report" => r.peer \in Peers /\ r.subject \in Peers
                               /\ r.outcome \in Outcomes
<1>1. CASE r \in [op : {"join"}, peer : Peers, code : Codes \cup {None}]
  BY <1>1
<1>2. CASE r \in [op : {"create"}, peer : Peers, maxUses : UseLimits]
  BY <1>2
<1>3. CASE r \in [op : {"group"}, peer : Peers, group : Groups, secret : Secrets]
  BY <1>3
<1>4. CASE r \in [op : {"endorse"}, peer : Peers, group : Groups, to : Groups]
  BY <1>4
<1>5. CASE r \in [op : {"report"}, peer : Peers, subject : Peers, outcome : Outcomes]
  BY <1>5
<1>6. CASE r \in Mints
  BY <1>6 DEF Mints
<1>7. CASE r \in {NoRequest, DecayTick}
  BY <1>7 DEF NoRequest, DecayTick
<1> QED
  BY <1>1, <1>2, <1>3, <1>4, <1>5, <1>6, <1>7 DEF AllRequests

LEMMA DeltaInt == ASSUME NEW o PROVE Delta(o) \in Int
BY DEF Delta

LEMMA DecayInt == ASSUME NEW v \in Int PROVE DecayToward0(v, DecayStep) \in Int
BY CoordinatorAssumption DEF DecayToward0

\* The part of the type invariant that is about the handlers' own variables
\* and the process, and the part about the stores and the file.
HandlersOK ==
  /\ process \in {"up", "down", "refused"}
  /\ pc \in [Handlers -> Labels]
  /\ req \in [Handlers -> AllRequests \cup Mints \cup {NoRequest, DecayTick}]
  /\ todo \in [Handlers -> SUBSET Groups]
  /\ requests \in 0..MaxRequests /\ crashes \in 0..MaxCrashes

MemoryOK ==
  /\ invites \in InviteMap
  /\ admissions \in AdmissionMap
  /\ members \in [Groups -> SUBSET Peers]
  /\ endorsed \subseteq Groups \X Groups
  /\ secrets \in [Groups -> Secrets \cup {None}]
  /\ peerRep \in [Peers -> Int]
  /\ groupRep \in [Groups -> Int]

FilesOK ==
  /\ snap \in [Handlers -> Snapshots]
  /\ path \in Snapshots \cup Marks
  /\ tmp \in Snapshots \cup Marks
  /\ fd \in [Handlers -> {"closed", "tmp", "path", "unlinked"}]

LEMMA TypeParts == TypeOK <=> HandlersOK /\ MemoryOK /\ FilesOK
BY DEF TypeOK, HandlersOK, MemoryOK, FilesOK, Snapshots, Memory

LEMMA TypePartsNext == TypeOK' <=> HandlersOK' /\ MemoryOK' /\ FilesOK'
BY DEF TypeOK, HandlersOK, MemoryOK, FilesOK, Snapshots, Memory

fileStepVars == <<snap, path, tmp, fd>>
memoryVars == <<storeVars, graphVars, repVars, secrets>>

\* A handler's step from one label to the next that touches no file, and the
\* request and the counters it leaves alone.
LEMMA HandlersAfterStep ==
  ASSUME HandlersOK, NEW h \in Handlers, NEW label \in Labels,
         StepTo(h, label), todo' = todo
  PROVE  HandlersOK'
BY DEF HandlersOK, StepTo, Goto

LEMMA HandlersAfterRefuse ==
  ASSUME HandlersOK, NEW h \in Handlers, Refuse(h)
  PROVE  HandlersOK'
BY DEF HandlersOK, Refuse, Goto, Labels

LEMMA MemoryUnchanged ==
  ASSUME MemoryOK, UNCHANGED memoryVars
  PROVE  MemoryOK'
BY DEF MemoryOK, memoryVars, storeVars, graphVars, repVars

LEMMA FilesUnchanged ==
  ASSUME FilesOK, UNCHANGED fileStepVars
  PROVE  FilesOK'
BY DEF FilesOK, fileStepVars

\* Every handler step that takes the request no further than the save.
LEMMA TypeRequestStep ==
  ASSUME TypeOK, NEW h \in Handlers,
         \/ Join(h) \/ JoinRefused(h)
         \/ CreateBegin(h) \/ CreateRefused(h) \/ CreateApply(h)
         \/ GroupClaim(h) \/ GroupMatch(h) \/ GroupRefused(h) \/ GroupApply(h)
         \/ EndorseBegin(h) \/ EndorseRefused(h) \/ EndorseApply(h)
         \/ ReportBegin(h) \/ ReportRefused(h) \/ ReportGroups(h)
         \/ ReportAdjust(h) \/ ReportAdjusted(h)
         \/ DecayBegin(h)
  PROVE  TypeOK'
<1> USE DEF At
<1>1. /\ HandlersOK /\ MemoryOK /\ FilesOK
      /\ req[h] \in AllRequests \cup Mints \cup {NoRequest, DecayTick}
  BY TypeParts DEF HandlersOK
<1>2. SUFFICES HandlersOK' /\ MemoryOK' /\ UNCHANGED fileStepVars
  BY <1>1, FilesUnchanged, TypePartsNext
<1>3. CASE Join(h)
  <2>1. HandlersOK' /\ UNCHANGED fileStepVars
    BY <1>1, <1>3, HandlersAfterStep
       DEF Join, StepTo, fileStepVars, fileVars, Labels
  <2>2. req[h].peer \in Peers
    BY <1>1, <1>3, RequestFields DEF Join
  <2>3. invites' \in InviteMap /\ admissions' \in AdmissionMap
    <3>1. CASE UNCHANGED storeVars
      BY <3>1, <1>1 DEF MemoryOK, storeVars
    <3>2. CASE BecomeFounder(req[h].peer)
      BY <3>2, <1>1, <2>2
         DEF BecomeFounder, MemoryOK, AdmissionMap, Admissions, Issuers
    <3>3. CASE Admit(req[h].code, req[h].peer)
      <4>1. invites[req[h].code] \in Invites /\ req[h].code \in Codes
        BY <3>3, <1>1 DEF Admit, Exists, MemoryOK, InviteMap
      <4>2. invites' \in InviteMap
        <5>1. [invites[req[h].code] EXCEPT !.uses = @ + 1] \in Invites
          BY <4>1 DEF Invites
        <5> QED
          BY <5>1, <4>1, <3>3, <1>1 DEF Admit, MemoryOK, InviteMap
      <4>3. admissions' \in AdmissionMap
        <5>1. [code |-> req[h].code, issuer |-> invites[req[h].code].issuer]
                \in Admissions
          BY <4>1 DEF Invites, Admissions
        <5> QED
          BY <5>1, <3>3, <1>1 DEF Admit, MemoryOK, AdmissionMap
      <4> QED
        BY <4>2, <4>3
    <3> QED
      BY <3>1, <3>2, <3>3, <1>3 DEF Join, BootstrapOk, RedeemOk
  <2> QED
    BY <2>1, <2>3, <1>1, <1>3 DEF MemoryOK, Join, graphVars, repVars
<1>4. CASE JoinRefused(h)
  BY <1>1, <1>4, HandlersAfterRefuse, MemoryUnchanged
     DEF JoinRefused, BootstrapClosed, RedeemFails, Refuse, memoryVars,
         fileStepVars, fileVars
<1>5. CASE CreateBegin(h)
  <2>1. MemoryOK' /\ UNCHANGED fileStepVars
    BY <1>1, <1>5, MemoryUnchanged
       DEF CreateBegin, memoryVars, fileStepVars, fileVars
  <2>2. PICK c \in Codes :
          req' = [req EXCEPT ![h] =
                    [op |-> "create", peer |-> req[h].peer,
                     maxUses |-> req[h].maxUses, code |-> c]]
    BY <1>5 DEF CreateBegin
  <2>3. [op |-> "create", peer |-> req[h].peer,
         maxUses |-> req[h].maxUses, code |-> c] \in Mints
    BY <1>1, <1>5, RequestFields DEF CreateBegin, Mints
  <2> QED
    BY <2>1, <2>2, <2>3, <1>1, <1>5 DEF HandlersOK, CreateBegin, Goto, Labels
<1>6. CASE CreateRefused(h)
  BY <1>1, <1>6, HandlersAfterRefuse, MemoryUnchanged
     DEF CreateRefused, Refuse, memoryVars, fileStepVars, fileVars
<1>7. CASE CreateApply(h)
  <2>1. HandlersOK' /\ UNCHANGED fileStepVars
    BY <1>1, <1>7, HandlersAfterStep
       DEF CreateApply, StepTo, fileStepVars, fileVars, Labels
  <2>2. [issuer |-> req[h].peer, maxUses |-> req[h].maxUses, uses |-> 0]
          \in Invites
    BY <1>1, <1>7, RequestFields DEF CreateApply, Minting, Invites, Issuers
  <2>3. invites' \in InviteMap
    BY <2>2, <1>1, <1>7 DEF CreateApply, Create, MemoryOK, InviteMap
  <2> QED
    BY <2>1, <2>3, <1>1, <1>7
       DEF MemoryOK, CreateApply, Create, graphVars, repVars
<1>8. CASE GroupClaim(h)
  BY <1>1, <1>8, HandlersAfterStep, RequestFields
     DEF GroupClaim, StepTo, fileStepVars, fileVars, Labels, MemoryOK,
         storeVars, graphVars, repVars
<1>9. CASE GroupMatch(h)
  BY <1>1, <1>9, HandlersAfterStep, MemoryUnchanged
     DEF GroupMatch, StepTo, fileStepVars, fileVars, Labels, memoryVars
<1>10. CASE GroupRefused(h)
  BY <1>1, <1>10, HandlersAfterRefuse, MemoryUnchanged
     DEF GroupRefused, Refuse, memoryVars, fileStepVars, fileVars
<1>11. CASE GroupApply(h)
  <2>1. HandlersOK' /\ UNCHANGED fileStepVars
    BY <1>1, <1>11, HandlersAfterStep
       DEF GroupApply, StepTo, fileStepVars, fileVars, Labels
  <2>2. req[h].peer \in Peers
    BY <1>1, <1>11, RequestFields DEF GroupApply
  <2> QED
    BY <2>1, <2>2, <1>1, <1>11
       DEF GroupApply, AddMember, MemoryOK, storeVars, repVars
<1>12. CASE EndorseBegin(h)
  BY <1>1, <1>12, HandlersAfterStep, MemoryUnchanged
     DEF EndorseBegin, StepTo, fileStepVars, fileVars, Labels, memoryVars
<1>13. CASE EndorseRefused(h)
  BY <1>1, <1>13, HandlersAfterRefuse, MemoryUnchanged
     DEF EndorseRefused, Refuse, memoryVars, fileStepVars, fileVars
<1>14. CASE EndorseApply(h)
  <2>1. HandlersOK' /\ UNCHANGED fileStepVars
    BY <1>1, <1>14, HandlersAfterStep
       DEF EndorseApply, StepTo, fileStepVars, fileVars, Labels
  <2>2. req[h].group \in Groups /\ req[h].to \in Groups
    BY <1>1, <1>14, RequestFields DEF EndorseApply
  <2> QED
    BY <2>1, <2>2, <1>1, <1>14
       DEF EndorseApply, Endorse, MemoryOK, storeVars, repVars
<1>15. CASE ReportBegin(h)
  <2>1. HandlersOK' /\ UNCHANGED fileStepVars
    BY <1>1, <1>15, HandlersAfterStep
       DEF ReportBegin, StepTo, fileStepVars, fileVars, Labels
  <2>2. PICK d \in Int : peerRep' = [peerRep EXCEPT ![req[h].subject] = @ + d]
                         /\ groupRep' = groupRep
    BY <1>15, DeltaInt DEF ReportBegin, AdjustPeer
  <2>3. req[h].subject \in Peers /\ peerRep \in [Peers -> Int]
    BY <1>1, <1>15, RequestFields DEF ReportBegin, MemoryOK
  <2>4. peerRep' \in [Peers -> Int] /\ groupRep' = groupRep
    BY ONLY <2>2, <2>3
  <2> QED
    BY <2>1, <2>4, <1>1, <1>15 DEF ReportBegin, MemoryOK, storeVars, graphVars
<1>16. CASE ReportRefused(h)
  BY <1>1, <1>16, HandlersAfterRefuse, MemoryUnchanged
     DEF ReportRefused, Refuse, memoryVars, fileStepVars, fileVars
<1>17. CASE ReportGroups(h)
  BY <1>1, <1>17, MemoryUnchanged
     DEF ReportGroups, StepTo, Goto, HandlersOK, GroupsOf, fileStepVars,
         fileVars, Labels, memoryVars
<1>18. CASE ReportAdjust(h)
  <2>1. HandlersOK' /\ UNCHANGED fileStepVars
    BY <1>1, <1>18
       DEF ReportAdjust, StepTo, Goto, HandlersOK, fileStepVars, fileVars, Labels
  <2>2. PICK g \in todo[h], d \in Int : groupRep' = [groupRep EXCEPT ![g] = @ + d]
                                       /\ peerRep' = peerRep
    BY <1>18, DeltaInt DEF ReportAdjust, AdjustGroup
  <2>3. g \in Groups /\ groupRep \in [Groups -> Int]
    BY <1>1 DEF HandlersOK, MemoryOK
  <2>4. groupRep' \in [Groups -> Int] /\ peerRep' = peerRep
    BY ONLY <2>2, <2>3
  <2>5. MemoryOK'
    BY <2>4, <1>1, <1>18 DEF ReportAdjust, MemoryOK, storeVars, graphVars
  <2> QED
    BY <2>1, <2>5
<1>19. CASE ReportAdjusted(h)
  BY <1>1, <1>19, HandlersAfterStep, MemoryUnchanged
     DEF ReportAdjusted, StepTo, fileStepVars, fileVars, Labels, memoryVars
<1>20. CASE DecayBegin(h)
  <2>1. HandlersOK' /\ UNCHANGED fileStepVars
    BY <1>1, <1>20, HandlersAfterStep
       DEF DecayBegin, StepTo, fileStepVars, fileVars, Labels
  <2>2. peerRep' \in [Peers -> Int] /\ groupRep' \in [Groups -> Int]
    BY <1>1, <1>20, DecayInt DEF DecayBegin, Decay, MemoryOK
  <2> QED
    BY <2>1, <2>2, <1>1, <1>20 DEF DecayBegin, MemoryOK, storeVars, graphVars
<1> QED
  BY <1>3, <1>4, <1>5, <1>6, <1>7, <1>8, <1>9, <1>10, <1>11, <1>12, <1>13,
     <1>14, <1>15, <1>16, <1>17, <1>18, <1>19, <1>20

\* Gathering the snapshot.
LEMMA TypeGather ==
  ASSUME TypeOK, NEW h \in Handlers, NEW from \in Labels, NEW to \in Labels,
         NEW image \in Snapshots, Gather(h, from, to, image)
  PROVE  TypeOK'
<1>1. HandlersOK /\ MemoryOK /\ FilesOK
  BY TypeParts
<1>2. HandlersOK'
  BY <1>1, HandlersAfterStep DEF Gather
<1>3. MemoryOK'
  BY <1>1, MemoryUnchanged DEF Gather, memoryVars
<1>4. FilesOK'
  BY <1>1 DEF Gather, StepTo, FilesOK, fileVars
<1> QED
  BY <1>2, <1>3, <1>4, TypePartsNext

\* The image each of the four gathering steps leaves behind is a snapshot.
LEMMA GatheredOK ==
  ASSUME TypeOK, NEW h \in Handlers
  PROVE  /\ [EmptySnapshot EXCEPT !.invites = invites, !.admissions = admissions]
               \in Snapshots
         /\ [snap[h] EXCEPT !.members = members, !.endorsed = endorsed] \in Snapshots
         /\ [snap[h] EXCEPT !.peerRep = peerRep, !.groupRep = groupRep] \in Snapshots
         /\ [snap[h] EXCEPT !.secrets = secrets] \in Snapshots
<1>1. MemoryOK /\ snap[h] \in Snapshots /\ EmptySnapshot \in Snapshots
  BY TypeParts, EmptySnapshotOK DEF FilesOK
<1>2. [EmptySnapshot EXCEPT !.invites = invites, !.admissions = admissions]
        \in Snapshots
  BY <1>1 DEF MemoryOK, Snapshots
<1>3. [snap[h] EXCEPT !.members = members, !.endorsed = endorsed] \in Snapshots
  BY <1>1 DEF MemoryOK, Snapshots
<1>4. [snap[h] EXCEPT !.peerRep = peerRep, !.groupRep = groupRep] \in Snapshots
  BY <1>1 DEF MemoryOK, Snapshots
<1>5. [snap[h] EXCEPT !.secrets = secrets] \in Snapshots
  BY <1>1 DEF MemoryOK, Snapshots
<1> QED
  BY <1>2, <1>3, <1>4, <1>5

LEMMA TypeSaveStep ==
  ASSUME TypeOK, NEW h \in Handlers,
         \/ SaveInvites(h) \/ SaveGraph(h) \/ SaveRep(h) \/ SaveSecrets(h)
         \/ SaveOpen(h) \/ SaveWrite(h) \/ SaveWriteFails(h) \/ SaveRename(h)
         \/ Reply(h)
  PROVE  TypeOK'
<1>1. HandlersOK /\ MemoryOK /\ FilesOK
  BY TypeParts
<1>2. CASE SaveInvites(h)
  BY <1>2, TypeGather, GatheredOK DEF SaveInvites, Labels
<1>3. CASE SaveGraph(h)
  BY <1>3, TypeGather, GatheredOK DEF SaveGraph, Labels
<1>4. CASE SaveRep(h)
  BY <1>4, TypeGather, GatheredOK DEF SaveRep, Labels
<1>5. CASE SaveSecrets(h)
  BY <1>5, TypeGather, GatheredOK DEF SaveSecrets, Labels
<1>6. ASSUME NEW from \in Labels, NEW to \in Labels, FileStep(h, from, to)
      PROVE  HandlersOK' /\ MemoryOK' /\ snap' = snap
  <2>1. HandlersOK'
    BY <1>1, <1>6 DEF FileStep, HandlersOK, Goto
  <2>2. MemoryOK' /\ snap' = snap
    BY <1>1, <1>6, MemoryUnchanged DEF FileStep, memoryVars
  <2> QED
    BY <2>1, <2>2
<1>7. CASE SaveOpen(h)
  <2>1. HandlersOK' /\ MemoryOK' /\ snap' = snap
    BY <1>6, <1>7 DEF SaveOpen, Labels
  <2>2. FilesOK'
    BY <1>1, <1>7, <2>1 DEF SaveOpen, OpenTmp, FilesOK, Marks
  <2> QED
    BY <2>1, <2>2, TypePartsNext
<1>8. CASE SaveWrite(h)
  <2>1. HandlersOK' /\ MemoryOK' /\ snap' = snap
    BY <1>6, <1>8 DEF SaveWrite, Labels
  <2>2. \A old : Overwritten(old, snap[h]) \subseteq Snapshots \cup Marks
    BY <1>1 DEF Overwritten, FilesOK, Marks
  <2>3. FilesOK'
    BY <1>1, <1>8, <2>1, <2>2 DEF SaveWrite, WriteAndClose, FilesOK
  <2> QED
    BY <2>1, <2>3, TypePartsNext
<1>9. CASE SaveWriteFails(h)
  <2>1. HandlersOK' /\ MemoryOK' /\ snap' = snap
    BY <1>6, <1>9 DEF SaveWriteFails, Labels
  <2>2. FilesOK'
    BY <1>1, <1>9, <2>1 DEF SaveWriteFails, WriteFails, FilesOK, Marks
  <2> QED
    BY <2>1, <2>2, TypePartsNext
<1>10. CASE SaveRename(h)
  <2>1. HandlersOK' /\ MemoryOK' /\ snap' = snap
    BY <1>6, <1>10 DEF SaveRename, Labels
  <2>2. FilesOK'
    BY <1>1, <1>10, <2>1 DEF SaveRename, Rename, Moved, FilesOK, Marks, fileVars
  <2> QED
    BY <2>1, <2>2, TypePartsNext
<1>11. CASE Reply(h)
  <2>1. HandlersOK'
    BY <1>1, <1>11 DEF Reply, HandlersOK, Goto, Labels
  <2>2. MemoryOK'
    BY <1>1, <1>11, MemoryUnchanged DEF Reply, memoryVars
  <2>3. FilesOK'
    BY <1>1, <1>11, EmptySnapshotOK DEF Reply, FilesOK, fileVars
  <2> QED
    BY <2>1, <2>2, <2>3, TypePartsNext
<1> QED
  BY <1>2, <1>3, <1>4, <1>5, <1>7, <1>8, <1>9, <1>10, <1>11

\* The seeded invite, added to an image that does not know it.
LEMMA RestoredInvites ==
  ASSUME NEW image \in Snapshots
  PROVE  [image.invites EXCEPT ![SeedCode] =
            [issuer |-> Operator, maxUses |-> SeedUses, uses |-> 0]] \in InviteMap
<1>1. [issuer |-> Operator, maxUses |-> SeedUses, uses |-> 0] \in Invites
  BY CoordinatorAssumption DEF Invites, Issuers
<1>2. image.invites \in InviteMap
  BY DEF Snapshots
<1> QED
  BY <1>1, <1>2 DEF InviteMap

\* Starting, crashing and receiving a request.
LEMMA TypeProcessStep ==
  ASSUME TypeOK,
         \/ Start \/ StartRefused \/ Crash
         \/ \E h \in Handlers, r \in Requests : Receive(h, r)
         \/ \E h \in Handlers : Tick(h)
  PROVE  TypeOK'
<1>1. HandlersOK /\ MemoryOK /\ FilesOK
  BY TypeParts
<1>2. CASE Start
  <2>1. PICK image \in Snapshots : Restore(image)
    BY <1>1, <1>2, EmptySnapshotOK DEF Start, FilesOK, IsSnapshot, Marks
  <2>2. invites' \in InviteMap
    BY <2>1, RestoredInvites DEF Restore, SeededInvites, Snapshots
  <2>3. MemoryOK'
    BY <2>1, <2>2 DEF Restore, RestoreRest, MemoryOK, Snapshots
  <2>4. HandlersOK' /\ FilesOK'
    BY <1>1, <1>2 DEF Start, HandlersOK, FilesOK, serverVars, fileVars
  <2> QED
    BY <2>3, <2>4, TypePartsNext
<1>3. CASE StartRefused
  <2>1. HandlersOK' /\ FilesOK'
    BY <1>1, <1>3 DEF StartRefused, HandlersOK, FilesOK, serverVars, fileVars
  <2>2. MemoryOK'
    BY <1>1, <1>3, MemoryUnchanged DEF StartRefused, memoryVars
  <2> QED
    BY <2>1, <2>2, TypePartsNext
<1>4. CASE Crash
  <2>1. HandlersOK'
    BY <1>1, <1>4, CoordinatorAssumption
       DEF Crash, HandlersOK, Labels, NoRequest
  <2>2. MemoryOK'
    BY <1>1, <1>4, EmptySnapshotOK
       DEF Crash, MemoryOK, EmptySnapshot, Snapshots
  <2>3. FilesOK'
    BY <1>1, <1>4, EmptySnapshotOK DEF Crash, CloseAll, FilesOK
  <2> QED
    BY <2>1, <2>2, <2>3, TypePartsNext
<1>5. ASSUME NEW h \in Handlers, NEW r \in AllRequests \cup {DecayTick}, Receive(h, r)
      PROVE  TypeOK'
  <2>1. HandlersOK'
    BY <1>1, <1>5, CoordinatorAssumption DEF Receive, HandlersOK, Goto, Labels
  <2>2. MemoryOK' /\ FilesOK'
    BY <1>1, <1>5, MemoryUnchanged, FilesUnchanged
       DEF Receive, memoryVars, fileStepVars, fileVars
  <2> QED
    BY <2>1, <2>2, TypePartsNext
<1> QED
  BY <1>2, <1>3, <1>4, <1>5 DEF Requests, Tick

LEMMA TypeInit == Init => TypeOK
<1> SUFFICES ASSUME Init PROVE TypeOK
  OBVIOUS
<1>1. HandlersOK
  BY CoordinatorAssumption DEF Init, HandlersOK, Labels
<1>2. MemoryOK
  BY EmptySnapshotOK
     DEF Init, StoreInit, GraphInit, RepInit, MemoryOK, EmptySnapshot, Snapshots
<1>3. FilesOK
  BY EmptySnapshotOK DEF Init, FileInit, FilesOK, Marks
<1> QED
  BY <1>1, <1>2, <1>3, TypeParts

LEMMA TypePreserved == TypeOK /\ [Next]_vars => TypeOK'
<1> SUFFICES ASSUME TypeOK, [Next]_vars PROVE TypeOK'
  OBVIOUS
<1>1. CASE UNCHANGED vars
  <2>1. UNCHANGED memoryVars /\ UNCHANGED fileStepVars
        /\ UNCHANGED <<process, pc, req, todo, requests, crashes>>
    BY <1>1 DEF vars, memoryVars, fileStepVars, fileVars, serverVars
  <2> QED
    BY <2>1, TypeParts, TypePartsNext, MemoryUnchanged, FilesUnchanged
       DEF HandlersOK
<1>2. CASE Next
  BY <1>2, TypeRequestStep, TypeSaveStep, TypeProcessStep DEF Next, HandlerStep
<1> QED
  BY <1>1, <1>2

\* Every variable of the coordinator has its type, in memory and on disk, for
\* any number of handlers, requests and crashes.
THEOREM TypeCorrect == Spec => []TypeOK
BY TypeInit, TypePreserved, PTL DEF Spec

-----------------------------------------------------------------------------
(* Admission accounting.                                                   *)

\* The maps of one image agree with each other.
Good(inv, adm) ==
  /\ SeatsExact(inv, adm) /\ ChainComplete(inv, adm)
  /\ ChainGrounded(adm) /\ OneFounder(adm)

GoodMemory == Good(invites, admissions)
GoodSnaps == \A h \in Handlers : Good(snap[h].invites, snap[h].admissions)
GoodFiles ==
  /\ IsSnapshot(path) => Good(path.invites, path.admissions)
  /\ IsSnapshot(tmp) => Good(tmp.invites, tmp.admissions)

\* The inductive invariant.  The accounting alone is not inductive: that
\* Create meets an unknown code and an admitted peer is MintsStayFresh, and
\* that a start finds no handler half way is QuietWhenDown.
IInv == TypeOK /\ QuietWhenDown /\ MintsStayFresh /\ SeatAccounting /\ Traceable

LEMMA GoodParts ==
  SeatAccounting /\ Traceable => GoodMemory /\ GoodSnaps /\ GoodFiles
<1> SUFFICES ASSUME SeatAccounting, Traceable
             PROVE  GoodMemory /\ GoodSnaps /\ GoodFiles
  OBVIOUS
<1>1. \A s \in Images : Good(s.invites, s.admissions)
  BY DEF SeatAccounting, Traceable, Good
<1>2. GoodMemory
  <2>1. Memory \in Images
    BY DEF Images
  <2>2. Memory.invites = invites /\ Memory.admissions = admissions
    BY DEF Memory
  <2> QED
    BY <1>1, <2>1, <2>2 DEF GoodMemory
<1>3. GoodSnaps
  BY <1>1 DEF Images, GoodSnaps
<1>4. GoodFiles
  BY <1>1 DEF Images, GoodFiles
<1> QED
  BY <1>2, <1>3, <1>4

LEMMA GoodPartsNext ==
  GoodMemory' /\ GoodSnaps' /\ GoodFiles' => SeatAccounting' /\ Traceable'
<1> SUFFICES ASSUME GoodMemory', GoodSnaps', GoodFiles'
             PROVE  SeatAccounting' /\ Traceable'
  OBVIOUS
<1>1. ASSUME NEW s \in Images' PROVE Good(s.invites, s.admissions)
  <2>1. CASE s = Memory'
    BY <2>1 DEF Memory, GoodMemory
  <2>2. CASE \E h \in Handlers : s = snap'[h]
    BY <2>2 DEF GoodSnaps
  <2>3. CASE s \in {path', tmp'} /\ IsSnapshot(s)
    BY <2>3 DEF GoodFiles
  <2> QED
    BY <2>1, <2>2, <2>3 DEF Images
<1>2. \A s \in Images' : SeatsExact(s.invites, s.admissions)
                         /\ ChainComplete(s.invites, s.admissions)
                         /\ ChainGrounded(s.admissions)
                         /\ OneFounder(s.admissions)
  BY <1>1 DEF Good
<1> QED
  BY <1>2 DEF SeatAccounting, Traceable

LEMMA GoodIsStoreInv == TypeOK => (GoodMemory <=> StoreInv)
BY TypeParts DEF MemoryOK, GoodMemory, Good, StoreInv, StoreTypeOK

LEMMA EmptyGood == Good(EmptySnapshot.invites, EmptySnapshot.admissions)
BY DEF Good, EmptySnapshot, SeatsExact, ChainComplete, ChainGrounded, OneFounder,
       FoundersOf, NoInvites, NoAdmissions, Seated

\* A handler that is not drawing a code now was not made to draw one, no code
\* in use by a drawing handler becomes known, nobody's admission is undone.
LEMMA MintsKept ==
  ASSUME MintsStayFresh,
         \A k \in Handlers : Minting(k)' => Minting(k) /\ req'[k] = req[k],
         \A k \in Handlers : Minting(k)' /\ invites[req[k].code] = None
                               => invites'[req[k].code] = None,
         \A p \in Peers : admissions[p] # None => admissions'[p] # None
  PROVE  MintsStayFresh'
<1> SUFFICES ASSUME NEW h \in Handlers, Minting(h)'
             PROVE  /\ req'[h] \in Mints
                    /\ req'[h].code \in Codes => invites'[req'[h].code] = None
                    /\ admissions'[req'[h].peer] # None
                    /\ \A k \in Handlers \ {h} :
                         Minting(k)' => req'[k].code # req'[h].code
  BY DEF MintsStayFresh, Exists, Admitted, AdmissionOf
<1>1. /\ Minting(h) /\ req'[h] = req[h] /\ req[h] \in Mints
      /\ req[h].peer \in Peers /\ req[h].code \in Codes
  BY DEF MintsStayFresh, Mints
<1>2. invites[req[h].code] = None /\ admissions[req[h].peer] # None
  BY <1>1 DEF MintsStayFresh, Exists, Admitted, AdmissionOf
<1>3. invites'[req'[h].code] = None /\ admissions'[req'[h].peer] # None
  BY <1>1, <1>2
<1>4. ASSUME NEW k \in Handlers \ {h}, Minting(k)'
      PROVE  req'[k].code # req'[h].code
  BY <1>1, <1>4 DEF MintsStayFresh
<1> QED
  BY <1>1, <1>3, <1>4

\* A handler's step starts from a label other than "idle" and leaves the
\* process up.
LEMMA QuietKept ==
  ASSUME TypeOK, QuietWhenDown, NEW h \in Handlers, HandlerStep(h)
  PROVE  QuietWhenDown' /\ (\A k \in Handlers \ {h} : pc'[k] = pc[k] /\ req'[k] = req[k])
<1>1. pc \in [Handlers -> Labels] /\ DOMAIN req = Handlers
  BY DEF TypeOK
<1>2. pc[h] # "idle" /\ process' = process
  BY DEF HandlerStep, Join, JoinRefused, CreateBegin, CreateRefused, CreateApply,
         Minting, GroupClaim, GroupMatch, GroupRefused, GroupApply,
         EndorseBegin, EndorseRefused, EndorseApply, ReportBegin,
         ReportRefused, ReportGroups, ReportAdjust, ReportAdjusted, DecayBegin,
         SaveInvites, SaveGraph, SaveRep, SaveSecrets, SaveOpen, SaveWrite,
         SaveWriteFails, SaveRename, Reply, At, Gather, FileStep, StepTo, Refuse
<1>3. \A k \in Handlers \ {h} : pc'[k] = pc[k] /\ req'[k] = req[k]
  BY <1>1
     DEF HandlerStep, Join, JoinRefused, CreateBegin, CreateRefused, CreateApply,
         GroupClaim, GroupMatch, GroupRefused, GroupApply,
         EndorseBegin, EndorseRefused, EndorseApply, ReportBegin,
         ReportRefused, ReportGroups, ReportAdjust, ReportAdjusted, DecayBegin,
         SaveInvites, SaveGraph, SaveRep, SaveSecrets, SaveOpen, SaveWrite,
         SaveWriteFails, SaveRename, Reply, Gather, FileStep, StepTo, Refuse, Goto
<1> QED
  BY <1>2, <1>3 DEF QuietWhenDown

\* Steps that change nothing the accounting is about.
LEMMA GoodUnchanged ==
  ASSUME GoodMemory, GoodSnaps, GoodFiles,
         UNCHANGED <<invites, admissions, snap, path, tmp>>
  PROVE  GoodMemory' /\ GoodSnaps' /\ GoodFiles'
BY DEF GoodMemory, GoodSnaps, GoodFiles

\* A save that goes on gathering keeps the admission maps it already has.
LEMMA GoodAfterGather ==
  ASSUME TypeOK, GoodMemory, GoodSnaps, GoodFiles, NEW h \in Handlers,
         NEW from, NEW to, NEW image, Gather(h, from, to, image),
         \/ image.invites = invites /\ image.admissions = admissions
         \/ image.invites = snap[h].invites
            /\ image.admissions = snap[h].admissions
  PROVE  GoodMemory' /\ GoodSnaps' /\ GoodFiles'
<1>1. UNCHANGED <<invites, admissions, path, tmp>>
  BY DEF Gather, StepTo, storeVars, fileVars
<1>2. snap'[h] = image /\ \A k \in Handlers : k # h => snap'[k] = snap[k]
  BY DEF Gather, TypeOK
<1>3. Good(image.invites, image.admissions)
  BY DEF GoodMemory, GoodSnaps
<1>4. GoodSnaps'
  <2> SUFFICES ASSUME NEW k \in Handlers
               PROVE  Good(snap'[k].invites, snap'[k].admissions)
    BY DEF GoodSnaps
  <2>1. CASE k = h
    BY <2>1, <1>2, <1>3
  <2>2. CASE k # h
    BY <2>2, <1>2 DEF GoodSnaps
  <2> QED
    BY <2>1, <2>2
<1> QED
  BY <1>1, <1>4 DEF GoodMemory, GoodFiles

\* The steps that write the file only ever move good images into it.
LEMMA GoodAfterFileStep ==
  ASSUME TypeOK, GoodMemory, GoodSnaps, GoodFiles, NEW h \in Handlers,
         SaveOpen(h) \/ SaveWrite(h) \/ SaveWriteFails(h) \/ SaveRename(h)
  PROVE  GoodMemory' /\ GoodSnaps' /\ GoodFiles'
<1>1. UNCHANGED <<invites, admissions, snap>>
  BY DEF SaveOpen, SaveWrite, SaveWriteFails, SaveRename, FileStep, storeVars
<1>2. ASSUME NEW new, NEW old, new \in Overwritten(old, snap[h]), IsSnapshot(new)
      PROVE  new = snap[h]
  BY <1>2 DEF Overwritten, IsSnapshot, Marks
<1>3. path' \in {path, tmp, snap[h]} \cup Marks
      /\ tmp' \in {tmp, snap[h]} \cup Marks
  <2>1. CASE SaveOpen(h)
    BY <2>1 DEF SaveOpen, OpenTmp, Marks
  <2>2. CASE SaveWrite(h)
    BY <2>2 DEF SaveWrite, WriteAndClose, Overwritten, Marks
  <2>3. CASE SaveWriteFails(h)
    BY <2>3 DEF SaveWriteFails, WriteFails, Marks
  <2>4. CASE SaveRename(h)
    BY <2>4 DEF SaveRename, Rename, fileVars, Marks
  <2> QED
    BY <2>1, <2>2, <2>3, <2>4
<1>4. GoodFiles'
  BY <1>3 DEF GoodFiles, GoodSnaps, IsSnapshot
<1> QED
  BY <1>1, <1>4 DEF GoodMemory, GoodSnaps

\* The steps that change neither the admissions nor anything of a save.
LEMMA GoodAfterOtherStep ==
  ASSUME TypeOK, GoodMemory, GoodSnaps, GoodFiles, NEW h \in Handlers,
         \/ JoinRefused(h)
         \/ CreateBegin(h) \/ CreateRefused(h)
         \/ GroupClaim(h) \/ GroupMatch(h) \/ GroupRefused(h) \/ GroupApply(h)
         \/ EndorseBegin(h) \/ EndorseRefused(h) \/ EndorseApply(h)
         \/ ReportBegin(h) \/ ReportRefused(h) \/ ReportGroups(h)
         \/ ReportAdjust(h) \/ ReportAdjusted(h)
         \/ DecayBegin(h)
  PROVE  GoodMemory' /\ GoodSnaps' /\ GoodFiles'
<1>1. UNCHANGED <<invites, admissions, snap, path, tmp>>
  BY DEF JoinRefused, BootstrapClosed, RedeemFails, CreateBegin, CreateRefused,
         GroupClaim, GroupMatch, GroupRefused, GroupApply, EndorseBegin,
         EndorseRefused, EndorseApply, ReportBegin, ReportRefused,
         ReportGroups, ReportAdjust, ReportAdjusted, DecayBegin, StepTo,
         Refuse, storeVars, fileVars
<1> QED
  BY <1>1, GoodUnchanged

\* Join and the Create of an invite keep the store good, by the store's own
\* lemmas; a minting handler meets their hypotheses.
LEMMA GoodAfterChange ==
  ASSUME TypeOK, MintsStayFresh, GoodMemory, GoodSnaps, GoodFiles,
         NEW h \in Handlers, Join(h) \/ CreateApply(h)
  PROVE  GoodMemory' /\ GoodSnaps' /\ GoodFiles'
<1>1. UNCHANGED <<snap, path, tmp>>
  BY DEF Join, CreateApply, StepTo, fileVars
<1>2. StoreInv
  BY GoodIsStoreInv
<1>3. req[h] \in AllRequests \cup Mints \cup {NoRequest, DecayTick}
  BY DEF TypeOK
<1>4. CASE Join(h)
  <2>1. req[h].peer \in Peers
    BY <1>3, <1>4, RequestFields DEF Join, At
  <2>2. StoreInv'
    <3>1. CASE BootstrapOk(req[h].peer)
      BY <3>1, <2>1, <1>2, BootstrapKeepsInv
    <3>2. CASE RedeemOk(req[h].code, req[h].peer)
      BY <3>2, <2>1, <1>2, RedeemKeepsInv
    <3> QED
      BY <3>1, <3>2, <1>4 DEF Join
  <2> QED
    BY <2>2, <1>1 DEF StoreInv, GoodMemory, Good, GoodSnaps, GoodFiles
<1>5. CASE CreateApply(h)
  <2>1. req[h] \in Mints /\ ~Exists(req[h].code) /\ Admitted(req[h].peer)
    BY <1>5 DEF CreateApply, MintsStayFresh
  <2>2. req[h].code \in Codes /\ req[h].peer \in Issuers
        /\ req[h].maxUses \in UseLimits
    BY <2>1 DEF Mints, Issuers
  <2>3. StoreInv'
    BY <2>1, <2>2, <1>2, <1>5, CreateKeepsInv DEF CreateApply
  <2> QED
    BY <2>3, <1>1 DEF StoreInv, GoodMemory, Good, GoodSnaps, GoodFiles
<1> QED
  BY <1>4, <1>5

LEMMA GoodAfterReply ==
  ASSUME TypeOK, GoodMemory, GoodSnaps, GoodFiles, NEW h \in Handlers, Reply(h)
  PROVE  GoodMemory' /\ GoodSnaps' /\ GoodFiles'
<1>1. UNCHANGED <<invites, admissions, path, tmp>>
  BY DEF Reply, storeVars, fileVars
<1>2. snap'[h] = EmptySnapshot /\ \A k \in Handlers : k # h => snap'[k] = snap[k]
  BY DEF Reply, TypeOK
<1>3. GoodSnaps'
  BY <1>2, EmptyGood DEF GoodSnaps
<1> QED
  BY <1>1, <1>3 DEF GoodMemory, GoodFiles

-----------------------------------------------------------------------------
(* A minting handler's code stays unknown and its peer stays admitted.     *)

\* A handler that moves on and is not minting afterwards, while the others do
\* nothing: the store may grow, but not by a code that is being minted.
LEMMA MintsAfterStep ==
  ASSUME TypeOK, QuietWhenDown, MintsStayFresh, NEW h \in Handlers,
         HandlerStep(h), ~CreateBegin(h)
  PROVE  MintsStayFresh'
<1>0. QuietWhenDown' /\ \A k \in Handlers \ {h} : pc'[k] = pc[k] /\ req'[k] = req[k]
  BY QuietKept
<1>1. ~(Minting(h)')
  <2>1. pc \in [Handlers -> Labels] /\ DOMAIN req = Handlers
    BY DEF TypeOK
  <2>2. CASE pc'[h] # "apply"
    BY <2>2 DEF Minting, At
  <2>3. CASE pc'[h] = "apply"
    <3>1. GroupClaim(h) \/ GroupMatch(h) \/ EndorseBegin(h) \/ ReportBegin(h)
      BY <2>1, <2>3
         DEF HandlerStep, Join, JoinRefused, CreateRefused, CreateApply,
             GroupRefused, GroupApply, EndorseRefused, EndorseApply,
             ReportRefused, ReportGroups, ReportAdjust, ReportAdjusted,
             DecayBegin, SaveInvites, SaveGraph, SaveRep, SaveSecrets,
             SaveOpen, SaveWrite, SaveWriteFails, SaveRename, Reply, Gather,
             FileStep, StepTo, Refuse, Goto
    <3>2. req'[h].op # "create"
      BY <3>1 DEF GroupClaim, GroupMatch, EndorseBegin, ReportBegin, At, StepTo
    <3> QED
      BY <3>2 DEF Minting, At
  <2> QED
    BY <2>2, <2>3
<1>2. \A k \in Handlers : Minting(k)' => k # h /\ Minting(k) /\ req'[k] = req[k]
  BY <1>0, <1>1 DEF Minting, At
<1>3. /\ \A p \in Peers : admissions[p] # None => admissions'[p] # None
      /\ \A c \in Codes : invites[c] = None =>
           invites'[c] = None \/ (CreateApply(h) /\ c = req[h].code)
  <2>0. /\ invites \in InviteMap /\ admissions \in AdmissionMap
        /\ req[h] \in AllRequests \cup Mints \cup {NoRequest, DecayTick}
    BY TypeParts DEF TypeOK, MemoryOK
  <2>1. CASE UNCHANGED <<invites, admissions>>
    BY <2>1
  <2>2. CASE CreateApply(h)
    BY <2>2, <2>0 DEF CreateApply, Create, InviteMap
  <2>3. CASE Join(h)
    <3>1. req[h].peer \in Peers
      BY <2>3, <2>0, RequestFields DEF Join, At
    <3>2. CASE UNCHANGED storeVars
      BY <3>2 DEF storeVars
    <3>3. CASE BecomeFounder(req[h].peer)
      <4>1. admissions' = [admissions EXCEPT ![req[h].peer] =
                              [code |-> None, issuer |-> req[h].peer]]
            /\ invites' = invites
        BY <3>3 DEF BecomeFounder
      <4>2. \A p \in Peers : admissions[p] = None
        BY <3>3 DEF BecomeFounder, Admitted, AdmissionOf
      <4> QED
        BY <4>1, <4>2
    <3>4. CASE Admit(req[h].code, req[h].peer)
      <4>1. PICK a \in Admissions : admissions' = [admissions EXCEPT ![req[h].peer] = a]
        <5>1. req[h].code \in Codes /\ invites[req[h].code] \in Invites
          BY <3>4, <2>0 DEF Admit, Exists, InviteMap
        <5> QED
          BY <5>1, <3>4 DEF Admit, Admissions, Invites
      <4>2. \A c \in Codes : invites[c] = None => invites'[c] = None
        BY <3>4, <2>0 DEF Admit, Exists, InviteMap
      <4>3. \A p \in Peers : admissions[p] # None => admissions'[p] # None
        BY <4>1, <2>0, InviteAssumption DEF AdmissionMap
      <4> QED
        BY <4>2, <4>3
    <3> QED
      BY <2>3, <3>2, <3>3, <3>4 DEF Join, BootstrapOk, RedeemOk
  <2>4. HandlerStep(h) => UNCHANGED <<invites, admissions>> \/ CreateApply(h) \/ Join(h)
    BY DEF HandlerStep, JoinRefused, BootstrapClosed, RedeemFails, CreateBegin,
           CreateRefused, GroupClaim, GroupMatch, GroupRefused, GroupApply,
           EndorseBegin, EndorseRefused, EndorseApply, ReportBegin,
           ReportRefused, ReportGroups, ReportAdjust, ReportAdjusted,
           DecayBegin, SaveInvites, SaveGraph, SaveRep, SaveSecrets, SaveOpen,
           SaveWrite, SaveWriteFails, SaveRename, Reply, Gather, FileStep,
           storeVars
  <2> QED
    BY <2>1, <2>2, <2>3, <2>4
<1>4. ASSUME NEW k \in Handlers, Minting(k)', invites[req[k].code] = None
      PROVE  invites'[req[k].code] = None
  <2>1. k # h /\ Minting(k) /\ req[k] \in Mints /\ req[k].code \in Codes
    BY <1>2, <1>4 DEF MintsStayFresh, Mints
  <2>2. CreateApply(h) => req[h].code # req[k].code
    BY <2>1 DEF CreateApply, MintsStayFresh
  <2> QED
    BY <1>3, <1>4, <2>1, <2>2
<1> QED
  BY <1>2, <1>3, <1>4, MintsKept

\* Drawing a code: it is a known code's for nobody, and no other handler's.
LEMMA MintsAfterDraw ==
  ASSUME TypeOK, MintsStayFresh, NEW h \in Handlers, CreateBegin(h)
  PROVE  MintsStayFresh'
<1>1. PICK c \in Codes :
        /\ FreshCode(c)
        /\ req' = [req EXCEPT ![h] =
                     [op |-> "create", peer |-> req[h].peer,
                      maxUses |-> req[h].maxUses, code |-> c]]
  BY DEF CreateBegin
<1> DEFINE mint == [op |-> "create", peer |-> req[h].peer,
                    maxUses |-> req[h].maxUses, code |-> c]
<1>2. mint \in Mints /\ mint.code = c /\ mint.peer = req[h].peer
      /\ req' = [req EXCEPT ![h] = mint]
  BY <1>1, RequestFields DEF CreateBegin, At, Mints, TypeOK
<1> HIDE DEF mint
<1>3. /\ req'[h] = mint
      /\ \A k \in Handlers : k # h => req'[k] = req[k] /\ pc'[k] = pc[k]
  BY <1>2 DEF TypeOK, CreateBegin, Goto
<1>4. invites' = invites /\ admissions' = admissions
      /\ invites[c] = None /\ admissions[mint.peer] # None
  BY <1>1, <1>2 DEF CreateBegin, storeVars, FreshCode, Exists, Admitted, AdmissionOf
<1>5. \A k \in Handlers : k # h /\ Minting(k)' => Minting(k) /\ req[k].code # c
  BY <1>1, <1>3 DEF Minting, At, FreshCode
<1>6. ASSUME NEW k \in Handlers, Minting(k)'
      PROVE  /\ req'[k] \in Mints
             /\ req'[k].code \in Codes => invites'[req'[k].code] = None
             /\ admissions'[req'[k].peer] # None
             /\ \A j \in Handlers \ {k} : Minting(j)' => req'[j].code # req'[k].code
  <2>1. CASE k = h
    BY <2>1, <1>2, <1>3, <1>4, <1>5
  <2>2. CASE k # h
    <3>1. Minting(k) /\ req'[k] = req[k] /\ req[k].code # c
      BY <2>2, <1>3, <1>5, <1>6
    <3>2. ASSUME NEW j \in Handlers \ {k}, Minting(j)'
          PROVE  req'[j].code # req'[k].code
      <4>1. CASE j = h
        BY <4>1, <3>1, <1>2, <1>3
      <4>2. CASE j # h
        BY <4>2, <3>1, <3>2, <1>3, <1>5 DEF MintsStayFresh
      <4> QED
        BY <4>1, <4>2
    <3> QED
      BY <3>1, <3>2, <1>4 DEF MintsStayFresh, Exists, Admitted, AdmissionOf
  <2> QED
    BY <2>1, <2>2
<1> QED
  BY <1>6 DEF MintsStayFresh, Exists, Admitted, AdmissionOf

-----------------------------------------------------------------------------
(* The process starts, dies, and receives requests.                        *)

\* What main loads is good, and so is what it makes of it: the seeded invite
\* is added only to an image that does not know its code.
LEMMA RestoreGood ==
  ASSUME NEW image \in Snapshots, Good(image.invites, image.admissions),
         Restore(image)
  PROVE  GoodMemory'
<1>1. image.invites \in InviteMap /\ image.admissions \in AdmissionMap
      /\ admissions' = image.admissions
  BY DEF Snapshots, Restore
<1>2. CASE invites' = image.invites
  BY <1>1, <1>2 DEF GoodMemory
<1>3. CASE /\ SeedCode # None /\ image.invites[SeedCode] = None
           /\ invites' = [image.invites EXCEPT ![SeedCode] =
                            [issuer |-> Operator, maxUses |-> SeedUses, uses |-> 0]]
  <2>1. SeedCode \in Codes /\ SeedUses \in UseLimits /\ Operator \in Issuers
        /\ Operator \notin Peers
    BY <1>3, CoordinatorAssumption, InviteAssumption DEF Issuers
  <2>2. SeatsExact(image.invites, image.admissions)
        /\ ChainComplete(image.invites, image.admissions)
    BY DEF Good
  <2>3. SeatsExact(invites', image.admissions)
        /\ ChainComplete(invites', image.admissions)
    BY ONLY <1>1, <1>3, <2>1, <2>2, FreshInviteOK
  <2> QED
    BY <1>1, <2>3 DEF Good, GoodMemory
<1> QED
  BY <1>2, <1>3 DEF Restore, SeededInvites

LEMMA AccountingProcessStep ==
  ASSUME IInv,
         \/ Start \/ StartRefused \/ Crash
         \/ \E h \in Handlers, r \in Requests : Receive(h, r)
         \/ \E h \in Handlers : Tick(h)
  PROVE  QuietWhenDown' /\ MintsStayFresh' /\ SeatAccounting' /\ Traceable'
<1>1. GoodMemory /\ GoodSnaps /\ GoodFiles /\ TypeOK
  BY GoodParts DEF IInv
<1>2. CASE Start
  <2>1. UNCHANGED <<snap, path, tmp, pc, req>> /\ process' = "up"
    BY <1>2 DEF Start, serverVars, fileVars
  <2>2. PICK image \in Snapshots :
          Restore(image) /\ Good(image.invites, image.admissions)
    <3>1. CASE path = NoFile
      BY <3>1, <1>2, EmptyGood, EmptySnapshotOK DEF Start
    <3>2. CASE path # NoFile
      BY <3>2, <1>1, <1>2 DEF Start, GoodFiles, TypeOK, IsSnapshot
    <3> QED
      BY <3>1, <3>2
  <2>3. GoodMemory'
    BY <2>2, RestoreGood
  <2>4. GoodSnaps' /\ GoodFiles'
    BY <1>1, <2>1 DEF GoodSnaps, GoodFiles
  <2>5. \A h \in Handlers : ~(Minting(h)')
    BY <2>1, <1>2 DEF IInv, QuietWhenDown, Start, Minting, At
  <2> QED
    BY <2>1, <2>3, <2>4, <2>5, GoodPartsNext DEF QuietWhenDown, MintsStayFresh
<1>3. CASE StartRefused
  <2>1. UNCHANGED <<invites, admissions, snap, path, tmp, pc, req>>
        /\ process # "up"
    BY <1>3 DEF StartRefused, serverVars, fileVars, storeVars
  <2>2. MintsStayFresh' /\ QuietWhenDown'
    BY <2>1 DEF IInv, QuietWhenDown, MintsStayFresh, Minting, At
  <2> QED
    BY <2>1, <2>2, <1>1, GoodUnchanged, GoodPartsNext
<1>4. CASE Crash
  <2>1. /\ UNCHANGED <<path, tmp>>
        /\ invites' = NoInvites /\ admissions' = NoAdmissions
        /\ \A h \in Handlers : snap'[h] = EmptySnapshot /\ pc'[h] = "idle"
    BY <1>4 DEF Crash, CloseAll
  <2>2. GoodMemory' /\ GoodSnaps' /\ GoodFiles'
    BY <1>1, <2>1, EmptyGood
       DEF GoodMemory, GoodSnaps, GoodFiles, EmptySnapshot
  <2>3. QuietWhenDown' /\ MintsStayFresh'
    BY <2>1 DEF QuietWhenDown, MintsStayFresh, Minting, At
  <2> QED
    BY <2>2, <2>3, GoodPartsNext
<1>5. ASSUME NEW h \in Handlers, NEW r, Receive(h, r)
      PROVE  QuietWhenDown' /\ MintsStayFresh' /\ SeatAccounting' /\ Traceable'
  <2>1. UNCHANGED <<invites, admissions, snap, path, tmp>> /\ process' = "up"
    BY <1>5 DEF Receive, storeVars, fileVars
  <2>2. \A k \in Handlers : Minting(k)' => Minting(k) /\ req'[k] = req[k]
    BY <1>1, <1>5 DEF Receive, Goto, Minting, At, TypeOK
  <2>3. MintsStayFresh'
    BY <2>1, <2>2, MintsKept DEF IInv
  <2> QED
    BY <2>1, <2>3, <1>1, GoodUnchanged, GoodPartsNext DEF QuietWhenDown
<1> QED
  BY <1>2, <1>3, <1>4, <1>5 DEF Tick

LEMMA AccountingHandlerStep ==
  ASSUME IInv, NEW h \in Handlers, HandlerStep(h)
  PROVE  QuietWhenDown' /\ MintsStayFresh' /\ SeatAccounting' /\ Traceable'
<1>1. GoodMemory /\ GoodSnaps /\ GoodFiles /\ TypeOK
      /\ QuietWhenDown /\ MintsStayFresh
  BY GoodParts DEF IInv
<1>2. QuietWhenDown' /\ MintsStayFresh'
  BY <1>1, QuietKept, MintsAfterStep, MintsAfterDraw
<1>3. GoodMemory' /\ GoodSnaps' /\ GoodFiles'
  <2>1. CASE SaveInvites(h)
    <3>1. /\ [EmptySnapshot EXCEPT !.invites = invites,
                                   !.admissions = admissions].invites = invites
          /\ [EmptySnapshot EXCEPT !.invites = invites,
                                   !.admissions = admissions].admissions = admissions
      BY DEF EmptySnapshot
    <3> QED
      BY <3>1, <2>1, <1>1, GoodAfterGather DEF SaveInvites
  <2>2. snap[h] \in Snapshots
    BY <1>1 DEF TypeOK
  <2>3. CASE SaveGraph(h)
    <3>1. /\ [snap[h] EXCEPT !.members = members, !.endorsed = endorsed].invites
               = snap[h].invites
          /\ [snap[h] EXCEPT !.members = members, !.endorsed = endorsed].admissions
               = snap[h].admissions
      BY <2>2 DEF Snapshots
    <3> QED
      BY <3>1, <2>3, <1>1, GoodAfterGather DEF SaveGraph
  <2>4. CASE SaveRep(h)
    <3>1. /\ [snap[h] EXCEPT !.peerRep = peerRep, !.groupRep = groupRep].invites
               = snap[h].invites
          /\ [snap[h] EXCEPT !.peerRep = peerRep, !.groupRep = groupRep].admissions
               = snap[h].admissions
      BY <2>2 DEF Snapshots
    <3> QED
      BY <3>1, <2>4, <1>1, GoodAfterGather DEF SaveRep
  <2>5. CASE SaveSecrets(h)
    <3>1. /\ [snap[h] EXCEPT !.secrets = secrets].invites = snap[h].invites
          /\ [snap[h] EXCEPT !.secrets = secrets].admissions = snap[h].admissions
      BY <2>2 DEF Snapshots
    <3> QED
      BY <3>1, <2>5, <1>1, GoodAfterGather DEF SaveSecrets
  <2> QED
    BY <1>1, <2>1, <2>3, <2>4, <2>5, GoodAfterFileStep, GoodAfterOtherStep,
       GoodAfterChange, GoodAfterReply DEF HandlerStep
<1> QED
  BY <1>2, <1>3, GoodPartsNext

\* The inductive invariant holds throughout, whatever the interleaving of
\* handlers, saves, crashes and restarts.
THEOREM InductiveInvariant == Spec => []IInv
<1>1. Init => IInv
  <2> SUFFICES ASSUME Init PROVE IInv
    OBVIOUS
  <2>1. TypeOK
    BY TypeInit
  <2>2. QuietWhenDown /\ MintsStayFresh
    BY DEF Init, QuietWhenDown, MintsStayFresh, Minting, At
  <2>3. \A s \in Images : s.invites = NoInvites /\ s.admissions = NoAdmissions
    BY DEF Init, StoreInit, FileInit, Images, Memory, EmptySnapshot,
           IsSnapshot, Marks
  <2>4. Good(NoInvites, NoAdmissions)
    BY EmptyGood DEF EmptySnapshot
  <2>5. SeatAccounting /\ Traceable
    BY <2>3, <2>4 DEF SeatAccounting, Traceable, Good
  <2> QED
    BY <2>1, <2>2, <2>5 DEF IInv
<1>2. IInv /\ [Next]_vars => IInv'
  <2> SUFFICES ASSUME IInv, [Next]_vars PROVE IInv'
    OBVIOUS
  <2>1. TypeOK'
    BY TypePreserved DEF IInv
  <2>2. CASE UNCHANGED vars
    <3>1. UNCHANGED <<invites, admissions, snap, path, tmp, pc, req, process>>
      BY <2>2 DEF vars, storeVars, fileVars, serverVars
    <3>2. QuietWhenDown' /\ MintsStayFresh'
      BY <3>1 DEF IInv, QuietWhenDown, MintsStayFresh, Minting, At, Exists,
                  Admitted, AdmissionOf
    <3>3. SeatAccounting' /\ Traceable'
      BY <3>1, GoodParts, GoodUnchanged, GoodPartsNext DEF IInv
    <3> QED
      BY <2>1, <3>2, <3>3 DEF IInv
  <2>3. CASE Next
    BY <2>1, <2>3, AccountingProcessStep, AccountingHandlerStep DEF Next, IInv
  <2> QED
    BY <2>2, <2>3
<1> QED
  BY <1>1, <1>2, PTL DEF Spec

\* No redeem is lost, doubled or free, in memory or in any image a restart may
\* load.
THEOREM AccountingHolds == Spec => []SeatAccounting
BY InductiveInvariant, PTL DEF IInv

\* Every admitted peer can be traced to the operator or the one founder, likewise.
THEOREM TraceableHolds == Spec => []Traceable
BY InductiveInvariant, PTL DEF IInv

\* Between Exists and Create no other handler makes the drawn code known: an
\* invite is never overwritten, though the two calls share no lock.
THEOREM MintsFreshHolds == Spec => []MintsStayFresh
BY InductiveInvariant, PTL DEF IInv

\* A step within one life of the process changes the store by an operation of
\* the store, and mints only codes that were not known.
LEMMA HandlerStoreStep ==
  ASSUME IInv, NEW h \in Handlers, HandlerStep(h)
  PROVE  [StoreNext]_storeVars
<1>1. TypeOK /\ MintsStayFresh
  BY DEF IInv
<1>2. CASE Join(h)
  <2>1. req[h] \in AllRequests /\ req[h].op = "join"
    BY <1>1, <1>2 DEF Join, At, TypeOK, Mints, NoRequest, DecayTick
  <2>2. req[h].peer \in Peers /\ req[h].code \in Codes \cup {None}
    BY <2>1 DEF AllRequests
  <2> QED
    BY <1>2, <2>2 DEF Join, StoreNext
<1>3. CASE CreateApply(h)
  <2>1. /\ req[h] \in Mints /\ ~Exists(req[h].code) /\ Admitted(req[h].peer)
        /\ Create(req[h].code, req[h].peer, req[h].maxUses)
    BY <1>1, <1>3 DEF CreateApply, MintsStayFresh
  <2>2. /\ req[h].code \in Codes /\ req[h].peer \in Issuers
        /\ req[h].maxUses \in UseLimits
    BY <2>1 DEF Mints, Issuers
  <2> QED
    BY <2>1, <2>2 DEF CreateFresh, StoreNext
<1>4. CASE UNCHANGED storeVars
  BY <1>4
<1> QED
  BY <1>2, <1>3, <1>4
     DEF HandlerStep, JoinRefused, BootstrapClosed, RedeemFails, CreateBegin,
         CreateRefused, GroupClaim, GroupMatch, GroupRefused, GroupApply,
         EndorseBegin, EndorseRefused, EndorseApply, ReportBegin, ReportRefused,
         ReportGroups, ReportAdjust, ReportAdjusted, DecayBegin, Gather,
         SaveInvites, SaveGraph, SaveRep, SaveSecrets, FileStep, SaveOpen,
         SaveWrite, SaveWriteFails, SaveRename, Reply

\* The concurrent handlers implement the seat ledger, from one start of the
\* process to its end.
THEOREM LedgerHolds == Spec => FollowsLedger
<1>1. IInv /\ [Next]_vars
        => [process' = process => [Ledger!Next]_(Ledger!ledgerVars)]_vars
  <2> SUFFICES ASSUME IInv, Next, process' = process
               PROVE  [Ledger!Next]_(Ledger!ledgerVars)
    OBVIOUS
  <2>1. ASSUME NEW h \in Handlers, NEW r, Receive(h, r)
        PROVE  UNCHANGED storeVars
    BY <2>1 DEF Receive
  <2>2. [StoreNext]_storeVars
    BY <2>1, HandlerStoreStep DEF Next, Start, StartRefused, Crash, Tick
  <2>3. StoreInv
    BY GoodParts, GoodIsStoreInv DEF IInv
  <2> QED
    BY <2>2, <2>3, LedgerStep
<1> QED
  BY <1>1, InductiveInvariant, PTL DEF Spec, FollowsLedger

-----------------------------------------------------------------------------
(* Memory only grows while the process lives, so that whatever was copied  *)
(* from it earlier is behind it.                                           *)

\* A decay step moves a score towards zero and not across it.
LEMMA DecayIsShrink ==
  ASSUME NEW v \in Int PROVE Shrinks(v, DecayToward0(v, DecayStep))
BY CoordinatorAssumption DEF DecayToward0, Shrinks

\* A decay step moves no score across zero nor further from it, whatever
\* reports other handlers are in the middle of.
THEOREM DecayHolds == Spec => DecayShrinks
<1>1. TypeOK /\ [Next]_vars =>
        [\A h \in Handlers : DecayBegin(h) =>
           /\ \A p \in Peers : Shrinks(peerRep[p], peerRep'[p])
           /\ \A g \in Groups : Shrinks(groupRep[g], groupRep'[g])]_vars
  <2> SUFFICES ASSUME TypeOK, NEW h \in Handlers, DecayBegin(h)
               PROVE  /\ \A p \in Peers : Shrinks(peerRep[p], peerRep'[p])
                      /\ \A g \in Groups : Shrinks(groupRep[g], groupRep'[g])
    OBVIOUS
  <2>1. peerRep \in [Peers -> Int] /\ groupRep \in [Groups -> Int]
    BY TypeParts DEF MemoryOK
  <2> QED
    BY <2>1, DecayIsShrink DEF DecayBegin, Decay
<1> QED
  BY <1>1, TypeCorrect, PTL DEF Spec, DecayShrinks

\* Being behind is a preorder on snapshots.
LEMMA BehindItself == ASSUME NEW s \in Snapshots PROVE Behind(s, s)
BY DEF Behind, Snapshots, InviteMap, Invites

LEMMA BehindTransitive ==
  ASSUME NEW r \in Snapshots, NEW s \in Snapshots, NEW t \in Snapshots,
         Behind(r, s), Behind(s, t)
  PROVE  Behind(r, t)
<1>1. ASSUME NEW p \in Peers PROVE r.admissions[p] \in {None, t.admissions[p]}
  BY DEF Behind
<1>2. ASSUME NEW c \in Codes, r.invites[c] # None
      PROVE  /\ t.invites[c] # None
             /\ r.invites[c].issuer = t.invites[c].issuer
             /\ r.invites[c].maxUses = t.invites[c].maxUses
             /\ r.invites[c].uses <= t.invites[c].uses
  <2>1. /\ s.invites[c] # None /\ t.invites[c] # None
        /\ r.invites[c].issuer = s.invites[c].issuer
        /\ s.invites[c].issuer = t.invites[c].issuer
        /\ r.invites[c].maxUses = s.invites[c].maxUses
        /\ s.invites[c].maxUses = t.invites[c].maxUses
        /\ r.invites[c].uses <= s.invites[c].uses
        /\ s.invites[c].uses <= t.invites[c].uses
    BY <1>2 DEF Behind
  <2>2. r.invites[c] \in Invites /\ s.invites[c] \in Invites /\ t.invites[c] \in Invites
    BY <2>1, <1>2 DEF Snapshots, InviteMap
  <2>3. /\ r.invites[c].uses \in Nat /\ s.invites[c].uses \in Nat
        /\ t.invites[c].uses \in Nat
    BY <2>2 DEF Invites
  <2>4. r.invites[c].uses <= t.invites[c].uses
    BY <2>1, <2>3
  <2> QED
    BY <2>1, <2>4
<1>3. ASSUME NEW g \in Groups
      PROVE  r.members[g] \subseteq t.members[g]
             /\ r.secrets[g] \in {None, t.secrets[g]}
  BY DEF Behind
<1>4. r.endorsed \subseteq t.endorsed
  BY DEF Behind
<1> QED
  BY <1>1, <1>2, <1>3, <1>4 DEF Behind

LEMMA EmptyBehind == ASSUME NEW t PROVE Behind(EmptySnapshot, t)
BY DEF Behind, EmptySnapshot, NoInvites, NoAdmissions, NoMembers, NoSecrets

\* The store only grows: no admission is changed, no invite but its counter.
StoreGrows ==
  /\ \A p \in Peers : admissions[p] \in {None, admissions'[p]}
  /\ \A c \in Codes : invites[c] # None =>
       /\ invites'[c] # None
       /\ invites[c].issuer = invites'[c].issuer
       /\ invites[c].maxUses = invites'[c].maxUses
       /\ invites[c].uses <= invites'[c].uses

LEMMA StoreUnchangedGrows ==
  ASSUME MemoryOK, UNCHANGED storeVars PROVE StoreGrows
BY DEF MemoryOK, storeVars, StoreGrows, InviteMap, Invites

LEMMA CreateGrows ==
  ASSUME MemoryOK, NEW c \in Codes, ~Exists(c), NEW i, NEW m, Create(c, i, m)
  PROVE  StoreGrows
<1>1. \A d \in Codes : d # c => invites'[d] = invites[d]
  BY DEF MemoryOK, Create, InviteMap
<1>2. invites[c] = None /\ admissions' = admissions
  BY DEF Exists, Create
<1>3. \A d \in Codes : invites[d] # None => invites[d].uses \in Nat
  BY DEF MemoryOK, InviteMap, Invites
<1> QED
  BY <1>1, <1>2, <1>3 DEF StoreGrows

LEMMA AdmitGrows ==
  ASSUME MemoryOK, NEW p \in Peers, NEW c, Admit(c, p)
  PROVE  StoreGrows
<1>1. c \in Codes /\ invites[c] \in Invites /\ admissions[p] = None
  BY DEF Admit, Exists, MemoryOK, InviteMap, Admitted, AdmissionOf
<1>2. invites' = [invites EXCEPT ![c].uses = @ + 1]
      /\ \A q \in Peers : q # p => admissions'[q] = admissions[q]
  BY DEF Admit, MemoryOK, AdmissionMap
<1>3. \A d \in Codes : d # c => invites'[d] = invites[d]
  BY <1>1, <1>2 DEF MemoryOK, InviteMap
<1>4. /\ invites'[c] \in Invites
      /\ invites'[c].issuer = invites[c].issuer
      /\ invites'[c].maxUses = invites[c].maxUses
      /\ invites'[c].uses = invites[c].uses + 1
  BY <1>1, <1>2 DEF MemoryOK, InviteMap, Invites
<1>5. invites[c].uses \in Nat /\ invites[c].uses <= invites'[c].uses
      /\ invites'[c] # None
  BY <1>1, <1>4, InviteAssumption DEF Invites
<1>6. \A d \in Codes : invites[d] # None => invites[d].uses \in Nat
  BY DEF MemoryOK, InviteMap, Invites
<1>7. \A d \in Codes : invites[d] # None =>
        /\ invites'[d] # None
        /\ invites[d].issuer = invites'[d].issuer
        /\ invites[d].maxUses = invites'[d].maxUses
        /\ invites[d].uses <= invites'[d].uses
  <2> SUFFICES ASSUME NEW d \in Codes, invites[d] # None
               PROVE  /\ invites'[d] # None
                      /\ invites[d].issuer = invites'[d].issuer
                      /\ invites[d].maxUses = invites'[d].maxUses
                      /\ invites[d].uses <= invites'[d].uses
    OBVIOUS
  <2>1. CASE d = c
    BY <2>1, <1>4, <1>5
  <2>2. CASE d # c
    BY <2>2, <1>3, <1>6
  <2> QED
    BY <2>1, <2>2
<1>8. \A q \in Peers : admissions[q] \in {None, admissions'[q]}
  BY <1>1, <1>2
<1> QED
  BY <1>7, <1>8 DEF StoreGrows

LEMMA BecomeFounderGrows ==
  ASSUME MemoryOK, NEW p \in Peers, BecomeFounder(p)
  PROVE  StoreGrows
<1>1. \A q \in Peers : admissions[q] = None
  BY DEF BecomeFounder, Admitted, AdmissionOf
<1>2. \A c \in Codes : invites'[c] = invites[c]
                       /\ (invites[c] # None => invites[c].uses \in Nat)
  BY DEF BecomeFounder, MemoryOK, InviteMap, Invites
<1> QED
  BY <1>1, <1>2 DEF StoreGrows

\* Whatever a handler does to memory, it removes nothing from it.
LEMMA MemoryGrows ==
  ASSUME TypeOK, MintsStayFresh, NEW h \in Handlers, HandlerStep(h)
  PROVE  Behind(Memory, Memory')
<1>1. MemoryOK /\ req[h] \in AllRequests \cup Mints \cup {NoRequest, DecayTick}
  BY TypeParts DEF TypeOK
<1>2. StoreGrows
  <2>1. CASE UNCHANGED storeVars
    BY <2>1, <1>1, StoreUnchangedGrows
  <2>2. CASE CreateApply(h)
    <3>1. req[h] \in Mints /\ ~Exists(req[h].code) /\ req[h].code \in Codes
      BY <2>2 DEF CreateApply, MintsStayFresh, Mints
    <3> QED
      BY <3>1, <2>2, <1>1, CreateGrows DEF CreateApply
  <2>3. CASE Join(h)
    <3>1. req[h].peer \in Peers
      BY <2>3, <1>1, RequestFields DEF Join, At
    <3> QED
      BY <3>1, <2>1, <2>3, <1>1, BecomeFounderGrows, AdmitGrows
         DEF Join, BootstrapOk, RedeemOk
  <2> QED
    BY <2>1, <2>2, <2>3
       DEF HandlerStep, JoinRefused, BootstrapClosed, RedeemFails, CreateBegin,
           CreateRefused, GroupClaim, GroupMatch, GroupRefused, GroupApply,
           EndorseBegin, EndorseRefused, EndorseApply, ReportBegin,
           ReportRefused, ReportGroups, ReportAdjust, ReportAdjusted,
           DecayBegin, SaveInvites, SaveGraph, SaveRep, SaveSecrets, SaveOpen,
           SaveWrite, SaveWriteFails, SaveRename, Reply, Gather, FileStep
<1>3. \A g \in Groups : members[g] \subseteq members'[g]
  <2>1. CASE GroupApply(h)
    BY <2>1, <1>1 DEF GroupApply, AddMember, MemoryOK
  <2>2. CASE EndorseApply(h)
    BY <2>2 DEF EndorseApply, Endorse
  <2>3. CASE UNCHANGED graphVars
    BY <2>3 DEF graphVars
  <2> QED
    BY <2>1, <2>2, <2>3
       DEF HandlerStep, Join, JoinRefused, CreateBegin, CreateApply,
           CreateRefused, GroupClaim, GroupMatch, GroupRefused, Refuse,
           EndorseBegin, EndorseRefused, ReportBegin,
           ReportRefused, ReportGroups, ReportAdjust, ReportAdjusted,
           DecayBegin, SaveInvites, SaveGraph, SaveRep, SaveSecrets, SaveOpen,
           SaveWrite, SaveWriteFails, SaveRename, Reply, Gather, FileStep
<1>4. endorsed \subseteq endorsed'
  <2>1. CASE GroupApply(h)
    BY <2>1 DEF GroupApply, AddMember
  <2>2. CASE EndorseApply(h)
    BY <2>2 DEF EndorseApply, Endorse
  <2>3. CASE UNCHANGED graphVars
    BY <2>3 DEF graphVars
  <2> QED
    BY <2>1, <2>2, <2>3
       DEF HandlerStep, Join, JoinRefused, CreateBegin, CreateApply,
           CreateRefused, GroupClaim, GroupMatch, GroupRefused, Refuse,
           EndorseBegin, EndorseRefused, ReportBegin,
           ReportRefused, ReportGroups, ReportAdjust, ReportAdjusted,
           DecayBegin, SaveInvites, SaveGraph, SaveRep, SaveSecrets, SaveOpen,
           SaveWrite, SaveWriteFails, SaveRename, Reply, Gather, FileStep
<1>5. \A g \in Groups : secrets[g] \in {None, secrets'[g]}
  <2>1. CASE GroupClaim(h)
    BY <2>1, <1>1 DEF GroupClaim, MemoryOK
  <2>2. CASE UNCHANGED secrets
    BY <2>2
  <2> QED
    BY <2>1, <2>2
       DEF HandlerStep, Join, JoinRefused, CreateBegin, CreateApply,
           CreateRefused, GroupMatch, GroupRefused, GroupApply, Refuse,
           EndorseBegin, EndorseRefused, EndorseApply, ReportBegin,
           ReportRefused, ReportGroups, ReportAdjust, ReportAdjusted,
           DecayBegin, SaveInvites, SaveGraph, SaveRep, SaveSecrets, SaveOpen,
           SaveWrite, SaveWriteFails, SaveRename, Reply, Gather, FileStep
<1> QED
  BY <1>2, <1>3, <1>4, <1>5 DEF Behind, Memory, StoreGrows

-----------------------------------------------------------------------------
(* What the images hold of groups, and how the file relates to memory.     *)

\* Between its two critical sections a handler relies on what it saw in the
\* first: the group has a secret, the endorsing group a member.
Entered ==
  \A h \in Handlers :
    /\ At(h, "apply", "group") => secrets[req[h].group] # None
    /\ At(h, "apply", "endorse") => members[req[h].group] # {}

\* A snapshot is empty until a save gathers it, and never ahead of memory.
SnapsBehind == \A h \in Handlers : Behind(snap[h], Memory)

\* A temporary file left by an earlier life may be ahead of memory; once a
\* save of this life has opened it, it is not.
TmpBehind ==
  (\E h \in Handlers : pc[h] \in {"write", "rename"}) /\ IsSnapshot(tmp)
    => Behind(tmp, Memory)

Trails == SnapsBehind /\ TmpBehind /\ DiskBehindMemory

\* No snapshot outlives the process that was gathering it.
SnapsGone == process # "up" => \A h \in Handlers : snap[h] = EmptySnapshot

\* The inductive invariant of the groups and the file.
GroupInv == IInv /\ Entered /\ Trails /\ SnapsGone /\ GroupsSound

\* The two conditions on one image.
Kept(s) == \A g \in Groups : s.members[g] # {} => s.secrets[g] # None
Vouched(s) == \A e \in s.endorsed : s.members[e[1]] # {}

LEMMA SoundParts ==
  GroupsSound <=>
    /\ Kept(Memory) /\ Vouched(Memory)
    /\ \A h \in Handlers : Vouched(snap[h])
    /\ \A h \in Handlers : pc[h] \in {"open", "write", "rename"} => Kept(snap[h])
    /\ IsSnapshot(path) => Kept(path) /\ Vouched(path)
    /\ IsSnapshot(tmp) => Kept(tmp) /\ Vouched(tmp)
<1> DEFINE Parts ==
    /\ Kept(Memory) /\ Vouched(Memory)
    /\ \A h \in Handlers : Vouched(snap[h])
    /\ \A h \in Handlers : pc[h] \in {"open", "write", "rename"} => Kept(snap[h])
    /\ IsSnapshot(path) => Kept(path) /\ Vouched(path)
    /\ IsSnapshot(tmp) => Kept(tmp) /\ Vouched(tmp)
<1>1. GroupsSound <=> (\A s \in WholeImages : Kept(s)) /\ (\A s \in Images : Vouched(s))
  BY DEF GroupsSound, GroupsKeepSecret, EndorserHasMembers, Kept, Vouched
<1>2. (\A s \in WholeImages : Kept(s)) <=>
        /\ Kept(Memory)
        /\ \A h \in Handlers : pc[h] \in {"open", "write", "rename"} => Kept(snap[h])
        /\ IsSnapshot(path) => Kept(path)
        /\ IsSnapshot(tmp) => Kept(tmp)
  BY DEF WholeImages
<1>3. (\A s \in Images : Vouched(s)) <=>
        /\ Vouched(Memory)
        /\ \A h \in Handlers : Vouched(snap[h])
        /\ IsSnapshot(path) => Vouched(path)
        /\ IsSnapshot(tmp) => Vouched(tmp)
  BY DEF Images
<1> QED
  BY <1>1, <1>2, <1>3

\* The same of the state after a step.
SoundAfter ==
  /\ Kept(Memory') /\ Vouched(Memory')
  /\ \A h \in Handlers : Vouched(snap'[h])
  /\ \A h \in Handlers : pc'[h] \in {"open", "write", "rename"} => Kept(snap'[h])
  /\ IsSnapshot(path') => Kept(path') /\ Vouched(path')
  /\ IsSnapshot(tmp') => Kept(tmp') /\ Vouched(tmp')

LEMMA SoundPartsNext == SoundAfter => GroupsSound'
<1> SUFFICES ASSUME SoundAfter PROVE GroupsSound'
  OBVIOUS
<1>1. \A s \in WholeImages' : Kept(s)
  BY DEF WholeImages, SoundAfter, IsSnapshot
<1>2. \A s \in Images' : Vouched(s)
  BY DEF Images, SoundAfter, IsSnapshot
<1> QED
  BY <1>1, <1>2 DEF GroupsSound, GroupsKeepSecret, EndorserHasMembers, Kept, Vouched

LEMMA EmptySound == Kept(EmptySnapshot) /\ Vouched(EmptySnapshot)
BY DEF Kept, Vouched, EmptySnapshot, NoMembers

LEMMA MemorySnapshot == TypeOK => Memory \in Snapshots
BY DEF TypeOK

\* A handler's step that gathers nothing and touches no file keeps all trails.
LEMMA TrailsKept ==
  ASSUME TypeOK, TypeOK', Trails, process' = process,
         Behind(Memory, Memory'),
         \A h \in Handlers : snap'[h] = snap[h] \/ Behind(snap'[h], Memory'),
         path' = path \/ (IsSnapshot(path') => Behind(path', Memory')),
         \/ /\ tmp' = tmp
            /\ \A h \in Handlers : pc'[h] \in {"write", "rename"}
                 => \E k \in Handlers : pc[k] \in {"write", "rename"}
         \/ IsSnapshot(tmp') => Behind(tmp', Memory')
  PROVE  Trails'
<1>1. Memory \in Snapshots /\ Memory' \in Snapshots
  BY MemorySnapshot DEF TypeOK
<1>2. \A s \in Snapshots : Behind(s, Memory) => Behind(s, Memory')
  BY <1>1, BehindTransitive
<1>3. \A h \in Handlers : snap[h] \in Snapshots
  BY DEF TypeOK
<1>4. (IsSnapshot(path) => path \in Snapshots) /\ (IsSnapshot(tmp) => tmp \in Snapshots)
  BY DEF TypeOK, IsSnapshot
<1>5. SnapsBehind'
  BY <1>2, <1>3 DEF Trails, SnapsBehind
<1>6. TmpBehind'
  BY <1>2, <1>4 DEF Trails, TmpBehind, IsSnapshot
<1>7. DiskBehindMemory'
  BY <1>2, <1>4 DEF Trails, DiskBehindMemory, IsSnapshot
<1> QED
  BY <1>5, <1>6, <1>7 DEF Trails

\* The steps of a handler that are about its request, and those of its save.
RequestStep(h) ==
  \/ Join(h) \/ JoinRefused(h)
  \/ CreateBegin(h) \/ CreateRefused(h) \/ CreateApply(h)
  \/ GroupClaim(h) \/ GroupMatch(h) \/ GroupRefused(h) \/ GroupApply(h)
  \/ EndorseBegin(h) \/ EndorseRefused(h) \/ EndorseApply(h)
  \/ ReportBegin(h) \/ ReportRefused(h) \/ ReportGroups(h)
  \/ ReportAdjust(h) \/ ReportAdjusted(h)
  \/ DecayBegin(h)

GatherStep(h) == SaveInvites(h) \/ SaveGraph(h) \/ SaveRep(h) \/ SaveSecrets(h)

WriteStep(h) ==
  SaveOpen(h) \/ SaveWrite(h) \/ SaveWriteFails(h) \/ SaveRename(h)

LEMMA StepKinds ==
  ASSUME NEW h, HandlerStep(h)
  PROVE  RequestStep(h) \/ GatherStep(h) \/ WriteStep(h) \/ Reply(h)
BY DEF HandlerStep, RequestStep, GatherStep, WriteStep

LEMMA RequestStepFrame ==
  ASSUME TypeOK, NEW h \in Handlers, RequestStep(h)
  PROVE  /\ UNCHANGED <<snap, path, tmp, fd, process, acked>>
         /\ pc'[h] \in {"idle", "apply", "adjust", "save"}
<1>1. pc \in [Handlers -> Labels]
  BY DEF TypeOK
<1> QED
  BY <1>1
     DEF RequestStep, Join, JoinRefused, CreateBegin, CreateRefused, CreateApply,
         GroupClaim, GroupMatch, GroupRefused, GroupApply, EndorseBegin,
         EndorseRefused, EndorseApply, ReportBegin, ReportRefused, ReportGroups,
         ReportAdjust, ReportAdjusted, DecayBegin, StepTo, Refuse, Goto, fileVars

LEMMA SaveStepFrame ==
  ASSUME NEW h \in Handlers, GatherStep(h) \/ WriteStep(h) \/ Reply(h)
  PROVE  /\ Memory' = Memory
         /\ UNCHANGED <<invites, admissions, members, endorsed, secrets, process>>
BY DEF GatherStep, WriteStep, SaveInvites, SaveGraph, SaveRep, SaveSecrets,
       SaveOpen, SaveWrite, SaveWriteFails, SaveRename, Reply, Gather, StepTo,
       FileStep, storeVars, graphVars, repVars, Memory

\* What a handler saw in its first critical section still holds in its second.
LEMMA EnteredKept ==
  ASSUME TypeOK, QuietWhenDown, Entered, NEW h \in Handlers, HandlerStep(h),
         Behind(Memory, Memory')
  PROVE  Entered'
<1>1. /\ pc \in [Handlers -> Labels]
      /\ \A k \in Handlers : req[k] \in AllRequests \cup Mints \cup {NoRequest, DecayTick}
  BY DEF TypeOK
<1>2. /\ \A g \in Groups : members[g] # {} => members'[g] # {}
      /\ \A g \in Groups : secrets[g] # None => secrets'[g] # None
  BY DEF Behind, Memory
<1>3. \A k \in Handlers \ {h} : pc'[k] = pc[k] /\ req'[k] = req[k]
  BY QuietKept
<1> SUFFICES ASSUME NEW k \in Handlers
             PROVE  /\ At(k, "apply", "group")' => secrets'[req'[k].group] # None
                    /\ At(k, "apply", "endorse")' => members'[req'[k].group] # {}
  BY DEF Entered
<1>4. CASE k # h
  <2>1. At(k, "apply", "group")' \/ At(k, "apply", "endorse")'
          => req[k].group \in Groups
    BY <1>1, <1>3, <1>4, RequestFields DEF At
  <2> QED
    BY <2>1, <1>2, <1>3, <1>4 DEF At, Entered
<1>5. CASE k = h /\ pc'[h] = "apply"
  <2>1. \/ CreateBegin(h) \/ GroupClaim(h) \/ GroupMatch(h) \/ EndorseBegin(h)
        \/ ReportBegin(h)
    BY <1>1, <1>5
       DEF HandlerStep, Join, JoinRefused, CreateRefused, CreateApply,
           GroupRefused, GroupApply, EndorseRefused, EndorseApply,
           ReportRefused, ReportGroups, ReportAdjust, ReportAdjusted,
           DecayBegin, SaveInvites, SaveGraph, SaveRep, SaveSecrets,
           SaveOpen, SaveWrite, SaveWriteFails, SaveRename, Reply, Gather,
           FileStep, StepTo, Refuse, Goto
  <2>2. CASE CreateBegin(h)
    <3>1. req'[h].op = "create"
      BY <2>2 DEF CreateBegin, TypeOK
    <3> QED
      BY <3>1, <1>5 DEF At
  <2>3. CASE ReportBegin(h)
    BY <2>3, <1>5 DEF ReportBegin, At, StepTo
  <2>4. CASE GroupClaim(h)
    <3>1. req'[h] = req[h] /\ req[h].op = "group" /\ req[h].group \in Groups
          /\ req[h].secret \in Secrets
      BY <2>4, <1>1, RequestFields DEF GroupClaim, At, StepTo
    <3>2. secrets'[req[h].group] = req[h].secret
      BY <3>1, <2>4 DEF GroupClaim, TypeOK, Memory, Snapshots
    <3> QED
      BY <3>1, <3>2, <1>5, CoordinatorAssumption DEF At
  <2>5. CASE GroupMatch(h)
    <3>1. req'[h] = req[h] /\ req[h].op = "group" /\ req[h].group \in Groups
          /\ req[h].secret \in Secrets
      BY <2>5, <1>1, RequestFields DEF GroupMatch, At, StepTo
    <3> QED
      BY <3>1, <2>5, <1>5, CoordinatorAssumption DEF At, GroupMatch
  <2>6. CASE EndorseBegin(h)
    <3>1. req'[h] = req[h] /\ req[h].op = "endorse" /\ members' = members
      BY <2>6 DEF EndorseBegin, At, StepTo, graphVars
    <3> QED
      BY <3>1, <2>6, <1>5 DEF At, EndorseBegin, IsMember
  <2> QED
    BY <2>1, <2>2, <2>3, <2>4, <2>5, <2>6
<1>6. CASE k = h /\ pc'[h] # "apply"
  BY <1>6 DEF At
<1> QED
  BY <1>4, <1>5, <1>6

\* Memory stays sound: members enter groups that have a secret, and groups
\* that have members endorse.
LEMMA MemorySound ==
  ASSUME TypeOK, Entered, NEW h \in Handlers, HandlerStep(h),
         Behind(Memory, Memory'), Kept(Memory), Vouched(Memory)
  PROVE  Kept(Memory') /\ Vouched(Memory')
<1>1. /\ \A g \in Groups : members[g] \subseteq members'[g]
      /\ \A g \in Groups : secrets[g] # None => secrets'[g] # None
  BY DEF Behind, Memory
<1>2. /\ \A g \in Groups : members[g] # {} => secrets[g] # None
      /\ \A e \in endorsed : members[e[1]] # {}
      /\ endorsed \subseteq Groups \X Groups
  BY DEF Kept, Vouched, Memory, TypeOK, Snapshots
<1>3. /\ \A g \in Groups : members'[g] # {} => secrets'[g] # None
      /\ \A e \in endorsed' : members'[e[1]] # {}
  <2>1. CASE GroupApply(h)
    <3>1. secrets[req[h].group] # None
      BY <2>1 DEF GroupApply, Entered
    <3>2. \A g \in Groups : g # req[h].group => members'[g] = members[g]
      BY <2>1 DEF GroupApply, AddMember, TypeOK, Memory, Snapshots
    <3>3. endorsed' = endorsed /\ secrets' = secrets
      BY <2>1 DEF GroupApply, AddMember
    <3> QED
      BY <3>1, <3>2, <3>3, <1>1, <1>2
  <2>2. CASE EndorseApply(h)
    <3>1. members[req[h].group] # {}
      BY <2>2 DEF EndorseApply, Entered
    <3>2. /\ members' = members /\ secrets' = secrets
          /\ endorsed' = endorsed \cup {<<req[h].group, req[h].to>>}
      BY <2>2 DEF EndorseApply, Endorse
    <3> QED
      BY <3>1, <3>2, <1>2
  <2>3. CASE UNCHANGED graphVars
    BY <2>3, <1>1, <1>2 DEF graphVars
  <2> QED
    BY <2>1, <2>2, <2>3
       DEF HandlerStep, Join, JoinRefused, CreateBegin, CreateApply,
           CreateRefused, GroupClaim, GroupMatch, GroupRefused, Refuse,
           EndorseBegin, EndorseRefused, ReportBegin,
           ReportRefused, ReportGroups, ReportAdjust, ReportAdjusted,
           DecayBegin, SaveInvites, SaveGraph, SaveRep, SaveSecrets, SaveOpen,
           SaveWrite, SaveWriteFails, SaveRename, Reply, Gather, FileStep
<1> QED
  BY <1>3 DEF Kept, Vouched, Memory

\* Gathering copies from memory, so the image is behind it, sound as far as it
\* goes, and sound as a whole once the secrets are in it.
LEMMA GatheredImage ==
  ASSUME TypeOK, Trails, GroupsSound, NEW h \in Handlers, GatherStep(h)
  PROVE  /\ Behind(snap'[h], Memory) /\ Vouched(snap'[h])
         /\ pc'[h] = "open" => Kept(snap'[h])
         /\ pc'[h] \in {"saveGraph", "saveRep", "saveSecrets", "open"}
         /\ \A k \in Handlers \ {h} : snap'[k] = snap[k] /\ pc'[k] = pc[k]
         /\ UNCHANGED <<path, tmp, acked>>
<1>1. /\ Memory \in Snapshots /\ snap[h] \in Snapshots /\ EmptySnapshot \in Snapshots
      /\ pc \in [Handlers -> Labels] /\ snap \in [Handlers -> Snapshots]
  BY EmptySnapshotOK DEF TypeOK
<1>2. Behind(Memory, Memory) /\ Behind(snap[h], Memory) /\ Behind(EmptySnapshot, Memory)
  BY <1>1, BehindItself, EmptyBehind DEF Trails, SnapsBehind
<1>3. Kept(Memory) /\ Vouched(Memory) /\ Vouched(snap[h]) /\ Vouched(EmptySnapshot)
  BY SoundParts, EmptySound
<1>4. /\ UNCHANGED <<path, tmp, acked>>
      /\ \A k \in Handlers \ {h} : snap'[k] = snap[k] /\ pc'[k] = pc[k]
  BY <1>1 DEF GatherStep, SaveInvites, SaveGraph, SaveRep, SaveSecrets, Gather,
              StepTo, Goto, fileVars
<1>5. CASE SaveInvites(h)
  <2>1. /\ snap'[h] = [EmptySnapshot EXCEPT !.invites = invites,
                                            !.admissions = admissions]
        /\ pc'[h] = "saveGraph"
    BY <1>1, <1>5 DEF SaveInvites, Gather, StepTo, Goto
  <2>2. /\ snap'[h].invites = Memory.invites
        /\ snap'[h].admissions = Memory.admissions
        /\ snap'[h].members = EmptySnapshot.members
        /\ snap'[h].endorsed = EmptySnapshot.endorsed
        /\ snap'[h].secrets = EmptySnapshot.secrets
    BY <2>1 DEF EmptySnapshot, Memory
  <2>3. Behind(snap'[h], Memory)
    BY <2>2, <1>2 DEF Behind
  <2>4. Vouched(snap'[h])
    BY <2>2, <1>3 DEF Vouched
  <2> QED
    BY <2>1, <2>3, <2>4, <1>4
<1>6. CASE SaveGraph(h)
  <2>1. /\ snap'[h] = [snap[h] EXCEPT !.members = members, !.endorsed = endorsed]
        /\ pc'[h] = "saveRep"
    BY <1>1, <1>6 DEF SaveGraph, Gather, StepTo, Goto
  <2>2. /\ snap'[h].invites = snap[h].invites
        /\ snap'[h].admissions = snap[h].admissions
        /\ snap'[h].members = Memory.members
        /\ snap'[h].endorsed = Memory.endorsed
        /\ snap'[h].secrets = snap[h].secrets
    BY <2>1, <1>1 DEF Snapshots, Memory
  <2>3. Behind(snap'[h], Memory)
    BY <2>2, <1>2 DEF Behind
  <2>4. Vouched(snap'[h])
    BY <2>2, <1>3 DEF Vouched
  <2> QED
    BY <2>1, <2>3, <2>4, <1>4
<1>7. CASE SaveRep(h)
  <2>1. /\ snap'[h] = [snap[h] EXCEPT !.peerRep = peerRep, !.groupRep = groupRep]
        /\ pc'[h] = "saveSecrets"
    BY <1>1, <1>7 DEF SaveRep, Gather, StepTo, Goto
  <2>2. /\ snap'[h].invites = snap[h].invites
        /\ snap'[h].admissions = snap[h].admissions
        /\ snap'[h].members = snap[h].members
        /\ snap'[h].endorsed = snap[h].endorsed
        /\ snap'[h].secrets = snap[h].secrets
    BY <2>1, <1>1 DEF Snapshots
  <2>3. Behind(snap'[h], Memory)
    BY <2>2, <1>2 DEF Behind
  <2>4. Vouched(snap'[h])
    BY <2>2, <1>3 DEF Vouched
  <2> QED
    BY <2>1, <2>3, <2>4, <1>4
<1>8. CASE SaveSecrets(h)
  <2>1. /\ snap'[h] = [snap[h] EXCEPT !.secrets = secrets]
        /\ pc'[h] = "open"
    BY <1>1, <1>8 DEF SaveSecrets, Gather, StepTo, Goto
  <2>2. /\ snap'[h].invites = snap[h].invites
        /\ snap'[h].admissions = snap[h].admissions
        /\ snap'[h].members = snap[h].members
        /\ snap'[h].endorsed = snap[h].endorsed
        /\ snap'[h].secrets = Memory.secrets
    BY <2>1, <1>1 DEF Snapshots, Memory
  <2>3. Behind(snap'[h], Memory)
    BY <2>2, <1>2 DEF Behind
  <2>4. Vouched(snap'[h])
    BY <2>2, <1>3 DEF Vouched
  <2>5. Kept(snap'[h])
    <3>1. \A g \in Groups : snap[h].members[g] \subseteq Memory.members[g]
      BY <1>2 DEF Behind
    <3> QED
      BY <3>1, <2>2, <1>3 DEF Kept
  <2> QED
    BY <2>1, <2>3, <2>4, <2>5, <1>4
<1> QED
  BY <1>5, <1>6, <1>7, <1>8 DEF GatherStep

\* A step that writes puts the handler's whole image, or what is in the
\* temporary file, where it writes, or a mark.
LEMMA Written ==
  ASSUME TypeOK, NEW h \in Handlers, WriteStep(h)
  PROVE  /\ snap' = snap /\ acked' = acked
         /\ \/ path' \in {path} \cup Marks
            \/ pc[h] = "write" /\ path' = snap[h]
            \/ pc[h] = "rename" /\ path' = tmp
         /\ \/ tmp' \in Marks
            \/ tmp' = tmp /\ pc[h] \in {"write", "rename"}
            \/ pc[h] = "write" /\ tmp' = snap[h]
         /\ pc[h] \in {"open", "write", "rename"}
         /\ pc'[h] \in {"write", "rename", "reply"}
         /\ \A k \in Handlers \ {h} : pc'[k] = pc[k]
<1>1. pc \in [Handlers -> Labels]
  BY DEF TypeOK
<1>2. CASE SaveOpen(h)
  BY <1>1, <1>2 DEF SaveOpen, OpenTmp, FileStep, Goto, Marks
<1>3. CASE SaveWrite(h)
  BY <1>1, <1>3 DEF SaveWrite, WriteAndClose, Overwritten, FileStep, Goto, Marks
<1>4. CASE SaveWriteFails(h)
  BY <1>1, <1>4 DEF SaveWriteFails, WriteFails, FileStep, Goto, Marks
<1>5. CASE SaveRename(h)
  BY <1>1, <1>5 DEF SaveRename, Rename, FileStep, Goto, Marks, fileVars
<1> QED
  BY <1>2, <1>3, <1>4, <1>5 DEF WriteStep

LEMMA GroupsAfterHandlerStep ==
  ASSUME GroupInv, NEW h \in Handlers, HandlerStep(h), TypeOK'
  PROVE  Entered' /\ Trails' /\ GroupsSound'
<1>1. /\ TypeOK /\ QuietWhenDown /\ MintsStayFresh
      /\ Entered /\ Trails /\ GroupsSound
  BY DEF GroupInv, IInv
<1>2. Behind(Memory, Memory')
  BY <1>1, MemoryGrows
<1>3. /\ Kept(Memory) /\ Vouched(Memory)
      /\ \A k \in Handlers : Vouched(snap[k])
      /\ \A k \in Handlers : pc[k] \in {"open", "write", "rename"} => Kept(snap[k])
      /\ IsSnapshot(path) => Kept(path) /\ Vouched(path)
      /\ IsSnapshot(tmp) => Kept(tmp) /\ Vouched(tmp)
  BY <1>1, SoundParts
<1>4. Entered' /\ Kept(Memory') /\ Vouched(Memory')
  BY <1>1, <1>2, <1>3, EnteredKept, MemorySound
<1>5. \A k \in Handlers \ {h} : pc'[k] = pc[k]
  BY <1>1, QuietKept
<1>6. CASE RequestStep(h)
  <2>1. /\ UNCHANGED <<snap, path, tmp, process>>
        /\ pc'[h] \notin {"open", "write", "rename"}
    BY <1>1, <1>6, RequestStepFrame
  <2>2. SoundAfter
    BY <2>1, <1>3, <1>4, <1>5 DEF SoundAfter
  <2>3. Trails'
    BY <2>1, <1>1, <1>2, <1>5, TrailsKept
  <2> QED
    BY <2>2, <2>3, <1>4, SoundPartsNext
<1>7. CASE GatherStep(h)
  <2>1. /\ Behind(snap'[h], Memory) /\ Vouched(snap'[h])
        /\ pc'[h] = "open" => Kept(snap'[h])
        /\ pc'[h] \notin {"write", "rename"}
        /\ \A k \in Handlers \ {h} : snap'[k] = snap[k]
        /\ UNCHANGED <<path, tmp>>
    BY <1>1, <1>7, GatheredImage
  <2>2. Memory' = Memory /\ process' = process
    BY <1>7, SaveStepFrame
  <2>3. SoundAfter
    BY <2>1, <1>3, <1>4, <1>5 DEF SoundAfter
  <2>4. \A k \in Handlers : snap'[k] = snap[k] \/ Behind(snap'[k], Memory')
    BY <2>1, <2>2
  <2>5. \A k \in Handlers : pc'[k] \in {"write", "rename"} => pc[k] \in {"write", "rename"}
    BY <2>1, <1>5
  <2>6. Trails'
    BY <2>1, <2>2, <2>4, <2>5, <1>1, <1>2, TrailsKept
  <2> QED
    BY <2>3, <2>6, <1>4, SoundPartsNext
<1>8. CASE WriteStep(h)
  <2>1. /\ snap' = snap
        /\ \/ path' \in {path} \cup Marks
           \/ pc[h] = "write" /\ path' = snap[h]
           \/ pc[h] = "rename" /\ path' = tmp
        /\ \/ tmp' \in Marks
           \/ tmp' = tmp /\ pc[h] \in {"write", "rename"}
           \/ pc[h] = "write" /\ tmp' = snap[h]
        /\ pc[h] \in {"open", "write", "rename"}
    BY <1>1, <1>8, Written
  <2>2. Memory' = Memory /\ process' = process
    BY <1>8, SaveStepFrame
  <2>3. SoundAfter
    BY <2>1, <1>3, <1>4, <1>5 DEF SoundAfter, IsSnapshot
  <2>4. Behind(snap[h], Memory)
    BY <1>1 DEF Trails, SnapsBehind
  <2>5. pc[h] = "rename" /\ IsSnapshot(tmp) => Behind(tmp, Memory)
    BY <1>1 DEF Trails, TmpBehind
  <2>6. path' = path \/ (IsSnapshot(path') => Behind(path', Memory'))
    BY <2>1, <2>2, <2>4, <2>5 DEF IsSnapshot
  <2>7. \/ tmp' = tmp /\ \E k \in Handlers : pc[k] \in {"write", "rename"}
        \/ IsSnapshot(tmp') => Behind(tmp', Memory')
    BY <2>1, <2>2, <2>4 DEF IsSnapshot
  <2>8. Trails'
    BY <2>1, <2>2, <2>6, <2>7, <1>1, <1>2, TrailsKept
  <2> QED
    BY <2>3, <2>8, <1>4, SoundPartsNext
<1>9. CASE Reply(h)
  <2>1. /\ snap'[h] = EmptySnapshot /\ pc'[h] = "idle" /\ UNCHANGED <<path, tmp>>
        /\ \A k \in Handlers \ {h} : snap'[k] = snap[k]
    BY <1>1, <1>9 DEF Reply, Goto, TypeOK, fileVars
  <2>2. Memory' = Memory /\ process' = process
    BY <1>9, SaveStepFrame
  <2>3. SoundAfter
    BY <2>1, <1>3, <1>4, <1>5, EmptySound DEF SoundAfter
  <2>4. \A k \in Handlers : snap'[k] = snap[k] \/ Behind(snap'[k], Memory')
    BY <2>1, EmptyBehind
  <2>5. \A k \in Handlers : pc'[k] \in {"write", "rename"} => pc[k] \in {"write", "rename"}
    BY <2>1, <1>5
  <2>6. Trails'
    BY <2>1, <2>2, <2>4, <2>5, <1>1, <1>2, TrailsKept
  <2> QED
    BY <2>3, <2>6, <1>4, SoundPartsNext
<1> QED
  BY <1>6, <1>7, <1>8, <1>9, StepKinds

LEMMA HandlerStepUp ==
  ASSUME TypeOK, QuietWhenDown, NEW h \in Handlers, HandlerStep(h)
  PROVE  process = "up" /\ process' = "up"
<1>1. pc[h] # "idle"
  BY DEF HandlerStep, Join, JoinRefused, CreateBegin, CreateRefused, CreateApply,
         Minting, GroupClaim, GroupMatch, GroupRefused, GroupApply,
         EndorseBegin, EndorseRefused, EndorseApply, ReportBegin,
         ReportRefused, ReportGroups, ReportAdjust, ReportAdjusted, DecayBegin,
         SaveInvites, SaveGraph, SaveRep, SaveSecrets, SaveOpen, SaveWrite,
         SaveWriteFails, SaveRename, Reply, At, Gather, FileStep
<1>2. process' = process
  BY StepKinds, RequestStepFrame, SaveStepFrame
<1> QED
  BY <1>1, <1>2 DEF QuietWhenDown

\* What main makes of the image it loads is not behind it: seeding adds an
\* invite that the image does not have.
LEMMA RestoreAhead ==
  ASSUME NEW image \in Snapshots, Restore(image)
  PROVE  /\ Behind(image, Memory')
         /\ Kept(image) => Kept(Memory')
         /\ Vouched(image) => Vouched(Memory')
<1>1. /\ Memory'.admissions = image.admissions
      /\ Memory'.members = image.members
      /\ Memory'.endorsed = image.endorsed
      /\ Memory'.secrets = image.secrets
      /\ Memory'.invites = invites'
  BY DEF Restore, RestoreRest, Memory
<1>2. image.invites \in [Codes -> Invites \cup {None}]
  BY DEF Snapshots, InviteMap
<1>3. \A c \in Codes : image.invites[c] # None => invites'[c] = image.invites[c]
  BY <1>2 DEF Restore, SeededInvites
<1>4. \A c \in Codes : image.invites[c] # None => image.invites[c].uses \in Nat
  BY <1>2 DEF Invites
<1>5. Behind(image, Memory')
  BY <1>1, <1>3, <1>4 DEF Behind
<1> QED
  BY <1>1, <1>5 DEF Kept, Vouched

LEMMA GroupsAfterProcessStep ==
  ASSUME GroupInv, TypeOK',
         \/ Start \/ StartRefused \/ Crash
         \/ \E h \in Handlers, r \in Requests : Receive(h, r)
         \/ \E h \in Handlers : Tick(h)
  PROVE  Entered' /\ Trails' /\ SnapsGone' /\ GroupsSound'
<1>1. /\ TypeOK /\ QuietWhenDown /\ Entered /\ Trails /\ SnapsGone /\ GroupsSound
  BY DEF GroupInv, IInv
<1>2. /\ Kept(Memory) /\ Vouched(Memory)
      /\ \A k \in Handlers : Vouched(snap[k])
      /\ \A k \in Handlers : pc[k] \in {"open", "write", "rename"} => Kept(snap[k])
      /\ IsSnapshot(path) => Kept(path) /\ Vouched(path)
      /\ IsSnapshot(tmp) => Kept(tmp) /\ Vouched(tmp)
  BY <1>1, SoundParts
<1>3. CASE Start
  <2>1. /\ UNCHANGED <<pc, req, snap, path, tmp>> /\ process' = "up"
        /\ \A k \in Handlers : pc[k] = "idle" /\ snap[k] = EmptySnapshot
    BY <1>1, <1>3 DEF Start, serverVars, fileVars, QuietWhenDown, SnapsGone
  <2>2. PICK image \in Snapshots :
          /\ Restore(image) /\ Kept(image) /\ Vouched(image)
          /\ IsSnapshot(path) => image = path
    <3>1. CASE path = NoFile
      BY <3>1, <1>3, EmptySound, EmptySnapshotOK DEF Start, IsSnapshot, Marks
    <3>2. CASE path # NoFile
      <4>1. IsSnapshot(path) /\ path \in Snapshots /\ Restore(path)
        BY <3>2, <1>1, <1>3 DEF Start, TypeOK, IsSnapshot
      <4> QED
        BY <4>1, <1>2
    <3> QED
      BY <3>1, <3>2
  <2>3. Behind(image, Memory') /\ Kept(Memory') /\ Vouched(Memory')
    BY <2>2, RestoreAhead
  <2>4. Entered'
    BY <2>1 DEF Entered, At
  <2>5. Trails'
    BY <2>1, <2>2, <2>3, EmptyBehind
       DEF Trails, SnapsBehind, TmpBehind, DiskBehindMemory
  <2>6. SoundAfter
    BY <2>1, <2>3, <1>2 DEF SoundAfter
  <2> QED
    BY <2>1, <2>4, <2>5, <2>6, SoundPartsNext DEF SnapsGone
<1>4. CASE StartRefused
  <2>1. /\ UNCHANGED <<pc, req, snap, path, tmp>> /\ Memory' = Memory
        /\ process # "up" /\ process' # "up"
        /\ \A k \in Handlers : pc[k] = "idle" /\ snap[k] = EmptySnapshot
    BY <1>1, <1>4 DEF StartRefused, serverVars, fileVars, QuietWhenDown, SnapsGone,
                      storeVars, graphVars, repVars, Memory
  <2>2. Entered'
    BY <2>1 DEF Entered, At
  <2>3. Trails'
    BY <2>1, EmptyBehind DEF Trails, SnapsBehind, TmpBehind, DiskBehindMemory
  <2>4. SoundAfter
    BY <2>1, <1>2 DEF SoundAfter
  <2> QED
    BY <2>1, <2>2, <2>3, <2>4, SoundPartsNext DEF SnapsGone
<1>5. CASE Crash
  <2>1. /\ UNCHANGED <<path, tmp>> /\ process' # "up"
        /\ \A k \in Handlers : pc'[k] = "idle" /\ snap'[k] = EmptySnapshot
        /\ members' = NoMembers /\ endorsed' = {}
    BY <1>5 DEF Crash, CloseAll
  <2>2. Kept(Memory') /\ Vouched(Memory')
    BY <2>1 DEF Kept, Vouched, Memory, NoMembers
  <2>3. Entered'
    BY <2>1 DEF Entered, At
  <2>4. Trails'
    BY <2>1, EmptyBehind DEF Trails, SnapsBehind, TmpBehind, DiskBehindMemory
  <2>5. SoundAfter
    BY <2>1, <2>2, <1>2, EmptySound DEF SoundAfter
  <2> QED
    BY <2>1, <2>3, <2>4, <2>5, SoundPartsNext DEF SnapsGone
<1>6. ASSUME NEW h \in Handlers, NEW r, Receive(h, r)
      PROVE  Entered' /\ Trails' /\ SnapsGone' /\ GroupsSound'
  <2>1. /\ UNCHANGED <<secrets, members, snap, path, tmp, process>>
        /\ Memory' = Memory /\ process = "up"
        /\ pc'[h] = "begin"
        /\ \A k \in Handlers : k # h => pc'[k] = pc[k] /\ req'[k] = req[k]
    BY <1>1, <1>6 DEF Receive, Goto, TypeOK, storeVars, graphVars, repVars,
                      fileVars, Memory
  <2>2. Entered'
    BY <2>1, <1>1 DEF Entered, At
  <2>3. Behind(Memory, Memory')
    BY <2>1, <1>1, BehindItself, MemorySnapshot
  <2>4. \A k \in Handlers : pc'[k] \in {"write", "rename"} => pc[k] \in {"write", "rename"}
    BY <2>1
  <2>5. Trails'
    BY <2>1, <2>3, <2>4, <1>1, TrailsKept
  <2>6. SoundAfter
    BY <2>1, <1>2 DEF SoundAfter
  <2> QED
    BY <2>1, <2>2, <2>5, <2>6, SoundPartsNext DEF SnapsGone
<1> QED
  BY <1>3, <1>4, <1>5, <1>6 DEF Tick

\* Groups and the file stay sound together with the accounting, whatever the
\* interleaving of handlers, saves, failing writes, crashes and restarts.
THEOREM GroupInvariant == Spec => []GroupInv
<1>1. ASSUME Init, IInv PROVE GroupInv
  <2>1. /\ \A h \in Handlers : pc[h] = "idle" /\ snap[h] = EmptySnapshot
        /\ path = NoFile /\ tmp = NoFile /\ Memory = EmptySnapshot
    BY <1>1 DEF Init, FileInit, StoreInit, GraphInit, RepInit, Memory, EmptySnapshot
  <2>2. Entered /\ SnapsGone
    BY <2>1 DEF Entered, At, SnapsGone
  <2>3. Trails
    BY <2>1, EmptyBehind
       DEF Trails, SnapsBehind, TmpBehind, DiskBehindMemory, IsSnapshot, Marks
  <2>4. GroupsSound
    BY <2>1, EmptySound, SoundParts DEF IsSnapshot, Marks
  <2> QED
    BY <1>1, <2>2, <2>3, <2>4 DEF GroupInv
<1>2. ASSUME GroupInv, IInv', [Next]_vars PROVE GroupInv'
  <2>1. TypeOK' /\ TypeOK /\ QuietWhenDown
    BY <1>2 DEF IInv, GroupInv
  <2>2. CASE UNCHANGED vars
    <3>1. /\ UNCHANGED <<pc, req, snap, path, tmp, process, secrets, members>>
          /\ Memory' = Memory
      BY <2>2 DEF vars, storeVars, graphVars, repVars, fileVars, serverVars, Memory
    <3>2. Entered' /\ Trails' /\ SnapsGone'
      BY <3>1, <1>2 DEF GroupInv, Entered, At, Trails, SnapsBehind, TmpBehind,
                        DiskBehindMemory, SnapsGone
    <3>3. SoundAfter
      BY <3>1, <1>2, SoundParts DEF GroupInv, SoundAfter
    <3> QED
      BY <3>2, <3>3, <1>2, SoundPartsNext DEF GroupInv
  <2>3. ASSUME NEW h \in Handlers, HandlerStep(h) PROVE GroupInv'
    <3>1. process' = "up"
      BY <2>1, <2>3, HandlerStepUp
    <3> QED
      BY <3>1, <2>1, <2>3, <1>2, GroupsAfterHandlerStep DEF GroupInv, SnapsGone
  <2>4. CASE Next
    BY <2>1, <2>3, <2>4, <1>2, GroupsAfterProcessStep DEF Next, GroupInv
  <2> QED
    BY <2>2, <2>4, <1>2
<1> QED
  BY <1>1, <1>2, InductiveInvariant, PTL DEF Spec

\* No image, in memory, under way or on disk, has a populated group without
\* its secret or an endorsement by a group nobody is in.
THEOREM GroupsHold == Spec => []GroupsSound
BY GroupInvariant, PTL DEF GroupInv

\* While the process is up, the file holds an earlier state of its memory,
\* although saves overlap and share one temporary file.
THEOREM DiskHolds == Spec => []DiskBehindMemory
BY GroupInvariant, PTL DEF GroupInv, Trails

-----------------------------------------------------------------------------
(* One handler at a time and no disk error: what was answered is durable.  *)

Acks ==
       ({"admitted"} \X Peers \X (Codes \cup {None}))
  \cup ({"invite"} \X Codes)
  \cup ({"member"} \X Groups \X Peers)
  \cup ({"endorsed"} \X Groups \X Groups)

\* Nobody else touches the temporary file between open, write and rename.
OwnFile ==
  /\ FileLoads
  /\ \A h \in Handlers :
       /\ pc[h] = "write" => fd[h] = "tmp" /\ tmp = Empty
       /\ pc[h] = "rename" => tmp = snap[h]

\* What a save has copied is still what memory holds.
Fresh ==
  \A h \in Handlers :
    /\ pc[h] \in {"saveGraph", "saveRep", "saveSecrets", "open", "write", "rename"}
         => snap[h].invites = invites /\ snap[h].admissions = admissions
    /\ pc[h] \in {"saveRep", "saveSecrets", "open", "write", "rename"}
         => snap[h].members = members /\ snap[h].endorsed = endorsed

Holds(s) ==
  /\ s.invites = invites /\ s.admissions = admissions
  /\ s.members = members /\ s.endorsed = endorsed

\* The change a save is about is in memory, and after the save in the file.
Promised ==
  \A h \in Handlers :
    /\ pc[h] \in {"save", "saveGraph", "saveRep", "saveSecrets", "open", "write",
                  "rename", "reply"}
         => \A a \in Change(req[h]) : a \in Acks /\ Recorded(Memory, a)
    /\ pc[h] = "reply" => IsSnapshot(path) /\ Holds(path)

SoloInv == GroupInv /\ OwnFile /\ Fresh /\ Promised /\ acked \subseteq Acks
           /\ AckedIsDurable

\* What an image records, an image that it is behind of records too.
LEMMA RecordedAhead ==
  ASSUME NEW s \in Snapshots, NEW t \in Snapshots, Behind(s, t),
         NEW a \in Acks, Recorded(s, a)
  PROVE  Recorded(t, a)
<1>1. CASE a \in {"admitted"} \X Peers \X (Codes \cup {None})
  BY <1>1 DEF Recorded, Behind
<1>2. CASE a \in {"invite"} \X Codes
  BY <1>2 DEF Recorded, Behind
<1>3. CASE a \in {"member"} \X Groups \X Peers
  BY <1>3 DEF Recorded, Behind
<1>4. CASE a \in {"endorsed"} \X Groups \X Groups
  BY <1>4 DEF Recorded, Behind
<1> QED
  BY <1>1, <1>2, <1>3, <1>4 DEF Acks

LEMMA RecordedSame ==
  ASSUME NEW s, NEW a, Holds(s)
  PROVE  Recorded(s, a) <=> Recorded(Memory, a)
BY DEF Recorded, Holds, Memory

\* When a request reaches its save, its change is in memory.
LEMMA ChangeMade ==
  ASSUME TypeOK, TypeOK', MintsStayFresh, NEW h \in Handlers, RequestStep(h),
         pc'[h] = "save"
  PROVE  \A a \in Change(req[h])' : a \in Acks /\ Recorded(Memory, a)'
<1>1. /\ pc \in [Handlers -> Labels]
      /\ req[h] \in AllRequests \cup Mints \cup {NoRequest, DecayTick}
      /\ MemoryOK /\ MemoryOK'
  BY TypeParts, TypePartsNext DEF TypeOK
<1>2. \/ Join(h) \/ CreateApply(h) \/ GroupApply(h) \/ EndorseApply(h)
      \/ ReportAdjusted(h) \/ DecayBegin(h)
  BY <1>1
     DEF RequestStep, JoinRefused, CreateBegin, CreateRefused,
         GroupClaim, GroupMatch, GroupRefused, EndorseBegin,
         EndorseRefused, ReportBegin, ReportRefused, ReportGroups,
         ReportAdjust, StepTo, Refuse, Goto
<1>3. req' = req
  BY <1>2 DEF Join, CreateApply, GroupApply, EndorseApply, ReportAdjusted,
              DecayBegin, StepTo
<1>4. CASE Join(h)
  <2>1. req[h].op = "join" /\ req[h].peer \in Peers
        /\ req[h].code \in Codes \cup {None}
    BY <1>1, <1>4, RequestFields DEF Join, At
  <2>2. admissions'[req[h].peer] # None
    <3>1. CASE UNCHANGED storeVars /\ Admitted(req[h].peer)
      BY <3>1 DEF storeVars, Admitted, AdmissionOf
    <3>2. CASE BecomeFounder(req[h].peer)
      <4>1. [code |-> None, issuer |-> req[h].peer] \in Admissions
        BY <2>1 DEF Admissions, Issuers
      <4> QED
        BY <4>1, <3>2, <2>1, <1>1, InviteAssumption
           DEF BecomeFounder, MemoryOK, AdmissionMap
    <3>3. CASE Admit(req[h].code, req[h].peer)
      <4>1. invites[req[h].code] \in Invites /\ req[h].code \in Codes
        BY <3>3, <1>1 DEF Admit, Exists, MemoryOK, InviteMap
      <4>2. [code |-> req[h].code, issuer |-> invites[req[h].code].issuer] \in Admissions
        BY <4>1 DEF Admissions, Invites
      <4> QED
        BY <4>2, <3>3, <2>1, <1>1, InviteAssumption DEF Admit, MemoryOK, AdmissionMap
    <3> QED
      BY <3>1, <3>2, <3>3, <1>4 DEF Join, BootstrapOk, RedeemOk
  <2>3. admissions'[req[h].peer].code \in Codes \cup {None}
    BY <2>1, <2>2, <1>1 DEF MemoryOK, AdmissionMap, Admissions
  <2>4. Change(req[h])' = {<<"admitted", req[h].peer, admissions'[req[h].peer].code>>}
    BY <2>1, <1>3 DEF Change, AdmissionOf
  <2>5. <<"admitted", req[h].peer, admissions'[req[h].peer].code>> \in Acks
    BY <2>1, <2>3 DEF Acks
  <2>6. Recorded(Memory', <<"admitted", req[h].peer, admissions'[req[h].peer].code>>)
    BY <2>2 DEF Recorded, Memory
  <2> QED
    BY <2>4, <2>5, <2>6
<1>5. CASE CreateApply(h)
  <2>1. req[h] \in Mints /\ req[h].op = "create" /\ req[h].code \in Codes
    BY <1>5 DEF CreateApply, MintsStayFresh, Mints
  <2>2. [issuer |-> req[h].peer, maxUses |-> req[h].maxUses, uses |-> 0] \in Invites
    BY <2>1 DEF Mints, Invites, Issuers
  <2>3. invites'[req[h].code] # None
    BY <2>1, <2>2, <1>1, <1>5, InviteAssumption
       DEF CreateApply, Create, MemoryOK, InviteMap
  <2>4. Change(req[h])' = {<<"invite", req[h].code>>}
    BY <2>1, <1>3 DEF Change
  <2>5. <<"invite", req[h].code>> \in Acks
    BY <2>1 DEF Acks
  <2>6. Recorded(Memory', <<"invite", req[h].code>>)
    BY <2>3 DEF Recorded, Memory
  <2> QED
    BY <2>4, <2>5, <2>6
<1>6. CASE GroupApply(h)
  <2>1. req[h].op = "group" /\ req[h].peer \in Peers /\ req[h].group \in Groups
    BY <1>1, <1>6, RequestFields DEF GroupApply, At
  <2>2. req[h].peer \in members'[req[h].group]
    BY <2>1, <1>1, <1>6 DEF GroupApply, AddMember, MemoryOK
  <2>3. Change(req[h])' = {<<"member", req[h].group, req[h].peer>>}
    BY <2>1, <1>3 DEF Change
  <2>4. <<"member", req[h].group, req[h].peer>> \in Acks
    BY <2>1 DEF Acks
  <2>5. Recorded(Memory', <<"member", req[h].group, req[h].peer>>)
    BY <2>2 DEF Recorded, Memory
  <2> QED
    BY <2>3, <2>4, <2>5
<1>7. CASE EndorseApply(h)
  <2>1. req[h].op = "endorse" /\ req[h].group \in Groups /\ req[h].to \in Groups
    BY <1>1, <1>7, RequestFields DEF EndorseApply, At
  <2>2. <<req[h].group, req[h].to>> \in endorsed'
    BY <1>7 DEF EndorseApply, Endorse
  <2>3. Change(req[h])' = {<<"endorsed", req[h].group, req[h].to>>}
    BY <2>1, <1>3 DEF Change
  <2>4. <<"endorsed", req[h].group, req[h].to>> \in Acks
    BY <2>1 DEF Acks
  <2>5. Recorded(Memory', <<"endorsed", req[h].group, req[h].to>>)
    BY <2>2 DEF Recorded, Memory
  <2> QED
    BY <2>3, <2>4, <2>5
<1>8. CASE ReportAdjusted(h) \/ DecayBegin(h)
  <2>1. req[h].op \in {"report", "decay"}
    BY <1>8 DEF ReportAdjusted, DecayBegin, At
  <2> QED
    BY <2>1, <1>3 DEF Change
<1> QED
  BY <1>2, <1>4, <1>5, <1>6, <1>7, <1>8

LEMMA SoloRequestStep ==
  ASSUME SoloInv, GroupInv', NEW h \in Handlers, Handlers = {h}, RequestStep(h)
  PROVE  SoloInv'
<1>1. /\ TypeOK /\ TypeOK' /\ MintsStayFresh
  BY DEF SoloInv, GroupInv, IInv
<1>2. /\ UNCHANGED <<snap, path, tmp, fd, process, acked>>
      /\ pc'[h] \in {"idle", "apply", "adjust", "save"}
  BY <1>1, RequestStepFrame
<1>3. OwnFile' /\ Fresh'
  BY <1>2 DEF SoloInv, OwnFile, Fresh, FileLoads
<1>4. Promised'
  <2>1. pc'[h] = "save" => \A a \in Change(req[h])' : a \in Acks /\ Recorded(Memory, a)'
    BY <1>1, ChangeMade
  <2> QED
    BY <2>1, <1>2 DEF Promised
<1>5. acked' \subseteq Acks /\ AckedIsDurable'
  BY <1>2 DEF SoloInv, AckedIsDurable
<1> QED
  BY <1>3, <1>4, <1>5 DEF SoloInv

LEMMA SoloGatherStep ==
  ASSUME SoloInv, GroupInv', NEW h \in Handlers, Handlers = {h}, GatherStep(h)
  PROVE  SoloInv'
<1>1. /\ TypeOK /\ Trails /\ GroupsSound
      /\ pc \in [Handlers -> Labels] /\ snap \in [Handlers -> Snapshots]
  BY DEF SoloInv, GroupInv, IInv, TypeOK
<1>2. /\ UNCHANGED <<path, tmp, acked, req>>
      /\ pc'[h] \in {"saveGraph", "saveRep", "saveSecrets", "open"}
      /\ pc[h] \in {"save", "saveGraph", "saveRep", "saveSecrets"}
  BY <1>1 DEF GatherStep, SaveInvites, SaveGraph, SaveRep, SaveSecrets, Gather,
              StepTo, Goto, fileVars
<1>3. /\ Memory' = Memory
      /\ UNCHANGED <<invites, admissions, members, endorsed>>
  BY SaveStepFrame
<1>4. OwnFile'
  BY <1>2 DEF SoloInv, OwnFile, FileLoads
<1>5. Fresh'
  <2>1. CASE SaveInvites(h)
    <3>1. /\ snap'[h].invites = invites /\ snap'[h].admissions = admissions
          /\ pc'[h] = "saveGraph"
      BY <1>1, <2>1 DEF SaveInvites, Gather, StepTo, Goto, EmptySnapshot
    <3> QED
      BY <3>1, <1>3 DEF Fresh
  <2>2. CASE SaveGraph(h)
    <3>1. /\ snap'[h].invites = snap[h].invites
          /\ snap'[h].admissions = snap[h].admissions
          /\ snap'[h].members = members /\ snap'[h].endorsed = endorsed
          /\ pc[h] = "saveGraph"
      BY <1>1, <2>2 DEF SaveGraph, Gather, Snapshots
    <3>2. snap[h].invites = invites /\ snap[h].admissions = admissions
      BY <3>1 DEF SoloInv, Fresh
    <3> QED
      BY <3>1, <3>2, <1>3 DEF Fresh
  <2>3. CASE SaveRep(h) \/ SaveSecrets(h)
    <3>1. /\ snap'[h].invites = snap[h].invites
          /\ snap'[h].admissions = snap[h].admissions
          /\ snap'[h].members = snap[h].members
          /\ snap'[h].endorsed = snap[h].endorsed
          /\ pc[h] \in {"saveRep", "saveSecrets"}
      BY <1>1, <2>3 DEF SaveRep, SaveSecrets, Gather, Snapshots
    <3>2. /\ snap[h].invites = invites /\ snap[h].admissions = admissions
          /\ snap[h].members = members /\ snap[h].endorsed = endorsed
      BY <3>1 DEF SoloInv, Fresh
    <3> QED
      BY <3>1, <3>2, <1>3 DEF Fresh
  <2> QED
    BY <2>1, <2>2, <2>3 DEF GatherStep
<1>6. Promised'
  <2>1. Change(req[h])' = Change(req[h])
    BY <1>2, <1>3 DEF Change, AdmissionOf
  <2>2. \A a \in Change(req[h]) : a \in Acks /\ Recorded(Memory', a)
    BY <1>2, <1>3 DEF SoloInv, Promised
  <2> QED
    BY <2>1, <2>2, <1>2 DEF Promised
<1>7. acked' \subseteq Acks /\ AckedIsDurable'
  BY <1>2 DEF SoloInv, AckedIsDurable
<1> QED
  BY <1>4, <1>5, <1>6, <1>7 DEF SoloInv

\* Only the rename changes the file, and what it puts there is what memory
\* holds, so nothing that was answered before is lost.
LEMMA SoloWriteStep ==
  ASSUME SoloInv, GroupInv', NEW h \in Handlers, Handlers = {h}, WriteStep(h),
         ~DiskMayFail
  PROVE  SoloInv'
<1>1. /\ TypeOK /\ DiskBehindMemory /\ QuietWhenDown
      /\ pc \in [Handlers -> Labels] /\ snap[h] \in Snapshots
      /\ fd \in [Handlers -> {"closed", "tmp", "path", "unlinked"}]
      /\ Memory \in Snapshots
      /\ IsSnapshot(path) => path \in Snapshots
  BY DEF SoloInv, GroupInv, Trails, IInv, TypeOK, IsSnapshot
<1>2. /\ snap' = snap /\ acked' = acked /\ req' = req
      /\ pc[h] \in {"open", "write", "rename"}
      /\ pc'[h] \in {"write", "rename", "reply"}
  BY <1>1, Written
     DEF WriteStep, SaveOpen, SaveWrite, SaveWriteFails, SaveRename, FileStep
<1>3. /\ Memory' = Memory
      /\ UNCHANGED <<invites, admissions, members, endorsed>>
  BY SaveStepFrame
<1>4. Holds(snap[h])
  BY <1>2 DEF SoloInv, Fresh, Holds
<1>5. IsSnapshot(snap[h])
  BY <1>1, FileAssumption DEF IsSnapshot
<1>6. \A a \in acked : IsSnapshot(path) /\ a \in Acks /\ Recorded(Memory, a)
  <2>1. process = "up"
    BY <1>1, <1>2 DEF QuietWhenDown
  <2>2. IsSnapshot(path) => Behind(path, Memory)
    BY <2>1, <1>1 DEF DiskBehindMemory
  <2>3. \A a \in acked : IsSnapshot(path) /\ a \in Acks /\ Recorded(path, a)
    BY DEF SoloInv, AckedIsDurable
  <2> SUFFICES ASSUME NEW a \in acked PROVE Recorded(Memory, a)
    BY <2>3
  <2>4. path \in Snapshots /\ Behind(path, Memory) /\ a \in Acks /\ Recorded(path, a)
    BY <2>2, <2>3, <1>1
  <2> QED
    BY <2>4, <1>1, RecordedAhead
<1>7. \A a \in Change(req[h]) : a \in Acks /\ Recorded(Memory, a)
  BY <1>2 DEF SoloInv, Promised
<1>8. Change(req[h])' = Change(req[h])
  BY <1>2, <1>3 DEF Change, AdmissionOf
<1>9. Fresh'
  BY <1>2, <1>3, <1>4 DEF Fresh, Holds
<1>10. CASE SaveOpen(h)
  <2>1. path' = path /\ tmp' = Empty /\ fd'[h] = "tmp" /\ pc'[h] = "write"
    BY <1>1, <1>10 DEF SaveOpen, OpenTmp, FileStep, Goto
  <2>2. OwnFile'
    BY <2>1 DEF SoloInv, OwnFile, FileLoads
  <2>3. Promised'
    BY <2>1, <1>3, <1>7, <1>8 DEF Promised
  <2>4. AckedIsDurable'
    BY <2>1, <1>2 DEF SoloInv, AckedIsDurable
  <2> QED
    BY <2>2, <2>3, <2>4, <1>2, <1>9 DEF SoloInv
<1>11. CASE SaveWrite(h)
  <2>1. fd[h] = "tmp" /\ tmp = Empty
    BY <1>11 DEF SoloInv, OwnFile, SaveWrite, FileStep
  <2>2. path' = path /\ tmp' = snap[h] /\ pc'[h] = "rename"
    BY <2>1, <1>1, <1>11 DEF SaveWrite, WriteAndClose, Overwritten, FileStep, Goto
  <2>3. OwnFile'
    BY <2>2, <1>2 DEF SoloInv, OwnFile, FileLoads
  <2>4. Promised'
    BY <2>2, <1>3, <1>7, <1>8 DEF Promised
  <2>5. AckedIsDurable'
    BY <2>2, <1>2 DEF SoloInv, AckedIsDurable
  <2> QED
    BY <2>3, <2>4, <2>5, <1>2, <1>9 DEF SoloInv
<1>12. CASE SaveRename(h)
  <2>1. tmp = snap[h]
    BY <1>12 DEF SoloInv, OwnFile, SaveRename, FileStep
  <2>2. path' = snap[h] /\ pc'[h] = "reply"
    BY <2>1, <1>1, <1>5, <1>12 DEF SaveRename, Rename, FileStep, Goto, IsSnapshot, Marks
  <2>3. OwnFile'
    BY <2>2, <1>5 DEF SoloInv, OwnFile, FileLoads, IsSnapshot, Marks
  <2>4. Holds(snap[h])'
    BY <1>2, <1>3, <1>4 DEF Holds
  <2>5. Promised'
    BY <2>2, <2>4, <1>2, <1>3, <1>5, <1>7, <1>8 DEF Promised
  <2>6. AckedIsDurable'
    BY <2>2, <1>2, <1>4, <1>5, <1>6, RecordedSame DEF AckedIsDurable
  <2> QED
    BY <2>3, <2>5, <2>6, <1>2, <1>9 DEF SoloInv
<1> QED
  BY <1>10, <1>11, <1>12 DEF WriteStep, SaveWriteFails

LEMMA SoloReply ==
  ASSUME SoloInv, GroupInv', NEW h \in Handlers, Handlers = {h}, Reply(h)
  PROVE  SoloInv'
<1>1. /\ pc[h] = "reply" /\ pc'[h] = "idle" /\ UNCHANGED <<path, tmp, fd>>
      /\ acked' = acked \cup Change(req[h])
  BY DEF SoloInv, GroupInv, IInv, TypeOK, Reply, Goto, fileVars
<1>2. /\ \A a \in Change(req[h]) : a \in Acks /\ Recorded(Memory, a)
      /\ IsSnapshot(path) /\ Holds(path)
  BY <1>1 DEF SoloInv, Promised
<1>3. \A a \in Change(req[h]) : Recorded(path, a)
  BY <1>2, RecordedSame
<1>4. acked' \subseteq Acks /\ AckedIsDurable'
  BY <1>1, <1>2, <1>3 DEF SoloInv, AckedIsDurable
<1>5. OwnFile' /\ Fresh' /\ Promised'
  BY <1>1 DEF SoloInv, OwnFile, FileLoads, Fresh, Promised
<1> QED
  BY <1>4, <1>5 DEF SoloInv

LEMMA SoloProcessStep ==
  ASSUME SoloInv, GroupInv', NEW h, Handlers = {h},
         \/ Start \/ StartRefused \/ Crash
         \/ \E k \in Handlers, r \in Requests : Receive(k, r)
         \/ \E k \in Handlers : Tick(k)
  PROVE  SoloInv'
<1>1. UNCHANGED <<path, acked>> /\ pc'[h] \in {"idle", "begin"}
  <2>1. CASE Start \/ StartRefused
    BY <2>1 DEF Start, StartRefused, serverVars, fileVars, SoloInv, GroupInv, IInv,
                QuietWhenDown
  <2>2. CASE Crash
    BY <2>2 DEF Crash, CloseAll
  <2>3. ASSUME NEW k \in Handlers, NEW r, Receive(k, r)
        PROVE  UNCHANGED <<path, acked>> /\ pc'[h] \in {"idle", "begin"}
    BY <2>3 DEF Receive, Goto, fileVars, SoloInv, GroupInv, IInv, TypeOK
  <2> QED
    BY <2>1, <2>2, <2>3 DEF Tick
<1>2. OwnFile' /\ Fresh' /\ Promised'
  BY <1>1 DEF SoloInv, OwnFile, FileLoads, Fresh, Promised
<1>3. acked' \subseteq Acks /\ AckedIsDurable'
  BY <1>1 DEF SoloInv, AckedIsDurable
<1> QED
  BY <1>2, <1>3 DEF SoloInv

\* With one handler and a disk that does not fail, the file always loads and
\* holds every change answered so far, through any crashes and restarts.
THEOREM SoloInvariant ==
  ASSUME NEW h, Handlers = {h}, ~DiskMayFail
  PROVE  Spec => []SoloInv
<1>1. ASSUME Init, GroupInv PROVE SoloInv
  <2>1. pc[h] = "idle" /\ path = NoFile /\ acked = {}
    BY <1>1 DEF Init, FileInit
  <2> QED
    BY <2>1, <1>1, FileAssumption
       DEF SoloInv, OwnFile, FileLoads, Fresh, Promised, AckedIsDurable
<1>2. ASSUME SoloInv, GroupInv', [Next]_vars PROVE SoloInv'
  <2>1. CASE UNCHANGED vars
    <3>1. /\ UNCHANGED <<pc, req, snap, path, tmp, fd, acked, invites,
                         admissions, members, endorsed>>
          /\ Memory' = Memory
      BY <2>1 DEF vars, storeVars, graphVars, repVars, fileVars, serverVars, Memory
    <3>2. Change(req[h])' = Change(req[h])
      BY <3>1 DEF Change, AdmissionOf
    <3>3. Promised'
      BY <3>1, <3>2, <1>2 DEF SoloInv, Promised, Holds
    <3> QED
      BY <3>1, <3>3, <1>2 DEF SoloInv, OwnFile, FileLoads, Fresh, AckedIsDurable
  <2>2. ASSUME NEW k \in Handlers, HandlerStep(k) PROVE SoloInv'
    <3>1. Handlers = {k}
      OBVIOUS
    <3> QED
      BY <3>1, <2>2, <1>2, StepKinds, SoloRequestStep, SoloGatherStep,
         SoloWriteStep, SoloReply
  <2>3. CASE Next
    BY <2>2, <2>3, <1>2, SoloProcessStep DEF Next
  <2> QED
    BY <2>1, <2>3, <1>2
<1> QED
  BY <1>1, <1>2, GroupInvariant, PTL DEF Spec

\* While saves do not overlap and the disk does not fail, a crash between any
\* two steps leaves a file that loads.
THEOREM FileLoadsAlone ==
  ASSUME NEW h, Handlers = {h}, ~DiskMayFail
  PROVE  Spec => []FileLoads
BY SoloInvariant, PTL DEF SoloInv, OwnFile

\* Likewise, whatever was answered with success is in the file a restart reads.
THEOREM AckedIsDurableAlone ==
  ASSUME NEW h, Handlers = {h}, ~DiskMayFail
  PROVE  Spec => []AckedIsDurable
BY SoloInvariant, PTL DEF SoloInv

\* Likewise, one peer at most is ever told that it was let in without an
\* invite, over all lives of the process.
THEOREM FoundedOnceAlone ==
  ASSUME NEW h, Handlers = {h}, ~DiskMayFail
  PROVE  Spec => []FoundedOnce
<1>1. SoloInv => FoundedOnce
  <2> SUFFICES ASSUME SoloInv, NEW a \in acked, NEW b \in acked,
                      a[1] = "admitted", b[1] = "admitted", a[3] = None, b[3] = None
               PROVE  a[2] = b[2]
    BY DEF FoundedOnce
  <2>1. IsSnapshot(path) /\ Recorded(path, a) /\ Recorded(path, b)
        /\ a \in Acks /\ b \in Acks
    BY DEF SoloInv, AckedIsDurable
  <2>2. a[2] \in Peers /\ b[2] \in Peers
    BY <2>1 DEF Acks
  <2>3. /\ path.admissions[a[2]] # None /\ path.admissions[a[2]].code = None
        /\ path.admissions[b[2]] # None /\ path.admissions[b[2]].code = None
    BY <2>1 DEF Recorded
  <2>4. OneFounder(path.admissions)
    BY <2>1, GoodParts DEF SoloInv, GroupInv, IInv, GoodFiles, Good
  <2> QED
    BY <2>2, <2>3, <2>4 DEF OneFounder, FoundersOf, Seated
<1> QED
  BY <1>1, SoloInvariant, PTL

\* Likewise, a restart loses nothing that was answered: whenever the process is
\* up, every acknowledged change is in its memory.
THEOREM AckedIsServedAlone ==
  ASSUME NEW h, Handlers = {h}, ~DiskMayFail
  PROVE  Spec => [](process = "up" => \A a \in acked : Recorded(Memory, a))
<1>1. SoloInv => (process = "up" => \A a \in acked : Recorded(Memory, a))
  <2> SUFFICES ASSUME SoloInv, process = "up", NEW a \in acked
               PROVE  Recorded(Memory, a)
    OBVIOUS
  <2>1. IsSnapshot(path) /\ Recorded(path, a) /\ a \in Acks
    BY DEF SoloInv, AckedIsDurable
  <2>2. Behind(path, Memory) /\ path \in Snapshots /\ Memory \in Snapshots
    BY <2>1 DEF SoloInv, GroupInv, IInv, TypeOK, Trails, DiskBehindMemory, IsSnapshot
  <2> QED
    BY <2>1, <2>2, RecordedAhead
<1> QED
  BY <1>1, SoloInvariant, PTL

NotRefused == process # "refused"

\* Likewise, the program always comes up again: main never refuses the file.
THEOREM AlwaysStartsAlone ==
  ASSUME NEW h, Handlers = {h}, ~DiskMayFail
  PROVE  Spec => []NotRefused
<1>1. Init => NotRefused
  BY DEF Init, NotRefused
<1>2. ASSUME SoloInv, NotRefused, [Next]_vars PROVE NotRefused'
  <2>1. ASSUME NEW k \in Handlers, HandlerStep(k) PROVE NotRefused'
    BY <1>2, <2>1, HandlerStepUp DEF SoloInv, GroupInv, IInv, NotRefused
  <2>2. ~StartRefused
    BY <1>2 DEF SoloInv, OwnFile, FileLoads, StartRefused
  <2> QED
    BY <2>1, <2>2, <1>2 DEF Next, Start, Crash, Receive, Tick, vars, NotRefused
<1> QED
  BY <1>1, <1>2, SoloInvariant, PTL DEF Spec
=============================================================================
