---------------------------- MODULE Coordinator ----------------------------
(***************************************************************************)
(* The coordinator process: its concurrent request handlers                *)
(* (internal/coordinator/api.go) over the invite store, the trust graph,   *)
(* the group secrets and the reputation store, the snapshot every          *)
(* state-changing handler saves before it answers, and the process dying   *)
(* and starting again from the state file (cmd/coordinator/main.go).       *)
(*                                                                         *)
(* net/http runs each request on its own goroutine.  Every store has its   *)
(* own lock and no lock is held from one store to the next, so a handler   *)
(* is a program of several steps, one per critical section:                *)
(*                                                                         *)
(*   begin -> [apply -> [adjust]] -> save -> saveGraph -> saveRep          *)
(*         -> saveSecrets -> open -> write -> rename -> reply -> idle      *)
(*                                                                         *)
(* A request here is one that passed the gates in front of the handlers    *)
(* (rate limit, signature, replay and identity checks): a request they     *)
(* turn away changes none of this state.                                   *)
(***************************************************************************)
EXTENDS InviteStore, TrustGraph, Reputation, StateFile

CONSTANTS Secrets,         \* group secrets
          SeedCode,        \* the -invite flag, or None
          SeedUses,        \* the -uses flag
          AllowBootstrap,  \* the -bootstrap-first-member flag
          DecayStep,       \* the -reputation-decay flag
          DiskMayFail,     \* whether a write of the state file may fail
          Ops,             \* the operations a run looks at
          MaxRequests,     \* bound: requests in a run
          MaxCrashes       \* bound: crashes in a run

ASSUME CoordinatorAssumption ==
  /\ SeedCode \in Codes \cup {None}
  /\ SeedUses \in UseLimits
  /\ None \notin Secrets
  /\ {AllowBootstrap, DiskMayFail} \subseteq BOOLEAN
  /\ DecayStep \in Nat /\ MaxRequests \in Nat /\ MaxCrashes \in Nat

VARIABLES secrets,   \* group -> its join secret
          process,   \* "up", "down", or "refused": main could not load the file
          pc,        \* handler -> the step it takes next
          req,       \* handler -> the request it serves
          todo,      \* handler -> groups a report has still to adjust
          snap,      \* handler -> the snapshot it is gathering
          acked,     \* history: the changes that were answered with success
          requests,  \* requests received so far
          crashes    \* crashes so far

serverVars == <<pc, req, todo, snap, acked, requests>>
vars == <<storeVars, graphVars, repVars, fileVars, secrets, process,
          serverVars, crashes>>

NoSecrets == [g \in Groups |-> None]

\* persist.Snapshot; its zero value is also what a missing file loads as.
EmptySnapshot ==
  [invites |-> NoInvites, admissions |-> NoAdmissions,
   members |-> NoMembers, endorsed |-> {}, secrets |-> NoSecrets,
   peerRep |-> NoPeerRep, groupRep |-> NoGroupRep]

\* What a request says, once its signature is accepted.
AllRequests ==
       [op : {"join"}, peer : Peers, code : Codes \cup {None}]
  \cup [op : {"create"}, peer : Peers, maxUses : UseLimits]
  \cup [op : {"group"}, peer : Peers, group : Groups, secret : Secrets]
  \cup [op : {"endorse"}, peer : Peers, group : Groups, to : Groups]
  \cup [op : {"report"}, peer : Peers, subject : Peers, outcome : Outcomes]

Requests == {r \in AllRequests : r.op \in Ops}

\* handleCreateInvite once it has drawn a code.
Mints == [op : {"create"}, peer : Peers, maxUses : UseLimits, code : Codes]

NoRequest == [op |-> "none"]
DecayTick == [op |-> "decay"]

Init ==
  /\ StoreInit /\ GraphInit /\ RepInit /\ FileInit
  /\ secrets = NoSecrets
  /\ process = "down"
  /\ pc = [h \in Handlers |-> "idle"]
  /\ req = [h \in Handlers |-> NoRequest]
  /\ todo = [h \in Handlers |-> {}]
  /\ snap = [h \in Handlers |-> EmptySnapshot]
  /\ acked = {}
  /\ requests = 0
  /\ crashes = 0

-----------------------------------------------------------------------------
(* Start and death of the process.                                         *)

Goto(h, label) == pc' = [pc EXCEPT ![h] = label]

\* The part of a restore that is neither invites nor admissions nor secrets.
RestoreRest(image) ==
  /\ members' = image.members
  /\ endorsed' = image.endorsed
  /\ peerRep' = image.peerRep
  /\ groupRep' = image.groupRep

SeededInvites(image) ==
  [image.invites EXCEPT ![SeedCode] =
     [issuer |-> Operator, maxUses |-> SeedUses, uses |-> 0]]

\* Mutant: main seeds the invite without asking Exists.
RestoreSeedAnew(image) ==
  /\ invites' = IF SeedCode = None THEN image.invites ELSE SeededInvites(image)
  /\ admissions' = image.admissions
  /\ secrets' = image.secrets
  /\ RestoreRest(image)

\* Mutant: Import forgets the admissions.
RestoreInvitesOnly(image) ==
  /\ invites' = image.invites
  /\ admissions' = NoAdmissions
  /\ secrets' = image.secrets
  /\ RestoreRest(image)

\* main: load the file, restore it, and seed the invite if it is not known.
Restore(image) ==
  /\ invites' = IF SeedCode = None \/ image.invites[SeedCode] # None
                THEN image.invites
                ELSE SeededInvites(image)
  /\ admissions' = image.admissions
  /\ secrets' = image.secrets
  /\ RestoreRest(image)

Start ==
  /\ process = "down"
  /\ path = NoFile \/ IsSnapshot(path)
  /\ process' = "up"
  /\ Restore(IF path = NoFile THEN EmptySnapshot ELSE path)
  /\ UNCHANGED <<fileVars, serverVars, crashes>>

\* persist.Load returns an error and main ends the program.
StartRefused ==
  /\ process = "down"
  /\ path \in {Empty, Torn}
  /\ process' = "refused"
  /\ UNCHANGED <<storeVars, graphVars, repVars, fileVars, secrets, serverVars,
                 crashes>>

\* Memory and the handlers in it are gone; the files stay as they are.
Crash ==
  /\ process = "up"
  /\ crashes < MaxCrashes
  /\ crashes' = crashes + 1
  /\ process' = "down"
  /\ invites' = NoInvites /\ admissions' = NoAdmissions
  /\ members' = NoMembers /\ endorsed' = {}
  /\ secrets' = NoSecrets
  /\ peerRep' = NoPeerRep /\ groupRep' = NoGroupRep
  /\ CloseAll
  /\ pc' = [h \in Handlers |-> "idle"]
  /\ req' = [h \in Handlers |-> NoRequest]
  /\ todo' = [h \in Handlers |-> {}]
  /\ snap' = [h \in Handlers |-> EmptySnapshot]
  /\ UNCHANGED <<acked, requests>>

-----------------------------------------------------------------------------
(* Requests come in; the decay ticker is one goroutine.                    *)

Receive(h, r) ==
  /\ process = "up"
  /\ pc[h] = "idle"
  /\ requests < MaxRequests
  /\ requests' = requests + 1
  /\ req' = [req EXCEPT ![h] = r]
  /\ Goto(h, "begin")
  /\ UNCHANGED <<storeVars, graphVars, repVars, fileVars, secrets, process,
                 todo, snap, acked, crashes>>

Tick(h) ==
  /\ "decay" \in Ops
  /\ \A k \in Handlers : req[k].op # "decay"
  /\ Receive(h, DecayTick)

\* The handler ends without an acknowledgement (an HTTP error).
Refuse(h) ==
  /\ Goto(h, "idle")
  /\ req' = [req EXCEPT ![h] = NoRequest]
  /\ UNCHANGED <<graphVars, repVars, fileVars, secrets, process, todo, snap,
                 acked, requests, crashes>>

\* One step of a handler that leaves everything but the named stores alone.
StepTo(h, label) ==
  /\ Goto(h, label)
  /\ UNCHANGED <<fileVars, process, req, acked, requests, crashes>>

At(h, label, op) == pc[h] = label /\ req[h].op = op

-----------------------------------------------------------------------------
(* handleJoin                                                              *)

FirstRun(h) == req[h].code = None /\ AllowBootstrap

Join(h) ==
  /\ At(h, "begin", "join")
  /\ IF FirstRun(h) THEN BootstrapOk(req[h].peer)
                    ELSE RedeemOk(req[h].code, req[h].peer)
  /\ StepTo(h, "save")
  /\ UNCHANGED <<graphVars, repVars, secrets, todo, snap>>

JoinRefused(h) ==
  /\ At(h, "begin", "join")
  /\ IF FirstRun(h) THEN BootstrapClosed(req[h].peer)
                    ELSE RedeemFails(req[h].code, req[h].peer)
  /\ Refuse(h)

(* handleCreateInvite                                                      *)

\* The handler has drawn a code that Exists did not know; Create comes next.
Minting(h) == At(h, "apply", "create")

\* Mutant: the code is drawn without asking Exists.
FreshCodeUnchecked(c) == \A h \in Handlers : Minting(h) => req[h].code # c

\* The code is random: no two calls of the generator agree.
FreshCode(c) ==
  /\ ~Exists(c)
  /\ \A h \in Handlers : Minting(h) => req[h].code # c

CreateBegin(h) ==
  /\ At(h, "begin", "create")
  /\ Admitted(req[h].peer)
  /\ \E c \in Codes :
       /\ FreshCode(c)
       /\ req' = [req EXCEPT ![h] =
                    [op |-> "create", peer |-> req[h].peer,
                     maxUses |-> req[h].maxUses, code |-> c]]
  /\ Goto(h, "apply")
  /\ UNCHANGED <<storeVars, graphVars, repVars, fileVars, secrets, process,
                 todo, snap, acked, requests, crashes>>

CreateRefused(h) ==
  /\ At(h, "begin", "create")
  /\ ~Admitted(req[h].peer)
  /\ Refuse(h)
  /\ UNCHANGED storeVars

CreateApply(h) ==
  /\ Minting(h)
  /\ Create(req[h].code, req[h].peer, req[h].maxUses)
  /\ StepTo(h, "save")
  /\ UNCHANGED <<graphVars, repVars, secrets, todo, snap>>

(* handleGroupJoin: the secret and the member are two critical sections.   *)

\* No secret yet: this request sets it and will create the group.
GroupClaim(h) ==
  /\ At(h, "begin", "group")
  /\ secrets[req[h].group] = None
  /\ secrets' = [secrets EXCEPT ![req[h].group] = req[h].secret]
  /\ StepTo(h, "apply")
  /\ UNCHANGED <<storeVars, graphVars, repVars, todo, snap>>

GroupMatch(h) ==
  /\ At(h, "begin", "group")
  /\ secrets[req[h].group] = req[h].secret
  /\ StepTo(h, "apply")
  /\ UNCHANGED <<storeVars, graphVars, repVars, secrets, todo, snap>>

GroupRefused(h) ==
  /\ At(h, "begin", "group")
  /\ secrets[req[h].group] \notin {None, req[h].secret}
  /\ Refuse(h)
  /\ UNCHANGED storeVars

\* Mutant: the handler forgets to save.
GroupApplyUnsaved(h) ==
  /\ At(h, "apply", "group")
  /\ AddMember(req[h].group, req[h].peer)
  /\ StepTo(h, "reply")
  /\ UNCHANGED <<storeVars, repVars, secrets, todo, snap>>

GroupApply(h) ==
  /\ At(h, "apply", "group")
  /\ AddMember(req[h].group, req[h].peer)
  /\ StepTo(h, "save")
  /\ UNCHANGED <<storeVars, repVars, secrets, todo, snap>>

(* handleGroupEndorse                                                      *)

EndorseBegin(h) ==
  /\ At(h, "begin", "endorse")
  /\ IsMember(req[h].group, req[h].peer)
  /\ StepTo(h, "apply")
  /\ UNCHANGED <<storeVars, graphVars, repVars, secrets, todo, snap>>

EndorseRefused(h) ==
  /\ At(h, "begin", "endorse")
  /\ ~IsMember(req[h].group, req[h].peer)
  /\ Refuse(h)
  /\ UNCHANGED storeVars

EndorseApply(h) ==
  /\ At(h, "apply", "endorse")
  /\ Endorse(req[h].group, req[h].to)
  /\ StepTo(h, "save")
  /\ UNCHANGED <<storeVars, repVars, secrets, todo, snap>>

(* handleReport: the peer's score, then the list of its groups, then each  *)
(* group's score, under a lock of their own each.                          *)

ReportAllowed(r) == Admitted(r.peer) /\ r.subject # r.peer

ReportBegin(h) ==
  /\ At(h, "begin", "report")
  /\ ReportAllowed(req[h])
  /\ AdjustPeer(req[h].subject, Delta(req[h].outcome))
  /\ StepTo(h, "apply")
  /\ UNCHANGED <<storeVars, graphVars, secrets, todo, snap>>

ReportRefused(h) ==
  /\ At(h, "begin", "report")
  /\ ~ReportAllowed(req[h])
  /\ Refuse(h)
  /\ UNCHANGED storeVars

ReportGroups(h) ==
  /\ At(h, "apply", "report")
  /\ todo' = [todo EXCEPT ![h] = GroupsOf(req[h].subject)]
  /\ StepTo(h, "adjust")
  /\ UNCHANGED <<storeVars, graphVars, repVars, secrets, snap>>

ReportAdjust(h) ==
  /\ At(h, "adjust", "report")
  /\ \E g \in todo[h] :
       /\ AdjustGroup(g, Delta(req[h].outcome))
       /\ todo' = [todo EXCEPT ![h] = @ \ {g}]
  /\ StepTo(h, "adjust")
  /\ UNCHANGED <<storeVars, graphVars, secrets, snap>>

ReportAdjusted(h) ==
  /\ At(h, "adjust", "report")
  /\ todo[h] = {}
  /\ StepTo(h, "save")
  /\ UNCHANGED <<storeVars, graphVars, repVars, secrets, todo, snap>>

(* DecayReputation                                                         *)

DecayBegin(h) ==
  /\ At(h, "begin", "decay")
  /\ Decay(DecayStep)
  /\ StepTo(h, "save")
  /\ UNCHANGED <<storeVars, graphVars, secrets, todo, snap>>

-----------------------------------------------------------------------------
(* save: Snapshot gathers the stores one after the other, then             *)
(* persist.Save writes the file.                                           *)

Gather(h, from, to, image) ==
  /\ pc[h] = from
  /\ snap' = [snap EXCEPT ![h] = image]
  /\ StepTo(h, to)
  /\ UNCHANGED <<storeVars, graphVars, repVars, secrets, todo>>

SaveInvites(h) ==
  Gather(h, "save", "saveGraph",
         [EmptySnapshot EXCEPT !.invites = invites, !.admissions = admissions])

\* Mutant: the admissions are exported after the invites, under a lock of
\* their own.
SaveGraphAndAdmissions(h) ==
  Gather(h, "saveGraph", "saveRep",
         [snap[h] EXCEPT !.members = members, !.endorsed = endorsed,
                         !.admissions = admissions])

SaveGraph(h) ==
  Gather(h, "saveGraph", "saveRep",
         [snap[h] EXCEPT !.members = members, !.endorsed = endorsed])

SaveRep(h) ==
  Gather(h, "saveRep", "saveSecrets",
         [snap[h] EXCEPT !.peerRep = peerRep, !.groupRep = groupRep])

\* Mutant: the snapshot leaves the secrets out.
SaveNoSecrets(h) == Gather(h, "saveSecrets", "open", snap[h])

SaveSecrets(h) ==
  Gather(h, "saveSecrets", "open", [snap[h] EXCEPT !.secrets = secrets])

FileStep(h, from, to) ==
  /\ pc[h] = from
  /\ Goto(h, to)
  /\ UNCHANGED <<storeVars, graphVars, repVars, secrets, process, req, todo,
                 snap, acked, requests, crashes>>

SaveOpen(h) == FileStep(h, "open", "write") /\ OpenTmp(h)

SaveWrite(h) == FileStep(h, "write", "rename") /\ WriteAndClose(h, snap[h])

\* An error of persist.Save is logged; the handler answers all the same.
SaveWriteFails(h) ==
  /\ DiskMayFail
  /\ FileStep(h, "write", "reply")
  /\ WriteFails(h)

SaveRename(h) == FileStep(h, "rename", "reply") /\ Rename

\* The change that the handler reports as done.
Change(r) ==
  CASE r.op = "join"    -> {<<"admitted", r.peer, AdmissionOf(r.peer).code>>}
    [] r.op = "create"  -> {<<"invite", r.code>>}
    [] r.op = "group"   -> {<<"member", r.group, r.peer>>}
    [] r.op = "endorse" -> {<<"endorsed", r.group, r.to>>}
    [] OTHER            -> {}

Reply(h) ==
  /\ pc[h] = "reply"
  /\ acked' = acked \cup Change(req[h])
  /\ Goto(h, "idle")
  /\ req' = [req EXCEPT ![h] = NoRequest]
  /\ snap' = [snap EXCEPT ![h] = EmptySnapshot]
  /\ UNCHANGED <<storeVars, graphVars, repVars, fileVars, secrets, process,
                 todo, requests, crashes>>

-----------------------------------------------------------------------------
HandlerStep(h) ==
  \/ Join(h) \/ JoinRefused(h)
  \/ CreateBegin(h) \/ CreateRefused(h) \/ CreateApply(h)
  \/ GroupClaim(h) \/ GroupMatch(h) \/ GroupRefused(h) \/ GroupApply(h)
  \/ EndorseBegin(h) \/ EndorseRefused(h) \/ EndorseApply(h)
  \/ ReportBegin(h) \/ ReportRefused(h) \/ ReportGroups(h)
  \/ ReportAdjust(h) \/ ReportAdjusted(h)
  \/ DecayBegin(h)
  \/ SaveInvites(h) \/ SaveGraph(h) \/ SaveRep(h) \/ SaveSecrets(h)
  \/ SaveOpen(h) \/ SaveWrite(h) \/ SaveWriteFails(h) \/ SaveRename(h)
  \/ Reply(h)

Next ==
  \/ Start \/ StartRefused \/ Crash
  \/ \E h \in Handlers, r \in Requests : Receive(h, r)
  \/ \E h \in Handlers : Tick(h)
  \/ \E h \in Handlers : HandlerStep(h)

Spec == Init /\ [][Next]_vars

-----------------------------------------------------------------------------
(* Properties                                                              *)

Labels == {"idle", "begin", "apply", "adjust", "save", "saveGraph", "saveRep",
           "saveSecrets", "open", "write", "rename", "reply"}

Snapshots ==
  [invites : InviteMap, admissions : AdmissionMap,
   members : [Groups -> SUBSET Peers], endorsed : SUBSET (Groups \X Groups),
   secrets : [Groups -> Secrets \cup {None}],
   peerRep : [Peers -> Int], groupRep : [Groups -> Int]]

\* The marks are no snapshots, and a missing file is neither empty nor torn.
ASSUME FileAssumption ==
  Marks \cap Snapshots = {} /\ NoFile \notin {Empty, Torn}

\* What is in memory, as a snapshot.
Memory ==
  [invites |-> invites, admissions |-> admissions, members |-> members,
   endorsed |-> endorsed, secrets |-> secrets, peerRep |-> peerRep,
   groupRep |-> groupRep]

\* Every variable has its type.
TypeOK ==
  /\ Memory \in Snapshots
  /\ process \in {"up", "down", "refused"}
  /\ pc \in [Handlers -> Labels]
  /\ req \in [Handlers -> AllRequests \cup Mints \cup {NoRequest, DecayTick}]
  /\ snap \in [Handlers -> Snapshots]
  /\ todo \in [Handlers -> SUBSET Groups]
  /\ {path, tmp} \subseteq Snapshots \cup Marks
  /\ fd \in [Handlers -> {"closed", "tmp", "path", "unlinked"}]
  /\ requests \in 0..MaxRequests /\ crashes \in 0..MaxCrashes

\* No handler runs while the process is down.
QuietWhenDown ==
  process # "up" => \A h \in Handlers : pc[h] = "idle"

\* Between a handler's Exists and its Create nothing makes the code a known
\* one, nor its peer a stranger: Create never overwrites an invite.
MintsStayFresh ==
  \A h \in Handlers : Minting(h) =>
    /\ req[h] \in Mints
    /\ ~Exists(req[h].code) /\ Admitted(req[h].peer)
    /\ \A k \in Handlers \ {h} : Minting(k) => req[k].code # req[h].code

\* Every snapshot the process holds in memory, is gathering or has on disk.
Images ==
  {Memory} \cup {snap[h] : h \in Handlers}
  \cup {content \in {path, tmp} : IsSnapshot(content)}

\* The use counters agree with the admissions in memory, in every snapshot
\* under way and in whatever a crash would leave to restart from (Export
\* copies both maps under one lock).
SeatAccounting ==
  \A s \in Images : SeatsExact(s.invites, s.admissions)

\* In every image each peer is vouched for by the operator, the founder, of
\* whom there is one at most, or a peer admitted in the same image, along a
\* chain that ends.
Traceable ==
  \A s \in Images :
    /\ OneFounder(s.admissions)
    /\ ChainComplete(s.invites, s.admissions)
    /\ ChainGrounded(s.admissions)

\* The images a restart could load: all the stores are in them.
WholeImages ==
  {Memory} \cup {content \in {path, tmp} : IsSnapshot(content)}
           \cup {snap[h] : h \in {k \in Handlers :
                                   pc[k] \in {"open", "write", "rename"}}}

\* A group with members has its secret in the same image, so no restart turns
\* a populated group into one whose secret the next caller may choose.
GroupsKeepSecret ==
  \A s \in WholeImages, g \in Groups : s.members[g] # {} => s.secrets[g] # None

\* A group vouches only for others after somebody joined it.
EndorserHasMembers ==
  \A s \in Images : \A e \in s.endorsed : s.members[e[1]] # {}

\* However requests to enter groups and to endorse interleave with each other
\* and with saves, no image gives a group away or lets nobody vouch.
GroupsSound == GroupsKeepSecret /\ EndorserHasMembers

\* s holds nothing that t does not: no admission, use, invite, member,
\* endorsement or secret that t lacks or has otherwise.
Behind(s, t) ==
  /\ \A p \in Peers : s.admissions[p] \in {None, t.admissions[p]}
  /\ \A c \in Codes : s.invites[c] # None =>
       /\ t.invites[c] # None
       /\ s.invites[c].issuer = t.invites[c].issuer
       /\ s.invites[c].maxUses = t.invites[c].maxUses
       /\ s.invites[c].uses <= t.invites[c].uses
  /\ \A g \in Groups : s.members[g] \subseteq t.members[g]
  /\ s.endorsed \subseteq t.endorsed
  /\ \A g \in Groups : s.secrets[g] \in {None, t.secrets[g]}

\* While the process is up, the file is an earlier state of its memory, never
\* one that contradicts it, whatever order the handlers saved in.
DiskBehindMemory ==
  process = "up" /\ IsSnapshot(path) => Behind(path, Memory)

Recorded(s, a) ==
  CASE a[1] = "admitted" -> /\ s.admissions[a[2]] # None
                            /\ s.admissions[a[2]].code = a[3]
    [] a[1] = "invite"   -> s.invites[a[2]] # None
    [] a[1] = "member"   -> a[3] \in s.members[a[2]]
    [] a[1] = "endorsed" -> <<a[2], a[3]>> \in s.endorsed

\* A change that was answered with success is in the state file, so that a
\* restart does not lose it.
AckedIsDurable ==
  \A a \in acked : IsSnapshot(path) /\ Recorded(path, a)

\* For as long as the process lives, whatever its handlers do at once, every
\* step of the store is a step of the seat ledger: a code admits no more peers
\* than it has seats, an admitted peer never takes a second seat nor leaves
\* the first, a code is issued once, the founder's place given away once.
FollowsLedger == [][
  process' = process => [Ledger!Next]_(Ledger!ledgerVars)]_vars

\* The state file, once it exists, can be loaded.
FileLoads == path \notin {Empty, Torn}

\* "allow exactly one authenticated peer to become the founder when no members
\* have ever been admitted": over all lives of the process, one peer at most
\* is told that it was admitted without an invite.
FoundedOnce ==
  \A a, b \in acked :
    a[1] = "admitted" /\ b[1] = "admitted" /\ a[3] = None /\ b[3] = None
      => a[2] = b[2]

Shrinks(before, after) ==
  \/ 0 <= after /\ after <= before
  \/ before <= after /\ after <= 0

\* However decay and reports mix, a decay step moves no score across zero nor
\* further from it.
DecayShrinks == [][
  \A h \in Handlers : DecayBegin(h) =>
    /\ \A p \in Peers : Shrinks(peerRep[p], peerRep'[p])
    /\ \A g \in Groups : Shrinks(groupRep[g], groupRep'[g])]_vars
=============================================================================
