------------------------- MODULE InviteStore_proofs -------------------------
(***************************************************************************)
(* Proofs about the invite store, for any finite set of peers: its use     *)
(* counters count the peers it admitted, the chain of vouching has no gap, *)
(* and it implements the seat ledger.                                      *)
(***************************************************************************)
EXTENDS InviteStore, FiniteSetTheorems, TLAPS

\* The peers admitted through a code are finitely many.
LEMMA SeatedFinite ==
  ASSUME NEW adm, NEW c
  PROVE  IsFiniteSet(Seated(adm, c))
<1>1. Seated(adm, c) \subseteq Peers
  BY DEF Seated
<1> QED
  BY <1>1, InviteAssumption, FS_Subset

\* Admitting one more peer through c adds exactly that peer to c's seats and
\* leaves the seats of every other code alone.
LEMMA SeatedAfterAdmit ==
  ASSUME NEW adm \in AdmissionMap, NEW p \in Peers, adm[p] = None,
         NEW a \in Admissions,
         NEW new, new[p] = a, \A q \in Peers : q # p => new[q] = adm[q]
  PROVE  /\ Seated(new, a.code) = Seated(adm, a.code) \cup {p}
         /\ Cardinality(Seated(new, a.code)) = Cardinality(Seated(adm, a.code)) + 1
         /\ Cardinality(Seated(adm, a.code)) \in Nat
         /\ \A c : c # a.code => Seated(new, c) = Seated(adm, c)
<1>0. None \notin Admissions
  BY InviteAssumption
<1>3. p \notin Seated(adm, a.code)
  BY DEF Seated
<1>4. Seated(new, a.code) = Seated(adm, a.code) \cup {p}
  BY <1>0 DEF Seated
<1>5. /\ Cardinality(Seated(new, a.code)) = Cardinality(Seated(adm, a.code)) + 1
      /\ Cardinality(Seated(adm, a.code)) \in Nat
  BY <1>3, <1>4, SeatedFinite, FS_AddElement, FS_CardinalityType
<1>6. ASSUME NEW c, c # a.code
      PROVE  Seated(new, c) = Seated(adm, c)
  BY <1>6, <1>0 DEF Seated
<1> QED
  BY <1>4, <1>5, <1>6

-----------------------------------------------------------------------------
(* The invariant is kept by each operation.  It is stated on the state     *)
(* alone, so that the coordinator's proof can use it step by step.         *)

StoreInv ==
  /\ StoreTypeOK
  /\ SeatsExact(invites, admissions)
  /\ ChainComplete(invites, admissions)
  /\ ChainGrounded(admissions)
  /\ OneFounder(admissions)

LEMMA StoreInitOK == StoreInit => StoreInv
<1> SUFFICES ASSUME StoreInit PROVE StoreInv
  OBVIOUS
<1>1. StoreTypeOK
  BY DEF StoreInit, StoreTypeOK, NoInvites, NoAdmissions, InviteMap, AdmissionMap
<1>2. SeatsExact(invites, admissions)
  BY DEF StoreInit, SeatsExact, NoInvites, NoAdmissions, Seated
<1>3. ChainComplete(invites, admissions)
  BY DEF StoreInit, ChainComplete, NoInvites, NoAdmissions
<1>4. ChainGrounded(admissions)
  BY DEF StoreInit, ChainGrounded, NoAdmissions
<1>5. OneFounder(admissions)
  BY DEF StoreInit, OneFounder, FoundersOf, Seated, NoAdmissions
<1> QED
  BY <1>1, <1>2, <1>3, <1>4, <1>5 DEF StoreInv

\* Adding an unused invite for a code that is not in the map, issued by the
\* operator or an admitted peer, to any good pair of maps.
LEMMA FreshInviteOK ==
  ASSUME NEW old \in InviteMap, NEW adm \in AdmissionMap,
         SeatsExact(old, adm), ChainComplete(old, adm),
         NEW c \in Codes, old[c] = None,
         NEW i \in Issuers, i \in Peers => adm[i] # None,
         NEW m \in UseLimits,
         NEW new, new = [old EXCEPT ![c] =
                           [issuer |-> i, maxUses |-> m, uses |-> 0]]
  PROVE  /\ new \in InviteMap
         /\ SeatsExact(new, adm)
         /\ ChainComplete(new, adm)
<1> DEFINE inv == [issuer |-> i, maxUses |-> m, uses |-> 0]
<1>1. /\ inv \in Invites /\ inv # None
      /\ inv.issuer = i /\ inv.maxUses = m /\ inv.uses = 0
      /\ new = [old EXCEPT ![c] = inv]
  BY InviteAssumption DEF Invites
<1> HIDE DEF inv
<1>2. /\ new \in InviteMap
      /\ new[c] = inv
      /\ \A d \in Codes : d # c => new[d] = old[d]
  BY ONLY <1>1, old \in InviteMap, c \in Codes DEF InviteMap
<1>3. SeatsExact(new, adm)
  <2> SUFFICES ASSUME NEW d \in Codes
               PROVE  IF new[d] = None
                      THEN Seated(adm, d) = {}
                      ELSE /\ new[d].uses = Cardinality(Seated(adm, d))
                           /\ new[d].uses <= new[d].maxUses
    BY DEF SeatsExact
  <2>1. CASE d = c
    <3>1. Seated(adm, c) = {}
      BY DEF SeatsExact
    <3>2. Cardinality(Seated(adm, c)) = 0
      BY <3>1, FS_EmptySet
    <3>3. 0 <= m
      BY InviteAssumption
    <3> QED
      BY <2>1, <3>2, <3>3, <1>1, <1>2
  <2>2. CASE d # c
    BY ONLY <2>2, <1>2, d \in Codes, SeatsExact(old, adm) DEF SeatsExact
  <2> QED
    BY <2>1, <2>2
<1>4. ChainComplete(new, adm)
  BY ONLY <1>1, <1>2, ChainComplete(old, adm), old[c] = None, c \in Codes,
          i \in Peers => adm[i] # None
     DEF ChainComplete
<1> QED
  BY <1>2, <1>3, <1>4

\* Creating a code that is not in use, for an admitted issuer.
LEMMA CreateKeepsInv ==
  ASSUME StoreInv, NEW c \in Codes, NEW i \in Issuers, NEW m \in UseLimits,
         ~Exists(c), i \in Peers => Admitted(i), Create(c, i, m)
  PROVE  StoreInv'
<1>1. /\ invites \in InviteMap /\ admissions \in AdmissionMap
      /\ invites[c] = None /\ (i \in Peers => admissions[i] # None)
      /\ invites' = [invites EXCEPT ![c] =
                       [issuer |-> i, maxUses |-> m, uses |-> 0]]
      /\ admissions' = admissions
  BY DEF StoreInv, StoreTypeOK, Exists, Admitted, AdmissionOf, Create
<1>2. SeatsExact(invites, admissions) /\ ChainComplete(invites, admissions)
  BY DEF StoreInv
<1>3. /\ invites' \in InviteMap
      /\ SeatsExact(invites', admissions)
      /\ ChainComplete(invites', admissions)
  BY <1>1, <1>2, FreshInviteOK
<1> QED
  BY <1>1, <1>3 DEF StoreInv, StoreTypeOK

LEMMA AdmitKeepsInv ==
  ASSUME StoreInv, NEW c, NEW p \in Peers, Admit(c, p)
  PROVE  StoreInv'
<1> DEFINE a == [code |-> c, issuer |-> invites[c].issuer]
           inv == [invites[c] EXCEPT !.uses = @ + 1]
<1>1. /\ c \in Codes /\ invites[c] \in Invites /\ admissions[p] = None
      /\ invites[c] # None
      /\ invites[c].uses < invites[c].maxUses
      /\ invites[c].uses \in Nat /\ invites[c].maxUses \in Nat
  BY InviteAssumption
     DEF Admit, Exists, Admitted, AdmissionOf, StoreInv, StoreTypeOK, InviteMap,
         Invites
<1>2. /\ a \in Admissions /\ a # None
      /\ a.code = c /\ a.issuer = invites[c].issuer
  BY <1>1, InviteAssumption DEF Admissions, Invites
<1>3. /\ invites' = [invites EXCEPT ![c] = inv]
      /\ inv \in Invites /\ inv # None
      /\ inv.issuer = invites[c].issuer /\ inv.maxUses = invites[c].maxUses
      /\ inv.uses = invites[c].uses + 1
  BY <1>1, InviteAssumption DEF Admit, Invites
<1>4. admissions' = [admissions EXCEPT ![p] = a]
  BY DEF Admit
<1> HIDE DEF a, inv
<1>5. /\ invites' \in InviteMap
      /\ invites'[c] = inv
      /\ \A d \in Codes : d # c => invites'[d] = invites[d]
  BY <1>1, <1>3 DEF StoreInv, StoreTypeOK, InviteMap
<1>6. /\ admissions \in AdmissionMap /\ admissions' \in AdmissionMap
      /\ admissions'[p] = a
      /\ \A q \in Peers : q # p => admissions'[q] = admissions[q]
  BY <1>2, <1>4 DEF StoreInv, StoreTypeOK, AdmissionMap
<1>10. /\ Cardinality(Seated(admissions', c)) = Cardinality(Seated(admissions, c)) + 1
       /\ Cardinality(Seated(admissions, c)) \in Nat
       /\ \A d : d # c => Seated(admissions', d) = Seated(admissions, d)
  BY ONLY <1>1, <1>2, <1>6, p \in Peers, SeatedAfterAdmit
<1>7. SeatsExact(invites, admissions)'
  <2> SUFFICES ASSUME NEW d \in Codes
               PROVE  IF invites'[d] = None
                      THEN Seated(admissions', d) = {}
                      ELSE /\ invites'[d].uses = Cardinality(Seated(admissions', d))
                           /\ invites'[d].uses <= invites'[d].maxUses
    BY DEF SeatsExact
  <2>1. CASE d = c
    <3>1. invites[c].uses = Cardinality(Seated(admissions, c))
      BY <1>1 DEF StoreInv, SeatsExact
    <3>2. invites[c].uses + 1 <= invites[c].maxUses
      BY <1>1
    <3> QED
      BY <2>1, <3>1, <3>2, <1>3, <1>5, <1>10
  <2>2. CASE d # c
    BY <2>2, <1>5, <1>10 DEF StoreInv, SeatsExact
  <2> QED
    BY <2>1, <2>2
<1>8. ChainComplete(invites, admissions)'
  <2>2. \A d \in Codes : invites[d] # None =>
          invites'[d] # None /\ invites'[d].issuer = invites[d].issuer
    BY <1>3, <1>5
  <2>3. ASSUME NEW q \in Peers, admissions'[q] # None
        PROVE  IF admissions'[q].code = None
               THEN admissions'[q].issuer = q
               ELSE /\ invites'[admissions'[q].code] # None
                    /\ admissions'[q].issuer
                         = invites'[admissions'[q].code].issuer
    <3>1. CASE q = p
      BY <3>1, <1>1, <1>2, <1>3, <1>5, <1>6, InviteAssumption
    <3>2. CASE q # p
      <4>1. admissions'[q] = admissions[q] /\ admissions[q] \in Admissions
        BY <3>2, <1>6, <2>3 DEF StoreInv, StoreTypeOK, AdmissionMap
      <4>2. admissions[q].code \in Codes \cup {None}
        BY <4>1 DEF Admissions
      <4> QED
        BY <4>1, <4>2, <2>2, <2>3 DEF StoreInv, ChainComplete
    <3> QED
      BY <3>1, <3>2
  <2>4. ASSUME NEW d \in Codes, invites'[d] # None, invites'[d].issuer \in Peers
        PROVE  admissions'[invites'[d].issuer] # None
    <3>1. invites[d] # None /\ invites'[d].issuer = invites[d].issuer
      BY <2>4, <1>1, <1>3, <1>5
    <3>2. admissions[invites[d].issuer] # None
      BY <2>4, <3>1 DEF StoreInv, ChainComplete
    <3> QED
      BY <2>4, <3>1, <3>2, <1>6, <1>2
  <2> QED
    BY <2>3, <2>4 DEF ChainComplete
<1>9. ChainGrounded(admissions)'
  <2>1. \A q \in Peers : admissions[q] # None /\ admissions[q].code # None
                            => admissions[q].issuer # p
    <3> SUFFICES ASSUME NEW q \in Peers, admissions[q] # None,
                        admissions[q].code # None, admissions[q].issuer = p
                 PROVE  FALSE
      OBVIOUS
    <3>1. admissions[q].code \in Codes
      BY <1>6 DEF AdmissionMap, Admissions
    <3>2. admissions[p] # None
      BY <3>1 DEF StoreInv, ChainComplete
    <3> QED
      BY <3>2, <1>1
  <2>2. a.issuer # p
    BY <1>1, <1>2 DEF StoreInv, ChainComplete
  <2> SUFFICES ASSUME NEW S \in SUBSET {q \in Peers : /\ admissions'[q] # None
                                                     /\ admissions'[q].code # None},
                      S # {}
               PROVE  \E q \in S : admissions'[q].issuer \notin S
    BY DEF ChainGrounded
  <2>3. CASE S \ {p} = {}
    BY <2>2, <2>3, <1>6
  <2>4. CASE S \ {p} # {}
    <3> DEFINE T == S \ {p}
    <3>1. T \in SUBSET {q \in Peers : admissions[q] # None /\ admissions[q].code # None}
      BY <1>6
    <3>2. PICK q \in T : admissions[q].issuer \notin T
      BY <2>4, <3>1 DEF StoreInv, ChainGrounded
    <3>3. admissions[q].issuer # p /\ admissions'[q] = admissions[q]
      BY <2>1, <3>1, <1>6
    <3> QED
      BY <3>2, <3>3
  <2> QED
    BY <2>3, <2>4
<1>11. OneFounder(admissions)'
  <2>1. FoundersOf(admissions') = FoundersOf(admissions)
    BY <1>1, <1>10, InviteAssumption DEF FoundersOf
  <2> QED
    BY <2>1 DEF StoreInv, OneFounder
<1> QED
  BY <1>5, <1>6, <1>7, <1>8, <1>9, <1>11 DEF StoreInv, StoreTypeOK

LEMMA BecomeFounderKeepsInv ==
  ASSUME StoreInv, NEW p \in Peers, BecomeFounder(p)
  PROVE  StoreInv'
<1> DEFINE a == [code |-> None, issuer |-> p]
<1>1. /\ a \in Admissions /\ a # None /\ a.code = None /\ a.issuer = p
      /\ admissions[p] = None
  BY InviteAssumption
     DEF Admissions, Issuers, BecomeFounder, Admitted, AdmissionOf
<1>2. invites' = invites /\ admissions' = [admissions EXCEPT ![p] = a]
  BY DEF BecomeFounder
<1> HIDE DEF a
<1>3. /\ admissions \in AdmissionMap /\ admissions' \in AdmissionMap
      /\ admissions'[p] = a
      /\ \A q \in Peers : q # p => admissions'[q] = admissions[q]
  BY <1>1, <1>2 DEF StoreInv, StoreTypeOK, AdmissionMap
<1>4. \A d : d # None => Seated(admissions', d) = Seated(admissions, d)
  BY ONLY <1>1, <1>3, p \in Peers, SeatedAfterAdmit
<1>5. SeatsExact(invites, admissions)'
  BY <1>2, <1>4, InviteAssumption DEF StoreInv, SeatsExact
<1>6. ChainComplete(invites, admissions)'
  BY <1>1, <1>2, <1>3 DEF StoreInv, ChainComplete
<1>7. ChainGrounded(admissions)'
  BY <1>1, <1>3 DEF StoreInv, ChainGrounded
<1>8. OneFounder(admissions)'
  <2>1. FoundersOf(admissions') \subseteq {p}
    BY <1>3 DEF FoundersOf, Seated, BecomeFounder, Admitted, AdmissionOf
  <2> QED
    BY <2>1 DEF OneFounder
<1> QED
  BY <1>2, <1>3, <1>5, <1>6, <1>7, <1>8 DEF StoreInv, StoreTypeOK

-----------------------------------------------------------------------------
\* The store's steps, as the coordinator takes them.

LEMMA RedeemKeepsInv ==
  ASSUME StoreInv, NEW c, NEW p \in Peers, RedeemOk(c, p) \/ RedeemFails(c, p)
  PROVE  StoreInv'
<1>1. CASE UNCHANGED storeVars
  BY <1>1 DEF storeVars, StoreInv, StoreTypeOK
<1>2. CASE Admit(c, p)
  BY <1>2, AdmitKeepsInv
<1> QED
  BY <1>1, <1>2 DEF RedeemOk, RedeemFails

LEMMA BootstrapKeepsInv ==
  ASSUME StoreInv, NEW p \in Peers, BootstrapOk(p) \/ BootstrapClosed(p)
  PROVE  StoreInv'
<1>1. CASE UNCHANGED storeVars
  BY <1>1 DEF storeVars, StoreInv, StoreTypeOK
<1>2. CASE BecomeFounder(p)
  BY <1>2, BecomeFounderKeepsInv
<1> QED
  BY <1>1, <1>2 DEF BootstrapOk, BootstrapClosed

\* The store alone: its counters, its chain, its one founder and its types are
\* right in every reachable state, for any finite set of peers and any limits.
THEOREM StoreCorrect == StoreSpec => []StoreInv
<1>1. StoreInv /\ [StoreNext]_storeVars => StoreInv'
  <2> SUFFICES ASSUME StoreInv, [StoreNext]_storeVars PROVE StoreInv'
    OBVIOUS
  <2>1. CASE UNCHANGED storeVars
    BY <2>1 DEF storeVars, StoreInv, StoreTypeOK
  <2>2. ASSUME NEW c \in Codes, NEW i \in Issuers, NEW m \in UseLimits,
               CreateFresh(c, i, m)
        PROVE  StoreInv'
    BY <2>2, CreateKeepsInv DEF CreateFresh
  <2>3. ASSUME NEW c \in Codes \cup {None}, NEW p \in Peers,
               RedeemOk(c, p) \/ RedeemFails(c, p)
        PROVE  StoreInv'
    BY <2>3, RedeemKeepsInv
  <2>4. ASSUME NEW p \in Peers, BootstrapOk(p) \/ BootstrapClosed(p)
        PROVE  StoreInv'
    BY <2>4, BootstrapKeepsInv
  <2> QED
    BY <2>1, <2>2, <2>3, <2>4 DEF StoreNext
<1> QED
  BY <1>1, StoreInitOK, PTL DEF StoreSpec

\* No invite of the store ever admits more peers than its limit, and its
\* counter is the number of peers it admitted.
THEOREM StoreSeatsExact == StoreSpec => []SeatsExactNow
BY StoreCorrect, PTL DEF StoreInv, SeatsExactNow

\* Every chain of vouching ends at the operator or a founder.
THEOREM StoreChainGrounded == StoreSpec => []ChainGroundedNow
BY StoreCorrect, PTL DEF StoreInv, ChainGroundedNow

-----------------------------------------------------------------------------
(* The store implements the seat ledger.                                   *)

LEMMA LedgerInit == StoreInit => Ledger!Init
BY InviteAssumption
   DEF StoreInit, NoInvites, NoAdmissions, Ledger!Init, Seated, FoundersOf

\* Nobody holds a seat or founded exactly when nobody is admitted.
LEMMA EveryoneAdmitted ==
  ASSUME StoreInv
  PROVE  Ledger!Everyone = {p \in Peers : admissions[p] # None}
<1>1. \A p \in Peers : admissions[p] # None => admissions[p].code \in Codes \cup {None}
  BY DEF StoreInv, StoreTypeOK, AdmissionMap, Admissions
<1> QED
  BY <1>1 DEF Ledger!Everyone, Seated, FoundersOf

LEMMA CreateIsIssue ==
  ASSUME StoreInv, NEW c \in Codes, NEW i \in Issuers, NEW m \in UseLimits,
         CreateFresh(c, i, m)
  PROVE  Ledger!Issue(c, m)
<1> DEFINE inv == [issuer |-> i, maxUses |-> m, uses |-> 0]
<1>1. /\ inv # None /\ inv.maxUses = m
      /\ invites' = [invites EXCEPT ![c] = inv]
      /\ admissions' = admissions /\ invites[c] = None
  BY InviteAssumption DEF CreateFresh, Create, Invites, Exists
<1> HIDE DEF inv
<1>2. /\ invites'[c] = inv
      /\ \A d \in Codes : d # c => invites'[d] = invites[d]
  BY <1>1 DEF StoreInv, StoreTypeOK, InviteMap
<1>3. {d \in Codes : invites'[d] # None} = {d \in Codes : invites[d] # None} \cup {c}
  BY <1>1, <1>2
<1>4. [d \in Codes |-> IF invites'[d] = None THEN 0 ELSE invites'[d].maxUses]
        = [[d \in Codes |-> IF invites[d] = None THEN 0 ELSE invites[d].maxUses]
             EXCEPT ![c] = m]
  <2> DEFINE Size(d) == IF invites[d] = None THEN 0 ELSE invites[d].maxUses
             NewSize(d) == IF invites'[d] = None THEN 0 ELSE invites'[d].maxUses
  <2>1. NewSize(c) = m /\ \A d \in Codes : d # c => NewSize(d) = Size(d)
    BY <1>1, <1>2
  <2> HIDE DEF Size, NewSize
  <2>2. [d \in Codes |-> NewSize(d)] = [[d \in Codes |-> Size(d)] EXCEPT ![c] = m]
    BY ONLY <2>1
  <2> QED
    BY <2>2 DEF Size, NewSize
<1> QED
  BY <1>1, <1>3, <1>4 DEF Ledger!Issue

\* The ledger's instance of FiniteSets counts as FiniteSets does.
LEMMA SameCount == ASSUME NEW S PROVE Ledger!Cardinality(S) = Cardinality(S)
BY DEF Ledger!Cardinality, Cardinality

LEMMA AdmitIsTakeSeat ==
  ASSUME StoreInv, NEW c, NEW p \in Peers, Admit(c, p)
  PROVE  c \in Codes /\ Ledger!TakeSeat(p, c)
<1> DEFINE a == [code |-> c, issuer |-> invites[c].issuer]
           inv == [invites[c] EXCEPT !.uses = @ + 1]
<1>1. /\ c \in Codes /\ invites[c] \in Invites /\ invites[c] # None
      /\ admissions[p] = None
      /\ invites[c].uses < invites[c].maxUses
      /\ invites' = [invites EXCEPT ![c] = inv]
      /\ admissions' = [admissions EXCEPT ![p] = a]
  BY DEF Admit, Exists, Admitted, AdmissionOf, StoreInv, StoreTypeOK, InviteMap
<1>2. /\ inv # None /\ inv.maxUses = invites[c].maxUses
      /\ a \in Admissions /\ a.code = c
  BY <1>1, InviteAssumption DEF Invites, Admissions
<1> HIDE DEF a, inv
<1>3. /\ admissions \in AdmissionMap /\ admissions'[p] = a
      /\ \A q \in Peers : q # p => admissions'[q] = admissions[q]
      /\ invites'[c] = inv
      /\ \A d \in Codes : d # c => invites'[d] = invites[d]
  BY <1>1 DEF StoreInv, StoreTypeOK, AdmissionMap, InviteMap
<1>4. /\ Seated(admissions', c) = Seated(admissions, c) \cup {p}
      /\ \A d : d # c => Seated(admissions', d) = Seated(admissions, d)
  <2>1. admissions[p] = None
    BY <1>1
  <2> QED
    BY ONLY <2>1, <1>2, <1>3, p \in Peers, SeatedAfterAdmit
<1>5. {d \in Codes : invites'[d] # None} = {d \in Codes : invites[d] # None}
  BY <1>1, <1>2, <1>3
<1>6. [d \in Codes |-> IF invites'[d] = None THEN 0 ELSE invites'[d].maxUses]
        = [d \in Codes |-> IF invites[d] = None THEN 0 ELSE invites[d].maxUses]
  BY <1>1, <1>2, <1>3
<1>7. [d \in Codes |-> Seated(admissions', d)]
        = [[d \in Codes |-> Seated(admissions, d)]
             EXCEPT ![c] = Seated(admissions, c) \cup {p}]
  BY <1>1, <1>4
<1>8. FoundersOf(admissions') = FoundersOf(admissions)
  BY <1>1, <1>4, InviteAssumption DEF FoundersOf
<1>9. p \notin Ledger!Everyone
  BY <1>1, EveryoneAdmitted
<1>10. Cardinality(Seated(admissions, c)) < invites[c].maxUses
  BY <1>1 DEF StoreInv, SeatsExact
<1> QED
  BY <1>1, <1>5, <1>6, <1>7, <1>8, <1>9, <1>10, SameCount DEF Ledger!TakeSeat

LEMMA FounderIsFound ==
  ASSUME StoreInv, NEW p \in Peers, BecomeFounder(p)
  PROVE  Ledger!Found(p)
<1> DEFINE a == [code |-> None, issuer |-> p]
<1>1. /\ \A q \in Peers : admissions[q] = None
      /\ a # None /\ a.code = None /\ invites' = invites
      /\ admissions' = [admissions EXCEPT ![p] = a]
  BY InviteAssumption
     DEF Admissions, Issuers, BecomeFounder, Admitted, AdmissionOf
<1> HIDE DEF a
<1>2. /\ admissions'[p] = a
      /\ \A q \in Peers : q # p => admissions'[q] = None
  BY <1>1 DEF StoreInv, StoreTypeOK, AdmissionMap
<1>3. FoundersOf(admissions') = {p}
  BY <1>1, <1>2 DEF FoundersOf, Seated
<1>4. \A c \in Codes : Seated(admissions', c) = Seated(admissions, c)
  BY <1>1, <1>2, InviteAssumption DEF Seated
<1>5. Ledger!Everyone = {}
  BY <1>1, EveryoneAdmitted
<1> QED
  BY <1>1, <1>3, <1>4, <1>5 DEF Ledger!Found

\* Every step of the store is a step of the ledger or leaves it alone.
LEMMA LedgerStep ==
  ASSUME StoreInv, [StoreNext]_storeVars
  PROVE  [Ledger!Next]_(Ledger!ledgerVars)
<1>1. CASE UNCHANGED storeVars
  BY <1>1 DEF storeVars, Ledger!ledgerVars
<1>2. ASSUME NEW c \in Codes, NEW i \in Issuers, NEW m \in UseLimits,
             CreateFresh(c, i, m)
      PROVE  Ledger!Next
  BY <1>2, CreateIsIssue DEF Ledger!Next
<1>3. ASSUME NEW c, NEW p \in Peers, Admit(c, p)
      PROVE  Ledger!Next
  BY <1>3, AdmitIsTakeSeat DEF Ledger!Next
<1>4. ASSUME NEW p \in Peers, BecomeFounder(p)
      PROVE  Ledger!Next
  BY <1>4, FounderIsFound DEF Ledger!Next
<1> QED
  BY <1>1, <1>2, <1>3, <1>4
     DEF StoreNext, RedeemOk, RedeemFails, BootstrapOk, BootstrapClosed

\* The counter in each invite is a faithful stand-in for a set of seats: every
\* behaviour of the store is one of the ledger.
THEOREM StoreImplementsLedger == StoreSpec => ImplementsLedger
<1>1. StoreInv /\ [StoreNext]_storeVars => [Ledger!Next]_(Ledger!ledgerVars)
  BY LedgerStep
<1> QED
  BY <1>1, LedgerInit, StoreCorrect, PTL DEF StoreSpec, ImplementsLedger, Ledger!Spec
=============================================================================
