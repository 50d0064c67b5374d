---------------------------- MODULE InviteStore ----------------------------
(***************************************************************************)
(* The coordinator's admission store (InviteStore in                       *)
(* internal/coordinator/invite.go): invite codes with a use counter, and   *)
(* the admission of every peer that came in.  Each operation runs under    *)
(* the store's one mutex, so each is one step.  A Go map is a function     *)
(* that yields None for the keys the map does not hold.                    *)
(***************************************************************************)
EXTENDS Names, Naturals, FiniteSets

CONSTANTS Codes,      \* invite codes, all different (they are random)
          Operator,   \* issuer of the seeded invite, not a peer
          UseLimits   \* the maxUses values an invite may be created with

Issuers == Peers \cup {Operator}
Invites == [issuer : Issuers, maxUses : UseLimits, uses : Nat]
Admissions == [code : Codes \cup {None}, issuer : Issuers]

ASSUME InviteAssumption ==
  /\ IsFiniteSet(Peers)
  /\ UseLimits \subseteq Nat
  /\ None \notin Codes /\ None \notin Invites /\ None \notin Admissions
  /\ Operator \notin Peers

VARIABLES invites,    \* code -> invite
          admissions  \* peer -> how it was admitted

storeVars == <<invites, admissions>>

NoInvites == [c \in Codes |-> None]
NoAdmissions == [p \in Peers |-> None]

StoreInit ==
  /\ invites = NoInvites
  /\ admissions = NoAdmissions

AdmissionOf(p) == admissions[p]
Admitted(p) == AdmissionOf(p) # None
Exists(c) == c \in Codes /\ invites[c] # None

\* Create overwrites: it is the callers that ask Exists first.
Create(c, issuer, maxUses) ==
  /\ invites' = [invites EXCEPT ![c] =
                   [issuer |-> issuer, maxUses |-> maxUses, uses |-> 0]]
  /\ UNCHANGED admissions

\* Redeem when it admits the peer: one use is consumed.
Admit(c, p) ==
  /\ ~Admitted(p)
  /\ Exists(c)
  /\ invites[c].uses < invites[c].maxUses
  /\ invites' = [invites EXCEPT ![c].uses = @ + 1]
  /\ admissions' = [admissions EXCEPT ![p] =
                      [code |-> c, issuer |-> invites[c].issuer]]

\* Redeem when it returns an issuer: an admitted peer costs no use.
RedeemOk(c, p) ==
  \/ Admitted(p) /\ UNCHANGED storeVars
  \/ Admit(c, p)

\* Redeem when it returns ErrUnknownInvite or ErrInviteExhausted.
RedeemFails(c, p) ==
  /\ ~Admitted(p)
  /\ Exists(c) => invites[c].uses >= invites[c].maxUses
  /\ UNCHANGED storeVars

\* Mutant: Bootstrap leaves the issuer empty.
BecomeFounderUnsigned(p) ==
  /\ \A q \in Peers : ~Admitted(q)
  /\ admissions' = [admissions EXCEPT ![p] = [code |-> None, issuer |-> None]]
  /\ UNCHANGED invites

\* Mutant: Bootstrap looks for a founder only, not for invited peers.
BecomeFounderAmongGuests(p) ==
  /\ \A q \in Peers : Admitted(q) => q # p /\ AdmissionOf(q).code # None
  /\ admissions' = [admissions EXCEPT ![p] = [code |-> None, issuer |-> p]]
  /\ UNCHANGED invites

BecomeFounder(p) ==
  /\ \A q \in Peers : ~Admitted(q)
  /\ admissions' = [admissions EXCEPT ![p] = [code |-> None, issuer |-> p]]
  /\ UNCHANGED invites

BootstrapOk(p) ==
  \/ Admitted(p) /\ UNCHANGED storeVars
  \/ BecomeFounder(p)

BootstrapClosed(p) ==
  /\ ~Admitted(p)
  /\ \E q \in Peers : Admitted(q)
  /\ UNCHANGED storeVars

\* The callers' discipline: main seeds a code, and /invite/create mints one,
\* only when Exists says no; a peer mints only when it is admitted.
CreateFresh(c, issuer, maxUses) ==
  /\ ~Exists(c)
  /\ issuer \in Peers => Admitted(issuer)
  /\ Create(c, issuer, maxUses)

StoreNext ==
  \/ \E c \in Codes, i \in Issuers, m \in UseLimits : CreateFresh(c, i, m)
  \/ \E c \in Codes \cup {None}, p \in Peers : RedeemOk(c, p)
  \/ \E c \in Codes \cup {None}, p \in Peers : RedeemFails(c, p)
  \/ \E p \in Peers : BootstrapOk(p)
  \/ \E p \in Peers : BootstrapClosed(p)

StoreSpec == StoreInit /\ [][StoreNext]_storeVars

-----------------------------------------------------------------------------
(* Properties of any pair (inv, adm) the store can hold or export.         *)

InviteMap == [Codes -> Invites \cup {None}]
AdmissionMap == [Peers -> Admissions \cup {None}]

\* Every map entry is a well-formed invite or admission.
StoreTypeOK ==
  /\ invites \in InviteMap
  /\ admissions \in AdmissionMap

\* The peers admitted through code c.
Seated(adm, c) == {p \in Peers : adm[p] # None /\ adm[p].code = c}
FoundersOf(adm) == Seated(adm, None)

\* The use counter of an invite is exactly the number of peers it admitted,
\* and never passes its limit: no redeem is lost, doubled or free.
SeatsExact(inv, adm) ==
  \A c \in Codes :
    IF inv[c] = None
    THEN Seated(adm, c) = {}
    ELSE /\ inv[c].uses = Cardinality(Seated(adm, c))
         /\ inv[c].uses <= inv[c].maxUses

\* Concurrent first-run requests never make two founders.
OneFounder(adm) == \A p, q \in FoundersOf(adm) : p = q

\* Every admission names the issuer of the invite it used, and every invite
\* of a member was issued by a peer that is itself admitted: the chain of who
\* vouched for whom has no gap.
ChainComplete(inv, adm) ==
  /\ \A p \in Peers : adm[p] # None =>
       IF adm[p].code = None
       THEN adm[p].issuer = p
       ELSE inv[adm[p].code] # None /\ adm[p].issuer = inv[adm[p].code].issuer
  /\ \A c \in Codes : inv[c] # None /\ inv[c].issuer \in Peers
                        => adm[inv[c].issuer] # None

\* The chain ends: no set of peers admitted by invite vouches only for itself.
ChainGrounded(adm) ==
  \A S \in SUBSET {p \in Peers : adm[p] # None /\ adm[p].code # None} :
    S # {} => \E p \in S : adm[p].issuer \notin S

SeatsExactNow == SeatsExact(invites, admissions)
ChainGroundedNow == ChainGrounded(admissions)

-----------------------------------------------------------------------------
(* The store implements the seat ledger: the counter stands for the set of *)
(* peers that hold a seat.                                                 *)

Ledger == INSTANCE SeatLedger WITH
  Sizes    <- UseLimits,
  open     <- {c \in Codes : invites[c] # None},
  seats    <- [c \in Codes |-> IF invites[c] = None THEN 0
                                                    ELSE invites[c].maxUses],
  seated   <- [c \in Codes |-> Seated(admissions, c)],
  founders <- FoundersOf(admissions)

\* Every run of the store is a run of the ledger: a code never admits more
\* peers than it has seats, an admitted peer never takes a second seat, and
\* the founder's place is given away once.
ImplementsLedger == Ledger!Spec
=============================================================================
