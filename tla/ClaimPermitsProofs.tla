-------------------------- MODULE ClaimPermitsProofs --------------------------
(***************************************************************************)
(* Theorems of ClaimPermits for every set of plots, characters, groups,    *)
(* rights, operations and handles and every maximal revision.              *)
(***************************************************************************)
EXTENDS ClaimPermits, FiniteSetTheorems, TLAPS

-----------------------------------------------------------------------------
(* Rows.                                                                    *)

RowTypes ==
  /\ claims \in [Plots -> [owner: Characters, revision: 1 .. MaxRevision] \cup {None}]
  /\ permits \in [Plots -> [Subjects -> SUBSET Rights]]
  /\ members \in [Characters -> SUBSET Groups]
  /\ memberRev \in [Characters -> 0 .. MaxRevision]

Rev(p) == IF Claimed(p) THEN claims[p].revision ELSE 0

\* What every change of plot p does: its claim gets the next revision and receipt x.
Advances(p, x) ==
  /\ x.target = p /\ x.revision = Rev(p) + 1
  /\ receipts' = receipts \cup {x}
  /\ Claimed(p)' /\ Rev(p)' = Rev(p) + 1
  /\ \A q \in Plots \ {p} : claims'[q] = claims[q] /\ permits'[q] = permits[q]
  /\ UNCHANGED <<members, memberRev, interactions, writes>>

Registers(p, x) ==
  /\ Advances(p, x)
  /\ x.request.kind = "register"
  /\ ~Claimed(p) /\ claims'[p].owner = x.request.owner
  /\ permits' = permits

\* A grant or a revocation.
Permits(p, x) ==
  /\ Advances(p, x)
  /\ x.request.kind = "permit"
  /\ Claimed(p) /\ claims'[p].owner = claims[p].owner
  /\ x.request.subject \in Subjects /\ x.request.actor \in Characters
  /\ permits'[p] = [permits[p] EXCEPT ![x.request.subject] = x.request.bits]
  /\ x.request.bits \subseteq BitsOf(x.request.actor, p)

Transfers(p, x) ==
  /\ Advances(p, x)
  /\ x.request.kind = "transfer"
  /\ Claimed(p) /\ x.request.actor = claims[p].owner /\ claims'[p].owner = x.request.owner
  /\ permits' = permits

Projects(c, x) ==
  /\ x.target = c /\ x.revision = memberRev[c] + 1 /\ x.request.kind = "memberships"
  /\ receipts' = receipts \cup {x}
  /\ members' = [members EXCEPT ![c] = x.request.groups]
  /\ memberRev' = [memberRev EXCEPT ![c] = memberRev[c] + 1]
  /\ UNCHANGED <<claims, permits, interactions, writes>>

LEMMA TableStepCases ==
  ASSUME RowTypes, TableStep
  PROVE  /\ RowTypes'
         /\ \E x : \/ \E p \in Plots : Registers(p, x) \/ Permits(p, x) \/ Transfers(p, x)
                   \/ \E c \in Characters : Projects(c, x)
  <1> USE CapsAssumption, NoneAssumption
  <1> PICK op \in Operations :
        \/ \E p \in Plots, c \in Characters : RegisterClaim(p, c, op)
        \/ \E c \in Characters, g \in SUBSET Groups : UpdateMemberships(c, g, op)
        \/ \E c \in Characters, p \in Plots, s \in Subjects, bits \in SUBSET Rights \ {{}} :
             Grant(c, p, s, bits, op)
        \/ \E c \in Characters, p \in Plots, s \in Subjects : Revoke(c, p, s, op)
        \/ \E c, d \in Characters, p \in Plots : Transfer(c, p, d, op)
    BY DEF TableStep
  <1>1. ASSUME NEW p \in Plots, NEW c \in Characters, RegisterClaim(p, c, op)
        PROVE  RowTypes' /\ \E x : Registers(p, x)
    <2> DEFINE x == [scope |-> Provision, op |-> op,
                     request |-> [kind |-> "register", owner |-> c], revision |-> 1, target |-> p]
               row == [owner |-> c, revision |-> 1]
    <2>1. row \in [owner: Characters, revision: 1 .. MaxRevision] /\ row # None
      OBVIOUS
    <2>2. claims' = [claims EXCEPT ![p] = row] /\ receipts' = receipts \cup {x} /\ claims[p] = None
          /\ UNCHANGED <<permits, members, memberRev, interactions, writes>>
      BY <1>1 DEF RegisterClaim, Receive, Claimed
    <2>3. claims'[p] = row /\ \A q \in Plots \ {p} : claims'[q] = claims[q]
      BY <2>2 DEF RowTypes
    <2>4. RowTypes'
      BY <2>1, <2>2 DEF RowTypes
    <2>5. Registers(p, x)
      BY <2>1, <2>2, <2>3 DEF Registers, Advances, Rev, Claimed
    <2> QED
      BY <2>4, <2>5
  <1>2. ASSUME NEW c \in Characters, NEW g \in SUBSET Groups, UpdateMemberships(c, g, op)
        PROVE  RowTypes' /\ \E x : Projects(c, x)
    <2> DEFINE x == [scope |-> Upstream(c), op |-> op,
                     request |-> [kind |-> "memberships", groups |-> g],
                     revision |-> memberRev[c] + 1, target |-> c]
    <2>1. receipts' = receipts \cup {x} /\ members' = [members EXCEPT ![c] = g]
          /\ memberRev' = [memberRev EXCEPT ![c] = memberRev[c] + 1]
          /\ memberRev[c] + 1 \in 0 .. MaxRevision
          /\ UNCHANGED <<claims, permits, interactions, writes>>
      BY <1>2 DEF UpdateMemberships, Receive, RowTypes
    <2>2. RowTypes'
      BY <2>1 DEF RowTypes
    <2>3. Projects(c, x)
      BY <2>1 DEF Projects
    <2> QED
      BY <2>2, <2>3
  <1>3. ASSUME NEW p \in Plots, Claimed(p), CanAdvance(p)
        PROVE  /\ Rev(p) = claims[p].revision
               /\ Advance(p) \in [owner: Characters, revision: 1 .. MaxRevision]
               /\ Advance(p).revision = Rev(p) + 1 /\ Advance(p).owner = claims[p].owner
               /\ \A c \in Characters : [Advance(p) EXCEPT !.owner = c]
                                          = [owner |-> c, revision |-> Rev(p) + 1]
               /\ Rev(p) + 1 \in 1 .. MaxRevision
    <2>1. claims[p] \in [owner: Characters, revision: 1 .. MaxRevision]
      BY <1>3 DEF RowTypes, Claimed
    <2>2. Rev(p) = claims[p].revision /\ claims[p].revision + 1 \in 1 .. MaxRevision
      BY <1>3, <2>1 DEF Rev, CanAdvance
    <2>3. Advance(p) = [owner |-> claims[p].owner, revision |-> claims[p].revision + 1]
      BY <2>1 DEF Advance
    <2> QED
      BY <2>1, <2>2, <2>3
  <1>4. ASSUME NEW c \in Characters, NEW p \in Plots, NEW s \in Subjects, NEW bits \in SUBSET Rights,
               Claimed(p), CanAdvance(p), bits \subseteq BitsOf(c, p),
               permits' = [permits EXCEPT ![p][s] = bits],
               claims' = [claims EXCEPT ![p] = Advance(p)],
               Receive(Player(c), op,
                       [kind |-> "permit", actor |-> c, subject |-> s, bits |-> bits],
                       claims[p].revision + 1, p),
               UNCHANGED <<members, memberRev, interactions, writes>>
        PROVE  RowTypes' /\ \E x : Permits(p, x)
    <2> DEFINE x == [scope |-> Player(c), op |-> op,
                     request |-> [kind |-> "permit", actor |-> c, subject |-> s, bits |-> bits],
                     revision |-> claims[p].revision + 1, target |-> p]
    <2>1. receipts' = receipts \cup {x}
      BY <1>4 DEF Receive
    <2>2. claims'[p] = Advance(p) /\ \A q \in Plots \ {p} : claims'[q] = claims[q]
      BY <1>4 DEF RowTypes
    <2>3. /\ permits'[p] = [permits[p] EXCEPT ![s] = bits]
          /\ \A q \in Plots \ {p} : permits'[q] = permits[q]
      BY <1>4 DEF RowTypes
    <2>4. RowTypes'
      <3>1. claims' \in [Plots -> [owner: Characters, revision: 1 .. MaxRevision] \cup {None}]
        BY <1>3, <1>4 DEF RowTypes
      <3>2. permits' \in [Plots -> [Subjects -> SUBSET Rights]]
        BY <1>4 DEF RowTypes
      <3> QED
        BY <1>4, <3>1, <3>2 DEF RowTypes
    <2>5. Advances(p, x)
      <3>1. Advance(p) # None
        BY <1>3, <1>4
      <3> QED
        BY <1>3, <1>4, <2>1, <2>2, <2>3, <3>1 DEF Advances, Rev, Claimed
    <2>6. Permits(p, x)
      BY <1>3, <1>4, <2>2, <2>3, <2>5 DEF Permits
    <2> QED
      BY <2>4, <2>6
  <1>5. ASSUME NEW c \in Characters, NEW p \in Plots, NEW s \in Subjects,
               NEW bits \in SUBSET Rights \ {{}}, Grant(c, p, s, bits, op)
        PROVE  RowTypes' /\ \E x : Permits(p, x)
    BY <1>4, <1>5 DEF Grant, MayGrant
  <1>6. ASSUME NEW c \in Characters, NEW p \in Plots, NEW s \in Subjects, Revoke(c, p, s, op)
        PROVE  RowTypes' /\ \E x : Permits(p, x)
    BY <1>4, <1>6 DEF Revoke
  <1>7. ASSUME NEW c \in Characters, NEW d \in Characters, NEW p \in Plots, Transfer(c, p, d, op)
        PROVE  RowTypes' /\ \E x : Transfers(p, x)
    <2> DEFINE x == [scope |-> Player(c), op |-> op,
                     request |-> [kind |-> "transfer", actor |-> c, owner |-> d],
                     revision |-> claims[p].revision + 1, target |-> p]
               row == [owner |-> d, revision |-> Rev(p) + 1]
    <2>1. /\ receipts' = receipts \cup {x} /\ Claimed(p) /\ CanAdvance(p)
          /\ claims' = [claims EXCEPT ![p] = [Advance(p) EXCEPT !.owner = d]]
          /\ claims[p].owner = c
          /\ UNCHANGED <<permits, members, memberRev, interactions, writes>>
      BY <1>7 DEF Transfer, Receive, MayTransfer
    <2>2. [Advance(p) EXCEPT !.owner = d] = row /\ Rev(p) = claims[p].revision
          /\ row \in [owner: Characters, revision: 1 .. MaxRevision]
      BY <1>3, <2>1
    <2>3. claims' = [claims EXCEPT ![p] = row]
      BY <2>1, <2>2
    <2>4. claims'[p] = row /\ row # None /\ \A q \in Plots \ {p} : claims'[q] = claims[q]
      BY <2>2, <2>3 DEF RowTypes
    <2>5. RowTypes'
      BY <2>1, <2>2, <2>3 DEF RowTypes
    <2>6. Transfers(p, x)
      BY <2>1, <2>2, <2>4 DEF Transfers, Advances, Rev, Claimed
    <2> QED
      BY <2>5, <2>6
  <1> QED
    BY <1>1, <1>2, <1>5, <1>6, <1>7

LEMMA RowsInit == Init => RowTypes
  BY CapsAssumption DEF Init, RowTypes, Subjects

LEMMA StepCases ==
  ASSUME RowTypes, [Next]_vars
  PROVE  /\ RowTypes'
         /\ \/ \E x : \/ \E p \in Plots : Registers(p, x) \/ Permits(p, x) \/ Transfers(p, x)
                      \/ \E c \in Characters : Projects(c, x)
            \/ UNCHANGED tables
  <1>1. CASE TableStep
    BY <1>1, TableStepCases
  <1>2. CASE UNCHANGED tables
    BY <1>2 DEF tables, RowTypes
  <1> QED
    BY <1>1, <1>2
    DEF Next, vars, tables, InteractionStep, BeginInteraction, CommitInteraction, CommitRefused,
        CancelInteraction, Restart

-----------------------------------------------------------------------------
(* Serial histories.                                                        *)

Serial(rs, n) ==
  /\ IsFiniteSet(rs) /\ {r.revision : r \in rs} = 1 .. n /\ Cardinality(rs) = n

SerialInv ==
  /\ RowTypes
  /\ \A p \in Plots : Serial(ClaimHistory(p), Rev(p))
  /\ \A c \in Characters : Serial(Kind({"memberships"}, c), memberRev[c])

LEMMA RevIsNat ==
  ASSUME RowTypes, NEW p \in Plots PROVE Rev(p) \in Nat
  BY CapsAssumption DEF RowTypes, Rev, Claimed

LEMMA SerialAdd ==
  ASSUME NEW rs, NEW n \in Nat, Serial(rs, n), NEW x, x.revision = n + 1
  PROVE  Serial(rs \cup {x}, n + 1)
  <1>1. x \notin rs
    <2> SUFFICES ASSUME x \in rs PROVE FALSE
      OBVIOUS
    <2>1. n + 1 \in 1 .. n
      BY DEF Serial
    <2> QED
      BY <2>1
  <1>2. IsFiniteSet(rs \cup {x}) /\ Cardinality(rs \cup {x}) = n + 1
    BY <1>1, FS_AddElement DEF Serial
  <1>3. {r.revision : r \in rs \cup {x}} = {r.revision : r \in rs} \cup {n + 1}
    OBVIOUS
  <1>4. (1 .. n) \cup {n + 1} = 1 .. n + 1
    OBVIOUS
  <1> QED
    BY <1>2, <1>3, <1>4 DEF Serial

\* The receipts of a kind after receipt x.
LEMMA KindAdds ==
  ASSUME NEW x, receipts' = receipts \cup {x}, NEW K, NEW t
  PROVE  /\ x.request.kind \in K /\ x.target = t => Kind(K, t)' = Kind(K, t) \cup {x}
         /\ x.request.kind \notin K \/ x.target # t => Kind(K, t)' = Kind(K, t)
  BY DEF Kind

LEMMA SerialNext == SerialInv /\ [Next]_vars => SerialInv'
  <1> SUFFICES ASSUME SerialInv, [Next]_vars PROVE SerialInv'
    OBVIOUS
  <1>0. RowTypes'
    BY StepCases DEF SerialInv
  <1>1. ASSUME NEW p \in Plots, NEW x, Registers(p, x) \/ Permits(p, x) \/ Transfers(p, x)
        PROVE  SerialInv'
    <2>1. Advances(p, x) /\ x.request.kind \in {"register", "permit", "transfer"}
      BY <1>1 DEF Registers, Permits, Transfers
    <2>2. receipts' = receipts \cup {x} /\ x.target = p /\ memberRev' = memberRev
      BY <2>1 DEF Advances
    <2>3. ASSUME NEW q \in Plots PROVE Serial(ClaimHistory(q), Rev(q))'
      <3>1. CASE q = p
        <4>1. ClaimHistory(q)' = ClaimHistory(q) \cup {x}
          BY <2>1, <2>2, <3>1, KindAdds DEF ClaimHistory
        <4>2. Rev(q)' = Rev(q) + 1 /\ x.revision = Rev(q) + 1
          BY <2>1, <3>1 DEF Advances
        <4> QED
          BY <4>1, <4>2, RevIsNat, SerialAdd DEF SerialInv
      <3>2. CASE q # p
        <4>1. ClaimHistory(q)' = ClaimHistory(q)
          BY <2>1, <2>2, <3>2, KindAdds DEF ClaimHistory
        <4>2. Rev(q)' = Rev(q)
          BY <2>1, <3>2 DEF Advances, Rev, Claimed
        <4> QED
          BY <4>1, <4>2 DEF SerialInv
      <3> QED
        BY <3>1, <3>2
    <2>4. ASSUME NEW c \in Characters PROVE Serial(Kind({"memberships"}, c), memberRev[c])'
      <3>1. Kind({"memberships"}, c)' = Kind({"memberships"}, c)
        BY <2>1, <2>2, KindAdds
      <3> QED
        BY <2>2, <3>1 DEF SerialInv
    <2> QED
      BY <1>0, <2>3, <2>4 DEF SerialInv
  <1>2. ASSUME NEW c \in Characters, NEW x, Projects(c, x) PROVE SerialInv'
    <2>1. /\ receipts' = receipts \cup {x} /\ x.target = c /\ x.request.kind = "memberships"
          /\ x.revision = memberRev[c] + 1 /\ claims' = claims
          /\ \A d \in Characters : memberRev'[d] = IF d = c THEN memberRev[c] + 1 ELSE memberRev[d]
      BY <1>2 DEF Projects, SerialInv, RowTypes
    <2>2. ASSUME NEW q \in Plots PROVE Serial(ClaimHistory(q), Rev(q))'
      <3>1. ClaimHistory(q)' = ClaimHistory(q)
        BY <2>1, KindAdds DEF ClaimHistory
      <3>2. Rev(q)' = Rev(q)
        BY <2>1 DEF Rev, Claimed
      <3> QED
        BY <3>1, <3>2 DEF SerialInv
    <2>3. ASSUME NEW d \in Characters PROVE Serial(Kind({"memberships"}, d), memberRev[d])'
      <3>1. CASE d = c
        <4>1. Kind({"memberships"}, d)' = Kind({"memberships"}, d) \cup {x}
          BY <2>1, <3>1, KindAdds
        <4>2. memberRev[d] \in Nat
          BY CapsAssumption DEF SerialInv, RowTypes
        <4> QED
          BY <2>1, <3>1, <4>1, <4>2, SerialAdd DEF SerialInv
      <3>2. CASE d # c
        <4>1. Kind({"memberships"}, d)' = Kind({"memberships"}, d)
          BY <2>1, <3>2, KindAdds
        <4> QED
          BY <2>1, <3>2, <4>1 DEF SerialInv
      <3> QED
        BY <3>1, <3>2
    <2> QED
      BY <1>0, <2>2, <2>3 DEF SerialInv
  <1>3. CASE UNCHANGED tables
    BY <1>0, <1>3 DEF tables, SerialInv, Rev, Claimed, ClaimHistory, Kind
  <1> QED
    BY <1>1, <1>2, <1>3, StepCases DEF SerialInv

LEMMA SerialInit == Init => SerialInv
  <1> SUFFICES ASSUME Init PROVE SerialInv
    OBVIOUS
  <1>1. \A K, t : Kind(K, t) = {}
    BY DEF Init, Kind
  <1>2. Serial({}, 0)
    BY FS_EmptySet DEF Serial
  <1>3. (\A p \in Plots : Rev(p) = 0) /\ \A c \in Characters : memberRev[c] = 0
    BY DEF Init, Rev, Claimed
  <1> QED
    BY <1>1, <1>2, <1>3, RowsInit DEF SerialInv, ClaimHistory

\* Receipts number the revisions of plots and memberships once each, without a gap.
THEOREM RevisionsAreSerialHolds == Spec => []RevisionsAreSerial
  <1>1. SerialInv => RevisionsAreSerial
    BY DEF SerialInv, Serial, RevisionsAreSerial, Rev
  <1> QED
    BY <1>1, SerialInit, SerialNext, PTL DEF Spec

-----------------------------------------------------------------------------
(* The audit trail.                                                         *)

\* A receipt later than all others is the latest.
LEMMA LatestTop ==
  ASSUME NEW rs, NEW x \in rs, x.revision \in Int,
         \A q \in rs \ {x} : q.revision \in Int /\ q.revision < x.revision
  PROVE  Latest(rs) = x
  <1>1. \A q \in rs : q.revision <= x.revision
    OBVIOUS
  <1>2. \A r \in rs : (\A q \in rs : q.revision <= r.revision) => r = x
    OBVIOUS
  <1> QED
    BY <1>1, <1>2 DEF Latest

LEMMA HistoryBounded ==
  ASSUME SerialInv, NEW p \in Plots, NEW K \in SUBSET {"register", "permit", "transfer"},
         NEW r \in Kind(K, p)
  PROVE  r.revision \in 1 .. Rev(p) /\ r \in ClaimHistory(p)
  <1>1. r \in ClaimHistory(p)
    BY DEF Kind, ClaimHistory
  <1>2. r.revision \in {q.revision : q \in ClaimHistory(p)}
    BY <1>1
  <1> QED
    BY <1>1, <1>2 DEF SerialInv, Serial

\* Who owned a plot at a past revision does not change.
LEMMA OwnerAtStays ==
  ASSUME SerialInv, NEW p \in Plots, NEW x, Advances(p, x), NEW q \in Plots, NEW k \in Int,
         q # p \/ k <= Rev(p)
  PROVE  OwnerAt(q, k)' = OwnerAt(q, k)
  <1> DEFINE K == {"register", "transfer"}
  <1>1. receipts' = receipts \cup {x} /\ x.target = p /\ x.revision = Rev(p) + 1
    BY DEF Advances
  <1>2. CASE q # p
    <2>1. Kind(K, q)' = Kind(K, q)
      BY <1>1, <1>2, KindAdds
    <2> QED
      BY <2>1 DEF OwnerAt
  <1>3. CASE q = p /\ k <= Rev(p)
    <2>1. ~ (x.revision <= k)
      BY <1>1, <1>3, RevIsNat DEF SerialInv
    <2>2. {r \in Kind(K, q)' : r.revision <= k} = {r \in Kind(K, q) : r.revision <= k}
      BY <1>1, <2>1, KindAdds
    <2> QED
      BY <2>2 DEF OwnerAt
  <1> QED
    BY <1>2, <1>3

\* A receipt that is no transfer leaves the owner.
LEMMA OwnerNowStays ==
  ASSUME SerialInv, NEW p \in Plots, NEW x, Advances(p, x), x.request.kind = "permit"
  PROVE  OwnerAt(p, Rev(p))' = OwnerAt(p, Rev(p))
  <1> DEFINE K == {"register", "transfer"}
  <1>1. Kind(K, p)' = Kind(K, p)
    BY KindAdds DEF Advances
  <1>2. Rev(p) \in Nat /\ \A r \in Kind(K, p) : r.revision \in 1 .. Rev(p)
    BY RevIsNat, HistoryBounded DEF SerialInv
  <1>3. Rev(p)' = Rev(p) + 1
    BY DEF Advances
  <1>4. {r \in Kind(K, p) : r.revision <= Rev(p) + 1} = {r \in Kind(K, p) : r.revision <= Rev(p)}
    BY <1>2
  <1> QED
    BY <1>1, <1>3, <1>4 DEF OwnerAt

ByOwner(p) == {r \in Kind({"permit"}, p) : r.request.actor = OwnerAt(p, r.revision - 1)}
PermitsOf(p, s) == {r \in Kind({"permit"}, p) : r.request.subject = s}

OwnerIsLatest == \A p \in Plots : Claimed(p) => claims[p].owner = OwnerAt(p, Rev(p))
PermitsAreLatest ==
  \A p \in Plots, s \in Subjects :
    permits[p][s] = IF PermitsOf(p, s) = {} THEN {} ELSE Latest(PermitsOf(p, s)).request.bits
MembersAreLatest ==
  \A c \in Characters :
    members[c] = IF Kind({"memberships"}, c) = {} THEN {}
                 ELSE Latest(Kind({"memberships"}, c)).request.groups
RightsAreGiven ==
  \A p \in Plots, s \in Subjects : permits[p][s] \subseteq UNION {r.request.bits : r \in ByOwner(p)}

AuditInv ==
  /\ SerialInv /\ OwnerIsLatest /\ PermitsAreLatest /\ MembersAreLatest
  /\ RightsAreGiven /\ OnlyOwnersTransfer

\* A change of plot p keeps what the receipts say of the past.
LEMMA PastStays ==
  ASSUME AuditInv, NEW p \in Plots, NEW x, Advances(p, x)
  PROVE  /\ \A q \in Plots : \A r \in Kind({"permit", "transfer"}, q) :
              OwnerAt(q, r.revision - 1)' = OwnerAt(q, r.revision - 1)
         /\ \A q \in Plots \ {p} : (Claimed(q) <=> Claimed(q)') /\ OwnerAt(q, Rev(q))' = OwnerAt(q, Rev(q))
  <1>1. ASSUME NEW q \in Plots, NEW r \in Kind({"permit", "transfer"}, q)
        PROVE  OwnerAt(q, r.revision - 1)' = OwnerAt(q, r.revision - 1)
    <2>1. r.revision \in 1 .. Rev(q) /\ Rev(q) \in Nat
      BY HistoryBounded, RevIsNat DEF AuditInv, SerialInv
    <2>2. r.revision - 1 \in Int /\ r.revision - 1 <= Rev(q)
      BY <2>1
    <2> QED
      BY <2>2, OwnerAtStays DEF AuditInv
  <1>2. ASSUME NEW q \in Plots \ {p}
        PROVE  (Claimed(q) <=> Claimed(q)') /\ OwnerAt(q, Rev(q))' = OwnerAt(q, Rev(q))
    <2>1. claims'[q] = claims[q]
      BY DEF Advances
    <2>2. Rev(q)' = Rev(q)
      BY <2>1 DEF Rev, Claimed
    <2>3. Rev(q) \in Int
      BY RevIsNat DEF AuditInv, SerialInv
    <2>4. Kind({"register", "transfer"}, q)' = Kind({"register", "transfer"}, q)
      BY KindAdds DEF Advances
    <2> QED
      BY <2>1, <2>2, <2>4 DEF Claimed, OwnerAt
  <1> QED
    BY <1>1, <1>2

LEMMA OwnerNext ==
  ASSUME AuditInv, NEW p \in Plots, NEW x, Registers(p, x) \/ Permits(p, x) \/ Transfers(p, x)
  PROVE  OwnerIsLatest'
  <1>1. Advances(p, x)
    BY DEF Registers, Permits, Transfers
  <1>2. ASSUME NEW q \in Plots, Claimed(q)' PROVE claims'[q].owner = OwnerAt(q, Rev(q))'
    <2>1. CASE q # p
      <3>1. claims'[q] = claims[q] /\ Claimed(q) /\ OwnerAt(q, Rev(q))' = OwnerAt(q, Rev(q))
        BY <1>1, <1>2, <2>1, PastStays DEF Advances
      <3> QED
        BY <3>1 DEF AuditInv, OwnerIsLatest
    <2>2. CASE q = p /\ Permits(p, x)
      <3>1. claims'[p].owner = claims[p].owner /\ Claimed(p) /\ OwnerAt(p, Rev(p))' = OwnerAt(p, Rev(p))
        BY <1>1, <2>2, OwnerNowStays DEF Permits, AuditInv
      <3> QED
        BY <2>2, <3>1 DEF AuditInv, OwnerIsLatest
    <2>3. CASE q = p /\ ~ Permits(p, x)
      <3> DEFINE K == {"register", "transfer"}
                 rs == {r \in Kind(K, p)' : r.revision <= Rev(p)'}
      <3>1. /\ x.request.kind \in K /\ claims'[p].owner = x.request.owner
            /\ x.revision = Rev(p) + 1 /\ Rev(p)' = Rev(p) + 1
        BY <1>1, <2>3 DEF Registers, Transfers, Advances
      <3>2. Kind(K, p)' = Kind(K, p) \cup {x}
        BY <1>1, <3>1, KindAdds DEF Advances
      <3>3. Rev(p) \in Nat /\ \A r \in Kind(K, p) : r.revision \in 1 .. Rev(p)
        BY RevIsNat, HistoryBounded DEF AuditInv, SerialInv
      <3>4. x \in rs /\ \A r \in rs \ {x} : r.revision \in Int /\ r.revision < x.revision
        BY <3>1, <3>2, <3>3
      <3>5. Latest(rs) = x
        <4>1. x.revision \in Int
          BY <3>1, <3>3
        <4> HIDE DEF rs
        <4> QED
          BY <3>4, <4>1, LatestTop
      <3> QED
        BY <2>3, <3>1, <3>5 DEF OwnerAt
    <2> QED
      BY <2>1, <2>2, <2>3
  <1> QED
    BY <1>2 DEF OwnerIsLatest

LEMMA TransferNext ==
  ASSUME AuditInv, NEW p \in Plots, NEW x, Registers(p, x) \/ Permits(p, x) \/ Transfers(p, x)
  PROVE  OnlyOwnersTransfer'
  <1>1. Advances(p, x)
    BY DEF Registers, Permits, Transfers
  <1>2. ASSUME NEW q \in Plots, NEW r \in Kind({"transfer"}, q)'
        PROVE  r.request.actor = OwnerAt(q, r.revision - 1)'
    <2>1. CASE r \in Kind({"transfer"}, q)
      <3>1. r \in Kind({"permit", "transfer"}, q)
        BY <2>1 DEF Kind
      <3>2. r.request.actor = OwnerAt(q, r.revision - 1)
        BY <2>1 DEF AuditInv, OnlyOwnersTransfer
      <3> QED
        BY <1>1, <3>1, <3>2, PastStays
    <2>2. CASE r \notin Kind({"transfer"}, q)
      <3>1. r = x /\ q = p /\ Transfers(p, x)
        BY <1>1, <1>2, <2>2 DEF Kind, Advances, Registers, Permits
      <3>2. x.request.actor = OwnerAt(p, Rev(p)) /\ x.revision = Rev(p) + 1 /\ Rev(p) \in Nat
        BY <1>1, <3>1, RevIsNat DEF Transfers, Advances, AuditInv, OwnerIsLatest, SerialInv
      <3>3. OwnerAt(p, x.revision - 1)' = OwnerAt(p, x.revision - 1) /\ x.revision - 1 = Rev(p)
        BY <1>1, <3>2, OwnerAtStays DEF AuditInv
      <3> QED
        BY <3>1, <3>2, <3>3
    <2> QED
      BY <2>1, <2>2
  <1> QED
    BY <1>2 DEF OnlyOwnersTransfer

LEMMA PermitsNext ==
  ASSUME AuditInv, NEW p \in Plots, NEW x, Registers(p, x) \/ Permits(p, x) \/ Transfers(p, x)
  PROVE  PermitsAreLatest'
  <1>1. Advances(p, x)
    BY DEF Registers, Permits, Transfers
  <1>2. ASSUME NEW q \in Plots, NEW s \in Subjects
        PROVE  permits'[q][s] = IF PermitsOf(q, s)' = {} THEN {}
                                ELSE Latest(PermitsOf(q, s)').request.bits
    <2>1. CASE q = p /\ Permits(p, x) /\ x.request.subject = s
      <3>1. PermitsOf(p, s)' = PermitsOf(p, s) \cup {x}
        BY <1>1, <2>1, KindAdds DEF PermitsOf, Permits, Advances
      <3>2. Rev(p) \in Nat /\ x.revision = Rev(p) + 1
            /\ \A r \in PermitsOf(p, s) : r.revision \in 1 .. Rev(p)
        BY <1>1, RevIsNat, HistoryBounded DEF AuditInv, SerialInv, PermitsOf, Advances
      <3> DEFINE rs == PermitsOf(p, s) \cup {x}
      <3>3. Latest(rs) = x
        <4>1. x \in rs /\ x.revision \in Int
              /\ \A r \in rs \ {x} : r.revision \in Int /\ r.revision < x.revision
          BY <3>2
        <4> HIDE DEF rs
        <4> QED
          BY <4>1, LatestTop
      <3>4. permits'[p][s] = x.request.bits
        BY <2>1 DEF Permits, AuditInv, SerialInv, RowTypes
      <3> QED
        BY <2>1, <3>1, <3>3, <3>4
    <2>2. CASE ~ (q = p /\ Permits(p, x) /\ x.request.subject = s)
      <3>1. permits'[q][s] = permits[q][s]
        BY <1>1, <2>2 DEF Registers, Transfers, Permits, Advances, AuditInv, SerialInv, RowTypes
      <3>2. PermitsOf(q, s)' = PermitsOf(q, s)
        <4>1. receipts' = receipts \cup {x} /\ x.target = p
          BY <1>1 DEF Advances
        <4>2. x.request.kind # "permit" \/ x.request.subject # s \/ q # p
          BY <2>2 DEF Registers, Transfers
        <4> QED
          BY <4>1, <4>2 DEF PermitsOf, Kind
      <3> QED
        BY <3>1, <3>2 DEF AuditInv, PermitsAreLatest
    <2> QED
      BY <2>1, <2>2
  <1> QED
    BY <1>2 DEF PermitsAreLatest

LEMMA GivenNext ==
  ASSUME AuditInv, NEW p \in Plots, NEW x, Registers(p, x) \/ Permits(p, x) \/ Transfers(p, x)
  PROVE  RightsAreGiven'
  <1> DEFINE Given(q) == UNION {r.request.bits : r \in ByOwner(q)}
  <1>1. Advances(p, x)
    BY DEF Registers, Permits, Transfers
  <1>2. \A q \in Plots : ByOwner(q) \subseteq ByOwner(q)'
    <2> SUFFICES ASSUME NEW q \in Plots, NEW r \in ByOwner(q) PROVE r \in ByOwner(q)'
      OBVIOUS
    <2>1. r \in Kind({"permit", "transfer"}, q) /\ r \in Kind({"permit"}, q)'
      BY <1>1 DEF ByOwner, Kind, Advances
    <2> QED
      BY <1>1, <2>1, PastStays DEF ByOwner
  <1>3. ASSUME NEW q \in Plots, NEW s \in Subjects, NEW b \in permits'[q][s]
        PROVE  \E r \in ByOwner(q)' : b \in r.request.bits
    <2>1. ASSUME NEW t \in Subjects, b \in permits[q][t]
          PROVE  \E r \in ByOwner(q)' : b \in r.request.bits
      BY <1>2, <2>1 DEF AuditInv, RightsAreGiven
    <2>2. CASE q = p /\ Permits(p, x) /\ x.request.subject = s
      <3>1. b \in x.request.bits /\ b \in BitsOf(x.request.actor, p) /\ x.request.actor \in Characters
        BY <1>3, <2>2 DEF Permits, AuditInv, SerialInv, RowTypes
      <3>2. CASE claims[p].owner = x.request.actor
        <4>1. x.revision = Rev(p) + 1 /\ Rev(p) \in Nat
          BY <1>1, RevIsNat DEF Advances, AuditInv, SerialInv
        <4>2. OwnerAt(p, x.revision - 1)' = OwnerAt(p, x.revision - 1) /\ x.revision - 1 = Rev(p)
          BY <1>1, <4>1, OwnerAtStays DEF AuditInv
        <4>3. x.request.actor = OwnerAt(p, Rev(p))
          BY <2>2, <3>2 DEF Permits, AuditInv, OwnerIsLatest
        <4>4. x \in Kind({"permit"}, p)'
          BY <1>1, <2>2 DEF Kind, Advances, Permits
        <4>5. x \in ByOwner(p)'
          BY <4>2, <4>3, <4>4 DEF ByOwner
        <4> QED
          BY <2>2, <3>1, <4>5
      <3>3. CASE claims[p].owner # x.request.actor
        <4>1. PICK t \in {x.request.actor} \cup members[x.request.actor] : b \in permits[p][t]
          BY <3>1, <3>3 DEF BitsOf
        <4>2. t \in Subjects
          BY <3>1 DEF Subjects, AuditInv, SerialInv, RowTypes
        <4> QED
          BY <2>1, <2>2, <4>1, <4>2
      <3> QED
        BY <3>2, <3>3
    <2>3. CASE ~ (q = p /\ Permits(p, x) /\ x.request.subject = s)
      <3>1. permits'[q][s] = permits[q][s]
        BY <1>1, <2>3 DEF Registers, Transfers, Permits, Advances, AuditInv, SerialInv, RowTypes
      <3> QED
        BY <1>3, <2>1, <3>1
    <2> QED
      BY <2>2, <2>3
  <1> QED
    BY <1>3 DEF RightsAreGiven

LEMMA AuditInit == Init => AuditInv
  <1> SUFFICES ASSUME Init PROVE AuditInv
    OBVIOUS
  <1>1. \A K, t : Kind(K, t) = {}
    BY DEF Init, Kind
  <1>2. SerialInv
    BY SerialInit
  <1>3. OwnerIsLatest /\ OnlyOwnersTransfer
    BY <1>1 DEF Init, OwnerIsLatest, Claimed, OnlyOwnersTransfer
  <1>4. PermitsAreLatest /\ RightsAreGiven
    <2>1. \A p \in Plots, s \in Subjects : permits[p][s] = {} /\ PermitsOf(p, s) = {}
      BY <1>1 DEF Init, PermitsOf
    <2> QED
      BY <2>1 DEF PermitsAreLatest, RightsAreGiven
  <1>5. MembersAreLatest
    BY <1>1 DEF Init, MembersAreLatest
  <1> QED
    BY <1>2, <1>3, <1>4, <1>5 DEF AuditInv

LEMMA AuditNext == AuditInv /\ [Next]_vars => AuditInv'
  <1> SUFFICES ASSUME AuditInv, [Next]_vars PROVE AuditInv'
    OBVIOUS
  <1>0. SerialInv'
    BY SerialNext DEF AuditInv
  <1>1. ASSUME NEW p \in Plots, NEW x, Registers(p, x) \/ Permits(p, x) \/ Transfers(p, x)
        PROVE  AuditInv'
    <2>1. MembersAreLatest'
      <3>1. Advances(p, x) /\ x.request.kind # "memberships"
        BY <1>1 DEF Registers, Permits, Transfers
      <3>2. \A c \in Characters : Kind({"memberships"}, c)' = Kind({"memberships"}, c)
        BY <3>1, KindAdds DEF Advances
      <3> QED
        BY <3>1, <3>2 DEF AuditInv, MembersAreLatest, Advances
    <2> QED
      BY <1>0, <1>1, <2>1, OwnerNext, TransferNext, PermitsNext, GivenNext DEF AuditInv
  <1>2. ASSUME NEW c \in Characters, NEW x, Projects(c, x) PROVE AuditInv'
    <2>1. /\ x.target = c /\ x.revision = memberRev[c] + 1 /\ x.request.kind = "memberships"
          /\ receipts' = receipts \cup {x} /\ claims' = claims /\ permits' = permits
          /\ \A d \in Characters : members'[d] = IF d = c THEN x.request.groups ELSE members[d]
      BY <1>2 DEF Projects, AuditInv, SerialInv, RowTypes
    <2>2. \A K \in SUBSET {"register", "permit", "transfer"} : \A q : Kind(K, q)' = Kind(K, q)
      BY <2>1, KindAdds
    <2>3. \A q, k : OwnerAt(q, k)' = OwnerAt(q, k)
      BY <2>2 DEF OwnerAt
    <2>4. \A q : Rev(q)' = Rev(q)
      BY <2>1 DEF Rev, Claimed
    <2>5. OwnerIsLatest'
      BY <2>1, <2>3, <2>4 DEF AuditInv, OwnerIsLatest, Claimed
    <2>6. OnlyOwnersTransfer'
      BY <2>2, <2>3 DEF AuditInv, OnlyOwnersTransfer
    <2>7. PermitsAreLatest'
      <3>1. \A q, s : PermitsOf(q, s)' = PermitsOf(q, s)
        BY <2>2 DEF PermitsOf
      <3> QED
        BY <2>1, <3>1 DEF AuditInv, PermitsAreLatest
    <2>8. RightsAreGiven'
      <3>1. \A q : ByOwner(q)' = ByOwner(q)
        BY <2>2, <2>3 DEF ByOwner
      <3> QED
        BY <2>1, <3>1 DEF AuditInv, RightsAreGiven
    <2>9. MembersAreLatest'
      <3> SUFFICES ASSUME NEW d \in Characters
                   PROVE  members'[d] = IF Kind({"memberships"}, d)' = {} THEN {}
                                        ELSE Latest(Kind({"memberships"}, d)').request.groups
        BY DEF MembersAreLatest
      <3>1. CASE d = c
        <4> DEFINE rs == Kind({"memberships"}, d) \cup {x}
        <4>1. Kind({"memberships"}, d)' = rs
          BY <2>1, <3>1, KindAdds
        <4>2. \A r \in Kind({"memberships"}, d) : r.revision \in 1 .. memberRev[c]
          BY <3>1 DEF AuditInv, SerialInv, Serial
        <4>3. x \in rs /\ x.revision \in Int
              /\ \A r \in rs \ {x} : r.revision \in Int /\ r.revision < x.revision
          BY <2>1, <4>2, CapsAssumption DEF AuditInv, SerialInv, RowTypes
        <4>4. Latest(rs) = x
          <5> HIDE DEF rs
          <5> QED
            BY <4>3, LatestTop
        <4> QED
          BY <2>1, <3>1, <4>1, <4>4
      <3>2. CASE d # c
        <4>1. Kind({"memberships"}, d)' = Kind({"memberships"}, d)
          BY <2>1, <3>2, KindAdds
        <4> QED
          BY <2>1, <3>2, <4>1 DEF AuditInv, MembersAreLatest
      <3> QED
        BY <3>1, <3>2
    <2> QED
      BY <1>0, <2>5, <2>6, <2>7, <2>8, <2>9 DEF AuditInv
  <1>3. CASE UNCHANGED tables
    <2>1. \A K, t : Kind(K, t)' = Kind(K, t)
      BY <1>3 DEF tables, Kind
    <2>2. \A q, k : OwnerAt(q, k)' = OwnerAt(q, k)
      BY <2>1 DEF OwnerAt
    <2>3. \A q : Rev(q)' = Rev(q) /\ (Claimed(q)' <=> Claimed(q)) /\ ByOwner(q)' = ByOwner(q)
      BY <1>3, <2>1, <2>2 DEF tables, Rev, Claimed, ByOwner
    <2>4. \A q, s : PermitsOf(q, s)' = PermitsOf(q, s)
      BY <2>1 DEF PermitsOf
    <2>5. OwnerIsLatest' /\ OnlyOwnersTransfer'
      BY <1>3, <2>1, <2>2, <2>3 DEF tables, AuditInv, OwnerIsLatest, OnlyOwnersTransfer
    <2>6. PermitsAreLatest' /\ RightsAreGiven'
      BY <1>3, <2>3, <2>4 DEF tables, AuditInv, PermitsAreLatest, RightsAreGiven
    <2>7. MembersAreLatest'
      BY <1>3, <2>1 DEF tables, AuditInv, MembersAreLatest
    <2> QED
      BY <1>0, <2>5, <2>6, <2>7 DEF AuditInv
  <1> QED
    BY <1>1, <1>2, <1>3, StepCases DEF AuditInv, SerialInv

\* A plot changes hands only by an operation of the one who held it.
THEOREM OnlyOwnersTransferHolds == Spec => []OnlyOwnersTransfer
  <1>1. AuditInv => OnlyOwnersTransfer
    BY DEF AuditInv
  <1> QED
    BY <1>1, AuditInit, AuditNext, PTL DEF Spec

\* Every right of anyone but the owner was given by whoever owned the plot at that time.
THEOREM RightsTraceToOwnerHolds == Spec => []RightsTraceToOwner
  <1>1. AuditInv => RightsTraceToOwner
    BY DEF AuditInv, RightsAreGiven, ByOwner, RightsTraceToOwner
  <1> QED
    BY <1>1, AuditInit, AuditNext, PTL DEF Spec

\* The receipts number every change once and replay to the rows authority is decided from.
THEOREM AuditIsSerialHolds == Spec => []AuditIsSerial
  <1>1. AuditInv => AuditReplaysToState
    BY DEF AuditInv, OwnerIsLatest, PermitsAreLatest, PermitsOf, MembersAreLatest,
           AuditReplaysToState, Rev
  <1>2. SerialInv => RevisionsAreSerial
    BY DEF SerialInv, Serial, RevisionsAreSerial, Rev
  <1>3. AuditInv => AuditIsSerial
    BY <1>1, <1>2 DEF AuditInv, AuditIsSerial
  <1> QED
    BY <1>3, AuditInit, AuditNext, PTL DEF Spec

-----------------------------------------------------------------------------
(* Interactions.                                                            *)

HandleTypes ==
  /\ interactions \in [Handles ->
       [actor: Characters, plot: Plots, required: SUBSET Rights,
        claimRev: Nat, memberRev: Nat] \cup {None}]
  /\ writes \in [Handles -> Nat \cup {None}]

\* A live handle that was checked at the present revisions has never lost its rights:
\* whatever takes rights away moves a revision.
HandleOk(h) ==
  LET i == interactions[h] IN
  /\ writes[h] = 0 /\ Claimed(i.plot)
  /\ i.claimRev <= claims[i.plot].revision /\ i.memberRev <= memberRev[i.actor]
  /\ i.claimRev = claims[i.plot].revision /\ i.memberRev = memberRev[i.actor] =>
       Holds(h) /\ h \notin interrupted

HandleInv ==
  /\ RowTypes /\ HandleTypes
  /\ \A h \in interrupted : interactions[h] # None
  /\ \A h \in Handles : interactions[h] # None => HandleOk(h)

\* The rights of a character on a plot stay as long as both revisions do.
LEMMA RightsMoveRevisions ==
  ASSUME RowTypes, TableStep, NEW p0 \in Plots, NEW c0 \in Characters, Claimed(p0)
  PROVE  /\ Claimed(p0)' /\ claims[p0].revision <= claims'[p0].revision
         /\ memberRev[c0] <= memberRev'[c0]
         /\ claims[p0].revision = claims'[p0].revision /\ memberRev[c0] = memberRev'[c0] =>
              BitsOf(c0, p0)' = BitsOf(c0, p0)
  <1>0. claims[p0].revision \in Int /\ memberRev[c0] \in Int
    BY CapsAssumption DEF RowTypes, Claimed
  <1>1. ASSUME NEW p \in Plots, NEW x, Registers(p, x) \/ Permits(p, x) \/ Transfers(p, x)
        PROVE  /\ Claimed(p0)' /\ claims[p0].revision <= claims'[p0].revision
               /\ memberRev[c0] <= memberRev'[c0]
               /\ claims[p0].revision = claims'[p0].revision /\ memberRev[c0] = memberRev'[c0] =>
                    BitsOf(c0, p0)' = BitsOf(c0, p0)
    <2>1. Advances(p, x)
      BY <1>1 DEF Registers, Permits, Transfers
    <2>2. CASE p = p0
      <3>1. Claimed(p0)' /\ claims'[p0].revision = claims[p0].revision + 1 /\ memberRev' = memberRev
        BY <2>1, <2>2 DEF Advances, Rev
      <3> QED
        BY <1>0, <3>1
    <2>3. CASE p # p0
      <3>1. claims'[p0] = claims[p0] /\ permits'[p0] = permits[p0] /\ members' = members
            /\ memberRev' = memberRev
        BY <2>1, <2>3 DEF Advances
      <3> QED
        BY <1>0, <3>1 DEF BitsOf, Claimed
    <2> QED
      BY <2>2, <2>3
  <1>2. ASSUME NEW c \in Characters, NEW x, Projects(c, x)
        PROVE  /\ Claimed(p0)' /\ claims[p0].revision <= claims'[p0].revision
               /\ memberRev[c0] <= memberRev'[c0]
               /\ claims[p0].revision = claims'[p0].revision /\ memberRev[c0] = memberRev'[c0] =>
                    BitsOf(c0, p0)' = BitsOf(c0, p0)
    <2>1. /\ claims' = claims /\ permits' = permits
          /\ memberRev'[c0] = IF c = c0 THEN memberRev[c0] + 1 ELSE memberRev[c0]
          /\ members'[c0] = IF c = c0 THEN x.request.groups ELSE members[c0]
      BY <1>2 DEF Projects, RowTypes
    <2>2. CASE c = c0
      BY <1>0, <2>1, <2>2 DEF Claimed
    <2>3. CASE c # c0
      BY <1>0, <2>1, <2>3 DEF Claimed, BitsOf
    <2> QED
      BY <2>2, <2>3
  <1> QED
    BY <1>1, <1>2, TableStepCases

LEMMA TableKeepsHandle ==
  ASSUME HandleInv, TableStep, Watch, NEW h \in Handles, interactions[h] # None
  PROVE  HandleOk(h)'
  <1>1. interactions' = interactions /\ writes' = writes
    BY TableStepCases DEF HandleInv, Registers, Permits, Transfers, Projects, Advances
  <1>2. PICK i \in [actor: Characters, plot: Plots, required: SUBSET Rights,
                    claimRev: Nat, memberRev: Nat] : i = interactions[h]
    BY DEF HandleInv, HandleTypes
  <1>3. /\ writes[h] = 0 /\ Claimed(i.plot)
        /\ i.claimRev <= claims[i.plot].revision /\ i.memberRev <= memberRev[i.actor]
        /\ i.claimRev = claims[i.plot].revision /\ i.memberRev = memberRev[i.actor] =>
             i.required \subseteq BitsOf(i.actor, i.plot) /\ h \notin interrupted
    BY <1>2 DEF HandleInv, HandleOk, Holds
  <1>4. /\ Claimed(i.plot)' /\ claims[i.plot].revision <= claims'[i.plot].revision
        /\ memberRev[i.actor] <= memberRev'[i.actor]
        /\ claims[i.plot].revision = claims'[i.plot].revision /\ memberRev[i.actor] = memberRev'[i.actor] =>
             BitsOf(i.actor, i.plot)' = BitsOf(i.actor, i.plot)
    <2>1. i.plot \in Plots /\ i.actor \in Characters
      OBVIOUS
    <2>2. RowTypes /\ Claimed(i.plot)
      BY <1>3 DEF HandleInv
    <2> QED
      BY <2>1, <2>2, RightsMoveRevisions
  <1>5. RowTypes'
    BY TableStepCases DEF HandleInv
  <1>6. /\ claims[i.plot].revision \in Int /\ claims'[i.plot].revision \in Int
        /\ memberRev[i.actor] \in Int /\ memberRev'[i.actor] \in Int
        /\ i.claimRev \in Int /\ i.memberRev \in Int
    BY <1>3, <1>4, <1>5, CapsAssumption DEF HandleInv, RowTypes, Claimed
  <1>7. /\ i.claimRev <= claims'[i.plot].revision /\ i.memberRev <= memberRev'[i.actor]
        /\ i.claimRev = claims'[i.plot].revision /\ i.memberRev = memberRev'[i.actor] =>
             /\ i.claimRev = claims[i.plot].revision /\ i.memberRev = memberRev[i.actor]
             /\ BitsOf(i.actor, i.plot)' = BitsOf(i.actor, i.plot)
    BY <1>3, <1>4, <1>6
  <1>8. i.claimRev = claims'[i.plot].revision /\ i.memberRev = memberRev'[i.actor] =>
          i.required \subseteq BitsOf(i.actor, i.plot)' /\ h \notin interrupted
    BY <1>3, <1>7
  <1>9. interactions'[h] = i /\ writes'[h] = 0
    BY <1>1, <1>2, <1>3
  <1>10. Holds(h)' <=> i.required \subseteq BitsOf(i.actor, i.plot)'
    BY <1>9 DEF Holds
  <1>11. h \in interrupted' <=> (h \in interrupted \/ ~Holds(h)')
    BY <1>1 DEF Watch
  <1> QED
    BY <1>4, <1>7, <1>8, <1>9, <1>10, <1>11 DEF HandleOk

LEMMA HandleStays ==
  ASSUME HandleInv, UNCHANGED tables, Watch, NEW h \in Handles, interactions[h] # None,
         interactions'[h] = interactions[h], writes'[h] = writes[h]
  PROVE  HandleOk(h)'
  <1>1. HandleOk(h)
    BY DEF HandleInv
  <1>2. \A c, p : BitsOf(c, p)' = BitsOf(c, p)
    BY DEF tables, BitsOf
  <1>3. Holds(h)' <=> Holds(h)
    BY <1>2 DEF Holds
  <1>4. h \in interrupted' <=> (h \in interrupted \/ ~Holds(h)')
    BY DEF Watch
  <1> QED
    BY <1>1, <1>3, <1>4 DEF HandleOk, tables, Claimed

LEMMA HandleNext == HandleInv /\ [Next]_vars => HandleInv'
  <1> SUFFICES ASSUME HandleInv, [Next]_vars PROVE HandleInv'
    OBVIOUS
  <1>0. RowTypes'
    BY StepCases DEF HandleInv
  <1>1. CASE UNCHANGED vars
    BY <1>0, <1>1
    DEF vars, tables, HandleInv, HandleTypes, HandleOk, Holds, BitsOf, Claimed
  <1>2. CASE TableStep /\ Watch
    <2>1. interactions' = interactions /\ writes' = writes
      BY <1>2, TableStepCases DEF HandleInv, Registers, Permits, Transfers, Projects, Advances
    <2>2. \A h \in Handles : interactions'[h] # None => HandleOk(h)'
      BY <1>2, <2>1, TableKeepsHandle
    <2>3. \A h \in interrupted' : interactions'[h] # None
      BY <1>2 DEF Watch
    <2> QED
      BY <1>0, <2>1, <2>2, <2>3 DEF HandleInv, HandleTypes
  <1>3. ASSUME NEW h \in Handles, NEW c \in Characters, NEW p \in Plots,
               NEW bits \in SUBSET Rights \ {{}}, BeginInteraction(h, c, p, bits), Watch
        PROVE  HandleInv'
    <2> DEFINE i == [actor |-> c, plot |-> p, required |-> bits,
                     claimRev |-> claims[p].revision, memberRev |-> memberRev[c]]
    <2>1. /\ interactions' = [interactions EXCEPT ![h] = i] /\ interactions[h] = None
          /\ writes' = [writes EXCEPT ![h] = 0] /\ Claimed(p) /\ bits \subseteq BitsOf(c, p)
          /\ UNCHANGED tables
      BY <1>3 DEF BeginInteraction
    <2>2. claims[p].revision \in Nat /\ memberRev[c] \in Nat
      BY <2>1, CapsAssumption DEF HandleInv, RowTypes, Claimed
    <2>3. i \in [actor: Characters, plot: Plots, required: SUBSET Rights, claimRev: Nat, memberRev: Nat]
      BY <2>2
    <2>4. interactions' \in [Handles ->
            [actor: Characters, plot: Plots, required: SUBSET Rights,
             claimRev: Nat, memberRev: Nat] \cup {None}]
      <3> HIDE DEF i
      <3> QED
        BY <2>1, <2>3 DEF HandleInv, HandleTypes
    <2>5. writes' \in [Handles -> Nat \cup {None}]
      BY <2>1 DEF HandleInv, HandleTypes
    <2>6. HandleOk(h)'
      <3>1. interactions'[h] = i /\ writes'[h] = 0
        BY <2>1 DEF HandleInv, HandleTypes
      <3>2. BitsOf(c, p)' = BitsOf(c, p) /\ Claimed(p)'
            /\ claims'[p].revision = claims[p].revision /\ memberRev'[c] = memberRev[c]
        BY <2>1 DEF tables, BitsOf, Claimed
      <3>3. Holds(h)'
        BY <2>1, <3>1, <3>2 DEF Holds
      <3>4. h \notin interrupted'
        BY <1>3, <2>1, <3>3 DEF Watch, HandleInv
      <3> QED
        BY <2>2, <3>1, <3>2, <3>3, <3>4 DEF HandleOk
    <2>7. \A g \in Handles \ {h} : interactions'[g] = interactions[g] /\ writes'[g] = writes[g]
      BY <2>1 DEF HandleInv, HandleTypes
    <2>8. \A g \in Handles : interactions'[g] # None => HandleOk(g)'
      BY <1>3, <2>1, <2>6, <2>7, HandleStays
    <2> QED
      BY <1>0, <1>3, <2>4, <2>5, <2>8 DEF HandleInv, HandleTypes, Watch
  <1>4. ASSUME UNCHANGED tables, Watch, interactions' \in [Handles -> {None} \cup {interactions[h] : h \in Handles}],
               \A h \in Handles : interactions'[h] \in {None, interactions[h]},
               writes' \in [Handles -> Nat \cup {None}],
               \A h \in Handles : interactions'[h] # None => writes'[h] = writes[h]
        PROVE  HandleInv'
    <2>1. \A h \in Handles : interactions'[h] # None => HandleOk(h)'
      BY <1>4, HandleStays
    <2>2. HandleTypes'
      BY <1>4 DEF HandleInv, HandleTypes
    <2> QED
      BY <1>0, <1>4, <2>1, <2>2 DEF HandleInv, Watch
  <1>5. ASSUME NEW h \in Handles,
               CommitInteraction(h) \/ CommitRefused(h) \/ CancelInteraction(h), Watch
        PROVE  HandleInv'
    <2>1. /\ UNCHANGED tables /\ interactions' = [interactions EXCEPT ![h] = None]
          /\ interactions[h] # None
      BY <1>5 DEF CommitInteraction, CommitRefused, CancelInteraction, Consumed, Live
    <2>2. writes[h] \in Nat
      BY <2>1 DEF HandleInv, HandleOk
    <2>3. writes' = writes \/ writes' = [writes EXCEPT ![h] = @ + 1]
      BY <1>5 DEF CommitInteraction, CommitRefused, CancelInteraction
    <2>4. /\ writes' \in [Handles -> Nat \cup {None}]
          /\ \A g \in Handles \ {h} : writes'[g] = writes[g] /\ interactions'[g] = interactions[g]
          /\ interactions'[h] = None
      BY <2>1, <2>2, <2>3 DEF HandleInv, HandleTypes
    <2>5. interactions' \in [Handles -> {None} \cup {interactions[g] : g \in Handles}]
      BY <2>1 DEF HandleInv, HandleTypes
    <2> QED
      BY <1>4, <1>5, <2>1, <2>4, <2>5
  <1>6. CASE Restart /\ Watch
    BY <1>4, <1>6 DEF Restart, HandleInv, HandleTypes
  <1> QED
    BY <1>1, <1>2, <1>3, <1>5, <1>6 DEF Next, InteractionStep

\* A commit never relies on rights that its actor lost since the interaction began, not
\* even when they were given back, and one handle commits at most once.
THEOREM CommitsAreUninterruptedHolds == Spec => CommitsAreUninterrupted
  <1> DEFINE Uninterrupted ==
        \A h \in Handles : writes'[h] # writes[h] /\ writes[h] # None =>
          /\ h \notin interrupted
          /\ writes[h] = 0
          /\ interactions[h].required \subseteq BitsOf(interactions[h].actor, interactions[h].plot)
  <1>1. Init => HandleInv
    BY RowsInit DEF Init, HandleInv, HandleTypes
  <1>2. HandleInv /\ [Next]_vars => [Uninterrupted]_vars
    <2> SUFFICES ASSUME HandleInv, Next, NEW h \in Handles, writes'[h] # writes[h], writes[h] # None
                 PROVE  /\ h \notin interrupted
                        /\ writes[h] = 0
                        /\ interactions[h].required
                             \subseteq BitsOf(interactions[h].actor, interactions[h].plot)
      OBVIOUS
    <2>1. CommitInteraction(h)
      <3>1. ASSUME TableStep PROVE writes' = writes
        BY <3>1, TableStepCases DEF HandleInv, Registers, Permits, Transfers, Projects, Advances
      <3>2. ASSUME NEW g \in Handles, g # h PROVE writes'[h] = writes[h] \/ ~CommitInteraction(g)
        BY <3>2 DEF CommitInteraction, HandleInv, HandleTypes
      <3>3. ASSUME NEW g \in Handles, NEW c \in Characters, NEW p \in Plots, NEW bits,
                   BeginInteraction(g, c, p, bits)
            PROVE  FALSE
        BY <3>3 DEF BeginInteraction, HandleInv, HandleTypes
      <3> QED
        BY <3>1, <3>2, <3>3 DEF Next, InteractionStep, CommitRefused, CancelInteraction, Restart
    <2>2. interactions[h] # None /\ Authorized(h)
      BY <2>1 DEF CommitInteraction, Live
    <2>3. HandleOk(h)
      BY <2>2 DEF HandleInv
    <2> QED
      BY <2>2, <2>3 DEF HandleOk, Authorized, Holds
  <1> QED
    BY <1>1, <1>2, HandleNext, PTL DEF Spec, CommitsAreUninterrupted
=============================================================================
