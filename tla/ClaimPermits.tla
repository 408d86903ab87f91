----------------------------- MODULE ClaimPermits -----------------------------
(***************************************************************************)
(* Plot claims, explicit permits, membership projections and in-flight     *)
(* interactions (src/server/claim_permit_authority.gd, ADR 0014).          *)
(*                                                                         *)
(* Every operation is one transaction of SqliteStore, so it is one action  *)
(* here.  An operation the code refuses changes nothing and is not an      *)
(* action; a repeated operation is refused by its receipt.  An expected    *)
(* revision that is not the current one is refused too, so an action that  *)
(* succeeds was asked for at the current revision.                         *)
(*                                                                         *)
(* A definition named X_Fault is X with one plausible bug, which a         *)
(* property below would catch.                                             *)
(***************************************************************************)
EXTENDS Integers, FiniteSets

CONSTANTS
  Plots, Characters,
  Groups,          \* party and faction_role subjects
  Parties,         \* the parties among them
  Rights,          \* the permission bits
  Administer,      \* ADMINISTER_PERMITS
  Operations,      \* operation ids
  Handles,         \* interaction ids: fresh 128-bit random values in the code
  MaxRevision,     \* MAX_REVISION
  MaxInteractions, \* MAX_INTERACTIONS
  None

ASSUME PartiesAssumption == Parties \subseteq Groups
ASSUME AdministerAssumption == Administer \in Rights
ASSUME CapsAssumption == MaxRevision \in Nat \ {0} /\ MaxInteractions \in Nat
ASSUME NoneAssumption == None \notin [owner: Characters, revision: 1 .. MaxRevision]

Subjects == Characters \cup Groups

VARIABLES
  claims,        \* plot_claims
  permits,       \* plot_permits; the empty set is no row
  members,       \* permission_memberships
  memberRev,     \* permission_member_revisions; 0 is no row
  receipts,      \* permission_operation_receipts
  interactions,  \* _interactions: live handles, in memory only
  writes,        \* committed action writes per handle (history)
  interrupted    \* live handles whose actor lacked the rights at some moment
                 \* since the start (history)

tables == <<claims, permits, members, memberRev, receipts>>
vars == <<tables, interactions, writes, interrupted>>

-----------------------------------------------------------------------------
(* Reads.                                                                   *)

Claimed(p) == claims[p] # None

\* _permission_snapshot: the owner holds everything, others what the permits of
\* the character itself and of its current memberships add up to.
BitsOf(c, p) ==
  UNION ({permits[p][s] : s \in {c} \cup members[c]}
           \cup {IF claims[p].owner = c THEN Rights ELSE {}})

\* actor_scope of a receipt: trusted provisioning, the upstream projection of one
\* character's groups, or a character's own commands.
Provision == [by |-> "provision", of |-> None]
Upstream(c) == [by |-> "memberships", of |-> c]
Player(c) == [by |-> "character", of |-> c]

\* _lookup_receipt finds none: an operation id is good once per scope.
Unused(scope, op) == ~ \E r \in receipts : r.scope = scope /\ r.op = op

Live == {h \in Handles : interactions[h] # None}

\* The rights an interaction needs are there now.
Holds(h) == interactions[h].required \subseteq BitsOf(interactions[h].actor, interactions[h].plot)

\* History: every step looks whether a live handle's actor lacks the rights.
Watch ==
  interrupted' = {h \in Handles :
    interactions'[h] # None /\ (h \in interrupted \/ ~Holds(h)')}

-----------------------------------------------------------------------------
(* Operations on the tables.                                                *)

Receive(scope, op, request, revision, target) ==
  receipts' = receipts \cup
    {[scope |-> scope, op |-> op, request |-> request,
      revision |-> revision, target |-> target]}

\* register_claim: trusted provisioning, first claim wins.
RegisterClaim(p, owner, op) ==
  /\ ~Claimed(p)
  /\ Unused(Provision, op)
  /\ claims' = [claims EXCEPT ![p] = [owner |-> owner, revision |-> 1]]
  /\ Receive(Provision, op, [kind |-> "register", owner |-> owner], 1, p)
  /\ UNCHANGED <<permits, members, memberRev, interactions, writes>>

\* The claim revision has a successor.
CanAdvance(p) == claims[p].revision < MaxRevision

\* update_memberships: the trusted projection of a character's groups.
UpdateMemberships(c, groups, op) ==
  /\ Cardinality(groups \cap Parties) <= 1
  /\ Unused(Upstream(c), op)
  /\ memberRev[c] < MaxRevision
  /\ members' = [members EXCEPT ![c] = groups]
  /\ memberRev' = [memberRev EXCEPT ![c] = @ + 1]
  /\ Receive(Upstream(c), op, [kind |-> "memberships", groups |-> groups],
             memberRev[c] + 1, c)
  /\ UNCHANGED <<claims, permits, interactions, writes>>

\* The claim revision moves with every change of permission.
Advance_Never(p) == claims[p]
Advance(p) == [claims[p] EXCEPT !.revision = @ + 1]

\* A steward acts on rights it holds, both those it gives and those it replaces.
MayGrant_AnyAdministrator(actor, p, s, bits) == Administer \in BitsOf(actor, p)
MayGrant(actor, p, s, bits) ==
  /\ Administer \in BitsOf(actor, p)
  /\ bits \subseteq BitsOf(actor, p)
  /\ permits[p][s] \subseteq BitsOf(actor, p)

Grant(actor, p, s, bits, op) ==
  /\ Unused(Player(actor), op)
  /\ Claimed(p)
  /\ CanAdvance(p)
  /\ MayGrant(actor, p, s, bits)
  /\ permits' = [permits EXCEPT ![p][s] = bits]
  /\ claims' = [claims EXCEPT ![p] = Advance(p)]
  /\ Receive(Player(actor), op,
             [kind |-> "permit", actor |-> actor, subject |-> s, bits |-> bits],
             claims[p].revision + 1, p)
  /\ UNCHANGED <<members, memberRev, interactions, writes>>

Revoke(actor, p, s, op) ==
  /\ Unused(Player(actor), op)
  /\ Claimed(p)
  /\ CanAdvance(p)
  /\ Administer \in BitsOf(actor, p)
  /\ permits[p][s] # {}
  /\ permits[p][s] \subseteq BitsOf(actor, p)
  /\ permits' = [permits EXCEPT ![p][s] = {}]
  /\ claims' = [claims EXCEPT ![p] = Advance(p)]
  /\ Receive(Player(actor), op,
             [kind |-> "permit", actor |-> actor, subject |-> s, bits |-> {}],
             claims[p].revision + 1, p)
  /\ UNCHANGED <<members, memberRev, interactions, writes>>

\* transfer_claim: the owner alone; existing permits stay.
MayTransfer_Administrator(actor, p) == Administer \in BitsOf(actor, p)
MayTransfer(actor, p) == claims[p].owner = actor

Transfer(actor, p, newOwner, op) ==
  /\ Unused(Player(actor), op)
  /\ Claimed(p)
  /\ CanAdvance(p)
  /\ MayTransfer(actor, p)
  /\ claims[p].owner # newOwner
  /\ claims' = [claims EXCEPT ![p] = [Advance(p) EXCEPT !.owner = newOwner]]
  /\ Receive(Player(actor), op,
             [kind |-> "transfer", actor |-> actor, owner |-> newOwner],
             claims[p].revision + 1, p)
  /\ UNCHANGED <<permits, members, memberRev, interactions, writes>>

-----------------------------------------------------------------------------
(* Interactions.                                                            *)

\* begin_interaction: a handle remembers the two revisions it was checked at.
BeginInteraction(h, actor, p, required) ==
  /\ Claimed(p)
  /\ required \subseteq BitsOf(actor, p)
  /\ Cardinality(Live) < MaxInteractions
  /\ interactions[h] = None /\ writes[h] = None
  /\ interactions' = [interactions EXCEPT ![h] =
       [actor |-> actor, plot |-> p, required |-> required,
        claimRev |-> claims[p].revision, memberRev |-> memberRev[actor]]]
  /\ writes' = [writes EXCEPT ![h] = 0]
  /\ UNCHANGED tables

\* authorize_commit, inside the transaction of the action's own writes.
Authorized_NowOnly(h) == Holds(h)
Authorized_IgnoresMembership(h) ==
  /\ claims[interactions[h].plot].revision = interactions[h].claimRev
  /\ Holds(h)
Authorized(h) ==
  /\ claims[interactions[h].plot].revision = interactions[h].claimRev
  /\ memberRev[interactions[h].actor] = interactions[h].memberRev
  /\ Holds(h)

\* The live handles after a commit attempt or a cancellation of h.
Consumed_Kept(h) == interactions
Consumed(h) == [interactions EXCEPT ![h] = None]

\* commit_interaction whose body wrote and whose transaction committed.
CommitInteraction(h) ==
  /\ h \in Live
  /\ Authorized(h)
  /\ interactions' = Consumed(h)
  /\ writes' = [writes EXCEPT ![h] = @ + 1]
  /\ UNCHANGED tables

\* commit_interaction that authority, the body or COMMIT turned down: the
\* handle is gone all the same.
CommitRefused(h) ==
  /\ h \in Live
  /\ interactions' = Consumed(h)
  /\ UNCHANGED <<tables, writes>>

\* cancel_interaction
CancelInteraction(h) ==
  /\ h \in Live
  /\ interactions' = [interactions EXCEPT ![h] = None]
  /\ UNCHANGED <<tables, writes>>

\* A new process has the tables and no handles.
Restart ==
  /\ Live # {}
  /\ interactions' = [h \in Handles |-> None]
  /\ UNCHANGED <<tables, writes>>

-----------------------------------------------------------------------------

Init ==
  /\ claims = [p \in Plots |-> None]
  /\ permits = [p \in Plots |-> [s \in Subjects |-> {}]]
  /\ members = [c \in Characters |-> {}]
  /\ memberRev = [c \in Characters |-> 0]
  /\ receipts = {}
  /\ interactions = [h \in Handles |-> None]
  /\ writes = [h \in Handles |-> None]
  /\ interrupted = {}

TableStep ==
  \E op \in Operations :
    \/ \E p \in Plots, c \in Characters : RegisterClaim(p, c, op)
    \/ \E c \in Characters, g \in SUBSET Groups : UpdateMemberships(c, g, op)
    \/ \E c \in Characters, p \in Plots, s \in Subjects, bits \in SUBSET Rights \ {{}} :
         Grant(c, p, s, bits, op)
    \/ \E c \in Characters, p \in Plots, s \in Subjects : Revoke(c, p, s, op)
    \/ \E c, d \in Characters, p \in Plots : Transfer(c, p, d, op)

InteractionStep ==
  \E h \in Handles :
    \/ \E c \in Characters, p \in Plots, bits \in SUBSET Rights \ {{}} :
         BeginInteraction(h, c, p, bits)
    \/ CommitInteraction(h)
    \/ CommitRefused(h)
    \/ CancelInteraction(h)

Next == (TableStep \/ InteractionStep \/ Restart) /\ Watch

Spec == Init /\ [][Next]_vars

-----------------------------------------------------------------------------
(* Properties.                                                              *)

Requests ==
  [kind: {"register"}, owner: Characters]
  \cup [kind: {"memberships"}, groups: SUBSET Groups]
  \cup [kind: {"permit"}, actor: Characters, subject: Subjects, bits: SUBSET Rights]
  \cup [kind: {"transfer"}, actor: Characters, owner: Characters]

Scopes == {Provision} \cup {Upstream(c) : c \in Characters} \cup {Player(c) : c \in Characters}

\* Rows, receipts and handles have the shape the schema and the code give them.
TypeOK ==
  /\ claims \in [Plots -> [owner: Characters, revision: 1 .. MaxRevision] \cup {None}]
  /\ permits \in [Plots -> [Subjects -> SUBSET Rights]]
  /\ members \in [Characters -> SUBSET Groups]
  /\ memberRev \in [Characters -> 0 .. MaxRevision]
  /\ \A r \in receipts :
       r \in [scope: Scopes, op: Operations, request: Requests,
              revision: 1 .. MaxRevision, target: Plots \cup Characters]
  /\ interactions \in [Handles ->
       [actor: Characters, plot: Plots, required: SUBSET Rights,
        claimRev: 1 .. MaxRevision, memberRev: 0 .. MaxRevision] \cup {None}]
  /\ writes \in [Handles -> Nat \cup {None}]
  /\ interrupted \subseteq Handles

Kind(kinds, target) == {r \in receipts : r.request.kind \in kinds /\ r.target = target}
ClaimHistory(p) == Kind({"register", "permit", "transfer"}, p)

\* The receipt that decides at a revision: the latest one not after it.
Latest(rs) == CHOOSE r \in rs : \A q \in rs : q.revision <= r.revision
OwnerAt(p, revision) ==
  Latest({r \in Kind({"register", "transfer"}, p) : r.revision <= revision}).request.owner

\* The receipts of a plot, and those of a character's memberships, number every
\* revision once, without a gap: no two operations were committed against the
\* same revision, and none twice.
RevisionsAreSerial ==
  /\ \A p \in Plots :
       LET revision == IF Claimed(p) THEN claims[p].revision ELSE 0 IN
       /\ {r.revision : r \in ClaimHistory(p)} = 1 .. revision
       /\ Cardinality(ClaimHistory(p)) = revision
  /\ \A c \in Characters :
       /\ {r.revision : r \in Kind({"memberships"}, c)} = 1 .. memberRev[c]
       /\ Cardinality(Kind({"memberships"}, c)) = memberRev[c]

\* The audit trail is complete: replaying the receipts gives back the owner,
\* every permit and every membership that authority is decided from.
AuditReplaysToState ==
  /\ \A p \in Plots : Claimed(p) =>
       /\ claims[p].owner = OwnerAt(p, claims[p].revision)
       /\ \A s \in Subjects :
            LET rs == {r \in Kind({"permit"}, p) : r.request.subject = s} IN
            permits[p][s] = IF rs = {} THEN {} ELSE Latest(rs).request.bits
  /\ \A c \in Characters :
       LET rs == Kind({"memberships"}, c) IN
       members[c] = IF rs = {} THEN {} ELSE Latest(rs).request.groups

\* The receipts are a serial and complete account of a plot and of a character's
\* memberships: no revision twice, none missing, and nothing that they do not explain.
AuditIsSerial == RevisionsAreSerial /\ AuditReplaysToState

\* Every right anyone but the owner holds on a plot was once given by whoever
\* owned the plot at that time: no chain of stewards, group permits, membership
\* changes and transfers makes a right that no owner gave.
RightsTraceToOwner ==
  \A p \in Plots : Claimed(p) =>
    LET byOwner == {r \in Kind({"permit"}, p) : r.request.actor = OwnerAt(p, r.revision - 1)}
    IN \A s \in Subjects : permits[p][s] \subseteq UNION {r.request.bits : r \in byOwner}

\* A plot changes hands only by an operation of the one who held it.
OnlyOwnersTransfer ==
  \A p \in Plots : \A r \in Kind({"transfer"}, p) : r.request.actor = OwnerAt(p, r.revision - 1)

\* A commit never relies on rights its actor lost since the interaction began,
\* not even when they were given back in between; and one handle commits one
\* action at most.
CommitsAreUninterrupted ==
  [][ \A h \in Handles :
        writes'[h] # writes[h] /\ writes[h] # None =>
          /\ h \notin interrupted
          /\ writes[h] = 0
          /\ interactions[h].required \subseteq BitsOf(interactions[h].actor, interactions[h].plot)
    ]_vars
=============================================================================
