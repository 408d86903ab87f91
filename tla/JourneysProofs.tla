---------------------------- MODULE JourneysProofs ----------------------------
(***************************************************************************)
(* Theorems of Journeys and of WorldEntry, the two modules that say who    *)
(* calls the journey registry, for every set of characters, peers and      *)
(* places, every window and whatever writes fail.  What they share is the  *)
(* invariant of the registry and what each of its calls does to it.        *)
(***************************************************************************)
EXTENDS Journeys, WorldEntry, TLAPS

-----------------------------------------------------------------------------
(* The invariant of the registry.                                           *)

\* Journeys and rows that were stamped by time t.
JourneyAt(t) ==
  [character: Characters, peer: Peers \cup {None}, active: BOOLEAN,
   disconnectedAt: 0 .. t, lastDisconnectedAt: 0 .. t, checkpointAt: 0 .. t, place: Places]
RowAt(t) ==
  [character: Characters, lastDisconnectedAt: 0 .. t, checkpointAt: 0 .. t, place: Places]

\* The two dictionaries agree: a character's journey is its own, and a character has no
\* other one.
Registry(js, of, n, t) ==
  /\ js \in [Ids -> JourneyAt(t) \cup {None}] /\ of \in [Characters -> Ids \cup {None}]
  /\ \A c \in Characters : of[c] # None =>
       of[c] <= n /\ js[of[c]] \in JourneyAt(t) /\ js[of[c]].character = c
  /\ \A id \in Ids : js[id] # None => of[js[id].character] = id

\* A character has one row, under an id that was drawn.
GoodTable(table, n, t) ==
  /\ table \in [Ids -> RowAt(t) \cup {None}]
  /\ \A x \in Ids : table[x] # None => x <= n
  /\ \A x, y \in Ids : table[x] # None /\ table[y] # None /\ table[x].character = table[y].character => x = y

\* A row that was not deleted still speaks of the character its journey had.
Agree(js, table) ==
  \A id \in Ids : js[id] # None /\ table[id] # None => table[id].character = js[id].character

\* TableMirrorsMemory without its condition.
Mirror(js, table) == \A id \in Ids : table[id] = IF js[id] = None THEN None ELSE RowOf(js[id])

RegInv ==
  /\ now \in 1 .. MaxTime /\ issued \in 0 .. MaxJourneys /\ failures \in 0 .. MaxFailures
  /\ Registry(journeys, journeyOf, issued, now)
  /\ GoodTable(rows, issued, now)
  /\ Agree(journeys, rows)
  /\ failures = 0 => Mirror(journeys, rows)

LEMMA NoneFacts ==
  ASSUME now \in 1 .. MaxTime
  PROVE  /\ None \notin JourneyAt(now) /\ None \notin RowAt(now) /\ None \notin Ids
         /\ JourneyAt(now) \subseteq Journey /\ RowAt(now) \subseteq Row
  <1>1. 0 .. now \subseteq 0 .. MaxTime
    BY TimeAssumption
  <1>2. JourneyAt(now) \subseteq Journey /\ RowAt(now) \subseteq Row
    BY <1>1 DEF JourneyAt, Journey, RowAt, Row
  <1> QED
    BY <1>2, NoneAssumption, RecordAssumption DEF Ids

LEMMA RowOfJourney ==
  ASSUME NEW t, NEW j \in JourneyAt(t)
  PROVE  /\ RowOf(j) \in RowAt(t) /\ RowOf(j).character = j.character
         /\ RowOf(j).lastDisconnectedAt = j.lastDisconnectedAt
         /\ RowOf(j).checkpointAt = j.checkpointAt /\ RowOf(j).place = j.place
  BY DEF RowOf, JourneyAt, RowAt

-----------------------------------------------------------------------------
(* The table.                                                               *)

LEMMA DeletesGood ==
  ASSUME NEW table, NEW n, NEW t, GoodTable(table, n, t), NEW gone
  PROVE  /\ GoodTable(Deletes(table, gone), n, t)
         /\ \A id \in Ids : Deletes(table, gone)[id] = IF id \in gone THEN None ELSE table[id]
  BY DEF GoodTable, Deletes

\* The UNIQUE column keeps two rows of a character out, whatever is saved.
LEMMA SaveGood ==
  ASSUME NEW table, NEW n \in Nat, NEW t, GoodTable(table, n, t), NEW id \in Ids, NEW m \in Nat,
         id <= m, n <= m, NEW j \in JourneyAt(t)
  PROVE  /\ GoodTable(Save(table, id, j), m, t)
         /\ \A x \in Ids : Save(table, id, j)[x] = table[x] \/ (x = id /\ Save(table, id, j)[x] = RowOf(j))
  <1>1. RowOf(j) \in RowAt(t) /\ RowOf(j).character = j.character
    BY RowOfJourney
  <1>2. Ids \subseteq Int
    BY DEF Ids
  <1>3. GoodTable(table, m, t)
    BY <1>2 DEF GoodTable
  <1>4. CASE \E other \in Ids \ {id} : table[other] # None /\ table[other].character = j.character
    BY <1>3, <1>4 DEF Save
  <1>5. CASE ~ \E other \in Ids \ {id} : table[other] # None /\ table[other].character = j.character
    <2>1. Save(table, id, j) = [table EXCEPT ![id] = RowOf(j)]
      BY <1>5 DEF Save
    <2> DEFINE u == [table EXCEPT ![id] = RowOf(j)]
    <2>2. u \in [Ids -> RowAt(t) \cup {None}] /\ \A x \in Ids : u[x] = IF x = id THEN RowOf(j) ELSE table[x]
      BY <1>1 DEF GoodTable
    <2> HIDE DEF u
    <2>3. GoodTable(u, m, t)
      BY <1>1, <1>3, <1>5, <2>2 DEF GoodTable
    <2> QED
      BY <2>1, <2>2, <2>3 DEF u
  <1> QED
    BY <1>4, <1>5

\* What is saved while the table mirrors the registry is stored.
LEMMA SaveMirrors ==
  ASSUME NEW js, NEW of, NEW n, NEW t, Registry(js, of, n, t), NEW table, Mirror(js, table),
         table \in [Ids -> RowAt(t) \cup {None}],
         None \notin JourneyAt(t), None \notin RowAt(t), None \notin Ids,
         NEW id \in Ids, NEW j \in JourneyAt(t),
         of[j.character] = id \/ of[j.character] = None
  PROVE  Mirror([js EXCEPT ![id] = j], Save(table, id, j))
  <1>1. ASSUME NEW other \in Ids \ {id}, table[other] # None, table[other].character = j.character
        PROVE  FALSE
    <2>1. js[other] # None /\ js[other] \in JourneyAt(t) /\ table[other] = RowOf(js[other])
      BY <1>1 DEF Mirror, Registry
    <2>2. js[other].character = j.character
      BY <1>1, <2>1, RowOfJourney
    <2> QED
      BY <2>1, <2>2 DEF Registry
  <1>2. Save(table, id, j) = [table EXCEPT ![id] = RowOf(j)]
    BY <1>1 DEF Save
  <1>3. \A x \in Ids : /\ [js EXCEPT ![id] = j][x] = IF x = id THEN j ELSE js[x]
                       /\ [table EXCEPT ![id] = RowOf(j)][x] = IF x = id THEN RowOf(j) ELSE table[x]
    BY DEF Registry
  <1>4. j # None
    OBVIOUS
  <1> QED
    BY <1>2, <1>3, <1>4 DEF Mirror

-----------------------------------------------------------------------------
(* The registry.                                                            *)

\* What is left after expired journeys went: whoever is connected keeps its own.
LEMMA KeptRegistry ==
  ASSUME RegInv
  PROVE  /\ Registry(Kept, KeptOf, issued, now)
         /\ \A id \in Ids : Kept[id] = IF id \in ExpiredIds THEN None ELSE journeys[id]
         /\ \A c \in Characters : KeptOf[c] # None =>
              /\ KeptOf[c] = journeyOf[c] /\ Kept[KeptOf[c]] = journeys[journeyOf[c]]
              /\ KeptOf[c] \in Ids /\ ~Expired(KeptOf[c])
         /\ \A c \in Characters : journeyOf[c] # None /\ ~Expired(journeyOf[c]) =>
              KeptOf[c] = journeyOf[c] /\ Kept[journeyOf[c]] = journeys[journeyOf[c]]
         /\ \A c \in Characters : journeyOf[c] # None /\ journeys[journeyOf[c]].active =>
              KeptOf[c] = journeyOf[c] /\ Kept[journeyOf[c]] = journeys[journeyOf[c]]
  <1>0. Registry(journeys, journeyOf, issued, now) /\ None \notin Ids
    BY NoneFacts DEF RegInv
  <1>1. \A id \in Ids : Kept[id] = IF Expired(id) THEN None ELSE journeys[id]
    BY DEF Kept
  <1>2. \A c \in Characters : journeyOf[c] # None /\ ~Expired(journeyOf[c]) => KeptOf[c] = journeyOf[c]
    <2> SUFFICES ASSUME NEW c \in Characters, journeyOf[c] # None, ~Expired(journeyOf[c]),
                        NEW id \in ExpiredIds, journeys[id].character = c
                 PROVE  FALSE
      BY DEF KeptOf
    <2>1. journeyOf[c] = id
      BY <1>0 DEF Registry, ExpiredIds, Expired
    <2> QED
      BY <2>1 DEF ExpiredIds
  <1>3. \A c \in Characters : KeptOf[c] # None => KeptOf[c] = journeyOf[c] /\ ~Expired(journeyOf[c])
    BY <1>0 DEF KeptOf, Registry, ExpiredIds
  <1>4. KeptOf \in [Characters -> Ids \cup {None}] /\ Kept \in [Ids -> JourneyAt(now) \cup {None}]
    BY <1>0 DEF KeptOf, Kept, Registry
  <1>5. \A c \in Characters : journeyOf[c] # None => journeyOf[c] \in Ids
    BY <1>0 DEF Registry
  <1>6. \A id \in Ids : Kept[id] # None => KeptOf[Kept[id].character] = id
    <2> SUFFICES ASSUME NEW id \in Ids, Kept[id] # None PROVE KeptOf[Kept[id].character] = id
      OBVIOUS
    <2>1. ~Expired(id) /\ Kept[id] = journeys[id] /\ journeys[id] # None
      BY <1>1
    <2>2. journeyOf[journeys[id].character] = id /\ journeys[id].character \in Characters
      BY <1>0, <2>1 DEF Registry, JourneyAt
    <2> QED
      BY <1>0, <1>2, <2>1, <2>2
  <1>7. \A c \in Characters : KeptOf[c] # None =>
          /\ KeptOf[c] = journeyOf[c] /\ Kept[KeptOf[c]] = journeys[journeyOf[c]]
          /\ KeptOf[c] \in Ids /\ ~Expired(KeptOf[c])
    BY <1>1, <1>3, <1>5
  <1>8. Registry(Kept, KeptOf, issued, now)
    BY <1>0, <1>3, <1>4, <1>6, <1>7 DEF Registry
  <1>9. \A c \in Characters : journeyOf[c] # None /\ ~Expired(journeyOf[c]) =>
          KeptOf[c] = journeyOf[c] /\ Kept[journeyOf[c]] = journeys[journeyOf[c]]
    BY <1>1, <1>2, <1>5
  <1>10. \A c \in Characters : journeyOf[c] # None /\ journeys[journeyOf[c]].active =>
          KeptOf[c] = journeyOf[c] /\ Kept[journeyOf[c]] = journeys[journeyOf[c]]
    BY <1>9 DEF Expired
  <1>11. \A id \in Ids : Kept[id] = IF id \in ExpiredIds THEN None ELSE journeys[id]
    BY <1>1 DEF ExpiredIds
  <1> QED
    BY <1>7, <1>8, <1>9, <1>10, <1>11

\* Registry of one more or one changed journey of character c.
LEMMA RegistryPut ==
  ASSUME NEW js, NEW of, NEW n \in Nat, NEW t, Registry(js, of, n, t), None \notin Ids,
         NEW c \in Characters, NEW id \in Ids, NEW j \in JourneyAt(t), j.character = c,
         NEW m \in Nat, n <= m, id <= m,
         of[c] = id \/ (of[c] = None /\ \A d \in Characters : of[d] # id)
  PROVE  Registry([js EXCEPT ![id] = j], [of EXCEPT ![c] = id], m, t)
  <1> DEFINE js2 == [js EXCEPT ![id] = j]
             of2 == [of EXCEPT ![c] = id]
  <1>1. /\ js2 \in [Ids -> JourneyAt(t) \cup {None}] /\ of2 \in [Characters -> Ids \cup {None}]
        /\ \A x \in Ids : js2[x] = IF x = id THEN j ELSE js[x]
        /\ \A d \in Characters : of2[d] = IF d = c THEN id ELSE of[d]
    BY DEF Registry
  <1> HIDE DEF js2, of2
  <1>2. \A d \in Characters : of2[d] # None =>
          of2[d] <= m /\ js2[of2[d]] \in JourneyAt(t) /\ js2[of2[d]].character = d
    <2> SUFFICES ASSUME NEW d \in Characters, of2[d] # None
                 PROVE  of2[d] <= m /\ js2[of2[d]] \in JourneyAt(t) /\ js2[of2[d]].character = d
      OBVIOUS
    <2>1. CASE d = c
      BY <1>1, <2>1
    <2>2. CASE d # c
      <3>1. of2[d] = of[d] /\ of[d] # id /\ of[d] \in Ids
        BY <1>1, <2>2 DEF Registry
      <3>2. of[d] <= n /\ of[d] \in Int
        BY <3>1 DEF Registry, Ids
      <3> QED
        BY <1>1, <3>1, <3>2 DEF Registry
    <2> QED
      BY <2>1, <2>2
  <1>3. \A x \in Ids : js2[x] # None => of2[js2[x].character] = x
    <2> SUFFICES ASSUME NEW x \in Ids, js2[x] # None PROVE of2[js2[x].character] = x
      OBVIOUS
    <2>1. CASE x = id
      BY <1>1, <2>1
    <2>2. CASE x # id
      BY <1>1, <2>2 DEF Registry, JourneyAt
    <2> QED
      BY <2>1, <2>2
  <1> QED
    BY <1>1, <1>2, <1>3 DEF Registry, js2, of2

-----------------------------------------------------------------------------
(* What each call of the registry leaves.                                   *)

LEMMA RegInit == InitJourneys => RegInv
  <1> SUFFICES ASSUME InitJourneys PROVE RegInv
    OBVIOUS
  <1>1. /\ now = 1 /\ issued = 0 /\ failures = 0 /\ journeys = [id \in Ids |-> None]
        /\ journeyOf = [c \in Characters |-> None] /\ rows = [id \in Ids |-> None]
    BY DEF InitJourneys
  <1> QED
    BY <1>1, TimeAssumption DEF RegInv, Registry, GoodTable, Agree, Mirror

\* A journey that enter() gives, of the character that entered.
LEMMA EnteredType ==
  ASSUME RegInv, NEW c \in Characters, NEW p \in Peers
  PROVE  Entered(c, p, Spawn) \in JourneyAt(now) /\ Entered(c, p, Spawn).character = c
  <1>1. CASE KeptOf[c] = None
    <2>1. EnterOutcome(c, p) = "entry"
      BY <1>1 DEF EnterOutcome
    <2>2. Entered(c, p, Spawn) = Fresh(c, p, Spawn)
      BY <1>1, <2>1 DEF Entered
    <2>3. now \in 0 .. now /\ 0 \in 0 .. now
      BY DEF RegInv
    <2> QED
      BY <2>2, <2>3, SpawnAssumption DEF Fresh, JourneyAt
  <1>2. CASE KeptOf[c] # None
    <2> DEFINE k == Kept[KeptOf[c]]
    <2>1. k \in JourneyAt(now) /\ k.character = c
      BY <1>2, KeptRegistry DEF Registry
    <2>2. 0 \in 0 .. now
      BY DEF RegInv
    <2>3. Entered(c, p, Spawn) = k \/ Entered(c, p, Spawn) = Reclaimed(k, p)
      BY <1>2 DEF Entered
    <2> HIDE DEF k
    <2>4. Reclaimed(k, p) \in JourneyAt(now) /\ Reclaimed(k, p).character = c
      BY <2>1, <2>2 DEF Reclaimed, JourneyAt
    <2> QED
      BY <2>1, <2>3, <2>4
  <1> QED
    BY <1>1, <1>2

\* What the table holds after enter(): one write or none of it may have failed.
LEMMA EnterWrites ==
  ASSUME NEW c \in Characters, NEW p \in Peers, Enter(c, p, Spawn), failures \in 0 .. MaxFailures
  PROVE  LET id == EnteredId(c)
             j == Entered(c, p, Spawn)
             persists == KeptOf[c] = None \/ EnterOutcome(c, p) = "reclaim"
         IN /\ failures' \in 0 .. MaxFailures
            /\ \E some \in SUBSET ExpiredIds :
                 rows' = Deletes(rows, some) \/ rows' = Save(Deletes(rows, some), id, j)
            /\ failures' = 0 =>
                 /\ failures = 0
                 /\ rows' = IF persists THEN Save(Deletes(rows, ExpiredIds), id, j)
                            ELSE Deletes(rows, ExpiredIds)
  <1> DEFINE id == EnteredId(c)
             j == Entered(c, p, Spawn)
             persists == KeptOf[c] = None \/ EnterOutcome(c, p) = "reclaim"
             deleted(some) == Deletes(rows, some)
             saved(some) == IF persists THEN Save(deleted(some), id, j) ELSE deleted(some)
             good == saved(ExpiredIds)
             others == UNION {{deleted(some), saved(some)} : some \in SUBSET ExpiredIds}
  <1>1. Write(good, others)
    BY DEF Enter
  <1>2. \A some : saved(some) = deleted(some) \/ saved(some) = Save(Deletes(rows, some), id, j)
    OBVIOUS
  <1>3. good = IF persists THEN Save(Deletes(rows, ExpiredIds), id, j) ELSE Deletes(rows, ExpiredIds)
    OBVIOUS
  <1> HIDE DEF persists, saved, good, others
  <1>4. /\ rows' \in {good} \cup (IF failures < MaxFailures THEN others ELSE {})
        /\ failures' = IF rows' = good THEN failures ELSE failures + 1
    BY <1>1 DEF Write
  <1>5. \E some \in SUBSET ExpiredIds : rows' = deleted(some) \/ rows' = saved(some)
    BY <1>4 DEF good, others
  <1>6. \E some \in SUBSET ExpiredIds :
          rows' = Deletes(rows, some) \/ rows' = Save(Deletes(rows, some), id, j)
    BY <1>2, <1>5
  <1>7. failures' \in 0 .. MaxFailures /\ (failures' = 0 => failures = 0 /\ rows' = good)
    BY <1>4, TimeAssumption
  <1> QED
    BY <1>3, <1>6, <1>7 DEF persists

LEMMA EnterEffect ==
  ASSUME RegInv, NEW c \in Characters, NEW p \in Peers, Enter(c, p, Spawn)
  PROVE  /\ RegInv' /\ now' = now /\ issued <= issued'
         /\ failures' = 0 => failures = 0
         /\ EnteredId(c) \in Ids /\ journeyOf'[c] = EnteredId(c)
         /\ journeys'[EnteredId(c)] = Entered(c, p, Spawn)
         /\ \A d \in Characters \ {c} : journeyOf'[d] = KeptOf[d] /\ KeptOf[d] # EnteredId(c)
         /\ \A x \in Ids \ {EnteredId(c)} : journeys'[x] = Kept[x] /\ rows'[x] \in {rows[x], None}
  <1> DEFINE id == EnteredId(c)
             j == Entered(c, p, Spawn)
             m == IF id > issued THEN id ELSE issued
             persists == KeptOf[c] = None \/ EnterOutcome(c, p) = "reclaim"
  <1>0. /\ now \in 1 .. MaxTime /\ issued \in 0 .. MaxJourneys /\ failures \in 0 .. MaxFailures
        /\ Registry(journeys, journeyOf, issued, now) /\ GoodTable(rows, issued, now)
        /\ Agree(journeys, rows) /\ (failures = 0 => Mirror(journeys, rows))
        /\ None \notin JourneyAt(now) /\ None \notin RowAt(now) /\ None \notin Ids
        /\ issued \in Nat
    BY NoneFacts, TimeAssumption DEF RegInv
  <1>1. /\ id \in Ids /\ journeys' = [Kept EXCEPT ![id] = j] /\ journeyOf' = [KeptOf EXCEPT ![c] = id]
        /\ issued' = m /\ now' = now
    BY DEF Enter
  <1>2. id \in Nat /\ id # None /\ m \in 0 .. MaxJourneys /\ m \in Nat /\ issued <= m /\ id <= m
    BY <1>0, <1>1, TimeAssumption DEF Ids
  <1>3. Registry(Kept, KeptOf, issued, now)
    BY KeptRegistry
  <1>4. j \in JourneyAt(now) /\ j.character = c
    BY EnteredType
  <1>5. KeptOf[c] = id \/ (KeptOf[c] = None /\ \A d \in Characters : KeptOf[d] # id)
    <2>1. CASE KeptOf[c] = None
      <3>1. id = issued + 1
        BY <2>1 DEF EnteredId
      <3>2. ASSUME NEW d \in Characters, KeptOf[d] = id PROVE FALSE
        <4>1. issued + 1 <= issued
          BY <1>2, <1>3, <3>1, <3>2 DEF Registry
        <4> QED
          BY <1>0, <4>1
      <3> QED
        BY <2>1, <3>2
    <2>2. CASE KeptOf[c] # None
      BY <2>2 DEF EnteredId
    <2> QED
      BY <2>1, <2>2
  <1>51. rows[id] # None => rows[id].character = c
    <2>1. CASE KeptOf[c] = id
      <3>1. KeptOf[c] = journeyOf[c] /\ journeyOf[c] # None
        BY <1>2, <2>1, KeptRegistry
      <3>2. journeys[id] # None /\ journeys[id].character = c
        BY <1>0, <2>1, <3>1 DEF Registry
      <3> QED
        BY <1>0, <1>1, <3>2 DEF Agree
    <2>2. CASE KeptOf[c] = None
      <3>1. id = issued + 1
        BY <2>2 DEF EnteredId
      <3>2. rows[id] # None => id <= issued
        BY <1>0, <1>1 DEF GoodTable
      <3> QED
        BY <1>0, <3>1, <3>2
    <2> QED
      BY <1>5, <2>1, <2>2
  <1>52. ~persists => KeptOf[c] = id /\ j = Kept[id]
    <2> SUFFICES ASSUME ~persists PROVE KeptOf[c] = id /\ j = Kept[id]
      OBVIOUS
    <2>1. KeptOf[c] # None /\ EnterOutcome(c, p) # "reclaim"
      OBVIOUS
    <2>2. id = KeptOf[c]
      BY <2>1 DEF EnteredId
    <2>3. j = Kept[KeptOf[c]]
      BY <2>1 DEF Entered
    <2> QED
      BY <2>2, <2>3
  <1>53. /\ failures' \in 0 .. MaxFailures
         /\ \E some \in SUBSET ExpiredIds :
              rows' = Deletes(rows, some) \/ rows' = Save(Deletes(rows, some), id, j)
         /\ failures' = 0 =>
              /\ failures = 0
              /\ rows' = IF persists THEN Save(Deletes(rows, ExpiredIds), id, j)
                         ELSE Deletes(rows, ExpiredIds)
    BY <1>0, EnterWrites
  <1> HIDE DEF id, j, m, persists
  <1>6. Registry(journeys', journeyOf', issued', now)
    BY <1>0, <1>1, <1>2, <1>3, <1>4, <1>5, RegistryPut
  <1>7. /\ journeys'[id] = j /\ journeyOf'[c] = id
        /\ \A x \in Ids \ {id} : journeys'[x] = Kept[x]
        /\ \A d \in Characters \ {c} : journeyOf'[d] = KeptOf[d]
    BY <1>1, <1>3 DEF Registry
  <1>8. \A d \in Characters \ {c} : KeptOf[d] # id
    <2>1. ASSUME NEW d \in Characters \ {c}, KeptOf[d] = id, KeptOf[c] = id PROVE FALSE
      BY <1>2, <1>3, <2>1 DEF Registry
    <2> QED
      BY <1>5, <2>1
  <1>9. /\ GoodTable(rows', m, now)
        /\ \A x \in Ids : rows'[x] \in {rows[x], None} \/ (x = id /\ rows'[x] = RowOf(j))
    <2>1. PICK some \in SUBSET ExpiredIds :
            rows' = Deletes(rows, some) \/ rows' = Save(Deletes(rows, some), id, j)
      BY <1>53
    <2>2. /\ GoodTable(Deletes(rows, some), issued, now)
          /\ \A x \in Ids : Deletes(rows, some)[x] \in {rows[x], None}
      BY <1>0, DeletesGood
    <2>3. GoodTable(Deletes(rows, some), m, now)
      BY <1>0, <1>2, <2>2 DEF GoodTable, Ids
    <2>4. /\ GoodTable(Save(Deletes(rows, some), id, j), m, now)
          /\ \A x \in Ids : Save(Deletes(rows, some), id, j)[x] = Deletes(rows, some)[x]
                            \/ (x = id /\ Save(Deletes(rows, some), id, j)[x] = RowOf(j))
      BY <1>0, <1>1, <1>2, <1>4, <2>2, SaveGood
    <2> QED
      BY <2>1, <2>2, <2>3, <2>4
  <1>10. Agree(journeys', rows')
    <2> SUFFICES ASSUME NEW x \in Ids, journeys'[x] # None, rows'[x] # None
                 PROVE  rows'[x].character = journeys'[x].character
      BY DEF Agree
    <2>1. CASE x = id
      BY <1>4, <1>7, <1>9, <1>51, <2>1, RowOfJourney
    <2>2. CASE x # id
      <3>1. journeys'[x] = journeys[x] /\ journeys[x] # None
        BY <1>7, <2>2, KeptRegistry
      <3>2. rows'[x] = rows[x]
        BY <1>9, <2>2
      <3> QED
        BY <1>0, <3>1, <3>2 DEF Agree
    <2> QED
      BY <2>1, <2>2
  <1>11. failures' = 0 => Mirror(journeys', rows')
    <2> SUFFICES ASSUME failures' = 0 PROVE Mirror(journeys', rows')
      OBVIOUS
    <2> DEFINE table == Deletes(rows, ExpiredIds)
    <2>1. Mirror(journeys, rows)
      BY <1>0, <1>53
    <2>2. GoodTable(table, issued, now) /\ \A x \in Ids : table[x] = IF x \in ExpiredIds THEN None ELSE rows[x]
      BY <1>0, DeletesGood
    <2> HIDE DEF table
    <2>3. Mirror(Kept, table)
      BY <2>1, <2>2, KeptRegistry DEF Mirror
    <2>4. table \in [Ids -> RowAt(now) \cup {None}]
      BY <2>2 DEF GoodTable
    <2>5. CASE persists
      <3>1. rows' = Save(table, id, j)
        BY <1>53, <2>5 DEF table
      <3>2. KeptOf[j.character] = id \/ KeptOf[j.character] = None
        BY <1>4, <1>5
      <3> QED
        BY <1>0, <1>1, <1>3, <1>4, <2>3, <2>4, <3>1, <3>2, SaveMirrors
    <2>6. CASE ~persists
      <3>1. rows' = table
        BY <1>53, <2>6 DEF table
      <3>2. \A x \in Ids : journeys'[x] = Kept[x]
        BY <1>7, <1>52, <2>6
      <3> QED
        BY <2>3, <3>1, <3>2 DEF Mirror
    <2> QED
      BY <2>5, <2>6
  <1>12. RegInv'
    BY <1>0, <1>1, <1>2, <1>6, <1>9, <1>10, <1>11, <1>53 DEF RegInv
  <1>13. \A x \in Ids \ {id} : rows'[x] \in {rows[x], None}
    BY <1>9
  <1> QED
    BY <1>1, <1>2, <1>7, <1>8, <1>12, <1>13, <1>53 DEF id, j, m

\* Whoever is let in holds the journey, and nobody loses one to it.
LEMMA EnterHolds ==
  ASSUME RegInv, NEW c \in Characters, NEW p \in Peers, Enter(c, p, Spawn)
  PROVE  /\ Accepted(c, p) => Holds(c, p)'
         /\ \A d \in Characters, q \in Peers : Holds(d, q) => Holds(d, q)'
         /\ ~Accepted(c, p) =>
              /\ KeptOf[c] # None /\ journeyOf'[c] = journeyOf[c] /\ journeys[journeyOf[c]].active
              /\ journeys'[journeyOf[c]] = journeys[journeyOf[c]]
  <1>0. None \notin Ids
    BY NoneFacts DEF RegInv
  <1>1. ASSUME KeptOf[c] # None, EnterOutcome(c, p) # "reclaim"
        PROVE  /\ journeyOf'[c] = journeyOf[c] /\ journeys'[journeyOf[c]] = journeys[journeyOf[c]]
               /\ journeyOf[c] # None
    <2>1. Entered(c, p, Spawn) = Kept[KeptOf[c]] /\ EnteredId(c) = KeptOf[c]
      BY <1>1 DEF Entered, EnteredId
    <2>2. KeptOf[c] = journeyOf[c] /\ Kept[KeptOf[c]] = journeys[journeyOf[c]]
      BY <1>1, KeptRegistry
    <2> QED
      BY <1>1, <2>1, <2>2, EnterEffect
  <1>2. ASSUME Accepted(c, p) PROVE Holds(c, p)'
    <2>1. CASE KeptOf[c] = None
      <3>1. EnterOutcome(c, p) = "entry"
        BY <2>1 DEF EnterOutcome
      <3>2. Entered(c, p, Spawn) = Fresh(c, p, Spawn)
        BY <2>1, <3>1 DEF Entered
      <3>3. Entered(c, p, Spawn).active /\ Entered(c, p, Spawn).peer = p
        BY <3>2 DEF Fresh
      <3> QED
        BY <1>0, <3>3, EnterEffect DEF Holds
    <2>2. CASE KeptOf[c] # None /\ EnterOutcome(c, p) = "reclaim"
      <3> DEFINE k == Kept[KeptOf[c]]
      <3>1. k \in JourneyAt(now)
        BY <2>2, KeptRegistry DEF Registry
      <3>2. Entered(c, p, Spawn) = Reclaimed(k, p)
        BY <2>2 DEF Entered
      <3> HIDE DEF k
      <3>3. Entered(c, p, Spawn).active /\ Entered(c, p, Spawn).peer = p
        BY <3>1, <3>2 DEF Reclaimed, JourneyAt
      <3> QED
        BY <1>0, <3>3, EnterEffect DEF Holds
    <2>3. CASE KeptOf[c] # None /\ EnterOutcome(c, p) = "entry"
      <3>1. Kept[KeptOf[c]].active /\ Kept[KeptOf[c]].peer = p
        BY <2>3 DEF EnterOutcome
      <3>2. journeys[journeyOf[c]].active /\ journeys[journeyOf[c]].peer = p
        BY <2>3, <3>1, KeptRegistry
      <3> QED
        BY <1>1, <2>3, <3>2 DEF Holds
    <2> QED
      BY <1>2, <2>1, <2>2, <2>3 DEF Accepted
  <1>3. ASSUME NEW d \in Characters, NEW q \in Peers, Holds(d, q) PROVE Holds(d, q)'
    <2>1. /\ journeyOf[d] # None /\ KeptOf[d] = journeyOf[d] /\ Kept[journeyOf[d]] = journeys[journeyOf[d]]
          /\ KeptOf[d] \in Ids
      BY <1>3, KeptRegistry DEF Holds
    <2>2. CASE d # c
      <3>1. journeyOf'[d] = journeyOf[d] /\ journeys'[journeyOf[d]] = journeys[journeyOf[d]]
        BY <2>1, <2>2, EnterEffect
      <3> QED
        BY <1>3, <3>1 DEF Holds
    <2>3. CASE d = c
      <3>1. EnterOutcome(c, p) # "reclaim"
        BY <1>3, <2>1, <2>3 DEF EnterOutcome, Holds
      <3>2. journeyOf'[c] = journeyOf[c] /\ journeys'[journeyOf[c]] = journeys[journeyOf[c]]
        BY <1>1, <2>1, <2>3, <3>1
      <3> QED
        BY <1>3, <2>3, <3>2 DEF Holds
    <2> QED
      BY <2>2, <2>3
  <1>4. ASSUME ~Accepted(c, p)
        PROVE  /\ KeptOf[c] # None /\ journeyOf'[c] = journeyOf[c] /\ journeys[journeyOf[c]].active
               /\ journeys'[journeyOf[c]] = journeys[journeyOf[c]]
    <2>1. KeptOf[c] # None /\ Kept[KeptOf[c]].active /\ EnterOutcome(c, p) # "reclaim"
      BY <1>4 DEF Accepted, EnterOutcome
    <2> QED
      BY <1>1, <2>1, KeptRegistry
  <1> QED
    BY <1>2, <1>3, <1>4

-----------------------------------------------------------------------------
(* The other calls.                                                         *)

\* A step that leaves the registry alone.
LEMMA RegistryKept ==
  ASSUME RegInv, UNCHANGED journeyVars
  PROVE  /\ RegInv' /\ now' = now /\ journeys' = journeys /\ journeyOf' = journeyOf /\ rows' = rows
         /\ issued' = issued /\ failures' = failures
         /\ \A d \in Characters, q \in Peers : Holds(d, q) => Holds(d, q)'
  <1>1. /\ now' = now /\ journeys' = journeys /\ journeyOf' = journeyOf /\ rows' = rows
        /\ issued' = issued /\ failures' = failures
    BY DEF journeyVars
  <1>2. RegInv'
    BY <1>1 DEF RegInv
  <1>3. \A d \in Characters, q \in Peers : Holds(d, q) => Holds(d, q)'
    BY <1>1 DEF Holds
  <1> QED
    BY <1>1, <1>2, <1>3

\* The journey of character c changed in place, and was saved or was not.
Change(c, j) ==
  /\ journeys' = [journeys EXCEPT ![journeyOf[c]] = j]
  /\ Write(Save(rows, journeyOf[c], j), {rows})
  /\ UNCHANGED <<now, journeyOf, issued>>

LEMMA ChangeEffect ==
  ASSUME RegInv, NEW c \in Characters, journeyOf[c] # None, NEW j \in JourneyAt(now), j.character = c,
         Change(c, j)
  PROVE  /\ RegInv' /\ (failures' = 0 => failures = 0)
         /\ journeyOf[c] \in Ids /\ journeys'[journeyOf[c]] = j
         /\ \A x \in Ids \ {journeyOf[c]} : journeys'[x] = journeys[x] /\ rows'[x] = rows[x]
         /\ \A d \in Characters \ {c} : journeyOf[d] # journeyOf[c]
         /\ rows'[journeyOf[c]] \in {rows[journeyOf[c]], RowOf(j)}
  <1> DEFINE id == journeyOf[c]
  <1>0. /\ now \in 1 .. MaxTime /\ issued \in 0 .. MaxJourneys /\ failures \in 0 .. MaxFailures
        /\ Registry(journeys, journeyOf, issued, now) /\ GoodTable(rows, issued, now)
        /\ Agree(journeys, rows) /\ (failures = 0 => Mirror(journeys, rows))
        /\ None \notin JourneyAt(now) /\ None \notin RowAt(now) /\ None \notin Ids
        /\ issued \in Nat /\ issued <= issued
    BY NoneFacts, TimeAssumption DEF RegInv
  <1>1. id \in Ids /\ id <= issued /\ journeys[id] # None /\ journeys[id].character = c
    BY <1>0 DEF Registry
  <1> HIDE DEF id
  <1>2. journeys' = [journeys EXCEPT ![id] = j] /\ journeyOf[c] = id
    BY DEF id, Change
  <1>21. now' = now /\ journeyOf' = journeyOf /\ issued' = issued
    BY DEF Change
  <1>3. journeyOf' = [journeyOf EXCEPT ![c] = id]
    BY <1>0, <1>2, <1>21 DEF Registry
  <1>4. Registry(journeys', journeyOf', issued, now)
    <2>1. Registry([journeys EXCEPT ![id] = j], [journeyOf EXCEPT ![c] = id], issued, now)
      BY <1>0, <1>1, <1>2, RegistryPut
    <2> QED
      BY <1>2, <1>3, <2>1
  <1>5. /\ rows' \in {Save(rows, id, j), rows} /\ failures' \in 0 .. MaxFailures
        /\ failures' = 0 => failures = 0 /\ rows' = Save(rows, id, j)
    <2> DEFINE good == Save(rows, id, j)
    <2>1. /\ rows' \in {good} \cup (IF failures < MaxFailures THEN {rows} ELSE {})
          /\ failures' = IF rows' = good THEN failures ELSE failures + 1
      BY DEF Change, Write, id
    <2> HIDE DEF good
    <2>2. rows' \in {good, rows} /\ failures' \in 0 .. MaxFailures
          /\ (failures' = 0 => failures = 0 /\ rows' = good)
      BY <1>0, <2>1, TimeAssumption
    <2> QED
      BY <2>2 DEF good
  <1>6. /\ GoodTable(Save(rows, id, j), issued, now)
        /\ \A x \in Ids : Save(rows, id, j)[x] = rows[x] \/ (x = id /\ Save(rows, id, j)[x] = RowOf(j))
    BY <1>0, <1>1, SaveGood
  <1>7. /\ GoodTable(rows', issued, now)
        /\ \A x \in Ids : rows'[x] = rows[x] \/ (x = id /\ rows'[x] = RowOf(j))
    BY <1>0, <1>5, <1>6
  <1>8. journeys'[id] = j /\ \A x \in Ids \ {id} : journeys'[x] = journeys[x]
    BY <1>0, <1>1, <1>2 DEF Registry
  <1>9. Agree(journeys', rows')
    <2>1. rows'[id] # None => rows'[id].character = c
      BY <1>0, <1>1, <1>7, RowOfJourney DEF Agree
    <2> QED
      BY <1>0, <1>7, <1>8, <2>1 DEF Agree
  <1>10. failures' = 0 => Mirror(journeys', rows')
    <2> SUFFICES ASSUME failures' = 0 PROVE Mirror(journeys', rows')
      OBVIOUS
    <2>1. Mirror(journeys, rows) /\ rows \in [Ids -> RowAt(now) \cup {None}]
      BY <1>0, <1>5 DEF GoodTable
    <2>2. Mirror([journeys EXCEPT ![id] = j], Save(rows, id, j))
      BY <1>0, <1>1, <1>2, <2>1, SaveMirrors
    <2> QED
      BY <1>2, <1>5, <2>2
  <1>11. RegInv'
    BY <1>0, <1>4, <1>5, <1>7, <1>9, <1>10, <1>21 DEF RegInv
  <1>12. \A d \in Characters \ {c} : journeyOf[d] # id
    BY <1>0, <1>1 DEF Registry
  <1> QED
    BY <1>1, <1>5, <1>7, <1>8, <1>11, <1>12 DEF id

\* A journey changed in place, and for whom it still counts as held.
LEMMA CheckpointEffect ==
  ASSUME RegInv, NEW c \in Characters, NEW place \in Places, Checkpoint(c, place)
  PROVE  /\ RegInv' /\ now' = now /\ issued' = issued /\ journeyOf' = journeyOf
         /\ failures' = 0 => failures = 0
         /\ \A x \in Ids : x # journeyOf[c] => journeys'[x] = journeys[x] /\ rows'[x] = rows[x]
         /\ \A d \in Characters, q \in Peers : Holds(d, q) => Holds(d, q)'
  <1>1. CASE journeyOf[c] = None
    <2>1. UNCHANGED journeyVars
      BY <1>1 DEF Checkpoint
    <2> QED
      BY <2>1, RegistryKept
  <1>2. CASE journeyOf[c] # None
    <2> DEFINE k == journeys[journeyOf[c]]
               j == [k EXCEPT !.place = place, !.checkpointAt = now]
    <2>1. k \in JourneyAt(now) /\ k.character = c /\ now \in 0 .. now
      BY <1>2 DEF RegInv, Registry
    <2>2. Change(c, j) /\ now' = now /\ journeyOf' = journeyOf /\ issued' = issued
      BY <1>2 DEF Checkpoint, Change
    <2> HIDE DEF k
    <2>3. j \in JourneyAt(now) /\ j.character = c
      BY <2>1 DEF JourneyAt
    <2>31. j.active = k.active /\ j.peer = k.peer
      BY <2>1 DEF JourneyAt
    <2> HIDE DEF j
    <2>4. /\ RegInv' /\ (failures' = 0 => failures = 0) /\ journeys'[journeyOf[c]] = j
          /\ \A x \in Ids \ {journeyOf[c]} : journeys'[x] = journeys[x] /\ rows'[x] = rows[x]
          /\ \A d \in Characters \ {c} : journeyOf[d] # journeyOf[c]
          /\ rows'[journeyOf[c]] \in {rows[journeyOf[c]], RowOf(j)}
      BY <1>2, <2>2, <2>3, ChangeEffect
    <2>5. \A d \in Characters : journeyOf[d] # None => journeyOf[d] \in Ids
      BY DEF RegInv, Registry
    <2>6. \A d \in Characters, q \in Peers : Holds(d, q) => Holds(d, q)'
      <3> SUFFICES ASSUME NEW d \in Characters, NEW q \in Peers, Holds(d, q) PROVE Holds(d, q)'
        OBVIOUS
      <3>1. CASE d = c
        BY <2>2, <2>31, <2>4, <3>1 DEF Holds, k
      <3>2. CASE d # c
        BY <2>2, <2>4, <2>5, <3>2 DEF Holds
      <3> QED
        BY <3>1, <3>2
    <2> QED
      BY <2>2, <2>4, <2>6
  <1> QED
    BY <1>1, <1>2

LEMMA MarkDisconnectedEffect ==
  ASSUME RegInv, NEW c \in Characters, NEW p \in Peers, MarkDisconnected(c, p)
  PROVE  /\ RegInv' /\ now' = now /\ issued' = issued /\ journeyOf' = journeyOf
         /\ failures' = 0 => failures = 0
         /\ Holds(c, p) =>
              LET j == [journeys[journeyOf[c]] EXCEPT !.active = FALSE, !.disconnectedAt = now,
                                                      !.lastDisconnectedAt = now]
              IN /\ j \in JourneyAt(now) /\ j.character = c
                 /\ j.place = journeys[journeyOf[c]].place /\ ~j.active
                 /\ j.disconnectedAt = now /\ j.lastDisconnectedAt = now
                 /\ journeys'[journeyOf[c]] = j
                 /\ rows'[journeyOf[c]] \in {rows[journeyOf[c]], RowOf(j)}
         /\ \A x \in Ids : x # journeyOf[c] => journeys'[x] = journeys[x] /\ rows'[x] = rows[x]
         /\ \A d \in Characters, q \in Peers : Holds(d, q) /\ (d # c \/ q # p) => Holds(d, q)'
  <1>1. CASE ~Holds(c, p)
    <2>1. UNCHANGED journeyVars
      BY <1>1 DEF MarkDisconnected
    <2> QED
      BY <1>1, <2>1, RegistryKept
  <1>2. CASE Holds(c, p)
    <2> DEFINE k == journeys[journeyOf[c]]
               j == [k EXCEPT !.active = FALSE, !.disconnectedAt = now, !.lastDisconnectedAt = now]
    <2>0. journeyOf[c] # None /\ k.active /\ k.peer = p
      BY <1>2 DEF Holds
    <2>1. k \in JourneyAt(now) /\ k.character = c /\ now \in 0 .. now
      BY <2>0 DEF RegInv, Registry
    <2>2. Change(c, j) /\ now' = now /\ journeyOf' = journeyOf /\ issued' = issued
      BY <1>2 DEF MarkDisconnected, Change
    <2> HIDE DEF k
    <2>3. /\ j \in JourneyAt(now) /\ j.character = c /\ j.place = k.place /\ ~j.active
          /\ j.disconnectedAt = now /\ j.lastDisconnectedAt = now
      BY <2>1 DEF JourneyAt
    <2> HIDE DEF j
    <2>4. /\ RegInv' /\ (failures' = 0 => failures = 0) /\ journeys'[journeyOf[c]] = j
          /\ \A x \in Ids \ {journeyOf[c]} : journeys'[x] = journeys[x] /\ rows'[x] = rows[x]
          /\ \A d \in Characters \ {c} : journeyOf[d] # journeyOf[c]
          /\ rows'[journeyOf[c]] \in {rows[journeyOf[c]], RowOf(j)}
      BY <2>0, <2>2, <2>3, ChangeEffect
    <2>5. \A d \in Characters : journeyOf[d] # None => journeyOf[d] \in Ids
      BY DEF RegInv, Registry
    <2>6. \A d \in Characters, q \in Peers : Holds(d, q) /\ (d # c \/ q # p) => Holds(d, q)'
      <3> SUFFICES ASSUME NEW d \in Characters, NEW q \in Peers, Holds(d, q), d # c \/ q # p
                   PROVE  Holds(d, q)'
        OBVIOUS
      <3>1. d # c
        BY <2>0 DEF Holds, k
      <3> QED
        BY <2>2, <2>4, <2>5, <3>1 DEF Holds
    <2> QED
      BY <2>2, <2>3, <2>4, <2>6 DEF j, k
  <1> QED
    BY <1>1, <1>2

LEMMA CleanupEffect ==
  ASSUME RegInv, Cleanup
  PROVE  /\ RegInv' /\ now' = now /\ issued' = issued /\ journeys' = Kept /\ journeyOf' = KeptOf
         /\ failures' = 0 => failures = 0
         /\ \A x \in Ids : rows'[x] \in {rows[x], None}
         /\ \A d \in Characters, q \in Peers : Holds(d, q) => Holds(d, q)'
  <1>0. /\ now \in 1 .. MaxTime /\ issued \in 0 .. MaxJourneys /\ failures \in 0 .. MaxFailures
        /\ GoodTable(rows, issued, now) /\ Agree(journeys, rows)
        /\ failures = 0 => Mirror(journeys, rows)
    BY DEF RegInv
  <1>1. journeys' = Kept /\ journeyOf' = KeptOf /\ now' = now /\ issued' = issued
    BY DEF Cleanup
  <1> DEFINE good == Deletes(rows, ExpiredIds)
             others == {Deletes(rows, some) : some \in SUBSET ExpiredIds}
  <1>2. Write(good, others)
    BY DEF Cleanup
  <1> HIDE DEF good, others
  <1>3. /\ rows' \in {good} \cup (IF failures < MaxFailures THEN others ELSE {})
        /\ failures' = IF rows' = good THEN failures ELSE failures + 1
    BY <1>2 DEF Write
  <1>4. failures' \in 0 .. MaxFailures /\ (failures' = 0 => failures = 0 /\ rows' = good)
    BY <1>0, <1>3, TimeAssumption
  <1>5. \E some : rows' = Deletes(rows, some)
    BY <1>3 DEF good, others
  <1>6. GoodTable(rows', issued, now) /\ \A x \in Ids : rows'[x] \in {rows[x], None}
    BY <1>0, <1>5, DeletesGood
  <1>7. Agree(journeys', rows')
    BY <1>0, <1>1, <1>6, KeptRegistry DEF Agree
  <1>8. failures' = 0 => Mirror(journeys', rows')
    <2> SUFFICES ASSUME failures' = 0 PROVE Mirror(journeys', rows')
      OBVIOUS
    <2>1. \A x \in Ids : rows'[x] = IF x \in ExpiredIds THEN None ELSE rows[x]
      BY <1>0, <1>4, DeletesGood DEF good
    <2> QED
      BY <1>0, <1>1, <1>4, <2>1, KeptRegistry DEF Mirror
  <1>9. RegInv'
    BY <1>0, <1>1, <1>4, <1>6, <1>7, <1>8, KeptRegistry DEF RegInv
  <1>10. \A d \in Characters, q \in Peers : Holds(d, q) => Holds(d, q)'
    BY <1>1, KeptRegistry DEF Holds
  <1> QED
    BY <1>1, <1>4, <1>6, <1>9, <1>10

\* A new process reads the table back, and nobody is connected to it.
LEMMA RestartEffect ==
  ASSUME RegInv, Restart
  PROVE  /\ RegInv' /\ now' = now /\ issued' = issued /\ rows' = rows /\ failures' = failures
         /\ \A id \in Ids : rows[id] # None =>
              journeys'[id] = Restored(rows[id]) /\ journeyOf'[rows[id].character] = id
         /\ \A id \in Ids : rows[id] = None => journeys'[id] = None
  <1>0. /\ now \in 1 .. MaxTime /\ issued \in 0 .. MaxJourneys /\ failures \in 0 .. MaxFailures
        /\ GoodTable(rows, issued, now)
        /\ None \notin JourneyAt(now) /\ None \notin RowAt(now) /\ None \notin Ids
    BY NoneFacts DEF RegInv
  <1>1. /\ journeys' = [id \in Ids |-> IF rows[id] = None THEN None ELSE Restored(rows[id])]
        /\ rows' = rows /\ issued' = issued /\ now' = now /\ failures' = failures
    BY DEF Restart
  <1>2. ASSUME NEW row \in RowAt(now)
        PROVE  /\ Restored(row) \in JourneyAt(now) /\ Restored(row).character = row.character
               /\ RowOf(Restored(row)) = row
    <2>1. row = [character |-> row.character, lastDisconnectedAt |-> row.lastDisconnectedAt,
                 checkpointAt |-> row.checkpointAt, place |-> row.place]
      BY DEF RowAt
    <2> QED
      BY <2>1 DEF RowAt, Restored, JourneyAt, RowOf
  <1>3. ASSUME NEW c \in Characters
        PROVE  /\ journeyOf'[c] \in Ids \cup {None}
               /\ journeyOf'[c] # None =>
                    rows[journeyOf'[c]] # None /\ rows[journeyOf'[c]].character = c
               /\ \A id \in Ids : rows[id] # None /\ rows[id].character = c => journeyOf'[c] = id
    <2> DEFINE Its(id) == rows[id] # None /\ rows[id].character = c
    <2>1. journeyOf'[c] = IF \E id \in Ids : Its(id) THEN CHOOSE id \in Ids : Its(id) ELSE None
      BY DEF Restart
    <2>2. \A x, y \in Ids : Its(x) /\ Its(y) => x = y
      BY <1>0 DEF GoodTable
    <2> HIDE DEF Its
    <2>3. CASE \E id \in Ids : Its(id)
      <3>1. journeyOf'[c] \in Ids /\ Its(journeyOf'[c])
        BY <2>1, <2>3
      <3>2. \A id \in Ids : Its(id) => journeyOf'[c] = id
        BY <2>2, <3>1
      <3> QED
        BY <3>1, <3>2 DEF Its
    <2>4. CASE ~ \E id \in Ids : Its(id)
      BY <2>1, <2>4 DEF Its
    <2> QED
      BY <2>3, <2>4
  <1>4. journeyOf' \in [Characters -> Ids \cup {None}]
    BY <1>3 DEF Restart
  <1>5. \A id \in Ids : /\ rows[id] = None => journeys'[id] = None
                        /\ rows[id] # None =>
                             /\ rows[id] \in RowAt(now) /\ journeys'[id] = Restored(rows[id])
                             /\ journeys'[id] \in JourneyAt(now) /\ journeys'[id] # None
                             /\ journeys'[id].character = rows[id].character
                             /\ RowOf(journeys'[id]) = rows[id]
    BY <1>0, <1>1, <1>2 DEF GoodTable
  <1>6. journeys' \in [Ids -> JourneyAt(now) \cup {None}]
    BY <1>1, <1>5
  <1>7. \A c \in Characters : journeyOf'[c] # None =>
          /\ journeyOf'[c] <= issued
          /\ journeys'[journeyOf'[c]] \in JourneyAt(now) /\ journeys'[journeyOf'[c]].character = c
    BY <1>0, <1>3, <1>5 DEF GoodTable
  <1>8. \A id \in Ids : rows[id] # None =>
          rows[id].character \in Characters /\ journeyOf'[rows[id].character] = id
    BY <1>3, <1>5 DEF RowAt
  <1>9. \A id \in Ids : journeys'[id] # None => journeyOf'[journeys'[id].character] = id
    BY <1>5, <1>8
  <1>10. Registry(journeys', journeyOf', issued, now)
    BY <1>4, <1>6, <1>7, <1>9 DEF Registry
  <1>11. Agree(journeys', rows') /\ Mirror(journeys', rows')
    BY <1>1, <1>5 DEF Agree, Mirror
  <1>12. RegInv'
    BY <1>0, <1>1, <1>10, <1>11 DEF RegInv
  <1> QED
    BY <1>1, <1>5, <1>8, <1>12

LEMMA TickEffect ==
  ASSUME RegInv, Tick
  PROVE  /\ RegInv' /\ now < now' /\ UNCHANGED <<journeys, journeyOf, rows, issued, failures>>
         /\ \A d \in Characters, q \in Peers : Holds(d, q) => Holds(d, q)'
  <1>0. /\ now \in 1 .. MaxTime /\ issued \in 0 .. MaxJourneys /\ failures \in 0 .. MaxFailures
        /\ Registry(journeys, journeyOf, issued, now) /\ GoodTable(rows, issued, now)
        /\ Agree(journeys, rows) /\ (failures = 0 => Mirror(journeys, rows))
    BY DEF RegInv
  <1>1. /\ now < MaxTime /\ now' = now + 1 /\ journeys' = journeys /\ journeyOf' = journeyOf
        /\ rows' = rows /\ issued' = issued /\ failures' = failures
    BY DEF Tick
  <1>2. now' \in 1 .. MaxTime /\ now < now' /\ 0 .. now \subseteq 0 .. now'
    BY <1>0, <1>1, TimeAssumption
  <1>3. JourneyAt(now) \subseteq JourneyAt(now') /\ RowAt(now) \subseteq RowAt(now')
    BY <1>2 DEF JourneyAt, RowAt
  <1>4. Registry(journeys, journeyOf, issued, now')
    BY <1>0, <1>3 DEF Registry
  <1>5. GoodTable(rows, issued, now')
    BY <1>0, <1>3 DEF GoodTable
  <1>6. RegInv'
    BY <1>0, <1>1, <1>2, <1>4, <1>5 DEF RegInv
  <1>7. \A d \in Characters, q \in Peers : Holds(d, q) => Holds(d, q)'
    BY <1>1 DEF Holds
  <1> QED
    BY <1>1, <1>2, <1>6, <1>7

-----------------------------------------------------------------------------
(* Journeys: the registry under its callers.                                *)

Leaving == [id: Ids, at: 1 .. MaxTime, place: Places]
Sight == [id: Ids, at: 1 .. MaxTime]

Histories ==
  /\ holder \in [Characters -> Peers \cup {None}]
  /\ left \in [Characters -> Leaving \cup {None}]
  /\ seen \in [Characters -> Sight \cup {None}]

Keeps(c) == holder[c] # None => Holds(c, holder[c])

\* Nothing of a journey or a row is later than a time.
Old(r, at) == r.lastDisconnectedAt <= at /\ r.checkpointAt <= at

\* What a character left has not been touched since, as far as it is still there.
Gone(c) ==
  left[c] # None =>
    /\ holder[c] = None
    /\ left[c].id <= issued /\ left[c].at <= now
    /\ journeys[left[c].id] # None =>
         /\ journeys[left[c].id].character = c
         /\ ~journeys[left[c].id].active /\ journeys[left[c].id].disconnectedAt <= left[c].at
         /\ Old(journeys[left[c].id], left[c].at)
    /\ rows[left[c].id] # None =>
         rows[left[c].id].character = c /\ Old(rows[left[c].id], left[c].at)

\* Within the window it is all still there.
Timely(c) ==
  failures = 0 /\ left[c] # None /\ now - left[c].at <= Window =>
    /\ journeyOf[c] = left[c].id
    /\ journeys[left[c].id].place = left[c].place
    /\ journeys[left[c].id].disconnectedAt = left[c].at
    /\ journeys[left[c].id].lastDisconnectedAt = left[c].at

StayInv == RegInv /\ Histories /\ \A c \in Characters : Keeps(c) /\ Gone(c) /\ Timely(c)

LEMMA LeavingFacts ==
  ASSUME RegInv, Histories, NEW c \in Characters, left[c] # None
  PROVE  /\ left[c].id \in Ids /\ left[c].id # None /\ left[c].id \in Int
         /\ left[c].at \in 1 .. MaxTime /\ left[c].at \in Int /\ left[c].at > 0
         /\ left[c].place \in Places /\ now \in Int
  <1>1. left[c] \in Leaving
    BY DEF Histories
  <1>2. None \notin Ids
    BY NoneFacts DEF RegInv
  <1> QED
    BY <1>1, <1>2 DEF Leaving, Ids, RegInv

\* A call that left the journey and the row alone, or removed them.
LEMMA GoneStays ==
  ASSUME RegInv, Histories, NEW c \in Characters, Gone(c), left'[c] = left[c], holder'[c] = holder[c],
         issued <= issued', now <= now', issued' \in Int, now' \in Int,
         left[c] # None =>
           /\ journeys'[left[c].id] \in {journeys[left[c].id], None}
           /\ rows'[left[c].id] \in {rows[left[c].id], None}
  PROVE  Gone(c)'
  <1> SUFFICES ASSUME left[c] # None PROVE Gone(c)'
    BY DEF Gone
  <1>1. /\ left[c].id \in Int /\ left[c].at \in Int /\ now \in Int /\ issued \in Int
    BY LeavingFacts DEF RegInv
  <1>2. left[c].id <= issued' /\ left[c].at <= now'
    BY <1>1 DEF Gone
  <1> QED
    BY <1>2 DEF Gone

\* A call that left a journey alone that had not expired.
LEMMA TimelyStays ==
  ASSUME RegInv, Histories, NEW c \in Characters, Timely(c), left'[c] = left[c],
         now <= now', now' \in Int, failures' = 0 => failures = 0,
         left[c] # None /\ journeyOf[c] = left[c].id /\ ~Expired(journeyOf[c]) =>
           journeyOf'[c] = journeyOf[c] /\ journeys'[journeyOf[c]] = journeys[journeyOf[c]]
  PROVE  Timely(c)'
  <1> SUFFICES ASSUME failures' = 0, left[c] # None, now' - left[c].at <= Window
               PROVE  /\ journeyOf'[c] = left[c].id
                      /\ journeys'[left[c].id].place = left[c].place
                      /\ journeys'[left[c].id].disconnectedAt = left[c].at
                      /\ journeys'[left[c].id].lastDisconnectedAt = left[c].at
    BY DEF Timely
  <1>1. now \in Int /\ left[c].at \in Int /\ Window \in Int
    BY LeavingFacts, TimeAssumption
  <1>2. now - left[c].at <= Window
    BY <1>1
  <1>3. /\ journeyOf[c] = left[c].id
        /\ journeys[left[c].id].place = left[c].place
        /\ journeys[left[c].id].disconnectedAt = left[c].at
        /\ journeys[left[c].id].lastDisconnectedAt = left[c].at
    BY <1>2 DEF Timely
  <1>4. ~Expired(journeyOf[c])
    BY <1>1, <1>2, <1>3 DEF Expired
  <1> QED
    BY <1>3, <1>4

-----------------------------------------------------------------------------
(* Its steps.                                                               *)

LEMMA StayInitInv == StayInit => StayInv
  <1> SUFFICES ASSUME StayInit PROVE StayInv
    OBVIOUS
  <1>1. RegInv
    BY RegInit DEF StayInit
  <1> QED
    BY <1>1 DEF StayInit, StayInv, Histories, Keeps, Gone, Timely

LEMMA EnterWorldStep ==
  ASSUME StayInv, NEW c \in Characters, NEW p \in Peers, EnterWorld(c, p)
  PROVE  StayInv'
  <1>0. RegInv /\ Histories /\ \A d \in Characters : Keeps(d) /\ Gone(d) /\ Timely(d)
    BY DEF StayInv
  <1>1. Enter(c, p, Spawn)
    BY DEF EnterWorld
  <1>2. /\ RegInv' /\ now' = now /\ issued <= issued' /\ (failures' = 0 => failures = 0)
        /\ EnteredId(c) \in Ids /\ journeyOf'[c] = EnteredId(c)
        /\ \A d \in Characters \ {c} : journeyOf'[d] = KeptOf[d] /\ KeptOf[d] # EnteredId(c)
        /\ \A x \in Ids \ {EnteredId(c)} : journeys'[x] = Kept[x] /\ rows'[x] \in {rows[x], None}
    BY <1>0, <1>1, EnterEffect
  <1>3. /\ Accepted(c, p) => Holds(c, p)'
        /\ \A d \in Characters, q \in Peers : Holds(d, q) => Holds(d, q)'
        /\ ~Accepted(c, p) =>
              /\ KeptOf[c] # None /\ journeyOf'[c] = journeyOf[c] /\ journeys[journeyOf[c]].active
              /\ journeys'[journeyOf[c]] = journeys[journeyOf[c]]
    BY <1>0, <1>1, EnterHolds
  <1>4. /\ holder' \in [Characters -> Peers \cup {None}]
        /\ holder'[c] = IF Accepted(c, p) THEN p ELSE holder[c]
        /\ left' \in [Characters -> Leaving \cup {None}]
        /\ left'[c] = IF Accepted(c, p) THEN None ELSE left[c]
        /\ \A d \in Characters \ {c} : holder'[d] = holder[d] /\ left'[d] = left[d]
    BY <1>0 DEF EnterWorld, Histories
  <1>5. seen' \in [Characters -> Sight \cup {None}]
    <2>1. now \in 1 .. MaxTime
      BY <1>0 DEF RegInv
    <2> QED
      BY <1>0, <1>2, <2>1 DEF EnterWorld, Histories, Sight
  <1>6. ASSUME NEW d \in Characters PROVE Keeps(d)'
    <2>1. holder[d] # None => holder[d] \in Peers
      BY <1>0 DEF Histories
    <2> QED
      BY <1>0, <1>3, <1>4, <2>1 DEF Keeps
  \* A journey that was left is not the one that is entered.
  <1>7. ASSUME NEW d \in Characters, left'[d] # None
        PROVE  /\ left'[d] = left[d] /\ holder'[d] = holder[d] /\ (d = c => ~Accepted(c, p))
               /\ left[d].id \in Ids \ {EnteredId(c)}
    <2>1. left'[d] = left[d] /\ holder'[d] = holder[d] /\ (d = c => ~Accepted(c, p))
      BY <1>4, <1>7
    <2>2. left[d].id \in Ids /\ left[d].id <= issued /\ issued \in Int /\ left[d].id \in Int
      BY <1>0, <1>7, <2>1, LeavingFacts DEF Gone, RegInv
    <2>3. CASE KeptOf[c] = None
      BY <2>1, <2>2, <2>3 DEF EnteredId
    <2>4. CASE KeptOf[c] # None
      <3>1. EnteredId(c) = journeyOf[c] /\ journeys[journeyOf[c]] # None
            /\ journeys[journeyOf[c]].character = c
        <4>1. EnteredId(c) = KeptOf[c] /\ KeptOf[c] = journeyOf[c]
          BY <1>0, <2>4, KeptRegistry DEF EnteredId
        <4>2. None \notin JourneyAt(now)
          BY <1>0, NoneFacts DEF RegInv
        <4> QED
          BY <1>0, <2>4, <4>1, <4>2 DEF RegInv, Registry
      <3>2. ASSUME left[d].id = EnteredId(c) PROVE FALSE
        <4>1. d = c /\ ~journeys[journeyOf[c]].active
          BY <1>0, <1>7, <2>1, <3>1, <3>2 DEF Gone
        <4> QED
          BY <1>3, <2>1, <4>1
      <3> QED
        BY <2>1, <2>2, <3>2
    <2> QED
      BY <2>3, <2>4
  <1>8. ASSUME NEW d \in Characters PROVE Gone(d)' /\ Timely(d)'
    <2>1. CASE left'[d] = None
      BY <2>1 DEF Gone, Timely
    <2>2. CASE left'[d] # None
      <3>1. /\ left'[d] = left[d] /\ holder'[d] = holder[d] /\ (d = c => ~Accepted(c, p))
            /\ left[d].id \in Ids \ {EnteredId(c)}
        BY <1>7, <2>2
      <3>2. journeys'[left[d].id] = Kept[left[d].id] /\ rows'[left[d].id] \in {rows[left[d].id], None}
        BY <1>2, <3>1
      <3>3. Kept[left[d].id] \in {journeys[left[d].id], None}
        BY <1>0, <3>1, KeptRegistry
      <3>4. issued' \in Int /\ now' \in Int /\ now <= now'
        BY <1>2 DEF RegInv
      <3>5. Gone(d)'
        BY <1>0, <1>2, <3>1, <3>2, <3>3, <3>4, GoneStays
      <3>6. ASSUME journeyOf[d] = left[d].id, ~Expired(journeyOf[d])
            PROVE  journeyOf'[d] = journeyOf[d] /\ journeys'[journeyOf[d]] = journeys[journeyOf[d]]
        <4>1. left[d].id # None
          BY <1>0, <2>2, <3>1, LeavingFacts
        <4>2. KeptOf[d] = journeyOf[d] /\ Kept[journeyOf[d]] = journeys[journeyOf[d]]
          BY <1>0, <3>6, <4>1, KeptRegistry
        <4>3. CASE d # c
          BY <1>2, <3>2, <3>6, <4>2, <4>3
        <4>4. CASE d = c
          BY <1>3, <3>1, <4>4
        <4> QED
          BY <4>3, <4>4
      <3>7. Timely(d)'
        BY <1>0, <1>2, <3>1, <3>4, <3>6, TimelyStays
      <3> QED
        BY <3>5, <3>7
    <2> QED
      BY <2>1, <2>2
  <1>9. Histories'
    BY <1>4, <1>5 DEF Histories
  <1> QED
    BY <1>2, <1>6, <1>8, <1>9 DEF StayInv

LEMMA SavePlaceStep ==
  ASSUME StayInv, NEW c \in Characters, NEW place \in Places, SavePlace(c, place)
  PROVE  StayInv'
  <1>0. RegInv /\ Histories /\ \A d \in Characters : Keeps(d) /\ Gone(d) /\ Timely(d)
    BY DEF StayInv
  <1>1. /\ RegInv' /\ now' = now /\ issued' = issued /\ journeyOf' = journeyOf
        /\ failures' = 0 => failures = 0
        /\ \A x \in Ids : x # journeyOf[c] => journeys'[x] = journeys[x] /\ rows'[x] = rows[x]
        /\ \A d \in Characters, q \in Peers : Holds(d, q) => Holds(d, q)'
    BY <1>0, CheckpointEffect DEF SavePlace
  <1>2. /\ holder[c] # None /\ holder' = holder /\ left' = left
        /\ seen' = [seen EXCEPT ![c] = [id |-> journeyOf[c], at |-> now]]
    BY DEF SavePlace
  <1>3. journeyOf[c] # None /\ journeys[journeyOf[c]].active
    BY <1>0, <1>2 DEF Keeps, Holds
  <1>4. /\ journeyOf[c] \in Ids /\ journeys[journeyOf[c]].character = c
        /\ journeys[journeyOf[c]] # None
    <2>1. None \notin JourneyAt(now)
      BY <1>0, NoneFacts DEF RegInv
    <2> QED
      BY <1>0, <1>3, <2>1 DEF RegInv, Registry
  <1>5. Histories'
    <2>1. now \in 1 .. MaxTime
      BY <1>0 DEF RegInv
    <2> QED
      BY <1>0, <1>2, <1>4, <2>1 DEF Histories, Sight
  <1>6. \A d \in Characters : Keeps(d)'
    BY <1>0, <1>1, <1>2 DEF Keeps, Histories
  <1>7. ASSUME NEW d \in Characters PROVE Gone(d)' /\ Timely(d)'
    <2>1. left[d] # None => left[d].id \in Ids /\ left[d].id # journeyOf[c]
      BY <1>0, <1>2, <1>3, <1>4, LeavingFacts DEF Gone
    <2>2. left[d] # None => journeys'[left[d].id] = journeys[left[d].id] /\ rows'[left[d].id] = rows[left[d].id]
      BY <1>1, <2>1
    <2>3. issued' \in Int /\ now' \in Int /\ now <= now' /\ issued <= issued'
      BY <1>0, <1>1 DEF RegInv
    <2> QED
      BY <1>0, <1>1, <1>2, <2>2, <2>3, GoneStays, TimelyStays
  <1> QED
    BY <1>1, <1>5, <1>6, <1>7 DEF StayInv

LEMMA LeaveStep ==
  ASSUME StayInv, NEW c \in Characters, Leave(c)
  PROVE  StayInv'
  <1>0. RegInv /\ Histories /\ \A d \in Characters : Keeps(d) /\ Gone(d) /\ Timely(d)
    BY DEF StayInv
  <1> DEFINE p == holder[c]
             id == journeyOf[c]
             j == [journeys[id] EXCEPT !.active = FALSE, !.disconnectedAt = now,
                                       !.lastDisconnectedAt = now]
             note == [id |-> id, at |-> now, place |-> journeys[id].place]
  <1>1. p # None /\ p \in Peers /\ MarkDisconnected(c, p) /\ Holds(c, p)
    BY <1>0 DEF Leave, Histories, Keeps
  <1>2. /\ holder' = [holder EXCEPT ![c] = None] /\ left' = [left EXCEPT ![c] = note]
        /\ seen' = [seen EXCEPT ![c] = [id |-> id, at |-> now]]
    BY DEF Leave
  <1>3. /\ RegInv' /\ now' = now /\ issued' = issued /\ journeyOf' = journeyOf
        /\ failures' = 0 => failures = 0
        /\ j \in JourneyAt(now) /\ j.character = c /\ j.place = journeys[id].place /\ ~j.active
        /\ j.disconnectedAt = now /\ j.lastDisconnectedAt = now
        /\ journeys'[id] = j /\ rows'[id] \in {rows[id], RowOf(j)}
        /\ \A x \in Ids : x # id => journeys'[x] = journeys[x] /\ rows'[x] = rows[x]
        /\ \A d \in Characters, q \in Peers : Holds(d, q) /\ (d # c \/ q # p) => Holds(d, q)'
    BY <1>0, <1>1, MarkDisconnectedEffect
  <1>4. /\ id \in Ids /\ id <= issued /\ id # None /\ journeys[id].character = c /\ journeys[id] # None
        /\ journeys[id].place \in Places /\ journeys[id].active
    <2>1. None \notin JourneyAt(now) /\ journeys[id].active /\ id # None
      BY <1>0, <1>1, NoneFacts DEF RegInv, Holds
    <2> QED
      BY <1>0, <2>1 DEF RegInv, Registry, JourneyAt
  <1>5. now \in 1 .. MaxTime /\ now \in Int /\ issued \in Int
    BY <1>0 DEF RegInv
  <1> HIDE DEF j, id, p
  <1>6. Histories'
    BY <1>0, <1>2, <1>4, <1>5 DEF Histories, Leaving, Sight
  <1>7. ASSUME NEW d \in Characters PROVE Keeps(d)'
    BY <1>0, <1>2, <1>3 DEF Keeps, Histories
  <1>8. Gone(c)' /\ Timely(c)'
    <2>1. left'[c] = note /\ holder'[c] = None
      BY <1>0, <1>2 DEF Histories
    <2>2. j.checkpointAt <= now /\ j.lastDisconnectedAt <= now /\ j.disconnectedAt <= now
      BY <1>3, <1>5 DEF JourneyAt
    <2>3. rows'[id] # None =>
            rows'[id].character = c /\ rows'[id].lastDisconnectedAt <= now /\ rows'[id].checkpointAt <= now
      <3>1. CASE rows'[id] = RowOf(j)
        BY <1>3, <2>2, <3>1, RowOfJourney
      <3>2. CASE rows'[id] = rows[id] /\ rows[id] # None
        <4>1. rows[id].character = c /\ rows[id] \in RowAt(now)
          BY <1>0, <1>4, <3>2 DEF RegInv, Agree, GoodTable
        <4> QED
          BY <1>5, <3>2, <4>1 DEF RowAt
      <3> QED
        BY <1>3, <3>1, <3>2
    <2>4. Gone(c)'
      BY <1>3, <1>4, <1>5, <2>1, <2>2, <2>3 DEF Gone, Old
    <2>5. Timely(c)'
      BY <1>3, <2>1 DEF Timely, id
    <2> QED
      BY <2>4, <2>5
  <1>9. ASSUME NEW d \in Characters \ {c} PROVE Gone(d)' /\ Timely(d)'
    <2>1. left'[d] = left[d] /\ holder'[d] = holder[d]
      BY <1>0, <1>2 DEF Histories
    <2>2. left[d] # None => left[d].id \in Ids /\ left[d].id # id
      BY <1>0, <1>4, LeavingFacts DEF Gone
    <2>3. left[d] # None => journeys'[left[d].id] = journeys[left[d].id] /\ rows'[left[d].id] = rows[left[d].id]
      BY <1>3, <2>2
    <2>4. issued' \in Int /\ now' \in Int /\ now <= now' /\ issued <= issued'
      BY <1>3, <1>5
    <2> QED
      BY <1>0, <1>3, <2>1, <2>3, <2>4, GoneStays, TimelyStays
  <1> QED
    BY <1>3, <1>6, <1>7, <1>8, <1>9 DEF StayInv

LEMMA StayCleanupStep ==
  ASSUME StayInv, StayCleanup
  PROVE  StayInv'
  <1>0. RegInv /\ Histories /\ \A d \in Characters : Keeps(d) /\ Gone(d) /\ Timely(d)
    BY DEF StayInv
  <1>1. /\ RegInv' /\ now' = now /\ issued' = issued /\ journeys' = Kept /\ journeyOf' = KeptOf
        /\ failures' = 0 => failures = 0
        /\ \A x \in Ids : rows'[x] \in {rows[x], None}
        /\ \A d \in Characters, q \in Peers : Holds(d, q) => Holds(d, q)'
    BY <1>0, CleanupEffect DEF StayCleanup
  <1>2. holder' = holder /\ left' = left /\ seen' = seen
    BY DEF StayCleanup
  <1>3. Histories' /\ \A d \in Characters : Keeps(d)'
    BY <1>0, <1>1, <1>2 DEF Histories, Keeps
  <1>4. ASSUME NEW d \in Characters PROVE Gone(d)' /\ Timely(d)'
    <2>1. left[d] # None => left[d].id \in Ids /\ left[d].id # None
      BY <1>0, LeavingFacts
    <2>2. left[d] # None => /\ journeys'[left[d].id] \in {journeys[left[d].id], None}
                            /\ rows'[left[d].id] \in {rows[left[d].id], None}
      BY <1>0, <1>1, <2>1, KeptRegistry
    <2>3. issued' \in Int /\ now' \in Int /\ now <= now' /\ issued <= issued'
      BY <1>0, <1>1 DEF RegInv
    <2>4. left[d] # None /\ journeyOf[d] = left[d].id /\ ~Expired(journeyOf[d]) =>
            journeyOf'[d] = journeyOf[d] /\ journeys'[journeyOf[d]] = journeys[journeyOf[d]]
      BY <1>0, <1>1, <2>1, KeptRegistry
    <2>5. Gone(d)'
      BY <1>0, <1>2, <2>2, <2>3, GoneStays
    <2>6. Timely(d)'
      BY <1>0, <1>1, <1>2, <2>3, <2>4, TimelyStays
    <2> QED
      BY <2>5, <2>6
  <1> QED
    BY <1>1, <1>3, <1>4 DEF StayInv

LEMMA StayTimeStep ==
  ASSUME StayInv, StayTime
  PROVE  StayInv'
  <1>0. RegInv /\ Histories /\ \A d \in Characters : Keeps(d) /\ Gone(d) /\ Timely(d)
    BY DEF StayInv
  <1>1. /\ RegInv' /\ now < now' /\ journeys' = journeys /\ journeyOf' = journeyOf
        /\ rows' = rows /\ issued' = issued /\ failures' = failures
        /\ \A d \in Characters, q \in Peers : Holds(d, q) => Holds(d, q)'
    BY <1>0, TickEffect DEF StayTime
  <1>2. holder' = holder /\ left' = left /\ seen' = seen
    BY DEF StayTime
  <1>3. Histories' /\ \A d \in Characters : Keeps(d)'
    BY <1>0, <1>1, <1>2 DEF Histories, Keeps
  <1>4. issued' \in Int /\ now' \in Int /\ now <= now' /\ issued <= issued'
    BY <1>0, <1>1 DEF RegInv
  <1>5. \A d \in Characters : Gone(d)'
    BY <1>0, <1>1, <1>2, <1>4, GoneStays
  <1>6. \A d \in Characters : Timely(d)'
    BY <1>0, <1>1, <1>2, <1>4, TimelyStays
  <1> QED
    BY <1>1, <1>3, <1>5, <1>6 DEF StayInv

LEMMA StayRestartStep ==
  ASSUME StayInv, StayRestart
  PROVE  StayInv'
  <1>0. RegInv /\ Histories /\ \A d \in Characters : Keeps(d) /\ Gone(d) /\ Timely(d)
    BY DEF StayInv
  <1>1. /\ RegInv' /\ now' = now /\ issued' = issued /\ rows' = rows /\ failures' = failures
        /\ \A id \in Ids : rows[id] # None =>
             journeys'[id] = Restored(rows[id]) /\ journeyOf'[rows[id].character] = id
        /\ \A id \in Ids : rows[id] = None => journeys'[id] = None
    BY <1>0, RestartEffect DEF StayRestart
  <1>2. holder' = [d \in Characters |-> None] /\ left' = left /\ seen' = seen
    BY DEF StayRestart
  <1>3. Histories' /\ \A d \in Characters : Keeps(d)'
    BY <1>0, <1>2 DEF Histories, Keeps
  <1>4. ASSUME NEW row \in RowAt(now)
        PROVE  /\ Restored(row).character = row.character /\ ~Restored(row).active
               /\ Restored(row).lastDisconnectedAt = row.lastDisconnectedAt
               /\ Restored(row).checkpointAt = row.checkpointAt /\ Restored(row).place = row.place
               /\ Restored(row).disconnectedAt = IF row.lastDisconnectedAt > 0
                                                 THEN row.lastDisconnectedAt ELSE row.checkpointAt
    BY DEF Restored
  <1>5. ASSUME NEW d \in Characters, left[d] # None PROVE Gone(d)' /\ Timely(d)'
    <2> DEFINE id == left[d].id
    <2>1. id \in Ids /\ id # None /\ left[d].at > 0 /\ left[d].at \in Int /\ now \in Int
      BY <1>0, <1>5, LeavingFacts
    <2>2. rows[id] # None => rows[id] \in RowAt(now)
      BY <1>0, <2>1 DEF RegInv, GoodTable
    <2>3. /\ holder[d] = None /\ id <= issued /\ left[d].at <= now
          /\ rows[id] # None => /\ rows[id].character = d
                                /\ rows[id].lastDisconnectedAt <= left[d].at
                                /\ rows[id].checkpointAt <= left[d].at
      BY <1>0, <1>5 DEF Gone, Old
    <2> HIDE DEF id
    <2>4. /\ journeys'[id] # None =>
               /\ rows[id] # None /\ journeys'[id].character = d /\ ~journeys'[id].active
               /\ journeys'[id].disconnectedAt <= left[d].at
               /\ journeys'[id].lastDisconnectedAt <= left[d].at
               /\ journeys'[id].checkpointAt <= left[d].at
      <3> SUFFICES ASSUME rows[id] # None
                   PROVE  /\ journeys'[id].character = d /\ ~journeys'[id].active
                          /\ journeys'[id].disconnectedAt <= left[d].at
                          /\ journeys'[id].lastDisconnectedAt <= left[d].at
                          /\ journeys'[id].checkpointAt <= left[d].at
        BY <1>1, <2>1
      <3>1. journeys'[id] = Restored(rows[id])
        BY <1>1, <2>1
      <3> QED
        BY <1>4, <2>2, <2>3, <3>1
    <2>5. Gone(d)'
      <3>1. holder'[d] = None
        BY <1>2
      <3> QED
        BY <1>1, <1>2, <2>3, <2>4, <3>1 DEF Gone, Old, id
    <2>6. ASSUME failures = 0, now - left[d].at <= Window
          PROVE  /\ journeyOf'[d] = id /\ journeys'[id].place = left[d].place
                 /\ journeys'[id].disconnectedAt = left[d].at
                 /\ journeys'[id].lastDisconnectedAt = left[d].at
      <3>1. /\ journeyOf[d] = id /\ journeys[id].place = left[d].place
            /\ journeys[id].lastDisconnectedAt = left[d].at
        BY <1>0, <1>5, <2>6 DEF Timely, id
      <3>2. journeys[id] \in JourneyAt(now) /\ journeys[id].character = d /\ journeys[id] # None
        <4>1. None \notin JourneyAt(now)
          BY <1>0, NoneFacts DEF RegInv
        <4> QED
          BY <1>0, <2>1, <3>1, <4>1 DEF RegInv, Registry
      <3>3. rows[id] = RowOf(journeys[id])
        BY <1>0, <2>1, <2>6, <3>2 DEF RegInv, Mirror
      <3>4. /\ rows[id] \in RowAt(now) /\ rows[id].character = d /\ rows[id].place = left[d].place
            /\ rows[id].lastDisconnectedAt = left[d].at
        BY <3>1, <3>2, <3>3, RowOfJourney
      <3>5. rows[id] # None
        BY <1>0, <3>4, NoneFacts DEF RegInv
      <3>6. journeys'[id] = Restored(rows[id]) /\ journeyOf'[d] = id
        BY <1>1, <2>1, <3>4, <3>5
      <3> QED
        BY <1>4, <2>1, <3>4, <3>6
    <2>7. Timely(d)'
      BY <1>1, <1>2, <2>6 DEF Timely, id
    <2> QED
      BY <2>5, <2>7
  <1>6. \A d \in Characters : Gone(d)' /\ Timely(d)'
    BY <1>2, <1>5 DEF Gone, Timely
  <1> QED
    BY <1>1, <1>3, <1>6 DEF StayInv

LEMMA StayStep == StayInv /\ [StayNext]_stayVars => StayInv'
  <1> SUFFICES ASSUME StayInv, [StayNext]_stayVars PROVE StayInv'
    OBVIOUS
  <1>1. CASE \E c \in Characters, p \in Peers : EnterWorld(c, p)
    BY <1>1, EnterWorldStep
  <1>2. CASE \E c \in Characters, place \in Places : SavePlace(c, place)
    BY <1>2, SavePlaceStep
  <1>3. CASE \E c \in Characters : Leave(c)
    BY <1>3, LeaveStep
  <1>4. CASE StayCleanup
    BY <1>4, StayCleanupStep
  <1>5. CASE StayTime
    BY <1>5, StayTimeStep
  <1>6. CASE StayRestart
    BY <1>6, StayRestartStep
  <1>7. CASE UNCHANGED stayVars
    <2>1. /\ UNCHANGED journeyVars /\ holder' = holder /\ left' = left /\ seen' = seen
          /\ RegInv /\ Histories
      BY <1>7 DEF stayVars, StayInv
    <2>2. /\ RegInv' /\ now' = now /\ journeys' = journeys /\ journeyOf' = journeyOf /\ rows' = rows
          /\ issued' = issued /\ failures' = failures
          /\ \A d \in Characters, q \in Peers : Holds(d, q) => Holds(d, q)'
      BY <2>1, RegistryKept
    <2>3. \A d \in Characters : Keeps(d)' /\ Gone(d)' /\ Timely(d)'
      BY <2>1, <2>2 DEF StayInv, Histories, Keeps, Gone, Timely, Old
    <2> QED
      BY <2>1, <2>2, <2>3 DEF StayInv, Histories
  <1> QED
    BY <1>1, <1>2, <1>3, <1>4, <1>5, <1>6, <1>7 DEF StayNext

LEMMA StayInvariant == StaySpec => []StayInv
  BY StayInitInv, StayStep, PTL DEF StaySpec

-----------------------------------------------------------------------------
(* Its theorems.                                                            *)

\* The registry, its table and what is remembered of the peers have their types,
\* whatever times the clock shows.
THEOREM JourneyTypes == StaySpec => []StayTypeOK
  <1>1. StayInv => StayTypeOK
    <2> SUFFICES ASSUME StayInv PROVE StayTypeOK
      OBVIOUS
    <2>1. JourneyAt(now) \subseteq Journey /\ RowAt(now) \subseteq Row
      BY NoneFacts DEF StayInv, RegInv
    <2>2. JourneyTypeOK
      BY <2>1 DEF JourneyTypeOK, StayInv, RegInv, Registry, GoodTable
    <2> QED
      BY <2>2 DEF StayTypeOK, StayInv, Histories, Leaving, Sight
  <1> QED
    BY <1>1, StayInvariant, PTL

\* A connected player keeps its journey against every other peer, every cleanup
\* and every passing of time.
THEOREM HolderKeepsJourneyHolds == StaySpec => []HolderKeepsJourney
  <1>1. StayInv => HolderKeepsJourney
    BY DEF StayInv, Keeps, HolderKeepsJourney
  <1> QED
    BY <1>1, StayInvariant, PTL

\* While no write failed, the table holds what the registry holds.
THEOREM TableMirrorsMemoryHolds == StaySpec => []TableMirrorsMemory
  <1>1. StayInv => TableMirrorsMemory
    BY DEF StayInv, RegInv, Mirror, TableMirrorsMemory
  <1> QED
    BY <1>1, StayInvariant, PTL

\* Whoever left comes back within the window to the same journey at the same
\* place, also through any number of restarts, if no write failed.
THEOREM ReturnsWithinWindowHolds == StaySpec => []ReturnsWithinWindow
  <1>1. StayInv => ReturnsWithinWindow
    <2> SUFFICES ASSUME StayInv, NEW c \in Characters, failures = 0, left[c] # None,
                        now - left[c].at <= Window
                 PROVE  /\ KeptOf[c] = left[c].id /\ ~Kept[left[c].id].active
                        /\ Kept[left[c].id].place = left[c].place
      BY DEF ReturnsWithinWindow
    <2>1. RegInv /\ Histories /\ Gone(c) /\ Timely(c)
      BY DEF StayInv
    <2>2. /\ journeyOf[c] = left[c].id
          /\ journeys[left[c].id].place = left[c].place
          /\ journeys[left[c].id].disconnectedAt = left[c].at
      BY <2>1 DEF Timely
    <2>3. left[c].id # None /\ left[c].id \in Ids
      BY <2>1, LeavingFacts
    <2>4. ~Expired(journeyOf[c])
      <3>1. now \in Int /\ left[c].at \in Int /\ Window \in Int
        BY <2>1, LeavingFacts, TimeAssumption
      <3> QED
        BY <2>2, <3>1 DEF Expired
    <2>5. KeptOf[c] = journeyOf[c] /\ Kept[journeyOf[c]] = journeys[journeyOf[c]]
      BY <2>1, <2>2, <2>3, <2>4, KeptRegistry
    <2>6. journeys[left[c].id] # None
      <3>1. None \notin JourneyAt(now)
        BY <2>1, NoneFacts DEF RegInv
      <3> QED
        BY <2>1, <2>2, <2>3, <3>1 DEF RegInv, Registry
    <2> QED
      BY <2>1, <2>2, <2>5, <2>6 DEF Gone
  <1> QED
    BY <1>1, StayInvariant, PTL

\* What LateReturnsStartAnew says of a step.
StartsAnew ==
  \A c \in Characters :
    left[c] # None /\ left'[c] = None /\ now - left[c].at > Window =>
      journeyOf'[c] # left[c].id

\* Whoever comes back after the window is given another journey, whatever writes
\* failed: an old journey is not brought back by the row its deletion left.
THEOREM LateReturnsStartAnewHolds == StaySpec => LateReturnsStartAnew
  <1>1. StayInv /\ [StayNext]_stayVars => [StartsAnew]_stayVars
    <2> SUFFICES ASSUME StayInv, StayNext, NEW c \in Characters, left[c] # None, left'[c] = None,
                        now - left[c].at > Window
                 PROVE  journeyOf'[c] # left[c].id
      BY DEF StartsAnew
    <2>1. RegInv /\ Histories /\ Gone(c)
      BY DEF StayInv
    <2>2. PICK d \in Characters, p \in Peers : EnterWorld(d, p)
      <3>1. CASE \E d \in Characters, place \in Places : SavePlace(d, place)
        BY <3>1 DEF SavePlace
      <3>2. ASSUME NEW d \in Characters, Leave(d) PROVE FALSE
        <4> DEFINE note == [id |-> journeyOf[d], at |-> now, place |-> journeys[journeyOf[d]].place]
        <4>1. left' = [left EXCEPT ![d] = note]
          BY <3>2 DEF Leave
        <4>2. StayInv'
          BY <3>2, LeaveStep
        <4>3. c = d /\ note = None
          BY <2>1, <4>1 DEF Histories
        <4>4. holder[c] # None
          BY <3>2, <4>3 DEF Leave
        <4> QED
          BY <2>1, <4>4 DEF Gone
      <3>3. CASE StayCleanup \/ StayTime \/ StayRestart
        BY <3>3 DEF StayCleanup, StayTime, StayRestart
      <3> QED
        BY <3>1, <3>2, <3>3 DEF StayNext
    <2>3. c = d /\ Accepted(c, p)
      BY <2>1, <2>2 DEF EnterWorld, Histories
    <2>4. Enter(c, p, Spawn)
      BY <2>2, <2>3 DEF EnterWorld
    <2>5. journeyOf'[c] = EnteredId(c)
      BY <2>1, <2>4, EnterEffect
    <2>6. /\ left[c].id \in Int /\ left[c].at \in Int /\ now \in Int /\ Window \in Int /\ issued \in Int
          /\ left[c].id <= issued
      BY <2>1, LeavingFacts, TimeAssumption DEF Gone, RegInv
    <2>7. CASE KeptOf[c] = None
      BY <2>5, <2>6, <2>7 DEF EnteredId
    <2>8. CASE KeptOf[c] # None
      <3> SUFFICES ASSUME KeptOf[c] = left[c].id PROVE FALSE
        BY <2>5, <2>8 DEF EnteredId
      <3>1. left[c].id = journeyOf[c] /\ ~Expired(left[c].id) /\ left[c].id \in Ids
        BY <2>1, <2>8, KeptRegistry
      <3>2. journeys[left[c].id] \in JourneyAt(now) /\ journeys[left[c].id] # None
        <4>1. None \notin JourneyAt(now)
          BY <2>1, NoneFacts DEF RegInv
        <4> QED
          BY <2>1, <2>8, <3>1, <4>1 DEF RegInv, Registry
      <3>3. ~journeys[left[c].id].active /\ journeys[left[c].id].disconnectedAt <= left[c].at
        BY <2>1, <3>2 DEF Gone
      <3>4. journeys[left[c].id].disconnectedAt \in Int
        BY <2>6, <3>2 DEF JourneyAt
      <3> QED
        BY <2>6, <3>1, <3>2, <3>3, <3>4 DEF Expired
    <2> QED
      BY <2>7, <2>8
  <1>2. StaySpec => [][StartsAnew]_stayVars
    BY <1>1, StayInvariant, PTL DEF StaySpec
  <1> QED
    BY <1>2 DEF LateReturnsStartAnew, StartsAnew

-----------------------------------------------------------------------------
(* WorldEntry: the registry under sessions and admission.                   *)

WorldTypes ==
  /\ status \in [Peers -> {"absent", "connected", "admitted", "gone"}]
  /\ \A p \in Peers : player[p] # None <=> status[p] = "admitted"
  /\ player \in [Peers -> Player \cup {None}]
  /\ sessions \in [Peers -> Session \cup {None}]
  /\ epochs \in 0 .. MaxEpoch
  /\ nakama \subseteq Peers
  /\ validating \in [peer: Peers, account: Accounts] \cup {None}
  /\ bindings \in [Accounts -> Binding \cup {None}]
  /\ welcomed \in [Peers -> Entry \cup {None}]

\* What a session lets its peer play is of the session's account.
Owned(p) ==
  sessions[p] # None =>
    /\ sessions[p].selected # None => OwnerOf[sessions[p].selected] = sessions[p].account
    /\ sessions[p].snapshot # None => OwnerOf[sessions[p].snapshot] = sessions[p].account

\* Epochs are drawn upwards, so a new session is no player's session.
EpochsGrow(p) ==
  /\ sessions[p] # None => sessions[p].epoch <= epochs
  /\ player[p] # None => player[p].epoch <= epochs

Acts(p) == player[p] # None /\ player[p].character # None

Welcomed(p) ==
  /\ welcomed[p] = None /\ sessions[p] # None /\ Acts(p) => sessions[p].epoch # player[p].epoch
  /\ welcomed[p] # None => sessions[p] # None /\ Acts(p)
  /\ welcomed[p] # None /\ ~welcomed[p].relayed => sessions[p].epoch = player[p].epoch

Sound(p) ==
  Owned(p) /\ EpochsGrow(p) /\ Welcomed(p) /\ (Acts(p) => Holds(player[p].character, p))

Bound(a) == bindings[a] # None => OwnerOf[bindings[a].character] = a

WorldInv ==
  RegInv /\ WorldTypes /\ (\A p \in Peers : Sound(p)) /\ \A a \in Accounts : Bound(a)

\* Nobody loses a journey.
HoldsStay == \A d \in Characters, q \in Peers : Holds(d, q) => Holds(d, q)'

LEMMA SoundStays ==
  ASSUME WorldTypes, NEW p \in Peers, Sound(p), sessions'[p] = sessions[p], player'[p] = player[p],
         welcomed'[p] = welcomed[p], epochs' \in Int, epochs <= epochs', HoldsStay
  PROVE  Sound(p)'
  <1>1. /\ sessions[p] # None => sessions[p].epoch \in Int
        /\ player[p] # None => player[p].epoch \in Int /\ player[p].character \in Characters \cup {None}
        /\ epochs \in Int
    BY WorldAssumption DEF WorldTypes, Session, Player
  <1>2. Owned(p)' /\ EpochsGrow(p)' /\ Welcomed(p)'
    BY <1>1 DEF Sound, Owned, EpochsGrow, Welcomed, Acts
  <1>3. ASSUME Acts(p)' PROVE Holds(player[p].character, p)'
    <2>1. PICK d \in Characters : d = player[p].character
      BY <1>1, <1>3 DEF Acts
    <2>2. Holds(d, p)
      BY <1>3, <2>1 DEF Sound, Acts
    <2>3. Holds(d, p)' /\ player'[p].character = d
      BY <2>1, <2>2 DEF HoldsStay
    <2> QED
      BY <2>3 DEF Holds
  <1> QED
    BY <1>2, <1>3 DEF Sound

LEMMA BindEffect ==
  ASSUME WorldTypes, NEW p \in Peers, NEW a \in Accounts,
         NEW selected \in Characters \cup {None}, NEW snapshot \in Characters \cup {None},
         Bind(p, a, selected, snapshot)
  PROVE  /\ sessions' \in [Peers -> Session \cup {None}]
         /\ epochs' \in 0 .. MaxEpoch /\ epochs' \in Int /\ epochs <= epochs' /\ epochs' > epochs
         /\ sessions'[p] # None /\ sessions'[p].epoch = epochs' /\ sessions'[p].account = a
         /\ sessions'[p].selected = selected /\ sessions'[p].snapshot = snapshot
         /\ \A q \in Peers \ {p} : sessions'[q] = sessions[q]
  <1> DEFINE s == [epoch |-> epochs + 1, account |-> a, selected |-> selected, snapshot |-> snapshot]
  <1>1. epochs < MaxEpoch /\ epochs' = epochs + 1 /\ sessions' = [sessions EXCEPT ![p] = s]
    BY DEF Bind
  <1>2. epochs \in Int /\ epochs + 1 \in 1 .. MaxEpoch /\ epochs \in 0 .. MaxEpoch
    BY <1>1, WorldAssumption DEF WorldTypes
  <1>3. s \in Session /\ s # None
    BY <1>2, WorldNoneAssumption DEF Session
  <1>4. /\ s.epoch = epochs + 1 /\ s.account = a /\ s.selected = selected /\ s.snapshot = snapshot
    OBVIOUS
  <1> HIDE DEF s
  <1>5. /\ sessions' \in [Peers -> Session \cup {None}] /\ sessions'[p] = s
        /\ \A q \in Peers \ {p} : sessions'[q] = sessions[q]
    BY <1>1, <1>3 DEF WorldTypes
  <1> QED
    BY <1>1, <1>2, <1>3, <1>4, <1>5, WorldAssumption

LEMMA WorldInit == Init => WorldInv
  <1> SUFFICES ASSUME Init PROVE WorldInv
    OBVIOUS
  <1>1. RegInv
    BY RegInit DEF Init
  <1>2. WorldTypes
    BY WorldAssumption DEF Init, WorldTypes
  <1>3. \A p \in Peers : Sound(p)
    BY DEF Init, Sound, Owned, EpochsGrow, Welcomed, Acts
  <1>4. \A a \in Accounts : Bound(a)
    BY DEF Init, Bound
  <1> QED
    BY <1>1, <1>2, <1>3, <1>4 DEF WorldInv

-----------------------------------------------------------------------------
(* Its steps.                                                               *)

\* Steps that touch no journey, session or player.
LEMMA QuietStep ==
  ASSUME WorldInv, UNCHANGED journeyVars, WorldTypes', UNCHANGED <<player, sessions, epochs, bindings, welcomed>>
  PROVE  WorldInv'
  <1>1. RegInv' /\ HoldsStay
    BY RegistryKept DEF WorldInv, HoldsStay
  <1>2. epochs \in Int /\ epochs <= epochs
    BY WorldAssumption DEF WorldInv, WorldTypes
  <1>3. \A p \in Peers : Sound(p)'
    BY <1>1, <1>2, SoundStays DEF WorldInv
  <1> QED
    BY <1>1, <1>3 DEF WorldInv, Bound

LEMMA ConnectStep ==
  ASSUME WorldInv, NEW p \in Peers, Connect(p) \/ Admit(p)
  PROVE  WorldInv'
  <1>0. RegInv /\ WorldTypes /\ (\A q \in Peers : Sound(q)) /\ \A a \in Accounts : Bound(a)
    BY DEF WorldInv
  <1>1. CASE Connect(p)
    <2>1. WorldTypes'
      BY <1>0, <1>1 DEF Connect, WorldTypes
    <2> QED
      BY <1>1, <2>1, QuietStep DEF Connect
  <1>2. CASE Admit(p)
    <2>1. /\ status[p] = "connected" /\ status' = [status EXCEPT ![p] = "admitted"]
          /\ player' = [player EXCEPT ![p] = Nobody] /\ UNCHANGED journeyVars
          /\ sessions' = sessions /\ epochs' = epochs /\ nakama' = nakama /\ validating' = validating
          /\ bindings' = bindings /\ welcomed' = welcomed
      BY <1>2 DEF Admit
    <2>2. Nobody \in Player /\ Nobody # None /\ Nobody.character = None /\ Nobody.epoch = 0
      BY WorldAssumption, WorldNoneAssumption DEF Nobody, Player
    <2>3. WorldTypes'
      BY <1>0, <2>1, <2>2 DEF WorldTypes
    <2>4. RegInv' /\ HoldsStay
      BY <1>0, <2>1, RegistryKept DEF HoldsStay
    <2>5. epochs \in Int /\ epochs >= 0
      BY <1>0, WorldAssumption DEF WorldTypes
    <2>6. Sound(p)'
      <3>1. player[p] = None
        BY <1>0, <2>1 DEF WorldTypes
      <3>2. welcomed[p] = None
        BY <1>0, <3>1 DEF Sound, Welcomed, Acts
      <3>3. player'[p] = Nobody
        BY <1>0, <2>1 DEF WorldTypes
      <3> QED
        BY <1>0, <2>1, <2>2, <2>5, <3>2, <3>3 DEF Sound, Owned, EpochsGrow, Welcomed, Acts
    <2>7. \A q \in Peers \ {p} : Sound(q)'
      BY <1>0, <2>1, <2>4, <2>5, SoundStays DEF WorldTypes
    <2> QED
      BY <1>0, <2>1, <2>3, <2>4, <2>6, <2>7 DEF WorldInv, Bound
  <1> QED
    BY <1>1, <1>2

LEMMA DisconnectStep ==
  ASSUME WorldInv, NEW p \in Peers, Disconnect(p)
  PROVE  WorldInv'
  <1>0. RegInv /\ WorldTypes /\ (\A q \in Peers : Sound(q)) /\ \A a \in Accounts : Bound(a)
    BY DEF WorldInv
  <1>1. /\ Acts(p) => MarkDisconnected(player[p].character, p)
        /\ ~Acts(p) => UNCHANGED journeyVars
        /\ bindings' = IF sessions[p] = None THEN bindings
                       ELSE [bindings EXCEPT ![sessions[p].account] = None]
        /\ sessions' = [sessions EXCEPT ![p] = None] /\ player' = [player EXCEPT ![p] = None]
        /\ status' = [status EXCEPT ![p] = "gone"] /\ welcomed' = [welcomed EXCEPT ![p] = None]
        /\ nakama' = nakama \ {p} /\ epochs' = epochs /\ validating' = validating
    BY DEF Disconnect, Unwelcomed, Acts
  <1>2. /\ RegInv'
        /\ \A d \in Characters, q \in Peers : q # p /\ Holds(d, q) => Holds(d, q)'
    <2>1. CASE Acts(p)
      <3>1. player[p].character \in Characters
        BY <1>0, <2>1 DEF Acts, WorldTypes, Player
      <3> QED
        BY <1>0, <1>1, <2>1, <3>1, MarkDisconnectedEffect
    <2>2. CASE ~Acts(p)
      BY <1>0, <1>1, <2>2, RegistryKept
    <2> QED
      BY <2>1, <2>2
  <1>3. /\ sessions'[p] = None /\ player'[p] = None /\ welcomed'[p] = None
        /\ \A q \in Peers \ {p} :
             sessions'[q] = sessions[q] /\ player'[q] = player[q] /\ welcomed'[q] = welcomed[q]
    BY <1>0, <1>1 DEF WorldTypes
  <1>4. bindings' \in [Accounts -> Binding \cup {None}] /\ \A a \in Accounts : bindings'[a] \in {bindings[a], None}
    BY <1>0, <1>1 DEF WorldTypes
  <1>5. WorldTypes'
    <2>1. /\ status' \in [Peers -> {"absent", "connected", "admitted", "gone"}]
          /\ player' \in [Peers -> Player \cup {None}] /\ sessions' \in [Peers -> Session \cup {None}]
          /\ welcomed' \in [Peers -> Entry \cup {None}]
          /\ epochs' \in 0 .. MaxEpoch /\ nakama' \subseteq Peers
          /\ validating' \in [peer: Peers, account: Accounts] \cup {None}
      BY <1>0, <1>1 DEF WorldTypes
    <2>2. status'[p] = "gone" /\ \A q \in Peers \ {p} : status'[q] = status[q]
      BY <1>0, <1>1 DEF WorldTypes
    <2>3. \A q \in Peers : player'[q] # None <=> status'[q] = "admitted"
      BY <1>0, <1>3, <2>2 DEF WorldTypes
    <2> QED
      BY <1>4, <2>1, <2>3 DEF WorldTypes
  <1>6. Sound(p)'
    BY <1>3 DEF Sound, Owned, EpochsGrow, Welcomed, Acts
  <1>7. ASSUME NEW q \in Peers \ {p} PROVE Sound(q)'
    <2>1. /\ sessions'[q] = sessions[q] /\ player'[q] = player[q] /\ welcomed'[q] = welcomed[q]
          /\ epochs' = epochs
      BY <1>1, <1>3
    <2>2. Acts(q) => player[q].character \in Characters
      BY <1>0 DEF Acts, WorldTypes, Player
    <2>3. Acts(q)' => Holds(player[q].character, q)'
      BY <1>0, <1>2, <2>1, <2>2 DEF Sound, Acts
    <2> QED
      BY <1>0, <2>1, <2>3 DEF Sound, Owned, EpochsGrow, Welcomed, Acts, Holds
  <1>8. \A a \in Accounts : Bound(a)'
    BY <1>0, <1>4 DEF Bound
  <1> QED
    BY <1>2, <1>5, <1>6, <1>7, <1>8 DEF WorldInv

LEMMA SessionStep ==
  ASSUME WorldInv, NEW p \in Peers,
         \/ \E claim \in Claims : PresentAssertion(p, claim)
         \/ NakamaAccepted /\ p = validating.peer
  PROVE  WorldInv'
  <1>0. RegInv /\ WorldTypes /\ (\A q \in Peers : Sound(q)) /\ \A a \in Accounts : Bound(a)
    BY DEF WorldInv
  <1>1. PICK a \in Accounts, c \in Characters \cup {None} :
          Bind(p, a, c, c) /\ (c # None => OwnerOf[c] = a)
    <2>1. ASSUME NEW claim \in Claims, PresentAssertion(p, claim)
          PROVE  \E a \in Accounts, c \in Characters \cup {None} :
                   Bind(p, a, c, c) /\ (c # None => OwnerOf[c] = a)
      <3>1. claim[1] \in Accounts /\ claim[2] \in Characters \cup {None}
            /\ (claim[2] # None => OwnerOf[claim[2]] = claim[1])
        BY WorldAssumption DEF Claims
      <3> QED
        BY <2>1, <3>1 DEF PresentAssertion
    <2>2. ASSUME NakamaAccepted, p = validating.peer
          PROVE  \E a \in Accounts, c \in Characters \cup {None} :
                   Bind(p, a, c, c) /\ (c # None => OwnerOf[c] = a)
      <3>1. validating.account \in Accounts
        BY <1>0, <2>2 DEF NakamaAccepted, WorldTypes
      <3> QED
        BY <2>2, <3>1 DEF NakamaAccepted
    <2> QED
      BY <2>1, <2>2
  <1>2. /\ UNCHANGED journeyVars /\ status' = status /\ player' = player /\ bindings' = bindings
        /\ welcomed' = [welcomed EXCEPT ![p] = None]
        /\ nakama' \subseteq Peers /\ validating' \in {validating, None}
    BY <1>0 DEF PresentAssertion, NakamaAccepted, Unwelcomed, WorldTypes
  <1>3. /\ sessions' \in [Peers -> Session \cup {None}]
        /\ epochs' \in 0 .. MaxEpoch /\ epochs' \in Int /\ epochs <= epochs' /\ epochs' > epochs
        /\ sessions'[p] # None /\ sessions'[p].epoch = epochs' /\ sessions'[p].account = a
        /\ sessions'[p].selected = c /\ sessions'[p].snapshot = c
        /\ \A q \in Peers \ {p} : sessions'[q] = sessions[q]
    BY <1>0, <1>1, BindEffect
  <1>4. RegInv' /\ HoldsStay
    BY <1>0, <1>2, RegistryKept DEF HoldsStay
  <1>5. /\ welcomed' \in [Peers -> Entry \cup {None}] /\ welcomed'[p] = None
        /\ \A q \in Peers \ {p} : welcomed'[q] = welcomed[q]
    BY <1>0, <1>2 DEF WorldTypes
  <1>6. WorldTypes'
    BY <1>0, <1>2, <1>3, <1>5 DEF WorldTypes
  <1>7. Sound(p)'
    <2>1. player[p] # None => player[p].epoch \in Int /\ player[p].epoch <= epochs /\ epochs \in Int
      BY <1>0, WorldAssumption DEF Sound, EpochsGrow, WorldTypes, Player
    <2>2. Owned(p)' /\ EpochsGrow(p)' /\ Welcomed(p)'
      BY <1>1, <1>2, <1>3, <1>5, <2>1 DEF Owned, EpochsGrow, Welcomed, Acts
    <2>3. (Acts(p) => Holds(player[p].character, p))'
      BY <1>0, <1>2 DEF Sound, Acts, Holds, journeyVars
    <2> QED
      BY <2>2, <2>3 DEF Sound
  <1>8. \A q \in Peers \ {p} : Sound(q)'
    BY <1>0, <1>2, <1>3, <1>4, <1>5, SoundStays
  <1> QED
    BY <1>0, <1>2, <1>4, <1>6, <1>7, <1>8 DEF WorldInv, Bound

LEMMA SelectStep ==
  ASSUME WorldInv, NEW p \in Peers, NEW c \in Characters, SelectCharacter(p, c)
  PROVE  WorldInv'
  <1>0. RegInv /\ WorldTypes /\ (\A q \in Peers : Sound(q)) /\ \A a \in Accounts : Bound(a)
    BY DEF WorldInv
  <1> DEFINE s == [sessions[p] EXCEPT !.selected = c]
  <1>1. /\ UNCHANGED journeyVars /\ status' = status /\ player' = player /\ bindings' = bindings
        /\ welcomed' = welcomed /\ nakama' = nakama /\ validating' = validating /\ epochs' = epochs
        /\ sessions[p] # None /\ OwnerOf[c] = sessions[p].account /\ sessions' = [sessions EXCEPT ![p] = s]
    BY DEF SelectCharacter, Owns
  <1>2. sessions[p] \in Session
    BY <1>0, <1>1 DEF WorldTypes
  <1>3. /\ s \in Session /\ s # None /\ s.selected = c /\ s.epoch = sessions[p].epoch
        /\ s.account = sessions[p].account /\ s.snapshot = sessions[p].snapshot
    BY <1>2, WorldNoneAssumption DEF Session
  <1> HIDE DEF s
  <1>4. /\ sessions' \in [Peers -> Session \cup {None}] /\ sessions'[p] = s
        /\ \A q \in Peers \ {p} : sessions'[q] = sessions[q]
    BY <1>0, <1>1, <1>3 DEF WorldTypes
  <1>5. RegInv' /\ HoldsStay
    BY <1>0, <1>1, RegistryKept DEF HoldsStay
  <1>6. WorldTypes'
    BY <1>0, <1>1, <1>4 DEF WorldTypes
  <1>7. Sound(p)'
    <2>1. Owned(p)' /\ EpochsGrow(p)' /\ Welcomed(p)'
      BY <1>0, <1>1, <1>3, <1>4 DEF Sound, Owned, EpochsGrow, Welcomed, Acts
    <2>2. (Acts(p) => Holds(player[p].character, p))'
      BY <1>0, <1>1 DEF Sound, Acts, Holds, journeyVars
    <2> QED
      BY <2>1, <2>2 DEF Sound
  <1>8. epochs \in Int /\ epochs <= epochs
    BY <1>0, WorldAssumption DEF WorldTypes
  <1>9. \A q \in Peers \ {p} : Sound(q)'
    BY <1>0, <1>1, <1>4, <1>5, <1>8, SoundStays
  <1> QED
    BY <1>0, <1>1, <1>5, <1>6, <1>7, <1>9 DEF WorldInv, Bound

\* Every way into the world and out of it asks the registry for the chosen
\* Character, which the session's account owns.
LEMMA ChosenFacts ==
  ASSUME WorldInv, NEW p \in Peers, sessions[p] # None, Chosen(p) # None
  PROVE  /\ Chosen(p) \in Characters /\ OwnerOf[Chosen(p)] = sessions[p].account
         /\ sessions[p].account \in Accounts /\ sessions[p].epoch \in 1 .. MaxEpoch
         /\ sessions[p].epoch <= epochs /\ sessions[p].selected \in Characters \cup {None}
  <1>1. sessions[p] \in Session /\ Owned(p) /\ EpochsGrow(p)
    BY DEF WorldInv, WorldTypes, Sound
  <1> QED
    BY <1>1 DEF Session, Chosen, Owned, EpochsGrow

LEMMA RejectedStep ==
  ASSUME WorldInv, NEW p \in Peers, EnterWorldRejected(p)
  PROVE  WorldInv'
  <1>0. RegInv /\ WorldTypes /\ (\A q \in Peers : Sound(q)) /\ \A a \in Accounts : Bound(a)
    BY DEF WorldInv
  <1>1. /\ status' = status /\ player' = player /\ sessions' = sessions /\ epochs' = epochs
        /\ nakama' = nakama /\ validating' = validating /\ bindings' = bindings /\ welcomed' = welcomed
    BY DEF EnterWorldRejected, entryVars
  <1>2. Chosen(p) \in Characters /\ Enter(Chosen(p), p, Spawn)
    BY ChosenFacts DEF EnterWorldRejected
  <1>3. RegInv' /\ HoldsStay
    BY <1>0, <1>2, EnterEffect, EnterHolds DEF HoldsStay
  <1>4. epochs \in Int /\ epochs <= epochs
    BY <1>0, WorldAssumption DEF WorldTypes
  <1>5. \A q \in Peers : Sound(q)'
    BY <1>0, <1>1, <1>3, <1>4, SoundStays
  <1> QED
    BY <1>0, <1>1, <1>3, <1>5 DEF WorldInv, WorldTypes, Bound

\* The entry of a peer as c, with its session kept or bound anew.
LEMMA WelcomedStep ==
  ASSUME WorldInv, NEW p \in Peers, status[p] = "admitted", sessions[p] # None, NEW c \in Characters,
         NEW relayed \in BOOLEAN, Accepted(c, p), Enter(c, p, Spawn),
         player' = [player EXCEPT ![p] = [character |-> c, epoch |-> sessions[p].epoch]],
         welcomed' = Welcome(p, relayed),
         status' = status, nakama' = nakama, validating' = validating,
         sessions' \in [Peers -> Session \cup {None}], sessions'[p] # None, Owned(p)',
         \A q \in Peers \ {p} : sessions'[q] = sessions[q],
         epochs' \in 0 .. MaxEpoch, epochs <= epochs', sessions'[p].epoch <= epochs',
         ~relayed => sessions'[p].epoch = sessions[p].epoch,
         bindings' \in [Accounts -> Binding \cup {None}], \A a \in Accounts : Bound(a)'
  PROVE  WorldInv'
  <1>0. RegInv /\ WorldTypes /\ \A q \in Peers : Sound(q)
    BY DEF WorldInv
  <1>1. RegInv' /\ HoldsStay /\ Holds(c, p)'
    BY <1>0, EnterEffect, EnterHolds DEF HoldsStay
  <1> DEFINE entered == [character |-> c, epoch |-> sessions[p].epoch]
             welcome == [relayed |-> relayed, selected |-> sessions[p].selected]
  <1>2. /\ sessions[p].epoch \in 1 .. MaxEpoch /\ sessions[p].epoch <= epochs
        /\ sessions[p].selected \in Characters \cup {None}
    BY <1>0 DEF Sound, EpochsGrow, WorldTypes, Session
  <1>3. /\ entered \in Player /\ entered # None /\ entered.character = c
        /\ entered.epoch = sessions[p].epoch /\ c # None
    BY <1>2, WorldAssumption, WorldNoneAssumption, NoneAssumption DEF Player
  <1>4. welcome \in Entry /\ welcome # None /\ welcome.relayed = relayed
    BY <1>2, WorldNoneAssumption DEF Entry
  <1>5. player' = [player EXCEPT ![p] = entered] /\ welcomed' = [welcomed EXCEPT ![p] = welcome]
    BY DEF Welcome
  <1> HIDE DEF entered, welcome
  <1>6. /\ player' \in [Peers -> Player \cup {None}] /\ player'[p] = entered
        /\ welcomed' \in [Peers -> Entry \cup {None}] /\ welcomed'[p] = welcome
        /\ \A q \in Peers \ {p} : player'[q] = player[q] /\ welcomed'[q] = welcomed[q]
    BY <1>0, <1>3, <1>4, <1>5 DEF WorldTypes
  <1>7. WorldTypes'
    BY <1>0, <1>3, <1>6 DEF WorldTypes
  <1>8. epochs' \in Int /\ epochs \in Int
    BY <1>0, WorldAssumption DEF WorldTypes
  <1>9. Sound(p)'
    <2>1. EpochsGrow(p)'
      BY <1>2, <1>3, <1>6, <1>8 DEF EpochsGrow
    <2>2. Welcomed(p)'
      BY <1>3, <1>4, <1>6 DEF Welcomed, Acts
    <2>3. (Acts(p) => Holds(player[p].character, p))'
      BY <1>1, <1>3, <1>6 DEF Holds
    <2> QED
      BY <2>1, <2>2, <2>3 DEF Sound
  <1>10. \A q \in Peers \ {p} : Sound(q)'
    BY <1>0, <1>1, <1>6, <1>8, SoundStays
  <1> QED
    BY <1>1, <1>7, <1>9, <1>10 DEF WorldInv

LEMMA EntryStep ==
  ASSUME WorldInv, NEW p \in Peers, EnterWorldDirect(p) \/ EnterWorldRelayed(p)
  PROVE  WorldInv'
  <1>0. RegInv /\ WorldTypes /\ (\A q \in Peers : Sound(q)) /\ \A a \in Accounts : Bound(a)
    BY DEF WorldInv
  <1> DEFINE c == Chosen(p)
             a == sessions[p].account
  <1>1. /\ status[p] = "admitted" /\ sessions[p] # None /\ Accepted(c, p) /\ Enter(c, p, Spawn)
        /\ player' = [player EXCEPT ![p] = [character |-> c, epoch |-> sessions[p].epoch]]
        /\ status' = status /\ nakama' = nakama /\ validating' = validating
    BY DEF EnterWorldDirect, EnterWorldRelayed, BindCharacter
  <1>2. /\ c \in Characters /\ OwnerOf[c] = a /\ a \in Accounts
        /\ sessions[p].epoch \in 1 .. MaxEpoch /\ sessions[p].epoch <= epochs
    BY ChosenFacts DEF EnterWorldDirect, EnterWorldRelayed
  <1>3. epochs \in Int /\ epochs \in 0 .. MaxEpoch /\ epochs <= epochs
    BY <1>0, WorldAssumption DEF WorldTypes
  <1>4. CASE EnterWorldDirect(p)
    <2>1. /\ welcomed' = Welcome(p, FALSE) /\ sessions' = sessions /\ epochs' = epochs
          /\ bindings' = bindings
      BY <1>4 DEF EnterWorldDirect
    <2>2. /\ sessions' \in [Peers -> Session \cup {None}] /\ sessions'[p] # None /\ Owned(p)'
          /\ bindings' \in [Accounts -> Binding \cup {None}] /\ \A b \in Accounts : Bound(b)'
      BY <1>0, <1>1, <2>1 DEF WorldTypes, Sound, Owned, Bound
    <2> HIDE DEF c
    <2> QED
      BY <1>1, <1>2, <1>3, <2>1, <2>2, WelcomedStep
  <1>5. CASE EnterWorldRelayed(p)
    <2> DEFINE binding == [peer |-> p, character |-> c]
    <2>1. /\ welcomed' = Welcome(p, TRUE) /\ Bind(p, a, c, c)
          /\ bindings' = [bindings EXCEPT ![a] = IF bindings[a] # None THEN bindings[a] ELSE binding]
      BY <1>5 DEF EnterWorldRelayed
    <2> HIDE DEF c, a
    <2>2. /\ sessions' \in [Peers -> Session \cup {None}]
          /\ epochs' \in 0 .. MaxEpoch /\ epochs' \in Int /\ epochs <= epochs'
          /\ sessions'[p] # None /\ sessions'[p].epoch = epochs' /\ sessions'[p].account = a
          /\ sessions'[p].selected = c /\ sessions'[p].snapshot = c
          /\ \A q \in Peers \ {p} : sessions'[q] = sessions[q]
      BY <1>0, <1>2, <2>1, BindEffect
    <2>3. Owned(p)' /\ sessions'[p].epoch <= epochs'
      BY <1>2, <2>2 DEF Owned
    <2>4. binding \in Binding /\ binding.character = c
      BY <1>2 DEF Binding
    <2> HIDE DEF binding
    <2>5. bindings' \in [Accounts -> Binding \cup {None}] /\ \A b \in Accounts : Bound(b)'
      <3>1. \A b \in Accounts : bindings'[b] = bindings[b] \/ (b = a /\ bindings'[b] = binding)
        BY <1>0, <2>1 DEF WorldTypes
      <3> QED
        BY <1>0, <1>2, <2>1, <2>4, <3>1 DEF WorldTypes, Bound
    <2>6. player' = [player EXCEPT ![p] = [character |-> c, epoch |-> sessions[p].epoch]]
          /\ Accepted(c, p) /\ Enter(c, p, Spawn)
      BY <1>1 DEF c
    <2> QED
      BY <1>1, <1>2, <2>1, <2>2, <2>3, <2>5, <2>6, WelcomedStep
  <1> QED
    BY <1>4, <1>5

\* The frame: a journey is saved, or expired ones go, or time passes.
LEMMA FrameStep ==
  ASSUME WorldInv, (\E p \in Peers : SaveJourney(p)) \/ CleanupFrame \/ TimePasses
  PROVE  WorldInv'
  <1>0. RegInv /\ WorldTypes /\ (\A q \in Peers : Sound(q)) /\ \A a \in Accounts : Bound(a)
    BY DEF WorldInv
  <1>1. /\ status' = status /\ player' = player /\ sessions' = sessions /\ epochs' = epochs
        /\ nakama' = nakama /\ validating' = validating /\ bindings' = bindings /\ welcomed' = welcomed
    BY DEF SaveJourney, CleanupFrame, TimePasses, entryVars
  <1>2. RegInv' /\ HoldsStay
    <2>1. ASSUME NEW p \in Peers, SaveJourney(p) PROVE RegInv' /\ HoldsStay
      <3>1. player[p].character \in Characters
        BY <1>0, <2>1 DEF SaveJourney, WorldTypes, Player
      <3>2. PICK place \in Places : Checkpoint(player[p].character, place)
        BY <2>1 DEF SaveJourney
      <3> QED
        BY <1>0, <3>1, <3>2, CheckpointEffect DEF HoldsStay
    <2>2. CASE CleanupFrame
      BY <1>0, <2>2, CleanupEffect DEF CleanupFrame, HoldsStay
    <2>3. CASE TimePasses
      BY <1>0, <2>3, TickEffect DEF TimePasses, HoldsStay
    <2> QED
      BY <2>1, <2>2, <2>3
  <1>3. epochs \in Int /\ epochs <= epochs
    BY <1>0, WorldAssumption DEF WorldTypes
  <1>4. \A q \in Peers : Sound(q)'
    BY <1>0, <1>1, <1>2, <1>3, SoundStays
  <1> QED
    BY <1>0, <1>1, <1>2, <1>4 DEF WorldInv, WorldTypes, Bound

LEMMA RestartServerStep == ASSUME WorldInv, RestartServer PROVE WorldInv'
  <1>1. RegInv'
    BY RestartEffect DEF WorldInv, RestartServer
  <1>2. WorldTypes'
    BY WorldAssumption DEF RestartServer, WorldTypes
  <1>3. (\A p \in Peers : Sound(p)') /\ \A a \in Accounts : Bound(a)'
    BY DEF RestartServer, Sound, Owned, EpochsGrow, Welcomed, Acts, Bound
  <1> QED
    BY <1>1, <1>2, <1>3 DEF WorldInv

LEMMA WorldStep == WorldInv /\ [Next]_vars => WorldInv'
  <1> SUFFICES ASSUME WorldInv, [Next]_vars PROVE WorldInv'
    OBVIOUS
  <1>0. WorldTypes
    BY DEF WorldInv
  <1>1. ASSUME NEW p \in Peers,
               \/ Connect(p) \/ Admit(p) \/ Disconnect(p)
               \/ \E claim \in Claims : PresentAssertion(p, claim)
               \/ \E c \in Characters : SelectCharacter(p, c)
               \/ EnterWorldRejected(p) \/ EnterWorldDirect(p) \/ EnterWorldRelayed(p)
               \/ SaveJourney(p)
        PROVE  WorldInv'
    <2>1. CASE Connect(p) \/ Admit(p)
      BY <2>1, ConnectStep
    <2>2. CASE Disconnect(p)
      BY <2>2, DisconnectStep
    <2>3. CASE \E claim \in Claims : PresentAssertion(p, claim)
      BY <2>3, SessionStep
    <2>4. CASE \E c \in Characters : SelectCharacter(p, c)
      BY <2>4, SelectStep
    <2>5. CASE EnterWorldRejected(p)
      BY <2>5, RejectedStep
    <2>6. CASE EnterWorldDirect(p) \/ EnterWorldRelayed(p)
      BY <2>6, EntryStep
    <2>7. CASE SaveJourney(p)
      BY <2>7, FrameStep
    <2> QED
      BY <1>1, <2>1, <2>2, <2>3, <2>4, <2>5, <2>6, <2>7
  <1>2. ASSUME \/ \E p \in Peers, a \in Accounts : StartNakama(p, a)
               \/ NakamaRefused \/ RelayConnects \/ UNCHANGED vars
        PROVE  WorldInv'
    <2>1. UNCHANGED journeyVars /\ UNCHANGED <<player, sessions, epochs, bindings, welcomed>>
      BY <1>2 DEF StartNakama, NakamaRefused, RelayConnects, vars, entryVars
    <2>2. WorldTypes'
      BY <1>0, <1>2 DEF StartNakama, NakamaRefused, RelayConnects, vars, entryVars, WorldTypes
    <2> QED
      BY <2>1, <2>2, QuietStep
  <1>3. CASE NakamaAccepted
    <2>1. validating.peer \in Peers
      BY <1>0, <1>3 DEF NakamaAccepted, WorldTypes
    <2> QED
      BY <1>3, <2>1, SessionStep
  <1>4. CASE CleanupFrame \/ TimePasses
    BY <1>4, FrameStep
  <1>5. CASE RestartServer
    BY <1>5, RestartServerStep
  <1> QED
    BY <1>1, <1>2, <1>3, <1>4, <1>5 DEF Next

LEMMA WorldInvariant == Spec => []WorldInv
  BY WorldInit, WorldStep, PTL DEF Spec

-----------------------------------------------------------------------------
(* Its theorems.                                                            *)

\* Sessions, players and bindings have the shape the code gives them, and exactly
\* the admitted peers have a player.
THEOREM WorldTypesHold == Spec => []TypeOK
  <1>1. WorldInv => TypeOK
    <2> SUFFICES ASSUME WorldInv PROVE TypeOK
      OBVIOUS
    <2>1. JourneyAt(now) \subseteq Journey /\ RowAt(now) \subseteq Row
      BY NoneFacts DEF WorldInv, RegInv
    <2>2. JourneyTypeOK
      BY <2>1 DEF JourneyTypeOK, WorldInv, RegInv, Registry, GoodTable
    <2>3. ASSUME NEW p \in Peers PROVE (player[p] # None) = (status[p] = "admitted")
      BY DEF WorldInv, WorldTypes
    <2> QED
      BY <2>2, <2>3 DEF TypeOK, WorldInv, WorldTypes
  <1> QED
    BY <1>1, WorldInvariant, PTL

LEMMA AuthorizedActs ==
  ASSUME WorldInv, NEW p \in Peers, Authorized(p)
  PROVE  /\ Acts(p) /\ sessions[p] # None /\ sessions[p].epoch = player[p].epoch /\ Sound(p)
         /\ sessions[p].selected = player[p].character
  BY DEF WorldInv, WorldTypes, Authorized, Acts

\* Whoever may move a character holds its journey, so no two peers may, however
\* sessions, entries, disconnects, restarts and cleanups crossed each other.
THEOREM OneActorPerCharacterHolds == Spec => []OneActorPerCharacter
  <1>1. WorldInv => OneActorPerCharacter
    BY AuthorizedActs DEF OneActorPerCharacter, Sound
  <1> QED
    BY <1>1, WorldInvariant, PTL

\* Whoever may move a character has a session of its account, and a binding of the
\* bridge is of the account it is kept under.
THEOREM AuthorityIsOwnedHolds == Spec => []AuthorityIsOwned
  <1>1. WorldInv => AuthorityIsOwned
    <2> SUFFICES ASSUME WorldInv PROVE AuthorityIsOwned
      OBVIOUS
    <2>1. ASSUME NEW p \in Peers, Authorized(p)
          PROVE  OwnerOf[player[p].character] = sessions[p].account
      BY <2>1, AuthorizedActs DEF Sound, Owned, Acts
    <2>2. \A a \in Accounts : bindings[a] # None => OwnerOf[bindings[a].character] = a
      BY DEF WorldInv, Bound
    <2> QED
      BY <2>1, <2>2 DEF AuthorityIsOwned
  <1> QED
    BY <1>1, WorldInvariant, PTL

\* Nobody acts whom the world has not let in with the session it has, and whoever
\* it let in without the relay can act.
THEOREM WelcomeDecidesHolds == Spec => []WelcomeDecides
  <1>1. WorldInv => WelcomeDecides
    <2> SUFFICES ASSUME WorldInv PROVE WelcomeDecides
      OBVIOUS
    <2>1. ASSUME NEW p \in Peers, Authorized(p) PROVE welcomed[p] # None
      BY <2>1, AuthorizedActs DEF Sound, Welcomed
    <2>2. ASSUME NEW p \in Peers, welcomed[p] # None, ~welcomed[p].relayed,
                 sessions[p].selected = player[p].character
          PROVE  Authorized(p)
      <3>1. Welcomed(p) /\ (player[p] # None <=> status[p] = "admitted")
        BY DEF WorldInv, WorldTypes, Sound
      <3> QED
        BY <2>2, <3>1 DEF Welcomed, Acts, Authorized
    <2> QED
      BY <2>1, <2>2 DEF WelcomeDecides, OnlyWelcomedAct, WelcomedCanAct
  <1> QED
    BY <1>1, WorldInvariant, PTL
=============================================================================
