------------------------- MODULE GenericIndexProofs -------------------------
(***************************************************************************)
(* Proofs about GenericIndex, for every size of its tables and stack.      *)
(***************************************************************************)
EXTENDS GenericIndex, TLAPS

(* Facts about one undo state and the table it belongs to.                 *)

\* Restore and Merge stay within their types.
LEMMA RestoreType ==
    ASSUME NEW u \in UndoState, NEW t \in Table
    PROVE  Restore(u, t) \in Table
BY DEF Restore, UndoState, Table

\* What Restore puts under one id.
LEMMA RestoreAt ==
    ASSUME NEW u \in UndoState, NEW t \in Table, NEW i \in Id
    PROVE  Restore(u, t)[i] = IF u.removedValues[i] # NoVal THEN u.removedValues[i]
                              ELSE IF i \in u.newIds THEN NoVal
                              ELSE IF u.oldValues[i] # NoVal THEN u.oldValues[i]
                              ELSE t[i]
BY DEF Restore, UndoState, Table

\* Two tables with the same entries are the same table.
LEMMA TableExtensional ==
    ASSUME NEW f \in Table, NEW g \in Table, \A i \in Id : f[i] = g[i]
    PROVE  f = g
BY DEF Table

\* on_create: the session's start is not moved by a new object.
LEMMA OnCreateFaithful ==
    ASSUME NEW u \in UndoState, NEW t \in Table, NEW j \in Id, NEW v \in Value,
           Defined(u, t), t[j] = NoVal, j >= u.oldNextId
    PROVE  LET w == OnCreate(u, j)
               s == [t EXCEPT ![j] = v]
           IN  /\ w \in UndoState /\ s \in Table
               /\ w.oldNextId = u.oldNextId /\ w.revision = u.revision
               /\ Defined(w, s)
               /\ Restore(w, s) = Restore(u, t)
<1> DEFINE w == OnCreate(u, j)
           s == [t EXCEPT ![j] = v]
<1>0. w = OnCreate(u, j) /\ s = [t EXCEPT ![j] = v]
  OBVIOUS
<1> HIDE DEF w, s
<1>1. w \in UndoState /\ s \in Table
      /\ w.oldNextId = u.oldNextId /\ w.revision = u.revision
  BY <1>0 DEF OnCreate, UndoState, Table
<1>2. Defined(w, s)
  BY <1>0, NoValAssumption DEF Defined, OnCreate, UndoState, Table, Id
<1>3. \A i \in Id : Restore(w, s)[i] = Restore(u, t)[i]
  <2> TAKE i \in Id
  <2>1. Restore(w, s)[i] = IF w.removedValues[i] # NoVal THEN w.removedValues[i]
                           ELSE IF i \in w.newIds THEN NoVal
                           ELSE IF w.oldValues[i] # NoVal THEN w.oldValues[i]
                           ELSE s[i]
    BY <1>1, RestoreAt
  <2>2. u.removedValues[j] = NoVal /\ u.oldValues[j] = NoVal
    BY DEF Defined, UndoState, Id
  <2>3. CASE i = j
    BY <1>0, <2>1, <2>2, <2>3, RestoreAt DEF OnCreate, UndoState, Table
  <2>4. CASE i # j
    <3>1. /\ w.removedValues = u.removedValues /\ w.oldValues = u.oldValues
          /\ i \in w.newIds <=> i \in u.newIds
          /\ s[i] = t[i]
      BY <1>0, <2>4 DEF OnCreate, UndoState, Table
    <3> QED BY <2>1, <3>1, RestoreAt
  <2> QED BY <2>3, <2>4
<1>4. Restore(w, s) = Restore(u, t)
  <2>1. Restore(w, s) \in Table /\ Restore(u, t) \in Table
    BY <1>1, RestoreType
  <2> QED BY <1>3, <2>1, TableExtensional
<1> QED BY <1>1, <1>2, <1>4 DEF w, s

\* on_modify: nor by a change under the same key.
LEMMA OnModifyFaithful ==
    ASSUME NEW u \in UndoState, NEW t \in Table, NEW j \in Id, NEW s \in Table,
           Defined(u, t), t[j] # NoVal,
           s[j] # NoVal, s[j].key = t[j].key, \A i \in Id \ {j} : s[i] = t[i],
           \A i \in Id : Restore(u, t)[i] # NoVal => i < u.oldNextId
    PROVE  LET w == OnModify(u, j, t[j])
           IN  /\ w \in UndoState
               /\ w.oldNextId = u.oldNextId /\ w.revision = u.revision
               /\ Defined(w, s)
               /\ Restore(w, s) = Restore(u, t)
<1> DEFINE w == OnModify(u, j, t[j])
<1>0. w = OnModify(u, j, t[j])
  OBVIOUS
<1> HIDE DEF w
<1>1. w \in UndoState /\ w.oldNextId = u.oldNextId /\ w.revision = u.revision
  BY <1>0 DEF OnModify, UndoState, Table
<1>2. Defined(w, s)
  <2>1. j \notin u.newIds => j < u.oldNextId
    BY RestoreAt DEF Defined
  <2> QED BY <1>0, <2>1, NoValAssumption DEF Defined, OnModify, UndoState, Table, Id
<1>3. \A i \in Id : Restore(w, s)[i] = Restore(u, t)[i]
  <2> TAKE i \in Id
  <2>1. Restore(w, s)[i] = IF w.removedValues[i] # NoVal THEN w.removedValues[i]
                           ELSE IF i \in w.newIds THEN NoVal
                           ELSE IF w.oldValues[i] # NoVal THEN w.oldValues[i]
                           ELSE s[i]
    BY <1>1, RestoreAt
  <2> QED BY <1>0, <2>1, RestoreAt DEF OnModify, UndoState, Table, Defined
<1>4. Restore(w, s) = Restore(u, t)
  <2>1. Restore(w, s) \in Table /\ Restore(u, t) \in Table
    BY <1>1, RestoreType
  <2> QED BY <1>3, <2>1, TableExtensional
<1> QED BY <1>1, <1>2, <1>4 DEF w

\* on_remove: nor by a removal.
LEMMA OnRemoveFaithful ==
    ASSUME NEW u \in UndoState, NEW t \in Table, NEW j \in Id,
           Defined(u, t), t[j] # NoVal,
           \A i \in Id : Restore(u, t)[i] # NoVal => i < u.oldNextId
    PROVE  LET w == OnRemove(u, j, t[j])
               s == [t EXCEPT ![j] = NoVal]
           IN  /\ w \in UndoState /\ s \in Table
               /\ w.oldNextId = u.oldNextId /\ w.revision = u.revision
               /\ Defined(w, s)
               /\ Restore(w, s) = Restore(u, t)
<1> DEFINE w == OnRemove(u, j, t[j])
           s == [t EXCEPT ![j] = NoVal]
<1>0. w = OnRemove(u, j, t[j]) /\ s = [t EXCEPT ![j] = NoVal]
  OBVIOUS
<1> HIDE DEF w, s
<1>1. w \in UndoState /\ s \in Table
      /\ w.oldNextId = u.oldNextId /\ w.revision = u.revision
  BY <1>0 DEF OnRemove, UndoState, Table
<1>2. Defined(w, s)
  <2>1. j \notin u.newIds => j < u.oldNextId
    BY RestoreAt DEF Defined
  <2> QED BY <1>0, <2>1 DEF Defined, OnRemove, UndoState, Table, Id
<1>3. \A i \in Id : Restore(w, s)[i] = Restore(u, t)[i]
  <2> TAKE i \in Id
  <2>1. Restore(w, s)[i] = IF w.removedValues[i] # NoVal THEN w.removedValues[i]
                           ELSE IF i \in w.newIds THEN NoVal
                           ELSE IF w.oldValues[i] # NoVal THEN w.oldValues[i]
                           ELSE s[i]
    BY <1>1, RestoreAt
  <2> QED BY <1>0, <2>1, RestoreAt DEF OnRemove, UndoState, Table, Defined
<1>4. Restore(w, s) = Restore(u, t)
  <2>1. Restore(w, s) \in Table /\ Restore(u, t) \in Table
    BY <1>1, RestoreType
  <2> QED BY <1>3, <2>1, TableExtensional
<1> QED BY <1>1, <1>2, <1>4 DEF w, s

\* squash: one undo of the merged state is two undos.
LEMMA MergeFaithful ==
    ASSUME NEW a \in UndoState, NEW b \in UndoState, NEW t \in Table,
           NEW m, m = Merge(a, b), NEW r, r = Restore(b, t),
           Defined(b, t), Defined(a, r), a.oldNextId <= b.oldNextId,
           \A i \in Id : r[i] # NoVal => i < b.oldNextId,
           \A i \in Id : Restore(a, r)[i] # NoVal => i < a.oldNextId
    PROVE  /\ m \in UndoState
           /\ m.oldNextId = a.oldNextId /\ m.revision = a.revision
           /\ Defined(m, t)
           /\ Restore(m, t) = Restore(a, r)
<1>1. m \in UndoState /\ m.oldNextId = a.oldNextId /\ m.revision = a.revision
  <2>1. m = [oldValues |-> m.oldValues, removedValues |-> m.removedValues,
             newIds |-> m.newIds, oldNextId |-> a.oldNextId, revision |-> a.revision]
    BY DEF Merge, UndoState
  <2>2. m.oldValues \in Table
    BY DEF Merge, UndoState, Table
  <2>3. m.removedValues \in Table
    BY DEF Merge, UndoState, Table
  <2>4. m.newIds \in SUBSET Id
    BY DEF Merge, UndoState
  <2>5. a.oldNextId \in Nat /\ a.revision \in Int
    BY DEF UndoState
  <2> QED BY <2>1, <2>2, <2>3, <2>4, <2>5 DEF UndoState
<1>2. /\ r \in Table
      /\ \A i \in Id : r[i] = IF b.removedValues[i] # NoVal THEN b.removedValues[i]
                              ELSE IF i \in b.newIds THEN NoVal
                              ELSE IF b.oldValues[i] # NoVal THEN b.oldValues[i]
                              ELSE t[i]
  BY RestoreAt, RestoreType
<1>3. ASSUME NEW i \in Id
      PROVE  /\ a.removedValues[i] # NoVal =>
                   i \notin b.newIds /\ b.oldValues[i] = NoVal /\ b.removedValues[i] = NoVal
             /\ i \in b.newIds => i \notin a.newIds /\ a.oldValues[i] = NoVal
  BY <1>2 DEF Defined, UndoState, Id
<1>4. ASSUME NEW i \in Id
      PROVE  LET x == IF /\ b.oldValues[i] # NoVal
                         /\ i \notin a.newIds
                         /\ a.oldValues[i] = NoVal
                      THEN b.oldValues[i] ELSE a.oldValues[i]
                 g == b.removedValues[i] # NoVal /\ i \notin a.newIds /\ i \notin b.newIds
             IN  /\ m.oldValues[i] = IF g THEN NoVal ELSE x
                 /\ m.removedValues[i] = IF g /\ a.removedValues[i] = NoVal
                                         THEN IF x # NoVal THEN x ELSE b.removedValues[i]
                                         ELSE a.removedValues[i]
                 /\ i \in m.newIds <=> /\ i \in a.newIds \/ i \in b.newIds
                                       /\ b.removedValues[i] = NoVal
  BY DEF Merge, UndoState, Table
<1>6. Defined(m, t)
  <2> SUFFICES ASSUME NEW i \in Id
               PROVE  /\ m.oldValues[i] # NoVal =>
                            /\ t[i] # NoVal
                            /\ t[i].key = m.oldValues[i].key
                            /\ i \notin m.newIds
                            /\ i < a.oldNextId
                      /\ i \in m.newIds => t[i] # NoVal /\ i >= a.oldNextId
                      /\ m.removedValues[i] # NoVal => t[i] = NoVal /\ i < a.oldNextId
    BY <1>1 DEF Defined
  <2>1. a.oldNextId \in Nat /\ b.oldNextId \in Nat /\ i \in Nat
    BY DEF UndoState, Id
  <2>2. /\ b.oldValues[i] # NoVal => t[i] # NoVal /\ t[i].key = b.oldValues[i].key
                                     /\ i \notin b.newIds /\ i < b.oldNextId
        /\ i \in b.newIds => t[i] # NoVal /\ i >= b.oldNextId
        /\ b.removedValues[i] # NoVal => t[i] = NoVal /\ i < b.oldNextId
    BY DEF Defined
  <2>3. /\ a.oldValues[i] # NoVal => r[i] # NoVal /\ r[i].key = a.oldValues[i].key
                                     /\ i \notin a.newIds /\ i < a.oldNextId
        /\ i \in a.newIds => r[i] # NoVal /\ i >= a.oldNextId
        /\ a.removedValues[i] # NoVal => r[i] = NoVal /\ i < a.oldNextId
    BY DEF Defined
  <2>4. r[i] # NoVal /\ i \notin a.newIds => i < a.oldNextId
    BY <1>2, <2>1, <2>3, RestoreAt
  <2> QED BY <1>2, <1>3, <1>4, <2>1, <2>2, <2>3, <2>4
<1>5. \A i \in Id : Restore(m, t)[i] = Restore(a, r)[i]
  <2> TAKE i \in Id
  <2>1. Restore(m, t)[i] = IF m.removedValues[i] # NoVal THEN m.removedValues[i]
                           ELSE IF i \in m.newIds THEN NoVal
                           ELSE IF m.oldValues[i] # NoVal THEN m.oldValues[i]
                           ELSE t[i]
    BY <1>1, RestoreAt
  <2>2. Restore(a, r)[i] = IF a.removedValues[i] # NoVal THEN a.removedValues[i]
                           ELSE IF i \in a.newIds THEN NoVal
                           ELSE IF a.oldValues[i] # NoVal THEN a.oldValues[i]
                           ELSE r[i]
    BY <1>2, RestoreAt
  <2> QED BY <1>2, <1>3, <1>4, <2>1, <2>2 DEF Defined
<1>7. Restore(m, t) = Restore(a, r)
  BY <1>1, <1>2, <1>5, RestoreType, TableExtensional
<1> QED BY <1>1, <1>6, <1>7

-----------------------------------------------------------------------------
(* The inductive invariant: no part of it is inductive without the others. *)
Inv ==
    /\ TypeOK
    /\ SnapshotsRestorable
    /\ UndoIsDefined
    /\ IdsBelowNext
    /\ KeysStayUnique
    /\ RevisionsContiguous

\* What the newest session and the current contents owe each other.
LEMMA NewestSession ==
    ASSUME Inv, stack # << >>
    PROVE  /\ Len(stack) \in Nat \ {0} /\ Back(stack) = stack[Len(stack)]
           /\ Back(stack) \in UndoState
           /\ Len(snaps) = Len(stack) /\ snaps[Len(stack)] \in Snapshot
           /\ Defined(Back(stack), indices)
           /\ Restore(Back(stack), indices) = snaps[Len(stack)].contents
           /\ Back(stack).oldNextId = snaps[Len(stack)].nextId
           /\ Back(stack).oldNextId <= nextId
           /\ \A i \in Id : Restore(Back(stack), indices)[i] # NoVal => i < Back(stack).oldNextId
<1>1. Len(stack) \in Nat \ {0} /\ Back(stack) = stack[Len(stack)]
      /\ Back(stack) \in UndoState /\ Len(snaps) = Len(stack)
      /\ snaps[Len(stack)] \in Snapshot
  BY DEF Inv, TypeOK, Stacked, Back
<1>2. Len(stack) \in 1 .. Len(stack)
  BY <1>1
<1>3. Defined(Back(stack), indices)
  BY <1>1, <1>2 DEF Inv, UndoIsDefined, ContentsAfter
<1>4. Restore(Back(stack), indices) = snaps[Len(stack)].contents
      /\ Back(stack).oldNextId = snaps[Len(stack)].nextId
  BY <1>1, <1>2 DEF Inv, SnapshotsRestorable, ContentsAfter
<1>5. Back(stack).oldNextId <= nextId
      /\ \A i \in Id : snaps[Len(stack)].contents[i] # NoVal => i < snaps[Len(stack)].nextId
  BY <1>1, <1>2, <1>4 DEF Inv, IdsBelowNext, NextIdAfter
<1> QED BY <1>1, <1>3, <1>4, <1>5

\* A change recorded faithfully in the newest undo state keeps the invariant.
LEMMA ChangeStep ==
    ASSUME Inv, stack # << >>, NEW w \in UndoState,
           w.oldNextId = Back(stack).oldNextId, w.revision = Back(stack).revision,
           indices' \in Table, Defined(w, indices'),
           Restore(w, indices') = Restore(Back(stack), indices),
           stack' = [stack EXCEPT ![Len(stack)] = w],
           UNCHANGED <<revision, unwinding, snaps>>,
           nextId' \in Nat, nextId' >= nextId,
           KeysUnique(indices'), \A i \in Id : indices'[i] # NoVal => i < nextId'
    PROVE  Inv'
<1>1. /\ Len(stack) \in Nat \ {0} /\ Len(snaps) = Len(stack)
      /\ Back(stack) = stack[Len(stack)]
      /\ Restore(w, indices') = snaps[Len(stack)].contents
      /\ w.oldNextId = snaps[Len(stack)].nextId
      /\ w.oldNextId <= nextId
  BY NewestSession
<1>2. /\ Len(stack') = Len(stack)
      /\ stack'[Len(stack)] = w
      /\ \A k \in 1 .. Len(stack) : k # Len(stack) => stack'[k] = stack[k]
      /\ stack' \in Seq(UndoState)
  BY <1>1 DEF Inv, TypeOK
<1>3. TypeOK'
  BY <1>2 DEF Inv, TypeOK, Stacked
<1>4. /\ ContentsAfter(Len(stack))' = indices'
      /\ \A k \in 1 .. Len(stack) : k # Len(stack) => ContentsAfter(k)' = ContentsAfter(k)
  BY <1>1, <1>2 DEF ContentsAfter
<1>5. SnapshotsRestorable'
  <2> SUFFICES ASSUME NEW k \in 1 .. Len(stack)
               PROVE  /\ Restore(stack'[k], ContentsAfter(k)') = snaps[k].contents
                      /\ stack'[k].oldNextId = snaps[k].nextId
                      /\ stack'[k].revision = snaps[k].revision
    BY <1>2, Zenon DEF SnapshotsRestorable
  <2>1. CASE k = Len(stack)
    BY <1>1, <1>2, <1>4, <2>1 DEF Inv, SnapshotsRestorable
  <2>2. CASE k # Len(stack)
    BY <1>2, <1>4, <2>2, Zenon DEF Inv, SnapshotsRestorable
  <2> QED BY <2>1, <2>2, Zenon
<1>6. UndoIsDefined'
  <2> SUFFICES ASSUME NEW k \in 1 .. Len(stack)
               PROVE  Defined(stack'[k], ContentsAfter(k)')
    BY <1>2, Zenon DEF UndoIsDefined
  <2>1. CASE k = Len(stack)
    BY <1>2, <1>4, <2>1, Zenon
  <2>2. CASE k # Len(stack)
    BY <1>2, <1>4, <2>2, Zenon DEF Inv, UndoIsDefined
  <2> QED BY <2>1, <2>2
<1>7. IdsBelowNext'
  <2>1. \A k \in 1 .. Len(stack) : snaps[k].nextId <= NextIdAfter(k)'
    <3> TAKE k \in 1 .. Len(stack)
    <3>1. CASE k = Len(stack)
      <4>1. snaps[k].nextId \in Nat /\ nextId \in Nat /\ snaps[k].nextId <= nextId
        BY <1>1, <3>1, Zenon DEF Inv, TypeOK, UndoState
      <4>2. NextIdAfter(k)' = nextId'
        BY <1>2, <3>1, Zenon DEF NextIdAfter
      <4> QED BY <4>1, <4>2
    <3>2. CASE k # Len(stack)
      BY <1>1, <1>2, <3>2, Zenon DEF Inv, IdsBelowNext, NextIdAfter
    <3> QED BY <3>1, <3>2
  <2> QED BY <1>2, <2>1, Zenon DEF Inv, IdsBelowNext
<1>8. KeysStayUnique'
  BY <1>2, Zenon DEF Inv, KeysStayUnique
<1>9. RevisionsContiguous'
  BY <1>1, <1>2 DEF Inv, RevisionsContiguous
<1> QED BY <1>3, <1>5, <1>6, <1>7, <1>8, <1>9 DEF Inv

\* A change with no session open is recorded nowhere.
LEMMA UnrecordedChange ==
    ASSUME Inv, stack = << >>, indices' \in Table,
           UNCHANGED <<stack, revision, unwinding, snaps>>,
           nextId' \in Nat,
           KeysUnique(indices'), \A i \in Id : indices'[i] # NoVal => i < nextId'
    PROVE  Inv'
<1>1. Len(stack) = 0 /\ Len(stack') = 0
  OBVIOUS
<1>2. \A k \in 1 .. Len(stack') : FALSE
  BY <1>1
<1>3. TypeOK'
  BY DEF Inv, TypeOK, Stacked
<1> QED BY <1>2, <1>3 DEF Inv, SnapshotsRestorable, UndoIsDefined, IdsBelowNext,
                          KeysStayUnique, RevisionsContiguous

\* emplace keeps the invariant.
LEMMA EmplaceStep ==
    ASSUME Inv, NEW v \in Value, Emplace(v)
    PROVE  Inv'
<1>1. /\ nextId \in Id /\ nextId \in Nat /\ indices \in Table
      /\ indices[nextId] = NoVal
  BY BoundsAssumption DEF Inv, TypeOK, Emplace, IdsBelowNext, Id
<1>2. indices' \in Table /\ indices' = [indices EXCEPT ![nextId] = v]
  BY <1>1 DEF Emplace, Table
<1>3. KeysUnique(indices')
  <2>1. /\ KeysUnique(indices)
        /\ \A i \in Id : indices[i] # NoVal => indices[i].key # v.key
    BY DEF Inv, KeysStayUnique, KeyFree, Emplace
  <2>2. indices'[nextId] = v /\ \A i \in Id : i # nextId => indices'[i] = indices[i]
    BY <1>1, <1>2 DEF Table
  <2> QED BY <2>1, <2>2 DEF KeysUnique
<1>4. nextId' \in Nat /\ nextId' >= nextId /\ \A i \in Id : indices'[i] # NoVal => i < nextId'
  BY <1>1, <1>2 DEF Inv, IdsBelowNext, Emplace, Id, Table
<1>5. CASE stack = << >>
  BY <1>2, <1>3, <1>4, <1>5, UnrecordedChange DEF Emplace, Record, Enabled
<1>6. CASE stack # << >>
  <2> DEFINE u == Back(stack)
             w == OnCreate(u, nextId)
  <2>0. w = OnCreate(u, nextId)
    OBVIOUS
  <2>1. u \in UndoState /\ Defined(u, indices) /\ nextId >= u.oldNextId
    BY <1>1, <1>6, NewestSession DEF UndoState
  <2> HIDE DEF u, w
  <2>2. /\ w \in UndoState
        /\ w.oldNextId = u.oldNextId /\ w.revision = u.revision
        /\ Defined(w, indices') /\ Restore(w, indices') = Restore(u, indices)
    BY <1>1, <1>2, <2>0, <2>1, OnCreateFaithful
  <2>3. stack' = [stack EXCEPT ![Len(stack)] = w] /\ UNCHANGED <<revision, unwinding, snaps>>
    BY <1>6 DEF Emplace, Record, u, w, Enabled
  <2> QED BY <1>2, <1>3, <1>4, <1>6, <2>2, <2>3, ChangeStep DEF u
<1> QED BY <1>5, <1>6

\* modify keeps the invariant.
LEMMA ModifyStep ==
    ASSUME Inv, NEW j \in Id, NEW d \in Data, Modify(j, d)
    PROVE  Inv'
<1> DEFINE v == [key |-> indices[j].key, data |-> d]
<1>1. indices \in Table /\ indices[j] \in Value /\ indices[j] # NoVal /\ nextId \in Nat
  BY DEF Inv, TypeOK, Modify, Table
<1>2. v \in Value /\ v.key = indices[j].key /\ v # NoVal
  BY <1>1, NoValAssumption DEF Value
<1>3. indices' \in Table /\ indices' = [indices EXCEPT ![j] = v]
  BY <1>1, <1>2 DEF Modify, Table
<1> HIDE DEF v
<1>4. KeysUnique(indices')
  BY <1>1, <1>2, <1>3 DEF Inv, KeysStayUnique, KeysUnique, Table
<1>5. nextId' = nextId /\ nextId' >= nextId /\ \A i \in Id : indices'[i] # NoVal => i < nextId'
  BY <1>1, <1>3 DEF Inv, IdsBelowNext, Modify, Table
<1>6. CASE stack = << >>
  BY <1>1, <1>3, <1>4, <1>5, <1>6, UnrecordedChange DEF Modify, Record, Enabled
<1>7. CASE stack # << >>
  <2> DEFINE u == Back(stack)
             w == OnModify(u, j, indices[j])
  <2>0. w = OnModify(u, j, indices[j])
    OBVIOUS
  <2>1. u \in UndoState /\ Defined(u, indices)
        /\ \A i \in Id : Restore(u, indices)[i] # NoVal => i < u.oldNextId
    BY <1>7, NewestSession
  <2> HIDE DEF u, w
  <2>2. /\ w \in UndoState
        /\ w.oldNextId = u.oldNextId /\ w.revision = u.revision
        /\ Defined(w, indices') /\ Restore(w, indices') = Restore(u, indices)
    <3>1. /\ indices'[j] # NoVal /\ indices'[j].key = indices[j].key
          /\ \A i \in Id \ {j} : indices'[i] = indices[i]
      BY <1>1, <1>2, <1>3 DEF Table
    <3> QED BY <1>1, <1>3, <2>0, <2>1, <3>1, OnModifyFaithful
  <2>3. stack' = [stack EXCEPT ![Len(stack)] = w] /\ UNCHANGED <<revision, unwinding, snaps>>
    BY <1>7 DEF u, w, Modify, Record, Enabled
  <2> QED BY <1>1, <1>3, <1>4, <1>5, <1>7, <2>2, <2>3, ChangeStep DEF u
<1> QED BY <1>6, <1>7

\* remove keeps the invariant.
LEMMA RemoveStep ==
    ASSUME Inv, NEW j \in Id, Remove(j)
    PROVE  Inv'
<1>1. indices \in Table /\ indices[j] # NoVal /\ nextId \in Nat
  BY DEF Inv, TypeOK, Remove
<1>2. indices' \in Table /\ indices' = [indices EXCEPT ![j] = NoVal]
  BY <1>1 DEF Remove, Table
<1>3. KeysUnique(indices')
  BY <1>1, <1>2 DEF Inv, KeysStayUnique, KeysUnique, Table
<1>4. nextId' = nextId /\ nextId' >= nextId /\ \A i \in Id : indices'[i] # NoVal => i < nextId'
  BY <1>1, <1>2 DEF Inv, IdsBelowNext, Remove, Table
<1>5. CASE stack = << >>
  BY <1>1, <1>2, <1>3, <1>4, <1>5, UnrecordedChange DEF Remove, Record, Enabled
<1>6. CASE stack # << >>
  <2> DEFINE u == Back(stack)
             w == OnRemove(u, j, indices[j])
  <2>0. w = OnRemove(u, j, indices[j])
    OBVIOUS
  <2>1. u \in UndoState /\ Defined(u, indices)
        /\ \A i \in Id : Restore(u, indices)[i] # NoVal => i < u.oldNextId
    BY <1>6, NewestSession
  <2> HIDE DEF u, w
  <2>2. /\ w \in UndoState
        /\ w.oldNextId = u.oldNextId /\ w.revision = u.revision
        /\ Defined(w, indices') /\ Restore(w, indices') = Restore(u, indices)
    BY <1>1, <1>2, <2>0, <2>1, OnRemoveFaithful
  <2>3. stack' = [stack EXCEPT ![Len(stack)] = w] /\ UNCHANGED <<revision, unwinding, snaps>>
    BY <1>6 DEF u, w, Remove, Record, Enabled
  <2> QED BY <1>1, <1>2, <1>3, <1>4, <1>6, <2>2, <2>3, ChangeStep DEF u
<1> QED BY <1>5, <1>6

\* start_undo_session keeps the invariant: the new, empty undo state restores
\* to what the index holds.
LEMMA StartStep ==
    ASSUME Inv, StartUndoSession
    PROVE  Inv'
<1> DEFINE n == Len(stack)
           u == [oldValues |-> EmptyTable, removedValues |-> EmptyTable, newIds |-> {},
                 oldNextId |-> nextId, revision |-> revision + 1]
           c == [contents |-> indices, nextId |-> nextId, revision |-> revision + 1]
<1>1. /\ n \in Nat /\ Len(snaps) = n /\ stack \in Seq(UndoState) /\ snaps \in Seq(Snapshot)
      /\ indices \in Table /\ nextId \in Nat /\ revision \in Int
  BY DEF Inv, TypeOK, Stacked
<1>2. u \in UndoState /\ c \in Snapshot
  BY <1>1 DEF UndoState, Snapshot, EmptyTable, Table
<1>3. /\ stack' = Append(stack, u) /\ snaps' = Append(snaps, c)
      /\ revision' = revision + 1 /\ UNCHANGED <<indices, nextId, unwinding>>
  BY DEF StartUndoSession
<1>4. /\ u.oldNextId = nextId /\ u.revision = revision + 1
      /\ c.contents = indices /\ c.nextId = nextId /\ c.revision = revision + 1
      /\ Defined(u, indices) /\ Restore(u, indices) = indices
  <2>1. Defined(u, indices)
    BY DEF Defined, EmptyTable
  <2>2. \A i \in Id : Restore(u, indices)[i] = indices[i]
    BY <1>1, <1>2, RestoreAt DEF EmptyTable
  <2>3. Restore(u, indices) \in Table
    BY <1>1, <1>2, RestoreType
  <2> QED BY <1>1, <2>1, <2>2, <2>3, TableExtensional
<1> HIDE DEF u, c
<1>5. /\ Len(stack') = n + 1 /\ Len(snaps') = n + 1
      /\ stack'[n + 1] = u /\ snaps'[n + 1] = c
      /\ \A k \in 1 .. n : stack'[k] = stack[k] /\ snaps'[k] = snaps[k]
      /\ stack' \in Seq(UndoState) /\ snaps' \in Seq(Snapshot)
  BY <1>1, <1>2, <1>3
<1>6. \A k \in 1 .. n + 1 : k \in 1 .. n \/ k = n + 1
  BY <1>1
<1>7. /\ \A k \in 1 .. n : ContentsAfter(k)' = ContentsAfter(k) /\ NextIdAfter(k)' = NextIdAfter(k)
      /\ \A k \in {n + 1} : ContentsAfter(k)' = indices /\ NextIdAfter(k)' = nextId
  <2>1. \A k \in {n + 1} : ContentsAfter(k)' = indices /\ NextIdAfter(k)' = nextId
    BY <1>1, <1>3, <1>5 DEF ContentsAfter, NextIdAfter
  <2>2. ASSUME NEW k \in 1 .. n
        PROVE  ContentsAfter(k)' = ContentsAfter(k) /\ NextIdAfter(k)' = NextIdAfter(k)
    <3>1. k # n + 1 /\ (k = n \/ k + 1 \in 1 .. n)
      BY <1>1
    <3> QED BY <1>1, <1>4, <1>5, <3>1 DEF ContentsAfter, NextIdAfter
  <2> QED BY <2>1, <2>2
<1>8. TypeOK'
  BY <1>1, <1>3, <1>5 DEF Inv, TypeOK, Stacked
<1>9. SnapshotsRestorable'
  <2> SUFFICES ASSUME NEW k \in 1 .. n + 1
               PROVE  /\ Restore(stack'[k], ContentsAfter(k)') = snaps'[k].contents
                      /\ stack'[k].oldNextId = snaps'[k].nextId
                      /\ stack'[k].revision = snaps'[k].revision
    BY <1>5 DEF SnapshotsRestorable
  <2>1. CASE k \in 1 .. n
    BY <1>5, <1>7, <2>1 DEF Inv, SnapshotsRestorable
  <2>2. CASE k = n + 1
    BY <1>4, <1>5, <1>7, <2>2
  <2> QED BY <1>6, <2>1, <2>2
<1>10. UndoIsDefined'
  <2> SUFFICES ASSUME NEW k \in 1 .. n + 1
               PROVE  Defined(stack'[k], ContentsAfter(k)')
    BY <1>5 DEF UndoIsDefined
  <2>1. CASE k \in 1 .. n
    BY <1>5, <1>7, <2>1 DEF Inv, UndoIsDefined
  <2>2. CASE k = n + 1
    BY <1>4, <1>5, <1>7, <2>2
  <2> QED BY <1>6, <2>1, <2>2
<1>11. IdsBelowNext'
  <2> SUFFICES ASSUME NEW k \in 1 .. n + 1
               PROVE  /\ \A i \in Id : snaps'[k].contents[i] # NoVal => i < snaps'[k].nextId
                      /\ snaps'[k].nextId <= NextIdAfter(k)'
    BY <1>3, <1>5 DEF Inv, IdsBelowNext
  <2>1. CASE k \in 1 .. n
    BY <1>5, <1>7, <2>1 DEF Inv, IdsBelowNext
  <2>2. CASE k = n + 1
    BY <1>1, <1>4, <1>5, <1>7, <2>2 DEF Inv, IdsBelowNext
  <2> QED BY <1>6, <2>1, <2>2
<1>12. KeysStayUnique'
  <2> SUFFICES ASSUME NEW k \in 1 .. n + 1
               PROVE  KeysUnique(snaps'[k].contents)
    BY <1>3, <1>5 DEF Inv, KeysStayUnique
  <2> QED BY <1>4, <1>5, <1>6 DEF Inv, KeysStayUnique
<1>13. RevisionsContiguous'
  <2> SUFFICES ASSUME NEW k \in 1 .. n + 1
               PROVE  stack'[k].revision = revision + 1 - (n + 1 - k)
    BY <1>1, <1>3, <1>5 DEF RevisionsContiguous
  <2>1. CASE k \in 1 .. n
    BY <1>1, <1>5, <2>1 DEF Inv, RevisionsContiguous
  <2>2. CASE k = n + 1
    BY <1>1, <1>4, <1>5, <2>2
  <2> QED BY <1>6, <2>1, <2>2
<1> QED BY <1>8, <1>9, <1>10, <1>11, <1>12, <1>13 DEF Inv

\* undo keeps the invariant: what is below the newest session is untouched.
LEMMA PopStep ==
    ASSUME Inv, stack # << >>, PopUndoState, unwinding' \in BOOLEAN
    PROVE  Inv'
<1> DEFINE n == Len(stack)
<1>1. /\ n \in Nat \ {0} /\ Len(snaps) = n /\ stack \in Seq(UndoState) /\ snaps \in Seq(Snapshot)
      /\ snaps[n] \in Snapshot /\ revision \in Int /\ n \in 1 .. n
  BY NewestSession DEF Inv, TypeOK
<1>2. indices' = snaps[n].contents /\ nextId' = snaps[n].nextId /\ revision' = revision - 1
  BY NewestSession DEF PopUndoState
<1>3. /\ Len(stack') = n - 1 /\ Len(snaps') = n - 1
      /\ \A k \in 1 .. n - 1 : stack'[k] = stack[k] /\ snaps'[k] = snaps[k] /\ k \in 1 .. n
      /\ stack' \in Seq(UndoState) /\ snaps' \in Seq(Snapshot)
  BY <1>1 DEF PopUndoState, Front
<1>4. \A k \in 1 .. n - 1 : ContentsAfter(k)' = ContentsAfter(k) /\ NextIdAfter(k)' = NextIdAfter(k)
  <2> SUFFICES ASSUME NEW k \in 1 .. n - 1
               PROVE  ContentsAfter(k)' = ContentsAfter(k) /\ NextIdAfter(k)' = NextIdAfter(k)
    OBVIOUS
  <2>1. k # n /\ (k = n - 1 \/ (k # n - 1 /\ k + 1 \in 1 .. n - 1))
    BY <1>1
  <2>2. ContentsAfter(k) = snaps[k + 1].contents /\ NextIdAfter(k) = snaps[k + 1].nextId
    BY <2>1 DEF ContentsAfter, NextIdAfter
  <2>3. CASE k = n - 1
    BY <1>1, <1>2, <1>3, <2>2, <2>3 DEF ContentsAfter, NextIdAfter
  <2>4. CASE k # n - 1
    BY <1>1, <1>3, <2>1, <2>2, <2>4 DEF ContentsAfter, NextIdAfter
  <2> QED BY <2>3, <2>4
<1>5. TypeOK'
  BY <1>1, <1>2, <1>3 DEF TypeOK, Stacked, Snapshot
<1>6. SnapshotsRestorable' /\ UndoIsDefined'
  BY <1>3, <1>4 DEF Inv, SnapshotsRestorable, UndoIsDefined
<1>7. IdsBelowNext'
  BY <1>1, <1>2, <1>3, <1>4 DEF Inv, IdsBelowNext
<1>8. KeysStayUnique'
  BY <1>1, <1>2, <1>3 DEF Inv, KeysStayUnique
<1>9. RevisionsContiguous'
  BY <1>1, <1>2, <1>3 DEF Inv, RevisionsContiguous
<1> QED BY <1>5, <1>6, <1>7, <1>8, <1>9 DEF Inv

\* squash keeps the invariant: the merged undo state restores to what the
\* lower of the two did.
LEMMA SquashStep ==
    ASSUME Inv, Squash
    PROVE  Inv'
<1> DEFINE n == Len(stack)
<1>1. /\ stack # << >> /\ n \in Nat \ {0} /\ Len(snaps) = n
      /\ stack \in Seq(UndoState) /\ snaps \in Seq(Snapshot) /\ revision \in Int
      /\ UNCHANGED <<indices, nextId, unwinding>>
      /\ Back(stack) = stack[n] /\ stack[n] \in UndoState
  BY NewestSession DEF Inv, TypeOK, Squash, Enabled
<1>2. /\ Len(snaps') = n - 1 /\ snaps' \in Seq(Snapshot)
      /\ \A k \in 1 .. n - 1 : snaps'[k] = snaps[k] /\ k \in 1 .. n
  BY <1>1 DEF Squash, Front
<1>3. CASE n = 1
  <2>1. stack' = << >> /\ Len(stack') = 0 /\ revision' = revision
    BY <1>3 DEF Squash
  <2>2. \A k \in 1 .. Len(stack') : FALSE
    BY <2>1
  <2>3. TypeOK'
    BY <1>1, <1>2, <1>3, <2>1 DEF Inv, TypeOK, Stacked
  <2> QED BY <1>1, <2>2, <2>3 DEF Inv, SnapshotsRestorable, UndoIsDefined, IdsBelowNext,
                                  KeysStayUnique, RevisionsContiguous
<1>4. CASE n > 1
  <2> DEFINE a == stack[n - 1]
             b == stack[n]
             m == Merge(a, b)
             r == Restore(b, indices)
  <2>1. n - 1 \in 1 .. n /\ n \in 1 .. n /\ a \in UndoState /\ b \in UndoState
        /\ indices \in Table /\ snaps[n] \in Snapshot /\ snaps[n - 1] \in Snapshot
    BY <1>1, <1>4 DEF Inv, TypeOK
  <2>2. /\ r = snaps[n].contents /\ Defined(b, indices) /\ b.oldNextId = snaps[n].nextId
        /\ \A i \in Id : r[i] # NoVal => i < b.oldNextId
    BY <1>1, NewestSession
  <2>3. ContentsAfter(n - 1) = snaps[n].contents /\ NextIdAfter(n - 1) = snaps[n].nextId
    BY <1>1, <1>4 DEF ContentsAfter, NextIdAfter
  <2>4. /\ Restore(a, r) = snaps[n - 1].contents
        /\ a.oldNextId = snaps[n - 1].nextId
        /\ a.revision = snaps[n - 1].revision
        /\ Defined(a, r)
        /\ a.oldNextId <= b.oldNextId
        /\ \A i \in Id : Restore(a, r)[i] # NoVal => i < a.oldNextId
    BY <2>1, <2>2, <2>3 DEF Inv, SnapshotsRestorable, UndoIsDefined, IdsBelowNext
  <2>5. /\ m \in UndoState /\ m.oldNextId = a.oldNextId /\ m.revision = a.revision
        /\ Defined(m, indices) /\ Restore(m, indices) = snaps[n - 1].contents
    BY <2>1, <2>2, <2>4, MergeFaithful
  <2> HIDE DEF m
  <2>6. stack' = Append(SubSeq(stack, 1, n - 2), m) /\ revision' = revision - 1
    BY <1>1, <1>4 DEF Squash, m
  <2>7. /\ Len(stack') = n - 1 /\ stack' \in Seq(UndoState) /\ stack'[n - 1] = m
        /\ \A k \in 1 .. n - 2 : stack'[k] = stack[k] /\ k \in 1 .. n - 1 /\ k + 1 \in 1 .. n - 1
    <3>1. /\ SubSeq(stack, 1, n - 2) \in Seq(UndoState)
          /\ Len(SubSeq(stack, 1, n - 2)) = n - 2
          /\ \A k \in 1 .. n - 2 : SubSeq(stack, 1, n - 2)[k] = stack[k]
      BY <1>1, <1>4
    <3> QED BY <1>1, <1>4, <2>5, <2>6, <3>1
  <2>8. \A k \in 1 .. n - 1 : k = n - 1 \/ k \in 1 .. n - 2
    BY <1>1
  <2>9. /\ \A k \in 1 .. n - 2 : ContentsAfter(k)' = ContentsAfter(k) /\ NextIdAfter(k)' = NextIdAfter(k)
        /\ \A k \in {n - 1} : ContentsAfter(k)' = indices /\ NextIdAfter(k)' = nextId
    <3>1. \A k \in 1 .. n - 2 : k # n /\ k # n - 1
      BY <1>1
    <3> QED BY <1>1, <1>2, <2>7, <3>1 DEF ContentsAfter, NextIdAfter
  <2>10. TypeOK'
    BY <1>1, <1>2, <2>6, <2>7 DEF Inv, TypeOK, Stacked
  <2>11. SnapshotsRestorable'
    <3> SUFFICES ASSUME NEW k \in 1 .. n - 1
                 PROVE  /\ Restore(stack'[k], ContentsAfter(k)') = snaps'[k].contents
                        /\ stack'[k].oldNextId = snaps'[k].nextId
                        /\ stack'[k].revision = snaps'[k].revision
      BY <2>7 DEF SnapshotsRestorable
    <3>1. CASE k \in 1 .. n - 2
      BY <1>2, <2>7, <2>9, <3>1 DEF Inv, SnapshotsRestorable
    <3>2. CASE k = n - 1
      BY <1>2, <2>4, <2>5, <2>7, <2>9, <3>2
    <3> QED BY <2>8, <3>1, <3>2
  <2>12. UndoIsDefined'
    <3> SUFFICES ASSUME NEW k \in 1 .. n - 1
                 PROVE  Defined(stack'[k], ContentsAfter(k)')
      BY <2>7 DEF UndoIsDefined
    <3>1. CASE k \in 1 .. n - 2
      BY <1>2, <2>7, <2>9, <3>1 DEF Inv, UndoIsDefined
    <3>2. CASE k = n - 1
      BY <2>5, <2>7, <2>9, <3>2
    <3> QED BY <2>8, <3>1, <3>2
  <2>13. IdsBelowNext'
    <3> SUFFICES ASSUME NEW k \in 1 .. n - 1
                 PROVE  snaps'[k].nextId <= NextIdAfter(k)'
      BY <1>1, <1>2, <2>7 DEF Inv, IdsBelowNext
    <3>1. CASE k \in 1 .. n - 2
      BY <1>2, <2>9, <3>1 DEF Inv, IdsBelowNext
    <3>2. CASE k = n - 1
      <4>1. snaps[n].nextId <= nextId
        BY <2>1 DEF Inv, IdsBelowNext, NextIdAfter
      <4>2. snaps[n - 1].nextId <= snaps[n].nextId
        BY <2>2, <2>4
      <4>3. snaps[n].nextId \in Nat /\ snaps[n - 1].nextId \in Nat /\ nextId \in Nat
        BY <2>1 DEF Snapshot, Inv, TypeOK
      <4>4. snaps'[k].nextId = snaps[n - 1].nextId /\ NextIdAfter(k)' = nextId
        BY <1>2, <2>9, <3>2
      <4> QED BY <4>1, <4>2, <4>3, <4>4
    <3> QED BY <2>8, <3>1, <3>2
  <2>14. KeysStayUnique'
    BY <1>1, <1>2, <2>7 DEF Inv, KeysStayUnique
  <2>15. RevisionsContiguous'
    <3> SUFFICES ASSUME NEW k \in 1 .. n - 1
                 PROVE  stack'[k].revision = revision - 1 - (n - 1 - k)
      BY <1>1, <2>6, <2>7 DEF RevisionsContiguous
    <3>1. stack'[k].revision = stack[k].revision
      BY <2>5, <2>7, <2>8
    <3> QED BY <1>1, <1>2, <3>1 DEF Inv, RevisionsContiguous
  <2> QED BY <2>10, <2>11, <2>12, <2>13, <2>14, <2>15 DEF Inv
<1> QED BY <1>1, <1>3, <1>4

\* commit keeps the invariant: it drops the oldest sessions with their snapshots.
LEMMA CommitStep ==
    ASSUME Inv, NEW r \in Revision, Commit(r)
    PROVE  Inv'
<1> DEFINE n == Len(stack)
<1>1. PICK j \in 0 .. n : /\ stack' = SubSeq(stack, j + 1, n)
                          /\ snaps' = SubSeq(snaps, j + 1, n)
  BY DEF Commit
<1>2. /\ n \in Nat /\ Len(snaps) = n /\ stack \in Seq(UndoState) /\ snaps \in Seq(Snapshot)
      /\ revision \in Int /\ UNCHANGED <<indices, nextId, revision, unwinding>>
  BY DEF Inv, TypeOK, Stacked, Commit
<1>3. /\ Len(stack') = n - j /\ Len(snaps') = n - j
      /\ \A k \in 1 .. n - j : stack'[k] = stack[j + k] /\ snaps'[k] = snaps[j + k]
      /\ stack' \in Seq(UndoState) /\ snaps' \in Seq(Snapshot)
  BY <1>1, <1>2
<1>4. \A k \in 1 .. n - j : j + k \in 1 .. n
  BY <1>2
<1>5. \A k \in 1 .. n - j : /\ ContentsAfter(k)' = ContentsAfter(j + k)
                            /\ NextIdAfter(k)' = NextIdAfter(j + k)
  <2> SUFFICES ASSUME NEW k \in 1 .. n - j
               PROVE  /\ ContentsAfter(k)' = ContentsAfter(j + k)
                      /\ NextIdAfter(k)' = NextIdAfter(j + k)
    OBVIOUS
  <2>1. (k = n - j) <=> (j + k = n)
    BY <1>2
  <2>2. CASE k = n - j
    BY <1>2, <1>3, <2>1, <2>2 DEF ContentsAfter, NextIdAfter
  <2>3. CASE k # n - j
    <3>1. k + 1 \in 1 .. n - j /\ j + (k + 1) = (j + k) + 1
      BY <1>2, <2>3
    <3>2. snaps'[k + 1] = snaps[(j + k) + 1]
      BY <1>3, <3>1
    <3> QED BY <1>2, <1>3, <2>1, <2>3, <3>2 DEF ContentsAfter, NextIdAfter
  <2> QED BY <2>2, <2>3
<1>6. TypeOK'
  BY <1>2, <1>3 DEF Inv, TypeOK, Stacked
<1>7. SnapshotsRestorable' /\ UndoIsDefined'
  <2> SUFFICES ASSUME NEW k \in 1 .. n - j
               PROVE  /\ Restore(stack'[k], ContentsAfter(k)') = snaps'[k].contents
                      /\ stack'[k].oldNextId = snaps'[k].nextId
                      /\ stack'[k].revision = snaps'[k].revision
                      /\ Defined(stack'[k], ContentsAfter(k)')
    BY <1>3 DEF SnapshotsRestorable, UndoIsDefined
  <2>1. /\ Restore(stack[j + k], ContentsAfter(j + k)) = snaps[j + k].contents
        /\ stack[j + k].oldNextId = snaps[j + k].nextId
        /\ stack[j + k].revision = snaps[j + k].revision
        /\ Defined(stack[j + k], ContentsAfter(j + k))
    BY <1>4 DEF Inv, SnapshotsRestorable, UndoIsDefined
  <2> QED BY <1>3, <1>5, <2>1
<1>8. IdsBelowNext'
  <2> SUFFICES ASSUME NEW k \in 1 .. n - j
               PROVE  /\ \A i \in Id : snaps[j + k].contents[i] # NoVal => i < snaps[j + k].nextId
                      /\ snaps[j + k].nextId <= NextIdAfter(j + k)
    BY <1>2, <1>3, <1>5 DEF Inv, IdsBelowNext
  <2> QED BY <1>4 DEF Inv, IdsBelowNext
<1>9. KeysStayUnique'
  BY <1>2, <1>3, <1>4 DEF Inv, KeysStayUnique
<1>10. RevisionsContiguous'
  <2> SUFFICES ASSUME NEW k \in 1 .. n - j
               PROVE  stack[j + k].revision = revision - ((n - j) - k)
    BY <1>2, <1>3 DEF RevisionsContiguous
  <2> QED BY <1>2, <1>4 DEF Inv, RevisionsContiguous
<1> QED BY <1>6, <1>7, <1>8, <1>9, <1>10 DEF Inv

\* Steps that move neither the contents nor the sessions.
LEMMA IdleStep ==
    ASSUME Inv, UNCHANGED <<indices, nextId, stack, snaps>>, unwinding' \in BOOLEAN,
           revision' = revision \/ (stack = << >> /\ revision' \in Int)
    PROVE  Inv'
<1>1. \A k \in 1 .. Len(stack) : ContentsAfter(k)' = ContentsAfter(k) /\ NextIdAfter(k)' = NextIdAfter(k)
  BY DEF ContentsAfter, NextIdAfter
<1>2. TypeOK' /\ KeysStayUnique'
  BY DEF Inv, TypeOK, Stacked, KeysStayUnique
<1>3. SnapshotsRestorable' /\ UndoIsDefined' /\ IdsBelowNext'
  BY <1>1 DEF Inv, SnapshotsRestorable, UndoIsDefined, IdsBelowNext
<1>4. RevisionsContiguous'
  <2>1. stack = << >> => \A k \in 1 .. Len(stack) : FALSE
    OBVIOUS
  <2> QED BY <2>1 DEF Inv, RevisionsContiguous
<1> QED BY <1>2, <1>3, <1>4 DEF Inv

\* The empty index has the invariant.
LEMMA InitInv == Init => Inv
<1> SUFFICES ASSUME Init PROVE Inv
  OBVIOUS
<1>1. Len(stack) = 0 /\ \A k \in 1 .. Len(stack) : FALSE
  BY DEF Init
<1>2. TypeOK
  <2>1. indices \in Table
    BY DEF Init, EmptyTable, Table
  <2>2. nextId \in Nat /\ revision \in Int
    BY DEF Init
  <2>4. unwinding \in BOOLEAN
    BY Zenon DEF Init
  <2>3. stack \in Seq(UndoState) /\ snaps \in Seq(Snapshot) /\ Len(snaps) = Len(stack)
    BY DEF Init
  <2> QED BY <2>1, <2>2, <2>3, <2>4 DEF TypeOK, Stacked
<1>3. KeysUnique(indices) /\ \A i \in Id : indices[i] = NoVal
  BY DEF Init, EmptyTable, KeysUnique
<1> QED BY <1>1, <1>2, <1>3 DEF Inv, SnapshotsRestorable, UndoIsDefined, IdsBelowNext,
                                KeysStayUnique, RevisionsContiguous

\* Every operation of the index keeps the invariant.
LEMMA NextInv == Inv /\ [Next]_vars => Inv'
<1> SUFFICES ASSUME Inv, [Next]_vars PROVE Inv'
  OBVIOUS
<1>0. unwinding \in BOOLEAN /\ revision \in Int
  BY DEF Inv, TypeOK
<1>1. ASSUME NEW v \in Value, Emplace(v) PROVE Inv'
  BY <1>1, EmplaceStep
<1>2. ASSUME NEW i \in Id, NEW d \in Data, Modify(i, d) PROVE Inv'
  BY <1>2, ModifyStep
<1>3. ASSUME NEW i \in Id, Remove(i) PROVE Inv'
  BY <1>3, RemoveStep
<1>4. CASE StartUndoSession
  BY <1>4, StartStep
<1>5. CASE Undo
  BY <1>0, <1>5, PopStep DEF Undo, Enabled
<1>6. CASE UndoAll
  BY <1>6, IdleStep DEF UndoAll
<1>7. CASE UndoAllStep
  BY <1>0, <1>7, PopStep DEF UndoAllStep, Enabled
<1>8. CASE UndoAllDone
  BY <1>8, IdleStep DEF UndoAllDone
<1>9. CASE Squash
  BY <1>9, SquashStep
<1>10. ASSUME NEW r \in Revision, Commit(r) PROVE Inv'
  BY <1>10, CommitStep
<1>11. ASSUME NEW r \in Revision, SetRevision(r) PROVE Inv'
  <2>1. r \in Int
    BY BoundsAssumption DEF Revision
  <2> QED BY <1>0, <1>11, <2>1, IdleStep DEF SetRevision
<1>12. CASE UNCHANGED vars
  BY <1>0, <1>12, IdleStep DEF vars
<1> QED BY <1>1, <1>2, <1>3, <1>4, <1>5, <1>6, <1>7, <1>8, <1>9, <1>10, <1>11, <1>12 DEF Next

-----------------------------------------------------------------------------
\* The inductive invariant holds in every reachable state.
LEMMA Invariance == Spec => []Inv
BY InitInv, NextInv, PTL DEF Spec

\* The index and its undo stack keep their types.
THEOREM TypeCorrect == Spec => []TypeOK
<1>1. Inv => TypeOK
  BY DEF Inv
<1> QED BY Invariance, <1>1, PTL

\* generic_index::undo, at any depth, gives back exactly the objects and the
\* next id that start_undo_session saw.
THEOREM UndoRestores == Spec => []SnapshotsRestorable
<1>1. Inv => SnapshotsRestorable
  BY DEF Inv
<1> QED BY Invariance, <1>1, PTL

\* No undo dereferences a missing object or finds a key taken.
THEOREM UndoNeverFails == Spec => [](UndoIsDefined /\ KeysStayUnique)
<1>1. Inv => UndoIsDefined /\ KeysStayUnique
  BY DEF Inv
<1> QED BY Invariance, <1>1, PTL

\* Object ids are never given out twice within the life of a session.
THEOREM IdsNeverReused == Spec => []IdsBelowNext
<1>1. Inv => IdsBelowNext
  BY DEF Inv
<1> QED BY Invariance, <1>1, PTL

\* Open sessions are numbered without gaps up to the current revision.
THEOREM RevisionsNumbered == Spec => []RevisionsContiguous
<1>1. Inv => RevisionsContiguous
  BY DEF Inv
<1> QED BY Invariance, <1>1, PTL

\* The N/A entries of the merge table of squash() never occur.
LEMMA CausalFromInv == Inv => SquashCasesCausal
<1> SUFFICES ASSUME Inv, NEW k \in 1 .. Len(stack) - 1, NEW i \in Id,
                    NEW a, a = stack[k], NEW b, b = stack[k + 1]
             PROVE  /\ a.removedValues[i] # NoVal =>
                          i \notin b.newIds /\ b.oldValues[i] = NoVal /\ b.removedValues[i] = NoVal
                    /\ i \in b.newIds => i \notin a.newIds /\ a.oldValues[i] = NoVal
  BY DEF SquashCasesCausal
<1>1. /\ Len(stack) \in Nat /\ k \in 1 .. Len(stack) /\ k + 1 \in 1 .. Len(stack)
      /\ k # Len(stack) /\ stack \in Seq(UndoState) /\ snaps \in Seq(Snapshot)
      /\ Len(snaps) = Len(stack)
  BY DEF Inv, TypeOK, Stacked
<1>2. a \in UndoState /\ b \in UndoState /\ i \in Nat /\ b.oldNextId \in Nat /\ a.oldNextId \in Nat
      /\ snaps[k + 1] \in Snapshot
  <2>1. a \in UndoState /\ b \in UndoState /\ snaps[k + 1] \in Snapshot
    BY <1>1
  <2> QED BY <2>1 DEF UndoState, Id
<1> DEFINE r == snaps[k + 1].contents
           t == ContentsAfter(k + 1)
<1>3. t \in Table
  <2>1. CASE k + 1 = Len(stack)
    BY <2>1 DEF ContentsAfter, Inv, TypeOK
  <2>2. CASE k + 1 # Len(stack)
    <3>1. k + 2 \in 1 .. Len(snaps) /\ (k + 1) + 1 = k + 2
      BY <1>1, <2>2
    <3>2. snaps[k + 2] \in Snapshot
      BY <1>1, <3>1
    <3>3. snaps[k + 2].contents \in Table
      BY <3>2 DEF Snapshot
    <3> QED BY <2>2, <3>1, <3>3 DEF ContentsAfter
  <2> QED BY <2>1, <2>2
<1>4. Defined(a, r) /\ a.oldNextId <= b.oldNextId
  <2>1. ContentsAfter(k) = r /\ NextIdAfter(k) = snaps[k + 1].nextId
    BY <1>1 DEF ContentsAfter, NextIdAfter
  <2> QED BY <1>1, <2>1 DEF Inv, UndoIsDefined, IdsBelowNext, SnapshotsRestorable
<1>5. Defined(b, t) /\ Restore(b, t) = r /\ (r[i] # NoVal => i < b.oldNextId)
  BY <1>1 DEF Inv, UndoIsDefined, IdsBelowNext, SnapshotsRestorable
<1> HIDE DEF r, t
<1>6. r[i] = IF b.removedValues[i] # NoVal THEN b.removedValues[i]
             ELSE IF i \in b.newIds THEN NoVal
             ELSE IF b.oldValues[i] # NoVal THEN b.oldValues[i]
             ELSE t[i]
  BY <1>2, <1>3, <1>5, RestoreAt
<1> QED BY <1>2, <1>4, <1>5, <1>6 DEF Defined

\* squash() never meets a case its merge table calls N/A.
THEOREM SquashIsCausal == Spec => []SquashCasesCausal
BY Invariance, CausalFromInv, PTL

-----------------------------------------------------------------------------
(* The refinement: every step of the index is a step of the snapshot stack *)
(* or leaves it alone.                                                     *)

\* Taking back the newest undo state is the abstract undo.
LEMMA PopRefines ==
    ASSUME Inv, stack # << >>, PopUndoState
    PROVE  History!Undo
<1>1. Len(stack) \in Nat \ {0} /\ Len(snaps) = Len(stack) /\ snaps # << >>
  BY NewestSession DEF Inv, TypeOK
<1>2. indices' = snaps[Len(snaps)].contents /\ nextId' = snaps[Len(snaps)].nextId
  BY <1>1, NewestSession DEF PopUndoState
<1> QED BY <1>1, <1>2 DEF History!Undo, History!Top, History!Front, PopUndoState, Front

\* The prefix commit() pops is exactly the set of sessions numbered r or below.
LEMMA CommitRefines ==
    ASSUME Inv, NEW r \in Revision, Commit(r)
    PROVE  History!Commit(r)
<1>1. PICK k \in 0 .. Len(stack) :
          /\ \A i \in 1 .. k : stack[i].revision <= r
          /\ k < Len(stack) => stack[k + 1].revision > r
          /\ snaps' = SubSeq(snaps, k + 1, Len(stack))
  BY DEF Commit
<1>2. /\ Len(stack) \in Nat /\ Len(snaps) = Len(stack) /\ revision \in Int /\ r \in Int
      /\ \A i \in 1 .. Len(stack) : stack[i].revision = revision - (Len(stack) - i)
      /\ \A i \in 1 .. Len(stack) : snaps[i].revision = stack[i].revision
  <2>1. Len(stack) \in Nat /\ Len(snaps) = Len(stack) /\ revision \in Int
    BY DEF Inv, TypeOK, Stacked
  <2>2. r \in Int
    BY BoundsAssumption DEF Revision
  <2>3. \A i \in 1 .. Len(stack) : stack[i].revision = revision - (Len(stack) - i)
    BY DEF Inv, RevisionsContiguous
  <2>4. \A i \in 1 .. Len(stack) : snaps[i].revision = stack[i].revision
    BY DEF Inv, SnapshotsRestorable
  <2> QED BY <2>1, <2>2, <2>3, <2>4
<1>3. ASSUME NEW i \in 1 .. k PROVE snaps[i].revision <= r
  <2>1. i \in 1 .. Len(stack)
    BY <1>2
  <2>2. snaps[i].revision = stack[i].revision
    BY <1>2, <2>1
  <2> QED BY <1>1, <2>2
<1>4. ASSUME NEW i \in k + 1 .. Len(snaps) PROVE snaps[i].revision > r
  <2>1. k + 1 \in 1 .. Len(stack) /\ i \in 1 .. Len(stack) /\ k + 1 <= i /\ k < Len(stack)
    BY <1>2
  <2>2. stack[k + 1].revision > r
    BY <1>1, <2>1
  <2>3. stack[k + 1].revision = revision - (Len(stack) - (k + 1))
    BY <1>2, <2>1
  <2>4. snaps[i].revision = revision - (Len(stack) - i)
    BY <1>2, <2>1
  <2> QED BY <1>2, <2>1, <2>2, <2>3, <2>4
<1>5. UNCHANGED <<indices, nextId, revision>>
  BY DEF Commit
<1> QED BY <1>1, <1>2, <1>3, <1>4, <1>5 DEF History!Commit

\* Every operation of the index is a step of the stack of snapshots or stutters.
LEMMA StepRefines == Inv /\ [Next]_vars => [History!Next]_(History!vars)
<1> SUFFICES ASSUME Inv, [Next]_vars PROVE [History!Next]_(History!vars)
  OBVIOUS
<1>0. nextId \in Nat /\ Len(stack) \in Nat /\ Len(snaps) = Len(stack)
      /\ (stack = << >> <=> Len(stack) = 0) /\ (snaps = << >> <=> Len(snaps) = 0)
  BY DEF Inv, TypeOK, Stacked
<1>1. ASSUME NEW v \in Value, Emplace(v) PROVE History!Change
  BY <1>0, <1>1 DEF Emplace, History!Change
<1>2. ASSUME NEW i \in Id, NEW d \in Data, Modify(i, d) PROVE History!Change
  BY <1>0, <1>2 DEF Modify, History!Change
<1>3. ASSUME NEW i \in Id, Remove(i) PROVE History!Change
  BY <1>0, <1>3 DEF Remove, History!Change
<1>4. CASE StartUndoSession
  BY <1>4 DEF StartUndoSession, History!Start, History!Next
<1>5. CASE Undo
  BY <1>5, PopRefines DEF Undo, Enabled, History!Next
<1>6. CASE UndoAll
  BY <1>6 DEF UndoAll, History!vars
<1>7. CASE UndoAllStep
  BY <1>7, PopRefines DEF UndoAllStep, Enabled, History!Next
<1>8. CASE UndoAllDone
  BY <1>8 DEF UndoAllDone, History!vars
<1>9. CASE Squash
  <2>1. History!Squash
    BY <1>0, <1>9 DEF Squash, Enabled, Front, History!Squash, History!Front
  <2> QED BY <2>1 DEF History!Next
<1>10. ASSUME NEW r \in Revision, Commit(r) PROVE History!Next
  BY <1>10, CommitRefines DEF History!Next
<1>11. ASSUME NEW r \in Revision, SetRevision(r) PROVE History!SetRevision
  BY <1>0, <1>11 DEF SetRevision, History!SetRevision
<1>12. CASE UNCHANGED vars
  BY <1>12 DEF vars, History!vars
<1> QED BY <1>1, <1>2, <1>3, <1>4, <1>5, <1>6, <1>7, <1>8, <1>9, <1>10, <1>11, <1>12
        DEF Next, History!Next

\* generic_index implements a stack of snapshots.
THEOREM IndexImplementsHistory == Spec => HistorySpec
<1>1. Init => History!Init
  BY DEF Init, History!Init
<1> QED BY Invariance, StepRefines, <1>1, PTL DEF Spec, HistorySpec, History!Spec
=============================================================================
