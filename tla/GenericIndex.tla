---------------------------- MODULE GenericIndex ----------------------------
(***************************************************************************)
(* chainbase::generic_index: one table of objects with an id, a unique     *)
(* secondary key and further data, and the stack of undo states that lets  *)
(* the chain take back a block or a transaction.                           *)
(*                                                                         *)
(* An undo state keeps three containers: the old value of each object that *)
(* was modified, the value of each object that was removed, and the ids    *)
(* that were created.  They are total functions on Id with NoVal for "not  *)
(* in the map".  snaps is a history variable no action reads: what the     *)
(* index held when each open session began.                                *)
(*                                                                         *)
(* Objects are modified under their unique key, never across it.  The      *)
(* unique indexes of the chain whose fields do change (votes, balances,    *)
(* dates) are composite keys that end in an id or a name, so a change only *)
(* moves the object in them and cannot collide.                            *)
(***************************************************************************)
EXTENDS Integers, Sequences

CONSTANTS
    Key,            \* values of the unique secondary key
    Data,           \* the rest of an object
    NoVal,          \* no object
    MaxId,          \* bound on object ids
    MaxStack,       \* bound on open sessions
    MaxRevision     \* bound on revision numbers

Id == 0 .. MaxId
Value == [key : Key, data : Data]
Revision == 0 .. MaxRevision

ASSUME BoundsAssumption == MaxId \in Nat /\ MaxStack \in Nat /\ MaxRevision \in Nat
ASSUME NoValAssumption == NoVal \notin Value

VARIABLES
    indices,        \* _indices
    nextId,         \* _next_id
    stack,          \* _stack, oldest session first
    revision,       \* _revision
    unwinding,      \* undo_all() is in its loop
    snaps           \* history: the snapshot each open session started from

vars == <<indices, nextId, stack, revision, unwinding, snaps>>

Table == [Id -> Value \cup {NoVal}]

UndoState == [oldValues : Table, removedValues : Table, newIds : SUBSET Id,
              oldNextId : Nat, revision : Int]

Snapshot == [contents : Table, nextId : Nat, revision : Int]

Front(s) == SubSeq(s, 1, Len(s) - 1)
Enabled == stack # << >>
Back(s) == s[Len(s)]

KeysUnique(t) ==
    \A i, j \in Id : /\ t[i] # NoVal /\ t[j] # NoVal
                     /\ t[i].key = t[j].key
                     => i = j

KeyFree(k) == \A i \in Id : indices[i] # NoVal => indices[i].key # k

-----------------------------------------------------------------------------
(* The bookkeeping of one change in the newest undo state.                 *)

OnCreate(s, i) == [s EXCEPT !.newIds = @ \cup {i}]

\* Mutant: forgets that the session already holds the older value.
OnModifyAlwaysSaves(s, i, v) ==
    IF i \in s.newIds THEN s ELSE [s EXCEPT !.oldValues[i] = v]

OnModify(s, i, v) ==
    IF i \in s.newIds \/ s.oldValues[i] # NoVal
    THEN s
    ELSE [s EXCEPT !.oldValues[i] = v]

\* Mutant: keeps the modified object's old value beside the removed one.
OnRemoveKeepsOldValue(s, i, v) ==
    IF i \in s.newIds
    THEN [s EXCEPT !.newIds = @ \ {i}]
    ELSE [s EXCEPT !.removedValues[i] = v]

OnRemove(s, i, v) ==
    IF i \in s.newIds
    THEN [s EXCEPT !.newIds = @ \ {i}]
    ELSE IF s.oldValues[i] # NoVal
    THEN [s EXCEPT !.removedValues[i] = s.oldValues[i], !.oldValues[i] = NoVal]
    ELSE IF s.removedValues[i] # NoVal
    THEN s
    ELSE [s EXCEPT !.removedValues[i] = v]

\* The three loops of undo(): old values back, new ids erased, removed
\* objects inserted again.
Restore(s, t) ==
    LET modified == [i \in Id |-> IF s.oldValues[i] # NoVal THEN s.oldValues[i] ELSE t[i]]
        erased   == [i \in Id |-> IF i \in s.newIds THEN NoVal ELSE modified[i]]
    IN  [i \in Id |-> IF s.removedValues[i] # NoVal THEN s.removedValues[i] ELSE erased[i]]

\* The merge of the newest undo state b into the one below it, a.
Merge(a, b) ==
    LET upd  == [i \in Id |-> IF /\ b.oldValues[i] # NoVal
                                 /\ i \notin a.newIds
                                 /\ a.oldValues[i] = NoVal
                              THEN b.oldValues[i] ELSE a.oldValues[i]]
        new  == a.newIds \cup b.newIds
        gone == {i \in Id : b.removedValues[i] # NoVal}
    IN  [a EXCEPT
           !.oldValues     = [i \in Id |-> IF i \in gone \ new THEN NoVal ELSE upd[i]],
           !.removedValues = [i \in Id |-> IF i \in gone \ new /\ a.removedValues[i] = NoVal
                                           THEN IF upd[i] # NoVal THEN upd[i]
                                                ELSE b.removedValues[i]
                                           ELSE a.removedValues[i]],
           !.newIds        = new \ gone]

-----------------------------------------------------------------------------
EmptyTable == [i \in Id |-> NoVal]

Init ==
    /\ indices = EmptyTable
    /\ nextId = 0
    /\ stack = << >>
    /\ revision = 0
    /\ unwinding = FALSE
    /\ snaps = << >>

\* on_create, on_modify and on_remove return at once when no session is open.
Record(s) == stack' = IF Enabled THEN [stack EXCEPT ![Len(stack)] = s] ELSE stack

\* emplace(): throws, changing nothing, when the key is taken.
Emplace(v) ==
    /\ ~unwinding
    /\ nextId <= MaxId
    /\ KeyFree(v.key)
    /\ indices' = [indices EXCEPT ![nextId] = v]
    /\ nextId' = nextId + 1
    /\ Record(OnCreate(Back(stack), nextId))
    /\ UNCHANGED <<revision, unwinding, snaps>>

Modify(i, d) ==
    /\ ~unwinding
    /\ indices[i] # NoVal
    /\ Record(OnModify(Back(stack), i, indices[i]))
    /\ indices' = [indices EXCEPT ![i] = [key |-> indices[i].key, data |-> d]]
    /\ UNCHANGED <<nextId, revision, unwinding, snaps>>

Remove(i) ==
    /\ ~unwinding
    /\ indices[i] # NoVal
    /\ Record(OnRemove(Back(stack), i, indices[i]))
    /\ indices' = [indices EXCEPT ![i] = NoVal]
    /\ UNCHANGED <<nextId, revision, unwinding, snaps>>

\* Mutant: a new undo state starts as a copy of the one below it.
StartUndoSessionCopies ==
    /\ ~unwinding
    /\ Len(stack) < MaxStack
    /\ revision < MaxRevision
    /\ stack' = Append(stack, [oldValues |-> EmptyTable, removedValues |-> EmptyTable,
                               newIds |-> IF Enabled THEN Back(stack).newIds ELSE {},
                               oldNextId |-> nextId, revision |-> revision + 1])
    /\ revision' = revision + 1
    /\ snaps' = Append(snaps, [contents |-> indices, nextId |-> nextId,
                               revision |-> revision + 1])
    /\ UNCHANGED <<indices, nextId, unwinding>>

StartUndoSession ==
    /\ ~unwinding
    /\ Len(stack) < MaxStack
    /\ revision < MaxRevision
    /\ stack' = Append(stack, [oldValues |-> EmptyTable, removedValues |-> EmptyTable,
                               newIds |-> {}, oldNextId |-> nextId,
                               revision |-> revision + 1])
    /\ revision' = revision + 1
    /\ snaps' = Append(snaps, [contents |-> indices, nextId |-> nextId,
                               revision |-> revision + 1])
    /\ UNCHANGED <<indices, nextId, unwinding>>

\* Mutant: the next id is not set back.
PopUndoStateKeepsNextId ==
    /\ indices' = Restore(Back(stack), indices)
    /\ stack' = Front(stack)
    /\ revision' = revision - 1
    /\ snaps' = Front(snaps)
    /\ UNCHANGED nextId

PopUndoState ==
    /\ indices' = Restore(Back(stack), indices)
    /\ nextId' = Back(stack).oldNextId
    /\ stack' = Front(stack)
    /\ revision' = revision - 1
    /\ snaps' = Front(snaps)

\* undo(): a no-op on an empty stack.
Undo == ~unwinding /\ Enabled /\ PopUndoState /\ UNCHANGED unwinding

\* undo_all(): while( enabled() ) undo();
UndoAll == ~unwinding /\ unwinding' = TRUE
           /\ UNCHANGED <<indices, nextId, stack, revision, snaps>>

\* Mutant: one undo where the code loops.
UndoAllStepOnce == unwinding /\ Enabled /\ PopUndoState /\ unwinding' = FALSE

UndoAllStep == unwinding /\ Enabled /\ PopUndoState /\ UNCHANGED unwinding

UndoAllDone == unwinding /\ ~Enabled /\ unwinding' = FALSE
               /\ UNCHANGED <<indices, nextId, stack, revision, snaps>>

Squash ==
    /\ ~unwinding
    /\ Enabled
    /\ \/ /\ Len(stack) = 1
          /\ stack' = << >>
          /\ UNCHANGED revision
       \/ /\ Len(stack) > 1
          /\ stack' = Append(SubSeq(stack, 1, Len(stack) - 2),
                             Merge(stack[Len(stack) - 1], Back(stack)))
          /\ revision' = revision - 1
    /\ snaps' = Front(snaps)
    /\ UNCHANGED <<indices, nextId, unwinding>>

\* commit(): pops from the front while the revision there is r or below.
Commit(r) ==
    /\ ~unwinding
    /\ \E k \in 0 .. Len(stack) :
          /\ \A i \in 1 .. k : stack[i].revision <= r
          /\ k < Len(stack) => stack[k + 1].revision > r
          /\ stack' = SubSeq(stack, k + 1, Len(stack))
          /\ snaps' = SubSeq(snaps, k + 1, Len(stack))
    /\ UNCHANGED <<indices, nextId, revision, unwinding>>

SetRevision(r) ==
    /\ ~unwinding
    /\ stack = << >>
    /\ revision' = r
    /\ UNCHANGED <<indices, nextId, stack, unwinding, snaps>>

Next ==
    \/ \E v \in Value : Emplace(v)
    \/ \E i \in Id, d \in Data : Modify(i, d)
    \/ \E i \in Id : Remove(i)
    \/ StartUndoSession
    \/ Undo
    \/ UndoAll \/ UndoAllStep \/ UndoAllDone
    \/ Squash
    \/ \E r \in Revision : Commit(r)
    \/ \E r \in Revision : SetRevision(r)

Spec == Init /\ [][Next]_vars

\* The loop of undo_all() runs under the write lock and is not preempted.
FairSpec == Spec /\ WF_vars(UndoAllStep \/ UndoAllDone)

-----------------------------------------------------------------------------
(* What session k left behind: what session k + 1 started from, and what   *)
(* the index holds now for the newest session.                             *)
ContentsAfter(k) == IF k = Len(stack) THEN indices ELSE snaps[k + 1].contents
NextIdAfter(k) == IF k = Len(stack) THEN nextId ELSE snaps[k + 1].nextId

Stacked == Len(snaps) = Len(stack)

\* The index, its undo states and their snapshots have their types.
TypeOK ==
    /\ indices \in Table
    /\ nextId \in Nat
    /\ stack \in Seq(UndoState)
    /\ revision \in Int
    /\ unwinding \in BOOLEAN
    /\ snaps \in Seq(Snapshot)
    /\ Stacked

\* Undo restores: at every depth of the stack, whatever was created, changed,
\* removed, squashed and committed since, taking back session k gives exactly
\* the objects and the next id the index had when session k was opened.
SnapshotsRestorable ==
    \A k \in 1 .. Len(stack) :
        /\ Restore(stack[k], ContentsAfter(k)) = snaps[k].contents
        /\ stack[k].oldNextId = snaps[k].nextId
        /\ stack[k].revision = snaps[k].revision

\* What the loops of undo() need of undo state u when the index holds t: they
\* dereference find(id) without looking at it, and throw when an object
\* cannot go back.
Defined(u, t) ==
    \A i \in Id :
        /\ u.oldValues[i] # NoVal =>
              /\ t[i] # NoVal
              /\ t[i].key = u.oldValues[i].key
              /\ i \notin u.newIds
              /\ i < u.oldNextId
        /\ i \in u.newIds => t[i] # NoVal /\ i >= u.oldNextId
        /\ u.removedValues[i] # NoVal => t[i] = NoVal /\ i < u.oldNextId

\* No undo meets an object it does not expect: every id it looks up is there,
\* under the key its old value has, every id it erases is there and is one
\* the session gave out, and no id it inserts is taken.
UndoIsDefined ==
    \A k \in 1 .. Len(stack) : Defined(stack[k], ContentsAfter(k))

\* The cases the merge table of squash() marks N/A cannot occur between any
\* two neighbouring undo states: nothing happens to an id after its removal
\* and nothing existed before its creation.
SquashCasesCausal ==
    \A k \in 1 .. Len(stack) - 1, i \in Id :
        LET a == stack[k]
            b == stack[k + 1]
        IN  /\ a.removedValues[i] # NoVal =>
                  /\ i \notin b.newIds
                  /\ b.oldValues[i] = NoVal
                  /\ b.removedValues[i] = NoVal
            /\ i \in b.newIds => i \notin a.newIds /\ a.oldValues[i] = NoVal

\* Ids are given out once: every object, in the index and in every snapshot,
\* has an id below the next id of its time, and the next id never went back
\* past a snapshot.
IdsBelowNext ==
    /\ \A i \in Id : indices[i] # NoVal => i < nextId
    /\ \A k \in 1 .. Len(stack) :
          /\ \A i \in Id : snaps[k].contents[i] # NoVal => i < snaps[k].nextId
          /\ snaps[k].nextId <= NextIdAfter(k)

\* The unique secondary key holds in the index and in every state an undo can
\* bring back, so no undo can throw "Could not restore object".
KeysStayUnique ==
    /\ KeysUnique(indices)
    /\ \A k \in 1 .. Len(stack) : KeysUnique(snaps[k].contents)

\* The open sessions are numbered without gaps up to _revision, which is what
\* commit( last_irreversible_block_num ) relies on to drop whole blocks.
RevisionsContiguous ==
    \A k \in 1 .. Len(stack) : stack[k].revision = revision - (Len(stack) - k)

\* The index implements a stack of snapshots.
History == INSTANCE UndoHistory WITH contents <- indices
HistorySpec == History!Spec

\* undo_all() ends, and with no session open.
UndoAllEnds == unwinding ~> (~unwinding /\ stack = << >>)
=============================================================================
