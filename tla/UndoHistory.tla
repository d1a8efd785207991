---------------------------- MODULE UndoHistory ----------------------------
(***************************************************************************)
(* What a chainbase index promises to the chain that keeps its objects in  *)
(* it: a stack of snapshots.  Opening a session remembers the contents,    *)
(* undo goes back to the last remembered contents, squash forgets the last *)
(* snapshot and keeps the contents, commit forgets the oldest snapshots.   *)
(* Nothing is said about how the snapshots are represented; GenericIndex   *)
(* represents each by the difference to the next one.                      *)
(***************************************************************************)
EXTENDS Integers, Sequences

CONSTANT Revision   \* the revisions commit may be asked for

VARIABLES
    contents,   \* the live objects of the index, a function of their ids
    nextId,     \* the id the next object gets
    revision,   \* the number of the newest session
    snaps       \* [contents, nextId, revision] of every open session, oldest first

vars == <<contents, nextId, revision, snaps>>

Front(s) == SubSeq(s, 1, Len(s) - 1)

Top == snaps[Len(snaps)]

Init == snaps = << >>

\* An object is created, modified or removed: only the contents move.
Change ==
    /\ nextId' >= nextId
    /\ UNCHANGED <<revision, snaps>>

Start ==
    /\ snaps' = Append(snaps, [contents |-> contents, nextId |-> nextId,
                               revision |-> revision + 1])
    /\ revision' = revision + 1
    /\ UNCHANGED <<contents, nextId>>

Undo ==
    /\ snaps # << >>
    /\ contents' = Top.contents
    /\ nextId' = Top.nextId
    /\ snaps' = Front(snaps)
    /\ revision' = revision - 1

Squash ==
    /\ snaps # << >>
    /\ snaps' = Front(snaps)
    /\ revision' = IF Len(snaps) = 1 THEN revision ELSE revision - 1
    /\ UNCHANGED <<contents, nextId>>

\* Exactly the sessions numbered r or below are forgotten.
Commit(r) ==
    /\ \E k \in 0 .. Len(snaps) :
          /\ \A i \in 1 .. k : snaps[i].revision <= r
          /\ \A i \in k + 1 .. Len(snaps) : snaps[i].revision > r
          /\ snaps' = SubSeq(snaps, k + 1, Len(snaps))
    /\ UNCHANGED <<contents, nextId, revision>>

SetRevision ==
    /\ snaps = << >>
    /\ UNCHANGED <<contents, nextId, snaps>>

Next ==
    \/ Change \/ Start \/ Undo \/ Squash \/ SetRevision
    \/ \E r \in Revision : Commit(r)

Spec == Init /\ [][Next]_vars
=============================================================================
