------------------------------ MODULE MCUpdater ------------------------------
(***************************************************************************)
(* One updater watching one row.  Writers create, rewrite and delete the   *)
(* row in etcd; every write is an etcd event that the updater turns into a *)
(* RowUpdate (prepareRowUpdate), and the client applies that RowUpdate to  *)
(* its replica of the row with the OVSDB client rules (RFC 7047 "update",  *)
(* ovsdb-server(7) "update2").  The client may also (re)load the row from  *)
(* the initial snapshot of its monitor request (prepareCreateRowInitial): *)
(* before that it is not subscribed and the updater is not registered.    *)
(*                                                                         *)
(* The replica rules are the reference definition the diff engine is       *)
(* checked against: whatever the updater emits, applying it must leave the *)
(* client with exactly the selected columns of the stored row.             *)
(***************************************************************************)
EXTENDS Naturals, Sequences, SequencesExt, FiniteSets

CONSTANTS
  Columns, ColType, Nil,
  Scalars,      \* values of a scalar column
  SetElems,     \* elements a set column may hold
  MapKeys,      \* keys of a map column
  MapVals,      \* values of a map column
  RowUuid,      \* the uuid of the watched row
  Requests,     \* column projections a monitor request may carry
  MaxBatch      \* bound: revisions etcd coalesces into one watch response

INSTANCE Updater

\* Model values for the cfg: a scalar column x, a set column s, a map
\* column m; requests for all columns, one, two, and one the schema lacks.
MCColType == [c \in {"x", "s", "m"} |-> CASE c = "s" -> "set"
                                          [] c = "m" -> "map"
                                          [] OTHER   -> "scalar"]
MCRequests == {{}, {"x"}, {"s", "m"}, {"z"}}

VARIABLES
  upd,      \* the updater (fixed for the behaviour)
  db,       \* the row stored in etcd, or Nil
  replica,  \* the client's decoded copy of the row, or Nil
  subscribed \* the client has had its initial reply

vars == <<upd, db, replica, subscribed>>

(***************************************************************************)
(* Encoded column values: every order in which a set's elements or a map's *)
(* pairs can be written.                                                   *)
(***************************************************************************)
SetEncodings == SetToAllKPermutations(SetElems)

MapEncodings ==
  UNION { SetToSeqs({<<k, f[k]>> : k \in DOMAIN f}) :
            f \in UNION {[K -> MapVals] : K \in SUBSET MapKeys} }

Encodings(c) ==
  CASE ColType[c] = "set" -> SetEncodings
    [] ColType[c] = "map" -> MapEncodings
    [] OTHER              -> Scalars

\* Every function giving each column of C one of its encodings.
RECURSIVE ColumnValues(_)
ColumnValues(C) ==
  IF C = {} THEN {[c \in {} |-> Nil]}
  ELSE LET c == CHOOSE col \in C : TRUE IN
       {[x \in DOMAIN g \cup {c} |-> IF x = c THEN v ELSE g[x]] :
          g \in ColumnValues(C \ {c}), v \in Encodings(c)}

StoredRows == {[uuid |-> RowUuid, cols |-> f] : f \in ColumnValues(Columns)}

AbsentSelect == [f \in SelectFlags |-> Nil]
Updaters ==
  {mcrToUpdater(cols, AbsentSelect, isV1, "jv") : cols \in Requests, isV1 \in BOOLEAN}

(***************************************************************************)
(* The OVSDB client's application of a RowUpdate (reference definition).   *)
(***************************************************************************)
ApplyColumnDiff(c, old, d) ==
  CASE ColType[c] = "set" -> (old \ ToSet(d)) \cup (ToSet(d) \ old)
    [] ColType[c] = "map" ->
         LET dropped == {k \in DOMAIN d : k \in DOMAIN old /\ old[k] = d[k]}
             keys    == (DOMAIN old \cup DOMAIN d) \ dropped
         IN [k \in keys |-> IF k \in DOMAIN d THEN d[k] ELSE old[k]]
    [] OTHER -> d

ApplyRowUpdate(rep, ru) ==
  CASE ru = Nil               -> rep
    [] ru.Delete              -> Nil
    [] ru.Initial # Nil       -> DecodeRow(ru.Initial)
    [] ru.Insert # Nil        -> DecodeRow(ru.Insert)
    [] ru.New # Nil           -> DecodeRow(ru.New)
    [] ru.Old # Nil           -> Nil
    [] ru.Modify # Nil /\ rep # Nil ->
         [c \in DOMAIN rep |-> IF c \in DOMAIN ru.Modify
                               THEN ApplyColumnDiff(c, rep[c], ru.Modify[c])
                               ELSE rep[c]]
    [] OTHER                  -> rep

\* What the client should hold: the selected columns of the stored row,
\* decoded; nothing when the row is absent or no column is selected.
Selected(u) == IF u.columns = {} THEN Columns ELSE u.columns \cap Columns

Expected(u, row) ==
  IF row = Nil \/ Selected(u) = {} THEN Nil
  ELSE [c \in Selected(u) |-> DecodeColumn(c, row.cols[c])]

(***************************************************************************)
(* prepareTableUpdate for the row: each event of the watch response is     *)
(* given to the updater in order, errors and nil RowUpdates are skipped,   *)
(* and a later RowUpdate for the uuid replaces the earlier one.            *)
(***************************************************************************)
\* Mutant: an earlier RowUpdate for the uuid is kept, a later one dropped.
MergedRowUpdateFirstWins(u, events) ==
  LET rs == SelectSeq([i \in 1..Len(events) |-> prepareRowUpdate(u, events[i])],
                      LAMBDA r : ~r.err /\ r.ru # Nil)
  IN IF rs = <<>> THEN Nil ELSE rs[1].ru

MergedRowUpdate(u, events) ==
  LET rs == SelectSeq([i \in 1..Len(events) |-> prepareRowUpdate(u, events[i])],
                      LAMBDA r : ~r.err /\ r.ru # Nil)
  IN IF rs = <<>> THEN Nil ELSE rs[Len(rs)].ru

\* The etcd event of a write from old to new.
EventOf(old, new) ==
  CASE old = Nil -> [type |-> "create", kv |-> new, prevKv |-> Nil]
    [] new = Nil -> [type |-> "delete", kv |-> Nil, prevKv |-> old]
    [] OTHER     -> [type |-> "modify", kv |-> new, prevKv |-> old]

(***************************************************************************)
(* Actions                                                                 *)
(***************************************************************************)
Init ==
  /\ upd \in Updaters
  /\ db = Nil
  /\ replica = Nil
  /\ subscribed = FALSE

\* A watch response reaches the updater, once it is registered, and the
\* client applies the RowUpdate prepareTableUpdate sends for the row.
Deliver(events, newDb) ==
  /\ db' = newDb
  /\ replica' = IF subscribed
                THEN ApplyRowUpdate(replica, MergedRowUpdate(upd, events))
                ELSE replica
  /\ UNCHANGED <<upd, subscribed>>

Create(row) ==
  /\ db = Nil
  /\ Deliver(<<EventOf(db, row)>>, row)

Modify(row) ==
  /\ db # Nil
  /\ Deliver(<<EventOf(db, row)>>, row)

Delete ==
  /\ db # Nil
  /\ Deliver(<<EventOf(db, Nil)>>, Nil)

\* Two writes whose events etcd hands over in one watch response (an
\* unsynced watcher catching up gets several revisions at once).
WriteTwice(row1, row2) ==
  /\ MaxBatch >= 2
  /\ db # Nil \/ row1 # Nil
  /\ row1 # Nil \/ row2 # Nil
  /\ Deliver(<<EventOf(db, row1), EventOf(row1, row2)>>, row2)

\* The monitor request: the client loads the row from the initial reply.
Initial ==
  /\ ~subscribed
  /\ subscribed' = TRUE
  /\ replica' = IF db = Nil THEN Nil
                ELSE ApplyRowUpdate(Nil, prepareCreateRowInitial(upd, db).ru)
  /\ UNCHANGED <<upd, db>>

Next ==
  \/ \E row \in StoredRows : Create(row) \/ Modify(row)
  \/ Delete
  \/ \E row1, row2 \in StoredRows \cup {Nil} : WriteTwice(row1, row2)
  \/ Initial

Spec == Init /\ [][Next]_vars

(***************************************************************************)
(* Properties                                                              *)
(***************************************************************************)
(* The updater, row and replica have their types; the replica holds no   *)
(* column the monitor request did not select (deleteUnselectedColumns).  *)
TypeOK ==
  /\ upd \in Updaters
  /\ db \in StoredRows \cup {Nil}
  /\ subscribed \in BOOLEAN
  /\ ~subscribed => replica = Nil
  /\ replica # Nil => DOMAIN replica \subseteq Selected(upd)

(* Whatever sequence of creates, rewrites (of scalar, set and map columns, *)
(* in any encoding) and deletes the row goes through, the client that      *)
(* applies each RowUpdate prepareRowUpdate emits (compareModifiedRows,     *)
(* compareSets/setsDifference, compareMaps, the v1 and v2 shapes) holds    *)
(* exactly the selected columns of the stored row.                         *)
ReplicaMatches == subscribed => replica = Expected(upd, db)

(* Even when etcd coalesces several revisions into one watch response and  *)
(* prepareTableUpdate sends only one RowUpdate per uuid, a client holds no *)
(* row once the stored row is deleted: the Delete of the last event must   *)
(* replace an Insert or Modify prepared from an earlier event.            *)
ReplicaGoneWithRow == db = Nil => replica = Nil

=============================================================================
