------------------------------- MODULE Updater -------------------------------
(***************************************************************************)
(* The per-monitor updater of src/unnamed/part_000 (pkg/ovsdb/monitor.go): *)
(* the row codec (prepareRow, getAndDeleteUUID, deleteUnselectedColumns),  *)
(* the diff engine (compareModifiedRows, compareMaps, compareSets,         *)
(* setsDifference) and the event-to-RowUpdate rules (prepareRowUpdate and  *)
(* its create/delete/modify branches, prepareCreateRowInitial).            *)
(*                                                                         *)
(* Only operators: the modules that compose it (MCUpdater, Monitor) own    *)
(* the state.                                                              *)
(*                                                                         *)
(* Data representation.  A row as stored in etcd is a record               *)
(*   [uuid |-> u, cols |-> [Columns -> encoded value]]                     *)
(* (the "_uuid" member of the JSON object is the uuid field).  A column    *)
(* value is kept ENCODED, the way json.Unmarshal into interface{} leaves   *)
(* it: a scalar is itself, a set is the sequence of its elements in the    *)
(* order they were written, a map is the sequence of its <<key, value>>    *)
(* pairs.  reflect.DeepEqual on such values compares the encodings;        *)
(* UnmarshalSet / UnmarshalMap decode them.                                *)
(***************************************************************************)
EXTENDS Naturals, Sequences, SequencesExt, FiniteSets

CONSTANTS
  Columns,    \* column names of the monitored table
  ColType,    \* [Columns -> {"scalar", "set", "map"}]: the table schema
  Nil         \* a nil pointer / absent value

ASSUME ColType \in [Columns -> {"scalar", "set", "map"}]

(***************************************************************************)
(* Decoding (libovsdb UnmarshalSet / UnmarshalMap).  A decoded set is the  *)
(* list of its elements (GoSet keeps the wire order); a decoded map is a   *)
(* function from keys to values (GoMap).                                   *)
(***************************************************************************)
UnmarshalSet(enc) == enc

UnmarshalMap(enc) ==
  [k \in {p[1] : p \in ToSet(enc)} |-> (CHOOSE p \in ToSet(enc) : p[1] = k)[2]]

\* The value a client holds for a column once it has decoded it.
DecodeColumn(c, enc) ==
  CASE ColType[c] = "set" -> ToSet(enc)
    [] ColType[c] = "map" -> UnmarshalMap(enc)
    [] OTHER              -> enc

DecodeRow(data) == [c \in DOMAIN data |-> DecodeColumn(c, data[c])]

(***************************************************************************)
(* An updater (type updater, built by mcrToUpdater): the projected columns *)
(* (the empty set means all), the selection flags, each TRUE, FALSE or Nil *)
(* when absent, and whether the client speaks the v1 notification shape.   *)
(* mcrToUpdater replaces a nil Select by an empty MonitorSelect, whose     *)
(* flags are all absent.                                                   *)
(***************************************************************************)
SelectFlags == {"initial", "insert", "delete", "modify"}

\* libovsdb.MSIsTrue: an absent flag means TRUE (OVSDB default).
MSIsTrue(flag) == flag # FALSE

mcrToUpdater(columns, select, isV1, jsonValue) ==
  [columns |-> columns, select |-> select, isV1 |-> isV1, jv |-> jsonValue]

(***************************************************************************)
(* Row codec                                                               *)
(***************************************************************************)
\* Mutant: the loop deleting the unselected columns left out.
deleteUnselectedColumnsKeep(u, data) == data

deleteUnselectedColumns(u, data) ==
  IF u.columns # {}
  THEN [c \in DOMAIN data \cap u.columns |-> data[c]]
  ELSE data

\* prepareRow: unmarshal, take out _uuid, drop unselected columns.
prepareRow(u, value) ==
  [data |-> deleteUnselectedColumns(u, value.cols), uuid |-> value.uuid]

(***************************************************************************)
(* Diff engine                                                             *)
(***************************************************************************)
\* setsDifference: elements of set1 missing from set2, then the reverse.
setsDifference(set1, set2) ==
  SelectSeq(set1, LAMBDA e : ~Contains(set2, e))
    \o SelectSeq(set2, LAMBDA e : ~Contains(set1, e))

compareSets(data, prevData) ==
  setsDifference(UnmarshalSet(data), UnmarshalSet(prevData))

\* Mutant: the loop over the keys of the previous map left out.
compareMapsNoRemoved(data, prevData) ==
  LET newMap  == UnmarshalMap(data)
      prevMap == UnmarshalMap(prevData)
  IN [k \in {k \in DOMAIN newMap :
                k \notin DOMAIN prevMap \/ newMap[k] # prevMap[k]} |-> newMap[k]]

\* compareMaps: new or changed keys carry the new value, keys that left
\* the map carry their previous value.
compareMaps(data, prevData) ==
  LET newMap  == UnmarshalMap(data)
      prevMap == UnmarshalMap(prevData)
      changed == {k \in DOMAIN newMap :
                    k \notin DOMAIN prevMap \/ newMap[k] # prevMap[k]}
      removed == DOMAIN prevMap \ DOMAIN newMap
  IN [k \in changed \cup removed |-> IF k \in changed THEN newMap[k]
                                                       ELSE prevMap[k]]

\* The delta of one column that reflect.DeepEqual found changed.
columnDelta(u, c, modifiedRow, prevRow) ==
  CASE ColType[c] = "map" -> compareMaps(modifiedRow[c], prevRow[c])
    [] ColType[c] = "set" -> compareSets(modifiedRow[c], prevRow[c])
    [] OTHER              -> IF u.isV1 THEN prevRow[c] ELSE modifiedRow[c]

\* compareModifiedRows: the columns of the modified row whose value is not
\* reflect.DeepEqual to the previous one.  Rows carry every column of the
\* schema, so LookupColumn and the unmarshalling never fail here.
compareModifiedRows(u, modifiedRow, prevRow) ==
  LET changed == {c \in DOMAIN modifiedRow : modifiedRow[c] # prevRow[c]}
  IN [c \in changed |-> columnDelta(u, c, modifiedRow, prevRow)]

(***************************************************************************)
(* RowUpdate (ovsjson.RowUpdate): the pointer fields that are nil are Nil. *)
(* The result of each prepare* function is [ru, uuid, err].                *)
(***************************************************************************)
NilRowUpdate ==
  [New |-> Nil, Old |-> Nil, Initial |-> Nil, Insert |-> Nil,
   Modify |-> Nil, Delete |-> FALSE]

Emit(ru, uuid) == [ru |-> ru, uuid |-> uuid, err |-> FALSE]
NoEmit(uuid)   == [ru |-> Nil, uuid |-> uuid, err |-> FALSE]
Failed         == [ru |-> Nil, uuid |-> "", err |-> TRUE]

IsEmpty(data) == DOMAIN data = {}

prepareDeleteRowUpdate(u, event) ==
  IF ~MSIsTrue(u.select["delete"]) THEN NoEmit("")
  ELSE LET r == prepareRow(u, event.prevKv) IN
       IF ~u.isV1 THEN Emit([NilRowUpdate EXCEPT !.Delete = TRUE], r.uuid)
       ELSE IF ~IsEmpty(r.data)
            THEN Emit([NilRowUpdate EXCEPT !.Old = r.data], r.uuid)
            ELSE NoEmit(r.uuid)

prepareCreateRowUpdate(u, event) ==
  IF ~MSIsTrue(u.select["insert"]) THEN NoEmit("")
  ELSE LET r == prepareRow(u, event.kv) IN
       IF IsEmpty(r.data) THEN NoEmit("")
       ELSE IF ~u.isV1 THEN Emit([NilRowUpdate EXCEPT !.Insert = r.data], r.uuid)
       ELSE Emit([NilRowUpdate EXCEPT !.New = r.data], r.uuid)

prepareModifyRowUpdate(u, event) ==
  IF ~MSIsTrue(u.select["modify"]) THEN NoEmit("")
  ELSE LET m     == prepareRow(u, event.kv)
           p     == prepareRow(u, event.prevKv)
           delta == compareModifiedRows(u, m.data, p.data)
       IN IF m.uuid # p.uuid THEN Failed
          ELSE IF IsEmpty(delta) THEN NoEmit("")
          ELSE IF ~u.isV1 THEN Emit([NilRowUpdate EXCEPT !.Modify = delta], m.uuid)
          ELSE Emit([NilRowUpdate EXCEPT !.New = m.data, !.Old = delta], m.uuid)

\* prepareRowUpdate: dispatch on the etcd event type.
prepareRowUpdate(u, event) ==
  CASE event.type = "create" -> prepareCreateRowUpdate(u, event)
    [] event.type = "delete" -> prepareDeleteRowUpdate(u, event)
    [] OTHER                 -> prepareModifyRowUpdate(u, event)

prepareCreateRowInitial(u, value) ==
  IF ~MSIsTrue(u.select["initial"]) THEN NoEmit("")
  ELSE LET r == prepareRow(u, value) IN
       IF IsEmpty(r.data) THEN NoEmit(r.uuid)
       ELSE IF ~u.isV1 THEN Emit([NilRowUpdate EXCEPT !.Initial = r.data], r.uuid)
       ELSE Emit([NilRowUpdate EXCEPT !.New = r.data], r.uuid)

=============================================================================
