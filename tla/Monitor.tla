------------------------------- MODULE Monitor -------------------------------
(***************************************************************************)
(* The watch-to-notify pipeline of one client connection on one database: *)
(*   - etcd: the stored rows, the revision counter and the watch stream    *)
(*     of (revision, events) batches, which may hand a batch over twice;   *)
(*   - the dbMonitor (src/unnamed/part_000, monitor.go): the key2Updaters  *)
(*     registry, the revisionChecker and the watch goroutine (start,       *)
(*     notify, prepareTableUpdate, cancelDbMonitor);                       *)
(*   - the Handler (src/unnamed/part_001, handler.go) serving the          *)
(*     connection's RPCs one at a time: monitor / monitor_cond /           *)
(*     monitor_cond_since (monitor, then getMonitoredData, then the        *)
(*     reply), monitor_cancel, and Handler.notify, which the watch         *)
(*     goroutine calls to push an update on the connection;               *)
(*   - the connection: the sequence of messages the server has written.   *)
(* A dbMonitor holds one *Handler, so each connection has its own         *)
(* dbMonitor and watch per database: connections do not share a registry  *)
(* and one connection is the unit of the model.                           *)
(***************************************************************************)
EXTENDS Naturals, Sequences, SequencesExt, FiniteSets, TLC

CONSTANTS
  JsonValues,        \* json-values (strings) the client names monitors with
  Tables,            \* tables of the database
  Uuids,             \* row uuids
  Vals,              \* values of the row's one scalar column "x"
  NotificationTypes, \* subset of {"update", "update2", "update3"}
  Nil,
  MaxRev,            \* bound: etcd revisions (writes)
  MaxCalls,          \* bound: RPCs the client sends
  MaxRedeliver,      \* bound: batches the watch hands over a second time
  WatchMayCancel,    \* whether etcd may cancel the watch
  GetDataMayFail,    \* whether Databaser.GetData may return an error
  ClientMayClose     \* whether the client may close the connection

ASSUME NotificationTypes \subseteq {"update", "update2", "update3"}
ASSUME MaxRev \in Nat /\ MaxCalls \in Nat /\ MaxRedeliver \in Nat
ASSUME WatchMayCancel \in BOOLEAN /\ GetDataMayFail \in BOOLEAN
ASSUME ClientMayClose \in BOOLEAN

U == INSTANCE Updater WITH Columns <- {"x"}, ColType <- [c \in {"x"} |-> "scalar"]

Keys == Tables \X Uuids
RowValue(uuid, v) == [uuid |-> uuid, cols |-> [c \in {"x"} |-> v]]

VARIABLES
  store,        \* etcd: [Keys -> stored row or Nil]
  rev,          \* etcd: the current revision
  batches,      \* etcd: the watch stream, one [rev, events] per revision
  delivered,    \* watch channel: batches handed to the watch goroutine
  redelivered,  \* watch channel: batches handed over a second time
  revChecker,   \* dbMonitor.revChecker.revision
  key2Updaters, \* dbMonitor.key2Updaters: [Tables -> Seq(updater)]
  loop,         \* the watch goroutine: [pc, rev, pending, toCancel]
  monitors,     \* Handler.monitors: [JsonValues -> handlerMonitorData or Nil]
  rpc,          \* the RPC being served: [pc, jv, todo, data, snapRev]
  conn,         \* messages written to the client connection
  calls,        \* RPCs sent so far
  owed,         \* history: <<jv, inst, rev>> the client must be told about
  closed,       \* the client has gone: writes on the connection fail
  cleanedUp     \* Handler.Cleanup has run

vars == <<store, rev, batches, delivered, redelivered, revChecker,
          key2Updaters, loop, monitors, rpc, conn, calls, owed, closed, cleanedUp>>

\* A write on the connection: jrpc2 fails it, and the Handler only logs
\* the error, once the client has gone.
Write(msg) == conn' = IF closed THEN conn ELSE Append(conn, msg)

(***************************************************************************)
(* Registry (dbMonitor / Key2Updaters).  A table with no updaters is       *)
(* mapped to the empty sequence, which stands for the deleted map key:     *)
(* prepareTableUpdate treats both alike.  An updater carries the ghost     *)
(* field inst, the monitor instance that created it.                       *)
(***************************************************************************)
\* Mutant: an emptied key is neither deleted nor given the new slice.
removeKeyUpdatersKeepEmptied(k2u, key, jsonValue) ==
  LET rest == SelectSeq(k2u[key], LAMBDA u : u.jv # jsonValue)
  IN IF rest = <<>> THEN k2u ELSE [k2u EXCEPT ![key] = rest]

\* Key2Updaters.removeUpdaters: keep the updaters of other json-values.
removeKeyUpdaters(k2u, key, jsonValue) ==
  [k2u EXCEPT ![key] = SelectSeq(@, LAMBDA u : u.jv # jsonValue)]

\* dbMonitor.removeUpdaters: under m.mu, for each key of the monitor.
removeUpdaters(k2u, keys, jsonValue) ==
  [t \in Tables |-> IF t \in keys THEN removeKeyUpdaters(k2u, t, jsonValue)[t]
                                  ELSE k2u[t]]

\* Mutant: the new updaters replace the registered ones.
addUpdatersOverwrite(k2u, keyToUpdaters) ==
  [t \in Tables |-> IF t \in DOMAIN keyToUpdaters THEN keyToUpdaters[t] ELSE k2u[t]]

\* dbMonitor.addUpdaters: the reflect.DeepEqual loop only continues the
\* inner loop, so every new updater is appended.
addUpdaters(k2u, keyToUpdaters) ==
  [t \in Tables |-> IF t \in DOMAIN keyToUpdaters
                    THEN k2u[t] \o keyToUpdaters[t] ELSE k2u[t]]

\* Mutant: a revision equal to the last one counts as new.
isNewRevisionOrEqual(rc, newRevision) == newRevision >= rc

\* revisionChecker.isNewRevision
isNewRevision(rc, newRevision) == newRevision > rc

(***************************************************************************)
(* prepareTableUpdate: under m.mu, every event of the batch is given to   *)
(* every updater registered for its table, in order; the result maps a     *)
(* json-value to table -> uuid -> RowUpdate, a later RowUpdate for the     *)
(* same uuid replacing an earlier one.  It is kept as a set of items       *)
(* [jv, table, uuid, ru, inst].                                            *)
(***************************************************************************)
AddRowUpdate(result, item) ==
  {x \in result : ~(x.jv = item.jv /\ x.table = item.table /\ x.uuid = item.uuid)}
    \cup {item}

prepareTableUpdate(k2u, events) ==
  LET pairs == FlattenSeq([i \in 1..Len(events) |->
                 [n \in 1..Len(k2u[events[i].table]) |->
                    <<events[i], k2u[events[i].table][n]>>]])
      step(acc, p) ==
        LET res == U!prepareRowUpdate(p[2], p[1]) IN
        IF res.err \/ res.ru = Nil THEN acc
        ELSE AddRowUpdate(acc, [jv |-> p[2].jv, table |-> p[1].table,
                                uuid |-> res.uuid, ru |-> res.ru, inst |-> p[2].inst])
  IN FoldLeft(step, {}, pairs)

ResultJsonValues(result) == {x.jv : x \in result}

(***************************************************************************)
(* Json-values.  A JSON value decoded into interface{} is a string         *)
(* [str |-> s] or an array [arr |-> <<...>>].  jsonValueToString is        *)
(* fmt.Sprintf("%v", v): a string prints as itself, an array as its        *)
(* elements separated by spaces between brackets.                          *)
(***************************************************************************)
\* Mutant: the value printed with %q, a string between quotes.
RECURSIVE jsonValueToStringQuoted(_)
jsonValueToStringQuoted(v) ==
  IF "str" \in DOMAIN v THEN "'" \o v.str \o "'"
  ELSE "[" \o FoldLeft(LAMBDA acc, e : IF acc = "" THEN jsonValueToStringQuoted(e)
                                       ELSE acc \o " " \o jsonValueToStringQuoted(e),
                       "", v.arr) \o "]"

RECURSIVE jsonValueToString(_)
jsonValueToString(v) ==
  IF "str" \in DOMAIN v THEN v.str
  ELSE "[" \o FoldLeft(LAMBDA acc, e : IF acc = "" THEN jsonValueToString(e)
                                       ELSE acc \o " " \o jsonValueToString(e),
                       "", v.arr) \o "]"

JsonString(j) == [str |-> j]

\* A message written on the connection: the kind and json-value the wire
\* carries and, as ghost fields, the revision of an update, the monitor
\* instance concerned, the instances of the updaters an update came from,
\* the body, and the snapshot revisions of a reply.
Msg(kind, j) ==
  [kind |-> kind, jv |-> j, rev |-> 0, inst |-> 0, src |-> {}, body |-> {},
   snap |-> [t \in Tables |-> 0]]

AbsentSelect == [f \in U!SelectFlags |-> Nil]

\* The updater monitor() builds for one table: all columns, no select.
UpdaterOf(jv, type, inst) ==
  [inst |-> inst] @@ U!mcrToUpdater({}, AbsentSelect, type = "update", jv)

(***************************************************************************)
(* etcd: a transaction writes one row; the watch stream gets the batch.    *)
(* owed records, for every monitor registered at commit time whose updater *)
(* turns the event into a RowUpdate, that the client is owed it.           *)
(***************************************************************************)
Commit(key, newRow, event) ==
  LET r == rev + 1
      due == {<<j, monitors[j].inst, r>> :
                j \in {j \in JsonValues :
                         /\ monitors[j] # Nil
                         /\ key[1] \in monitors[j].tables
                         /\ U!prepareRowUpdate(UpdaterOf(j, monitors[j].type, 0),
                                                event).ru # Nil}}
  IN /\ rev < MaxRev
     /\ store' = [store EXCEPT ![key] = newRow]
     /\ rev' = r
     /\ batches' = Append(batches, [rev |-> r, events |-> <<event>>])
     /\ owed' = owed \cup due
     /\ UNCHANGED <<delivered, redelivered, revChecker, key2Updaters, loop,
                    monitors, rpc, conn, calls,
                 closed, cleanedUp>>

Put(key, v) ==
  LET row == RowValue(key[2], v) IN
  IF store[key] = Nil
  THEN Commit(key, row, [type |-> "create", table |-> key[1], kv |-> row, prevKv |-> Nil])
  ELSE Commit(key, row, [type |-> "modify", table |-> key[1], kv |-> row, prevKv |-> store[key]])

Delete(key) ==
  /\ store[key] # Nil
  /\ Commit(key, Nil, [type |-> "delete", table |-> key[1], kv |-> Nil, prevKv |-> store[key]])

(***************************************************************************)
(* The watch goroutine (dbMonitor.start): receive a batch and run          *)
(* dbMonitor.notify on it.  notify drops a batch whose revision is not     *)
(* new; otherwise it advances the revision checker, prepares the table     *)
(* updates under m.mu and goes on to hand them to Handler.notify one       *)
(* json-value at a time (the "notify" state).                              *)
(***************************************************************************)
notify(batch) ==
  IF isNewRevision(revChecker, batch.rev)
  THEN LET result == prepareTableUpdate(key2Updaters, batch.events) IN
       /\ revChecker' = batch.rev
       /\ loop' = IF result = {} THEN loop
                  ELSE [loop EXCEPT !.pc = "notify", !.rev = batch.rev, !.pending = result]
  ELSE UNCHANGED <<revChecker, loop>>

WatchReceive ==
  /\ loop.pc = "recv"
  /\ delivered < Len(batches)
  /\ delivered' = delivered + 1
  /\ notify(batches[delivered + 1])
  /\ UNCHANGED <<store, rev, batches, redelivered, key2Updaters, monitors,
                 rpc, conn, calls, owed,
                 closed, cleanedUp>>

\* The watch hands over again the batch it handed over last.
WatchRedeliver ==
  /\ loop.pc = "recv"
  /\ delivered > 0
  /\ redelivered < MaxRedeliver
  /\ redelivered' = redelivered + 1
  /\ notify(batches[delivered])
  /\ UNCHANGED <<store, rev, batches, delivered, key2Updaters, monitors,
                 rpc, conn, calls, owed,
                 closed, cleanedUp>>

\* Handler.notify(jsonValueStr, updates): look the monitor up (without
\* ch.mu) and write the notification of its type; an unknown json-value
\* is logged and dropped.  The message keeps, as ghost fields, the
\* revision, the receiving monitor instance and the updaters' instances.
HandlerNotify(j) ==
  LET items == {x \in loop.pending : x.jv = j}
      msg   == [Msg(monitors[j].type, j) EXCEPT !.rev = loop.rev,
                 !.inst = monitors[j].inst, !.src = {x.inst : x \in items},
                 !.body = {<<x.table, x.uuid, x.ru>> : x \in items}]
      rest  == loop.pending \ items
  IN /\ loop.pc = "notify"
     /\ j \in ResultJsonValues(loop.pending)
     /\ IF monitors[j] # Nil THEN Write(msg) ELSE UNCHANGED conn
     /\ loop' = [loop EXCEPT !.pending = rest, !.pc = IF rest = {} THEN "recv" ELSE "notify"]
     /\ UNCHANGED <<store, rev, batches, delivered, redelivered, revChecker,
                    key2Updaters, monitors, rpc, calls, owed,
                 closed, cleanedUp>>

\* The watch channel yields a Canceled response: cancelDbMonitor cancels
\* the watch, collects the json-values of every updater and clears the
\* registry under m.mu, then notifies each json-value.
WatchCanceled ==
  /\ WatchMayCancel
  /\ loop.pc = "recv"
  /\ LET jvs == UNION {{u.jv : u \in ToSet(key2Updaters[t])} : t \in Tables}
     IN loop' = [loop EXCEPT !.pc = IF jvs = {} THEN "stopped" ELSE "cancel",
                             !.toCancel = jvs]
  /\ key2Updaters' = [t \in Tables |-> <<>>]
  /\ UNCHANGED <<store, rev, batches, delivered, redelivered, revChecker,
                 monitors, rpc, conn, calls, owed,
                 closed, cleanedUp>>

\* Handler.monitorCanceledNotification(jsonValue)
MonitorCanceledNotification(j) ==
  /\ loop.pc = "cancel"
  /\ j \in loop.toCancel
  /\ Write(Msg("monitor_canceled", j))
  /\ loop' = [loop EXCEPT !.toCancel = @ \ {j},
                          !.pc = IF loop.toCancel = {j} THEN "stopped" ELSE "cancel"]
  /\ UNCHANGED <<store, rev, batches, delivered, redelivered, revChecker,
                 key2Updaters, monitors, rpc, calls, owed,
                 closed, cleanedUp>>

(***************************************************************************)
(* The Handler's RPCs, one at a time (the server runs with Concurrency 1). *)
(***************************************************************************)

IdleRpc == [pc |-> "idle", jv |-> "", upd |-> Nil, todo |-> {}, data |-> {},
            snapRev |-> [t \in Tables |-> 0]]

Registered(key) == key \in DOMAIN monitors /\ monitors[key] # Nil

\* Handler.Monitor, MonitorCond, MonitorCondSince, first half: Handler.monitor,
\* under ch.mu, rejects a json-value already in ch.monitors, else records
\* the monitor and registers one updater per table (Databaser.AddMonitors).
Monitor(j, type, tables) ==
  LET key  == jsonValueToString(JsonString(j))
      inst == calls + 1
      upd  == UpdaterOf(key, type, inst)
  IN /\ rpc.pc = "idle"
     /\ ~closed
     /\ calls < MaxCalls
     /\ calls' = calls + 1
     /\ \/ /\ Registered(key)
           /\ conn' = Append(conn, Msg("error", j))
           /\ UNCHANGED <<monitors, key2Updaters, rpc>>
        \/ /\ ~Registered(key)
           /\ monitors' = [monitors EXCEPT ![key] =
                            [type |-> type, tables |-> tables, inst |-> inst]]
           /\ key2Updaters' = addUpdaters(key2Updaters, [t \in tables |-> <<upd>>])
           /\ rpc' = [IdleRpc EXCEPT !.pc = "snapshot", !.jv = key, !.upd = upd,
                                     !.todo = tables]
           /\ UNCHANGED conn
     /\ UNCHANGED <<store, rev, batches, delivered, redelivered, revChecker,
                    loop, owed,
                 closed, cleanedUp>>

\* getMonitoredData, one table: GetData reads the table's rows at the
\* current revision and prepareCreateRowInitial turns each into a RowUpdate.
GetTableData(t) ==
  LET rows == {r \in {store[k] : k \in {t} \X Uuids} : r # Nil}
      res  == {U!prepareCreateRowInitial(rpc.upd, r) : r \in rows}
  IN /\ rpc.pc = "snapshot"
     /\ t \in rpc.todo
     /\ rpc' = [rpc EXCEPT !.todo = @ \ {t},
                           !.data = @ \cup {<<t, x.uuid, x.ru>> : x \in {x \in res : x.ru # Nil}},
                           !.snapRev[t] = rev]
     /\ UNCHANGED <<store, rev, batches, delivered, redelivered, revChecker,
                    key2Updaters, loop, monitors, conn, calls, owed,
                 closed, cleanedUp>>

\* getMonitoredData, one table: GetData fails and the RPC returns the
\* error.  The monitor stays in ch.monitors and its updaters stay
\* registered.
GetDataFails(t) ==
  /\ GetDataMayFail
  /\ rpc.pc = "snapshot"
  /\ t \in rpc.todo
  /\ Write(Msg("error", rpc.jv))
  /\ rpc' = IdleRpc
  /\ UNCHANGED <<store, rev, batches, delivered, redelivered, revChecker,
                 key2Updaters, loop, monitors, calls, owed, closed, cleanedUp>>

\* The handler returns the initial data and jrpc2 writes the reply.
Reply ==
  /\ rpc.pc = "snapshot"
  /\ rpc.todo = {}
  /\ Write([Msg("reply", rpc.jv) EXCEPT !.inst = rpc.upd.inst,
                   !.body = rpc.data, !.snap = rpc.snapRev])
  /\ rpc' = IdleRpc
  /\ UNCHANGED <<store, rev, batches, delivered, redelivered, revChecker,
                 key2Updaters, loop, monitors, calls, owed,
                 closed, cleanedUp>>

\* Handler.MonitorCancel: the request's params, the JSON-RPC array
\* [json-value], are the value whose %v string is looked up in ch.monitors.
\* The reply records, as ghost fields, the instance the client's json-value
\* named (inst) and the instance that was removed (src).
MonitorCancel(j) ==
  LET key   == jsonValueToString([arr |-> <<JsonString(j)>>])
      named == IF monitors[j] # Nil THEN monitors[j].inst ELSE 0
  IN /\ rpc.pc = "idle"
     /\ ~closed
     /\ calls < MaxCalls
     /\ calls' = calls + 1
     /\ \/ /\ Registered(key)
           /\ key2Updaters' = removeUpdaters(key2Updaters, monitors[key].tables, key)
           /\ monitors' = [monitors EXCEPT ![key] = Nil]
           /\ conn' = Append(conn, [Msg("cancel_reply", j) EXCEPT !.rev = rev,
                                      !.inst = named, !.src = {monitors[key].inst}])
        \/ /\ ~Registered(key)
           /\ conn' = Append(conn, [Msg("cancel_error", j) EXCEPT !.inst = named])
           /\ UNCHANGED <<key2Updaters, monitors>>
     /\ UNCHANGED <<store, rev, batches, delivered, redelivered, revChecker,
                    loop, rpc, owed,
                 closed, cleanedUp>>

(***************************************************************************)
(* Disconnect.  The client closes the connection at any time; jrpc2 stops  *)
(* once the running handler has returned, srv.Wait returns and the         *)
(* server's goroutine calls Handler.Cleanup (server.go 157-161).           *)
(***************************************************************************)
Disconnect ==
  /\ ClientMayClose
  /\ ~closed
  /\ closed' = TRUE
  /\ UNCHANGED <<store, rev, batches, delivered, redelivered, revChecker,
                 key2Updaters, loop, monitors, rpc, conn, calls, owed, cleanedUp>>

\* Mutant: Cleanup only logs, as its "CLEAN UP do something" line reads.
CleanupNoRemove ==
  /\ closed /\ ~cleanedUp /\ rpc.pc = "idle"
  /\ cleanedUp' = TRUE
  /\ UNCHANGED <<store, rev, batches, delivered, redelivered, revChecker,
                 key2Updaters, loop, monitors, rpc, conn, calls, owed, closed>>

\* Handler.Cleanup, under ch.mu: Databaser.RemoveMonitors for every monitor
\* in ch.monitors, which stay recorded.
Cleanup ==
  /\ closed
  /\ ~cleanedUp
  /\ rpc.pc = "idle"
  /\ key2Updaters' = FoldSet(LAMBDA j, k2u : removeUpdaters(k2u, monitors[j].tables, j),
                             key2Updaters, {j \in JsonValues : monitors[j] # Nil})
  /\ cleanedUp' = TRUE
  /\ UNCHANGED <<store, rev, batches, delivered, redelivered, revChecker,
                 loop, monitors, rpc, conn, calls, owed, closed>>

(***************************************************************************)
(* The bounds are reached and every process waits on a channel or a       *)
(* request: the server is idle.                                           *)
(***************************************************************************)
Idle ==
  /\ rev = MaxRev
  /\ calls = MaxCalls \/ cleanedUp
  /\ rpc.pc = "idle"
  /\ \/ loop.pc = "stopped"
     \/ /\ loop.pc = "recv"
        /\ delivered = Len(batches)
        /\ delivered = 0 \/ redelivered = MaxRedeliver
        /\ ~WatchMayCancel
  /\ UNCHANGED vars

Init ==
  /\ store = [k \in Keys |-> Nil]
  /\ rev = 0
  /\ batches = <<>>
  /\ delivered = 0
  /\ redelivered = 0
  /\ revChecker = 0
  /\ key2Updaters = [t \in Tables |-> <<>>]
  /\ loop = [pc |-> "recv", rev |-> 0, pending |-> {}, toCancel |-> {}]
  /\ monitors = [j \in JsonValues |-> Nil]
  /\ rpc = IdleRpc
  /\ conn = <<>>
  /\ calls = 0
  /\ owed = {}
  /\ closed = FALSE
  /\ cleanedUp = FALSE

Next ==
  \/ \E k \in Keys, v \in Vals : Put(k, v)
  \/ \E k \in Keys : Delete(k)
  \/ WatchReceive
  \/ WatchRedeliver
  \/ \E j \in JsonValues : HandlerNotify(j)
  \/ WatchCanceled
  \/ \E j \in JsonValues : MonitorCanceledNotification(j)
  \/ \E j \in JsonValues, type \in NotificationTypes, tables \in SUBSET Tables \ {{}} :
       Monitor(j, type, tables)
  \/ \E t \in Tables : GetTableData(t)
  \/ \E t \in Tables : GetDataFails(t)
  \/ Reply
  \/ \E j \in JsonValues : MonitorCancel(j)
  \/ Disconnect
  \/ Cleanup
  \/ Idle

\* The watch goroutine and the RPC goroutine are scheduled fairly; etcd's
\* redelivery and cancellation, the writers and the client are not.
Fairness ==
  /\ WF_vars(WatchReceive)
  /\ WF_vars(\E j \in JsonValues : HandlerNotify(j))
  /\ WF_vars(\E j \in JsonValues : MonitorCanceledNotification(j))
  /\ WF_vars(\E t \in Tables : GetTableData(t))
  /\ WF_vars(Reply)
  /\ WF_vars(Cleanup)

Spec == Init /\ [][Next]_vars /\ Fairness

(***************************************************************************)
(* Properties                                                              *)
(***************************************************************************)
Messages == {conn[n] : n \in 1..Len(conn)}
IsUpdate(m) == m.kind \in {"update", "update2", "update3"}
Sent(j, r) == \E m \in Messages : IsUpdate(m) /\ m.jv = j /\ m.rev = r

TypeOK ==
  /\ store \in [Keys -> {RowValue(u, v) : u \in Uuids, v \in Vals} \cup {Nil}]
  /\ rev \in 0..MaxRev
  /\ delivered \in 0..Len(batches)
  /\ redelivered \in 0..MaxRedeliver
  /\ revChecker \in 0..MaxRev
  /\ \A t \in Tables : \A u \in ToSet(key2Updaters[t]) : u.jv \in JsonValues
  /\ loop.pc \in {"recv", "notify", "cancel", "stopped"}
  /\ monitors \in [JsonValues -> [type : NotificationTypes, tables : SUBSET Tables,
                                  inst : 1..MaxCalls] \cup {Nil}]
  /\ rpc.pc \in {"idle", "snapshot"}
  /\ calls \in 0..MaxCalls
  /\ owed \subseteq JsonValues \X (1..MaxCalls) \X (1..MaxRev)
  /\ closed \in BOOLEAN /\ cleanedUp \in BOOLEAN

(* spec.md section 5: a client receives a monitor's updates in etcd        *)
(* revision order, and never the same revision twice, although the watch   *)
(* may hand a batch over again: the revisionChecker of dbMonitor.notify    *)
(* must drop every batch that is not newer than the last one it passed.    *)
RevisionOrder ==
  \A m, n \in 1..Len(conn) :
    (m < n /\ IsUpdate(conn[m]) /\ IsUpdate(conn[n]) /\ conn[m].jv = conn[n].jv)
      => conn[m].rev < conn[n].rev

(* spec.md section 8: once monitor_cancel has answered, no change          *)
(* committed after it reaches the client through the canceled monitor's    *)
(* updaters: MonitorCancel must take every one of them out of key2Updaters *)
(* (dbMonitor.removeUpdaters over all the monitor's tables) before it      *)
(* replies, and prepareTableUpdate must read the registry under m.mu.      *)
NoUpdateAfterCancel ==
  \A m, n \in 1..Len(conn) :
    (m < n /\ conn[m].kind = "cancel_reply" /\ IsUpdate(conn[n])
       /\ conn[m].src \cap conn[n].src # {})
      => conn[n].rev <= conn[m].rev

(* Every change committed while a monitor is registered, which its updater *)
(* turns into a RowUpdate, is eventually written to the client, unless the *)
(* monitor is canceled first, etcd cancels the watch or the client goes:  *)
(* addUpdaters must keep every monitor's updater, the watch goroutine     *)
(* must not drop a new batch, and Handler.notify must find the monitor.    *)
Resolved(j, i, r) ==
  \/ Sent(j, r)
  \/ loop.pc \in {"cancel", "stopped"}
  \/ closed
  \/ monitors[j] = Nil
  \/ monitors[j].inst # i

\* Resolved stays true once true and owed only grows, within the bounds, so
\* "every owed change eventually resolved" is "infinitely often none is
\* unresolved", which TLC checks with one tableau.
Unresolved == {x \in owed : ~Resolved(x[1], x[2], x[3])}

EventuallyNotified == []<>(Unresolved = {})

(* spec.md sections 4.7 and 5: the initial reply reaches the client before *)
(* any streamed update of the monitor, and no update repeats a change the  *)
(* reply's snapshot already holds: every update comes after the monitor's  *)
(* reply and is for a revision later than the snapshot of its table.       *)
SnapshotSplice ==
  \A n \in 1..Len(conn) :
    IsUpdate(conn[n]) =>
      \E m \in 1..(n - 1) :
        /\ conn[m].kind = "reply"
        /\ conn[m].inst = conn[n].inst
        /\ \A x \in conn[n].body : conn[n].rev > conn[m].snap[x[1]]

(* An update written for a monitor was computed by that monitor's own      *)
(* updaters: the batch dbMonitor.notify prepared under m.mu is not handed  *)
(* by Handler.notify to a newer monitor that reuses the json-value.        *)
NoStaleDelivery ==
  \A m \in Messages : IsUpdate(m) => m.src = {m.inst}

(* Once the client has gone, the dbMonitor eventually holds none of its    *)
(* updaters, and never again: Handler.Cleanup must remove every monitor in *)
(* ch.monitors, those whose getMonitoredData failed included, and must   *)
(* not run before the RPC in progress has registered its updaters.        *)
NoUpdaters == \A t \in Tables : key2Updaters[t] = <<>>

UpdatersReleased == closed ~> [](NoUpdaters)

=============================================================================
