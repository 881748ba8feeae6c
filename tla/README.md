# TLA+ models of ovsdb-etcd: the monitor pipeline and the server process

These modules model the OVSDB monitor machinery of ovsdb-etcd and the server process that hosts it.
- `src/unnamed/part_000` is `pkg/ovsdb/monitor.go`: the updaters and the per-database `dbMonitor`.
- `src/unnamed/part_001` is `pkg/ovsdb/handler.go`: the per-connection `Handler`.
- `src/pkg/cmd/server/server.go` is the server: the pid file, the listener loop and the per-connection goroutines.

The database locks of `part_001` (`Lock`, `Unlock`, `Cleanup`) have a module of their own.

The checks run with TLC, using the configurations listed in `PROJECT.json`.

## The system

1. A client connection gets a `Handler` (server.go `addClientHandlers`).
2. jrpc2 serves the connection with `Concurrency: 1`, so the RPCs of one connection run one at a time.
3. `monitor`, `monitor_cond` and `monitor_cond_since` first call `Handler.monitor`. Under `ch.mu` it:
   - rejects a json-value already in `ch.monitors`;
   - builds one `updater` per table (`mcrToUpdater`);
   - records the monitor;
   - registers the updaters with the database's `dbMonitor` (`Databaser.AddMonitors` → `addUpdaters`).
4. Then `getMonitoredData` reads each table (`GetData`) and turns every row into an initial RowUpdate (`prepareCreateRowInitial`). The RPC returns this as its reply.
5. The `dbMonitor` runs one goroutine (`start`) over the etcd watch channel. For each response it calls `notify`:
   - `revisionChecker.isNewRevision` drops a batch that is not newer than the last one;
   - `prepareTableUpdate`, under `m.mu`, gives every event to every updater of its table (`prepareRowUpdate`);
   - the result is handed json-value by json-value to `Handler.notify`, which looks the monitor up in `ch.monitors` and writes an `update`/`update2`/`update3` notification.
6. When the watch is canceled, `cancelDbMonitor` clears the registry and sends `monitor_canceled` for every json-value.
7. `monitor_cancel` removes the monitor from `ch.monitors` and its updaters from the registry.
8. `prepareRowUpdate` is the diff engine:
   - create, delete and modify events give insert/delete/modify (v2) or new/old (v1) RowUpdates;
   - only the selected columns are kept (`deleteUnselectedColumns`);
   - a modify sends only the columns that changed (`compareModifiedRows`), with set and map deltas from `compareSets`/`setsDifference` and `compareMaps`.

The server process (`server.go`):
1. `main` checks the flags, then `setupPIDFile`. It stats the pid file. A missing file is written with `os.Getpid()`. Otherwise the file is read, and `/proc/<pid>/cmdline` is stated: a pid without a `/proc` entry is overwritten, a live one is an error and `klog.Fatal`. `delPidfile` is deferred.
2. Then come the etcd client, the schemas and `setServerData`. Each can end in `klog.Fatal`, which is `os.Exit`: deferred calls do not run.
3. `loop` accepts connections. For each it does `wg.Add(1)` and starts a goroutine that:
   - creates the `Handler`;
   - writes its methods into the method map (`addClientHandlers`);
   - starts a jrpc2 server on the connection;
   - starts a goroutine that runs `srv.Wait` and then `handler.Cleanup`;
   - waits in `srv.WaitStatus`.
   An Accept error makes the loop `wg.Wait` and return.
4. `main` blocks until a signal, then returns and runs the deferred calls.

The database locks (`part_001` 81–148, 198–204):
1. `Lock` looks the id up in `ch.databaseLocks` under `ch.mu`, and releases `ch.mu`.
2. If the id is not there, it calls `GetLock`, which makes a `Locker` on the connection context. Under `ch.mu` again it stores the Locker, or, when another call stored one meanwhile, cancels its own and uses the other.
3. `tryLock` either succeeds (reply `locked: true`) or fails with `ErrLocked`. In that case a goroutine runs the blocking `lock()` and, when it returns without error, sends the `locked` notification. The RPC replies `locked: false`.
4. `Unlock` deletes the id under `ch.mu` and cancels the Locker.
5. On disconnect, `Cleanup` calls `unlock()` on every stored Locker, and the waiter goroutine's deferred `cancel()` cancels the connection context, which every Locker of the connection was made on.

The snapshot is a mix of versions.
- `part_000` also declares a per-monitor `notifier` goroutine with a channel and a WaitGroup. The `Handler` of `part_001` never starts it: `Handler.notify` writes to the connection directly.
- The model follows the code that runs: `part_001`'s `notify`, `monitor` and `mcrToUpdater` calls.

## Modules

| Module | Models | State |
|---|---|---|
| `Updater` | row codec, diff engine, event rules (part_000 258–583) | none: operators only |
| `MCUpdater` | one updater on one row, with the OVSDB client replica rules as the reference | `upd`, `db`, `replica`, `subscribed` |
| `Monitor` | etcd, the dbMonitor, the Handler's monitor RPCs and the connection | see below |
| `MCMonitor` | model values for `Monitor` | none |
| `PidFile` | `setupPIDFile`, `delPidfile` and the steps of `main` around them, for several server processes | `file`, `alive`, `foreign`, `pc`, `pid`, `read`, `starts` |
| `MCPidFile` | symmetry over servers and pids | none |
| `Server` | `loop`, the connection goroutines, `addClientHandlers` and the Cleanup goroutine | `loop`, `conn`, `written`, `handlerMap`, `req`, `closed`, `waiter`, `cleaned`, `wg`, `crashed`; ghost `served` |
| `MCServer` | the method names | none |
| `Locks` | `Handler.Lock`, `Unlock`, `Cleanup`, the `lock()` goroutine, the context cancel, and the etcd mutex under the Locker | `queue`, `canceled`, `creator`, `databaseLocks`, `conn`, `sent`, `pc`, `myLock`, `gpc`; ghost `holds` |
| `MCLocks` | symmetry over connections and Lockers | none |

### `Updater`

Every operator keeps the Go function's name. Column values stay encoded the way `json.Unmarshal` leaves them:
- a set is the sequence of its elements;
- a map is the sequence of its pairs.

So `reflect.DeepEqual` in `compareModifiedRows` compares encodings, exactly as the code does. The decoding functions (`UnmarshalSet`, `UnmarshalMap`, `MSIsTrue`) model libovsdb, which is not in this repository.

### `MCUpdater`

Writers create, rewrite and delete the row, with every set and map written in every element order. Each write is delivered to the updater. The client applies the emitted RowUpdate with the rules of RFC 7047 `update` and ovsdb-server(7) `update2`:
- a set delta toggles its elements;
- a map delta drops a key whose delta value equals the old value, and otherwise sets the key.

`Initial` is the monitor reply (`prepareCreateRowInitial`).

`WriteTwice` (enabled when `MaxBatch >= 2`) makes two writes whose events etcd hands over in one watch response. An unsynced watcher catching up gets several revisions at once. `MergedRowUpdate` is `prepareTableUpdate` for the row:
- events are given to the updater in order;
- errors and nil RowUpdates are skipped;
- a later RowUpdate for the uuid replaces the earlier one (part_000 line 313).

### `Monitor`

| Variable | Code |
|---|---|
| `store`, `rev`, `batches` | etcd: rows, revision, the watch stream of one `[rev, events]` per commit |
| `delivered`, `redelivered` | the watch channel's position; a batch handed over again |
| `revChecker` | `dbMonitor.revChecker.revision` |
| `key2Updaters` | `dbMonitor.key2Updaters` (an empty sequence stands for a deleted key) |
| `loop` | the watch goroutine: receiving, in the middle of `notify`'s json-value loop, in `cancelDbMonitor`'s notification loop, or stopped |
| `monitors` | `Handler.monitors` |
| `rpc` | the RPC being served: between `monitor()` and the reply, table by table |
| `conn` | the messages written on the connection |
| `calls`, `owed` | bound on RPCs; history of changes a monitor is owed |
| `closed`, `cleanedUp` | the client has closed the connection; `Handler.Cleanup` has run |

The actions and the code they model:

| Action | Code |
|---|---|
| `WatchReceive` | `start` + `notify` up to the json-value loop |
| `HandlerNotify` | one iteration of that loop, which calls `Handler.notify` |
| `WatchRedeliver` | etcd handing a batch over again (environment) |
| `WatchCanceled` | `cancelDbMonitor` up to its notification loop |
| `MonitorCanceledNotification` | one iteration of that loop |
| `Monitor` | `Handler.monitor` (both the duplicate branch and the registering branch) |
| `GetTableData` | one table of `getMonitoredData` |
| `GetDataFails` | `GetData` returning an error: the RPC returns it, the monitor stays recorded and registered |
| `Reply` | the handler's return |
| `MonitorCancel` | `Handler.MonitorCancel` |
| `Put`, `Delete` | etcd commits (environment) |
| `Disconnect` | the client closing the connection (environment); from then on no RPC arrives and every write fails (`Write`: `Notify` returns an error that is only logged) |
| `Cleanup` | `Handler.Cleanup`'s `RemoveMonitors` loop under `ch.mu`, once jrpc2 has stopped (no RPC in progress); `ch.monitors` is left as it is |

The watch goroutine calls `Handler.notify` without holding a lock. This is why the RPC goroutine may run between two of its steps.

Messages carry ghost fields:
- the revision of an update;
- the monitor instance concerned (`inst`, the RPC number that created it);
- the instances of the updaters an update came from (`src`);
- the snapshot revision of each table in a reply.

Json-values are `[str]` or `[arr]` records. `jsonValueToString` is `%v`: `"[j1]"` is at once a json-value a client may pick and the `%v` string of the `monitor_cancel` params `["j1"]`.

### `PidFile`

Each file-system or `/proc` call is one step, so other server processes interleave between a check and the write that relies on it.

| Action | Code |
|---|---|
| `Start` | the process starting with a fresh pid: `main`'s klog and flag initialisation (server.go 47–55) |
| `StatPidFile` | `setupPIDFile`'s first `os.Stat` |
| `WritePid` | either `ioutil.WriteFile` (its error is ignored) |
| `ReadPidFile` | `ioutil.ReadFile`; a file gone since the Stat is an error and `klog.Fatal` |
| `CheckProc` | the `/proc` check: overwrite, or "exists and ovnkube is running" and `klog.Fatal` |
| `CheckFlags` | the listen-address, prefix and service-name checks: go on or `klog.Fatal` |
| `Bootstrap` | the etcd members, client and schemas: success or `klog.Fatal` |
| `SetServerData` | `setServerData` (and `loadServerData`): success or `klog.Fatal` |
| `Listen` | the TCP and Unix `net.Listen` calls: success or `klog.Fatal` |
| `Signal` | the select on `exitCh` and `main`'s return |
| `DelStat`, `RemovePidFile` | `delPidfile` |
| `Crash`, `ForeignStart`, `ForeignExit` | kills, and other programs taking and releasing pids (environment) |

### `Server`

One listener is modelled; the TCP and Unix listeners run the same `loop`.
- `wg` is the set of connection goroutines `wg.Add` has counted. `Accept` does `wg.Add(1)` and the `go` in one step, and nothing in `main` reads `loop`'s return value (`go loop(lst)`), so the model checks no property about `wg.Wait`.
- `handlerMap` maps each client method to the connection whose `Handler` it holds, and `createServiceMap`'s methods to `Service`.
- `Call` and `Return` are the client and jrpc2 dispatch through the connection's assigner, which is the shared map.
- `Stop` is jrpc2 stopping once the client has gone and no request runs.
- `ConcurrentMapWrites` is the Go runtime aborting on two goroutines in `addClientHandlers` at once.

### `Locks`

The `Locker` interface (`Databaser.GetLock`) is not in `src/`. It is modelled as the etcd mutex it wraps:
- the keys form a FIFO `queue` and its head (`Owner`) holds the lock;
- `tryLock` fails with `ErrLocked` when another key is first, and otherwise puts its key in (it is the owner);
- `lock()` puts its key in and waits to be the head, or aborts and deletes its key when its context is canceled;
- `unlock()` deletes the key; `cancel()` cancels the context, and the key of a canceled Locker goes when its lease ends (`LeaseEnd`).

A Lock or Unlock call is a request `<<c, k>>` (the k-th call of connection c); `pc` is where it is, `gpc` where its `lock()` goroutine is, and `myLock` its Locker. `holds[c]` is what the client has been told: `locked: true` or a `locked` notification make it TRUE, an unlock FALSE. Messages after a disconnect are not delivered.

| Action | Code |
|---|---|
| `Send`, `Close` | the client: a `lock` or `unlock` request, and the disconnect (environment) |
| `LockLookup` | the first `ch.mu` section of `Lock` |
| `GetLock` | `ch.db.GetLock`, or its error |
| `StoreLock` | the second `ch.mu` section: store, or cancel own and use the other |
| `TryLock` | `tryLock` and its three outcomes |
| `LockEnqueue`, `LockAcquired`, `LockAborted` | the `lock()` goroutine: key in, head reached, or canceled |
| `NotifyLocked` | `ch.connection.Notify("locked")` |
| `Unlock`, `UnlockCancel` | `Unlock`'s delete under `ch.mu` (or its early return), then `myLock.cancel()` |
| `Cleanup` | `Handler.Cleanup`'s `unlock()` of every stored Locker, once the connection's RPCs are done |
| `CancelContext` | `defer cancel()` in the waiter goroutine (server.go 158) |
| `LeaseEnd` | etcd deleting a canceled Locker's key (environment) |

The lock id is a single one: the code keeps one Locker per id, so ids do not interact. An unparsable id (`ParamsToString` failing) changes nothing and is left out.

## Runs

| Run | Expect | Shows |
|---|---|---|
| `updater` | pass | `ReplicaMatches`: for projections `{}` (all columns), `{x}`, `{s,m}` and `{z}` (absent from the schema), in both v1 and v2, the client replica always equals the selected columns of the stored row. |
| `monitor` | pass | `RevisionOrder` (no duplicate or reordered update even though batches are redelivered) and `NoUpdateAfterCancel` (no update from a canceled monitor's updaters for a revision after the cancel reply). |
| `monitor_live` | pass | `EventuallyNotified`: a change the monitor's updater turns into a RowUpdate is eventually sent, unless the monitor is canceled or the client goes first. `UpdatersReleased`: once the client goes, the registry eventually holds none of its updaters, and never again, also for a monitor whose `GetData` failed. |
| `monitor_splice` | violation | `SnapshotSplice`: Put, Monitor (updaters registered), WatchReceive, HandlerNotify. The update reaches the client before the reply. |
| `monitor_stale` | violation | `NoStaleDelivery`: monitor `[j1]`, the watch prepares its update, `monitor_cancel j1` cancels it, a new `[j1]` monitor is created, and the old update is delivered to it. |
| `updater_batchdel` | pass | `ReplicaGoneWithRow`: with up to two revisions coalesced into one watch response, the client holds no row once the row is deleted, so the last RowUpdate of a uuid wins. |
| `pidfile` | pass | `TypeOK` only: two servers, two starts each, with crashes, fatal steps of `main` and foreign pids. Every step of `setupPIDFile` and `delPidfile` is taken, and a live server's pid is always its own live pid. The run gives the process model that `pidfile_race` uses; what the pid file promises is the `SingleServer` question, which the race answers. |
| `pidfile_race` | violation | `SingleServer`: two servers both Stat a missing file, both write it, and both run. |
| `server` | pass | `EveryClosedConnectionCleanedUp`: every closed connection's Handler is eventually cleaned up by the goroutine that waits on `srv.Wait`, unless the process aborts. |
| `server_shared` | violation | `RequestsServedByOwnHandler`: c1 is set up and serving, then c2's `addClientHandlers` overwrites the shared map, and c1's next request runs on c2's Handler. The comment at line 210 says each connection gets "a proprietary copy". |
| `locks` | pass | `LockersConsistent`: every uncanceled Locker of a live connection is the stored one, or is in the hands of a Lock call between `GetLock` and its store or cancel, so racing Lock calls never leak a live Locker. `DisconnectReleasesLocks`: once a client disconnects, its keys eventually leave the lock queue for good, including the key of a `lock()` goroutine still waiting. |
| `locks_exclusive` | violation | `ExclusiveClients`: a client's `tryLock` fails and its `lock()` goroutine starts. The client unlocks: `Unlock` deletes the id from `databaseLocks`. Before `Unlock`'s `cancel()`, the goroutine's `lock()` acquires. `Unlock` then cancels the Locker, and the goroutine sends `locked` anyway. The key's lease ends and the other client locks. Both clients are told they hold the lock (RFC 7047 §4.1.8). |

Each property of a passing run has a mutant of the mapped code that TLC catches (`PROJECT.json` "mutants"):
- a map delta that forgets removed keys;
- unselected columns kept;
- `%q` instead of `%v`;
- `>=` in `isNewRevision`;
- an emptied registry key left in place;
- `addUpdaters` overwriting instead of appending;
- the first RowUpdate of a uuid kept instead of the last;
- the `ReadFile` error ignored;
- no Cleanup goroutine started;
- `Handler.Cleanup` that only logs;
- jrpc2 stopping with a request running;
- `Lock` using a stored Locker without checking that the lookup found one;
- `Lock`'s second section storing its Locker over another's without cancelling it;
- no cancel of the connection context on disconnect.

### Defects seen while modelling that are not checked runs

These were seen in TLC counterexamples while the models were built. They are listed as hazards in `PROJECT.json`. They are not kept as runs, because they are consequences of a finding above, milder, or within reach of a unit test.
- A create and a modify of a row coalesced into one watch response reach the client as a lone modify, so the client never has the row. This follows spec.md's own last-write-wins rule (§4.5, §5), so it is a gap in the spec.
- After `klog.Fatal` leaves the pid file, a restart that gets the same pid (a container's pid 1) finds itself in `/proc` and refuses to start. Likewise a leftover pid now held by another program makes every later start refuse.
- Any Accept error that is not "closing" (EMFILE, ECONNABORTED) ends `loop` for good; the process keeps running without a listener.
- Two goroutines in `addClientHandlers` at once can make the runtime abort the server ("concurrent map writes").
- After a `GetData` error the RPC fails but the monitor stays registered: the client is sent updates of a monitor it was told was not created, and cannot reuse the json-value.
- After `monitor_canceled`, the handler still holds the monitor, so its json-value stays taken.
- `MonitorCancel` formats the whole params array with `%v` (part_001 line 69): a monitor named `j1` cannot be canceled, and one named `[j1]` is canceled instead. A unit test of `monitor_cancel` reaches this.
- `compareModifiedRows` compares the undecoded values with `reflect.DeepEqual` (part_000 line 409), so a set or map rewritten in another order emits a Modify with nothing changed; spec.md §8 says nothing is emitted. A unit test with a reordered map reaches this.

### Bounds

- `MCUpdater`:
  - one row with a scalar column over {0,1};
  - a set over {1,2}, in all orders;
  - a map over keys {a,b} and values {0,1}, in all orders.
  - Every projection shape and both notification shapes are enumerated, and the state space is closed (about 2,100 states).
- `monitor`:
  - json-values `j1` and `[j1]`, so both a reuse and the `%v` collision happen;
  - one table and one row;
  - two values, so modifies emit;
  - 2 revisions, 3 RPCs, 1 redelivery, and watch cancellation allowed.
  - Three RPCs are the fewest that reach monitor, cancel, re-monitor. Two revisions let one update race a cancel and another follow it. It checks about 1.3M states in 30 s.
  - `Vals` is symmetric: the values are only compared for equality.
- `monitor_live` uses one value, 2 RPCs, no cancellation and no symmetry, because liveness checking with symmetry is unsound. It is the run with `GetData` errors and the disconnect (`GetDataMayFail`, `ClientMayClose`): two RPCs reach a failed monitor followed by a second one, or a disconnect during either. About 126,000 states in 50 s. The safety runs leave both out: a closed connection writes nothing, so they add nothing to the orderings those runs check, and with them the `monitor` run takes five minutes.
- `updater_batchdel` uses a set over {1} and a map over {a} so that pairs of writes stay enumerable: 12 rows, with every column kind present (436 states).
- `pidfile`: two servers, three pids, two starts each, and foreign programs. Two starts are needed for a restart to meet a leftover file; three pids let a foreign program hold a pid while both servers run. Servers and pids are symmetric. About 8,300 states.
- `server`: two connections and two methods, with Accept errors allowed. Two connections are the fewest for the shared map and for `wg.Wait` to race a live goroutine. With `list_dbs` as the one Service method, about 145,000 states.
- `locks`: two connections, three Lockers, two calls per connection, and two requests of a connection running at once (`MaxTasks`, jrpc2's `Concurrency`, which is the `-max` flag, default 1). Two requests at once are needed for two Lock calls of one connection to race between `GetLock` and the store; two calls per connection are the fewest for Lock and Unlock to interleave with the other connection's Lock; three Lockers let both connections create one and one be recreated after a store race. About 267,000 states in 30 s. `locks_exclusive` needs three calls of one connection (lock, unlock, lock) and runs with the default of one request at once.

Deadlock is checked. In `PidFile`, `Idle` stutters once every server is down with its starts used. In `Server`, it stutters once the process has aborted, or every connection is done or can no longer be accepted. In `Monitor`, `Idle` lets the system stutter only once every bound is used and every process waits: the watch goroutine is stopped or has consumed the stream, and no RPC is in progress.

### Fairness

Fairness is weak, and only on the server's two goroutines:
- the watch goroutine: `WatchReceive`, `HandlerNotify`, `MonitorCanceledNotification`;
- the RPC goroutine: `GetTableData`, `Reply`;
- the server goroutine that calls `Cleanup` after `srv.Wait`.

Once started, these loops run to completion without waiting on anything but the Go scheduler. etcd's redelivery and cancellation, the writers and the client get no fairness, because nothing obliges them to act.

In `Server`, the steps of the server's goroutines get weak fairness: `Accept`, `AddClientHandler`, `StartServer`, `Return`, `Stop`, `ConnExit`, `Cleanup` and `LoopReturns`. The client's `Dial`, `Call` and `Close`, the Accept error and the runtime abort get none. `PidFile` checks only safety and has no fairness.

In `Locks`, every step of a Lock or Unlock call and of the `lock()` goroutine, `Cleanup` and `CancelContext` get weak fairness: they are goroutines that run when scheduled. `LeaseEnd` gets weak fairness too: etcd revokes the lease of a canceled session. The clients' requests and disconnects get none.

## Not modelled (yet)

- `Steal`, which returns an error and changes nothing.
- Batches with several rows in `Monitor`. The replacement of an earlier RowUpdate of the same uuid is checked in `MCUpdater`.
- Select flags. `Updater` models them (`MSIsTrue` on each flag), but `MCUpdater` and `Monitor` only use absent flags, which count as TRUE, so a FALSE flag is never explored. Column projections are covered in `MCUpdater`, not in `Monitor`.
- `prepareCreateRowInitial` errors in `getMonitoredData`: rows in the model are well formed.
- Transact, the schema and the Databaser. These are outside `src/`.
- In `server.go`:
  - the log lines;
  - what the Service methods do (they are dispatched, not modelled);
  - `setServerData`'s content: it is one step that succeeds or is fatal;
  - the second listener, which runs the same `loop`.
- The e2e test appended to `server.go`.
- The unused `notifier` goroutine.

## Plan for later sittings

1. `Locks`: a waiter eventually locks when the holder unlocks (liveness under the etcd FIFO).
2. An abstract `MonitorStream` spec: the client replica equals the projection of the store at the last revision it was sent. Check `Monitor` against it with `INSTANCE ... WITH` a mapping from `conn` to the replica. The known splice race is excluded by running it on the fixed ordering.
3. Monitors with two tables and several `mcr`s per table, for `removeUpdaters` over several keys and `getMonitoredData`'s per-updater overwrite.
