-------------------------------- MODULE Locks --------------------------------
(***************************************************************************)
(* The OVSDB lock RPCs of the per-connection Handler (part_001 Lock,      *)
(* Unlock, Cleanup) for one lock id, with several connections contending   *)
(* for it.  jrpc2 runs up to MaxTasks requests of a connection at once     *)
(* (server.go Concurrency: *maxTasks); a Lock that finds the lock taken    *)
(* returns locked:false and leaves a goroutine in myLock.lock() that sends *)
(* the "locked" notification.                                              *)
(*                                                                         *)
(* The Locker that Databaser.GetLock returns is not in this repository.    *)
(* It is modelled as an etcd mutex: the lock's keys form a queue ordered   *)
(* by creation and the head holds the lock; tryLock fails with ErrLocked   *)
(* when another key is first; lock() adds its key and waits to be first,   *)
(* or fails and deletes its key once its context is canceled; unlock()     *)
(* deletes the key; cancel() cancels the Locker's context, and the key of  *)
(* a canceled Locker goes when its session's lease ends.                   *)
(***************************************************************************)
EXTENDS Naturals, FiniteSets, Sequences, SequencesExt

CONSTANTS
  Conns,      \* client connections, each with its Handler
  Lockers,    \* the Lockers GetLock can return (bound: GetLock calls)
  Nil,
  MaxCalls,   \* bound: lock and unlock requests per connection
  MaxTasks    \* jrpc2 Concurrency: requests of a connection run at once

Calls == Conns \X (1..MaxCalls)

VARIABLES
  queue,          \* etcd: the lock's keys, by creation revision; Head holds it
  canceled,       \* Lockers whose context is canceled
  creator,        \* [Lockers -> connection whose Handler got it from GetLock]
  databaseLocks,  \* [Conns -> ch.databaseLocks[id]]
  conn,           \* [Conns -> "open", "closed", "cleaned", "done"]
  sent,           \* [Conns -> requests sent]
  pc,             \* [Calls -> step of the RPC goroutine]
  myLock,         \* [Calls -> the RPC's myLock]
  gpc,            \* [Calls -> step of the lock() goroutine the RPC started]
  holds           \* [Conns -> the client was told it holds the lock]

vars == <<queue, canceled, creator, databaseLocks, conn, sent, pc, myLock, gpc,
          holds>>

Owner == IF queue = <<>> THEN Nil ELSE Head(queue)

Active(c) == {k \in 1..MaxCalls : pc[<<c, k>>] \notin {"none", "done"}}

\* The client hears a reply or notification only while it is connected.
Tell(c, h) == holds' = [holds EXCEPT ![c] = IF conn[c] = "open" THEN h ELSE @]

Goto(r, step) == pc' = [pc EXCEPT ![r] = step]

(***************************************************************************)
(* The client                                                              *)
(***************************************************************************)
Send(c, op) ==
  /\ conn[c] = "open"
  /\ sent[c] < MaxCalls
  /\ Cardinality(Active(c)) < MaxTasks
  /\ sent' = [sent EXCEPT ![c] = @ + 1]
  /\ Goto(<<c, sent[c] + 1>>, op)
  /\ UNCHANGED <<queue, canceled, creator, databaseLocks, conn, myLock, gpc, holds>>

Close(c) ==
  /\ conn[c] = "open"
  /\ conn' = [conn EXCEPT ![c] = "closed"]
  /\ holds' = [holds EXCEPT ![c] = FALSE]
  /\ UNCHANGED <<queue, canceled, creator, databaseLocks, sent, pc, myLock, gpc>>

(***************************************************************************)
(* Handler.Lock                                                            *)
(***************************************************************************)
\* Mutant: the !ok test dropped; a missing entry is used as myLock.
LockLookupNoCheck(r) ==
  /\ pc[r] = "lock"
  /\ myLock' = [myLock EXCEPT ![r] = databaseLocks[r[1]]]
  /\ Goto(r, "try")
  /\ UNCHANGED <<queue, canceled, creator, databaseLocks, conn, sent, gpc, holds>>

\* myLock, ok := ch.databaseLocks[id] under ch.mu.
LockLookup(r) ==
  /\ pc[r] = "lock"
  /\ IF databaseLocks[r[1]] = Nil
       THEN Goto(r, "getlock") /\ UNCHANGED myLock
       ELSE /\ myLock' = [myLock EXCEPT ![r] = databaseLocks[r[1]]]
            /\ Goto(r, "try")
  /\ UNCHANGED <<queue, canceled, creator, databaseLocks, conn, sent, gpc, holds>>

\* ch.db.GetLock without ch.mu: a new Locker, or an error returned.
GetLock(r) ==
  /\ pc[r] = "getlock"
  /\ \/ \E l \in Lockers :
          /\ creator[l] = Nil
          /\ creator' = [creator EXCEPT ![l] = r[1]]
          /\ myLock' = [myLock EXCEPT ![r] = l]
          /\ Goto(r, "store")
     \/ /\ Goto(r, "done")
        /\ UNCHANGED <<creator, myLock>>
  /\ UNCHANGED <<queue, canceled, databaseLocks, conn, sent, gpc, holds>>

\* Mutant: the Locker that lost the race is not canceled.
StoreLockNoCancel(r) ==
  /\ pc[r] = "store"
  /\ IF databaseLocks[r[1]] = Nil
       THEN /\ databaseLocks' = [databaseLocks EXCEPT ![r[1]] = myLock[r]]
            /\ UNCHANGED myLock
       ELSE /\ myLock' = [myLock EXCEPT ![r] = databaseLocks[r[1]]]
            /\ UNCHANGED databaseLocks
  /\ Goto(r, "try")
  /\ UNCHANGED <<queue, canceled, creator, conn, sent, gpc, holds>>

\* Under ch.mu again: store myLock, or cancel it and use the Locker another
\* request stored meanwhile.
StoreLock(r) ==
  /\ pc[r] = "store"
  /\ IF databaseLocks[r[1]] = Nil
       THEN /\ databaseLocks' = [databaseLocks EXCEPT ![r[1]] = myLock[r]]
            /\ UNCHANGED <<canceled, myLock>>
       ELSE /\ canceled' = canceled \cup {myLock[r]}
            /\ myLock' = [myLock EXCEPT ![r] = databaseLocks[r[1]]]
            /\ UNCHANGED databaseLocks
  /\ Goto(r, "try")
  /\ UNCHANGED <<queue, creator, conn, sent, gpc, holds>>

\* myLock.tryLock(): locked:true; ErrLocked starts the lock() goroutine and
\* replies locked:false; any other error (a canceled context) is returned.
TryLock(r) ==
  /\ pc[r] = "try"
  /\ LET l == myLock[r] IN
     \/ /\ l \in canceled
        /\ UNCHANGED <<queue, gpc, holds>>
     \/ /\ l \notin canceled
        /\ Owner \in {Nil, l}
        /\ queue' = IF Contains(queue, l) THEN queue ELSE Append(queue, l)
        /\ Tell(r[1], TRUE)
        /\ UNCHANGED gpc
     \/ /\ l \notin canceled
        /\ Owner \notin {Nil, l}
        /\ gpc' = [gpc EXCEPT ![r] = "enq"]
        /\ Tell(r[1], FALSE)
        /\ UNCHANGED queue
  /\ Goto(r, "done")
  /\ UNCHANGED <<canceled, creator, databaseLocks, conn, sent, myLock>>

(***************************************************************************)
(* The goroutine: err = myLock.lock(), then Notify "locked"                *)
(***************************************************************************)
LockEnqueue(r) ==
  /\ gpc[r] = "enq"
  /\ IF myLock[r] \in canceled
       THEN gpc' = [gpc EXCEPT ![r] = "done"] /\ UNCHANGED queue
       ELSE /\ queue' = IF Contains(queue, myLock[r]) THEN queue
                        ELSE Append(queue, myLock[r])
            /\ gpc' = [gpc EXCEPT ![r] = "wait"]
  /\ UNCHANGED <<canceled, creator, databaseLocks, conn, sent, pc, myLock, holds>>

LockAcquired(r) ==
  /\ gpc[r] = "wait"
  /\ myLock[r] \notin canceled
  /\ Owner = myLock[r]
  /\ gpc' = [gpc EXCEPT ![r] = "notify"]
  /\ UNCHANGED <<queue, canceled, creator, databaseLocks, conn, sent, pc, myLock, holds>>

\* lock() returns the context's error and deletes its key.
LockAborted(r) ==
  /\ gpc[r] = "wait"
  /\ myLock[r] \in canceled
  /\ queue' = Remove(queue, myLock[r])
  /\ gpc' = [gpc EXCEPT ![r] = "done"]
  /\ UNCHANGED <<canceled, creator, databaseLocks, conn, sent, pc, myLock, holds>>

\* ch.connection.Notify(..., "locked", [id]); it fails once the client
\* has gone.
NotifyLocked(r) ==
  /\ gpc[r] = "notify"
  /\ gpc' = [gpc EXCEPT ![r] = "done"]
  /\ Tell(r[1], TRUE)
  /\ UNCHANGED <<queue, canceled, creator, databaseLocks, conn, sent, pc, myLock>>

(***************************************************************************)
(* Handler.Unlock                                                          *)
(***************************************************************************)
\* Mutant: the entry is read but not deleted.
UnlockNoDelete(r) ==
  /\ pc[r] = "unlock"
  /\ IF databaseLocks[r[1]] = Nil
       THEN /\ Goto(r, "done")
            /\ Tell(r[1], FALSE)
            /\ UNCHANGED myLock
       ELSE /\ myLock' = [myLock EXCEPT ![r] = databaseLocks[r[1]]]
            /\ Goto(r, "cancel")
            /\ UNCHANGED holds
  /\ UNCHANGED <<queue, canceled, creator, databaseLocks, conn, sent, gpc>>

\* Under ch.mu: read and delete the entry; a missing one is answered at once.
Unlock(r) ==
  /\ pc[r] = "unlock"
  /\ databaseLocks' = [databaseLocks EXCEPT ![r[1]] = Nil]
  /\ IF databaseLocks[r[1]] = Nil
       THEN /\ Goto(r, "done")
            /\ Tell(r[1], FALSE)
            /\ UNCHANGED myLock
       ELSE /\ myLock' = [myLock EXCEPT ![r] = databaseLocks[r[1]]]
            /\ Goto(r, "cancel")
            /\ UNCHANGED holds
  /\ UNCHANGED <<queue, canceled, creator, conn, sent, gpc>>

\* myLock.cancel(), then the empty reply.
UnlockCancel(r) ==
  /\ pc[r] = "cancel"
  /\ canceled' = canceled \cup {myLock[r]}
  /\ Goto(r, "done")
  /\ Tell(r[1], FALSE)
  /\ UNCHANGED <<queue, creator, databaseLocks, conn, sent, myLock, gpc>>

(***************************************************************************)
(* Disconnect: srv.Wait, handler.Cleanup, then the deferred cancel of the  *)
(* handler context (server.go), from which every Locker's context derives. *)
(***************************************************************************)
Cleanup(c) ==
  /\ conn[c] = "closed"
  /\ Active(c) = {}
  /\ queue' = IF databaseLocks[c] = Nil THEN queue ELSE Remove(queue, databaseLocks[c])
  /\ conn' = [conn EXCEPT ![c] = "cleaned"]
  /\ UNCHANGED <<canceled, creator, databaseLocks, sent, pc, myLock, gpc, holds>>

\* Mutant: the handler context is never canceled.
CancelContextMissing(c) ==
  /\ conn[c] = "cleaned"
  /\ conn' = [conn EXCEPT ![c] = "done"]
  /\ UNCHANGED <<queue, canceled, creator, databaseLocks, sent, pc, myLock, gpc, holds>>

CancelContext(c) ==
  /\ conn[c] = "cleaned"
  /\ canceled' = canceled \cup {l \in Lockers : creator[l] = c}
  /\ conn' = [conn EXCEPT ![c] = "done"]
  /\ UNCHANGED <<queue, creator, databaseLocks, sent, pc, myLock, gpc, holds>>

(***************************************************************************)
(* etcd: the lease of a canceled Locker's session ends and its key goes.   *)
(***************************************************************************)
LeaseEnd(l) ==
  /\ l \in canceled
  /\ Contains(queue, l)
  /\ queue' = Remove(queue, l)
  /\ UNCHANGED <<canceled, creator, databaseLocks, conn, sent, pc, myLock, gpc, holds>>

\* Every connection is gone; what goroutines and leases still owe is up to
\* fairness.
Idle ==
  /\ \A c \in Conns : conn[c] = "done"
  /\ UNCHANGED vars

Init ==
  /\ queue = <<>>
  /\ canceled = {}
  /\ creator = [l \in Lockers |-> Nil]
  /\ databaseLocks = [c \in Conns |-> Nil]
  /\ conn = [c \in Conns |-> "open"]
  /\ sent = [c \in Conns |-> 0]
  /\ pc = [r \in Calls |-> "none"]
  /\ myLock = [r \in Calls |-> Nil]
  /\ gpc = [r \in Calls |-> "none"]
  /\ holds = [c \in Conns |-> FALSE]

HandlerStep(r) ==
  \/ LockLookup(r) \/ GetLock(r) \/ StoreLock(r) \/ TryLock(r)
  \/ Unlock(r) \/ UnlockCancel(r)

GoroutineStep(r) ==
  LockEnqueue(r) \/ LockAcquired(r) \/ LockAborted(r) \/ NotifyLocked(r)

Next ==
  \/ \E c \in Conns : Send(c, "lock") \/ Send(c, "unlock") \/ Close(c)
                      \/ Cleanup(c) \/ CancelContext(c)
  \/ \E r \in Calls : HandlerStep(r) \/ GoroutineStep(r)
  \/ \E l \in Lockers : LeaseEnd(l)
  \/ Idle

\* The server's goroutines run, and etcd ends the lease of a canceled
\* session; the clients need not send or close anything.
Fairness ==
  /\ \A r \in Calls : WF_vars(HandlerStep(r)) /\ WF_vars(GoroutineStep(r))
  /\ \A c \in Conns : WF_vars(Cleanup(c)) /\ WF_vars(CancelContext(c))
  /\ \A l \in Lockers : WF_vars(LeaseEnd(l))

Spec == Init /\ [][Next]_vars /\ Fairness


(***************************************************************************)
(* Properties                                                              *)
(***************************************************************************)
(* The variables have their types, and an RPC that calls tryLock has a     *)
(* Locker to call it on.                                                   *)
TypeOK ==
  /\ queue \in Seq(Lockers) /\ canceled \subseteq Lockers
  /\ creator \in [Lockers -> Conns \cup {Nil}]
  /\ databaseLocks \in [Conns -> Lockers \cup {Nil}]
  /\ conn \in [Conns -> {"open", "closed", "cleaned", "done"}]
  /\ pc \in [Calls -> {"none", "lock", "getlock", "store", "try", "unlock", "cancel", "done"}]
  /\ gpc \in [Calls -> {"none", "enq", "wait", "notify", "done"}]
  /\ \A r \in Calls : pc[r] = "try" => myLock[r] \in Lockers

(* Lock's two ch.mu sections around GetLock leave the Handler with one     *)
(* live Locker for the id: while the connection is up, a Locker GetLock    *)
(* made is uncanceled exactly when it is ch.databaseLocks[id] or is held   *)
(* by a Lock about to store it or an Unlock about to cancel it.  A lost    *)
(* race that is not canceled would hold an etcd key nobody unlocks; a     *)
(* stored canceled Locker would make every later Lock fail.                *)
LockersConsistent ==
  \A l \in Lockers :
    creator[l] # Nil /\ conn[creator[l]] \in {"open", "closed"} =>
      ((l \notin canceled) <=>
         \/ l = databaseLocks[creator[l]]
         \/ \E r \in Calls : pc[r] \in {"store", "cancel"} /\ myLock[r] = l)

(* RFC 7047 locks are exclusive: at most one client has been told (by a    *)
(* locked:true reply or a "locked" notification, and no unlock since) that *)
(* it holds the lock.                                                      *)
ExclusiveClients == Cardinality({c \in Conns : holds[c]}) <= 1

(* Once a client disconnects, the etcd keys of its Handler's Lockers are   *)
(* eventually gone for good (Cleanup's unlock, the canceled handler        *)
(* context ending lock() waits and refusing new ones, the lease of         *)
(* canceled sessions), so other clients are not locked out.  A goroutine  *)
(* still in lock() may add a key back after Cleanup's unlock.             *)
NoKeyOf(c) == \A l \in Lockers : creator[l] = c => ~Contains(queue, l)

DisconnectReleasesLocks ==
  \A c \in Conns : conn[c] = "closed" ~> [](NoKeyOf(c))

=============================================================================
