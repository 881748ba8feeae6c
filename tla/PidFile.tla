------------------------------- MODULE PidFile -------------------------------
(***************************************************************************)
(* The pid-file protocol of the server process (src/pkg/cmd/server/       *)
(* server.go): main calls setupPIDFile before it connects to etcd and      *)
(* defers delPidfile, which runs when main returns after a signal.         *)
(* Several server processes may be started on one host, one after the      *)
(* other or at once; each may be killed at any step.  Other programs take  *)
(* and release pids, which the kernel reuses.                              *)
(*                                                                         *)
(* Each file-system or /proc call is one step, so other processes          *)
(* interleave between a check and the write that relies on it.  klog.Fatal *)
(* is os.Exit: deferred calls, delPidfile included, do not run.            *)
(***************************************************************************)
EXTENDS Naturals, FiniteSets

CONSTANTS
  Servers,     \* server processes (each may be started several times)
  Pids,        \* the kernel's pids
  Nil,
  MaxStarts,   \* bound: starts of each server process
  Foreign      \* whether other programs take pids

VARIABLES
  file,        \* the pid file: the pid written in it, or Nil
  alive,       \* pids with a /proc entry
  foreign,     \* pids held by other programs
  pc,          \* [Servers -> step of main]
  pid,         \* [Servers -> os.Getpid() of the current run, or Nil]
  read,        \* [Servers -> pid setupPIDFile read from the file]
  starts       \* [Servers -> runs started so far]

vars == <<file, alive, foreign, pc, pid, read, starts>>

\* The process ends: its pid leaves /proc.
Die(s) ==
  /\ pc' = [pc EXCEPT ![s] = "down"]
  /\ pid' = [pid EXCEPT ![s] = Nil]
  /\ alive' = alive \ {pid[s]}

Goto(s, step) == pc' = [pc EXCEPT ![s] = step]

(***************************************************************************)
(* main up to setupPIDFile: the flags name a pid file.                     *)
(***************************************************************************)
\* A process is started; klog and the flags are initialised.
Start(s, p) ==
  /\ pc[s] = "down"
  /\ starts[s] < MaxStarts
  /\ p \notin alive
  /\ alive' = alive \cup {p}
  /\ pid' = [pid EXCEPT ![s] = p]
  /\ starts' = [starts EXCEPT ![s] = @ + 1]
  /\ Goto(s, "flags")
  /\ UNCHANGED <<file, foreign, read>>

\* No listen address, or a bad database prefix or service name:
\* klog.Fatal before the pid file is touched.
CheckFlags(s) ==
  /\ pc[s] = "flags"
  /\ \/ Goto(s, "stat") /\ UNCHANGED <<alive, pid>>
     \/ Die(s)
  /\ UNCHANGED <<file, foreign, read, starts>>

(***************************************************************************)
(* setupPIDFile                                                            *)
(***************************************************************************)
\* os.Stat(pidfile): a missing file is created, else it is read.
StatPidFile(s) ==
  /\ pc[s] = "stat"
  /\ Goto(s, IF file = Nil THEN "create" ELSE "read")
  /\ UNCHANGED <<file, alive, foreign, pid, read, starts>>

\* ioutil.WriteFile of os.Getpid(), at either of its two call sites; an
\* error is logged and ignored.
WritePid(s) ==
  /\ pc[s] \in {"create", "overwrite"}
  /\ file' = pid[s]
  /\ Goto(s, "bootstrap")
  /\ UNCHANGED <<alive, foreign, pid, read, starts>>

\* Mutant: the ReadFile error ignored; a missing file reads as nothing.
ReadPidFileIgnoreError(s) ==
  /\ pc[s] = "read"
  /\ read' = [read EXCEPT ![s] = file]
  /\ Goto(s, "check")
  /\ UNCHANGED <<file, alive, foreign, pid, starts>>

\* ioutil.ReadFile: a file gone since the Stat is an error, and main's
\* klog.Fatal ends the process.
ReadPidFile(s) ==
  /\ pc[s] = "read"
  /\ \/ /\ file = Nil
        /\ Die(s)
        /\ UNCHANGED read
     \/ /\ file # Nil
        /\ read' = [read EXCEPT ![s] = file]
        /\ Goto(s, "check")
        /\ UNCHANGED <<alive, pid>>
  /\ UNCHANGED <<file, foreign, starts>>

\* os.Stat("/proc/" + pid + "/cmdline"): a pid without a /proc entry is a
\* leftover of a dead process and the file is overwritten; otherwise
\* setupPIDFile fails ("exists and ovnkube is running") and klog.Fatal
\* ends the process, even when the pid is not a server's.
CheckProc(s) ==
  /\ pc[s] = "check"
  /\ \/ /\ read[s] \notin alive
        /\ Goto(s, "overwrite")
        /\ UNCHANGED <<alive, pid>>
     \/ /\ read[s] \in alive
        /\ Die(s)
  /\ UNCHANGED <<file, foreign, read, starts>>

(***************************************************************************)
(* main after setupPIDFile                                                 *)
(***************************************************************************)
\* Each step after setupPIDFile that may fail ends in klog.Fatal, which
\* exits without running delPidfile.
MayFail(s, next) ==
  /\ \/ Goto(s, next) /\ UNCHANGED <<alive, pid>>
     \/ Die(s)
  /\ UNCHANGED <<file, foreign, read, starts>>

\* The etcd members, the etcd client and the two schemas.
Bootstrap(s) ==
  /\ pc[s] = "bootstrap"
  /\ MayFail(s, "serverdata")

\* setServerData puts a _Server Database row per schema, with a 100 ms
\* timeout; then the optional loadServerData.
SetServerData(s) ==
  /\ pc[s] = "serverdata"
  /\ MayFail(s, "listen")

\* net.Listen on the TCP address, os.RemoveAll of the Unix socket and
\* net.Listen on it; the signals are already caught, so a signal from here
\* on is handled by the select.
Listen(s) ==
  /\ pc[s] = "listen"
  /\ MayFail(s, "serving")

\* A signal: main cancels its context and returns; the deferred calls run,
\* delPidfile among them.
Signal(s) ==
  /\ pc[s] = "serving"
  /\ Goto(s, "delstat")
  /\ UNCHANGED <<file, alive, foreign, pid, read, starts>>

\* delPidfile: os.Stat, then os.Remove of whatever file is there.
DelStat(s) ==
  /\ pc[s] = "delstat"
  /\ \/ /\ file # Nil
        /\ Goto(s, "remove")
        /\ UNCHANGED <<alive, pid>>
     \/ /\ file = Nil
        /\ Die(s)
  /\ UNCHANGED <<file, foreign, read, starts>>

RemovePidFile(s) ==
  /\ pc[s] = "remove"
  /\ file' = Nil
  /\ Die(s)
  /\ UNCHANGED <<foreign, read, starts>>

\* The process is killed at any step.
Crash(s) ==
  /\ pc[s] # "down"
  /\ Die(s)
  /\ UNCHANGED <<file, foreign, read, starts>>

(***************************************************************************)
(* Other programs                                                          *)
(***************************************************************************)
ForeignStart(p) ==
  /\ Foreign
  /\ p \notin alive
  /\ alive' = alive \cup {p}
  /\ foreign' = foreign \cup {p}
  /\ UNCHANGED <<file, pc, pid, read, starts>>

ForeignExit(p) ==
  /\ p \in foreign
  /\ alive' = alive \ {p}
  /\ foreign' = foreign \ {p}
  /\ UNCHANGED <<file, pc, pid, read, starts>>

\* Every server has used its starts and is down.
Idle ==
  /\ \A s \in Servers : pc[s] = "down" /\ starts[s] = MaxStarts
  /\ UNCHANGED vars

Init ==
  /\ file = Nil
  /\ alive = {}
  /\ foreign = {}
  /\ pc = [s \in Servers |-> "down"]
  /\ pid = [s \in Servers |-> Nil]
  /\ read = [s \in Servers |-> Nil]
  /\ starts = [s \in Servers |-> 0]

Next ==
  \/ \E s \in Servers, p \in Pids : Start(s, p)
  \/ \E s \in Servers :
       \/ CheckFlags(s) \/ StatPidFile(s) \/ WritePid(s) \/ ReadPidFile(s)
       \/ CheckProc(s) \/ Bootstrap(s) \/ SetServerData(s) \/ Listen(s) \/ Signal(s) \/ DelStat(s) \/ RemovePidFile(s)
       \/ Crash(s)
  \/ \E p \in Pids : ForeignStart(p) \/ ForeignExit(p)
  \/ Idle

Spec == Init /\ [][Next]_vars

(***************************************************************************)
(* Properties                                                              *)
(***************************************************************************)
Running == {s \in Servers : pc[s] \in {"bootstrap", "serverdata", "listen", "serving",
                                       "delstat", "remove"}}

(* The server runs, pid and file have their types; a live server's pid is *)
(* in /proc, no two live processes share a pid, and the pid /proc is     *)
(* checked for is one ReadFile returned.                                   *)
TypeOK ==
  /\ file \in Pids \cup {Nil}
  /\ alive \subseteq Pids /\ foreign \subseteq alive
  /\ pc \in [Servers -> {"down", "flags", "stat", "create", "read", "check", "overwrite",
                         "bootstrap", "serverdata", "listen", "serving", "delstat",
                         "remove"}]
  /\ \A s \in Servers : (pc[s] = "down") = (pid[s] = Nil)
  /\ \A s \in Servers : pc[s] = "check" => read[s] \in Pids
  /\ \A s \in Servers : pid[s] # Nil => pid[s] \in alive \ foreign
  /\ \A s, q \in Servers : s # q /\ pid[s] # Nil => pid[s] # pid[q]

(* setupPIDFile: "Create if it doesn't exist, else exit with error" when   *)
(* the pid in it is running: the pid file lets at most one server run on   *)
(* the host at a time.                                                     *)
SingleServer == Cardinality(Running) <= 1

=============================================================================
