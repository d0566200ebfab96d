--------------------------- MODULE DaemonLifecycle ---------------------------
(***************************************************************************)
(* The bridge daemons of one user, from the start to the exit of their     *)
(* processes, and the commands that start and stop them.  Three things     *)
(* tell whether a daemon runs: the lock file, the runtime manifest, and    *)
(* the port.  Pids are numbers, and none is reused.                        *)
(***************************************************************************)
EXTENDS Naturals, FiniteSets

CONSTANTS MaxPids  \* bound on the processes that are started

VARIABLES
  daemonProcs,     \* the processes
  daemonLock,      \* the pid that made the lock file, 0 if there is none
  daemonLockTorn,  \* the lock file is still empty
  daemonManifest,  \* the pid in the runtime manifest
  daemonPort,      \* the pid that listens
  daemonStop,      \* the pid whose exit a stop command awaits
  daemonFaults     \* history: starts that raced for the lock, a listen that failed, a daemon
                   \* that outlived the stop command for it

daemonVars == <<daemonProcs, daemonLock, daemonLockTorn, daemonManifest, daemonPort,
                daemonStop, daemonFaults>>

Pids == 1 .. MaxPids
NoPid == 0

\* Before the lock is taken; then up to the signal handlers; then the daemon
\* and its shutdown; and the two halves of a start that fails.
Acquiring == {"new", "stale", "unlinked", "creating"}
Holding == {"locked", "ready", "listening", "running", "closing", "closed", "failing"}
Alive == Acquiring \cup Holding \cup {"failed"}

DaemonTypeOK ==
  /\ daemonProcs \in [Pids -> Alive \cup {"none", "dead"}]
  /\ {daemonLock, daemonManifest, daemonPort, daemonStop} \subseteq Pids \cup {NoPid}
  /\ daemonLockTorn \in BOOLEAN
  /\ daemonFaults \subseteq {"raced", "failed", "stopped"}

DaemonInit ==
  /\ daemonProcs = [p \in Pids |-> "none"]
  /\ daemonLock = NoPid /\ daemonManifest = NoPid /\ daemonPort = NoPid /\ daemonStop = NoPid
  /\ daemonLockTorn = FALSE
  /\ daemonFaults = {}

isProcessRunning(p) == p # NoPid /\ daemonProcs[p] \in Alive
Becomes(p, phase) == daemonProcs' = [daemonProcs EXCEPT ![p] = phase]
files == <<daemonLock, daemonLockTorn, daemonManifest>>

Unlinked == daemonLock' = NoPid /\ daemonLockTorn' = FALSE

-----------------------------------------------------------------------------
(* acquireBridgeRuntimeLock                                                *)

\* An empty file cannot be parsed, and counts as stale.
lockIsHeld == ~daemonLockTorn /\ isProcessRunning(daemonLock)

\* Faulty: a lock that is held is taken over like a stale one.
ReadLockUnchecked(p) ==
  /\ daemonProcs[p] = "new"
  /\ Becomes(p, "stale")
  /\ daemonFaults' = daemonFaults \cup
       {f \in {"raced"} : \E q \in Pids \ {p} : daemonProcs[q] \in {"stale", "unlinked", "creating"}}
  /\ UNCHANGED <<files, daemonPort, daemonStop>>

ReadLock(p) ==
  /\ daemonProcs[p] = "new"
  /\ Becomes(p, IF lockIsHeld THEN "dead" ELSE "stale")
  /\ daemonFaults' = daemonFaults \cup
       {f \in {"raced"} : \E q \in Pids \ {p} : daemonProcs[q] \in {"stale", "unlinked", "creating"}}
  /\ UNCHANGED <<files, daemonPort, daemonStop>>

UnlinkLock(p) ==
  /\ daemonProcs[p] = "stale"
  /\ Becomes(p, "unlinked")
  /\ Unlinked
  /\ UNCHANGED <<daemonManifest, daemonPort, daemonStop, daemonFaults>>

CreateLock(p) ==
  /\ daemonProcs[p] = "unlinked"
  /\ IF daemonLock = NoPid
     THEN Becomes(p, "creating") /\ daemonLock' = p /\ daemonLockTorn' = TRUE
     ELSE Becomes(p, "dead") /\ UNCHANGED <<daemonLock, daemonLockTorn>>
  /\ UNCHANGED <<daemonManifest, daemonPort, daemonStop, daemonFaults>>

\* The file may be unlinked by now: what is written to it is lost.
WriteLock(p) ==
  /\ daemonProcs[p] = "creating"
  /\ Becomes(p, "locked")
  /\ daemonLockTorn' = (daemonLockTorn /\ daemonLock # p)
  /\ UNCHANGED <<daemonLock, daemonManifest, daemonPort, daemonStop, daemonFaults>>

-----------------------------------------------------------------------------
(* runBridgeDaemon                                                         *)

Run ==
  \E p \in Pids :
    /\ daemonProcs[p] = "none" /\ \A q \in 1 .. p - 1 : daemonProcs[q] # "none"
    /\ Becomes(p, "new")
    /\ UNCHANGED <<files, daemonPort, daemonStop, daemonFaults>>

Initialized(p) ==
  /\ daemonProcs[p] = "locked"
  /\ Becomes(p, "ready")
  /\ UNCHANGED <<files, daemonPort, daemonStop, daemonFaults>>

InitializeFails(p) ==
  /\ daemonProcs[p] = "locked"
  /\ Becomes(p, "failed")
  /\ UNCHANGED <<files, daemonPort, daemonStop, daemonFaults>>

Listen(p) ==
  /\ daemonProcs[p] = "ready"
  /\ daemonPort = NoPid
  /\ Becomes(p, "listening")
  /\ daemonPort' = p
  /\ UNCHANGED <<files, daemonStop, daemonFaults>>

\* Another daemon, or another program, has the port.
ListenFails(p) ==
  /\ daemonProcs[p] = "ready"
  /\ Becomes(p, "failing")
  /\ daemonFaults' = daemonFaults \cup {"failed"}
  /\ UNCHANGED <<files, daemonPort, daemonStop>>

WriteManifest(p) ==
  /\ daemonProcs[p] = "listening"
  /\ Becomes(p, "running")
  /\ daemonManifest' = p
  /\ UNCHANGED <<daemonLock, daemonLockTorn, daemonPort, daemonStop, daemonFaults>>

\* Faulty: the lock is released before the manifest is removed.
ServerClosedUnlocked(p) ==
  /\ daemonProcs[p] = "closing"
  /\ Becomes(p, "closed")
  /\ daemonPort' = NoPid
  /\ Unlinked
  /\ UNCHANGED <<daemonManifest, daemonStop, daemonFaults>>

\* bridgeServer.close has closed the port.
ServerClosed(p) ==
  /\ daemonProcs[p] = "closing"
  /\ Becomes(p, "closed")
  /\ daemonPort' = NoPid
  /\ UNCHANGED <<files, daemonStop, daemonFaults>>

\* Manifest and lock are removed without a look at whose they are.
ShutdownEnds(p) ==
  /\ daemonProcs[p] \in {"closed", "failing"}
  /\ Becomes(p, IF daemonProcs[p] = "closed" THEN "dead" ELSE "failed")
  /\ daemonManifest' = NoPid
  /\ Unlinked
  /\ UNCHANGED <<daemonPort, daemonStop, daemonFaults>>

\* The outer catch releases the lock, also when the shutdown has done so.
StartFails(p) ==
  /\ daemonProcs[p] = "failed"
  /\ Becomes(p, "dead")
  /\ Unlinked
  /\ UNCHANGED <<daemonManifest, daemonPort, daemonStop, daemonFaults>>

\* A signal ends a process that has no handler yet, or whose handler, which
\* serves once, is spent.
Dies(p) ==
  /\ Becomes(p, "dead")
  /\ daemonPort' = IF daemonPort = p THEN NoPid ELSE daemonPort

Killed(p) == daemonProcs[p] \in Alive /\ Dies(p) /\ UNCHANGED <<files, daemonStop, daemonFaults>>

-----------------------------------------------------------------------------
(* The commands                                                            *)

live == IF isProcessRunning(daemonManifest) THEN daemonManifest ELSE NoPid
startingPid == IF live = NoPid /\ lockIsHeld THEN daemonLock ELSE NoPid

getDaemonStatus ==
  [pid |-> IF live # NoPid THEN live ELSE startingPid,
   reachable |-> live # NoPid /\ daemonPort # NoPid]

Start ==
  /\ live = NoPid /\ startingPid = NoPid
  /\ \E p \in Pids :
       /\ daemonProcs[p] = "none" /\ \A q \in 1 .. p - 1 : daemonProcs[q] # "none"
       /\ Becomes(p, "new")
  /\ daemonManifest' = NoPid
  /\ UNCHANGED <<daemonLock, daemonLockTorn, daemonPort, daemonStop, daemonFaults>>

\* One stop command is followed at a time; a restart is a stop and a start.
Stop ==
  /\ daemonStop = NoPid
  /\ LET pid == IF live # NoPid THEN live ELSE startingPid
     IN  IF pid = NoPid
         THEN /\ daemonManifest' = NoPid
              /\ UNCHANGED <<daemonProcs, daemonPort, daemonStop, daemonFaults>>
         ELSE /\ IF daemonProcs[pid] = "running"
                 THEN Becomes(pid, "closing") /\ UNCHANGED daemonPort
                 ELSE /\ daemonProcs[pid] \notin {"ready", "listening"}
                      /\ Dies(pid)
              /\ daemonStop' = pid
              /\ UNCHANGED <<daemonManifest, daemonFaults>>
  /\ UNCHANGED <<daemonLock, daemonLockTorn>>

\* The process is gone, or the command no longer waits; the manifest goes.
StopEnds ==
  /\ daemonStop # NoPid
  /\ daemonStop' = NoPid
  /\ daemonManifest' = NoPid
  /\ daemonFaults' = daemonFaults \cup
       {f \in {"stopped"} : daemonManifest \notin {daemonStop, NoPid}}
  /\ UNCHANGED <<daemonProcs, daemonLock, daemonLockTorn, daemonPort>>

DaemonNext ==
  \/ Run \/ Start \/ Stop \/ StopEnds
  \/ \E p \in Pids :
       \/ ReadLock(p) \/ UnlinkLock(p) \/ CreateLock(p) \/ WriteLock(p)
       \/ Initialized(p) \/ InitializeFails(p) \/ Listen(p) \/ ListenFails(p) \/ WriteManifest(p)
       \/ ServerClosed(p) \/ ShutdownEnds(p) \/ StartFails(p) \/ Killed(p)

-----------------------------------------------------------------------------
(* Properties                                                              *)

Holders == {p \in Pids : daemonProcs[p] \in Holding}

\* One daemon at a time holds the lock, whatever is killed or stopped in the
\* middle, unless two processes looked at the lock at the same time, or a daemon
\* could not listen and released the lock twice.
LockIsExclusive ==
  daemonFaults \cap {"raced", "failed"} = {} => Cardinality(Holders) <= 1

\* The daemon that runs is the one that commands find and reach, unless a stop
\* command outlived the daemon it stopped.
RunningIsFound ==
  daemonFaults = {} =>
    \A p \in Pids :
      daemonProcs[p] = "running" => getDaemonStatus = [pid |-> p, reachable |-> TRUE]
=============================================================================
