--------------------------- MODULE SingleInstance ---------------------------
(***************************************************************************)
(* _acquire_pid_lock of main.py: a trader reads the PID file, checks that  *)
(* the process in it lives, writes its own number, and removes the file    *)
(* when it exits.  Nothing of this is atomic, and the check is overridden  *)
(* when a pnl_snapshot.json is there and older than ten minutes: the       *)
(* trader never writes that file, so one left by another program only ages *)
(* (PaperPnLEngine.write_snapshot has no caller).                          *)
(***************************************************************************)
EXTENDS Integers, FiniteSets

CONSTANT Traders          \* the processes that may be launched, each once

VARIABLES
  pidFile,                \* the number in data/pcs.pid, or NoPid
  trader,                 \* where each process is
  snapshotStale,          \* pnl_snapshot.json exists and is too old
  excused                 \* history: the traders that had a way around the lock

lockVars == <<pidFile, trader, snapshotStale, excused>>

NoPid == "none"

ASSUME LockAssumption == NoPid \notin Traders

LockInit ==
  /\ pidFile = NoPid
  /\ trader = [t \in Traders |-> "new"]
  /\ snapshotStale \in BOOLEAN
  /\ excused = {}

Lives(t) == trader[t] \in {"checked", "running"}

(* os.path.exists, os.kill(pid, 0) and the age of the snapshot.             *)
CheckLockUnchecked(t) ==
  /\ trader[t] = "new"
  /\ trader' = [trader EXCEPT ![t] = "checked"]
  /\ UNCHANGED <<pidFile, snapshotStale, excused>>

CheckLockTrustingFile(t) ==
  /\ trader[t] = "new"
  /\ trader' = [trader EXCEPT ![t] = IF pidFile # NoPid THEN "refused" ELSE "checked"]
  /\ UNCHANGED <<pidFile, snapshotStale, excused>>

CheckLock(t) ==
  LET held == pidFile # NoPid /\ Lives(pidFile)
      racing == \E u \in Traders \ {t} : trader[u] = "checked"
      unlisted == \E u \in Traders \ {t} : Lives(u) /\ u # pidFile
  IN /\ trader[t] = "new"
     /\ trader' = [trader EXCEPT ![t] = IF held /\ ~snapshotStale THEN "refused"
                                        ELSE "checked"]
     /\ excused' = IF (held /\ snapshotStale) \/ racing \/ unlisted
                   THEN excused \union {t} ELSE excused
     /\ UNCHANGED <<pidFile, snapshotStale>>

WriteLock(t) ==
  /\ trader[t] = "checked"
  /\ pidFile' = t
  /\ trader' = [trader EXCEPT ![t] = "running"]
  /\ UNCHANGED <<snapshotStale, excused>>

(* A normal end removes the file, whoever is in it; a killed trader leaves  *)
(* it.                                                                      *)
ExitTrader(t) ==
  /\ trader[t] = "running"
  /\ trader' = [trader EXCEPT ![t] = "ended"]
  /\ pidFile' = NoPid
  /\ UNCHANGED <<snapshotStale, excused>>

KillTrader(t) ==
  /\ Lives(t)
  /\ trader' = [trader EXCEPT ![t] = "ended"]
  /\ UNCHANGED <<pidFile, snapshotStale, excused>>

SnapshotAges ==
  /\ snapshotStale' \in {snapshotStale, TRUE}
  /\ UNCHANGED <<pidFile, trader, excused>>

LockNext ==
  \/ SnapshotAges
  \/ \E t \in Traders : CheckLock(t) \/ WriteLock(t) \/ ExitTrader(t) \/ KillTrader(t)

LockSpec == LockInit /\ [][LockNext]_lockVars

-----------------------------------------------------------------------------
Live == {t \in Traders : trader[t] = "running"}

(* Two traders run together only when all but one of them got past the lock *)
(* in one of three ways: a stale snapshot overruled a living owner, another *)
(* trader was between its check and its write, or the owner's number was    *)
(* not in the file because somebody else had overwritten or removed it.     *)
DoubleRunExplained == Cardinality(Live \ excused) <= 1

(* A dead owner never keeps a new trader out: who is refused was refused    *)
(* for a process that lived at that moment.                                 *)
DeadOwnerNeverBlocks ==
  [][\A t \in Traders :
       trader[t] # "refused" /\ trader'[t] = "refused" =>
         pidFile \in Traders /\ Lives(pidFile)]_lockVars
=============================================================================
