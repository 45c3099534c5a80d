------------------------------ MODULE Snapshot ------------------------------
(***************************************************************************)
(* data/open_positions.json: what position_persistence.save writes and     *)
(* what position_persistence.load puts back into a new process.            *)
(*                                                                         *)
(* The field orphan is not in the file.  It is a history field: the legs   *)
(* that refused orders had left in the tracker when the snapshot was       *)
(* taken, carried along so that an invariant can tell them from a spread.  *)
(***************************************************************************)
EXTENDS Spreads, PnlEngine

CONSTANTS
  NoFile,    \* no state file on disk
  Corrupt    \* a state file that json.load refuses

SessionStatus == {"ACTIVE", "FLAT"}

Memories == [pos : MaybePosition, tracker : Books, orphan : Books,
             pnl : PnlState, halted : BOOLEAN]

Snapshots == [status : SessionStatus, date : Nat, pos : MaybePosition,
              tracker : Books, orphan : Books, pnl : PnlState,
              halted : BOOLEAN]

ASSUME SnapshotAssumption ==
  /\ NoFile \notin Snapshots
  /\ Corrupt \notin Snapshots
  /\ NoFile # Corrupt

\* The state the constructors leave: RiskManager(), PaperPnLEngine(), ...
Fresh == [pos |-> NoPos, tracker |-> Flat, orphan |-> Flat,
          pnl |-> ZeroPnl, halted |-> FALSE]

\* Mutant: a flat session starts afresh, on the same day too.
LoadedFlatAsFresh(disk, today) ==
  IF disk \in {NoFile, Corrupt} \/ disk.status = "FLAT" THEN Fresh
  ELSE LET stale == disk.date # today IN
    [pos |-> disk.pos, tracker |-> disk.tracker, orphan |-> disk.orphan,
     pnl |-> RestorePnl(disk.pnl, stale), halted |-> ~stale /\ disk.halted]

(* load: a FLAT snapshot never restores the tracker, and of a previous      *)
(* day's FLAT snapshot nothing at all is restored; an ACTIVE one restores   *)
(* everything, with the daily counters and the halt reset when it is stale. *)
Loaded(disk, today) ==
  IF disk \in {NoFile, Corrupt} THEN Fresh
  ELSE LET stale == disk.date # today IN
    IF disk.status = "FLAT"
      THEN IF stale THEN Fresh
           ELSE [pos |-> disk.pos, tracker |-> Flat, orphan |-> Flat,
                 pnl |-> disk.pnl, halted |-> disk.halted]
      ELSE [pos |-> disk.pos, tracker |-> disk.tracker,
            orphan |-> disk.orphan, pnl |-> RestorePnl(disk.pnl, stale),
            halted |-> ~stale /\ disk.halted]
=============================================================================
