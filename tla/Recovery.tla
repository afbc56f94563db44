------------------------------- MODULE Recovery -------------------------------
(***************************************************************************)
(* Snapshots, checkpoints and event-journal replay over the live engine:   *)
(* capture_snapshot, restore_from_snapshot, replay and apply_replay_event  *)
(* of src/backend/src/engine/book.rs, and the API operations that drive    *)
(* them (api.rs, db.rs).                                                   *)
(*                                                                         *)
(* One client at a time: the events of a command are journaled before the  *)
(* next command runs, and a checkpoint reads the engine and the journal    *)
(* with nothing in between.  What is left is what replay itself does with  *)
(* a complete, ordered journal.                                            *)
(***************************************************************************)
EXTENDS BookReplay

CONSTANTS
  MaxJournal   (* bound: no command starts on a longer journal             *)

ASSUME RecoveryAssumption == MaxJournal \in Nat

VARIABLES
  journal,      (* event_journal: every event recorded, oldest first       *)
  checkpoint,   (* the latest engine_snapshots row: the snapshot and the   *)
                (* number of journal events it covers                      *)
  lineage       (* history variable: what the book comes from              *)

recoveryVars == <<vars, journal, checkpoint, lineage>>

\* "journal": the latest checkpoint and the journal after it tell of this book.
\* "snapshot": it has been restored since the checkpoint, of which the journal does
\* not tell; it does tell of the commands before the restore and of those after it.
\* "both": it has been replayed from such a journal, the two pasts on top of each
\* other.
Lineage == {"journal", "snapshot", "both"}

\* What POST /api/replay would load now: the latest checkpoint, if there is one,
\* and the journal after it.
Rebuilt ==
  Replayed(IF checkpoint = <<>> THEN EmptyBook ELSE Restored(checkpoint[1].snapshot),
           SubSeq(journal, IF checkpoint = <<>> THEN 1 ELSE checkpoint[1].covers + 1,
                  Len(journal)))

(***************************************************************************)
(* The specification.                                                      *)
(***************************************************************************)

RecoveryInit ==
  /\ Init
  /\ journal = <<>>
  /\ checkpoint = <<>>
  /\ lineage = "journal"

\* record_events, once the engine has answered.
EngineMoves ==
  /\ Next
  /\ pc = "idle" => Len(journal) <= MaxJournal
  /\ journal' = IF pc' = "idle" THEN journal \o events' ELSE journal
  /\ UNCHANGED <<checkpoint, lineage>>

\* POST /api/engine-snapshot/checkpoint
RecordCheckpoint ==
  /\ pc = "idle"
  /\ checkpoint' = <<[snapshot |-> Captured, covers |-> Len(journal)]>>
  /\ lineage' = IF lineage = "both" THEN "both" ELSE "journal"
  /\ UNCHANGED <<vars, journal>>

\* POST /api/replay
ReplayFromJournal ==
  /\ Load(Rebuilt)
  /\ lineage' = IF lineage = "journal" THEN "journal" ELSE "both"
  /\ UNCHANGED <<journal, checkpoint>>

\* POST /api/engine-snapshot: the journal is not told.  A client may send any snapshot;
\* here it sends back the one of the checkpoint.
RestoreSnapshot ==
  /\ checkpoint # <<>>
  /\ Load(Restored(checkpoint[1].snapshot))
  /\ lineage' = IF lineage = "both" THEN "both" ELSE "snapshot"
  /\ UNCHANGED <<journal, checkpoint>>

RecoveryNext ==
  \/ EngineMoves
  \/ RecordCheckpoint
  \/ ReplayFromJournal
  \/ RestoreSnapshot

RecoverySpec == RecoveryInit /\ [][RecoveryNext]_recoveryVars

(***************************************************************************)
(* Properties.                                                             *)
(***************************************************************************)

\* Restoring a snapshot just taken gives back the very same book: every order in
\* its place in its queue, every counter, trade and history entry
\* (book.rs:338-377, README.md:103-104).  A book with two pasts may have two orders of
\* one id, which no snapshot tells apart.
SnapshotExact == Restored(Captured) = LiveBook

RestoreIsExact == pc = "idle" /\ lineage # "both" => SnapshotExact

\* All of a book but its order history, which replay rebuilds without the accepted
\* and cancelled entries.
WithoutHistory(book) == [book EXCEPT !.history = <<>>]

\* Replay rebuilds the in-memory book from the latest checkpoint plus the journal
\* (ARCHITECTURE.md:83, README.md:107): the same orders in the same queues, the
\* same counters and the same recent trades.  A restored book is the journal's
\* again from the next checkpoint on.
ReplayRebuilds ==
  pc = "idle" /\ lineage = "journal" => WithoutHistory(Rebuilt) = WithoutHistory(LiveBook)

\* Commands on a book that was rebuilt or restored go on keeping its containers in
\* agreement, for as long as nobody replays a journal with two pasts
\* (book.rs:264-283, 360-377, 458-471, 606-640).
LoadedBookAgrees == lineage # "both" => IndexMatchesLevels

\* The least that is asked of a replay: it finds the orders that are active, and no
\* others (ARCHITECTURE.md:83).
ReplayRebuildsOrders ==
  pc = "idle" /\ lineage = "journal" => Rebuilt.levels = levels /\ Rebuilt.stopOrders = stopOrders

\* Mass cancel reaches every active order (ARCHITECTURE.md:87, README.md:96): when it
\* has visited all it found, nothing rests.  In a book with two pasts one id can stand
\* for two orders, of which order_index knows one.
MassCancelReachesAll ==
  pc = "mass_cancel" /\ cancelling = {} => Resting(levels) = {}
==============================================================================
