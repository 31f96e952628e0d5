--------------------------- MODULE SequenceLedger ---------------------------
(***************************************************************************)
(* The replay ledger of crates/local-bridge: reserve_remote_sequence over   *)
(* remote-sequence-v1.json, with the processes that may own the work root.  *)
(*                                                                          *)
(* A Bridge process takes bridge-instance.lock, loads the ledger and keeps  *)
(* the highest sequence in memory.  To reserve a sequence it writes and     *)
(* syncs a temporary file, renames it over the ledger, syncs the directory  *)
(* and only then raises the value in memory and lets the request execute.   *)
(* Every step can fail, every process can die between two steps, and a loss *)
(* of power may undo a rename whose directory was not synced.               *)
(***************************************************************************)
EXTENDS Naturals, Sequences

CONSTANTS Process,      \* Bridge processes, restarts included
          NoProcess,    \* nobody holds the instance lock
          MaxSequence   \* bound: the largest sequence a frame carries

ASSUME MaxSequenceAssumption == MaxSequence \in Nat
ASSUME NoProcessAssumption == NoProcess \notin Process

Sequence == 1..MaxSequence

VARIABLES owner,        \* the process that holds bridge-instance.lock
          pc,           \* where each process is
          memory,       \* highest_remote_sequence of each process
          wanted,       \* the sequence each process is reserving
          disk,         \* highest_sequence of the ledger file as processes read it
          durable,      \* what the file holds after a loss of power
          log           \* history: the sequences granted for execution, in order

vars == <<owner, pc, memory, wanted, disk, durable, log>>

Grants == INSTANCE GrantLog

-----------------------------------------------------------------------------
Init ==
    /\ owner = NoProcess
    /\ pc = [p \in Process |-> "down"]
    /\ memory = [p \in Process |-> 0]
    /\ wanted = [p \in Process |-> 0]
    /\ disk = 0                     \* a missing file reads as zero
    /\ durable = 0
    /\ log = <<>>

\* Slip: a process that does not get the lock starts all the same.
AcquireWithoutLock(p) ==
    /\ pc[p] = "down"
    /\ owner' = p
    /\ pc' = [pc EXCEPT ![p] = "locked"]
    /\ UNCHANGED <<memory, wanted, disk, durable, log>>

\* acquire_instance_lock: a non-blocking exclusive flock; whoever does not get
\* it fails to start.
AcquireInstanceLock(p) ==
    /\ pc[p] = "down"
    /\ owner = NoProcess
    /\ owner' = p
    /\ pc' = [pc EXCEPT ![p] = "locked"]
    /\ UNCHANGED <<memory, wanted, disk, durable, log>>

\* load_remote_sequence, after the lock.
LoadRemoteSequence(p) ==
    /\ pc[p] = "locked"
    /\ memory' = [memory EXCEPT ![p] = disk]
    /\ pc' = [pc EXCEPT ![p] = "serving"]
    /\ UNCHANGED <<owner, wanted, disk, durable, log>>

\* reserve_remote_sequence for a frame that is new to this process.  The mutex
\* is held until the grant, so a process reserves one sequence at a time.
BeginReserve(p, s) ==
    /\ pc[p] = "serving"
    /\ s > memory[p]
    /\ wanted' = [wanted EXCEPT ![p] = s]
    /\ pc' = [pc EXCEPT ![p] = "writing"]
    /\ UNCHANGED <<owner, memory, disk, durable, log>>

\* BridgeError::Replay: the relay session ends and the process with it.
RejectReplay(p, s) ==
    /\ pc[p] = "serving"
    /\ s <= memory[p]
    /\ pc' = [pc EXCEPT ![p] = "stopping"]
    /\ UNCHANGED <<owner, memory, wanted, disk, durable, log>>

\* Slip: the ledger stores the next sequence expected, one past the last used.
RenameLedgerToNext(p) ==
    /\ pc[p] = "writing"
    /\ disk' = wanted[p] + 1
    /\ pc' = [pc EXCEPT ![p] = "renamed"]
    /\ UNCHANGED <<owner, memory, wanted, durable, log>>

\* persist_remote_sequence up to the rename: the temporary file is complete and
\* synced, so whoever reads the ledger reads an old or a new value, never less.
RenameLedger(p) ==
    /\ pc[p] = "writing"
    /\ disk' = wanted[p]
    /\ pc' = [pc EXCEPT ![p] = "renamed"]
    /\ UNCHANGED <<owner, memory, wanted, durable, log>>

\* Slip: the directory is not synced.
SyncDirectorySkipped(p) ==
    /\ pc[p] = "renamed"
    /\ pc' = [pc EXCEPT ![p] = "synced"]
    /\ UNCHANGED <<owner, memory, wanted, disk, durable, log>>

\* ... and its last step, the sync of the directory.
SyncDirectory(p) ==
    /\ pc[p] = "renamed"
    /\ durable' = disk
    /\ pc' = [pc EXCEPT ![p] = "synced"]
    /\ UNCHANGED <<owner, memory, wanted, disk, log>>

\* Any of its steps fails: the error ends the relay session and the process,
\* with the file written or not.
PersistFails(p) ==
    /\ pc[p] \in {"writing", "renamed"}
    /\ pc' = [pc EXCEPT ![p] = "stopping"]
    /\ UNCHANGED <<owner, memory, wanted, disk, durable, log>>

\* The value in memory is raised and the request may execute.
GrantSequence(p) ==
    /\ pc[p] = "synced"
    /\ memory' = [memory EXCEPT ![p] = wanted[p]]
    /\ wanted' = [wanted EXCEPT ![p] = 0]
    /\ log' = Append(log, wanted[p])
    /\ pc' = [pc EXCEPT ![p] = "serving"]
    /\ UNCHANGED <<owner, disk, durable>>

\* A process ends, on its own or not: its memory is gone and the kernel drops
\* its lock.
ProcessEnds(p) ==
    /\ pc[p] # "down"
    /\ pc' = [pc EXCEPT ![p] = "down"]
    /\ owner' = IF owner = p THEN NoProcess ELSE owner
    /\ memory' = [memory EXCEPT ![p] = 0]
    /\ wanted' = [wanted EXCEPT ![p] = 0]
    /\ UNCHANGED <<disk, durable, log>>

\* The file system may write a rename back at any time.
WriteBack ==
    /\ durable # disk
    /\ durable' = disk
    /\ UNCHANGED <<owner, pc, memory, wanted, disk, log>>

\* Every process dies and the file is what was durable.
PowerLoss ==
    /\ pc' = [p \in Process |-> "down"]
    /\ owner' = NoProcess
    /\ memory' = [p \in Process |-> 0]
    /\ wanted' = [p \in Process |-> 0]
    /\ disk' = durable
    /\ UNCHANGED <<durable, log>>

Next ==
    \/ \E p \in Process :
          \/ AcquireInstanceLock(p)
          \/ LoadRemoteSequence(p)
          \/ \E s \in Sequence : BeginReserve(p, s) \/ RejectReplay(p, s)
          \/ RenameLedger(p)
          \/ SyncDirectory(p)
          \/ PersistFails(p)
          \/ GrantSequence(p)
          \/ ProcessEnds(p)
    \/ WriteBack
    \/ PowerLoss

Spec == Init /\ [][Next]_vars

-----------------------------------------------------------------------------
\* Type invariant: the ledger, on disk and in memory, only ever holds sequence
\* numbers that a frame carried, or zero.
TypeOK ==
    /\ owner \in Process \cup {NoProcess}
    /\ pc \in [Process -> {"down", "locked", "serving", "writing", "renamed", "synced", "stopping"}]
    /\ memory \in [Process -> 0..MaxSequence]
    /\ wanted \in [Process -> 0..MaxSequence]
    /\ disk \in 0..MaxSequence
    /\ durable \in 0..MaxSequence
    /\ log \in Seq(Sequence)

\* A sequence is on stable storage before its request may execute, so no restart
\* and no loss of power can make the Bridge forget it.
GrantedIsDurable == log # <<>> => log[Len(log)] <= durable

\* The value a process checks frames against is the value in the file: nobody
\* else moved the ledger behind its back.
MemoryMatchesDisk == \A p \in Process : pc[p] = "serving" => memory[p] = disk

\* Grants are strictly increasing: no sequence executes twice, in whatever order
\* and however often the relay delivers its frame.
AtMostOnce == Grants!StrictlyIncreasing

\* The ledger implements the grant log: whatever fails or restarts, the sequences
\* let through to execution grow.
ImplementsGrantLog == Grants!Spec
=============================================================================
