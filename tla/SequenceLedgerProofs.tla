------------------------ MODULE SequenceLedgerProofs ------------------------
(***************************************************************************)
(* No sequence is granted twice, for every set of processes, every bound on *)
(* the sequence numbers and every interleaving of crashes, failed writes    *)
(* and losses of power; and the ledger implements GrantLog.                 *)
(***************************************************************************)
EXTENDS SequenceLedger, TLAPS

LogEnd == log[Len(log)]

\* The instance lock: whoever runs owns it, so at most one process runs.
OwnerRuns == \A p \in Process : pc[p] # "down" => owner = p

\* Where the file stands relative to the owner's memory at each step.
FileFollows ==
    /\ durable <= disk
    /\ \A p \in Process :
          /\ pc[p] \in {"serving", "writing"} => memory[p] = disk
          /\ pc[p] = "writing" => wanted[p] > disk
          /\ pc[p] \in {"writing", "renamed", "synced"} => wanted[p] \in Sequence
          /\ pc[p] \in {"renamed", "synced"} => wanted[p] = disk
          /\ pc[p] = "synced" => durable = disk

\* What was granted is durable, and what is being reserved is newer than that.
GrantsBehind ==
    log # <<>> =>
        /\ LogEnd <= durable
        /\ \A p \in Process : pc[p] \in {"writing", "renamed", "synced"} => LogEnd < wanted[p]

IInv ==
    /\ TypeOK
    /\ OwnerRuns
    /\ FileFollows
    /\ GrantsBehind

-----------------------------------------------------------------------------
\* The last element decides whether an extension stays increasing.
LEMMA AppendEnd ==
    ASSUME NEW l \in Seq(Sequence), NEW s \in Sequence
    PROVE  /\ Append(l, s) \in Seq(Sequence)
           /\ Append(l, s) # <<>>
           /\ Append(l, s)[Len(Append(l, s))] = s
  OBVIOUS

\* The last element of a log is a sequence number.
LEMMA EndIsSequence ==
    ASSUME NEW l \in Seq(Sequence), l # <<>>
    PROVE  l[Len(l)] \in Sequence
  OBVIOUS

\* With no file and no process the invariant holds.
LEMMA InitIInv == Init => IInv
  BY MaxSequenceAssumption DEF Init, IInv, TypeOK, OwnerRuns, FileFollows, GrantsBehind

\* Every step of a process, its death and the loss of power preserve it.
LEMMA NextIInv == IInv /\ [Next]_vars => IInv'
  <1> SUFFICES ASSUME IInv, [Next]_vars PROVE IInv'
    OBVIOUS
  <1> USE MaxSequenceAssumption, NoProcessAssumption
  <1>1. ASSUME NEW p \in Process, AcquireInstanceLock(p)
        PROVE  IInv'
    BY <1>1 DEF AcquireInstanceLock, IInv, TypeOK, OwnerRuns, FileFollows, GrantsBehind, LogEnd
  <1>2. ASSUME NEW p \in Process, LoadRemoteSequence(p)
        PROVE  IInv'
    BY <1>2 DEF LoadRemoteSequence, IInv, TypeOK, OwnerRuns, FileFollows, GrantsBehind, LogEnd
  <1>3. ASSUME NEW p \in Process, NEW s \in Sequence, BeginReserve(p, s)
        PROVE  IInv'
    <2>1. TypeOK'
      BY <1>3 DEF BeginReserve, IInv, TypeOK, Sequence
    <2>2. OwnerRuns' /\ FileFollows'
      BY <1>3 DEF BeginReserve, IInv, TypeOK, OwnerRuns, FileFollows
    <2>3. GrantsBehind'
      <3>1. log # <<>> => LogEnd \in Sequence
        BY EndIsSequence DEF IInv, TypeOK, LogEnd
      <3>2. memory[p] = disk /\ s > disk /\ durable <= disk
        BY <1>3 DEF BeginReserve, IInv, FileFollows
      <3>3. QED
        BY <1>3, <3>1, <3>2 DEF BeginReserve, IInv, TypeOK, GrantsBehind, LogEnd, Sequence
    <2>4. QED
      BY <2>1, <2>2, <2>3 DEF IInv
  <1>4. ASSUME NEW p \in Process, NEW s \in Sequence, RejectReplay(p, s)
        PROVE  IInv'
    BY <1>4 DEF RejectReplay, IInv, TypeOK, OwnerRuns, FileFollows, GrantsBehind, LogEnd
  <1>5. ASSUME NEW p \in Process, RenameLedger(p)
        PROVE  IInv'
    <2>1. TypeOK'
      BY <1>5 DEF RenameLedger, IInv, TypeOK
    <2>2. OwnerRuns'
      BY <1>5 DEF RenameLedger, IInv, TypeOK, OwnerRuns
    <2>3. \A q \in Process : q # p => pc[q] = "down"
      BY <1>5 DEF RenameLedger, IInv, OwnerRuns
    <2>4. wanted[p] > disk /\ wanted[p] \in Sequence
      BY <1>5 DEF RenameLedger, IInv, FileFollows
    <2>5. FileFollows'
      BY <1>5, <2>3, <2>4 DEF RenameLedger, IInv, TypeOK, FileFollows, Sequence
    <2>6. GrantsBehind'
      BY <1>5 DEF RenameLedger, IInv, TypeOK, GrantsBehind, LogEnd
    <2>7. QED
      BY <2>1, <2>2, <2>5, <2>6 DEF IInv
  <1>6. ASSUME NEW p \in Process, SyncDirectory(p)
        PROVE  IInv'
    <2>1. TypeOK' /\ OwnerRuns' /\ FileFollows'
      BY <1>6 DEF SyncDirectory, IInv, TypeOK, OwnerRuns, FileFollows
    <2>2. log # <<>> => LogEnd \in Sequence
      BY EndIsSequence DEF IInv, TypeOK, LogEnd
    <2>3. GrantsBehind'
      BY <1>6, <2>2 DEF SyncDirectory, IInv, TypeOK, FileFollows, GrantsBehind, LogEnd, Sequence
    <2>4. QED
      BY <2>1, <2>3 DEF IInv
  <1>7. ASSUME NEW p \in Process, PersistFails(p)
        PROVE  IInv'
    BY <1>7 DEF PersistFails, IInv, TypeOK, OwnerRuns, FileFollows, GrantsBehind, LogEnd
  <1>8. ASSUME NEW p \in Process, GrantSequence(p)
        PROVE  IInv'
    <2>1. wanted[p] \in Sequence /\ wanted[p] = disk /\ durable = disk
      BY <1>8 DEF GrantSequence, IInv, FileFollows
    <2>2. \A q \in Process : q # p => pc[q] = "down"
      BY <1>8 DEF GrantSequence, IInv, OwnerRuns
    <2>3. log' \in Seq(Sequence) /\ log' # <<>> /\ LogEnd' = wanted[p]
      BY <1>8, <2>1, AppendEnd DEF GrantSequence, IInv, TypeOK, LogEnd
    <2>4. TypeOK'
      BY <1>8, <2>1, <2>3 DEF GrantSequence, IInv, TypeOK, Sequence
    <2>5. OwnerRuns'
      BY <1>8 DEF GrantSequence, IInv, TypeOK, OwnerRuns
    <2>6. FileFollows'
      BY <1>8, <2>1, <2>2 DEF GrantSequence, IInv, TypeOK, FileFollows
    <2>7. GrantsBehind'
      BY <1>8, <2>1, <2>2, <2>3 DEF GrantSequence, IInv, TypeOK, GrantsBehind
    <2>8. QED
      BY <2>4, <2>5, <2>6, <2>7 DEF IInv
  <1>9. ASSUME NEW p \in Process, ProcessEnds(p)
        PROVE  IInv'
    <2>1. \A q \in Process : q # p => pc[q] = "down"
      BY <1>9 DEF ProcessEnds, IInv, OwnerRuns
    <2>2. QED
      BY <1>9, <2>1 DEF ProcessEnds, IInv, TypeOK, OwnerRuns, FileFollows, GrantsBehind, LogEnd
  <1>10. ASSUME WriteBack
         PROVE  IInv'
    <2>1. log # <<>> => LogEnd \in Sequence
      BY EndIsSequence DEF IInv, TypeOK, LogEnd
    <2>2. TypeOK' /\ OwnerRuns' /\ FileFollows'
      BY <1>10 DEF WriteBack, IInv, TypeOK, OwnerRuns, FileFollows
    <2>3. GrantsBehind'
      BY <1>10, <2>1 DEF WriteBack, IInv, TypeOK, FileFollows, GrantsBehind, LogEnd, Sequence
    <2>4. QED
      BY <2>2, <2>3 DEF IInv
  <1>11. ASSUME PowerLoss
         PROVE  IInv'
    BY <1>11 DEF PowerLoss, IInv, TypeOK, OwnerRuns, FileFollows, GrantsBehind, LogEnd
  <1>12. CASE UNCHANGED vars
    BY <1>12 DEF vars, IInv, TypeOK, OwnerRuns, FileFollows, GrantsBehind, LogEnd
  <1>13. QED
    BY <1>1, <1>2, <1>3, <1>4, <1>5, <1>6, <1>7, <1>8, <1>9, <1>10, <1>11, <1>12 DEF Next

\* The invariant holds in every reachable state.
LEMMA Inductive == Spec => []IInv
  BY InitIInv, NextIInv, PTL DEF Spec

-----------------------------------------------------------------------------
\* Every variable stays in its type for every bound on the sequence numbers.
THEOREM TypeCorrect == Spec => []TypeOK
  <1>1. IInv => TypeOK
    BY DEF IInv
  <1>2. QED
    BY <1>1, Inductive, PTL

\* A request whose script may have run is on stable storage, so a restart after
\* any crash still refuses its frame.
THEOREM Durability == Spec => []GrantedIsDurable
  <1>1. IInv => GrantedIsDurable
    BY DEF IInv, GrantsBehind, GrantedIsDurable, LogEnd
  <1>2. QED
    BY <1>1, Inductive, PTL

\* The instance lock makes the value in memory the value in the file.
THEOREM MemoryCoherent == Spec => []MemoryMatchesDisk
  <1>1. IInv => MemoryMatchesDisk
    BY DEF IInv, FileFollows, MemoryMatchesDisk
  <1>2. QED
    BY <1>1, Inductive, PTL

\* The ledger implements the grant log: every grant is above the one before.
THEOREM Refinement == Spec => ImplementsGrantLog
  <1>1. Init => Grants!Init
    BY DEF Init, Grants!Init
  <1>2. IInv /\ [Next]_vars => [Grants!Next]_log
    <2> SUFFICES ASSUME IInv, [Next]_vars PROVE [Grants!Next]_log
      OBVIOUS
    <2>1. ASSUME NEW p \in Process, GrantSequence(p)
          PROVE  Grants!Next
      <3>1. wanted[p] \in Sequence
        BY <2>1 DEF GrantSequence, IInv, FileFollows
      <3>2. log # <<>> => wanted[p] > log[Len(log)]
        <4>1. log # <<>> => LogEnd \in Sequence /\ LogEnd < wanted[p]
          BY <2>1, EndIsSequence DEF GrantSequence, IInv, TypeOK, GrantsBehind, LogEnd
        <4>2. QED
          BY <3>1, <4>1 DEF LogEnd, Sequence
      <3>3. QED
        BY <2>1, <3>1, <3>2 DEF GrantSequence, Grants!Next, Grants!Grant
    <2>2. ASSUME ~ \E p \in Process : GrantSequence(p)
          PROVE  UNCHANGED log
      BY <2>2 DEF Next, vars, AcquireInstanceLock, LoadRemoteSequence, BeginReserve,
         RejectReplay,
                  RenameLedger, SyncDirectory, PersistFails, ProcessEnds, WriteBack, PowerLoss
    <2>3. QED
      BY <2>1, <2>2
  <1>3. QED
    BY <1>1, <1>2, Inductive, PTL DEF Spec, ImplementsGrantLog, Grants!Spec

\* A step of the grant log keeps it increasing.
LEMMA GrantKeepsIncreasing ==
    ASSUME log \in Seq(Sequence), AtMostOnce, NEW s \in Sequence, Grants!Grant(s)
    PROVE  AtMostOnce'
  <1>1. /\ Len(log') = Len(log) + 1
        /\ \A i \in 1..Len(log) : log'[i] = log[i]
        /\ log'[Len(log) + 1] = s
        /\ Len(log) \in Nat
    BY DEF Grants!Grant
  <1>2. \A i \in 1..Len(log) : log[i] \in Sequence /\ log[i] < s
    <2> SUFFICES ASSUME NEW i \in 1..Len(log) PROVE log[i] \in Sequence /\ log[i] < s
      OBVIOUS
    <2>1. log # <<>> /\ s > log[Len(log)] /\ log[i] \in Sequence /\ log[Len(log)] \in Sequence
      BY DEF Grants!Grant
    <2>2. i = Len(log) \/ log[i] < log[Len(log)]
      BY <1>1 DEF AtMostOnce, Grants!StrictlyIncreasing
    <2>3. QED
      BY <2>1, <2>2 DEF Sequence
  <1>3. QED
    <2> SUFFICES ASSUME NEW i \in 1..Len(log'), NEW j \in 1..Len(log'), i < j
                 PROVE  log'[i] < log'[j]
      BY DEF AtMostOnce, Grants!StrictlyIncreasing
    <2>1. CASE j = Len(log) + 1
      BY <1>1, <1>2, <2>1
    <2>2. CASE j # Len(log) + 1
      BY <1>1, <2>2 DEF AtMostOnce, Grants!StrictlyIncreasing
    <2>3. QED
      BY <2>1, <2>2

\* No sequence number is ever granted twice.
THEOREM NoReplay == Spec => []AtMostOnce
  <1>1. Init => AtMostOnce
    BY DEF Init, AtMostOnce, Grants!StrictlyIncreasing
  <1>2. IInv /\ AtMostOnce /\ [Grants!Next]_log => AtMostOnce'
    <2> SUFFICES ASSUME IInv, AtMostOnce, [Grants!Next]_log PROVE AtMostOnce'
      OBVIOUS
    <2>1. CASE UNCHANGED log
      BY <2>1 DEF AtMostOnce, Grants!StrictlyIncreasing
    <2>2. CASE Grants!Next
      BY <2>2, GrantKeepsIncreasing DEF Grants!Next, IInv, TypeOK
    <2>3. QED
      BY <2>1, <2>2
  <1>3. QED
    BY <1>1, <1>2, Refinement, Inductive, PTL DEF Spec, ImplementsGrantLog, Grants!Spec
=============================================================================
