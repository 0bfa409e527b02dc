------------------------ MODULE UsbArchiveStoreProofs ------------------------
(***************************************************************************)
(* Theorems about the archive store, for every number of station           *)
(* processes and every payload, length and number of faults.               *)
(***************************************************************************)
EXTENDS UsbArchiveStore, TLAPS

-----------------------------------------------------------------------------
(* Prefixes: an archive file and what was once known of it *)

\* A prefix agrees with the longer sequence at each of its places.
LEMMA PrefixPointwise ==
    ASSUME NEW S, NEW s \in Seq(S), NEW t \in Seq(S)
    PROVE  IsPrefix(s, t) <=>
              Len(s) <= Len(t) /\ \A i \in 1..Len(s) : s[i] = t[i]
  BY DEF IsPrefix

\* A prefix of a prefix is a prefix.
LEMMA PrefixTransitive ==
    ASSUME NEW S, NEW s \in Seq(S), NEW t \in Seq(S), NEW u \in Seq(S),
           IsPrefix(s, t), IsPrefix(t, u)
    PROVE  IsPrefix(s, u)
  BY PrefixPointwise

\* A file that grows keeps its prefixes.
LEMMA PrefixOfExtension ==
    ASSUME NEW S, NEW s \in Seq(S), NEW t \in Seq(S), NEW u \in Seq(S),
           IsPrefix(s, t)
    PROVE  IsPrefix(s, t \o u)
<1>1. t \o u \in Seq(S) /\ Len(t \o u) = Len(t) + Len(u)
  OBVIOUS
<1>2. \A i \in 1..Len(t) : (t \o u)[i] = t[i]
  OBVIOUS
<1>3. Len(s) <= Len(t) /\ \A i \in 1..Len(s) : s[i] = t[i]
  BY PrefixPointwise
<1>4. Len(s) <= Len(t \o u) /\ \A i \in 1..Len(s) : s[i] = (t \o u)[i]
  BY <1>1, <1>2, <1>3
<1> QED
  BY <1>1, <1>4, PrefixPointwise

\* Cutting a file back to the length of a prefix leaves the prefix.
LEMMA PrefixIsSubSeq ==
    ASSUME NEW S, NEW s \in Seq(S), NEW t \in Seq(S), IsPrefix(s, t)
    PROVE  SubSeq(t, 1, Len(s)) = s
  BY DEF IsPrefix

\* A file that grows by one chunk keeps its prefixes.
LEMMA PrefixOfAppend ==
    ASSUME NEW S, NEW s \in Seq(S), NEW t \in Seq(S), NEW x \in S,
           IsPrefix(s, t)
    PROVE  IsPrefix(s, Append(t, x))
<1>1. /\ Append(t, x) \in Seq(S) /\ Len(Append(t, x)) = Len(t) + 1
      /\ \A i \in 1..Len(t) : Append(t, x)[i] = t[i]
  OBVIOUS
<1>2. Len(s) <= Len(t) /\ \A i \in 1..Len(s) : s[i] = t[i]
  BY PrefixPointwise
<1>3. Len(s) <= Len(Append(t, x))
      /\ \A i \in 1..Len(s) : s[i] = Append(t, x)[i]
  BY <1>1, <1>2
<1> QED
  BY <1>1, <1>3, PrefixPointwise

\* Every sequence is its own prefix.
LEMMA PrefixReflexive == \A s : IsPrefix(s, s)
  BY DEF IsPrefix

\* A prefix of full length is the whole.
LEMMA PrefixSameLength ==
    ASSUME NEW S, NEW s \in Seq(S), NEW t \in Seq(S), IsPrefix(s, t),
           Len(s) = Len(t)
    PROVE  s = t
  BY DEF IsPrefix

-----------------------------------------------------------------------------
(* The inductive invariant behind these, part by part *)

Live(s) == status[s] \in {"writable", "failed"}

\* Before start there is nothing, on the disk or in a process.
FreshInv ==
    (\E k \in Kinds : name[k] = "none" \/ dirD.name[k] = "none") =>
        /\ issued = 0
        /\ file = Nothing /\ fileD = Nothing
        /\ ckpt = NoCheckpoint /\ dirD.ckpt = NoCheckpoint
        /\ confirmed = NoCheckpoint
        /\ receipt = NoReceipt /\ dirD.receipt = NoReceipt
        /\ \A s \in Stores : status[s] = "absent" /\ pc[s] = "idle"

\* A live session or an operation in progress has the writer lock.
LockInv ==
    \A s \in Stores :
        /\ Live(s) \/ pc[s] # "idle" => flock = s
        /\ pc[s] \in {"chunk", "publish", "sync", "rename", "receipt"}
              => status[s] = "writable"

LeaseInv ==
    \A s \in Stores : Live(s) =>
        /\ lease[s] = issued
        /\ issued > 1 => requireLease[s]

\* From the oldest checkpoint a power loss can leave to the visible file,
\* each content extends the one before.
DiskInv ==
    \A k \in Kinds :
        /\ IsPrefix(dirD.ckpt.prefix[k], ckpt.prefix[k])
        /\ IsPrefix(ckpt.prefix[k], fileD[k])
        /\ IsPrefix(fileD[k], file[k])

\* Where a checkpoint or a reopen has got to.
OpInv ==
    \A s \in Stores :
        /\ pc[s] \in {"publish", "sync", "resync"} =>
              meta[s].prefix = file /\ fileD = file
        /\ pc[s] \in {"sync", "copy", "truncate", "resync"} => ckpt = meta[s]
        /\ pc[s] = "truncate" =>
              /\ dirD.ckpt = ckpt
              /\ \A k \in done[s] : file[k] = meta[s].prefix[k]
                                   /\ fileD[k] = file[k]

\* A writable session knows at least the bytes that are in the file.  It knows
\* more only after a reopen that truncated the file and then failed.
SessionInv ==
    \A s \in Stores, k \in Kinds : status[s] = "writable" =>
        IF pc[s] = "chunk" /\ req[s].kind = k
        THEN fileD[k] = hashed[s][k]
        ELSE fileD[k] = file[k] /\ IsPrefix(file[k], hashed[s][k])

NotBehind(c) ==
    \/ c = confirmed
    \/ /\ c.generation > confirmed.generation
       /\ \A k \in Kinds : IsPrefix(confirmed.prefix[k], c.prefix[k])

\* No checkpoint on the disk is behind the one last acknowledged, from which
\* every writable session goes on counting.
ConfirmedInv ==
    /\ NotBehind(ckpt) /\ NotBehind(dirD.ckpt)
    /\ ckpt = confirmed => dirD.ckpt = confirmed
    /\ \A s \in Stores :
          /\ status[s] = "writable" => generation[s] = confirmed.generation
          /\ pc[s] \in {"publish", "sync", "resync"} =>
                meta[s].generation > confirmed.generation

ReceiptInv ==
    /\ receipt.stage # "none" =>
          /\ receipt.archives = file /\ fileD = file
          /\ \A s \in Stores :
                /\ status[s] = "writable" => pc[s] = "receipt"
                /\ pc[s] \notin {"copy", "truncate", "resync"}
    /\ receipt.stage = "none" => receipt = NoReceipt
    /\ dirD.receipt \in {NoReceipt, receipt}
    /\ \A s \in Stores :
          /\ pc[s] = "rename" => \A k \in done[s] : file[k] = hashed[s][k]
          /\ pc[s] = "receipt" =>
                receipt.stage = "partial" /\ dirD.receipt = NoReceipt

-----------------------------------------------------------------------------
(* Types *)

\* A chunk sequence without torn writes is a byte sequence.
LEMMA ChunksAreBytes == Seq(Chunks) \subseteq Bytes
  BY DEF Bytes

LEMMA NullTypes ==
    /\ Nothing \in [Kinds -> Seq(Chunks)]
    /\ Nothing \in [Kinds -> Bytes]
    /\ NoCheckpoint \in Checkpoints
    /\ NoReceipt \in Receipts
    /\ NoRequest \in [kind : Kinds, raw : Chunks \union {NoChunk}]
  BY DEF Nothing, Bytes, NoCheckpoint, Checkpoints, NoReceipt, Receipts,
         NoRequest, Kinds

LEMMA DirType ==
    TypeOK => Dir \in Dirs
  BY DEF TypeOK, Dir, Dirs

LEMMA DropCallsType ==
    ASSUME TypeOK, NEW S \in SUBSET Stores, DropCalls(S)
    PROVE  /\ pc' \in [Stores -> PCs]
           /\ \A s \in Stores : pc'[s] = "chunk" => req'[s].raw \in Chunks
           /\ req' \in [Stores -> [kind : Kinds, raw : Chunks \union {NoChunk}]]
           /\ meta' \in [Stores -> Checkpoints]
           /\ done' \in [Stores -> SUBSET Kinds]
  BY NullTypes DEF TypeOK, DropCalls, PCs

LEMMA DropSessionsType ==
    ASSUME TypeOK, NEW S \in SUBSET Stores, DropSessions(S)
    PROVE  /\ status' \in [Stores -> Statuses]
           /\ hashed' \in [Stores -> [Kinds -> Seq(Chunks)]]
           /\ generation' \in [Stores -> Nat]
           /\ profile' \in [Stores -> Profiles \union {NoProfile}]
           /\ lease' \in [Stores -> Nat]
           /\ requireLease' \in [Stores -> BOOLEAN]
<1>1. /\ status' \in [Stores -> Statuses]
      /\ generation' \in [Stores -> Nat]
      /\ profile' \in [Stores -> Profiles \union {NoProfile}]
      /\ lease' \in [Stores -> Nat]
  BY DEF TypeOK, DropSessions, Statuses
<1>2. hashed' \in [Stores -> [Kinds -> Seq(Chunks)]]
  BY NullTypes DEF TypeOK, DropSessions
<1>3. requireLease' \in [Stores -> BOOLEAN]
  BY Zenon DEF TypeOK, DropSessions
<1> QED
  BY <1>1, <1>2, <1>3

LEMMA SpendType ==
    ASSUME TypeOK, NEW f \in FaultSorts, Spend(f)
    PROVE  faults' \in [FaultSorts -> Nat]
  BY DEF TypeOK, Spend

LEMMA InitTypeOK == Init => TypeOK
<1> SUFFICES ASSUME Init PROVE TypeOK
  OBVIOUS
<1>1. Dir \in Dirs
  BY NullTypes DEF Init, Dir, Dirs, Names
<1> QED
  BY <1>1, NullTypes DEF Init, TypeOK, Names, Statuses, PCs

\* A truncation shortens a file only because reopen has verified the prefix.
LEMMA StepTypeOK == TypeOK /\ DiskInv /\ OpInv /\ [Next]_vars => TypeOK'
<1> SUFFICES ASSUME TypeOK, DiskInv, OpInv, [Next]_vars PROVE TypeOK'
  OBVIOUS
<1> USE DEF diskVars, itemVars, callVars, historyVars
<1>dir. Dir \in Dirs
  BY DirType
<1>1. ASSUME NEW s \in Stores, Start(s) PROVE TypeOK'
  BY <1>1, NullTypes DEF Start, TypeOK, Names, Statuses, Dir, Dirs
<1>2. ASSUME NEW s \in Stores, NEW k \in Kinds, NEW c \in Chunks,
             NEW l \in Leases, NEW o \in 0..MaxLength[k],
             ChunkWrite(s, k, o, c, l)
      PROVE  TypeOK'
  <2>1. PICK w \in {<<c>>, <<Torn>>, <<>>} :
           file' = [file EXCEPT ![k] = @ \o w]
    BY <1>2 DEF ChunkWrite
  <2>2. file[k] \in Bytes /\ w \in Bytes
    <3>1. <<c>> \in Bytes /\ <<Torn>> \in Bytes /\ <<>> \in Bytes
      BY DEF Bytes
    <3> QED
      BY <3>1, <2>1 DEF TypeOK
  <2>3. file[k] \o w \in Bytes
    BY <2>2 DEF Bytes
  <2>4. file' \in [Kinds -> Bytes]
    BY <2>1, <2>3 DEF TypeOK
  <2> QED
    BY <1>2, <2>4 DEF ChunkWrite, Goto, TypeOK, PCs
<1>3. ASSUME NEW s \in Stores, ChunkSync(s) PROVE TypeOK'
  <2>1. req[s].kind \in Kinds /\ req[s].raw \in Chunks
    BY <1>3 DEF ChunkSync, TypeOK
  <2>2. Append(hashed[s][req[s].kind], req[s].raw) \in Seq(Chunks)
    BY <2>1 DEF TypeOK
  <2>3. /\ fileD' \in [Kinds -> Bytes]
        /\ hashed' \in [Stores -> [Kinds -> Seq(Chunks)]]
        /\ acked' \in [Kinds -> SUBSET Seq(Chunks)]
    BY <1>3, <2>1, <2>2 DEF ChunkSync, TypeOK
  <2> QED
    BY <1>3, <2>3, DropCallsType DEF ChunkSync, TypeOK
<1>4. ASSUME NEW s \in Stores, NEW k \in Kinds, NEW c \in Chunks,
             NEW l \in Leases, NEW o \in 0..MaxLength[k],
             ChunkRetry(s, k, o, c, l)
      PROVE  TypeOK'
  <2>1. /\ acked' \in [Kinds -> SUBSET Seq(Chunks)]
        /\ UNCHANGED <<diskVars, flock, itemVars, callVars, issued, faults,
                       confirmed, delivered>>
    <3>1. hashed[s][k] \in Seq(Chunks)
      BY DEF TypeOK
    <3> QED
      BY <1>4, <3>1 DEF ChunkRetry, TypeOK
  <2> QED
    BY <2>1 DEF TypeOK
<1>5. ASSUME NEW s \in Stores, NEW k \in Kinds, NEW l \in Leases,
             ChunkStale(s, k, l)
      PROVE  TypeOK'
  BY <1>5 DEF ChunkStale, TypeOK, Statuses
<1>6. ASSUME NEW s \in Stores, NEW g \in 0..MaxGeneration, NEW st \in States,
             NEW p \in Profiles, NEW l \in Leases,
             CheckpointVerify(s, g, st, p, l)
      PROVE  TypeOK'
  <2>1. [generation |-> g + 1, profile |-> p, state |-> st,
         prefix |-> hashed[s]] \in Checkpoints
    <3>1. g + 1 \in Nat /\ hashed[s] \in [Kinds -> Seq(Chunks)]
      BY BoundsAssumption DEF TypeOK
    <3> QED
      BY <3>1 DEF Checkpoints
  <2> QED
    BY <1>6, <2>1 DEF CheckpointVerify, Goto, TypeOK, PCs
<1>7. ASSUME NEW s \in Stores, CheckpointReplace(s) PROVE TypeOK'
  BY <1>7 DEF CheckpointReplace, Goto, TypeOK, PCs
<1>8. ASSUME NEW s \in Stores, CheckpointSync(s) PROVE TypeOK'
  BY <1>8, <1>dir, DropCallsType DEF CheckpointSync, SyncDirectory, TypeOK, Checkpoints
<1>9. ASSUME NEW s \in Stores, NEW g \in 0..MaxGeneration, NEW p \in Profiles,
             ReopenVerify(s, g, p)
      PROVE  TypeOK'
  BY <1>9 DEF ReopenVerify, Goto, TypeOK, PCs
<1>10. ASSUME NEW s \in Stores, NEW k \in Kinds, ReopenCopy(s, k)
       PROVE  TypeOK'
  <2>1. Len(meta[s].prefix[k]) \in Nat /\ file[k] \in Bytes
    BY DEF TypeOK, Checkpoints
  <2>2. SubSeq(file[k], Len(meta[s].prefix[k]) + 1, Len(file[k])) \in Bytes
    BY <2>1 DEF Bytes
  <2>3. orphans' \in [Kinds -> SUBSET Bytes]
    BY <1>10, <2>2 DEF ReopenCopy, CommittedSize, TypeOK
  <2> QED
    BY <1>10, <2>3 DEF ReopenCopy, TypeOK
<1>11. ASSUME NEW s \in Stores, ReopenSyncOrphans(s) PROVE TypeOK'
  BY <1>11, <1>dir DEF ReopenSyncOrphans, SyncDirectory, Goto, TypeOK, PCs
<1>12. ASSUME NEW s \in Stores, NEW k \in Kinds, ReopenTruncate(s, k)
       PROVE  TypeOK'
  <2>1. /\ ckpt.prefix[k] = meta[s].prefix[k]
        /\ ckpt.prefix[k] \in Bytes /\ fileD[k] \in Bytes /\ file[k] \in Bytes
    BY <1>12, ChunksAreBytes DEF ReopenTruncate, OpInv, TypeOK, Checkpoints
  <2>2. IsPrefix(ckpt.prefix[k], file[k])
    BY <2>1, PrefixTransitive DEF DiskInv, Bytes
  <2>3. SubSeq(file[k], 1, Len(meta[s].prefix[k])) = meta[s].prefix[k]
    BY <2>1, <2>2, PrefixIsSubSeq DEF Bytes
  <2> QED
    BY <1>12, <2>1, <2>3 DEF ReopenTruncate, CommittedSize, TypeOK
<1>13. ASSUME NEW s \in Stores, ReopenReplace(s) PROVE TypeOK'
  <2>1. Consumed(meta[s]) \in Checkpoints
    <3>1. meta[s] \in Checkpoints
      BY DEF TypeOK
    <3> QED
      BY <3>1 DEF Consumed, Checkpoints
  <2> QED
    BY <1>13, <2>1 DEF ReopenReplace, Goto, TypeOK, PCs
<1>14. ASSUME NEW s \in Stores, ReopenFinish(s) PROVE TypeOK'
  <2>1. meta[s] \in Checkpoints
    BY DEF TypeOK
  <2>2. /\ meta[s].prefix \in [Kinds -> Seq(Chunks)]
        /\ meta[s].generation \in Nat
        /\ meta[s].profile \in Profiles \union {NoProfile}
    BY <2>1 DEF Checkpoints
  <2>3. /\ status' \in [Stores -> Statuses]
        /\ hashed' \in [Stores -> [Kinds -> Seq(Chunks)]]
        /\ generation' \in [Stores -> Nat]
        /\ profile' \in [Stores -> Profiles \union {NoProfile}]
        /\ lease' \in [Stores -> Nat]
        /\ requireLease' \in [Stores -> BOOLEAN]
    <3>1. /\ status' \in [Stores -> Statuses]
          /\ hashed' \in [Stores -> [Kinds -> Seq(Chunks)]]
      BY <1>14, <2>2 DEF ReopenFinish, TypeOK, Statuses
    <3>2. /\ generation' \in [Stores -> Nat]
          /\ profile' \in [Stores -> Profiles \union {NoProfile}]
      BY <1>14, <2>2 DEF ReopenFinish, TypeOK
    <3>3. lease' \in [Stores -> Nat] /\ requireLease' \in [Stores -> BOOLEAN]
      BY <1>14 DEF ReopenFinish, TypeOK
    <3> QED
      BY <3>1, <3>2, <3>3
  <2> QED
    <3>1. /\ dirD' \in Dirs /\ confirmed' \in Checkpoints /\ issued' \in Nat
          /\ UNCHANGED <<file, fileD, name, ckpt, orphans, receipt, flock,
                         faults, acked, delivered>>
      BY <1>14, <1>dir, <2>1 DEF ReopenFinish, SyncDirectory, TypeOK
    <3>2. DropCalls({s})
      BY <1>14 DEF ReopenFinish
    <3> QED
      BY <2>3, <3>1, <3>2, DropCallsType DEF TypeOK
<1>15. ASSUME NEW s \in Stores, NEW l \in Leases, FinalizeBegin(s, l)
       PROVE  TypeOK'
  BY <1>15 DEF FinalizeBegin, Goto, TypeOK, PCs
<1>16. ASSUME NEW s \in Stores, NEW k \in Kinds, FinalizeRename(s, k)
       PROVE  TypeOK'
  BY <1>16 DEF FinalizeRename, TypeOK, Names
<1>17. ASSUME NEW s \in Stores, NEW k \in Kinds, FinalizeStale(s, k)
       PROVE  TypeOK'
  BY <1>17, DropCallsType DEF FinalizeStale, TypeOK, Statuses
<1>18. ASSUME NEW s \in Stores, FinalizeReceipt(s) PROVE TypeOK'
  BY <1>18 DEF FinalizeReceipt, Goto, TypeOK, PCs, Receipts
<1>19. ASSUME NEW s \in Stores, FinalizePublish(s) PROVE TypeOK'
  BY <1>19, DropCallsType DEF FinalizePublish, TypeOK, Statuses, Receipts
<1>20. ASSUME NEW s \in Stores, Suspend(s) PROVE TypeOK'
  BY <1>20, DropSessionsType DEF Suspend, TypeOK
<1>21. ASSUME NEW s \in Stores, OsError(s) PROVE TypeOK'
  <2>1. status' \in [Stores -> Statuses] /\ flock' \in Stores \union {NoStore}
    BY <1>21 DEF OsError, TypeOK, Statuses
  <2> QED
    BY <1>21, <2>1, SpendType, DropCallsType DEF OsError, TypeOK, FaultSorts
<1>22. ASSUME NEW s \in Stores, Crash(s) PROVE TypeOK'
  <2>1. flock' \in Stores \union {NoStore}
    BY <1>22 DEF Crash, TypeOK
  <2> QED
    BY <1>22, <2>1, SpendType, DropCallsType, DropSessionsType
       DEF Crash, TypeOK, FaultSorts
<1>23. ASSUME PowerLoss PROVE TypeOK'
  <2>1. \A k \in Kinds : Remains(k) \subseteq Bytes
    <3> SUFFICES ASSUME NEW k \in Kinds PROVE Remains(k) \subseteq Bytes
      OBVIOUS
    <3>1. file[k] \in Bytes /\ fileD[k] \in Bytes
      BY DEF TypeOK
    <3>2. Append(fileD[k], Torn) \in Bytes
      BY <3>1 DEF Bytes
    <3> QED
      BY <3>1, <3>2 DEF Remains
  <2>2. file' \in [Kinds -> Bytes] /\ fileD' \in [Kinds -> Bytes]
    BY <1>23, <2>1 DEF PowerLoss, Kinds
  <2>3. /\ name' \in [Kinds -> Names] /\ ckpt' \in Checkpoints
        /\ orphans' \in [Kinds -> SUBSET Bytes] /\ receipt' \in Receipts
    <3>1. /\ dirD.ckpt \in Checkpoints /\ dirD.receipt \in Receipts
          /\ dirD.orphans \in [Kinds -> SUBSET Bytes]
      BY DEF TypeOK, Dirs
    <3>2. name' \in [Kinds -> Names]
      BY <1>23 DEF PowerLoss
    <3>3. ckpt' \in Checkpoints /\ orphans' \in [Kinds -> SUBSET Bytes]
      BY <1>23, <3>1 DEF PowerLoss, TypeOK
    <3>4. [stage |-> "partial", archives |-> receipt.archives] \in Receipts
      BY DEF TypeOK, Receipts
    <3>5. receipt' \in Receipts
      BY <1>23, <3>1, <3>4 DEF PowerLoss, TypeOK
    <3> QED
      BY <3>2, <3>3, <3>5
  <2>4. dirD' \in Dirs
    BY <1>23, <2>3 DEF PowerLoss, Dir, Dirs
  <2> QED
    BY <1>23, <2>2, <2>3, <2>4, SpendType, DropCallsType, DropSessionsType
       DEF PowerLoss, TypeOK, FaultSorts
<1>24. CASE UNCHANGED vars
  BY <1>24 DEF vars, TypeOK
<1> QED
  BY <1>1, <1>2, <1>3, <1>4, <1>5, <1>6, <1>7, <1>8, <1>9, <1>10, <1>11, <1>12,
     <1>13, <1>14, <1>15, <1>16, <1>17, <1>18, <1>19, <1>20, <1>21, <1>22,
     <1>23, <1>24 DEF Next, Chunk, Checkpoint, Reopen, Finalize

-----------------------------------------------------------------------------
(* The writer lock and the leases *)

\* Only start leaves the initial state, and it needs all of it.
LEMMA StepFresh ==
    TypeOK /\ FreshInv /\ LockInv /\ [Next]_vars => FreshInv'
<1> SUFFICES ASSUME TypeOK, FreshInv, LockInv, [Next]_vars PROVE FreshInv'
  OBVIOUS
<1> USE DEF diskVars, itemVars, callVars, historyVars
<1>1. ASSUME NEW s \in Stores, Start(s) PROVE FreshInv'
  BY <1>1 DEF Start, FreshInv, TypeOK, Kinds, Dir
<1>2. ASSUME NEW s \in Stores, NEW k \in Kinds, NEW c \in Chunks,
             NEW l \in Leases, NEW o \in 0..MaxLength[k],
             ChunkWrite(s, k, o, c, l)
      PROVE  FreshInv'
  BY <1>2 DEF ChunkWrite, Writable, OpenPartial, Goto, FreshInv, TypeOK,
     Kinds, Dir
<1>3. ASSUME NEW s \in Stores, ChunkSync(s) PROVE FreshInv'
  BY <1>3 DEF ChunkSync, DropCalls, FreshInv, TypeOK, Kinds, Dir
<1>4. ASSUME NEW s \in Stores, NEW k \in Kinds, NEW c \in Chunks,
             NEW l \in Leases, NEW o \in 0..MaxLength[k],
             ChunkRetry(s, k, o, c, l)
      PROVE  FreshInv'
  BY <1>4 DEF ChunkRetry, Writable, FreshInv, TypeOK, Kinds, Dir
<1>5. ASSUME NEW s \in Stores, NEW k \in Kinds, NEW l \in Leases,
             ChunkStale(s, k, l)
      PROVE  FreshInv'
  BY <1>5 DEF ChunkStale, Writable, FreshInv, TypeOK, Kinds, Dir
<1>6. ASSUME NEW s \in Stores, NEW g \in 0..MaxGeneration, NEW st \in States,
             NEW p \in Profiles, NEW l \in Leases,
             CheckpointVerify(s, g, st, p, l)
      PROVE  FreshInv'
  BY <1>6 DEF CheckpointVerify, Writable, OpenPartial, Goto, FreshInv,
     TypeOK, Kinds, Dir
<1>7. ASSUME NEW s \in Stores, CheckpointReplace(s) PROVE FreshInv'
  BY <1>7 DEF CheckpointReplace, Goto, FreshInv, TypeOK, Kinds, Dir
<1>8. ASSUME NEW s \in Stores, CheckpointSync(s) PROVE FreshInv'
  BY <1>8 DEF CheckpointSync, SyncDirectory, DropCalls, FreshInv, TypeOK,
     Kinds, Dir
<1>9. ASSUME NEW s \in Stores, NEW g \in 0..MaxGeneration, NEW p \in Profiles,
             ReopenVerify(s, g, p)
      PROVE  FreshInv'
  BY <1>9 DEF ReopenVerify, FreshInv, NoCheckpoint
<1>10. ASSUME NEW s \in Stores, NEW k \in Kinds,
             ReopenCopy(s, k)
      PROVE  FreshInv'
  BY <1>10 DEF ReopenCopy, FreshInv, TypeOK, Kinds, Dir
<1>11. ASSUME NEW s \in Stores, ReopenSyncOrphans(s) PROVE FreshInv'
  BY <1>11 DEF ReopenSyncOrphans, SyncDirectory, Goto, FreshInv, TypeOK,
     Kinds, Dir
<1>12. ASSUME NEW s \in Stores, NEW k \in Kinds,
             ReopenTruncate(s, k)
      PROVE  FreshInv'
  BY <1>12 DEF ReopenTruncate, FreshInv, TypeOK, Kinds, Dir
<1>13. ASSUME NEW s \in Stores, ReopenReplace(s) PROVE FreshInv'
  BY <1>13 DEF ReopenReplace, Goto, FreshInv, TypeOK, Kinds, Dir
<1>14. ASSUME NEW s \in Stores, ReopenFinish(s) PROVE FreshInv'
  BY <1>14 DEF ReopenFinish, SyncDirectory, DropCalls, FreshInv, TypeOK,
     Kinds, Dir
<1>15. ASSUME NEW s \in Stores, NEW l \in Leases,
             FinalizeBegin(s, l)
      PROVE  FreshInv'
  BY <1>15 DEF FinalizeBegin, Writable, Goto, FreshInv, TypeOK, Kinds, Dir
<1>16. ASSUME NEW s \in Stores, NEW k \in Kinds,
             FinalizeRename(s, k)
      PROVE  FreshInv'
  BY <1>16 DEF FinalizeRename, FreshInv, TypeOK, Kinds, Dir
<1>17. ASSUME NEW s \in Stores, NEW k \in Kinds,
             FinalizeStale(s, k)
      PROVE  FreshInv'
  BY <1>17 DEF FinalizeStale, DropCalls, FreshInv, TypeOK, Kinds, Dir
<1>18. ASSUME NEW s \in Stores, FinalizeReceipt(s) PROVE FreshInv'
  BY <1>18 DEF FinalizeReceipt, Goto, FreshInv, TypeOK, Kinds, Dir
<1>19. ASSUME NEW s \in Stores, FinalizePublish(s) PROVE FreshInv'
  BY <1>19 DEF FinalizePublish, DropCalls, FreshInv, TypeOK, Kinds, Dir
<1>20. ASSUME NEW s \in Stores, Suspend(s) PROVE FreshInv'
  BY <1>20 DEF Suspend, DropSessions, FreshInv, TypeOK, Kinds, Dir
<1>21. ASSUME NEW s \in Stores, OsError(s) PROVE FreshInv'
  BY <1>21 DEF OsError, DropCalls, FreshInv, TypeOK, Kinds, Dir
<1>22. ASSUME NEW s \in Stores, Crash(s) PROVE FreshInv'
  BY <1>22 DEF Crash, DropSessions, DropCalls, FreshInv, TypeOK, Kinds, Dir
<1>23. ASSUME PowerLoss PROVE FreshInv'
  <2> SUFFICES ASSUME NEW k \in Kinds,
                      name'[k] = "none" \/ dirD'.name[k] = "none"
               PROVE  FreshInv'
    BY DEF FreshInv
  <2>1. dirD'.name = name' /\ name'[k] \in {name[k], dirD.name[k]}
    BY <1>23 DEF PowerLoss, Dir
  <2>2. name[k] = "none" \/ dirD.name[k] = "none"
    BY <2>1
  <2>3. /\ issued = 0 /\ file = Nothing /\ fileD = Nothing
        /\ ckpt = NoCheckpoint /\ dirD.ckpt = NoCheckpoint
        /\ confirmed = NoCheckpoint
        /\ receipt = NoReceipt /\ dirD.receipt = NoReceipt
    BY <2>2 DEF FreshInv
  <2>4. file' = Nothing /\ fileD' = Nothing
    <3>1. Remains("warc") = {<<>>} /\ Remains("cdx") = {<<>>}
      BY <2>3 DEF Remains, Nothing, Kinds
    <3> QED
      BY <1>23, <3>1 DEF PowerLoss, Nothing, Kinds
  <2>5. /\ ckpt' = NoCheckpoint /\ dirD'.ckpt = NoCheckpoint
        /\ issued' = 0 /\ confirmed' = NoCheckpoint
    BY <1>23, <2>3 DEF PowerLoss, Dir
  <2>6. receipt' = NoReceipt /\ dirD'.receipt = NoReceipt
    BY <1>23, <2>3 DEF PowerLoss, Dir
  <2> QED
    BY <1>23, <2>4, <2>5, <2>6
       DEF PowerLoss, DropSessions, DropCalls, FreshInv
<1>24. CASE UNCHANGED vars
  BY <1>24 DEF vars, FreshInv, TypeOK, Kinds, Dir
<1> QED
  BY <1>1, <1>2, <1>3, <1>4, <1>5, <1>6, <1>7, <1>8, <1>9, <1>10, <1>11,
     <1>12, <1>13, <1>14, <1>15, <1>16, <1>17, <1>18, <1>19, <1>20, <1>21,
     <1>22, <1>23, <1>24 DEF Next, Chunk, Checkpoint, Reopen, Finalize

\* Whoever gains the lock finds it free; whoever loses it has nothing open.
LEMMA StepLock ==
    TypeOK /\ FreshInv /\ LockInv /\ [Next]_vars => LockInv'
<1> SUFFICES ASSUME TypeOK, FreshInv, LockInv, [Next]_vars PROVE LockInv'
  OBVIOUS
<1> USE DEF diskVars, itemVars, callVars, historyVars
<1>1. ASSUME NEW s \in Stores, Start(s) PROVE LockInv'
  BY <1>1 DEF Start, LockInv, FreshInv, Live, TypeOK, Kinds
<1>2. ASSUME NEW s \in Stores, NEW k \in Kinds, NEW c \in Chunks,
             NEW l \in Leases, NEW o \in 0..MaxLength[k],
             ChunkWrite(s, k, o, c, l)
      PROVE  LockInv'
  BY <1>2 DEF ChunkWrite, Writable, OpenPartial, Goto, LockInv, FreshInv,
     Live, TypeOK, Kinds
<1>3. ASSUME NEW s \in Stores, ChunkSync(s) PROVE LockInv'
  BY <1>3 DEF ChunkSync, DropCalls, LockInv, FreshInv, Live, TypeOK, Kinds
<1>4. ASSUME NEW s \in Stores, NEW k \in Kinds, NEW c \in Chunks,
             NEW l \in Leases, NEW o \in 0..MaxLength[k],
             ChunkRetry(s, k, o, c, l)
      PROVE  LockInv'
  BY <1>4 DEF ChunkRetry, Writable, LockInv, FreshInv, Live, TypeOK, Kinds
<1>5. ASSUME NEW s \in Stores, NEW k \in Kinds, NEW l \in Leases,
             ChunkStale(s, k, l)
      PROVE  LockInv'
  BY <1>5 DEF ChunkStale, Writable, LockInv, FreshInv, Live, TypeOK, Kinds
<1>6. ASSUME NEW s \in Stores, NEW g \in 0..MaxGeneration, NEW st \in States,
             NEW p \in Profiles, NEW l \in Leases,
             CheckpointVerify(s, g, st, p, l)
      PROVE  LockInv'
  BY <1>6 DEF CheckpointVerify, Writable, OpenPartial, Goto, LockInv,
     FreshInv, Live, TypeOK, Kinds
<1>7. ASSUME NEW s \in Stores, CheckpointReplace(s) PROVE LockInv'
  BY <1>7 DEF CheckpointReplace, Goto, LockInv, FreshInv, Live, TypeOK,
     Kinds
<1>8. ASSUME NEW s \in Stores, CheckpointSync(s) PROVE LockInv'
  BY <1>8 DEF CheckpointSync, SyncDirectory, DropCalls, LockInv, FreshInv,
     Live, TypeOK, Kinds
<1>9. ASSUME NEW s \in Stores, NEW g \in 0..MaxGeneration, NEW p \in Profiles,
             ReopenVerify(s, g, p)
      PROVE  LockInv'
  BY <1>9, NullsAssumption DEF ReopenVerify, LockFree, Goto, LockInv, Live, TypeOK
<1>10. ASSUME NEW s \in Stores, NEW k \in Kinds,
             ReopenCopy(s, k)
      PROVE  LockInv'
  BY <1>10 DEF ReopenCopy, LockInv, FreshInv, Live, TypeOK, Kinds
<1>11. ASSUME NEW s \in Stores, ReopenSyncOrphans(s) PROVE LockInv'
  BY <1>11 DEF ReopenSyncOrphans, SyncDirectory, Goto, LockInv, FreshInv,
     Live, TypeOK, Kinds
<1>12. ASSUME NEW s \in Stores, NEW k \in Kinds,
             ReopenTruncate(s, k)
      PROVE  LockInv'
  BY <1>12 DEF ReopenTruncate, LockInv, FreshInv, Live, TypeOK, Kinds
<1>13. ASSUME NEW s \in Stores, ReopenReplace(s) PROVE LockInv'
  BY <1>13 DEF ReopenReplace, Goto, LockInv, FreshInv, Live, TypeOK, Kinds
<1>14. ASSUME NEW s \in Stores, ReopenFinish(s) PROVE LockInv'
  BY <1>14 DEF ReopenFinish, SyncDirectory, DropCalls, LockInv, FreshInv,
     Live, TypeOK, Kinds
<1>15. ASSUME NEW s \in Stores, NEW l \in Leases,
             FinalizeBegin(s, l)
      PROVE  LockInv'
  BY <1>15 DEF FinalizeBegin, Writable, Goto, LockInv, FreshInv, Live,
     TypeOK, Kinds
<1>16. ASSUME NEW s \in Stores, NEW k \in Kinds,
             FinalizeRename(s, k)
      PROVE  LockInv'
  BY <1>16 DEF FinalizeRename, LockInv, FreshInv, Live, TypeOK, Kinds
<1>17. ASSUME NEW s \in Stores, NEW k \in Kinds,
             FinalizeStale(s, k)
      PROVE  LockInv'
  BY <1>17 DEF FinalizeStale, DropCalls, LockInv, FreshInv, Live, TypeOK,
     Kinds
<1>18. ASSUME NEW s \in Stores, FinalizeReceipt(s) PROVE LockInv'
  BY <1>18 DEF FinalizeReceipt, Goto, LockInv, FreshInv, Live, TypeOK,
     Kinds
<1>19. ASSUME NEW s \in Stores, FinalizePublish(s) PROVE LockInv'
  BY <1>19 DEF FinalizePublish, DropCalls, LockInv, FreshInv, Live, TypeOK,
     Kinds
<1>20. ASSUME NEW s \in Stores, Suspend(s) PROVE LockInv'
  BY <1>20 DEF Suspend, DropSessions, LockInv, FreshInv, Live, TypeOK,
     Kinds
<1>21. ASSUME NEW s \in Stores, OsError(s) PROVE LockInv'
  BY <1>21 DEF OsError, DropCalls, LockInv, FreshInv, Live, TypeOK, Kinds
<1>22. ASSUME NEW s \in Stores, Crash(s) PROVE LockInv'
  BY <1>22 DEF Crash, DropSessions, DropCalls, LockInv, FreshInv, Live,
     TypeOK, Kinds
<1>23. ASSUME PowerLoss PROVE LockInv'
  BY <1>23 DEF PowerLoss, DropSessions, DropCalls, LockInv, FreshInv, Live,
     TypeOK, Kinds
<1>24. CASE UNCHANGED vars
  BY <1>24 DEF vars, LockInv, FreshInv, Live, TypeOK, Kinds
<1> QED
  BY <1>1, <1>2, <1>3, <1>4, <1>5, <1>6, <1>7, <1>8, <1>9, <1>10, <1>11,
     <1>12, <1>13, <1>14, <1>15, <1>16, <1>17, <1>18, <1>19, <1>20, <1>21,
     <1>22, <1>23, <1>24 DEF Next, Chunk, Checkpoint, Reopen, Finalize

\* A new lease is issued by the process that holds the lock.
LEMMA StepLease ==
    TypeOK /\ FreshInv /\ LockInv /\ LeaseInv /\ [Next]_vars => LeaseInv'
<1> SUFFICES ASSUME TypeOK, FreshInv, LockInv, LeaseInv, [Next]_vars PROVE LeaseInv'
  OBVIOUS
<1> USE DEF diskVars, itemVars, callVars, historyVars
<1>1. ASSUME NEW s \in Stores, Start(s) PROVE LeaseInv'
  BY <1>1 DEF Start, LeaseInv, LockInv, FreshInv, Live, TypeOK, Kinds
<1>2. ASSUME NEW s \in Stores, NEW k \in Kinds, NEW c \in Chunks,
             NEW l \in Leases, NEW o \in 0..MaxLength[k],
             ChunkWrite(s, k, o, c, l)
      PROVE  LeaseInv'
  BY <1>2 DEF ChunkWrite, Writable, OpenPartial, Goto, LeaseInv, LockInv,
     FreshInv, Live, TypeOK, Kinds
<1>3. ASSUME NEW s \in Stores, ChunkSync(s) PROVE LeaseInv'
  BY <1>3 DEF ChunkSync, DropCalls, LeaseInv, LockInv, FreshInv, Live,
     TypeOK, Kinds
<1>4. ASSUME NEW s \in Stores, NEW k \in Kinds, NEW c \in Chunks,
             NEW l \in Leases, NEW o \in 0..MaxLength[k],
             ChunkRetry(s, k, o, c, l)
      PROVE  LeaseInv'
  BY <1>4 DEF ChunkRetry, Writable, LeaseInv, LockInv, FreshInv, Live,
     TypeOK, Kinds
<1>5. ASSUME NEW s \in Stores, NEW k \in Kinds, NEW l \in Leases,
             ChunkStale(s, k, l)
      PROVE  LeaseInv'
  BY <1>5 DEF ChunkStale, Writable, LeaseInv, LockInv, FreshInv, Live,
     TypeOK, Kinds
<1>6. ASSUME NEW s \in Stores, NEW g \in 0..MaxGeneration, NEW st \in States,
             NEW p \in Profiles, NEW l \in Leases,
             CheckpointVerify(s, g, st, p, l)
      PROVE  LeaseInv'
  BY <1>6 DEF CheckpointVerify, Writable, OpenPartial, Goto, LeaseInv,
     LockInv, FreshInv, Live, TypeOK, Kinds
<1>7. ASSUME NEW s \in Stores, CheckpointReplace(s) PROVE LeaseInv'
  BY <1>7 DEF CheckpointReplace, Goto, LeaseInv, LockInv, FreshInv, Live,
     TypeOK, Kinds
<1>8. ASSUME NEW s \in Stores, CheckpointSync(s) PROVE LeaseInv'
  BY <1>8 DEF CheckpointSync, SyncDirectory, DropCalls, LeaseInv, LockInv,
     FreshInv, Live, TypeOK, Kinds
<1>9. ASSUME NEW s \in Stores, NEW g \in 0..MaxGeneration, NEW p \in Profiles,
             ReopenVerify(s, g, p)
      PROVE  LeaseInv'
  BY <1>9 DEF ReopenVerify, Reopenable, LockFree, Goto, LeaseInv, LockInv,
     FreshInv, Live, TypeOK, Kinds
<1>10. ASSUME NEW s \in Stores, NEW k \in Kinds,
             ReopenCopy(s, k)
      PROVE  LeaseInv'
  BY <1>10 DEF ReopenCopy, LeaseInv, LockInv, FreshInv, Live, TypeOK, Kinds
<1>11. ASSUME NEW s \in Stores, ReopenSyncOrphans(s) PROVE LeaseInv'
  BY <1>11 DEF ReopenSyncOrphans, SyncDirectory, Goto, LeaseInv, LockInv,
     FreshInv, Live, TypeOK, Kinds
<1>12. ASSUME NEW s \in Stores, NEW k \in Kinds,
             ReopenTruncate(s, k)
      PROVE  LeaseInv'
  BY <1>12 DEF ReopenTruncate, LeaseInv, LockInv, FreshInv, Live, TypeOK,
     Kinds
<1>13. ASSUME NEW s \in Stores, ReopenReplace(s) PROVE LeaseInv'
  BY <1>13 DEF ReopenReplace, Goto, LeaseInv, LockInv, FreshInv, Live,
     TypeOK, Kinds
<1>14. ASSUME NEW s \in Stores, ReopenFinish(s) PROVE LeaseInv'
  BY <1>14 DEF ReopenFinish, SyncDirectory, DropCalls, LeaseInv, LockInv,
     FreshInv, Live, TypeOK, Kinds
<1>15. ASSUME NEW s \in Stores, NEW l \in Leases,
             FinalizeBegin(s, l)
      PROVE  LeaseInv'
  BY <1>15 DEF FinalizeBegin, Writable, Goto, LeaseInv, LockInv, FreshInv,
     Live, TypeOK, Kinds
<1>16. ASSUME NEW s \in Stores, NEW k \in Kinds,
             FinalizeRename(s, k)
      PROVE  LeaseInv'
  BY <1>16 DEF FinalizeRename, LeaseInv, LockInv, FreshInv, Live, TypeOK,
     Kinds
<1>17. ASSUME NEW s \in Stores, NEW k \in Kinds,
             FinalizeStale(s, k)
      PROVE  LeaseInv'
  BY <1>17 DEF FinalizeStale, DropCalls, LeaseInv, LockInv, FreshInv, Live,
     TypeOK, Kinds
<1>18. ASSUME NEW s \in Stores, FinalizeReceipt(s) PROVE LeaseInv'
  BY <1>18 DEF FinalizeReceipt, Goto, LeaseInv, LockInv, FreshInv, Live,
     TypeOK, Kinds
<1>19. ASSUME NEW s \in Stores, FinalizePublish(s) PROVE LeaseInv'
  BY <1>19 DEF FinalizePublish, DropCalls, LeaseInv, LockInv, FreshInv,
     Live, TypeOK, Kinds
<1>20. ASSUME NEW s \in Stores, Suspend(s) PROVE LeaseInv'
  BY <1>20 DEF Suspend, DropSessions, LeaseInv, LockInv, FreshInv, Live,
     TypeOK, Kinds
<1>21. ASSUME NEW s \in Stores, OsError(s) PROVE LeaseInv'
  BY <1>21 DEF OsError, DropCalls, LeaseInv, LockInv, FreshInv, Live,
     TypeOK, Kinds
<1>22. ASSUME NEW s \in Stores, Crash(s) PROVE LeaseInv'
  BY <1>22 DEF Crash, DropSessions, DropCalls, LeaseInv, LockInv, FreshInv,
     Live, TypeOK, Kinds
<1>23. ASSUME PowerLoss PROVE LeaseInv'
  BY <1>23 DEF PowerLoss, DropSessions, DropCalls, LeaseInv, LockInv,
     FreshInv, Live, TypeOK, Kinds
<1>24. CASE UNCHANGED vars
  BY <1>24 DEF vars, LeaseInv, LockInv, FreshInv, Live, TypeOK, Kinds
<1> QED
  BY <1>1, <1>2, <1>3, <1>4, <1>5, <1>6, <1>7, <1>8, <1>9, <1>10, <1>11,
     <1>12, <1>13, <1>14, <1>15, <1>16, <1>17, <1>18, <1>19, <1>20, <1>21,
     <1>22, <1>23, <1>24 DEF Next, Chunk, Checkpoint, Reopen, Finalize

-----------------------------------------------------------------------------
(* The bytes on the disk *)

\* Whoever has a session or an operation open is alone in that.
LEMMA Exclusive ==
    ASSUME LockInv, NEW s \in Stores, Live(s) \/ pc[s] # "idle",
           NEW t \in Stores, t # s
    PROVE  pc[t] = "idle" /\ ~Live(t) /\ status[t] # "writable"
  BY DEF LockInv, Live

LEMMA ContentTypes ==
    ASSUME TypeOK, NEW k \in Kinds
    PROVE  /\ file[k] \in Bytes /\ fileD[k] \in Bytes
           /\ ckpt.prefix[k] \in Bytes /\ dirD.ckpt.prefix[k] \in Bytes
           /\ \A s \in Stores :
                 hashed[s][k] \in Bytes /\ meta[s].prefix[k] \in Bytes
<1>1. /\ ckpt \in Checkpoints /\ dirD.ckpt \in Checkpoints
      /\ \A s \in Stores : meta[s] \in Checkpoints
  BY DEF TypeOK, Dirs
<1>2. \A c \in Checkpoints : c.prefix[k] \in Seq(Chunks)
  BY DEF Checkpoints
<1>3. \A s \in Stores : hashed[s][k] \in Seq(Chunks)
  BY DEF TypeOK
<1>4. file[k] \in Bytes /\ fileD[k] \in Bytes
  BY DEF TypeOK
<1> QED
  BY <1>1, <1>2, <1>3, <1>4, ChunksAreBytes

LEMMA DiskChain ==
    ASSUME TypeOK, DiskInv, NEW k \in Kinds
    PROVE  /\ IsPrefix(ckpt.prefix[k], file[k])
           /\ IsPrefix(dirD.ckpt.prefix[k], fileD[k])
           /\ IsPrefix(dirD.ckpt.prefix[k], file[k])
  BY ContentTypes, PrefixTransitive DEF DiskInv, Bytes

\* The truncation keeps exactly the committed prefix.
LEMMA Truncated ==
    ASSUME TypeOK, DiskInv, OpInv, NEW s \in Stores, NEW k \in Kinds,
           ReopenTruncate(s, k)
    PROVE  /\ ckpt = meta[s] /\ dirD.ckpt = ckpt
           /\ file' = [file EXCEPT ![k] = ckpt.prefix[k]]
           /\ fileD' = [fileD EXCEPT ![k] = ckpt.prefix[k]]
           /\ file'[k] = ckpt.prefix[k] /\ fileD'[k] = ckpt.prefix[k]
           /\ \A j \in Kinds \ {k} : file'[j] = file[j] /\ fileD'[j] = fileD[j]
<1>1. ckpt = meta[s] /\ dirD.ckpt = ckpt
  BY DEF ReopenTruncate, OpInv
<1>2. SubSeq(file[k], 1, Len(meta[s].prefix[k])) = ckpt.prefix[k]
  BY <1>1, DiskChain, ContentTypes, PrefixIsSubSeq DEF Bytes
<1>3. file' = [file EXCEPT ![k] = ckpt.prefix[k]]
  BY <1>1, <1>2 DEF ReopenTruncate, CommittedSize
<1>4. file'[k] = ckpt.prefix[k]
  BY <1>3 DEF TypeOK
<1>5. fileD' = [fileD EXCEPT ![k] = ckpt.prefix[k]]
  BY <1>4 DEF ReopenTruncate
<1> QED
  BY <1>1, <1>3, <1>4, <1>5 DEF TypeOK

\* Bytes are appended past every checkpoint and cut off at the newest one.
LEMMA StepDisk ==
    TypeOK /\ FreshInv /\ LockInv /\ OpInv /\ DiskInv /\ [Next]_vars => DiskInv'
<1> SUFFICES ASSUME TypeOK, FreshInv, LockInv, OpInv, DiskInv, [Next]_vars PROVE DiskInv'
  OBVIOUS
<1> USE DEF diskVars, itemVars, callVars, historyVars
<1>1. ASSUME NEW s \in Stores, Start(s) PROVE DiskInv'
  <2>1. /\ file' = Nothing /\ fileD' = Nothing
        /\ ckpt' = NoCheckpoint /\ dirD'.ckpt = NoCheckpoint
    BY <1>1 DEF Start, FreshInv, Kinds, Dir
  <2> QED
    BY <2>1, PrefixReflexive DEF DiskInv, Nothing, NoCheckpoint
<1>2. ASSUME NEW s \in Stores, NEW k \in Kinds, NEW c \in Chunks,
             NEW l \in Leases, NEW o \in 0..MaxLength[k],
             ChunkWrite(s, k, o, c, l)
      PROVE  DiskInv'
  <2>1. PICK w \in {<<c>>, <<Torn>>, <<>>} :
           file' = [file EXCEPT ![k] = @ \o w]
    BY <1>2 DEF ChunkWrite
  <2>2. w \in Bytes
    <3>1. <<c>> \in Bytes /\ <<Torn>> \in Bytes /\ <<>> \in Bytes
      BY DEF Bytes
    <3> QED
      BY <3>1
  <2>3. IsPrefix(fileD[k], file[k] \o w)
    BY <2>2, ContentTypes, PrefixOfExtension DEF DiskInv, Bytes
  <2> QED
    BY <1>2, <2>1, <2>3 DEF ChunkWrite, DiskInv, TypeOK
<1>3. ASSUME NEW s \in Stores, ChunkSync(s) PROVE DiskInv'
  <2>1. /\ UNCHANGED <<file, ckpt, dirD>>
        /\ fileD' = [fileD EXCEPT ![req[s].kind] = file[req[s].kind]]
    BY <1>3 DEF ChunkSync
  <2> QED
    BY <2>1, DiskChain, PrefixReflexive DEF DiskInv, TypeOK
<1>4. ASSUME NEW s \in Stores, NEW k \in Kinds, NEW c \in Chunks,
             NEW l \in Leases, NEW o \in 0..MaxLength[k],
             ChunkRetry(s, k, o, c, l)
      PROVE  DiskInv'
  BY <1>4 DEF ChunkRetry, Writable, DiskInv
<1>5. ASSUME NEW s \in Stores, NEW k \in Kinds, NEW l \in Leases,
             ChunkStale(s, k, l)
      PROVE  DiskInv'
  BY <1>5 DEF ChunkStale, Writable, DiskInv
<1>6. ASSUME NEW s \in Stores, NEW g \in 0..MaxGeneration, NEW st \in States,
             NEW p \in Profiles, NEW l \in Leases,
             CheckpointVerify(s, g, st, p, l)
      PROVE  DiskInv'
  BY <1>6, DiskChain, PrefixReflexive DEF CheckpointVerify, DiskInv
<1>7. ASSUME NEW s \in Stores, CheckpointReplace(s) PROVE DiskInv'
  <2>1. ckpt'.prefix = file /\ UNCHANGED <<file, fileD, dirD>> /\ fileD = file
    BY <1>7 DEF CheckpointReplace, OpInv
  <2> QED
    BY <2>1, DiskChain, PrefixReflexive DEF DiskInv
<1>8. ASSUME NEW s \in Stores, CheckpointSync(s) PROVE DiskInv'
  BY <1>8, PrefixReflexive DEF CheckpointSync, SyncDirectory, DiskInv, Dir
<1>9. ASSUME NEW s \in Stores, NEW g \in 0..MaxGeneration, NEW p \in Profiles,
             ReopenVerify(s, g, p)
      PROVE  DiskInv'
  BY <1>9 DEF ReopenVerify, Reopenable, LockFree, Goto, DiskInv
<1>10. ASSUME NEW s \in Stores, NEW k \in Kinds,
             ReopenCopy(s, k)
      PROVE  DiskInv'
  BY <1>10 DEF ReopenCopy, DiskInv
<1>11. ASSUME NEW s \in Stores, ReopenSyncOrphans(s) PROVE DiskInv'
  BY <1>11, PrefixReflexive DEF ReopenSyncOrphans, SyncDirectory, DiskInv, Dir
<1>12. ASSUME NEW s \in Stores, NEW k \in Kinds,
             ReopenTruncate(s, k)
      PROVE  DiskInv'
  <2>1. UNCHANGED <<ckpt, dirD>>
    BY <1>12 DEF ReopenTruncate
  <2>2. file'[k] = ckpt.prefix[k] /\ fileD'[k] = ckpt.prefix[k]
        /\ dirD.ckpt = ckpt
    BY <1>12, Truncated
  <2>3. \A j \in Kinds \ {k} : file'[j] = file[j] /\ fileD'[j] = fileD[j]
    BY <1>12, Truncated
  <2> QED
    BY <2>1, <2>2, <2>3, PrefixReflexive DEF DiskInv
<1>13. ASSUME NEW s \in Stores, ReopenReplace(s) PROVE DiskInv'
  <2>1. ckpt'.prefix = ckpt.prefix /\ UNCHANGED <<file, fileD, dirD>>
    BY <1>13 DEF ReopenReplace, OpInv, TypeOK, Consumed
  <2> QED
    BY <2>1 DEF DiskInv
<1>14. ASSUME NEW s \in Stores, ReopenFinish(s) PROVE DiskInv'
  BY <1>14, PrefixReflexive DEF ReopenFinish, SyncDirectory, DiskInv, Dir
<1>15. ASSUME NEW s \in Stores, NEW l \in Leases,
             FinalizeBegin(s, l)
      PROVE  DiskInv'
  BY <1>15 DEF FinalizeBegin, Writable, Goto, DiskInv
<1>16. ASSUME NEW s \in Stores, NEW k \in Kinds,
             FinalizeRename(s, k)
      PROVE  DiskInv'
  BY <1>16 DEF FinalizeRename, DiskInv
<1>17. ASSUME NEW s \in Stores, NEW k \in Kinds,
             FinalizeStale(s, k)
      PROVE  DiskInv'
  BY <1>17 DEF FinalizeStale, DropCalls, DiskInv
<1>18. ASSUME NEW s \in Stores, FinalizeReceipt(s) PROVE DiskInv'
  BY <1>18 DEF FinalizeReceipt, Goto, DiskInv
<1>19. ASSUME NEW s \in Stores, FinalizePublish(s) PROVE DiskInv'
  BY <1>19 DEF FinalizePublish, DropCalls, DiskInv
<1>20. ASSUME NEW s \in Stores, Suspend(s) PROVE DiskInv'
  BY <1>20 DEF Suspend, DropSessions, DiskInv
<1>21. ASSUME NEW s \in Stores, OsError(s) PROVE DiskInv'
  BY <1>21 DEF OsError, DropCalls, DiskInv
<1>22. ASSUME NEW s \in Stores, Crash(s) PROVE DiskInv'
  BY <1>22 DEF Crash, DropSessions, DropCalls, DiskInv
<1>23. ASSUME PowerLoss PROVE DiskInv'
  <2> SUFFICES ASSUME NEW k \in Kinds
               PROVE  /\ IsPrefix(dirD'.ckpt.prefix[k], ckpt'.prefix[k])
                      /\ IsPrefix(ckpt'.prefix[k], fileD'[k])
                      /\ IsPrefix(fileD'[k], file'[k])
    BY DEF DiskInv
  <2>1. /\ dirD'.ckpt = ckpt' /\ ckpt' \in {ckpt, dirD.ckpt}
        /\ fileD' = file' /\ file'[k] \in Remains(k)
    BY <1>23 DEF PowerLoss, Dir, Kinds
  <2>2. ckpt'.prefix[k] \in Bytes /\ IsPrefix(ckpt'.prefix[k], fileD[k])
        /\ IsPrefix(ckpt'.prefix[k], file[k])
    BY <2>1, ContentTypes, DiskChain DEF DiskInv
  <2>4. IsPrefix(ckpt'.prefix[k], Append(fileD[k], Torn))
    BY <2>2, ContentTypes, PrefixOfAppend DEF Bytes
  <2>5. IsPrefix(ckpt'.prefix[k], file'[k])
    BY <2>1, <2>2, <2>4 DEF Remains
  <2> QED
    BY <2>1, <2>5, PrefixReflexive
<1>24. CASE UNCHANGED vars
  BY <1>24 DEF vars, DiskInv
<1> QED
  BY <1>1, <1>2, <1>3, <1>4, <1>5, <1>6, <1>7, <1>8, <1>9, <1>10, <1>11,
     <1>12, <1>13, <1>14, <1>15, <1>16, <1>17, <1>18, <1>19, <1>20, <1>21,
     <1>22, <1>23, <1>24 DEF Next, Chunk, Checkpoint, Reopen, Finalize

\* An operation finds on the disk what it left there: it is alone in that.
LEMMA StepOp ==
    TypeOK /\ FreshInv /\ LockInv /\ DiskInv /\ OpInv /\ [Next]_vars => OpInv'
<1> SUFFICES ASSUME TypeOK, FreshInv, LockInv, DiskInv, OpInv, [Next]_vars PROVE OpInv'
  OBVIOUS
<1> USE DEF diskVars, itemVars, callVars, historyVars
<1>1. ASSUME NEW s \in Stores, Start(s) PROVE OpInv'
  BY <1>1 DEF Start, FreshInv, OpInv, Kinds
<1>2. ASSUME NEW s \in Stores, NEW k \in Kinds, NEW c \in Chunks,
             NEW l \in Leases, NEW o \in 0..MaxLength[k],
             ChunkWrite(s, k, o, c, l)
      PROVE  OpInv'
  BY <1>2, Exclusive DEF ChunkWrite, Writable, Goto, OpInv, Live, TypeOK
<1>3. ASSUME NEW s \in Stores, ChunkSync(s) PROVE OpInv'
  BY <1>3, Exclusive DEF ChunkSync, DropCalls, OpInv, TypeOK
<1>4. ASSUME NEW s \in Stores, NEW k \in Kinds, NEW c \in Chunks,
             NEW l \in Leases, NEW o \in 0..MaxLength[k],
             ChunkRetry(s, k, o, c, l)
      PROVE  OpInv'
  BY <1>4 DEF ChunkRetry, Writable, OpInv, LockInv, Live, TypeOK
<1>5. ASSUME NEW s \in Stores, NEW k \in Kinds, NEW l \in Leases,
             ChunkStale(s, k, l)
      PROVE  OpInv'
  BY <1>5 DEF ChunkStale, Writable, OpInv, LockInv, Live, TypeOK
<1>6. ASSUME NEW s \in Stores, NEW g \in 0..MaxGeneration, NEW st \in States,
             NEW p \in Profiles, NEW l \in Leases,
             CheckpointVerify(s, g, st, p, l)
      PROVE  OpInv'
  <2>1. hashed[s] = file
    <3>1. \A k \in Kinds : file[k] = hashed[s][k]
      BY <1>6 DEF CheckpointVerify
    <3>2. /\ hashed[s] = [k \in Kinds |-> hashed[s][k]]
          /\ file = [k \in Kinds |-> file[k]]
      BY DEF TypeOK
    <3>3. [k \in Kinds |-> hashed[s][k]] = [k \in Kinds |-> file[k]]
      BY <3>1
    <3> QED
      BY <3>2, <3>3
  <2>2. meta'[s].prefix = file /\ fileD' = file
    BY <1>6, <2>1 DEF CheckpointVerify, TypeOK
  <2> QED
    BY <1>6, <2>2, Exclusive
       DEF CheckpointVerify, Writable, Goto, OpInv, Live, TypeOK
<1>7. ASSUME NEW s \in Stores, CheckpointReplace(s) PROVE OpInv'
  <2>1. meta[s].prefix = file /\ fileD = file
    BY <1>7 DEF CheckpointReplace, OpInv
  <2>2. /\ ckpt' = meta[s] /\ UNCHANGED <<file, fileD, dirD, meta, done>>
        /\ pc' = [pc EXCEPT ![s] = "sync"]
    BY <1>7 DEF CheckpointReplace, Goto
  <2>3. \A t \in Stores \ {s} : pc[t] = "idle"
    BY <1>7, Exclusive DEF CheckpointReplace
  <2> QED
    BY <2>1, <2>2, <2>3 DEF OpInv, TypeOK
<1>8. ASSUME NEW s \in Stores, CheckpointSync(s) PROVE OpInv'
  BY <1>8, Exclusive DEF CheckpointSync, DropCalls, OpInv, TypeOK
<1>9. ASSUME NEW s \in Stores, NEW g \in 0..MaxGeneration, NEW p \in Profiles,
             ReopenVerify(s, g, p)
      PROVE  OpInv'
  BY <1>9 DEF ReopenVerify, Reopenable, LockFree, Goto, OpInv, LockInv,
     Live, TypeOK
<1>10. ASSUME NEW s \in Stores, NEW k \in Kinds, ReopenCopy(s, k) PROVE OpInv'
  BY <1>10, Exclusive DEF ReopenCopy, OpInv, TypeOK
<1>11. ASSUME NEW s \in Stores, ReopenSyncOrphans(s) PROVE OpInv'
  BY <1>11, Exclusive DEF ReopenSyncOrphans, SyncDirectory, Goto, Dir, OpInv, TypeOK
<1>12. ASSUME NEW s \in Stores, NEW k \in Kinds,
             ReopenTruncate(s, k)
      PROVE  OpInv'
  <2>1. /\ UNCHANGED <<ckpt, dirD, pc, meta>> /\ pc[s] = "truncate"
        /\ done' = [done EXCEPT ![s] = @ \union {k}]
    BY <1>12 DEF ReopenTruncate
  <2>2. file'[k] = meta[s].prefix[k] /\ fileD'[k] = meta[s].prefix[k]
        /\ dirD.ckpt = ckpt /\ ckpt = meta[s]
    BY <1>12, Truncated
  <2>3. \A j \in Kinds \ {k} : file'[j] = file[j] /\ fileD'[j] = fileD[j]
    BY <1>12, Truncated
  <2>4. \A t \in Stores \ {s} : pc[t] = "idle"
    BY <2>1, Exclusive
  <2>5. \A j \in done'[s] : file'[j] = meta[s].prefix[j] /\ fileD'[j] = file'[j]
    BY <2>1, <2>2, <2>3 DEF OpInv, TypeOK
  <2> QED
    BY <2>1, <2>2, <2>4, <2>5 DEF OpInv
<1>13. ASSUME NEW s \in Stores, ReopenReplace(s) PROVE OpInv'
  <2>1. meta[s].prefix = file /\ fileD = file
    <3>1. \A k \in Kinds : file[k] = meta[s].prefix[k] /\ fileD[k] = file[k]
      BY <1>13 DEF ReopenReplace, OpInv
    <3>2. meta[s] \in Checkpoints
      BY DEF TypeOK
    <3>3. meta[s].prefix \in [Kinds -> Seq(Chunks)]
      BY <3>2 DEF Checkpoints
    <3>4. meta[s].prefix = file
      BY <3>1, <3>3 DEF TypeOK
    <3>5. fileD = file
      BY <3>1 DEF TypeOK
    <3> QED
      BY <3>4, <3>5
  <2>2. /\ meta'[s].prefix = file /\ ckpt' = meta'[s]
        /\ UNCHANGED <<file, fileD>>
    BY <1>13, <2>1 DEF ReopenReplace, Consumed, TypeOK
  <2>3. pc' = [pc EXCEPT ![s] = "resync"]
    BY <1>13 DEF ReopenReplace, Goto
  <2>4. /\ meta' = [meta EXCEPT ![s] = Consumed(meta[s])]
        /\ done' = [done EXCEPT ![s] = {}]
    BY <1>13 DEF ReopenReplace
  <2>5. \A t \in Stores \ {s} : pc[t] = "idle"
    BY <1>13, Exclusive DEF ReopenReplace
  <2>6. pc'[s] = "resync" /\ \A t \in Stores \ {s} : pc'[t] = "idle"
    BY <2>3, <2>5 DEF TypeOK
  <2> QED
    BY <2>1, <2>2, <2>6 DEF OpInv
<1>14. ASSUME NEW s \in Stores, ReopenFinish(s) PROVE OpInv'
  BY <1>14, Exclusive DEF ReopenFinish, DropCalls, OpInv, TypeOK
<1>15. ASSUME NEW s \in Stores, NEW l \in Leases,
             FinalizeBegin(s, l)
      PROVE  OpInv'
  BY <1>15 DEF FinalizeBegin, Writable, Goto, OpInv, LockInv, Live, TypeOK
<1>16. ASSUME NEW s \in Stores, NEW k \in Kinds,
             FinalizeRename(s, k)
      PROVE  OpInv'
  BY <1>16 DEF FinalizeRename, OpInv, LockInv, Live, TypeOK
<1>17. ASSUME NEW s \in Stores, NEW k \in Kinds,
             FinalizeStale(s, k)
      PROVE  OpInv'
  BY <1>17 DEF FinalizeStale, DropCalls, OpInv, LockInv, Live, TypeOK
<1>18. ASSUME NEW s \in Stores, FinalizeReceipt(s) PROVE OpInv'
  BY <1>18 DEF FinalizeReceipt, Goto, OpInv, LockInv, Live, TypeOK
<1>19. ASSUME NEW s \in Stores, FinalizePublish(s) PROVE OpInv'
  BY <1>19 DEF FinalizePublish, DropCalls, OpInv, LockInv, Live, TypeOK
<1>20. ASSUME NEW s \in Stores, Suspend(s) PROVE OpInv'
  BY <1>20 DEF Suspend, DropSessions, OpInv, LockInv, Live, TypeOK
<1>21. ASSUME NEW s \in Stores, OsError(s) PROVE OpInv'
  BY <1>21 DEF OsError, DropCalls, OpInv, LockInv, Live, TypeOK
<1>22. ASSUME NEW s \in Stores, Crash(s) PROVE OpInv'
  BY <1>22 DEF Crash, DropSessions, DropCalls, OpInv, LockInv, Live, TypeOK
<1>23. ASSUME PowerLoss PROVE OpInv'
  BY <1>23 DEF PowerLoss, DropCalls, OpInv
<1>24. CASE UNCHANGED vars
  BY <1>24 DEF vars, OpInv, LockInv, Live, TypeOK
<1> QED
  BY <1>1, <1>2, <1>3, <1>4, <1>5, <1>6, <1>7, <1>8, <1>9, <1>10, <1>11,
     <1>12, <1>13, <1>14, <1>15, <1>16, <1>17, <1>18, <1>19, <1>20, <1>21,
     <1>22, <1>23, <1>24 DEF Next, Chunk, Checkpoint, Reopen, Finalize

\* What a writable session knows of its files stays true of them.
LEMMA StepSession ==
    TypeOK /\ FreshInv /\ LockInv /\ DiskInv /\ OpInv /\ SessionInv /\ [Next]_vars => SessionInv'
<1> SUFFICES ASSUME TypeOK, FreshInv, LockInv, DiskInv, OpInv, SessionInv, [Next]_vars PROVE SessionInv'
  OBVIOUS
<1> USE DEF diskVars, itemVars, callVars, historyVars
<1>1. ASSUME NEW s \in Stores, Start(s) PROVE SessionInv'
  <2>1. file' = Nothing /\ fileD' = Nothing /\ hashed'[s] = Nothing
    BY <1>1 DEF Start, FreshInv, TypeOK, Kinds
  <2>2. \A t \in Stores \ {s} : status'[t] = "absent"
    BY <1>1 DEF Start, FreshInv, TypeOK, Kinds
  <2>3. pc'[s] = "idle"
    BY <1>1 DEF Start
  <2> QED
    BY <2>1, <2>2, <2>3, PrefixReflexive DEF SessionInv
<1>2. ASSUME NEW s \in Stores, NEW k \in Kinds, NEW c \in Chunks,
             NEW l \in Leases, NEW o \in 0..MaxLength[k],
             ChunkWrite(s, k, o, c, l)
      PROVE  SessionInv'
  <2>1. /\ pc[s] = "idle" /\ status[s] = "writable"
        /\ Len(file[k]) = Len(hashed[s][k])
        /\ UNCHANGED <<fileD, status, hashed>>
        /\ pc' = [pc EXCEPT ![s] = "chunk"]
        /\ req' = [req EXCEPT ![s] = [kind |-> k, raw |-> c]]
        /\ \A j \in Kinds \ {k} : file'[j] = file[j]
    BY <1>2 DEF ChunkWrite, Writable, OpenPartial, Goto, TypeOK
  <2>2. fileD[k] = hashed[s][k]
    BY <2>1, ContentTypes, PrefixSameLength DEF SessionInv, Bytes
  <2>3. \A t \in Stores \ {s} : status[t] # "writable"
    BY <2>1, Exclusive DEF Live
  <2>4. pc'[s] = "chunk" /\ req'[s].kind = k
    BY <2>1 DEF TypeOK
  <2> QED
    BY <2>1, <2>2, <2>3, <2>4 DEF SessionInv
<1>3. ASSUME NEW s \in Stores, ChunkSync(s) PROVE SessionInv'
  <2>1. /\ pc[s] = "chunk" /\ pc'[s] = "idle"
        /\ req[s].kind \in Kinds
        /\ UNCHANGED <<file, status>>
        /\ fileD'[req[s].kind] = file[req[s].kind]
        /\ hashed'[s][req[s].kind] = file[req[s].kind]
        /\ \A j \in Kinds \ {req[s].kind} :
              fileD'[j] = fileD[j] /\ hashed'[s][j] = hashed[s][j]
    BY <1>3 DEF ChunkSync, DropCalls, TypeOK
  <2>2. \A t \in Stores \ {s} : status[t] # "writable"
    BY <2>1, Exclusive
  <2> QED
    BY <2>1, <2>2, PrefixReflexive DEF SessionInv
<1>4. ASSUME NEW s \in Stores, NEW k \in Kinds, NEW c \in Chunks,
             NEW l \in Leases, NEW o \in 0..MaxLength[k],
             ChunkRetry(s, k, o, c, l)
      PROVE  SessionInv'
  BY <1>4 DEF ChunkRetry, Writable, SessionInv, LockInv, Live, TypeOK
<1>5. ASSUME NEW s \in Stores, NEW k \in Kinds, NEW l \in Leases,
             ChunkStale(s, k, l)
      PROVE  SessionInv'
  BY <1>5 DEF ChunkStale, Writable, SessionInv, LockInv, Live, TypeOK
<1>6. ASSUME NEW s \in Stores, NEW g \in 0..MaxGeneration, NEW st \in States,
             NEW p \in Profiles, NEW l \in Leases,
             CheckpointVerify(s, g, st, p, l)
      PROVE  SessionInv'
  BY <1>6, Exclusive
     DEF CheckpointVerify, Writable, Goto, SessionInv, Live, TypeOK
<1>7. ASSUME NEW s \in Stores, CheckpointReplace(s) PROVE SessionInv'
  BY <1>7 DEF CheckpointReplace, Goto, SessionInv, LockInv, Live, TypeOK
<1>8. ASSUME NEW s \in Stores, CheckpointSync(s) PROVE SessionInv'
  BY <1>8 DEF CheckpointSync, SyncDirectory, DropCalls, SessionInv,
     LockInv, Live, TypeOK
<1>9. ASSUME NEW s \in Stores, NEW g \in 0..MaxGeneration, NEW p \in Profiles,
             ReopenVerify(s, g, p)
      PROVE  SessionInv'
  BY <1>9 DEF ReopenVerify, Reopenable, LockFree, Goto, SessionInv,
     LockInv, Live, TypeOK
<1>10. ASSUME NEW s \in Stores, NEW k \in Kinds,
             ReopenCopy(s, k)
      PROVE  SessionInv'
  BY <1>10 DEF ReopenCopy, SessionInv, LockInv, Live, TypeOK
<1>11. ASSUME NEW s \in Stores, ReopenSyncOrphans(s) PROVE SessionInv'
  BY <1>11 DEF ReopenSyncOrphans, SyncDirectory, Goto, SessionInv, LockInv,
     Live, TypeOK
<1>12. ASSUME NEW s \in Stores, NEW k \in Kinds,
             ReopenTruncate(s, k)
      PROVE  SessionInv'
  <2>1. /\ UNCHANGED <<pc, status, hashed, req>> /\ pc[s] = "truncate"
    BY <1>12 DEF ReopenTruncate
  <2>2. /\ file'[k] = ckpt.prefix[k] /\ fileD'[k] = ckpt.prefix[k]
        /\ \A j \in Kinds \ {k} : file'[j] = file[j] /\ fileD'[j] = fileD[j]
    <3>1. /\ file' = [file EXCEPT ![k] = ckpt.prefix[k]]
          /\ fileD' = [fileD EXCEPT ![k] = ckpt.prefix[k]]
      BY <1>12, Truncated
    <3> QED
      BY <3>1 DEF TypeOK
  <2>3. \A t \in Stores \ {s} : status[t] # "writable"
    BY <2>1, Exclusive
  <2>4. ASSUME status[s] = "writable" PROVE IsPrefix(file'[k], hashed[s][k])
    <3>1. IsPrefix(file[k], hashed[s][k])
      BY <2>1, <2>4 DEF SessionInv
    <3> QED
      BY <2>2, <3>1, DiskChain, ContentTypes, PrefixTransitive DEF Bytes
  <2> QED
    BY <2>1, <2>2, <2>3, <2>4 DEF SessionInv
<1>13. ASSUME NEW s \in Stores, ReopenReplace(s) PROVE SessionInv'
  BY <1>13 DEF ReopenReplace, Goto, SessionInv, LockInv, Live, TypeOK
<1>14. ASSUME NEW s \in Stores, ReopenFinish(s) PROVE SessionInv'
  <2>1. /\ pc'[s] = "idle" /\ hashed'[s] = file /\ fileD = file
        /\ UNCHANGED <<file, fileD>>
    BY <1>14 DEF ReopenFinish, DropCalls, OpInv, TypeOK
  <2>2. \A t \in Stores \ {s} : status'[t] # "writable"
    BY <1>14, Exclusive DEF ReopenFinish, TypeOK
  <2> QED
    BY <2>1, <2>2, PrefixReflexive DEF SessionInv
<1>15. ASSUME NEW s \in Stores, NEW l \in Leases,
             FinalizeBegin(s, l)
      PROVE  SessionInv'
  BY <1>15 DEF FinalizeBegin, Writable, Goto, SessionInv, LockInv, Live,
     TypeOK
<1>16. ASSUME NEW s \in Stores, NEW k \in Kinds,
             FinalizeRename(s, k)
      PROVE  SessionInv'
  BY <1>16 DEF FinalizeRename, SessionInv, LockInv, Live, TypeOK
<1>17. ASSUME NEW s \in Stores, NEW k \in Kinds,
             FinalizeStale(s, k)
      PROVE  SessionInv'
  BY <1>17 DEF FinalizeStale, DropCalls, SessionInv, LockInv, Live, TypeOK
<1>18. ASSUME NEW s \in Stores, FinalizeReceipt(s) PROVE SessionInv'
  BY <1>18 DEF FinalizeReceipt, Goto, SessionInv, LockInv, Live, TypeOK
<1>19. ASSUME NEW s \in Stores, FinalizePublish(s) PROVE SessionInv'
  BY <1>19 DEF FinalizePublish, DropCalls, SessionInv, LockInv, Live,
     TypeOK
<1>20. ASSUME NEW s \in Stores, Suspend(s) PROVE SessionInv'
  BY <1>20 DEF Suspend, DropSessions, SessionInv, LockInv, Live, TypeOK
<1>21. ASSUME NEW s \in Stores, OsError(s) PROVE SessionInv'
  BY <1>21 DEF OsError, DropCalls, SessionInv, LockInv, Live, TypeOK
<1>22. ASSUME NEW s \in Stores, Crash(s) PROVE SessionInv'
  BY <1>22 DEF Crash, DropSessions, DropCalls, SessionInv, LockInv, Live,
     TypeOK
<1>23. ASSUME PowerLoss PROVE SessionInv'
  BY <1>23 DEF PowerLoss, DropSessions, SessionInv
<1>24. CASE UNCHANGED vars
  BY <1>24 DEF vars, SessionInv, LockInv, Live, TypeOK
<1> QED
  BY <1>1, <1>2, <1>3, <1>4, <1>5, <1>6, <1>7, <1>8, <1>9, <1>10, <1>11,
     <1>12, <1>13, <1>14, <1>15, <1>16, <1>17, <1>18, <1>19, <1>20, <1>21,
     <1>22, <1>23, <1>24 DEF Next, Chunk, Checkpoint, Reopen, Finalize

-----------------------------------------------------------------------------
(* What clients were told *)

LEMMA ConfirmedTypes ==
    ASSUME TypeOK, NEW k \in Kinds
    PROVE  confirmed.prefix[k] \in Bytes
<1>1. confirmed.prefix[k] \in Seq(Chunks)
  BY DEF TypeOK, Checkpoints
<1> QED
  BY <1>1, ChunksAreBytes

\* Every checkpoint that is published is ahead of the acknowledged one.
LEMMA StepConfirmed ==
    TypeOK /\ FreshInv /\ LockInv /\ DiskInv /\ OpInv /\ ConfirmedInv /\ [Next]_vars => ConfirmedInv'
<1> SUFFICES ASSUME TypeOK, FreshInv, LockInv, DiskInv, OpInv, ConfirmedInv, [Next]_vars PROVE ConfirmedInv'
  OBVIOUS
<1> USE DEF diskVars, itemVars, callVars, historyVars
<1>1. ASSUME NEW s \in Stores, Start(s) PROVE ConfirmedInv'
  <2>1. /\ ckpt' = NoCheckpoint /\ dirD'.ckpt = NoCheckpoint
        /\ confirmed' = NoCheckpoint
    BY <1>1 DEF Start, FreshInv, Kinds, Dir
  <2>2. \A t \in Stores :
           /\ pc'[t] = "idle"
           /\ status'[t] = "writable" => t = s
    BY <1>1 DEF Start, FreshInv, Kinds, TypeOK
  <2>3. generation'[s] = 0
    BY <1>1 DEF Start, TypeOK
  <2> QED
    BY <2>1, <2>2, <2>3 DEF ConfirmedInv, NotBehind, NoCheckpoint
<1>2. ASSUME NEW s \in Stores, NEW k \in Kinds, NEW c \in Chunks,
             NEW l \in Leases, NEW o \in 0..MaxLength[k],
             ChunkWrite(s, k, o, c, l)
      PROVE  ConfirmedInv'
  BY <1>2 DEF ChunkWrite, Writable, OpenPartial, Goto, ConfirmedInv,
     NotBehind, LockInv, Live, TypeOK
<1>3. ASSUME NEW s \in Stores, ChunkSync(s) PROVE ConfirmedInv'
  BY <1>3 DEF ChunkSync, DropCalls, ConfirmedInv, NotBehind, LockInv, Live,
     TypeOK
<1>4. ASSUME NEW s \in Stores, NEW k \in Kinds, NEW c \in Chunks,
             NEW l \in Leases, NEW o \in 0..MaxLength[k],
             ChunkRetry(s, k, o, c, l)
      PROVE  ConfirmedInv'
  BY <1>4 DEF ChunkRetry, Writable, ConfirmedInv, NotBehind, LockInv, Live,
     TypeOK
<1>5. ASSUME NEW s \in Stores, NEW k \in Kinds, NEW l \in Leases,
             ChunkStale(s, k, l)
      PROVE  ConfirmedInv'
  BY <1>5 DEF ChunkStale, Writable, ConfirmedInv, NotBehind, LockInv, Live,
     TypeOK
<1>6. ASSUME NEW s \in Stores, NEW g \in 0..MaxGeneration, NEW st \in States,
             NEW p \in Profiles, NEW l \in Leases,
             CheckpointVerify(s, g, st, p, l)
      PROVE  ConfirmedInv'
  <2>1. /\ meta'[s].generation > confirmed.generation
        /\ pc' = [pc EXCEPT ![s] = "publish"]
        /\ UNCHANGED <<ckpt, dirD, confirmed, status, generation>>
        /\ \A t \in Stores \ {s} : meta'[t] = meta[t]
    BY <1>6 DEF CheckpointVerify, Writable, Goto, ConfirmedInv, TypeOK
  <2> QED
    BY <2>1 DEF ConfirmedInv, NotBehind, TypeOK
<1>7. ASSUME NEW s \in Stores, CheckpointReplace(s) PROVE ConfirmedInv'
  <2>1. /\ ckpt' = meta[s] /\ meta[s].prefix = file
        /\ meta[s].generation > confirmed.generation
        /\ UNCHANGED <<dirD, confirmed, status, generation, meta>>
        /\ pc' = [pc EXCEPT ![s] = "sync"]
    BY <1>7 DEF CheckpointReplace, Goto, OpInv, ConfirmedInv
  <2>2. \A k \in Kinds : IsPrefix(confirmed.prefix[k], file[k])
    <3>1. \A k \in Kinds : IsPrefix(confirmed.prefix[k], ckpt.prefix[k])
      BY PrefixReflexive DEF ConfirmedInv, NotBehind
    <3> QED
      BY <3>1, DiskChain, ContentTypes, ConfirmedTypes, PrefixTransitive DEF Bytes
  <2>3. ckpt'.generation # confirmed'.generation
    BY <2>1 DEF TypeOK, Checkpoints
  <2> QED
    BY <2>1, <2>2, <2>3 DEF ConfirmedInv, NotBehind, TypeOK
<1>8. ASSUME NEW s \in Stores, CheckpointSync(s) PROVE ConfirmedInv'
  <2>1. /\ confirmed' = ckpt /\ dirD'.ckpt = ckpt /\ UNCHANGED <<ckpt, status>>
        /\ generation'[s] = ckpt.generation
    BY <1>8 DEF CheckpointSync, SyncDirectory, OpInv, Dir, TypeOK
  <2>2. \A t \in Stores : pc'[t] = "idle" /\ (status[t] = "writable" => t = s)
    BY <1>8, Exclusive DEF CheckpointSync, DropCalls, TypeOK
  <2> QED
    BY <2>1, <2>2 DEF ConfirmedInv, NotBehind
<1>9. ASSUME NEW s \in Stores, NEW g \in 0..MaxGeneration, NEW p \in Profiles,
             ReopenVerify(s, g, p)
      PROVE  ConfirmedInv'
  BY <1>9 DEF ReopenVerify, Reopenable, LockFree, Goto, ConfirmedInv,
     NotBehind, LockInv, Live, TypeOK
<1>10. ASSUME NEW s \in Stores, NEW k \in Kinds,
             ReopenCopy(s, k)
      PROVE  ConfirmedInv'
  BY <1>10 DEF ReopenCopy, ConfirmedInv, NotBehind, LockInv, Live, TypeOK
<1>11. ASSUME NEW s \in Stores, ReopenSyncOrphans(s) PROVE ConfirmedInv'
  <2>1. dirD'.ckpt = ckpt /\ pc' = [pc EXCEPT ![s] = "truncate"]
        /\ UNCHANGED <<ckpt, confirmed, status, generation, meta>>
    BY <1>11 DEF ReopenSyncOrphans, SyncDirectory, Goto, Dir
  <2> QED
    BY <2>1 DEF ConfirmedInv, NotBehind, TypeOK
<1>12. ASSUME NEW s \in Stores, NEW k \in Kinds,
             ReopenTruncate(s, k)
      PROVE  ConfirmedInv'
  BY <1>12 DEF ReopenTruncate, ConfirmedInv, NotBehind, LockInv, Live,
     TypeOK
<1>13. ASSUME NEW s \in Stores, ReopenReplace(s) PROVE ConfirmedInv'
  <2>1. /\ ckpt' = meta'[s]
        /\ ckpt'.generation = ckpt.generation + 1 /\ ckpt'.prefix = ckpt.prefix
        /\ pc' = [pc EXCEPT ![s] = "resync"]
        /\ UNCHANGED <<dirD, confirmed, status, generation>>
    BY <1>13 DEF ReopenReplace, Consumed, Goto, OpInv, TypeOK
  <2>2. ckpt.generation \in Nat /\ confirmed.generation \in Nat
    BY DEF TypeOK, Checkpoints
  <2>3. \A t \in Stores \ {s} : pc'[t] = "idle"
    BY <1>13, <2>1, Exclusive DEF ReopenReplace, TypeOK
  <2>4. NotBehind(ckpt)'
    BY <2>1, <2>2, PrefixReflexive DEF ConfirmedInv, NotBehind
  <2>5. NotBehind(dirD.ckpt)'
    BY <2>1 DEF ConfirmedInv, NotBehind
  <2>6. meta'[s].generation > confirmed'.generation
    BY <2>1, <2>2 DEF ConfirmedInv, NotBehind
  <2>7. ckpt' # confirmed'
    BY <2>1, <2>2, <2>6
  <2> QED
    BY <2>1, <2>3, <2>4, <2>5, <2>6, <2>7 DEF ConfirmedInv
<1>14. ASSUME NEW s \in Stores, ReopenFinish(s) PROVE ConfirmedInv'
  <2>1. /\ confirmed' = ckpt /\ dirD'.ckpt = ckpt /\ UNCHANGED ckpt
        /\ generation'[s] = ckpt.generation
    BY <1>14 DEF ReopenFinish, SyncDirectory, OpInv, Dir, TypeOK
  <2>2. \A t \in Stores : pc'[t] = "idle" /\ (status'[t] = "writable" => t = s)
    BY <1>14, Exclusive DEF ReopenFinish, DropCalls, TypeOK
  <2> QED
    BY <2>1, <2>2 DEF ConfirmedInv, NotBehind
<1>15. ASSUME NEW s \in Stores, NEW l \in Leases,
             FinalizeBegin(s, l)
      PROVE  ConfirmedInv'
  BY <1>15 DEF FinalizeBegin, Writable, Goto, ConfirmedInv, NotBehind,
     LockInv, Live, TypeOK
<1>16. ASSUME NEW s \in Stores, NEW k \in Kinds,
             FinalizeRename(s, k)
      PROVE  ConfirmedInv'
  BY <1>16 DEF FinalizeRename, ConfirmedInv, NotBehind, LockInv, Live,
     TypeOK
<1>17. ASSUME NEW s \in Stores, NEW k \in Kinds,
             FinalizeStale(s, k)
      PROVE  ConfirmedInv'
  BY <1>17 DEF FinalizeStale, DropCalls, ConfirmedInv, NotBehind, LockInv,
     Live, TypeOK
<1>18. ASSUME NEW s \in Stores, FinalizeReceipt(s) PROVE ConfirmedInv'
  BY <1>18 DEF FinalizeReceipt, Goto, ConfirmedInv, NotBehind, LockInv,
     Live, TypeOK
<1>19. ASSUME NEW s \in Stores, FinalizePublish(s) PROVE ConfirmedInv'
  BY <1>19 DEF FinalizePublish, DropCalls, ConfirmedInv, NotBehind,
     LockInv, Live, TypeOK
<1>20. ASSUME NEW s \in Stores, Suspend(s) PROVE ConfirmedInv'
  BY <1>20 DEF Suspend, DropSessions, ConfirmedInv, NotBehind, LockInv,
     Live, TypeOK
<1>21. ASSUME NEW s \in Stores, OsError(s) PROVE ConfirmedInv'
  BY <1>21 DEF OsError, DropCalls, ConfirmedInv, NotBehind, LockInv, Live,
     TypeOK
<1>22. ASSUME NEW s \in Stores, Crash(s) PROVE ConfirmedInv'
  BY <1>22 DEF Crash, DropSessions, DropCalls, ConfirmedInv, NotBehind,
     LockInv, Live, TypeOK
<1>23. ASSUME PowerLoss PROVE ConfirmedInv'
  <2>1. /\ ckpt' \in {ckpt, dirD.ckpt} /\ dirD'.ckpt = ckpt' /\ UNCHANGED confirmed
        /\ \A t \in Stores : pc'[t] = "idle" /\ status'[t] = "absent"
    BY <1>23 DEF PowerLoss, Dir, DropSessions, DropCalls, historyVars
  <2> QED
    BY <2>1 DEF ConfirmedInv, NotBehind
<1>24. CASE UNCHANGED vars
  BY <1>24 DEF vars, ConfirmedInv, NotBehind, LockInv, Live, TypeOK
<1> QED
  BY <1>1, <1>2, <1>3, <1>4, <1>5, <1>6, <1>7, <1>8, <1>9, <1>10, <1>11,
     <1>12, <1>13, <1>14, <1>15, <1>16, <1>17, <1>18, <1>19, <1>20, <1>21,
     <1>22, <1>23, <1>24 DEF Next, Chunk, Checkpoint, Reopen, Finalize

\* The receipt is written of the verified bytes, and nobody writes after it.
LEMMA StepReceipt ==
    TypeOK /\ FreshInv /\ LockInv /\ SessionInv /\ ReceiptInv /\ [Next]_vars => ReceiptInv'
<1> SUFFICES ASSUME TypeOK, FreshInv, LockInv, SessionInv, ReceiptInv, [Next]_vars PROVE ReceiptInv'
  OBVIOUS
<1> USE DEF diskVars, itemVars, callVars, historyVars
<1>1. ASSUME NEW s \in Stores, Start(s) PROVE ReceiptInv'
  BY <1>1 DEF Start, FreshInv, ReceiptInv, Kinds, Dir, NoReceipt
<1>2. ASSUME NEW s \in Stores, NEW k \in Kinds, NEW c \in Chunks,
             NEW l \in Leases, NEW o \in 0..MaxLength[k],
             ChunkWrite(s, k, o, c, l)
      PROVE  ReceiptInv'
  BY <1>2, Exclusive DEF ChunkWrite, Writable, Goto, ReceiptInv, Live, TypeOK
<1>3. ASSUME NEW s \in Stores, ChunkSync(s) PROVE ReceiptInv'
  BY <1>3, Exclusive DEF ChunkSync, DropCalls, ReceiptInv, LockInv, TypeOK
<1>4. ASSUME NEW s \in Stores, NEW k \in Kinds, NEW c \in Chunks,
             NEW l \in Leases, NEW o \in 0..MaxLength[k],
             ChunkRetry(s, k, o, c, l)
      PROVE  ReceiptInv'
  BY <1>4 DEF ChunkRetry, Writable, ReceiptInv, LockInv, Live, TypeOK
<1>5. ASSUME NEW s \in Stores, NEW k \in Kinds, NEW l \in Leases,
             ChunkStale(s, k, l)
      PROVE  ReceiptInv'
  BY <1>5 DEF ChunkStale, Writable, ReceiptInv, LockInv, Live, TypeOK
<1>6. ASSUME NEW s \in Stores, NEW g \in 0..MaxGeneration, NEW st \in States,
             NEW p \in Profiles, NEW l \in Leases,
             CheckpointVerify(s, g, st, p, l)
      PROVE  ReceiptInv'
  BY <1>6, Exclusive DEF CheckpointVerify, Writable, Goto, ReceiptInv, Live, TypeOK
<1>7. ASSUME NEW s \in Stores, CheckpointReplace(s) PROVE ReceiptInv'
  BY <1>7 DEF CheckpointReplace, Goto, ReceiptInv, LockInv, Live, TypeOK
<1>8. ASSUME NEW s \in Stores, CheckpointSync(s) PROVE ReceiptInv'
  BY <1>8 DEF CheckpointSync, SyncDirectory, DropCalls, Dir, ReceiptInv, LockInv, TypeOK
<1>9. ASSUME NEW s \in Stores, NEW g \in 0..MaxGeneration, NEW p \in Profiles,
             ReopenVerify(s, g, p)
      PROVE  ReceiptInv'
  BY <1>9 DEF ReopenVerify, Reopenable, Goto, ReceiptInv, TypeOK
<1>10. ASSUME NEW s \in Stores, NEW k \in Kinds,
             ReopenCopy(s, k)
      PROVE  ReceiptInv'
  BY <1>10 DEF ReopenCopy, ReceiptInv, LockInv, Live, TypeOK
<1>11. ASSUME NEW s \in Stores, ReopenSyncOrphans(s) PROVE ReceiptInv'
  BY <1>11 DEF ReopenSyncOrphans, SyncDirectory, Goto, Dir, ReceiptInv, TypeOK
<1>12. ASSUME NEW s \in Stores, NEW k \in Kinds,
             ReopenTruncate(s, k)
      PROVE  ReceiptInv'
  <2>1. /\ UNCHANGED <<pc, receipt, dirD, status, hashed>> /\ pc[s] = "truncate"
    BY <1>12 DEF ReopenTruncate
  <2>2. \A t \in Stores \ {s} : pc[t] = "idle"
    BY <2>1, Exclusive
  <2> QED
    BY <2>1, <2>2 DEF ReceiptInv
<1>13. ASSUME NEW s \in Stores, ReopenReplace(s) PROVE ReceiptInv'
  BY <1>13 DEF ReopenReplace, Goto, ReceiptInv, LockInv, Live, TypeOK
<1>14. ASSUME NEW s \in Stores, ReopenFinish(s) PROVE ReceiptInv'
  BY <1>14, Exclusive DEF ReopenFinish, SyncDirectory, DropCalls, Dir, ReceiptInv, TypeOK
<1>15. ASSUME NEW s \in Stores, NEW l \in Leases,
             FinalizeBegin(s, l)
      PROVE  ReceiptInv'
  BY <1>15 DEF FinalizeBegin, Writable, Goto, ReceiptInv, LockInv, Live,
     TypeOK
<1>16. ASSUME NEW s \in Stores, NEW k \in Kinds,
             FinalizeRename(s, k)
      PROVE  ReceiptInv'
  <2>1. /\ UNCHANGED <<file, fileD, receipt, dirD, hashed, status, pc>>
        /\ pc[s] = "rename" /\ file[k] = hashed[s][k]
        /\ done' = [done EXCEPT ![s] = @ \union {k}]
    BY <1>16 DEF FinalizeRename
  <2>2. \A t \in Stores \ {s} : pc[t] = "idle"
    BY <2>1, Exclusive
  <2>3. \A j \in done'[s] : file[j] = hashed[s][j]
    BY <2>1 DEF ReceiptInv, TypeOK
  <2> QED
    BY <2>1, <2>2, <2>3 DEF ReceiptInv
<1>17. ASSUME NEW s \in Stores, NEW k \in Kinds,
             FinalizeStale(s, k)
      PROVE  ReceiptInv'
  BY <1>17 DEF FinalizeStale, DropCalls, ReceiptInv, LockInv, Live, TypeOK
<1>18. ASSUME NEW s \in Stores, FinalizeReceipt(s) PROVE ReceiptInv'
  <2>1. status[s] = "writable" /\ pc[s] = "rename" /\ done[s] = Kinds
    BY <1>18 DEF FinalizeReceipt, LockInv
  <2>2. hashed[s] = file
    <3>1. \A k \in Kinds : file[k] = hashed[s][k]
      BY <2>1 DEF ReceiptInv
    <3>2. /\ hashed[s] = [k \in Kinds |-> hashed[s][k]]
          /\ file = [k \in Kinds |-> file[k]]
      BY DEF TypeOK
    <3>3. [k \in Kinds |-> hashed[s][k]] = [k \in Kinds |-> file[k]]
      BY <3>1
    <3> QED
      BY <3>2, <3>3
  <2>3. fileD = file
    BY <2>1 DEF SessionInv, TypeOK
  <2>4. dirD.receipt = NoReceipt
    BY <2>1 DEF ReceiptInv
  <2>5. \A t \in Stores \ {s} : pc[t] = "idle" /\ status[t] # "writable"
    BY <2>1, Exclusive
  <2> QED
    BY <1>18, <2>2, <2>3, <2>4, <2>5
       DEF FinalizeReceipt, Goto, ReceiptInv, TypeOK
<1>19. ASSUME NEW s \in Stores, FinalizePublish(s) PROVE ReceiptInv'
  <2>1. status[s] = "writable" /\ pc[s] = "receipt"
    BY <1>19 DEF FinalizePublish, LockInv
  <2>2. receipt.stage # "none" /\ dirD.receipt = NoReceipt
    BY <2>1 DEF ReceiptInv
  <2> QED
    <3>1. receipt.archives = file /\ fileD = file
      BY <2>2 DEF ReceiptInv
    <3>2. \A t \in Stores : status'[t] # "writable" /\ pc'[t] = "idle"
      <4>1. \A t \in Stores \ {s} : status[t] # "writable" /\ pc[t] = "idle"
        BY <2>1, Exclusive
      <4> QED
        BY <1>19, <4>1 DEF FinalizePublish, DropCalls, TypeOK
    <3>3. /\ receipt' = [stage |-> "final", archives |-> receipt.archives]
          /\ UNCHANGED <<file, fileD, dirD>>
      BY <1>19 DEF FinalizePublish
    <3> QED
      BY <2>2, <3>1, <3>2, <3>3 DEF ReceiptInv
<1>20. ASSUME NEW s \in Stores, Suspend(s) PROVE ReceiptInv'
  BY <1>20 DEF Suspend, DropSessions, ReceiptInv, LockInv, Live, TypeOK
<1>21. ASSUME NEW s \in Stores, OsError(s) PROVE ReceiptInv'
  BY <1>21 DEF OsError, DropCalls, ReceiptInv, LockInv, Live, TypeOK
<1>22. ASSUME NEW s \in Stores, Crash(s) PROVE ReceiptInv'
  BY <1>22 DEF Crash, DropSessions, DropCalls, ReceiptInv, LockInv, Live,
     TypeOK
<1>23. ASSUME PowerLoss PROVE ReceiptInv'
  <2>1. /\ \A t \in Stores : pc'[t] = "idle" /\ status'[t] = "absent"
        /\ dirD'.receipt = receipt' /\ fileD' = file'
    BY <1>23 DEF PowerLoss, Dir, DropSessions, DropCalls
  <2>2. CASE receipt.stage = "none"
    BY <1>23, <2>1, <2>2 DEF PowerLoss, ReceiptInv, NoReceipt
  <2>3. CASE receipt.stage # "none"
    <3>1. file' = file
      <4>1. Remains("warc") = {file["warc"]} /\ Remains("cdx") = {file["cdx"]}
        BY <2>3 DEF Remains, ReceiptInv
      <4> QED
        BY <1>23, <4>1 DEF PowerLoss, TypeOK, Kinds
    <3> QED
      BY <1>23, <2>1, <2>3, <3>1 DEF PowerLoss, ReceiptInv, NoReceipt
  <2> QED
    BY <2>2, <2>3
<1>24. CASE UNCHANGED vars
  BY <1>24 DEF vars, ReceiptInv, LockInv, Live, TypeOK
<1> QED
  BY <1>1, <1>2, <1>3, <1>4, <1>5, <1>6, <1>7, <1>8, <1>9, <1>10, <1>11,
     <1>12, <1>13, <1>14, <1>15, <1>16, <1>17, <1>18, <1>19, <1>20, <1>21,
     <1>22, <1>23, <1>24 DEF Next, Chunk, Checkpoint, Reopen, Finalize

-----------------------------------------------------------------------------
(* The theorems *)

IInv == /\ TypeOK /\ FreshInv /\ LockInv /\ LeaseInv /\ DiskInv /\ OpInv
        /\ SessionInv /\ ConfirmedInv /\ ReceiptInv

LEMMA InitIInv == Init => IInv
<1> SUFFICES ASSUME Init PROVE IInv
  OBVIOUS
<1>1. TypeOK
  BY InitTypeOK
<1>2. FreshInv
  BY DEF Init, FreshInv, Dir
<1>3. LockInv /\ LeaseInv /\ OpInv /\ SessionInv
  BY DEF Init, LockInv, LeaseInv, OpInv, SessionInv, Live
<1>4. DiskInv
  BY PrefixReflexive DEF Init, DiskInv, Dir, Nothing, NoCheckpoint
<1>5. ConfirmedInv
  BY DEF Init, ConfirmedInv, NotBehind, Dir
<1>6. ReceiptInv
  BY DEF Init, ReceiptInv, Dir, NoReceipt
<1> QED
  BY <1>1, <1>2, <1>3, <1>4, <1>5, <1>6 DEF IInv

LEMMA StepIInv == IInv /\ [Next]_vars => IInv'
  BY StepTypeOK, StepFresh, StepLock, StepLease, StepDisk, StepOp, StepSession,
     StepConfirmed, StepReceipt DEF IInv

LEMMA Invariance == Spec => []IInv
  BY InitIInv, StepIInv, PTL DEF Spec

\* Every variable keeps its type; in particular only whole chunks of clients,
\* never the remains of a torn write, are accounted for, checkpointed or
\* stated in a receipt.
THEOREM TypeCorrect == Spec => []TypeOK
<1>1. IInv => TypeOK
  BY DEF IInv
<1> QED
  BY <1>1, Invariance, PTL

\* Whatever crashes, errors and power losses happen, the checkpoint that is
\* left describes bytes that are left, so that reopen can verify it.
THEOREM CheckpointIsRecoverable == Spec => []RecoverableCheckpoint
<1>1. IInv => RecoverableCheckpoint
  <2> SUFFICES ASSUME IInv, NEW c \in {ckpt, dirD.ckpt}, NEW k \in Kinds
               PROVE  IsPrefix(c.prefix[k], file[k]) /\ IsPrefix(c.prefix[k], fileD[k])
    BY DEF RecoverableCheckpoint
  <2>1. TypeOK /\ DiskInv
    BY DEF IInv
  <2> QED
    BY <2>1, DiskChain DEF DiskInv
<1> QED
  BY <1>1, Invariance, PTL

\* Of all leases ever issued, by any process, only the newest one writes.
THEOREM OnlyNewestLeaseWrites == Spec => []LeaseFencing
<1>1. IInv => LeaseFencing
  BY DEF IInv, LeaseInv, LeaseFencing, Live
<1> QED
  BY <1>1, Invariance, PTL

\* Comparing sizes is enough for chunk to find its file as it left it.
THEOREM SizesIdentifyContents == Spec => []SizeCheckSuffices
<1>1. IInv => SizeCheckSuffices
  <2> SUFFICES ASSUME IInv, NEW s \in Stores, NEW k \in Kinds, Writable(s),
                      Len(file[k]) = Len(hashed[s][k])
               PROVE  file[k] = hashed[s][k]
    BY DEF SizeCheckSuffices
  <2>1. IsPrefix(file[k], hashed[s][k])
    BY DEF IInv, SessionInv, Writable
  <2> QED
    BY <2>1, ContentTypes, PrefixSameLength DEF IInv, Bytes
<1> QED
  BY <1>1, Invariance, PTL

\* An acknowledged checkpoint is never lost or rolled back.
THEOREM AckedCheckpointsStay == Spec => []AckedCheckpointDurable
<1>1. IInv => AckedCheckpointDurable
  BY DEF IInv, ConfirmedInv, NotBehind, AckedCheckpointDurable
<1> QED
  BY <1>1, Invariance, PTL

\* Every step of the store, faults included, is a step of the checkpoint
\* register or leaves it alone.
LEMMA StepRegister ==
    IInv /\ [Next]_vars => [Register!Supersede]_(Register!vars)
<1> SUFFICES ASSUME IInv, [Next]_vars,
                    dirD'.ckpt # dirD.ckpt \/ confirmed' # confirmed
             PROVE  Register!Supersede
  BY DEF Register!vars
<1> USE DEF diskVars, itemVars, callVars, historyVars
<1>1. /\ \A k \in Kinds : Register!IsPrefix(dirD.ckpt.prefix[k], ckpt.prefix[k])
      /\ dirD.ckpt # ckpt => ckpt.generation > confirmed.generation
  BY DEF IInv, DiskInv, ConfirmedInv, NotBehind, IsPrefix, Register!IsPrefix
<1>2. ASSUME dirD'.ckpt \in {dirD.ckpt, ckpt}, UNCHANGED confirmed
      PROVE  Register!Supersede
  BY <1>1, <1>2 DEF Register!Supersede, Register!Covers
<1>3. ASSUME NEW s \in Stores, CheckpointSync(s) \/ ReopenFinish(s)
      PROVE  Register!Supersede
  <2>1. dirD'.ckpt = ckpt /\ confirmed' = meta[s]
    BY <1>3 DEF CheckpointSync, ReopenFinish, SyncDirectory, Dir
  <2>2. meta[s] = ckpt /\ meta[s].generation > confirmed.generation
    BY <1>3 DEF CheckpointSync, ReopenFinish, IInv, OpInv, ConfirmedInv
  <2> QED
    BY <1>1, <2>1, <2>2 DEF Register!Supersede, Register!Covers
<1>4. ASSUME NEW s \in Stores, Start(s) PROVE FALSE
  <2>1. /\ confirmed' = confirmed
        /\ dirD'.ckpt = ckpt
    BY <1>4 DEF Start, Dir
  <2>2. ckpt = NoCheckpoint /\ dirD.ckpt = NoCheckpoint
    BY <1>4 DEF Start, IInv, FreshInv, Kinds
  <2> QED
    BY <2>1, <2>2
<1>5. ASSUME NEW s \in Stores, ReopenSyncOrphans(s) PROVE Register!Supersede
  BY <1>2, <1>5 DEF ReopenSyncOrphans, SyncDirectory, Dir
<1>6. ASSUME PowerLoss PROVE Register!Supersede
  BY <1>2, <1>6 DEF PowerLoss, Dir
<1>7. ASSUME NEW s \in Stores,
             \/ \E k \in Kinds, c \in Chunks, l \in Leases :
                   \E o \in 0..MaxLength[k] :
                      ChunkWrite(s, k, o, c, l) \/ ChunkRetry(s, k, o, c, l)
             \/ \E k \in Kinds, l \in Leases : ChunkStale(s, k, l)
             \/ ChunkSync(s)
             \/ \E g \in 0..MaxGeneration, st \in States, p \in Profiles, l \in Leases :
                   CheckpointVerify(s, g, st, p, l)
             \/ CheckpointReplace(s)
      PROVE  FALSE
  <2>1. ASSUME NEW k \in Kinds, NEW c \in Chunks, NEW l \in Leases,
               NEW o \in 0..MaxLength[k], ChunkWrite(s, k, o, c, l)
        PROVE  UNCHANGED <<dirD, confirmed>>
    BY ONLY <2>1 DEF ChunkWrite, historyVars
  <2>2. ASSUME NEW k \in Kinds, NEW c \in Chunks, NEW l \in Leases,
               NEW o \in 0..MaxLength[k], ChunkRetry(s, k, o, c, l)
        PROVE  UNCHANGED <<dirD, confirmed>>
    BY ONLY <2>2 DEF ChunkRetry, historyVars
  <2>3. ASSUME NEW k \in Kinds, NEW l \in Leases, ChunkStale(s, k, l)
        PROVE  UNCHANGED <<dirD, confirmed>>
    BY ONLY <2>3 DEF ChunkStale, historyVars
  <2>4. ASSUME ChunkSync(s)
        PROVE  UNCHANGED <<dirD, confirmed>>
    BY ONLY <2>4 DEF ChunkSync
  <2>5. ASSUME NEW g \in 0..MaxGeneration, NEW st \in States,
               NEW p \in Profiles, NEW l \in Leases,
               CheckpointVerify(s, g, st, p, l)
        PROVE  UNCHANGED <<dirD, confirmed>>
    BY ONLY <2>5 DEF CheckpointVerify, historyVars
  <2>6. ASSUME CheckpointReplace(s)
        PROVE  UNCHANGED <<dirD, confirmed>>
    BY ONLY <2>6 DEF CheckpointReplace, historyVars
  <2> QED
    BY ONLY <1>7, <2>1, <2>2, <2>3, <2>4, <2>5, <2>6,
            dirD'.ckpt # dirD.ckpt \/ confirmed' # confirmed
<1>8. ASSUME NEW s \in Stores,
             \/ \E g \in 0..MaxGeneration, p \in Profiles : ReopenVerify(s, g, p)
             \/ \E k \in Kinds : ReopenCopy(s, k) \/ ReopenTruncate(s, k)
             \/ ReopenReplace(s)
             \/ Finalize(s) \/ Suspend(s) \/ OsError(s) \/ Crash(s)
      PROVE  FALSE
  <2>1. ASSUME NEW g \in 0..MaxGeneration, NEW p \in Profiles,
               ReopenVerify(s, g, p)
        PROVE  UNCHANGED <<dirD, confirmed>>
    BY <2>1 DEF ReopenVerify
  <2>2. ASSUME NEW k \in Kinds, ReopenCopy(s, k) \/ ReopenTruncate(s, k)
        PROVE  UNCHANGED <<dirD, confirmed>>
    BY <2>2 DEF ReopenCopy, ReopenTruncate
  <2>3. ASSUME ReopenReplace(s) \/ Suspend(s) \/ OsError(s) \/ Crash(s)
        PROVE  UNCHANGED <<dirD, confirmed>>
    BY <2>3 DEF ReopenReplace, Suspend, OsError, Crash
  <2>4. ASSUME Finalize(s) PROVE UNCHANGED <<dirD, confirmed>>
    BY <2>4 DEF Finalize, FinalizeBegin, FinalizeRename, FinalizeStale,
       FinalizeReceipt, FinalizePublish
  <2> QED
    BY ONLY <1>8, <2>1, <2>2, <2>3, <2>4,
            dirD'.ckpt # dirD.ckpt \/ confirmed' # confirmed
<1>9. CASE UNCHANGED vars
  BY <1>9 DEF vars
<1> QED
  BY <1>3, <1>4, <1>5, <1>6, <1>7, <1>8, <1>9
     DEF Next, Chunk, Checkpoint, Reopen

\* The store implements the checkpoint register, whatever fails and in
\* however many processes it runs.
THEOREM CheckpointsFormARegister == Spec => ImplementsRegister
<1>1. Init => Register!Init
  BY DEF Init, Register!Init, Dir
<1> QED
  BY <1>1, StepRegister, Invariance, PTL
     DEF Spec, ImplementsRegister, Register!Spec

\* A receipt, in either name, states the bytes both archives have for good.
THEOREM ReceiptsMatch == Spec => []ReceiptMatchesArchives
<1>1. IInv => ReceiptMatchesArchives
  BY DEF IInv, ReceiptInv, ReceiptMatchesArchives
<1> QED
  BY <1>1, Invariance, PTL

-----------------------------------------------------------------------------
(* Acknowledged bytes *)

\* An orphan file of O continues a part of what c has committed.
Spilled(content, k, c, O) ==
    \E tail \in O[k], n \in 0..Len(c.prefix[k]) :
        IsPrefix(content, SubSeq(c.prefix[k], 1, n) \o tail)

\* What a reopen cuts off is in a durable orphan file before it is cut off:
\* the tails copied so far, and, once the directory was synced, all of them.
AckInv ==
    /\ \A k \in Kinds : dirD.orphans[k] \subseteq orphans[k]
    /\ \A k \in Kinds : \A content \in acked[k] :
          IsPrefix(content, fileD[k]) \/ Spilled(content, k, dirD.ckpt, dirD.orphans)
    /\ \A s \in Stores : pc[s] = "copy" =>
          \A k \in done[s] : \A content \in acked[k] :
             \/ IsPrefix(content, ckpt.prefix[k])
             \/ Spilled(content, k, ckpt, orphans)
    /\ \A s \in Stores : pc[s] = "truncate" =>
          \A k \in Kinds : \A content \in acked[k] :
             \/ IsPrefix(content, dirD.ckpt.prefix[k])
             \/ Spilled(content, k, dirD.ckpt, dirD.orphans)

\* A checkpoint that commits more, and orphan files that become more, cover
\* what was covered.
LEMMA SpilledStays ==
    ASSUME NEW k \in Kinds, NEW c, NEW d, c.prefix[k] \in Bytes, d.prefix[k] \in Bytes,
           IsPrefix(c.prefix[k], d.prefix[k]),
           NEW O, NEW P, O[k] \subseteq P[k],
           NEW content, Spilled(content, k, c, O)
    PROVE  Spilled(content, k, d, P)
<1> DEFINE p == c.prefix[k]
           q == d.prefix[k]
<1>1. PICK tail \in O[k], n \in 0..Len(p) : IsPrefix(content, SubSeq(p, 1, n) \o tail)
  BY DEF Spilled
<1>2. p \in Bytes /\ q \in Bytes /\ IsPrefix(p, q)
  OBVIOUS
<1> HIDE DEF p, q
<1>3. Len(p) <= Len(q) /\ \A i \in 1..Len(p) : p[i] = q[i]
  BY <1>2, PrefixPointwise DEF Bytes
<1>4. n \in 0..Len(q) /\ SubSeq(q, 1, n) = SubSeq(p, 1, n)
  <2>1. Len(p) \in Nat /\ Len(q) \in Nat /\ n \in 0..Len(q)
    BY <1>2, <1>3 DEF Bytes
  <2>2. \A i \in 1..n : q[i] = p[i]
    BY <1>3, <2>1
  <2> QED BY <1>2, <1>3, <2>1, <2>2 DEF Bytes
<1>5. tail \in P[k] /\ IsPrefix(content, SubSeq(q, 1, n) \o tail)
  BY <1>1, <1>4
<1> QED BY <1>4, <1>5 DEF Spilled, q

\* A step that cuts no file back, in which orphan files become more.
LEMMA AckedStay ==
    ASSUME TypeOK, TypeOK', DiskInv, AckInv,
           \/ dirD' = dirD /\ \A k \in Kinds : orphans[k] \subseteq orphans'[k]
           \/ /\ dirD'.ckpt \in {ckpt, dirD.ckpt} /\ dirD'.orphans = orphans'
              /\ orphans' \in {orphans, dirD.orphans},
           \A k \in Kinds : IsPrefix(fileD[k], fileD'[k]),
           \A k \in Kinds : \A content \in acked'[k] :
              content \in acked[k] \/ IsPrefix(content, fileD'[k]),
           \A s \in Stores : pc'[s] \in {"copy", "truncate"} =>
              \/ pc'[s] = "copy" /\ done'[s] = {}
              \/ /\ pc'[s] = pc[s] /\ done'[s] = done[s]
                 /\ UNCHANGED <<acked, ckpt, orphans>>
    PROVE  AckInv'
<1>1. \A k \in Kinds :
         /\ dirD.orphans[k] \subseteq dirD'.orphans[k]
         /\ dirD'.orphans[k] \subseteq orphans'[k]
  BY DEF AckInv
<1>2. \A k \in Kinds : IsPrefix(dirD.ckpt.prefix[k], dirD'.ckpt.prefix[k])
  BY PrefixReflexive DEF DiskInv
<1>3. \A k \in Kinds : /\ dirD.ckpt.prefix[k] \in Bytes
                       /\ dirD'.ckpt.prefix[k] \in Bytes
                       /\ fileD[k] \in Bytes /\ fileD'[k] \in Bytes
  <2>1. \A k \in Kinds : dirD.ckpt.prefix[k] \in Bytes /\ fileD[k] \in Bytes
    BY ContentTypes
  <2>2. dirD'.ckpt \in Checkpoints /\ \A k \in Kinds : fileD'[k] \in Bytes
    BY DEF TypeOK, Dirs
  <2>3. \A c \in Checkpoints, k \in Kinds : c.prefix[k] \in Bytes
    BY ChunksAreBytes DEF Checkpoints
  <2> QED BY <2>1, <2>2, <2>3
<1>4. ASSUME NEW k \in Kinds, NEW content,
             Spilled(content, k, dirD.ckpt, dirD.orphans)
      PROVE  Spilled(content, k, dirD'.ckpt, dirD'.orphans)
  BY <1>1, <1>2, <1>3, <1>4, SpilledStays
<1>5. ASSUME NEW k \in Kinds, NEW content \in acked'[k]
      PROVE  IsPrefix(content, fileD'[k]) \/ Spilled(content, k, dirD'.ckpt, dirD'.orphans)
  <2>1. CASE content \in acked[k] /\ IsPrefix(content, fileD[k])
    <3>1. content \in Bytes
      BY <2>1, ChunksAreBytes DEF TypeOK
    <3> QED BY <1>3, <2>1, <3>1, PrefixTransitive DEF Bytes
  <2>2. CASE content \in acked[k] /\ Spilled(content, k, dirD.ckpt, dirD.orphans)
    BY <1>4, <2>2
  <2> QED BY <2>1, <2>2 DEF AckInv
<1>6. ASSUME NEW s \in Stores, pc'[s] = "copy", NEW k \in done'[s], NEW content \in acked'[k]
      PROVE  IsPrefix(content, ckpt'.prefix[k]) \/ Spilled(content, k, ckpt', orphans')
  BY <1>6 DEF AckInv
<1>7. ASSUME NEW s \in Stores, pc'[s] = "truncate", NEW k \in Kinds, NEW content \in acked'[k]
      PROVE  IsPrefix(content, dirD'.ckpt.prefix[k])
                \/ Spilled(content, k, dirD'.ckpt, dirD'.orphans)
  <2>1. pc[s] = "truncate" /\ acked' = acked
    BY <1>7
  <2>2. CASE IsPrefix(content, dirD.ckpt.prefix[k])
    <3>1. content \in Bytes
      BY <2>1, ChunksAreBytes DEF TypeOK
    <3> QED BY <1>2, <1>3, <2>2, <3>1, PrefixTransitive DEF Bytes
  <2>3. CASE Spilled(content, k, dirD.ckpt, dirD.orphans)
    BY <1>4, <2>3
  <2> QED BY <2>1, <2>2, <2>3 DEF AckInv
<1> QED BY <1>1, <1>5, <1>6, <1>7 DEF AckInv

\* The tail that reopen copies, behind the prefix it goes back to, is the file.
LEMMA CopyStep ==
    ASSUME TypeOK, TypeOK', DiskInv, OpInv, LockInv, AckInv,
           NEW s \in Stores, NEW k \in Kinds, ReopenCopy(s, k)
    PROVE  AckInv'
<1> DEFINE p == ckpt.prefix[k]
           tail == SubSeq(file[k], Len(p) + 1, Len(file[k]))
<1>1. /\ pc[s] = "copy" /\ ckpt = meta[s]
      /\ UNCHANGED <<file, fileD, ckpt, dirD, pc, acked>>
      /\ done' = [done EXCEPT ![s] = @ \union {k}]
      /\ orphans' = IF Len(file[k]) > Len(p) THEN [orphans EXCEPT ![k] = @ \union {tail}]
                    ELSE orphans
  BY DEF ReopenCopy, HasTail, CommittedSize, OpInv, historyVars
<1>2. \A j \in Kinds : orphans[j] \subseteq orphans'[j]
  BY <1>1 DEF TypeOK
<1>3. \A j \in Kinds : ckpt.prefix[j] \in Bytes
  BY ContentTypes
<1>4. ASSUME NEW j \in Kinds, NEW content, Spilled(content, j, ckpt, orphans)
      PROVE  Spilled(content, j, ckpt, orphans')
  BY <1>2, <1>3, <1>4, PrefixReflexive, SpilledStays
<1>5. p \in Bytes /\ file[k] \in Bytes /\ fileD[k] \in Bytes
      /\ IsPrefix(p, file[k]) /\ IsPrefix(fileD[k], file[k])
  BY ContentTypes, DiskChain DEF DiskInv
<1>6. ASSUME NEW content \in acked[k], IsPrefix(content, file[k])
      PROVE  IsPrefix(content, p) \/ Spilled(content, k, ckpt, orphans')
  <2>1. CASE Len(file[k]) > Len(p)
    <3>1. orphans' = [orphans EXCEPT ![k] = @ \union {tail}]
      BY <1>1, <2>1
    <3>2. tail \in orphans'[k]
      BY <3>1 DEF TypeOK
    <3>3. SubSeq(p, 1, Len(p)) = p /\ p \o tail = file[k]
      <4>1. Len(p) \in Nat /\ Len(file[k]) \in Nat /\ Len(p) <= Len(file[k])
            /\ \A i \in 1..Len(p) : p[i] = file[k][i]
        BY <1>5, PrefixPointwise, SMTT(30) DEF Bytes
      <4> DEFINE f == file[k]
      <4>2. f \in Bytes /\ p \in Bytes
        BY <1>5
      <4> HIDE DEF p, f
      <4>3. SubSeq(p, 1, Len(p)) = p
        BY <4>2 DEF Bytes
      <4>4. /\ SubSeq(f, Len(p) + 1, Len(f)) \in Bytes
            /\ Len(SubSeq(f, Len(p) + 1, Len(f))) = Len(f) - Len(p)
            /\ \A i \in 1..(Len(f) - Len(p)) :
                  SubSeq(f, Len(p) + 1, Len(f))[i] = f[Len(p) + i]
        BY <4>1, <4>2 DEF Bytes, f
      <4>5. p \o SubSeq(f, Len(p) + 1, Len(f)) = f
        BY <4>1, <4>2, <4>4 DEF Bytes, f
      <4> QED BY <4>3, <4>5 DEF f
    <3>4. Len(p) \in 0..Len(p)
      BY <1>5 DEF Bytes
    <3> HIDE DEF tail
    <3>5. IsPrefix(content, SubSeq(p, 1, Len(p)) \o tail)
      BY <1>6, <3>3
    <3> QED BY <3>2, <3>4, <3>5 DEF Spilled
  <2>2. CASE ~(Len(file[k]) > Len(p))
    <3>1. p = file[k]
      <4>1. Len(p) <= Len(file[k]) /\ Len(p) \in Nat /\ Len(file[k]) \in Nat
        BY <1>5, PrefixPointwise DEF Bytes
      <4>2. Len(p) = Len(file[k])
        BY <2>2, <4>1
      <4> QED BY <1>5, <4>2, PrefixSameLength DEF Bytes
    <3> QED BY <1>6, <3>1
  <2> QED BY <2>1, <2>2
<1>7. ASSUME NEW content \in acked[k]
      PROVE  IsPrefix(content, p) \/ Spilled(content, k, ckpt, orphans')
  <2>1. CASE IsPrefix(content, fileD[k])
    <3>1. content \in Bytes
      BY ChunksAreBytes DEF TypeOK
    <3>2. IsPrefix(content, file[k])
      BY <1>5, <2>1, <3>1, PrefixTransitive DEF Bytes
    <3> QED BY <1>6, <3>2
  <2>2. CASE Spilled(content, k, dirD.ckpt, dirD.orphans)
    <3>1. dirD.orphans[k] \subseteq orphans[k]
      BY DEF AckInv
    <3>2. dirD.ckpt.prefix[k] \in Bytes /\ IsPrefix(dirD.ckpt.prefix[k], p)
      BY ContentTypes DEF DiskInv
    <3>3. Spilled(content, k, ckpt, orphans)
      BY <1>5, <2>2, <3>1, <3>2, SpilledStays
    <3> QED BY <1>4, <3>3
  <2> QED BY <2>1, <2>2 DEF AckInv
<1> HIDE DEF p, tail
<1>8. ASSUME NEW t \in Stores, pc'[t] = "copy", NEW j \in done'[t], NEW content \in acked'[j]
      PROVE  IsPrefix(content, ckpt'.prefix[j]) \/ Spilled(content, j, ckpt', orphans')
  <2>1. pc[t] = "copy" /\ content \in acked[j] /\ ckpt' = ckpt /\ j \in Kinds
    BY <1>1, <1>8 DEF TypeOK
  <2>2. CASE j = k
    BY <1>7, <2>1, <2>2 DEF p
  <2>3. CASE j # k
    <3>1. j \in done[t]
      BY <1>1, <1>8, <2>3 DEF TypeOK
    <3>2. IsPrefix(content, ckpt.prefix[j]) \/ Spilled(content, j, ckpt, orphans)
      BY <2>1, <3>1 DEF AckInv
    <3> QED BY <1>4, <2>1, <3>2
  <2> QED BY <2>2, <2>3
<1>9. \A j \in Kinds : dirD'.orphans[j] \subseteq orphans'[j]
  BY <1>1, <1>2 DEF AckInv
<1>10. \A t \in Stores : pc'[t] = "truncate" =>
          \A j \in Kinds : \A content \in acked'[j] :
             \/ IsPrefix(content, dirD'.ckpt.prefix[j])
             \/ Spilled(content, j, dirD'.ckpt, dirD'.orphans)
  BY <1>1 DEF AckInv
<1>11. \A j \in Kinds : \A content \in acked'[j] :
          IsPrefix(content, fileD'[j]) \/ Spilled(content, j, dirD'.ckpt, dirD'.orphans)
  BY <1>1 DEF AckInv
<1> QED BY <1>8, <1>9, <1>10, <1>11 DEF AckInv

\* The directory is synced: what was copied is durable.
LEMMA SyncOrphansStep ==
    ASSUME TypeOK, TypeOK', DiskInv, OpInv, LockInv, AckInv,
           NEW s \in Stores, ReopenSyncOrphans(s)
    PROVE  AckInv'
<1>1. /\ pc[s] = "copy" /\ done[s] = Kinds
      /\ dirD' = Dir
      /\ UNCHANGED <<fileD, ckpt, orphans, acked>>
      /\ done' = [done EXCEPT ![s] = {}]
      /\ pc' = [pc EXCEPT ![s] = "truncate"]
  BY DEF ReopenSyncOrphans, SyncDirectory, Goto, historyVars
<1>2. dirD'.ckpt = ckpt /\ dirD'.orphans = orphans
  BY <1>1 DEF Dir
<1>3. ASSUME NEW k \in Kinds, NEW content \in acked'[k]
      PROVE  IsPrefix(content, fileD'[k]) \/ Spilled(content, k, dirD'.ckpt, dirD'.orphans)
  <2>1. CASE IsPrefix(content, fileD[k])
    BY <1>1, <2>1
  <2>2. CASE Spilled(content, k, dirD.ckpt, dirD.orphans)
    <3>1. dirD.orphans[k] \subseteq orphans[k]
      BY DEF AckInv
    <3>2. /\ dirD.ckpt.prefix[k] \in Bytes /\ ckpt.prefix[k] \in Bytes
          /\ IsPrefix(dirD.ckpt.prefix[k], ckpt.prefix[k])
      BY ContentTypes DEF DiskInv
    <3>3. Spilled(content, k, ckpt, orphans)
      BY <2>2, <3>1, <3>2, SpilledStays
    <3> QED BY <1>2, <3>3
  <2> QED BY <1>1, <2>1, <2>2 DEF AckInv
<1>4. \A k \in Kinds : \A content \in acked'[k] :
         IsPrefix(content, dirD'.ckpt.prefix[k]) \/ Spilled(content, k, dirD'.ckpt, dirD'.orphans)
  BY <1>1, <1>2 DEF AckInv
<1>5. \A t \in Stores : pc'[t] = "copy" => t # s /\ pc[t] = "copy"
  BY <1>1 DEF TypeOK
<1>6. \A t \in Stores : pc'[t] = "copy" => FALSE
  BY <1>1, <1>5, Exclusive
<1>7. \A k \in Kinds : dirD'.orphans[k] \subseteq orphans'[k]
  BY <1>1, <1>2
<1> QED BY <1>3, <1>4, <1>6, <1>7 DEF AckInv

\* The file is cut back, to what everything acknowledged goes without.
LEMMA TruncateStep ==
    ASSUME TypeOK, DiskInv, OpInv, LockInv, AckInv,
           NEW s \in Stores, NEW k \in Kinds, ReopenTruncate(s, k)
    PROVE  AckInv'
<1>1. /\ dirD.ckpt = ckpt /\ fileD'[k] = ckpt.prefix[k]
      /\ \A j \in Kinds \ {k} : fileD'[j] = fileD[j]
  BY Truncated
<1>2. /\ pc[s] = "truncate"
      /\ UNCHANGED <<ckpt, dirD, orphans, acked, pc>>
  BY DEF ReopenTruncate, historyVars
<1>3. ASSUME NEW j \in Kinds, NEW content \in acked[j]
      PROVE  IsPrefix(content, fileD'[j]) \/ Spilled(content, j, dirD.ckpt, dirD.orphans)
  BY <1>1, <1>2 DEF AckInv
<1>4. \A t \in Stores : pc[t] # "copy"
  BY <1>2, Exclusive
<1> QED BY <1>2, <1>3, <1>4 DEF AckInv

\* Steps that leave what reopen reads, and what it was acknowledged, alone.
LEMMA QuietStep ==
    ASSUME TypeOK, TypeOK', DiskInv, AckInv,
           UNCHANGED <<fileD, dirD, ckpt, orphans, acked>>,
           \A s \in Stores : pc'[s] \in {"copy", "truncate"} =>
              \/ pc'[s] = "copy" /\ done'[s] = {}
              \/ pc'[s] = pc[s] /\ done'[s] = done[s]
    PROVE  AckInv'
<1>1. dirD' = dirD /\ \A k \in Kinds : orphans[k] \subseteq orphans'[k]
  OBVIOUS
<1>2. \A k \in Kinds : IsPrefix(fileD[k], fileD'[k])
  BY PrefixReflexive
<1> QED BY <1>1, <1>2, AckedStay

\* The call of one store is over, the others go on.
LEMMA CallsAfter ==
    ASSUME TypeOK, NEW s \in Stores, DropCalls({s})
    PROVE  \A t \in Stores : pc'[t] \in {"copy", "truncate"} =>
              pc'[t] = pc[t] /\ done'[t] = done[t]
  BY DEF DropCalls

\* What a chunk call acknowledges is on the medium, and a reopen copies it
\* before it cuts it off.
LEMMA StepAck ==
    TypeOK /\ TypeOK' /\ LockInv /\ OpInv /\ DiskInv /\ SessionInv /\ AckInv
       /\ [Next]_vars => AckInv'
<1> SUFFICES ASSUME TypeOK, TypeOK', LockInv, OpInv, DiskInv, SessionInv, AckInv,
                    [Next]_vars
             PROVE  AckInv'
  OBVIOUS
<1> USE DEF diskVars, itemVars, callVars, historyVars
<1>1. ASSUME NEW s \in Stores, Start(s) PROVE AckInv'
  <2>1. /\ UNCHANGED <<fileD, ckpt, orphans, acked, pc, done>>
        /\ dirD'.ckpt = ckpt /\ dirD'.orphans = orphans'
    BY <1>1 DEF Start, Dir
  <2> QED BY <2>1, PrefixReflexive, AckedStay
<1>2. ASSUME NEW s \in Stores, NEW k \in Kinds, NEW c \in Chunks,
             NEW l \in Leases, NEW o \in 0..MaxLength[k],
             ChunkWrite(s, k, o, c, l)
      PROVE  AckInv'
  <2>1. /\ UNCHANGED <<fileD, dirD, ckpt, orphans, acked, done>>
        /\ pc' = [pc EXCEPT ![s] = "chunk"]
    BY <1>2 DEF ChunkWrite, Goto
  <2> QED BY <2>1, QuietStep DEF TypeOK
<1>3. ASSUME NEW s \in Stores, ChunkSync(s) PROVE AckInv'
  <2> DEFINE k == req[s].kind
  <2>1. /\ UNCHANGED <<ckpt, dirD, orphans>> /\ pc[s] = "chunk"
        /\ fileD' = [fileD EXCEPT ![k] = file[k]]
        /\ acked' = [acked EXCEPT ![k] = @ \union {file[k]}]
        /\ DropCalls({s})
    BY <1>3 DEF ChunkSync
  <2>2. k \in Kinds
    BY DEF TypeOK
  <2> HIDE DEF k
  <2>3. \A j \in Kinds : IsPrefix(fileD[j], fileD'[j])
    BY <2>1, <2>2, PrefixReflexive DEF DiskInv, TypeOK
  <2>4. \A j \in Kinds : \A content \in acked'[j] :
           content \in acked[j] \/ IsPrefix(content, fileD'[j])
    BY <2>1, <2>2, PrefixReflexive DEF TypeOK
  <2>5. \A t \in Stores : pc'[t] \notin {"copy", "truncate"}
    BY <2>1, CallsAfter, Exclusive DEF DropCalls
  <2> QED BY <2>1, <2>3, <2>4, <2>5, AckedStay
<1>4. ASSUME NEW s \in Stores, NEW k \in Kinds, NEW c \in Chunks,
             NEW l \in Leases, NEW o \in 0..MaxLength[k],
             ChunkRetry(s, k, o, c, l)
      PROVE  AckInv'
  <2>1. /\ UNCHANGED <<fileD, ckpt, dirD, orphans, pc>>
        /\ pc[s] = "idle" /\ status[s] = "writable"
        /\ Len(file[k]) = Len(hashed[s][k])
        /\ acked' = [acked EXCEPT ![k] = @ \union {hashed[s][k]}]
    BY <1>4 DEF ChunkRetry, Writable, OpenPartial
  <2>2. fileD[k] = file[k] /\ IsPrefix(file[k], hashed[s][k])
    BY <2>1 DEF SessionInv
  <2>3. hashed[s][k] = fileD[k]
    BY <2>1, <2>2, ContentTypes, PrefixSameLength DEF Bytes
  <2>4. \A j \in Kinds : \A content \in acked'[j] :
           content \in acked[j] \/ IsPrefix(content, fileD'[j])
    BY <2>1, <2>3, PrefixReflexive DEF TypeOK
  <2>5. \A t \in Stores : pc'[t] \notin {"copy", "truncate"}
    BY <2>1, Exclusive DEF Live
  <2> QED BY <2>1, <2>4, <2>5, PrefixReflexive, AckedStay
<1>5. ASSUME NEW s \in Stores, NEW k \in Kinds, NEW l \in Leases,
             ChunkStale(s, k, l)
      PROVE  AckInv'
  <2>1. UNCHANGED <<fileD, dirD, ckpt, orphans, acked, pc, done>>
    BY <1>5 DEF ChunkStale
  <2> QED BY <2>1, QuietStep
<1>6. ASSUME NEW s \in Stores, NEW g \in 0..MaxGeneration, NEW st \in States,
             NEW p \in Profiles, NEW l \in Leases,
             CheckpointVerify(s, g, st, p, l)
      PROVE  AckInv'
  <2>1. /\ UNCHANGED <<dirD, ckpt, orphans, acked, done>>
        /\ fileD' = file
        /\ pc' = [pc EXCEPT ![s] = "publish"]
    BY <1>6 DEF CheckpointVerify, Goto
  <2>2. \A t \in Stores : pc'[t] \in {"copy", "truncate"} => pc'[t] = pc[t]
    BY <2>1 DEF TypeOK
  <2>3. \A j \in Kinds : IsPrefix(fileD[j], fileD'[j])
    BY <2>1 DEF DiskInv
  <2> QED BY <2>1, <2>2, <2>3, AckedStay
<1>7. ASSUME NEW s \in Stores, CheckpointReplace(s) PROVE AckInv'
  <2>1. /\ UNCHANGED <<fileD, dirD, orphans, acked>>
        /\ pc[s] = "publish" /\ pc' = [pc EXCEPT ![s] = "sync"]
    BY <1>7 DEF CheckpointReplace, Goto
  <2>2. \A t \in Stores : pc'[t] \notin {"copy", "truncate"}
    BY <2>1, Exclusive DEF TypeOK
  <2> QED BY <2>1, <2>2, PrefixReflexive, AckedStay
<1>8. ASSUME NEW s \in Stores, CheckpointSync(s) PROVE AckInv'
  <2>1. /\ UNCHANGED <<fileD, ckpt, orphans, acked>>
        /\ dirD' = Dir /\ DropCalls({s})
    BY <1>8 DEF CheckpointSync, SyncDirectory
  <2>2. dirD'.ckpt = ckpt /\ dirD'.orphans = orphans'
    BY <2>1 DEF Dir
  <2> QED BY <2>1, <2>2, CallsAfter, PrefixReflexive, AckedStay
<1>9. ASSUME NEW s \in Stores, NEW g \in 0..MaxGeneration, NEW p \in Profiles,
             ReopenVerify(s, g, p)
      PROVE  AckInv'
  <2>1. /\ UNCHANGED <<fileD, dirD, ckpt, orphans, acked>>
        /\ pc' = [pc EXCEPT ![s] = "copy"]
        /\ done' = [done EXCEPT ![s] = {}]
    BY <1>9 DEF ReopenVerify, Goto
  <2> QED BY <2>1, QuietStep DEF TypeOK
<1>10. ASSUME NEW s \in Stores, NEW k \in Kinds, ReopenCopy(s, k)
       PROVE  AckInv'
  BY <1>10, CopyStep
<1>11. ASSUME NEW s \in Stores, ReopenSyncOrphans(s) PROVE AckInv'
  BY <1>11, SyncOrphansStep
<1>12. ASSUME NEW s \in Stores, NEW k \in Kinds, ReopenTruncate(s, k)
       PROVE  AckInv'
  BY <1>12, TruncateStep
<1>13. ASSUME NEW s \in Stores, ReopenReplace(s) PROVE AckInv'
  <2>1. /\ UNCHANGED <<fileD, dirD, orphans, acked>>
        /\ pc[s] = "truncate" /\ pc' = [pc EXCEPT ![s] = "resync"]
    BY <1>13 DEF ReopenReplace, Goto
  <2>2. \A t \in Stores : pc'[t] \notin {"copy", "truncate"}
    BY <2>1, Exclusive DEF TypeOK
  <2> QED BY <2>1, <2>2, PrefixReflexive, AckedStay
<1>14. ASSUME NEW s \in Stores, ReopenFinish(s) PROVE AckInv'
  <2>1. /\ UNCHANGED <<fileD, ckpt, orphans, acked>>
        /\ dirD' = Dir /\ DropCalls({s})
    BY <1>14 DEF ReopenFinish, SyncDirectory
  <2>2. dirD'.ckpt = ckpt /\ dirD'.orphans = orphans'
    BY <2>1 DEF Dir
  <2> QED BY <2>1, <2>2, CallsAfter, PrefixReflexive, AckedStay
<1>15. ASSUME NEW s \in Stores, NEW l \in Leases, FinalizeBegin(s, l)
       PROVE  AckInv'
  <2>1. /\ UNCHANGED <<fileD, dirD, ckpt, orphans, acked>>
        /\ pc' = [pc EXCEPT ![s] = "rename"]
        /\ done' = [done EXCEPT ![s] = {}]
    BY <1>15 DEF FinalizeBegin, Goto
  <2> QED BY <2>1, QuietStep DEF TypeOK
<1>16. ASSUME NEW s \in Stores, NEW k \in Kinds, FinalizeRename(s, k)
       PROVE  AckInv'
  <2>1. /\ UNCHANGED <<fileD, dirD, ckpt, orphans, acked, pc>>
        /\ pc[s] = "rename"
        /\ \E D : done' = [done EXCEPT ![s] = D]
    BY <1>16 DEF FinalizeRename
  <2> QED BY <2>1, QuietStep DEF TypeOK
<1>17. ASSUME NEW s \in Stores, NEW k \in Kinds, FinalizeStale(s, k)
       PROVE  AckInv'
  <2>1. UNCHANGED <<fileD, dirD, ckpt, orphans, acked>> /\ DropCalls({s})
    BY <1>17 DEF FinalizeStale
  <2> QED BY <2>1, CallsAfter, QuietStep
<1>18. ASSUME NEW s \in Stores, FinalizeReceipt(s) PROVE AckInv'
  <2>1. /\ UNCHANGED <<fileD, dirD, ckpt, orphans, acked, done>>
        /\ pc' = [pc EXCEPT ![s] = "receipt"]
    BY <1>18 DEF FinalizeReceipt, Goto
  <2> QED BY <2>1, QuietStep DEF TypeOK
<1>19. ASSUME NEW s \in Stores, FinalizePublish(s) PROVE AckInv'
  <2>1. UNCHANGED <<fileD, dirD, ckpt, orphans, acked>> /\ DropCalls({s})
    BY <1>19 DEF FinalizePublish
  <2> QED BY <2>1, CallsAfter, QuietStep
<1>20. ASSUME NEW s \in Stores, Suspend(s) PROVE AckInv'
  <2>1. UNCHANGED <<fileD, dirD, ckpt, orphans, acked, pc, done>>
    BY <1>20 DEF Suspend
  <2> QED BY <2>1, QuietStep
<1>21. ASSUME NEW s \in Stores, OsError(s) PROVE AckInv'
  <2>1. UNCHANGED <<fileD, dirD, ckpt, orphans, acked>> /\ DropCalls({s})
    BY <1>21 DEF OsError
  <2> QED BY <2>1, CallsAfter, QuietStep
<1>22. ASSUME NEW s \in Stores, Crash(s) PROVE AckInv'
  <2>1. UNCHANGED <<fileD, dirD, ckpt, orphans, acked>> /\ DropCalls({s})
    BY <1>22 DEF Crash
  <2> QED BY <2>1, CallsAfter, QuietStep
<1>23. ASSUME PowerLoss PROVE AckInv'
  <2>1. /\ dirD'.ckpt = ckpt' /\ ckpt' \in {ckpt, dirD.ckpt}
        /\ dirD'.orphans = orphans' /\ orphans' \in {orphans, dirD.orphans}
        /\ acked' = acked /\ fileD' = file' /\ DropCalls(Stores)
    BY <1>23 DEF PowerLoss, Dir
  <2>2. \A k \in Kinds : file'[k] \in Remains(k)
    BY <1>23 DEF PowerLoss, Kinds
  <2>3. ASSUME NEW k \in Kinds PROVE IsPrefix(fileD[k], file'[k])
    <3>1. fileD[k] \in Bytes
      BY ContentTypes
    <3>2. IsPrefix(fileD[k], Append(fileD[k], Torn))
      BY <3>1, PrefixReflexive, PrefixOfAppend DEF Bytes
    <3> QED BY <2>2, <3>2, PrefixReflexive DEF Remains, DiskInv
  <2>4. \A t \in Stores : pc'[t] \notin {"copy", "truncate"}
    BY <2>1 DEF DropCalls
  <2> QED BY <2>1, <2>3, <2>4, AckedStay
<1>24. CASE UNCHANGED vars
  <2>1. UNCHANGED <<fileD, dirD, ckpt, orphans, acked, pc, done>>
    BY <1>24 DEF vars
  <2> QED BY <2>1, QuietStep
<1> QED
  BY <1>1, <1>2, <1>3, <1>4, <1>5, <1>6, <1>7, <1>8, <1>9, <1>10, <1>11,
     <1>12, <1>13, <1>14, <1>15, <1>16, <1>17, <1>18, <1>19, <1>20, <1>21,
     <1>22, <1>23, <1>24 DEF Next, Chunk, Checkpoint, Reopen, Finalize

LEMMA InitAck == Init => AckInv
<1> SUFFICES ASSUME Init PROVE AckInv
  OBVIOUS
<1>1. \A k \in Kinds : dirD.orphans[k] \subseteq orphans[k] /\ acked[k] = {}
  BY DEF Init, Dir
<1>2. \A s \in Stores : pc[s] = "idle"
  BY DEF Init
<1> QED BY <1>1, <1>2 DEF AckInv

\* Bytes that a chunk call answered for are never lost, whatever is killed, cut
\* short or loses power: in the archive file or, after a reopen that went back
\* behind them, in an orphan file that was durable before the truncation
\* (usb_archive.py chunk, reopen).
THEOREM AckedBytesStay == Spec => []AckedBytesSurvive
<1>1. Init => AckInv
  BY InitAck
<1>2. IInv /\ IInv' /\ AckInv /\ [Next]_vars => AckInv'
  BY StepAck DEF IInv
<1>3. AckInv => AckedBytesSurvive
  BY DEF AckInv, AckedBytesSurvive, Spilled
<1> QED
  BY <1>1, <1>2, <1>3, Invariance, PTL DEF Spec

=============================================================================
