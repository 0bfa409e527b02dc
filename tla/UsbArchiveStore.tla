--------------------------- MODULE UsbArchiveStore ---------------------------
(***************************************************************************)
(* The USB archive store (cli/usb_archive.py), seen from one archive       *)
(* folder.  Every store is a station process with its own lock around each *)
(* operation; processes share the folder and the .writer.lock in it.       *)
(*                                                                         *)
(* An operation is a sequence of disk steps, pc[s] naming the next one.    *)
(* Between two of them the process may be killed, the medium may lose      *)
(* power, or the call may fail with an OSError.  The disk is what the      *)
(* program sees (file, name, ckpt, orphans, receipt) and what a power loss *)
(* cannot take back (fileD after fsync, dirD after sync_directory).        *)
(*                                                                         *)
(* A chunk is one unit of length: an offset counts chunks.  Torn is the    *)
(* remains of a chunk whose write was cut short.  A SHA-256 over bytes is  *)
(* the bytes themselves.                                                   *)
(***************************************************************************)
EXTENDS Naturals, SequencesExt

CONSTANTS
    Stores,         \* station processes that can open the archive
    Chunks,         \* payloads of archive-chunk calls
    Profiles,       \* profile hashes
    States,         \* crawler recovery states a checkpoint can carry
    NoStore,        \* nobody holds .writer.lock
    NoProfile,
    NoState,
    NoChunk,
    Torn,
    MaxLength,      \* bound: chunks per archive file, by kind
    MaxGeneration,  \* bound: checkpoint generations (2^53 - 1 in the code)
    MaxLeases,      \* bound: sessions opened on the archive
    MaxFaults       \* bound: faults of each sort

Kinds == {"warc", "cdx"}
FaultSorts == {"crash", "power", "oserror"}

ASSUME BoundsAssumption ==
    /\ MaxLength \in [Kinds -> Nat]
    /\ MaxGeneration \in Nat
    /\ MaxLeases \in Nat
    /\ MaxFaults \in [FaultSorts -> Nat]

ASSUME NullsAssumption ==
    /\ NoStore \notin Stores
    /\ NoProfile \notin Profiles
    /\ NoState \notin States
    /\ NoChunk \notin Chunks
    /\ Torn \notin Chunks

VARIABLES
    file,       \* the bytes a reader of each archive file sees
    fileD,      \* the bytes of it that are on the medium
    name,       \* the name each archive file goes by
    ckpt,       \* checkpoint.json
    orphans,    \* the archive.<kind>.orphan.* files
    receipt,    \* receipt.partial.json, then receipt.json
    dirD,       \* the directory entries that are on the medium
    flock,      \* the process that locks .writer.lock
    status,     \* sessions[sid]: absent, or its failed and finalized flags
    hashed,     \* the bytes behind item['hashes'] and item['sizes']
    generation, \* item['generation']
    profile,    \* item['profile_hash']
    lease,      \* item['lease']
    requireLease,
    pc,         \* the next disk step of the operation that holds the lock
    req,        \* the chunk being written
    meta,       \* the checkpoint metadata being read or published
    done,       \* the kinds a loop over KINDS has been through
    issued,     \* leases handed out so far
    faults,     \* faults so far
    acked,      \* history: contents of each file a chunk call acknowledged
    confirmed,  \* history: the last checkpoint a client was told of
    delivered   \* history: a client was given the receipt

diskVars == <<file, fileD, name, ckpt, orphans, receipt, dirD>>
itemVars == <<status, hashed, generation, profile, lease, requireLease>>
callVars == <<pc, req, meta, done>>
historyVars == <<acked, confirmed, delivered>>
vars == <<diskVars, flock, itemVars, callVars, issued, faults, historyVars>>

-----------------------------------------------------------------------------
(* Types *)

Bytes == Seq(Chunks \union {Torn})
Names == {"none", "partial", "final"}

\* checkpoint.json as read_checkpoint validates it; generation 0 is no file.
\* last_chunks is the last element of each prefix and is not kept twice.
Checkpoints ==
    [generation : Nat, profile : Profiles \union {NoProfile},
     state : States \union {NoState}, prefix : [Kinds -> Seq(Chunks)]]

Nothing == [k \in Kinds |-> <<>>]

NoCheckpoint ==
    [generation |-> 0, profile |-> NoProfile, state |-> NoState,
     prefix |-> Nothing]

Receipts ==
    [stage : {"none", "partial", "final"}, archives : [Kinds -> Seq(Chunks)]]

NoReceipt == [stage |-> "none", archives |-> Nothing]

Statuses == {"absent", "writable", "failed", "finalized"}
PCs == {"idle", "chunk", "publish", "sync", "copy", "truncate",
        "resync", "rename", "receipt"}

Dirs == [name : [Kinds -> Names], ckpt : Checkpoints,
         orphans : [Kinds -> SUBSET Bytes], receipt : Receipts]
Dir == [name |-> name, ckpt |-> ckpt, orphans |-> orphans, receipt |-> receipt]

TypeOK ==
    /\ file \in [Kinds -> Bytes]
    /\ fileD \in [Kinds -> Bytes]
    /\ name \in [Kinds -> Names]
    /\ ckpt \in Checkpoints
    /\ orphans \in [Kinds -> SUBSET Bytes]
    /\ receipt \in Receipts
    /\ dirD \in Dirs
    /\ flock \in Stores \union {NoStore}
    /\ status \in [Stores -> Statuses]
    /\ hashed \in [Stores -> [Kinds -> Seq(Chunks)]]
    /\ generation \in [Stores -> Nat]
    /\ profile \in [Stores -> Profiles \union {NoProfile}]
    /\ lease \in [Stores -> Nat]
    /\ requireLease \in [Stores -> BOOLEAN]
    /\ pc \in [Stores -> PCs]
    /\ req \in [Stores -> [kind : Kinds, raw : Chunks \union {NoChunk}]]
    /\ \A s \in Stores : pc[s] = "chunk" => req[s].raw \in Chunks
    /\ meta \in [Stores -> Checkpoints]
    /\ done \in [Stores -> SUBSET Kinds]
    /\ issued \in Nat
    /\ faults \in [FaultSorts -> Nat]
    /\ acked \in [Kinds -> SUBSET Seq(Chunks)]
    /\ confirmed \in Checkpoints
    /\ delivered \in BOOLEAN

-----------------------------------------------------------------------------
(* Helpers *)

NoRequest == [kind |-> "warc", raw |-> NoChunk]

\* session(): a live session whose store lock is free.
Writable(s) == pc[s] = "idle" /\ status[s] = "writable"

\* check_lease: lease 0 is a call that carries none.
CheckLease(s, l, required) ==
    (required \/ requireLease[s] \/ l # 0) => l = lease[s]

\* open_partial: the named file is still the partial one, of the known size.
OpenPartial(s, k) ==
    /\ name[k] = "partial"
    /\ Len(file[k]) = Len(hashed[s][k])

\* A loop over KINDS takes warc before cdx.
NextKind(s, k) == k \notin done[s] /\ (k = "cdx" => "warc" \in done[s])

\* Mutant: reopen does not look for a receipt.
ReopenableReceipted == \A k \in Kinds : name[k] = "partial"

\* refuse_finalized, and both partial files are there to be opened.
Reopenable == receipt.stage = "none" /\ \A k \in Kinds : name[k] = "partial"

\* The same checkpoint under the next generation.
Consumed(c) ==
    [generation |-> c.generation + 1, profile |-> c.profile, state |-> c.state,
     prefix |-> c.prefix]

\* Mutant: no directory is synced, as on Windows (usb_archive.py:137).
SyncDirectoryNoOp == dirD' = dirD

SyncDirectory == dirD' = Dir

\* Mutant: the lock is not tried.
LockFreeAlways(s) == s \in Stores

\* Nobody else has .writer.lock; a live session of this process has it already.
LockFree(s) == flock = IF status[s] = "absent" THEN NoStore ELSE s

\* Mutant: the last committed chunk counts as tail.
CommittedSizeShort(s, k) ==
    IF meta[s].prefix[k] = <<>> THEN 0 ELSE Len(meta[s].prefix[k]) - 1

\* The size of the committed prefix reopen goes back to.
CommittedSize(s, k) == Len(meta[s].prefix[k])

\* Mutant: a tail of one chunk is not kept.
HasTailLong(s, k) == Len(file[k]) > CommittedSize(s, k) + 1
HasTail(s, k) == Len(file[k]) > CommittedSize(s, k)

Goto(s, step) ==
    pc' = [pc EXCEPT ![s] = step]

\* sessions.pop(sid) in the processes of S: what the items held is gone.
DropSessions(S) ==
    /\ status' = [s \in Stores |-> IF s \in S THEN "absent" ELSE status[s]]
    /\ hashed' = [s \in Stores |-> IF s \in S THEN Nothing ELSE hashed[s]]
    /\ generation' = [s \in Stores |-> IF s \in S THEN 0 ELSE generation[s]]
    /\ profile' = [s \in Stores |-> IF s \in S THEN NoProfile ELSE profile[s]]
    /\ lease' = [s \in Stores |-> IF s \in S THEN 0 ELSE lease[s]]
    /\ requireLease' = [s \in Stores |-> s \notin S /\ requireLease[s]]

\* The operations in progress in the processes of S are over.
DropCalls(S) ==
    /\ pc' = [s \in Stores |-> IF s \in S THEN "idle" ELSE pc[s]]
    /\ req' = [s \in Stores |-> IF s \in S THEN NoRequest ELSE req[s]]
    /\ meta' = [s \in Stores |-> IF s \in S THEN NoCheckpoint ELSE meta[s]]
    /\ done' = [s \in Stores |-> IF s \in S THEN {} ELSE done[s]]

Spend(f) ==
    /\ faults[f] < MaxFaults[f]
    /\ faults' = [faults EXCEPT ![f] = @ + 1]

Init ==
    /\ file = Nothing
    /\ fileD = Nothing
    /\ name = [k \in Kinds |-> "none"]
    /\ ckpt = NoCheckpoint
    /\ orphans = [k \in Kinds |-> {}]
    /\ receipt = NoReceipt
    /\ dirD = Dir
    /\ flock = NoStore
    /\ status = [s \in Stores |-> "absent"]
    /\ hashed = [s \in Stores |-> Nothing]
    /\ generation = [s \in Stores |-> 0]
    /\ profile = [s \in Stores |-> NoProfile]
    /\ lease = [s \in Stores |-> 0]
    /\ requireLease = [s \in Stores |-> FALSE]
    /\ pc = [s \in Stores |-> "idle"]
    /\ req = [s \in Stores |-> NoRequest]
    /\ meta = [s \in Stores |-> NoCheckpoint]
    /\ done = [s \in Stores |-> {}]
    /\ issued = 0
    /\ faults = [f \in FaultSorts |-> 0]
    /\ acked = [k \in Kinds |-> {}]
    /\ confirmed = NoCheckpoint
    /\ delivered = FALSE

-----------------------------------------------------------------------------
(* start: a new folder, its writer lock and two empty partial files.  A    *)
(* start that fails leaves a folder no session and no checkpoint refers    *)
(* to, which is an archive of another id.  The entries of new files count   *)
(* as durable: the first fsync of such a file takes its entry along.       *)

Start(s) ==
    /\ pc[s] = "idle"
    /\ \A k \in Kinds : name[k] = "none"
    /\ issued < MaxLeases
    /\ name' = [k \in Kinds |-> "partial"]
    /\ flock' = s
    /\ status' = [status EXCEPT ![s] = "writable"]
    /\ hashed' = [hashed EXCEPT ![s] = Nothing]
    /\ generation' = [generation EXCEPT ![s] = 0]
    /\ profile' = [profile EXCEPT ![s] = NoProfile]
    /\ issued' = issued + 1
    /\ lease' = [lease EXCEPT ![s] = issued']
    /\ requireLease' = [requireLease EXCEPT ![s] = FALSE]
    /\ UNCHANGED <<file, fileD, ckpt, orphans, receipt, callVars, faults,
                   historyVars>>
    /\ dirD' = Dir'

-----------------------------------------------------------------------------
(* chunk *)

\* The offset is the known size: seek and write.  The bytes in the file are
\* all of the chunk, a part of it or none when the write returns or is cut.
ChunkWrite(s, k, offset, c, l) ==
    /\ Writable(s)
    /\ CheckLease(s, l, FALSE)
    /\ offset = Len(hashed[s][k])
    /\ OpenPartial(s, k)
    /\ offset < MaxLength[k]
    /\ \E written \in {<<c>>, <<Torn>>, <<>>} :
          file' = [file EXCEPT ![k] = @ \o written]
    /\ req' = [req EXCEPT ![s] = [kind |-> k, raw |-> c]]
    /\ Goto(s, "chunk")
    /\ UNCHANGED <<fileD, name, ckpt, orphans, receipt, dirD, flock, itemVars,
                   meta, done, issued, faults, historyVars>>

\* fsync returned: account for the bytes and acknowledge.
ChunkSync(s) ==
    LET k == req[s].kind
        content == Append(hashed[s][k], req[s].raw)
    IN  /\ pc[s] = "chunk"
        /\ file[k] = content
        /\ fileD' = [fileD EXCEPT ![k] = file[k]]
        /\ hashed' = [hashed EXCEPT ![s][k] = content]
        /\ acked' = [acked EXCEPT ![k] = @ \union {content}]
        /\ DropCalls({s})
        /\ UNCHANGED <<file, name, ckpt, orphans, receipt, dirD, flock, status,
                       generation, profile, lease, requireLease, issued, faults,
                       confirmed, delivered>>

\* The call repeats the last chunk: read it back and acknowledge it again.
ChunkRetry(s, k, offset, c, l) ==
    /\ Writable(s)
    /\ CheckLease(s, l, FALSE)
    /\ offset + 1 = Len(hashed[s][k])
    /\ c = hashed[s][k][offset + 1]
    /\ OpenPartial(s, k)
    /\ file[k][offset + 1] = c
    /\ acked' = [acked EXCEPT ![k] = @ \union {hashed[s][k]}]
    /\ UNCHANGED <<diskVars, flock, itemVars, callVars, issued, faults,
                   confirmed, delivered>>

\* open_partial finds another file or size under a new chunk.
ChunkStale(s, k, l) ==
    /\ Writable(s)
    /\ CheckLease(s, l, FALSE)
    /\ ~OpenPartial(s, k)
    /\ status' = [status EXCEPT ![s] = "failed"]
    /\ UNCHANGED <<diskVars, flock, hashed, generation, profile, lease,
                   requireLease, callVars, issued, faults, historyVars>>

-----------------------------------------------------------------------------
(* checkpoint *)

\* Re-read both files against the running hashes, sync them, and write the
\* metadata to a temporary file.
CheckpointVerify(s, g, st, p, l) ==
    /\ Writable(s)
    /\ CheckLease(s, l, TRUE)
    /\ g = generation[s]
    /\ g < MaxGeneration
    /\ profile[s] \in {NoProfile, p}
    /\ \A k \in Kinds : OpenPartial(s, k) /\ file[k] = hashed[s][k]
    /\ fileD' = file
    /\ meta' = [meta EXCEPT ![s] =
                  [generation |-> g + 1, profile |-> p, state |-> st,
                   prefix |-> hashed[s]]]
    /\ Goto(s, "publish")
    /\ UNCHANGED <<file, name, ckpt, orphans, receipt, dirD, flock, itemVars,
                   req, done, issued, faults, historyVars>>

\* publish_checkpoint: os.replace of checkpoint.json.
CheckpointReplace(s) ==
    /\ pc[s] = "publish"
    /\ ckpt' = meta[s]
    /\ Goto(s, "sync")
    /\ UNCHANGED <<file, fileD, name, orphans, receipt, dirD, flock, itemVars,
                   req, meta, done, issued, faults, historyVars>>

\* publish_checkpoint: sync_directory; then the session moves on.
CheckpointSync(s) ==
    /\ pc[s] = "sync"
    /\ SyncDirectory
    /\ generation' = [generation EXCEPT ![s] = meta[s].generation]
    /\ profile' = [profile EXCEPT ![s] = meta[s].profile]
    /\ confirmed' = meta[s]
    /\ DropCalls({s})
    /\ UNCHANGED <<file, fileD, name, ckpt, orphans, receipt, flock, status,
                   hashed, lease, requireLease, issued, faults, acked,
                   delivered>>

-----------------------------------------------------------------------------
(* reopen *)

\* Take the writer lock unless this process has it already, read the
\* checkpoint the caller discovered and verify both committed prefixes.
ReopenVerify(s, g, p) ==
    /\ pc[s] = "idle"
    /\ Reopenable
    /\ status[s] # "finalized"
    /\ LockFree(s)
    /\ g \in 1..(MaxGeneration - 1)
    /\ ckpt.generation = g
    /\ ckpt.profile = p
    /\ \A k \in Kinds : IsPrefix(ckpt.prefix[k], file[k])
    /\ flock' = s
    /\ meta' = [meta EXCEPT ![s] = ckpt]
    /\ done' = [done EXCEPT ![s] = {}]
    /\ Goto(s, "copy")
    /\ UNCHANGED <<diskVars, itemVars, req, issued, faults, historyVars>>

\* Copy the bytes past the committed prefix to an orphan file, and sync it.
ReopenCopy(s, k) ==
    /\ pc[s] = "copy"
    /\ NextKind(s, k)
    /\ orphans' = IF HasTail(s, k)
                  THEN [orphans EXCEPT ![k] = @ \union
                          {SubSeq(file[k], CommittedSize(s, k) + 1, Len(file[k]))}]
                  ELSE orphans
    /\ done' = [done EXCEPT ![s] = @ \union {k}]
    /\ UNCHANGED <<file, fileD, name, ckpt, receipt, dirD, flock, itemVars,
                   pc, req, meta, issued, faults, historyVars>>

\* sync_directory: the orphans are durable before a source is truncated.
ReopenSyncOrphans(s) ==
    /\ pc[s] = "copy"
    /\ done[s] = Kinds
    /\ SyncDirectory
    /\ done' = [done EXCEPT ![s] = {}]
    /\ Goto(s, "truncate")
    /\ UNCHANGED <<file, fileD, name, ckpt, orphans, receipt, flock, itemVars,
                   req, meta, issued, faults, historyVars>>

\* truncate and fsync.
ReopenTruncate(s, k) ==
    /\ pc[s] = "truncate"
    /\ NextKind(s, k)
    /\ file' = [file EXCEPT ![k] = SubSeq(@, 1, CommittedSize(s, k))]
    /\ fileD' = [fileD EXCEPT ![k] = file'[k]]
    /\ done' = [done EXCEPT ![s] = @ \union {k}]
    /\ UNCHANGED <<name, ckpt, orphans, receipt, dirD, flock, itemVars,
                   pc, req, meta, issued, faults, historyVars>>

\* Publish the verified checkpoint again under the next generation, which
\* consumes the discovered one.
ReopenReplace(s) ==
    /\ pc[s] = "truncate"
    /\ done[s] = Kinds
    /\ meta' = [meta EXCEPT ![s] = Consumed(meta[s])]
    /\ ckpt' = meta'[s]
    /\ done' = [done EXCEPT ![s] = {}]
    /\ Goto(s, "resync")
    /\ UNCHANGED <<file, fileD, name, orphans, receipt, dirD, flock, itemVars,
                   req, issued, faults, historyVars>>

\* sync_directory; then a new session with a new lease, which calls must carry.
ReopenFinish(s) ==
    /\ pc[s] = "resync"
    /\ issued < MaxLeases
    /\ SyncDirectory
    /\ status' = [status EXCEPT ![s] = "writable"]
    /\ hashed' = [hashed EXCEPT ![s] = meta[s].prefix]
    /\ generation' = [generation EXCEPT ![s] = meta[s].generation]
    /\ profile' = [profile EXCEPT ![s] = meta[s].profile]
    /\ issued' = issued + 1
    /\ lease' = [lease EXCEPT ![s] = issued']
    /\ requireLease' = [requireLease EXCEPT ![s] = TRUE]
    /\ confirmed' = meta[s]
    /\ DropCalls({s})
    /\ UNCHANGED <<file, fileD, name, ckpt, orphans, receipt, flock, faults,
                   acked, delivered>>

-----------------------------------------------------------------------------
(* finalize *)

FinalizeBegin(s, l) ==
    /\ Writable(s)
    /\ CheckLease(s, l, FALSE)
    /\ done' = [done EXCEPT ![s] = {}]
    /\ Goto(s, "rename")
    /\ UNCHANGED <<diskVars, flock, itemVars, req, meta, issued, faults,
                   historyVars>>

\* Verify the partial file against the running hash, rename it, re-read it.
FinalizeRename(s, k) ==
    /\ pc[s] = "rename"
    /\ NextKind(s, k)
    /\ OpenPartial(s, k)
    /\ file[k] = hashed[s][k]
    /\ name' = [name EXCEPT ![k] = "final"]
    /\ done' = [done EXCEPT ![s] = @ \union {k}]
    /\ UNCHANGED <<file, fileD, ckpt, orphans, receipt, dirD, flock, itemVars,
                   pc, req, meta, issued, faults, historyVars>>

\* The verification fails: an OSError, without any fault of the medium.
FinalizeStale(s, k) ==
    /\ pc[s] = "rename"
    /\ NextKind(s, k)
    /\ ~(OpenPartial(s, k) /\ file[k] = hashed[s][k])
    /\ status' = [status EXCEPT ![s] = "failed"]
    /\ DropCalls({s})
    /\ UNCHANGED <<diskVars, flock, hashed, generation, profile, lease,
                   requireLease, issued, faults, historyVars>>

\* receipt.partial.json is created and synced; open('x') refuses another one.
FinalizeReceipt(s) ==
    /\ pc[s] = "rename"
    /\ done[s] = Kinds
    /\ receipt.stage # "partial"
    /\ receipt' = [stage |-> "partial", archives |-> hashed[s]]
    /\ Goto(s, "receipt")
    /\ UNCHANGED <<file, fileD, name, ckpt, orphans, dirD, flock, itemVars,
                   req, meta, done, issued, faults, historyVars>>

\* os.replace to receipt.json; the session is over and the lock released.
\* No sync_directory: the renames reach the medium when the system likes.
FinalizePublish(s) ==
    /\ pc[s] = "receipt"
    /\ receipt' = [stage |-> "final", archives |-> receipt.archives]
    /\ status' = [status EXCEPT ![s] = "finalized"]
    /\ flock' = NoStore
    /\ delivered' = TRUE
    /\ DropCalls({s})
    /\ UNCHANGED <<file, fileD, name, ckpt, orphans, dirD, hashed, generation,
                   profile, lease, requireLease, issued, faults, acked,
                   confirmed>>

-----------------------------------------------------------------------------
(* suspend, close, and what cuts an operation short *)

Suspend(s) ==
    /\ pc[s] = "idle"
    /\ status[s] # "absent"
    /\ DropSessions({s})
    /\ flock' = IF flock = s THEN NoStore ELSE flock
    /\ UNCHANGED <<diskVars, callVars, issued, faults, historyVars>>

\* A disk step raises OSError.  chunk and finalize fail the session; reopen
\* gives back a lock it took itself; checkpoint leaves the session alone.
OsError(s) ==
    /\ pc[s] # "idle"
    /\ Spend("oserror")
    /\ status' = IF pc[s] \in {"chunk", "rename", "receipt"}
                 THEN [status EXCEPT ![s] = "failed"]
                 ELSE status
    /\ flock' = IF status[s] = "absent" THEN NoStore ELSE flock
    /\ DropCalls({s})
    /\ UNCHANGED <<diskVars, hashed, generation, profile, lease, requireLease,
                   issued, historyVars>>

\* The station process dies: its sessions and its writer lock are gone.
Crash(s) ==
    /\ pc[s] # "idle" \/ status[s] # "absent"
    /\ Spend("crash")
    /\ DropSessions({s})
    /\ DropCalls({s})
    /\ flock' = IF flock = s THEN NoStore ELSE flock
    /\ UNCHANGED <<diskVars, issued, historyVars>>

\* What a power loss leaves of a file: the bytes that were synced, and of the
\* bytes that were not, all, a part or none.
Remains(k) ==
    {file[k], fileD[k]} \union
        (IF file[k] = fileD[k] THEN {} ELSE {Append(fileD[k], Torn)})

\* Power is lost: every process dies, and each change of the disk that was
\* not synced is there or not.
PowerLoss ==
    /\ Spend("power")
    /\ \E warc \in Remains("warc"), cdx \in Remains("cdx") :
          file' = [k \in Kinds |-> IF k = "warc" THEN warc ELSE cdx]
    /\ fileD' = file'
    /\ name' \in {f \in [Kinds -> Names] :
                     \A k \in Kinds : f[k] \in {name[k], dirD.name[k]}}
    /\ ckpt' \in {ckpt, dirD.ckpt}
    /\ orphans' \in {orphans, dirD.orphans}
    /\ receipt' \in {receipt, dirD.receipt} \union
                    (IF receipt = dirD.receipt THEN {}
                     ELSE {[stage |-> "partial", archives |-> receipt.archives]})
    /\ dirD' = Dir'
    /\ flock' = NoStore
    /\ DropSessions(Stores)
    /\ DropCalls(Stores)
    /\ UNCHANGED <<issued, historyVars>>

-----------------------------------------------------------------------------
Leases == 0..MaxLeases

Chunk(s) ==
    \/ \E k \in Kinds, c \in Chunks, l \in Leases :
          \E offset \in 0..MaxLength[k] :
             ChunkWrite(s, k, offset, c, l) \/ ChunkRetry(s, k, offset, c, l)
    \/ \E k \in Kinds, l \in Leases : ChunkStale(s, k, l)
    \/ ChunkSync(s)

Checkpoint(s) ==
    \/ \E g \in 0..MaxGeneration, st \in States, p \in Profiles, l \in Leases :
          CheckpointVerify(s, g, st, p, l)
    \/ CheckpointReplace(s)
    \/ CheckpointSync(s)

Reopen(s) ==
    \/ \E g \in 0..MaxGeneration, p \in Profiles : ReopenVerify(s, g, p)
    \/ \E k \in Kinds : ReopenCopy(s, k) \/ ReopenTruncate(s, k)
    \/ ReopenSyncOrphans(s)
    \/ ReopenReplace(s)
    \/ ReopenFinish(s)

Finalize(s) ==
    \/ \E l \in Leases : FinalizeBegin(s, l)
    \/ \E k \in Kinds : FinalizeRename(s, k) \/ FinalizeStale(s, k)
    \/ FinalizeReceipt(s)
    \/ FinalizePublish(s)

Next ==
    \/ \E s \in Stores : \/ Start(s) \/ Chunk(s) \/ Checkpoint(s)
                         \/ Reopen(s) \/ Finalize(s) \/ Suspend(s)
                         \/ OsError(s) \/ Crash(s)
    \/ PowerLoss

Spec == Init /\ [][Next]_vars

-----------------------------------------------------------------------------
(* Properties *)

\* Whatever is lost, the checkpoint that is left describes bytes that are
\* left: reopen always finds both prefixes it has to verify (usb_archive.py:390).
RecoverableCheckpoint ==
    \A c \in {ckpt, dirD.ckpt}, k \in Kinds :
        /\ IsPrefix(c.prefix[k], file[k])
        /\ IsPrefix(c.prefix[k], fileD[k])

\* Bytes a chunk call acknowledged stay on the medium for good: in the archive
\* file, or, past a prefix of it a reopen went back to, in an orphan file.
AckedBytesSurvive ==
    \A k \in Kinds : \A content \in acked[k] :
        \/ IsPrefix(content, fileD[k])
        \/ \E tail \in dirD.orphans[k], n \in 0..Len(dirD.ckpt.prefix[k]) :
              IsPrefix(content, SubSeq(dirD.ckpt.prefix[k], 1, n) \o tail)

\* A checkpoint a client was told of is on the medium until a later one,
\* with at least its bytes, has taken its place.
AckedCheckpointDurable ==
    \/ dirD.ckpt = confirmed
    \/ /\ dirD.ckpt.generation > confirmed.generation
       /\ \A k \in Kinds : IsPrefix(confirmed.prefix[k], dirD.ckpt.prefix[k])

\* Seen from a restart, all the steps of checkpoint and reopen, the faults
\* included, are those of one register that only moves forward.
Register ==
    INSTANCE CheckpointRegister WITH stored <- dirD.ckpt, promised <- confirmed
ImplementsRegister == Register!Spec

\* Only the newest lease writes, in whichever process; once an archive has
\* been reopened a call without a lease does not write either.
LeaseFencing ==
    \A s \in Stores : status[s] = "writable" =>
        /\ lease[s] = issued
        /\ issued > 1 => requireLease[s]

\* chunk compares sizes only.  That is enough: in a writable session whose
\* file has the expected size, the file has the expected bytes.
SizeCheckSuffices ==
    \A s \in Stores, k \in Kinds :
        Writable(s) /\ Len(file[k]) = Len(hashed[s][k])
            => file[k] = hashed[s][k]

\* The receipt, in either name, states the bytes of both archives, and no
\* process has a session that could still change them.
ReceiptMatchesArchives ==
    receipt.stage # "none" =>
        /\ receipt.archives = file
        /\ \A s \in Stores : status[s] # "writable" \/ pc[s] = "receipt"

\* "Finalized archive cannot be reopened" (usb_archive.py:364): once a client
\* has the receipt no session, in any process, writes the archive again.
FinalizedNeverReopens ==
    delivered => \A s \in Stores : status[s] # "writable"

\* A checkpointed capture that was interrupted can be reopened, unless it got
\* as far as a receipt.
InterruptedIsReopenable ==
    (/\ flock = NoStore
     /\ ckpt.generation > 0
     /\ receipt.stage = "none") => Reopenable

=============================================================================
