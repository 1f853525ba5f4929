----------------------------- MODULE PartWriter -----------------------------
(***************************************************************************)
(* latent_grpo_runner/metrics/storage.py: AppendOnlyPartWriter, the writer *)
(* of one Parquet metrics table, with the directory it publishes parts to. *)
(*                                                                         *)
(* A Writer is one writer object of some driver process; several may want  *)
(* the same table (a restarted driver beside one not yet dead).  A File is *)
(* one uuid-named part file.  A row is its primary key: everything else in *)
(* it is schema-checked payload that no decision here depends on.          *)
(*                                                                         *)
(* Files survive a crash; what a writer holds in memory does not.  A crash *)
(* (Crash) keeps what the operating system was told, a power failure       *)
(* (PowerLoss) only what was fsynced.                                      *)
(***************************************************************************)
EXTENDS Integers, FiniteSets

CONSTANTS Writer, File, Key,
          StepOf,         \* step a row belongs to: checkpoint_step, else global_step
          Batch,          \* what callers pass to append, as sets of keys
          Cut,            \* the values resume_checkpoint_step takes when not None
          NoCut,          \* resume_checkpoint_step = None
          NoWriter, NoFile,
          MaxNumber,      \* bound: largest part number
          CallerRetries,  \* does a caller go on with a writer whose append raised?
          ReadsFail,      \* may reading a published part fail?
          PowerFails      \* may the machine lose power?

ASSUME StepOfAssumption == StepOf \in [Key -> Nat]
ASSUME BatchAssumption == Batch \subseteq SUBSET Key
ASSUME CutAssumption == Cut \subseteq Nat /\ NoCut \notin Cut
ASSUME NoneAssumption == NoWriter \notin Writer /\ NoFile \notin File
ASSUME NumberAssumption == MaxNumber \in Nat
ASSUME SwitchAssumption == {CallerRetries, ReadsFail, PowerFails} \subseteq BOOLEAN

VARIABLES
  \* the table directory
  place,     \* where a file is: "none" | "tmp" | "part" | "quarantine"
  body,      \* the keys of its rows
  number,    \* its part number
  whole,     \* the files whose content reads back as written
  synced,    \* the files whose content was fsynced
  durable,   \* the published files whose directory entry was fsynced
  manifest,  \* _SUCCESS_PARTS.json: the files it lists
  ckpt,      \* _WRITER_CHECKPOINT.json: the files it counts
  lock,      \* holder of .writer.lock
  \* each writer's memory
  pc,        \* where it is in __init__ or append
  cut,       \* self.resume_checkpoint_step
  scan,      \* parts __init__ has still to look at
  parts,     \* self.manifest["parts"]
  keys,      \* self._keys
  file,      \* final_name of the append in progress
  \* history
  acked      \* files whose append has returned

disk == <<place, body, number, whole, synced, durable, manifest, ckpt>>
memory == <<pc, cut, scan, parts, keys, file>>
vars == <<disk, lock, memory, acked>>

Opening == {"scan", "keys"}
Publishing == {"written", "synced", "verified", "renamed", "durable", "listed"}
Published == {f \in File : place[f] = "part"}
PublishedKeys == UNION {body[f] : f \in Published}

Init ==
  /\ place = [f \in File |-> "none"]
  /\ body = [f \in File |-> {}]
  /\ number = [f \in File |-> 0]
  /\ whole = File /\ synced = {} /\ durable = {}
  /\ manifest = {} /\ ckpt = {}
  /\ lock = NoWriter
  /\ pc = [w \in Writer |-> "down"]
  /\ cut = [w \in Writer |-> NoCut]
  /\ scan = [w \in Writer |-> {}]
  /\ parts = [w \in Writer |-> {}]
  /\ keys = [w \in Writer |-> {}]
  /\ file = [w \in Writer |-> NoFile]
  /\ acked = {}

-----------------------------------------------------------------------------
(* Opening a writer: __init__ *)

\* Mutant of Acquire: a lock file that is opened but never locked.
AcquireUnlocked(w, c) ==
  /\ pc[w] = "down"
  /\ lock' = w
  /\ pc' = [pc EXCEPT ![w] = "scan"]
  /\ cut' = [cut EXCEPT ![w] = c]
  /\ scan' = [scan EXCEPT ![w] = Published]
  /\ UNCHANGED <<disk, parts, keys, file, acked>>

\* _acquire_writer_lock, then the glob of _load_or_rebuild_manifest.  While
\* another writer holds the lock the attempt raises and changes nothing.
Acquire(w, c) ==
  /\ pc[w] = "down"
  /\ lock = NoWriter
  /\ lock' = w
  /\ pc' = [pc EXCEPT ![w] = "scan"]
  /\ cut' = [cut EXCEPT ![w] = c]
  /\ scan' = [scan EXCEPT ![w] = Published]
  /\ UNCHANGED <<disk, parts, keys, file, acked>>

\* The part the scan looks at next: parts are sorted by part number.
ScanNext(w, f) ==
  /\ pc[w] = "scan"
  /\ f \in scan[w]
  /\ \A g \in scan[w] : number[f] <= number[g]
  /\ scan' = [scan EXCEPT ![w] = @ \ {f}]

Future(f, c) == c # NoCut /\ \E k \in body[f] : StepOf[k] > c

KeepPart(w, f) ==
  /\ ScanNext(w, f)
  /\ f \in whole
  /\ ~Future(f, cut[w])
  /\ parts' = [parts EXCEPT ![w] = @ \cup {f}]
  /\ UNCHANGED <<disk, lock, pc, cut, keys, file, acked>>

\* os.replace into quarantine/, as future-step-... or as unreadable-...  The
\* except clause covers any failure to read a part, transient ones included.
QuarantinePart(w, f) ==
  /\ ScanNext(w, f)
  /\ \/ f \in whole /\ Future(f, cut[w])
     \/ f \notin whole
     \/ ReadsFail
  /\ place' = [place EXCEPT ![f] = "quarantine"]
  /\ acked' = acked \ {f}
  /\ UNCHANGED <<body, number, whole, synced, durable, manifest, ckpt,
                 lock, pc, cut, parts, keys, file>>

\* The manifest is rewritten when the rebuilt one differs; atomic_write_json
\* ends with an fsync of the directory the parts live in.
RebuildManifest(w) ==
  /\ pc[w] = "scan"
  /\ scan[w] = {}
  /\ manifest' = parts[w]
  /\ durable' = IF manifest = parts[w] THEN durable ELSE durable \cup Published
  /\ pc' = [pc EXCEPT ![w] = "keys"]
  /\ UNCHANGED <<place, body, number, whole, synced, ckpt, lock, cut, scan,
                 parts, keys, file, acked>>

Disjoint(files) == \A f, g \in files : f # g => body[f] \cap body[g] = {}

\* Mutant of LoadKeys: only what the writer checkpoint counts is taken for
\* committed.
LoadKeysOfCheckpoint(w) ==
  /\ pc[w] = "keys"
  /\ keys' = [keys EXCEPT ![w] = UNION {body[f] : f \in parts[w] \cap ckpt}]
  /\ pc' = [pc EXCEPT ![w] = "ready"]
  /\ UNCHANGED <<disk, lock, cut, scan, parts, file, acked>>

\* _committed_keys
LoadKeys(w) ==
  /\ pc[w] = "keys"
  /\ Disjoint(parts[w])
  /\ keys' = [keys EXCEPT ![w] = UNION {body[f] : f \in parts[w]}]
  /\ pc' = [pc EXCEPT ![w] = "ready"]
  /\ UNCHANGED <<disk, lock, cut, scan, parts, file, acked>>

-----------------------------------------------------------------------------
(* Leaving: close(), a failed __init__, the end of the process *)

\* The writer forgets its memory and the lock is free.
Leave(w) ==
  /\ lock' = NoWriter
  /\ pc' = [pc EXCEPT ![w] = "down"]
  /\ cut' = [cut EXCEPT ![w] = NoCut]
  /\ scan' = [scan EXCEPT ![w] = {}]
  /\ parts' = [parts EXCEPT ![w] = {}]
  /\ keys' = [keys EXCEPT ![w] = {}]
  /\ file' = [file EXCEPT ![w] = NoFile]

\* __init__ raises: a duplicate key across parts, or any read or write that
\* fails.  The manifest may have been replaced before that.
OpenFails(w) ==
  /\ pc[w] \in Opening
  /\ Leave(w)
  /\ manifest' \in {manifest} \cup (IF scan[w] = {} THEN {parts[w]} ELSE {})
  /\ UNCHANGED <<place, body, number, whole, synced, durable, ckpt, acked>>

Close(w) ==
  /\ pc[w] \in {"ready", "failed"}
  /\ Leave(w)
  /\ UNCHANGED <<disk, acked>>

\* A temporary file no name of which is ever globbed again is forgotten.
DropTemporary(gone) ==
  /\ place' = [f \in File |-> IF f \in gone THEN "none" ELSE place[f]]
  /\ body' = [f \in File |-> IF f \in gone THEN {} ELSE body[f]]
  /\ number' = [f \in File |-> IF f \in gone THEN 0 ELSE number[f]]
  /\ synced' = synced \ gone

Temporary(w) == {f \in File : f = file[w] /\ place[f] = "tmp"}

\* The process of the writer dies; the operating system drops its flock.
Crash(w) ==
  /\ pc[w] # "down"
  /\ Leave(w)
  /\ DropTemporary(Temporary(w))
  /\ whole' = whole \cup Temporary(w)
  /\ UNCHANGED <<durable, manifest, ckpt, acked>>

\* Every process dies.  A part whose directory entry was not fsynced may be
\* gone, one whose content was not fsynced comes back torn.
PowerLoss ==
  /\ PowerFails
  /\ \E lost \in SUBSET (Published \ durable) :
       LET gone == lost \cup {f \in File : place[f] = "tmp"} IN
       /\ DropTemporary(gone)
       /\ whole' = (whole \ (Published \ synced)) \cup gone
       /\ manifest' = manifest \ lost
       /\ ckpt' = ckpt \ lost
  /\ lock' = NoWriter
  /\ pc' = [w \in Writer |-> "down"]
  /\ cut' = [w \in Writer |-> NoCut]
  /\ scan' = [w \in Writer |-> {}]
  /\ parts' = [w \in Writer |-> {}]
  /\ keys' = [w \in Writer |-> {}]
  /\ file' = [w \in Writer |-> NoFile]
  /\ UNCHANGED <<durable, acked>>

-----------------------------------------------------------------------------
(* append *)

\* An exception leaves append.  The trainer lets it end the run, and the run's
\* finally clause closes the writer; another caller might go on.
Raise(w) == /\ pc' = [pc EXCEPT ![w] = IF CallerRetries THEN "ready" ELSE "failed"]
            /\ file' = [file EXCEPT ![w] = NoFile]

\* Mutant of NextNumber: parts are numbered by how many there are.
NextNumberCount(n, files) == n = Cardinality(files)

\* The part number of the next part: one more than the largest in the manifest.
NextNumber(n, files) ==
  /\ \A f \in files : number[f] < n
  /\ n = 0 \/ \E f \in files : number[f] = n - 1

\* An empty batch or a key already committed is refused before any write.
RefuseAppend(w, b) ==
  /\ pc[w] = "ready"
  /\ b = {} \/ b \cap keys[w] # {}
  /\ Raise(w)
  /\ UNCHANGED <<disk, lock, cut, scan, parts, keys, acked>>

\* The backend writes the temporary file; what it wrote may not read back.
WriteTemporary(w, b, f, n) ==
  /\ pc[w] = "ready"
  /\ b # {} /\ b \cap keys[w] = {}
  /\ place[f] = "none"
  /\ NextNumber(n, parts[w])
  /\ place' = [place EXCEPT ![f] = "tmp"]
  /\ body' = [body EXCEPT ![f] = b]
  /\ number' = [number EXCEPT ![f] = n]
  /\ whole' \in {whole, whole \ {f}}
  /\ file' = [file EXCEPT ![w] = f]
  /\ pc' = [pc EXCEPT ![w] = "written"]
  /\ UNCHANGED <<synced, durable, manifest, ckpt, lock, cut, scan, parts, keys, acked>>

\* Mutant of SyncTemporary: the temporary file is not fsynced.
SyncTemporarySkipped(w) ==
  /\ pc[w] = "written"
  /\ pc' = [pc EXCEPT ![w] = "synced"]
  /\ UNCHANGED <<disk, lock, cut, scan, parts, keys, file, acked>>

SyncTemporary(w) ==
  /\ pc[w] = "written"
  /\ synced' = synced \cup {file[w]}
  /\ pc' = [pc EXCEPT ![w] = "synced"]
  /\ UNCHANGED <<place, body, number, whole, durable, manifest, ckpt, lock,
                 cut, scan, parts, keys, file, acked>>

\* The read-back of the temporary file: schema, row count and keys agree.
Verify(w) ==
  /\ pc[w] = "synced"
  /\ file[w] \in whole
  /\ pc' = [pc EXCEPT ![w] = "verified"]
  /\ UNCHANGED <<disk, lock, cut, scan, parts, keys, file, acked>>

Publish(w) ==
  /\ pc[w] = "verified"
  /\ place' = [place EXCEPT ![file[w]] = "part"]
  /\ pc' = [pc EXCEPT ![w] = "renamed"]
  /\ UNCHANGED <<body, number, whole, synced, durable, manifest, ckpt, lock,
                 cut, scan, parts, keys, file, acked>>

\* Mutant of SyncDirectory: the directory is not fsynced after the rename.
SyncDirectorySkipped(w) ==
  /\ pc[w] = "renamed"
  /\ pc' = [pc EXCEPT ![w] = "durable"]
  /\ UNCHANGED <<disk, lock, cut, scan, parts, keys, file, acked>>

\* One fsync of the directory covers every part in it.
SyncDirectory(w) ==
  /\ pc[w] = "renamed"
  /\ durable' = durable \cup Published
  /\ pc' = [pc EXCEPT ![w] = "durable"]
  /\ UNCHANGED <<place, body, number, whole, synced, manifest, ckpt, lock,
                 cut, scan, parts, keys, file, acked>>

\* A failure up to the rename: the temporary file is unlinked.
AppendFails(w) ==
  /\ pc[w] \in {"written", "synced", "verified"}
  /\ DropTemporary({file[w]})
  /\ whole' = whole \cup {file[w]}
  /\ Raise(w)
  /\ UNCHANGED <<durable, manifest, ckpt, lock, cut, scan, parts, keys, acked>>

\* A failure of the fsync after it: there is nothing left to unlink.
SyncDirectoryFails(w) ==
  /\ pc[w] = "renamed"
  /\ Raise(w)
  /\ UNCHANGED <<disk, lock, cut, scan, parts, keys, acked>>

\* The manifest in memory is extended first, then the one on disk.
ListPart(w) ==
  /\ pc[w] = "durable"
  /\ parts' = [parts EXCEPT ![w] = @ \cup {file[w]}]
  /\ manifest' = parts'[w]
  /\ pc' = [pc EXCEPT ![w] = "listed"]
  /\ UNCHANGED <<place, body, number, whole, synced, durable, ckpt, lock,
                 cut, scan, keys, file, acked>>

ListPartFails(w) ==
  /\ pc[w] = "durable"
  /\ parts' = [parts EXCEPT ![w] = @ \cup {file[w]}]
  /\ manifest' \in {manifest, parts'[w]}
  /\ Raise(w)
  /\ UNCHANGED <<place, body, number, whole, synced, durable, ckpt, lock,
                 cut, scan, keys, acked>>

\* The keys are remembered, the writer checkpoint written, append returns.
Return(w) ==
  /\ pc[w] = "listed"
  /\ keys' = [keys EXCEPT ![w] = @ \cup body[file[w]]]
  /\ ckpt' = parts[w]
  /\ acked' = acked \cup {file[w]}
  /\ pc' = [pc EXCEPT ![w] = "ready"]
  /\ file' = [file EXCEPT ![w] = NoFile]
  /\ UNCHANGED <<place, body, number, whole, synced, durable, manifest, lock,
                 cut, scan, parts>>

\* Writing the checkpoint file fails: the rows are committed all the same.
ReturnFails(w) ==
  /\ pc[w] = "listed"
  /\ keys' = [keys EXCEPT ![w] = @ \cup body[file[w]]]
  /\ ckpt' \in {ckpt, parts[w]}
  /\ Raise(w)
  /\ UNCHANGED <<place, body, number, whole, synced, durable, manifest, lock,
                 cut, scan, parts, acked>>

-----------------------------------------------------------------------------
Open(w) == \/ \E c \in Cut \cup {NoCut} : Acquire(w, c)
           \/ \E f \in File : KeepPart(w, f) \/ QuarantinePart(w, f)
           \/ RebuildManifest(w)
           \/ LoadKeys(w)
           \/ OpenFails(w)

Append(w) == \/ \E b \in Batch : RefuseAppend(w, b)
             \/ \E b \in Batch, f \in File, n \in 0..MaxNumber : WriteTemporary(w, b, f, n)
             \/ SyncTemporary(w) \/ Verify(w) \/ Publish(w) \/ SyncDirectory(w)
             \/ AppendFails(w) \/ SyncDirectoryFails(w)
             \/ ListPart(w) \/ ListPartFails(w)
             \/ Return(w) \/ ReturnFails(w)

Next == (\E w \in Writer : Open(w) \/ Append(w) \/ Close(w) \/ Crash(w)) \/ PowerLoss

Spec == Init /\ [][Next]_vars

-----------------------------------------------------------------------------
TypeOK ==
  /\ place \in [File -> {"none", "tmp", "part", "quarantine"}]
  /\ body \in [File -> SUBSET Key]
  /\ number \in [File -> 0..MaxNumber]
  /\ whole \subseteq File /\ synced \subseteq File /\ durable \subseteq File
  /\ manifest \subseteq File /\ ckpt \subseteq File /\ acked \subseteq File
  /\ lock \in Writer \cup {NoWriter}
  /\ pc \in [Writer -> {"down", "ready", "failed"} \cup Opening \cup Publishing]
  /\ cut \in [Writer -> Cut \cup {NoCut}]
  /\ scan \in [Writer -> SUBSET File]
  /\ parts \in [Writer -> SUBSET File]
  /\ keys \in [Writer -> SUBSET Key]
  /\ file \in [Writer -> File \cup {NoFile}]

\* The lock does its job: two writers are never inside the table at once, so
\* no one scans or renames parts under another's feet (storage.py:264-281).
OneWriter == \A w \in Writer : pc[w] # "down" => lock = w

\* No primary key is ever committed in two parts, whatever crashes and restarts
\* lie between the appends: otherwise every later _committed_keys would raise
\* and the table could never be opened again.
UniqueKeys == Disjoint(Published)

\* A writer that takes appends knows exactly what the directory holds: its
\* duplicate check and its part numbers rest on nothing stale, and the manifest
\* on disk agrees with the files, as the output validator demands
\* (output_validator.py:184-187).
ReadyIsExact ==
  \A w \in Writer : pc[w] = "ready" =>
    /\ parts[w] = Published
    /\ manifest = Published
    /\ keys[w] = PublishedKeys

\* What append returned for, and what the writer checkpoint counts, has survived
\* everything but a quarantine, and no power failure can take it back.
CommittedIsDurable ==
  /\ acked \subseteq Published \cap whole
  /\ acked \cup ckpt \subseteq durable \cap synced
  /\ \A f \in ckpt : place[f] \in {"part", "quarantine"}

\* Published parts have different numbers, so the scan order is determined.
NumbersUnique == \A f, g \in Published : f # g => number[f] # number[g]

\* The table keeps the promise of PartLog.
Log == INSTANCE PartLog WITH log <- {body[f] : f \in Published},
                             acked <- {body[f] : f \in acked}
ImplementsLog == Log!LogSpec
=============================================================================
