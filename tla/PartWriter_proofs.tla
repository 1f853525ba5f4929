-------------------------- MODULE PartWriter_proofs --------------------------
(***************************************************************************)
(* What holds of AppendOnlyPartWriter for every number of writers, files   *)
(* and rows.                                                               *)
(***************************************************************************)
EXTENDS PartWriter, TLAPS

-----------------------------------------------------------------------------
\* Every action keeps the types: part numbers stay natural and bounded, and no
\* step of append or close leaves a name that is not a file in a file field.
\* AppendOnlyPartWriter, storage.py:225-401.
LEMMA TypeInit == Init => TypeOK
  BY NoneAssumption, NumberAssumption DEF Init, TypeOK, Opening, Publishing

\* A writer in the middle of an append has a file.
HasFile == \A w \in Writer : pc[w] \in Publishing => file[w] \in File

TypeInv == TypeOK /\ HasFile

LEMMA LeaveType == ASSUME TypeInv, NEW w \in Writer, Leave(w)
                   PROVE /\ lock' \in Writer \cup {NoWriter}
                         /\ pc' \in [Writer -> {"down", "ready", "failed"} \cup Opening \cup Publishing]
                         /\ cut' \in [Writer -> Cut \cup {NoCut}]
                         /\ scan' \in [Writer -> SUBSET File]
                         /\ parts' \in [Writer -> SUBSET File]
                         /\ keys' \in [Writer -> SUBSET Key]
                         /\ file' \in [Writer -> File \cup {NoFile}]
                         /\ HasFile'
  BY DEF Leave, TypeInv, TypeOK, HasFile, Opening, Publishing

LEMMA DropType == ASSUME TypeInv, NEW gone \in SUBSET File, DropTemporary(gone)
                  PROVE /\ place' \in [File -> {"none", "tmp", "part", "quarantine"}]
                        /\ body' \in [File -> SUBSET Key]
                        /\ number' \in [File -> 0..MaxNumber]
                        /\ synced' \subseteq File
  BY NumberAssumption DEF DropTemporary, TypeInv, TypeOK

LEMMA OpenType == ASSUME TypeInv, NEW w \in Writer, Open(w) PROVE TypeInv'
<1> USE DEF TypeInv, TypeOK, HasFile, Opening, Publishing, disk, memory
<1>1. ASSUME NEW c \in Cut \cup {NoCut}, Acquire(w, c) PROVE TypeInv'
  BY <1>1 DEF Acquire, Published
<1>2. ASSUME NEW f \in File, KeepPart(w, f) PROVE TypeInv'
  BY <1>2 DEF KeepPart, ScanNext
<1>3. ASSUME NEW f \in File, QuarantinePart(w, f) PROVE TypeInv'
  BY <1>3 DEF QuarantinePart, ScanNext
<1>4. CASE RebuildManifest(w)
  BY <1>4 DEF RebuildManifest, Published
<1>5. CASE LoadKeys(w)
  BY <1>5 DEF LoadKeys
<1>6. CASE OpenFails(w)
  BY <1>6, LeaveType DEF OpenFails
<1> QED BY <1>1, <1>2, <1>3, <1>4, <1>5, <1>6 DEF Open

LEMMA AppendType == ASSUME TypeInv, NEW w \in Writer, Append(w) PROVE TypeInv'
<1> USE DEF TypeInv, TypeOK, HasFile, Opening, Publishing, disk, memory
<1>1. ASSUME NEW b \in Batch, RefuseAppend(w, b) PROVE TypeInv'
  BY <1>1 DEF RefuseAppend, Raise
<1>2. ASSUME NEW b \in Batch, NEW f \in File, NEW n \in 0..MaxNumber, WriteTemporary(w, b, f, n)
      PROVE TypeInv'
  BY <1>2, BatchAssumption DEF WriteTemporary
<1>3. CASE SyncTemporary(w)
  BY <1>3 DEF SyncTemporary
<1>4. CASE Verify(w)
  BY <1>4 DEF Verify
<1>5. CASE Publish(w)
  BY <1>5 DEF Publish
<1>6. CASE SyncDirectory(w)
  BY <1>6 DEF SyncDirectory, Published
<1>7. CASE AppendFails(w)
  BY <1>7, DropType DEF AppendFails, Raise
<1>8. CASE SyncDirectoryFails(w)
  BY <1>8 DEF SyncDirectoryFails, Raise
<1>9. CASE ListPart(w)
  BY <1>9 DEF ListPart
<1>10. CASE ListPartFails(w)
  BY <1>10 DEF ListPartFails, Raise
<1>11. CASE Return(w)
  BY <1>11 DEF Return
<1>12. CASE ReturnFails(w)
  BY <1>12 DEF ReturnFails, Raise
<1> QED BY <1>1, <1>2, <1>3, <1>4, <1>5, <1>6, <1>7, <1>8, <1>9, <1>10, <1>11, <1>12 DEF Append

LEMMA PowerLossType == ASSUME TypeInv, PowerLoss PROVE TypeInv'
<1> USE DEF TypeInv
<1>1. PICK lost \in SUBSET (Published \ durable) :
        LET gone == lost \cup {f \in File : place[f] = "tmp"} IN
        /\ DropTemporary(gone)
        /\ whole' = (whole \ (Published \ synced)) \cup gone
        /\ manifest' = manifest \ lost
        /\ ckpt' = ckpt \ lost
  BY DEF PowerLoss
<1> DEFINE gone == lost \cup {f \in File : place[f] = "tmp"}
<1>2. gone \in SUBSET File
  BY DEF Published
<1>3. DropTemporary(gone)
  BY <1>1
<1> QED BY <1>1, <1>2, <1>3, DropType DEF PowerLoss, TypeOK, HasFile, Opening, Publishing

LEMMA TypeStep == ASSUME TypeInv, [Next]_vars PROVE TypeInv'
<1>1. ASSUME NEW w \in Writer, Open(w) PROVE TypeInv'
  BY <1>1, OpenType
<1>2. ASSUME NEW w \in Writer, Append(w) PROVE TypeInv'
  BY <1>2, AppendType
<1>3. ASSUME NEW w \in Writer, Close(w) PROVE TypeInv'
  BY <1>3, LeaveType DEF Close, TypeInv, TypeOK, disk
<1>4. ASSUME NEW w \in Writer, Crash(w) PROVE TypeInv'
  <2>1. Temporary(w) \in SUBSET File
    BY DEF Temporary
  <2> QED BY <1>4, <2>1, LeaveType, DropType DEF Crash, TypeInv, TypeOK
<1>5. CASE PowerLoss
  BY <1>5, PowerLossType
<1>6. CASE UNCHANGED vars
  BY <1>6 DEF vars, disk, memory, TypeInv, TypeOK, HasFile
<1> QED BY <1>1, <1>2, <1>3, <1>4, <1>5, <1>6 DEF Next

\* The writer's state is always well typed (AppendOnlyPartWriter,
\* storage.py:225-401).
THEOREM TypeCorrect == Spec => []TypeOK
<1>1. Init => TypeInv
  BY TypeInit DEF TypeInv, HasFile, Init, Publishing
<1>2. TypeInv /\ [Next]_vars => TypeInv'
  BY TypeStep
<1> QED BY <1>1, <1>2, PTL DEF Spec, TypeInv

-----------------------------------------------------------------------------
(***************************************************************************)
(* UniqueKeys is not inductive: it needs to know what the writer inside    *)
(* the table believes at each step of __init__ and append.  Memory says    *)
(* that, and LoadKeys, WriteTemporary, ListPart and Return hand it on.     *)
(***************************************************************************)
KeysOf(files) == UNION {body[f] : f \in files}

\* What writer w knows of the directory, by where it is.
Memory(w) ==
  /\ pc[w] = "down" => parts[w] = {}
  /\ pc[w] = "scan" => /\ Published = scan[w] \cup parts[w]
                       /\ scan[w] \cap parts[w] = {}
  /\ pc[w] = "keys" => parts[w] = Published
  /\ pc[w] \in {"ready", "written", "synced", "verified", "listed"} => parts[w] = Published
  /\ pc[w] \in {"renamed", "durable"} => parts[w] = Published \ {file[w]}
  /\ pc[w] \in {"ready", "written", "synced", "verified"} => keys[w] = KeysOf(Published)
  /\ pc[w] \in {"renamed", "durable", "listed"} => keys[w] = KeysOf(Published \ {file[w]})
  /\ pc[w] \in {"keys", "ready", "written", "synced", "verified", "listed"} => manifest = Published
  /\ pc[w] \in {"written", "synced", "verified"} =>
       /\ place[file[w]] = "tmp"
       /\ body[file[w]] \cap keys[w] = {}
  /\ pc[w] \in {"renamed", "durable", "listed"} => place[file[w]] = "part"

SafeInv == TypeInv /\ OneWriter /\ UniqueKeys /\ (\A w \in Writer : Memory(w))

\* While one writer is inside the table no other is.
LEMMA Alone == ASSUME TypeInv, OneWriter, NEW w \in Writer, pc[w] # "down"
               PROVE  /\ lock = w
                      /\ \A v \in Writer : v # w => pc[v] = "down"
  BY DEF OneWriter

\* A step of w alone leaves the others out and, if it gives the lock away, so w.
LEMMA OthersDown ==
  ASSUME TypeInv, OneWriter, NEW w \in Writer, pc[w] # "down" \/ lock = NoWriter,
         NEW x, pc' = [pc EXCEPT ![w] = x],
         \A v \in Writer : v # w => parts'[v] = parts[v],
         x # "down" => lock' = w, TypeInv', \A v \in Writer : Memory(v), Memory(w)'
  PROVE  OneWriter' /\ \A v \in Writer : Memory(v)'
<1>1. \A v \in Writer : v # w => pc[v] = "down"
  BY NoneAssumption DEF OneWriter
<1>2. \A v \in Writer : v # w => pc'[v] = "down"
  BY <1>1 DEF TypeInv, TypeOK
<1>3. \A v \in Writer : v # w => Memory(v)'
  BY <1>1, <1>2 DEF Memory
<1> QED BY <1>2, <1>3 DEF OneWriter, TypeInv, TypeOK

LEMMA LeaveSafe == ASSUME SafeInv, NEW w \in Writer, pc[w] # "down", Leave(w), TypeInv'
                   PROVE  OneWriter' /\ \A v \in Writer : Memory(v)'
<1>1. pc'[w] = "down" /\ parts'[w] = {}
  BY DEF Leave, SafeInv, TypeInv, TypeOK
<1>2. Memory(w)'
  BY <1>1 DEF Memory
<1>3. \A v \in Writer : v # w => parts'[v] = parts[v]
  BY DEF Leave, SafeInv, TypeInv, TypeOK
<1>4. pc' = [pc EXCEPT ![w] = "down"]
  BY DEF Leave
<1> QED BY <1>2, <1>3, <1>4, OthersDown DEF SafeInv

LEMMA OpenSafe == ASSUME SafeInv, NEW w \in Writer, Open(w) PROVE SafeInv'
<1> USE DEF SafeInv
<1>0. TypeInv'
  BY OpenType
<1> USE DEF disk
<1>1. ASSUME NEW c \in Cut \cup {NoCut}, Acquire(w, c) PROVE SafeInv'
  <2>1. Memory(w)'
    <3>1. pc[w] = "down" /\ pc'[w] = "scan" /\ scan'[w] = Published /\ Published' = Published
      BY <1>1 DEF Acquire, Published, TypeInv, TypeOK
    <3> QED BY <1>1, <3>1 DEF Acquire, Memory
  <2>2. pc' = [pc EXCEPT ![w] = "scan"] /\ lock' = w
    BY <1>1 DEF Acquire
  <2> QED BY <1>0, <1>1, <2>1, <2>2, OthersDown DEF Acquire, UniqueKeys, Disjoint, Published
<1>2. ASSUME NEW f \in File, KeepPart(w, f) PROVE SafeInv'
  <2>1. Memory(w)'
    <3>1. /\ pc[w] = "scan" /\ pc'[w] = "scan" /\ f \in scan[w]
          /\ scan'[w] = scan[w] \ {f} /\ parts'[w] = parts[w] \cup {f}
          /\ Published' = Published
      BY <1>2 DEF KeepPart, ScanNext, Published, TypeInv, TypeOK
    <3>2. Memory(w)
      OBVIOUS
    <3> QED BY <3>1, <3>2 DEF Memory
  <2>2. pc' = [pc EXCEPT ![w] = "scan"] /\ lock' = w /\ \A v \in Writer : v # w => parts'[v] = parts[v]
    BY <1>2, Alone DEF KeepPart, ScanNext, TypeInv, TypeOK
  <2> QED BY <1>0, <1>2, <2>1, <2>2, OthersDown
          DEF KeepPart, ScanNext, UniqueKeys, Disjoint, Published
<1>3. ASSUME NEW f \in File, QuarantinePart(w, f) PROVE SafeInv'
  <2>1. Published' = Published \ {f}
    BY <1>3 DEF QuarantinePart, Published, TypeInv, TypeOK
  <2>2. Memory(w)'
    <3>1. /\ pc[w] = "scan" /\ pc'[w] = "scan" /\ f \in scan[w]
          /\ scan'[w] = scan[w] \ {f} /\ parts'[w] = parts[w]
      BY <1>3 DEF QuarantinePart, ScanNext, TypeInv, TypeOK
    <3>2. Memory(w)
      OBVIOUS
    <3> QED BY <2>1, <3>1, <3>2 DEF Memory
  <2>3. pc' = [pc EXCEPT ![w] = "scan"] /\ lock' = w
    BY <1>3, Alone DEF QuarantinePart, ScanNext, TypeInv, TypeOK
  <2> QED BY <1>0, <1>3, <2>1, <2>2, <2>3, OthersDown
          DEF QuarantinePart, ScanNext, UniqueKeys, Disjoint
<1>4. CASE RebuildManifest(w)
  <2>1. Memory(w)'
    <3>1. /\ pc[w] = "scan" /\ pc'[w] = "keys" /\ scan[w] = {}
          /\ parts'[w] = parts[w] /\ manifest' = parts[w]
          /\ Published' = Published
      BY <1>4 DEF RebuildManifest, Published, TypeInv, TypeOK
    <3>2. Memory(w)
      OBVIOUS
    <3> QED BY <3>1, <3>2 DEF Memory
  <2>2. lock' = w
    BY <1>4, Alone DEF RebuildManifest
  <2> QED BY <1>0, <1>4, <2>1, <2>2, OthersDown
          DEF RebuildManifest, UniqueKeys, Disjoint, Published
<1>5. CASE LoadKeys(w)
  <2>1. Memory(w)'
    <3>1. /\ pc[w] = "keys" /\ pc'[w] = "ready"
          /\ parts'[w] = parts[w] /\ manifest' = manifest
          /\ keys'[w] = KeysOf(parts[w])
          /\ Published' = Published /\ KeysOf(Published)' = KeysOf(Published)
      BY <1>5 DEF LoadKeys, KeysOf, Published, TypeInv, TypeOK
    <3>2. Memory(w)
      OBVIOUS
    <3> QED BY <3>1, <3>2 DEF Memory
  <2>2. lock' = w
    BY <1>5, Alone DEF LoadKeys
  <2> QED BY <1>0, <1>5, <2>1, <2>2, OthersDown
          DEF LoadKeys, UniqueKeys, Disjoint, Published
<1>6. CASE OpenFails(w)
  <2>1. pc[w] # "down"
    BY <1>6 DEF OpenFails, Opening
  <2> QED BY <1>0, <1>6, <2>1, LeaveSafe
          DEF OpenFails, UniqueKeys, Disjoint, Published
<1> QED BY <1>1, <1>2, <1>3, <1>4, <1>5, <1>6 DEF Open

\* The files published and their rows do not change: nor can UniqueKeys.
LEMMA SamePublished ==
  ASSUME TypeInv, UniqueKeys, place' = place, body' = body
  PROVE  /\ Published' = Published
         /\ UniqueKeys'
         /\ \A files \in SUBSET File : KeysOf(files)' = KeysOf(files)
  BY DEF UniqueKeys, Disjoint, Published, KeysOf

\* A temporary file comes or goes: the same holds.
LEMMA DropUnpublished ==
  ASSUME TypeInv, UniqueKeys, NEW gone \in SUBSET File,
         \A f \in gone : place[f] = "tmp", DropTemporary(gone)
  PROVE  Published' = Published /\ UniqueKeys'
<1>1. \A f \in Published : f \notin gone /\ body'[f] = body[f]
  BY DEF Published, DropTemporary
<1>2. Published' = Published
  BY <1>1 DEF Published, DropTemporary
<1> QED BY <1>1, <1>2 DEF UniqueKeys, Disjoint

LEMMA AppendSafe == ASSUME ~CallerRetries, SafeInv, NEW w \in Writer, Append(w) PROVE SafeInv'
<1> USE DEF SafeInv
<1>0. TypeInv' /\ Memory(w)
  BY AppendType
<1>1. ASSUME NEW b \in Batch, RefuseAppend(w, b) PROVE SafeInv'
  <2>1. pc[w] # "down" /\ pc'[w] = "failed" /\ pc' = [pc EXCEPT ![w] = "failed"] /\ parts' = parts /\ lock' = w
    BY <1>1, Alone DEF RefuseAppend, Raise, TypeInv, TypeOK
  <2>2. UniqueKeys'
    BY <1>1, SamePublished DEF RefuseAppend, disk
  <2>3. Memory(w)'
    BY <2>1 DEF Memory
  <2> QED BY <1>0, <2>1, <2>2, <2>3, OthersDown
<1>2. ASSUME NEW b \in Batch, NEW f \in File, NEW n \in 0..MaxNumber, WriteTemporary(w, b, f, n)
      PROVE SafeInv'
  <2>1. /\ pc[w] = "ready" /\ pc' = [pc EXCEPT ![w] = "written"] /\ pc'[w] = "written"
        /\ parts' = parts /\ keys' = keys /\ manifest' = manifest /\ lock' = w
        /\ file'[w] = f /\ place'[f] = "tmp" /\ body'[f] = b /\ b \cap keys[w] = {}
    BY <1>2, Alone, BatchAssumption DEF WriteTemporary, TypeInv, TypeOK
  <2>2. Published' = Published /\ \A g \in Published : body'[g] = body[g]
    BY <1>2, BatchAssumption DEF WriteTemporary, Published, TypeInv, TypeOK
  <2>3. UniqueKeys' /\ KeysOf(Published)' = KeysOf(Published)
    BY <2>2 DEF UniqueKeys, Disjoint, KeysOf
  <2>4. Memory(w)'
    BY <1>0, <2>1, <2>2, <2>3 DEF Memory
  <2> QED BY <1>0, <2>1, <2>3, <2>4, OthersDown
<1>3. CASE SyncTemporary(w)
  <2>1. /\ pc[w] = "written" /\ pc' = [pc EXCEPT ![w] = "synced"] /\ pc'[w] = "synced"
        /\ parts' = parts /\ keys' = keys /\ manifest' = manifest /\ file' = file /\ lock' = w
    BY <1>3, Alone DEF SyncTemporary, TypeInv, TypeOK
  <2>2. /\ place' = place /\ body' = body /\ UniqueKeys' /\ Published' = Published
        /\ KeysOf(Published)' = KeysOf(Published)
    BY <1>3, SamePublished DEF SyncTemporary, KeysOf
  <2>3. Memory(w)'
    BY <1>0, <2>1, <2>2 DEF Memory
  <2> QED BY <1>0, <2>1, <2>2, <2>3, OthersDown
<1>4. CASE Verify(w)
  <2>1. /\ pc[w] = "synced" /\ pc' = [pc EXCEPT ![w] = "verified"] /\ pc'[w] = "verified"
        /\ parts' = parts /\ keys' = keys /\ manifest' = manifest /\ file' = file /\ lock' = w
    BY <1>4, Alone DEF Verify, disk, TypeInv, TypeOK
  <2>2. /\ place' = place /\ body' = body /\ UniqueKeys' /\ Published' = Published
        /\ KeysOf(Published)' = KeysOf(Published)
    BY <1>4, SamePublished DEF Verify, disk, KeysOf
  <2>3. Memory(w)'
    BY <1>0, <2>1, <2>2 DEF Memory
  <2> QED BY <1>0, <2>1, <2>2, <2>3, OthersDown
<1>5. CASE Publish(w)
  <2> DEFINE f == file[w]
  <2>1. /\ pc[w] = "verified" /\ pc' = [pc EXCEPT ![w] = "renamed"] /\ pc'[w] = "renamed"
        /\ parts' = parts /\ keys' = keys /\ manifest' = manifest /\ file' = file /\ lock' = w
        /\ body' = body
    BY <1>5, Alone DEF Publish, TypeInv, TypeOK
  <2>2. f \in File /\ place[f] = "tmp" /\ place'[f] = "part" /\ body[f] \cap keys[w] = {}
    BY <1>0, <1>5, <2>1 DEF Publish, Memory, TypeInv, TypeOK, HasFile, Publishing
  <2>3. Published' = Published \cup {f} /\ f \notin Published
    BY <1>5, <2>2 DEF Publish, Published, TypeInv, TypeOK
  <2>4. parts[w] = Published /\ keys[w] = KeysOf(Published)
    BY <1>0, <2>1 DEF Memory
  <2>5. UniqueKeys'
    <3>1. \A g \in Published : body[f] \cap body[g] = {}
      BY <2>2, <2>4 DEF KeysOf
    <3> QED BY <2>1, <2>3, <3>1 DEF UniqueKeys, Disjoint
  <2>6. KeysOf(Published' \ {f}) = KeysOf(Published) /\ Published' \ {f} = Published
    BY <2>3 DEF KeysOf
  <2>7. KeysOf(Published \ {file[w]})' = KeysOf(Published)
    BY <2>1, <2>6 DEF KeysOf
  <2>8. Memory(w)'
    BY <2>1, <2>2, <2>4, <2>6, <2>7 DEF Memory
  <2> QED BY <1>0, <2>1, <2>5, <2>8, OthersDown
<1>6. CASE SyncDirectory(w)
  <2>1. /\ pc[w] = "renamed" /\ pc' = [pc EXCEPT ![w] = "durable"] /\ pc'[w] = "durable"
        /\ parts' = parts /\ keys' = keys /\ manifest' = manifest /\ file' = file /\ lock' = w
    BY <1>6, Alone DEF SyncDirectory, TypeInv, TypeOK
  <2>2. /\ place' = place /\ body' = body /\ UniqueKeys' /\ Published' = Published
        /\ KeysOf(Published \ {file[w]})' = KeysOf(Published \ {file[w]})
    BY <1>6, <2>1, SamePublished DEF SyncDirectory, KeysOf
  <2>3. Memory(w)'
    BY <1>0, <2>1, <2>2 DEF Memory
  <2> QED BY <1>0, <2>1, <2>2, <2>3, OthersDown
<1>7. CASE AppendFails(w)
  <2>1. /\ pc[w] \in {"written", "synced", "verified"}
        /\ pc' = [pc EXCEPT ![w] = "failed"] /\ pc'[w] = "failed" /\ parts' = parts /\ lock' = w
    BY <1>7, Alone DEF AppendFails, Raise, TypeInv, TypeOK
  <2>2. {file[w]} \in SUBSET File /\ \A f \in {file[w]} : place[f] = "tmp"
    BY <1>0, <2>1 DEF Memory, TypeInv, HasFile, Publishing
  <2>3. UniqueKeys'
    BY <1>7, <2>2, DropUnpublished DEF AppendFails
  <2>4. Memory(w)'
    BY <2>1 DEF Memory
  <2> QED BY <1>0, <2>1, <2>3, <2>4, OthersDown
<1>8. CASE SyncDirectoryFails(w)
  <2>1. pc[w] # "down" /\ pc'[w] = "failed" /\ pc' = [pc EXCEPT ![w] = "failed"] /\ parts' = parts /\ lock' = w
    BY <1>8, Alone DEF SyncDirectoryFails, Raise, TypeInv, TypeOK
  <2>2. UniqueKeys'
    BY <1>8, SamePublished DEF SyncDirectoryFails, disk
  <2>3. Memory(w)'
    BY <2>1 DEF Memory
  <2> QED BY <1>0, <2>1, <2>2, <2>3, OthersDown
<1>9. CASE ListPart(w)
  <2>1. /\ pc[w] = "durable" /\ pc' = [pc EXCEPT ![w] = "listed"] /\ pc'[w] = "listed"
        /\ parts'[w] = parts[w] \cup {file[w]} /\ manifest' = parts'[w]
        /\ keys' = keys /\ file' = file /\ lock' = w
        /\ \A v \in Writer : v # w => parts'[v] = parts[v]
    BY <1>9, Alone DEF ListPart, TypeInv, TypeOK
  <2>2. /\ place' = place /\ body' = body /\ UniqueKeys' /\ Published' = Published
        /\ KeysOf(Published \ {file[w]})' = KeysOf(Published \ {file[w]})
    BY <1>9, <2>1, SamePublished DEF ListPart, KeysOf
  <2>3. file[w] \in Published
    BY <1>0, <2>1 DEF Memory, Published, TypeInv, HasFile, Publishing
  <2>4. parts'[w] = Published
    BY <1>0, <2>1, <2>3 DEF Memory
  <2>5. Memory(w)'
    BY <1>0, <2>1, <2>2, <2>4 DEF Memory
  <2> QED BY <1>0, <2>1, <2>2, <2>5, OthersDown
<1>10. CASE ListPartFails(w)
  <2>1. /\ pc[w] # "down" /\ pc'[w] = "failed" /\ pc' = [pc EXCEPT ![w] = "failed"] /\ lock' = w
        /\ \A v \in Writer : v # w => parts'[v] = parts[v]
    BY <1>10, Alone DEF ListPartFails, Raise, TypeInv, TypeOK
  <2>2. UniqueKeys'
    BY <1>10, SamePublished DEF ListPartFails
  <2>3. Memory(w)'
    BY <2>1 DEF Memory
  <2> QED BY <1>0, <2>1, <2>2, <2>3, OthersDown
<1>11. CASE Return(w)
  <2>1. /\ pc[w] = "listed" /\ pc' = [pc EXCEPT ![w] = "ready"] /\ pc'[w] = "ready"
        /\ keys'[w] = keys[w] \cup body[file[w]]
        /\ parts' = parts /\ manifest' = manifest /\ lock' = w
    BY <1>11, Alone DEF Return, TypeInv, TypeOK
  <2>2. /\ place' = place /\ body' = body /\ UniqueKeys' /\ Published' = Published
        /\ KeysOf(Published)' = KeysOf(Published)
    BY <1>11, SamePublished DEF Return, KeysOf
  <2>3. file[w] \in Published
    BY <1>0, <2>1 DEF Memory, Published, TypeInv, HasFile, Publishing
  <2>4. keys'[w] = KeysOf(Published)
    BY <1>0, <2>1, <2>3 DEF Memory, KeysOf
  <2>5. Memory(w)'
    BY <1>0, <2>1, <2>2, <2>4 DEF Memory
  <2> QED BY <1>0, <2>1, <2>2, <2>5, OthersDown
<1>12. CASE ReturnFails(w)
  <2>1. pc[w] # "down" /\ pc'[w] = "failed" /\ pc' = [pc EXCEPT ![w] = "failed"] /\ parts' = parts /\ lock' = w
    BY <1>12, Alone DEF ReturnFails, Raise, TypeInv, TypeOK
  <2>2. UniqueKeys'
    BY <1>12, SamePublished DEF ReturnFails
  <2>3. Memory(w)'
    BY <2>1 DEF Memory
  <2> QED BY <1>0, <2>1, <2>2, <2>3, OthersDown
<1> QED BY <1>1, <1>2, <1>3, <1>4, <1>5, <1>6, <1>7, <1>8, <1>9, <1>10, <1>11, <1>12 DEF Append

LEMMA PowerLossSafe == ASSUME SafeInv, PowerLoss, TypeInv' PROVE SafeInv'
<1>1. \A w \in Writer : pc'[w] = "down" /\ parts'[w] = {}
  BY DEF PowerLoss
<1>2. UniqueKeys'
  <2>1. PICK lost \in SUBSET (Published \ durable) :
          DropTemporary(lost \cup {f \in File : place[f] = "tmp"})
    BY DEF PowerLoss
  <2>2. \A f \in Published' : f \in Published /\ body'[f] = body[f]
    BY <2>1 DEF Published, DropTemporary
  <2> QED BY <2>2 DEF SafeInv, UniqueKeys, Disjoint
<1> QED BY <1>1, <1>2 DEF SafeInv, OneWriter, Memory

LEMMA SafeStep == ASSUME ~CallerRetries, SafeInv, [Next]_vars PROVE SafeInv'
<1>0. TypeInv /\ UniqueKeys /\ TypeInv'
  BY TypeStep DEF SafeInv
<1>1. ASSUME NEW w \in Writer, Open(w) PROVE SafeInv'
  BY <1>1, OpenSafe
<1>2. ASSUME NEW w \in Writer, Append(w) PROVE SafeInv'
  BY <1>2, AppendSafe
<1>3. ASSUME NEW w \in Writer, Close(w) PROVE SafeInv'
  <2>1. UniqueKeys'
    BY <1>0, <1>3, SamePublished DEF Close, disk
  <2> QED BY <1>0, <1>3, <2>1, LeaveSafe DEF Close, SafeInv
<1>4. ASSUME NEW w \in Writer, Crash(w) PROVE SafeInv'
  <2>1. Temporary(w) \in SUBSET File /\ \A f \in Temporary(w) : place[f] = "tmp"
    BY DEF Temporary
  <2>2. UniqueKeys'
    BY <1>0, <1>4, <2>1, DropUnpublished DEF Crash
  <2> QED BY <1>0, <1>4, <2>2, LeaveSafe DEF Crash, SafeInv
<1>5. CASE PowerLoss
  BY <1>0, <1>5, PowerLossSafe
<1>6. CASE UNCHANGED vars
  <2>1. UniqueKeys' /\ Published' = Published
        /\ \A files \in SUBSET File : KeysOf(files)' = KeysOf(files)
    BY <1>0, <1>6, SamePublished DEF vars, disk
  <2>2. \A w \in Writer : Memory(w)'
    BY <1>6, <2>1 DEF vars, disk, memory, SafeInv, Memory, KeysOf
  <2>3. OneWriter'
    BY <1>6 DEF vars, memory, SafeInv, OneWriter
  <2> QED BY <1>0, <2>1, <2>2, <2>3 DEF SafeInv
<1> QED BY <1>1, <1>2, <1>3, <1>4, <1>5, <1>6 DEF Next

LEMMA SafeInit == Init => SafeInv
<1> SUFFICES ASSUME Init PROVE SafeInv
  OBVIOUS
<1>1. Published = {}
  BY DEF Init, Published
<1>2. TypeInv
  BY TypeInit DEF TypeInv, HasFile, Init, Publishing
<1>3. OneWriter /\ \A w \in Writer : Memory(w)
  BY DEF Init, OneWriter, Memory
<1> QED BY <1>1, <1>2, <1>3 DEF SafeInv, UniqueKeys, Disjoint

LEMMA WriterInv == ASSUME ~CallerRetries PROVE Spec => []SafeInv
<1>1. SafeInv /\ [Next]_vars => SafeInv'
  BY SafeStep
<1> QED BY SafeInit, <1>1, PTL DEF Spec

\* In a run that ends when an append raises, as the trainer's does, no primary
\* key is committed twice, whatever crashes, power failures, failed writes and
\* quarantines come between (storage.py:256-395).
THEOREM KeysAreUnique == ASSUME ~CallerRetries PROVE Spec => []UniqueKeys
<1>1. SafeInv => UniqueKeys BY DEF SafeInv
<1> QED BY WriterInv, <1>1, PTL

\* Only one writer is ever past the lock: the lock of a dead writer is free, and
\* one that is opening or appending keeps its own (storage.py:225-255).
THEOREM WritersExclude == ASSUME ~CallerRetries PROVE Spec => []OneWriter
<1>1. SafeInv => OneWriter BY DEF SafeInv
<1> QED BY WriterInv, <1>1, PTL

\* A writer that takes appends knows exactly what is committed: its keys, its
\* manifest and the directory agree (storage.py:256-395).
THEOREM ReadyMemory == ASSUME ~CallerRetries PROVE Spec => []ReadyIsExact
<1>1. SafeInv => ReadyIsExact BY DEF SafeInv, Memory, ReadyIsExact, KeysOf, PublishedKeys
<1> QED BY WriterInv, <1>1, PTL

-------------------------------------------------------------------------------
(* The part writer keeps the promise of PartLog: what is published is a log of
   whole batches, and what append has returned for outlives every crash and
   power failure. *)

\* What the append of writer w has secured, by where it is.
Secured(w) ==
  /\ pc[w] \in {"written", "synced", "verified"} => body[file[w]] \in Batch \ {{}}
  /\ pc[w] \in {"synced", "verified"} => file[w] \in synced
  /\ pc[w] \in {"verified", "renamed", "durable", "listed"} => file[w] \in whole
  /\ pc[w] \in {"durable", "listed"} => Published \subseteq durable

\* What was published once; what a power failure would leave of it.
Stored ==
  /\ \A f \in durable : place[f] \in {"part", "quarantine"}
  /\ \A f \in File : place[f] \in {"part", "quarantine"} => f \in synced
  /\ \A f \in Published : f \in whole /\ body[f] \in Batch \ {{}}
  /\ acked \subseteq Published \cap durable
  /\ ckpt \subseteq durable

DurInv == SafeInv /\ Stored /\ \A w \in Writer : Secured(w)

\* The state of PartLog.
Rows(files) == {body[f] : f \in files}
LogOf == Rows(Published)
AckedOf == Rows(acked)

-------------------------------------------------------------------------------
LEMMA InitDur == Init => DurInv
<1> SUFFICES ASSUME Init PROVE DurInv
  OBVIOUS
<1>1. Published = {} BY DEF Init, Published
<1>2. Stored BY <1>1 DEF Init, Stored
<1>3. \A w \in Writer : Secured(w) BY DEF Init, Secured
<1> QED BY <1>2, <1>3, SafeInit DEF DurInv

\* Different published files have different rows.
LEMMA Different ==
  ASSUME DurInv, NEW f \in Published, NEW g \in Published, f # g
  PROVE  body[f] # body[g]
BY DEF DurInv, SafeInv, UniqueKeys, Disjoint, Stored

LEMMA Without ==
  ASSUME DurInv, NEW gone, gone \subseteq Published, NEW files, files \subseteq Published
  PROVE  Rows(files \ gone) = Rows(files) \ Rows(gone)
<1>1. \A f \in files \ gone : body[f] \notin Rows(gone) BY Different DEF Rows
<1> QED BY <1>1 DEF Rows

\* Only the writer inside the table has anything to secure.
LEMMA OthersSecured ==
  ASSUME SafeInv, SafeInv', NEW w \in Writer, pc[w] # "down" \/ lock = NoWriter,
         \A v \in Writer : v # w => pc'[v] = pc[v], Secured(w)'
  PROVE  \A v \in Writer : Secured(v)'
<1> SUFFICES ASSUME NEW v \in Writer, v # w PROVE Secured(v)'
  OBVIOUS
<1>1. pc[v] = "down" BY NoneAssumption DEF SafeInv, OneWriter
<1> QED BY <1>1 DEF Secured

\* A step that publishes nothing and removes nothing: it may secure more.
LEMMA Secures ==
  ASSUME DurInv, SafeInv', NEW w \in Writer, pc[w] # "down" \/ lock = NoWriter,
         \A v \in Writer : v # w => pc'[v] = pc[v],
         place' = place, body' = body, synced \subseteq synced', whole \subseteq whole',
         durable \subseteq durable', durable' \subseteq durable \cup Published,
         acked \subseteq acked', acked' \subseteq Published \cap durable', ckpt' \subseteq durable',
         Secured(w)'
  PROVE  DurInv' /\ Published' = Published /\ LogOf' = LogOf
<1>1. Published' = Published BY DEF Published
<1>2. \A f \in durable' : place'[f] \in {"part", "quarantine"} BY DEF DurInv, Stored, Published
<1>3. Stored' BY <1>1, <1>2 DEF DurInv, Stored
<1>4. \A v \in Writer : Secured(v)' BY OthersSecured DEF DurInv
<1> QED BY <1>1, <1>3, <1>4 DEF DurInv, LogOf, Rows

\* A temporary file goes.
LEMMA Drops ==
  ASSUME DurInv, SafeInv', NEW w \in Writer, pc[w] # "down",
         \A v \in Writer : v # w => pc'[v] = pc[v],
         NEW gone \in SUBSET File, \A f \in gone : place[f] = "tmp",
         DropTemporary(gone), whole' = whole \cup gone, durable' = durable, acked' = acked, ckpt' = ckpt,
         pc'[w] \in {"down", "failed"}
  PROVE  DurInv' /\ LogOf' = LogOf /\ AckedOf' = AckedOf
<1>1. \A f \in File \ gone : place'[f] = place[f] /\ body'[f] = body[f] BY DEF DropTemporary
<1>2. \A f \in gone : place'[f] = "none" BY DEF DropTemporary
<1>3. Published' = Published BY <1>1, <1>2 DEF Published
<1>4. \A f \in Published : f \notin gone /\ body'[f] = body[f] BY <1>1 DEF Published
<1>5. durable \subseteq File BY DEF DurInv, SafeInv, TypeInv, TypeOK
<1>6. \A f \in durable : f \notin gone BY DEF DurInv, Stored
<1>7. Stored'
  <2>1. \A f \in durable' : place'[f] \in {"part", "quarantine"} BY <1>1, <1>5, <1>6 DEF DurInv, Stored
  <2>2. \A f \in File : place'[f] \in {"part", "quarantine"} => f \in synced'
    BY <1>1, <1>2 DEF DurInv, Stored, DropTemporary
  <2>3. \A f \in Published' : f \in whole' /\ body'[f] \in Batch \ {{}}
    BY <1>3, <1>4 DEF DurInv, Stored
  <2> QED BY <1>3, <2>1, <2>2, <2>3 DEF DurInv, Stored
<1>8. Secured(w)' BY DEF Secured
<1>9. \A v \in Writer : Secured(v)' BY <1>8, OthersSecured DEF DurInv
<1>10. LogOf' = LogOf BY <1>3, <1>4 DEF LogOf, Rows
<1>11. AckedOf' = AckedOf BY <1>4 DEF AckedOf, Rows, DurInv, Stored
<1> QED BY <1>7, <1>9, <1>10, <1>11 DEF DurInv

-------------------------------------------------------------------------------
(* Every step is a step of PartLog or none *)

LogStep == Log!LogNext \/ (LogOf' = LogOf /\ AckedOf' = AckedOf)

LEMMA QuarantineDur ==
  ASSUME DurInv, SafeInv', NEW w \in Writer, NEW f \in File, QuarantinePart(w, f)
  PROVE  DurInv' /\ Log!LogNext
<1>1. /\ f \in Published /\ pc[w] = "scan" /\ pc' = pc /\ body' = body
      /\ place' = [place EXCEPT ![f] = "quarantine"] /\ acked' = acked \ {f}
      /\ UNCHANGED <<whole, synced, durable, ckpt>>
  BY DEF QuarantinePart, ScanNext, DurInv, SafeInv, Memory
<1>2. Published' = Published \ {f} BY <1>1 DEF Published, DurInv, SafeInv, TypeInv, TypeOK
<1>3. /\ \A g \in File \ {f} : place'[g] = place[g]
      /\ place'[f] = "quarantine" /\ place[f] = "part"
  BY <1>1 DEF Published, DurInv, SafeInv, TypeInv, TypeOK
<1>4. Stored'
  <2>1. \A g \in durable' : place'[g] \in {"part", "quarantine"}
    BY <1>1, <1>3 DEF DurInv, Stored, SafeInv, TypeInv, TypeOK
  <2>2. \A g \in File : place'[g] \in {"part", "quarantine"} => g \in synced'
    BY <1>1, <1>3 DEF DurInv, Stored
  <2> QED BY <1>1, <1>2, <2>1, <2>2 DEF DurInv, Stored
<1>5. Secured(w)' BY <1>1 DEF Secured
<1>6. \A v \in Writer : Secured(v)' BY <1>1, <1>5, OthersSecured DEF DurInv
<1>7. LogOf' = LogOf \ {body[f]} /\ AckedOf' = AckedOf \ {body[f]} /\ body[f] \in LogOf
  <2>1. Rows(Published \ {f}) = Rows(Published) \ Rows({f}) BY <1>1, Without
  <2>2. Rows(acked \ {f}) = Rows(acked) \ Rows({f}) BY <1>1, Without DEF DurInv, Stored
  <2>3. Rows({f}) = {body[f]} BY DEF Rows
  <2>4. \A files : Rows(files)' = {body[g] : g \in files'} BY <1>1 DEF Rows
  <2> QED BY <1>1, <1>2, <2>1, <2>2, <2>3 DEF LogOf, AckedOf, Rows
<1>8. f \in whole BY <1>1 DEF DurInv, Stored
<1>9. CASE Future(f, cut[w])
  <2>1. cut[w] \in Cut /\ \E k \in body[f] : StepOf[k] > cut[w]
    BY <1>9 DEF Future, DurInv, SafeInv, TypeInv, TypeOK
  <2>2. Log!CutOff BY <1>7, <2>1 DEF Log!CutOff, LogOf, AckedOf, Rows
  <2> QED BY <1>4, <1>6, <2>2 DEF DurInv, Log!LogNext
<1>10. CASE ReadsFail
  <2>1. Log!Discard BY <1>7, <1>10 DEF Log!Discard, LogOf, AckedOf, Rows
  <2> QED BY <1>4, <1>6, <2>1 DEF DurInv, Log!LogNext
<1> QED BY <1>8, <1>9, <1>10 DEF QuarantinePart

LEMMA OpenDur == ASSUME DurInv, SafeInv', NEW w \in Writer, Open(w) PROVE DurInv' /\ LogStep
<1> USE DEF disk, LogStep
<1>0. /\ pc \in [Writer -> {"down", "ready", "failed"} \cup Opening \cup Publishing]
      /\ acked \subseteq Published \cap durable /\ ckpt \subseteq durable
  BY DEF DurInv, SafeInv, TypeInv, TypeOK, Stored
<1>1. ASSUME NEW c \in Cut \cup {NoCut}, Acquire(w, c) PROVE DurInv' /\ LogStep
  <2>1. pc'[w] = "scan" /\ \A v \in Writer : v # w => pc'[v] = pc[v] BY <1>0, <1>1 DEF Acquire
  <2>2. Secured(w)' BY <2>1 DEF Secured
  <2> QED BY <1>0, <1>1, <2>1, <2>2, Secures DEF Acquire, AckedOf, Rows
<1>2. ASSUME NEW f \in File, KeepPart(w, f) PROVE DurInv' /\ LogStep
  <2>1. Secured(w)' BY <1>2 DEF KeepPart, ScanNext, Secured
  <2> QED BY <1>0, <1>2, <2>1, Secures DEF KeepPart, ScanNext, AckedOf, Rows
<1>3. ASSUME NEW f \in File, QuarantinePart(w, f) PROVE DurInv' /\ LogStep
  BY <1>3, QuarantineDur
<1>4. CASE RebuildManifest(w)
  <2>1. pc[w] = "scan" /\ pc'[w] = "keys" /\ \A v \in Writer : v # w => pc'[v] = pc[v]
    BY <1>0, <1>4 DEF RebuildManifest
  <2>2. Secured(w)' BY <2>1 DEF Secured
  <2> QED BY <1>0, <1>4, <2>1, <2>2, Secures DEF RebuildManifest, AckedOf, Rows
<1>5. CASE LoadKeys(w)
  <2>1. pc[w] = "keys" /\ pc'[w] = "ready" /\ \A v \in Writer : v # w => pc'[v] = pc[v]
    BY <1>0, <1>5 DEF LoadKeys
  <2>2. Secured(w)' BY <2>1 DEF Secured
  <2> QED BY <1>0, <1>5, <2>1, <2>2, Secures DEF LoadKeys, AckedOf, Rows
<1>6. CASE OpenFails(w)
  <2>1. pc[w] # "down" /\ pc'[w] = "down" /\ \A v \in Writer : v # w => pc'[v] = pc[v]
    BY <1>0, <1>6 DEF OpenFails, Leave, Opening
  <2>2. Secured(w)' BY <2>1 DEF Secured
  <2> QED BY <1>0, <1>6, <2>1, <2>2, Secures DEF OpenFails, AckedOf, Rows
<1> QED BY <1>1, <1>2, <1>3, <1>4, <1>5, <1>6 DEF Open

\* The rename commits the batch.
LEMMA PublishDur ==
  ASSUME DurInv, SafeInv', NEW w \in Writer, Publish(w)
  PROVE  DurInv' /\ Log!Commit
<1> DEFINE f == file[w]
           b == body[f]
<1>1. /\ pc[w] = "verified" /\ f \in File /\ place' = [place EXCEPT ![f] = "part"]
      /\ pc' = [pc EXCEPT ![w] = "renamed"] /\ file' = file
      /\ UNCHANGED <<body, whole, synced, durable, ckpt, acked>>
  BY DEF Publish, DurInv, SafeInv, TypeInv, HasFile, Publishing
<1>2. place[f] = "tmp" /\ f \in whole /\ f \in synced /\ b \in Batch \ {{}}
  BY <1>1 DEF DurInv, SafeInv, Memory, Secured
<1>3. /\ \A g \in File \ {f} : place'[g] = place[g]
      /\ place'[f] = "part" /\ pc'[w] = "renamed" /\ \A v \in Writer : v # w => pc'[v] = pc[v]
  BY <1>1 DEF DurInv, SafeInv, TypeInv, TypeOK
<1> HIDE DEF f, b
<1>4. Published' = Published \cup {f} BY <1>1, <1>3 DEF Published
<1>5. Stored'
  <2>1. \A g \in durable' : place'[g] \in {"part", "quarantine"}
    BY <1>1, <1>3 DEF DurInv, Stored, SafeInv, TypeInv, TypeOK
  <2>2. \A g \in File : place'[g] \in {"part", "quarantine"} => g \in synced'
    BY <1>1, <1>2, <1>3 DEF DurInv, Stored
  <2>3. \A g \in Published' : g \in whole' /\ body'[g] \in Batch \ {{}}
    BY <1>1, <1>2, <1>4 DEF DurInv, Stored, b
  <2> QED BY <1>1, <1>4, <2>1, <2>2, <2>3 DEF DurInv, Stored
<1>6. Secured(w)' BY <1>1, <1>2, <1>3 DEF Secured, f
<1>7. \A v \in Writer : Secured(v)' BY <1>1, <1>3, <1>6, OthersSecured DEF DurInv
<1>8. \A c \in LogOf : b \cap c = {}
  <2>1. b \cap keys[w] = {} /\ keys[w] = KeysOf(Published)
    BY <1>1 DEF DurInv, SafeInv, Memory, b, f
  <2> QED BY <2>1 DEF LogOf, Rows, KeysOf
<1>9. LogOf' = LogOf \cup {b} /\ AckedOf' = AckedOf
  BY <1>1, <1>4 DEF LogOf, AckedOf, Rows, b
<1>10. Log!Commit BY <1>2, <1>8, <1>9 DEF Log!Commit, LogOf, AckedOf, Rows
<1> QED BY <1>5, <1>7, <1>10 DEF DurInv

LEMMA WriteDur ==
  ASSUME DurInv, SafeInv', NEW w \in Writer, NEW b \in Batch, NEW f \in File, NEW n \in 0 .. MaxNumber,
         WriteTemporary(w, b, f, n)
  PROVE  DurInv' /\ LogOf' = LogOf /\ AckedOf' = AckedOf
<1>1. /\ pc[w] = "ready" /\ place[f] = "none" /\ b # {}
      /\ place' = [place EXCEPT ![f] = "tmp"] /\ body' = [body EXCEPT ![f] = b]
      /\ whole \ {f} \subseteq whole' /\ file'[w] = f
      /\ pc'[w] = "written" /\ \A v \in Writer : v # w => pc'[v] = pc[v]
      /\ UNCHANGED <<synced, durable, ckpt, acked>>
  BY DEF WriteTemporary, DurInv, SafeInv, TypeInv, TypeOK
<1>2. /\ \A g \in File \ {f} : place'[g] = place[g] /\ body'[g] = body[g]
      /\ place'[f] = "tmp" /\ body'[f] = b
  BY <1>1 DEF DurInv, SafeInv, TypeInv, TypeOK
<1>3. Published' = Published /\ f \notin Published BY <1>1, <1>2 DEF Published
<1>4. \A g \in Published : body'[g] = body[g] BY <1>2, <1>3 DEF Published
<1>5. Stored'
  <2>1. \A g \in durable' : place'[g] \in {"part", "quarantine"}
    BY <1>1, <1>2 DEF DurInv, Stored, SafeInv, TypeInv, TypeOK
  <2>2. \A g \in File : place'[g] \in {"part", "quarantine"} => g \in synced'
    BY <1>1, <1>2 DEF DurInv, Stored
  <2> QED BY <1>1, <1>3, <1>4, <2>1, <2>2 DEF DurInv, Stored
<1>6. Secured(w)' BY <1>1, <1>2 DEF Secured
<1>7. \A v \in Writer : Secured(v)' BY <1>1, <1>6, OthersSecured DEF DurInv
<1>8. LogOf' = LogOf /\ AckedOf' = AckedOf
  BY <1>1, <1>3, <1>4 DEF LogOf, AckedOf, Rows, DurInv, Stored
<1> QED BY <1>5, <1>7, <1>8 DEF DurInv

\* append returns: the caller now relies on a batch that is durable.
LEMMA ReturnDur ==
  ASSUME DurInv, SafeInv', NEW w \in Writer, Return(w)
  PROVE  DurInv' /\ Log!Return
<1>1. /\ pc[w] = "listed" /\ pc'[w] = "ready" /\ \A v \in Writer : v # w => pc'[v] = pc[v]
      /\ ckpt' = parts[w] /\ acked' = acked \cup {file[w]}
      /\ UNCHANGED <<place, body, whole, synced, durable>>
  BY DEF Return, DurInv, SafeInv, TypeInv, TypeOK
<1>2. /\ parts[w] = Published /\ Published \subseteq durable /\ file[w] \in Published
  BY <1>1 DEF DurInv, SafeInv, TypeInv, HasFile, Publishing, Memory, Secured, Published
<1>3. Secured(w)' BY <1>1 DEF Secured
<1>4. DurInv' /\ LogOf' = LogOf BY <1>1, <1>2, <1>3, Secures DEF DurInv, Stored
<1>5. AckedOf' = AckedOf \cup {body[file[w]]} BY <1>1 DEF AckedOf, Rows
<1>6. Log!Return BY <1>2, <1>4, <1>5 DEF Log!Return, LogOf, AckedOf, Rows
<1> QED BY <1>4, <1>6

LEMMA AppendDur ==
  ASSUME ~CallerRetries, DurInv, SafeInv', NEW w \in Writer, Append(w)
  PROVE  DurInv' /\ LogStep
<1> USE DEF disk, LogStep
<1>0. /\ pc \in [Writer -> {"down", "ready", "failed"} \cup Opening \cup Publishing]
      /\ acked \subseteq Published \cap durable /\ ckpt \subseteq durable
      /\ Secured(w) /\ Memory(w)
  BY DEF DurInv, SafeInv, TypeInv, TypeOK, Stored
<1>1. ASSUME pc' = [pc EXCEPT ![w] = "failed"], pc[w] # "down", place' = place, body' = body,
             UNCHANGED <<whole, synced, durable, acked>>, ckpt' \subseteq durable
      PROVE  DurInv' /\ LogStep
  <2>1. pc'[w] = "failed" /\ \A v \in Writer : v # w => pc'[v] = pc[v] BY <1>0, <1>1
  <2>2. Secured(w)' BY <2>1 DEF Secured
  <2> QED BY <1>0, <1>1, <2>1, <2>2, Secures DEF AckedOf, Rows
<1>2. ASSUME NEW b \in Batch, RefuseAppend(w, b) PROVE DurInv' /\ LogStep
  BY <1>0, <1>1, <1>2 DEF RefuseAppend, Raise
<1>3. ASSUME NEW b \in Batch, NEW f \in File, NEW n \in 0 .. MaxNumber, WriteTemporary(w, b, f, n)
      PROVE  DurInv' /\ LogStep
  BY <1>3, WriteDur
<1>4. CASE SyncTemporary(w)
  <2>1. /\ pc[w] = "written" /\ pc'[w] = "synced" /\ \A v \in Writer : v # w => pc'[v] = pc[v]
        /\ synced' = synced \cup {file[w]} /\ UNCHANGED <<place, body, whole, durable, ckpt, acked, file>>
    BY <1>0, <1>4 DEF SyncTemporary
  <2>2. Secured(w)' BY <1>0, <2>1 DEF Secured
  <2> QED BY <1>0, <2>1, <2>2, Secures DEF AckedOf, Rows
<1>5. CASE Verify(w)
  <2>1. /\ pc[w] = "synced" /\ pc'[w] = "verified" /\ \A v \in Writer : v # w => pc'[v] = pc[v]
        /\ file[w] \in whole /\ UNCHANGED <<disk, acked, file>>
    BY <1>0, <1>5 DEF Verify
  <2>2. Secured(w)' BY <1>0, <2>1 DEF Secured
  <2> QED BY <1>0, <2>1, <2>2, Secures DEF AckedOf, Rows
<1>6. CASE Publish(w) BY <1>6, PublishDur DEF Log!LogNext
<1>7. CASE SyncDirectory(w)
  <2>1. /\ pc[w] = "renamed" /\ pc'[w] = "durable" /\ \A v \in Writer : v # w => pc'[v] = pc[v]
        /\ durable' = durable \cup Published /\ Published' = Published
        /\ UNCHANGED <<place, body, whole, synced, ckpt, acked, file>>
    BY <1>0, <1>7 DEF SyncDirectory, Published
  <2>2. Secured(w)' BY <1>0, <2>1 DEF Secured
  <2> QED BY <1>0, <2>1, <2>2, Secures DEF AckedOf, Rows
<1>8. CASE AppendFails(w)
  <2>1. /\ pc[w] \in {"written", "synced", "verified"} /\ pc' = [pc EXCEPT ![w] = "failed"]
        /\ DropTemporary({file[w]}) /\ whole' = whole \cup {file[w]}
        /\ UNCHANGED <<durable, ckpt, acked>>
    BY <1>8 DEF AppendFails, Raise
  <2>2. pc'[w] = "failed" /\ \A v \in Writer : v # w => pc'[v] = pc[v] BY <1>0, <2>1
  <2>3. file[w] \in File /\ place[file[w]] = "tmp"
    BY <1>0, <2>1 DEF Memory, DurInv, SafeInv, TypeInv, HasFile, Publishing
  <2> QED BY <2>1, <2>2, <2>3, Drops
<1>9. CASE SyncDirectoryFails(w) BY <1>0, <1>1, <1>9 DEF SyncDirectoryFails, Raise
<1>10. CASE ListPart(w)
  <2>1. /\ pc[w] = "durable" /\ pc'[w] = "listed" /\ \A v \in Writer : v # w => pc'[v] = pc[v]
        /\ Published' = Published /\ UNCHANGED <<place, body, whole, synced, durable, ckpt, acked, file>>
    BY <1>0, <1>10 DEF ListPart, Published
  <2>2. Secured(w)' BY <1>0, <2>1 DEF Secured
  <2> QED BY <1>0, <2>1, <2>2, Secures DEF AckedOf, Rows
<1>11. CASE ListPartFails(w) BY <1>0, <1>1, <1>11 DEF ListPartFails, Raise
<1>12. CASE Return(w) BY <1>12, ReturnDur DEF Log!LogNext
<1>13. CASE ReturnFails(w)
  <2>1. ckpt' \subseteq durable
    BY <1>0, <1>13 DEF ReturnFails, Memory, Secured
  <2> QED BY <1>0, <1>1, <1>13, <2>1 DEF ReturnFails, Raise
<1> QED BY <1>2, <1>3, <1>4, <1>5, <1>6, <1>7, <1>8, <1>9, <1>10, <1>11, <1>12, <1>13 DEF Append

\* A power failure takes back what has not been acknowledged, and tears nothing.
LEMMA PowerLossDur == ASSUME DurInv, SafeInv', PowerLoss PROVE DurInv' /\ Log!Forget
<1>1. PICK lost \in SUBSET (Published \ durable) :
        LET gone == lost \cup {f \in File : place[f] = "tmp"} IN
        /\ DropTemporary(gone)
        /\ whole' = (whole \ (Published \ synced)) \cup gone
        /\ manifest' = manifest \ lost
        /\ ckpt' = ckpt \ lost
  BY DEF PowerLoss
<1> DEFINE gone == lost \cup {f \in File : place[f] = "tmp"}
<1>2. DropTemporary(gone) /\ UNCHANGED <<durable, acked>> /\ PowerFails
      /\ pc' = [w \in Writer |-> "down"] BY <1>1 DEF PowerLoss
<1>3. Published \subseteq synced BY DEF DurInv, Stored, Published
<1>4. whole \subseteq whole' BY <1>1, <1>3
<1>5. /\ \A f \in File \ gone : place'[f] = place[f] /\ body'[f] = body[f]
      /\ \A f \in File \cap gone : place'[f] = "none"
      /\ synced' = synced \ gone
  BY <1>2 DEF DropTemporary
<1>6. Published' = Published \ lost BY <1>5 DEF Published
<1>7. \A f \in Published \ lost : f \notin gone /\ body'[f] = body[f] BY <1>5 DEF Published
<1>8. durable \subseteq File /\ \A f \in durable : f \notin gone
  BY DEF DurInv, Stored, SafeInv, TypeInv, TypeOK
<1> HIDE DEF gone
<1>9. Stored'
  <2>1. \A f \in durable' : place'[f] \in {"part", "quarantine"} BY <1>2, <1>5, <1>8 DEF DurInv, Stored
  <2>2. \A f \in File : place'[f] \in {"part", "quarantine"} => f \in synced'
    BY <1>5 DEF DurInv, Stored
  <2>3. \A f \in Published' : f \in whole' /\ body'[f] \in Batch \ {{}}
    BY <1>4, <1>6, <1>7 DEF DurInv, Stored
  <2>4. acked' \subseteq Published' \cap durable' /\ ckpt' \subseteq durable'
    BY <1>1, <1>2, <1>6 DEF DurInv, Stored
  <2> QED BY <2>1, <2>2, <2>3, <2>4 DEF Stored
<1>10. \A v \in Writer : Secured(v)' BY <1>2 DEF Secured
<1>11. LogOf' = LogOf \ Rows(lost)
  <2>1. Rows(Published \ lost) = Rows(Published) \ Rows(lost) BY Without
  <2>2. Rows(Published)' = Rows(Published \ lost) BY <1>6, <1>7 DEF Rows
  <2> QED BY <2>1, <2>2 DEF LogOf
<1>12. AckedOf' = AckedOf
  <2>1. \A f \in acked : f \in Published \ lost BY DEF DurInv, Stored
  <2> QED BY <1>2, <1>7, <2>1 DEF AckedOf, Rows
<1>13. Rows(lost) \in SUBSET (LogOf \ AckedOf)
  <2>1. \A f \in lost, g \in acked : body[f] # body[g] BY Different DEF DurInv, Stored
  <2> QED BY <2>1 DEF Rows, LogOf, AckedOf
<1>14. Log!Forget BY <1>2, <1>11, <1>12, <1>13 DEF Log!Forget, LogOf, AckedOf, Rows
<1> QED BY <1>9, <1>10, <1>14 DEF DurInv

LEMMA NextDur == ASSUME ~CallerRetries, DurInv, [Next]_vars PROVE DurInv' /\ LogStep
<1>0. SafeInv' /\ pc \in [Writer -> {"down", "ready", "failed"} \cup Opening \cup Publishing]
  BY SafeStep DEF DurInv, SafeInv, TypeInv, TypeOK
<1>1. ASSUME NEW w \in Writer, Open(w) PROVE DurInv' /\ LogStep BY <1>0, <1>1, OpenDur
<1>2. ASSUME NEW w \in Writer, Append(w) PROVE DurInv' /\ LogStep BY <1>0, <1>2, AppendDur
<1>3. ASSUME NEW w \in Writer, Close(w) PROVE DurInv' /\ LogStep
  <2>1. pc[w] # "down" /\ pc'[w] = "down" /\ \A v \in Writer : v # w => pc'[v] = pc[v]
    BY <1>0, <1>3 DEF Close, Leave
  <2>2. Secured(w)' BY <2>1 DEF Secured
  <2> QED BY <1>0, <1>3, <2>1, <2>2, Secures DEF Close, disk, DurInv, Stored, LogStep, AckedOf, Rows
<1>4. ASSUME NEW w \in Writer, Crash(w) PROVE DurInv' /\ LogStep
  <2>1. pc[w] # "down" /\ pc'[w] = "down" /\ \A v \in Writer : v # w => pc'[v] = pc[v]
    BY <1>0, <1>4 DEF Crash, Leave
  <2>2. Temporary(w) \in SUBSET File /\ \A f \in Temporary(w) : place[f] = "tmp" BY DEF Temporary
  <2> QED BY <1>0, <1>4, <2>1, <2>2, Drops DEF Crash, LogStep
<1>5. CASE PowerLoss BY <1>0, <1>5, PowerLossDur DEF LogStep, Log!LogNext
<1>6. CASE UNCHANGED vars
  <2>1. Stored' BY <1>6 DEF vars, disk, DurInv, Stored, Published
  <2>2. \A w \in Writer : Secured(w)' BY <1>6 DEF vars, disk, memory, DurInv, Secured, Published
  <2>3. LogOf' = LogOf /\ AckedOf' = AckedOf BY <1>6 DEF vars, disk, LogOf, AckedOf, Rows, Published
  <2> QED BY <1>0, <2>1, <2>2, <2>3 DEF DurInv, LogStep
<1> QED BY <1>1, <1>2, <1>3, <1>4, <1>5, <1>6 DEF Next

-------------------------------------------------------------------------------
\* What append has returned for, and what the writer checkpoint counts, is on
\* disk to stay: fsynced with its directory entry before append says so
\* (storage.py:365-395).
THEOREM Durable == ASSUME ~CallerRetries PROVE Spec => []CommittedIsDurable
<1>1. ASSUME DurInv PROVE CommittedIsDurable
  <2>1. \A f \in durable : f \in File /\ f \in synced
    BY <1>1 DEF DurInv, Stored, SafeInv, TypeInv, TypeOK
  <2> QED BY <1>1, <2>1 DEF CommittedIsDurable, DurInv, Stored
<1>2. ASSUME DurInv, [Next]_vars PROVE DurInv' BY <1>2, NextDur
<1> QED BY <1>1, <1>2, InitDur, PTL DEF Spec

\* Any number of writers with whatever crashes, failures and power losses are
\* to their readers the log that PartLog describes (storage.py:225-401).
THEOREM WriterIsALog == ASSUME ~CallerRetries PROVE Spec => ImplementsLog
<1>1. Init => Log!LogInit
  <2> SUFFICES ASSUME Init PROVE Log!LogInit
    OBVIOUS
  <2>1. Published = {} /\ acked = {} BY DEF Init, Published
  <2> QED BY <2>1 DEF Log!LogInit
<1>2. ASSUME DurInv, [Next]_vars PROVE DurInv' /\ [Log!LogNext]_(Log!logVars)
  BY <1>2, NextDur DEF LogStep, Log!logVars, LogOf, AckedOf, Rows
<1> QED BY <1>1, <1>2, InitDur, PTL DEF Spec, ImplementsLog, Log!LogSpec
-------------------------------------------------------------------------------
(* Part numbers: the next one comes from the parts in memory, which between the
   open and the rename are all that is published. *)

Writing == {"written", "synced", "verified"}
Numbered ==
  /\ NumbersUnique
  /\ \A w \in Writer : pc[w] \in Writing => \A f \in Published : number[f] < number[file[w]]

\* Parts go, and writers finish or go on with the file they have.
LEMMA FewerNumbered ==
  ASSUME Numbered, Published' \subseteq Published, \A f \in Published' : number'[f] = number[f],
         \A w \in Writer : pc'[w] \in Writing =>
           pc[w] \in Writing /\ file'[w] = file[w] /\ number'[file[w]] = number[file[w]]
  PROVE  Numbered'
BY DEF Numbered, NumbersUnique

LEMMA OpenNumbered == ASSUME SafeInv, Numbered, NEW w \in Writer, Open(w) PROVE Numbered'
<1>1. TypeInv /\ number' = number
  BY DEF SafeInv, Open, Acquire, KeepPart, QuarantinePart, RebuildManifest, LoadKeys, OpenFails, disk
<1>2. Published' \subseteq Published
  BY DEF Open, Acquire, KeepPart, QuarantinePart, RebuildManifest, LoadKeys, OpenFails, disk, Published,
         SafeInv, TypeInv, TypeOK
<1>3. \A v \in Writer : v # w => pc'[v] = pc[v] /\ file'[v] = file[v]
  BY <1>1 DEF Open, Acquire, KeepPart, QuarantinePart, RebuildManifest, LoadKeys, OpenFails, disk, Leave,
         TypeInv, TypeOK
<1>4. pc'[w] \notin Writing
  BY <1>1 DEF Open, Acquire, KeepPart, QuarantinePart, ScanNext, RebuildManifest, LoadKeys, OpenFails, Leave,
         Writing, TypeInv, TypeOK
<1>5. \A v \in Writer : pc'[v] \in Writing => pc[v] \in Writing /\ file'[v] = file[v]
  BY <1>3, <1>4
<1> QED BY <1>1, <1>2, <1>5, FewerNumbered

LEMMA AppendNumbered == ASSUME ~CallerRetries, SafeInv, Numbered, NEW w \in Writer, Append(w) PROVE Numbered'
<1>1. TypeInv /\ Memory(w) /\ TypeInv' BY AppendType DEF SafeInv
<1>2. pc[w] # "down"
  BY DEF Append, RefuseAppend, WriteTemporary, SyncTemporary, Verify, Publish, SyncDirectory, AppendFails,
         SyncDirectoryFails, ListPart, ListPartFails, Return, ReturnFails
<1>3. \A v \in Writer : v # w => pc[v] = "down" BY <1>1, <1>2, Alone DEF SafeInv
<1>4. \A v \in Writer : v # w => pc'[v] = "down"
  BY <1>1, <1>3 DEF Append, RefuseAppend, WriteTemporary, SyncTemporary, Verify, Publish, SyncDirectory, AppendFails,
         SyncDirectoryFails, ListPart, ListPartFails, Return, ReturnFails, Raise, TypeInv, TypeOK
<1>5. \A v \in Writer : v # w => pc'[v] \notin Writing BY <1>4 DEF Writing
<1>6. ASSUME NEW b \in Batch, NEW f \in File, NEW n \in 0..MaxNumber, WriteTemporary(w, b, f, n)
      PROVE  Numbered'
  <2>1. parts[w] = Published BY <1>1, <1>6 DEF WriteTemporary, Memory
  <2>2. /\ Published' = Published /\ f \notin Published
        /\ \A g \in Published : number'[g] = number[g]
        /\ number'[f] = n /\ file'[w] = f
    BY <1>1, <1>6 DEF WriteTemporary, Published, TypeInv, TypeOK
  <2>3. \A g \in Published : number[g] < n BY <1>6, <2>1 DEF WriteTemporary, NextNumber
  <2>4. NumbersUnique' BY <2>2 DEF Numbered, NumbersUnique
  <2>5. \A v \in Writer : pc'[v] \in Writing => \A g \in Published' : number'[g] < number'[file'[v]]
    BY <1>5, <2>2, <2>3
  <2> QED BY <2>4, <2>5 DEF Numbered
<1>7. CASE Publish(w)
  <2>1. pc[w] \in Writing /\ pc'[w] \notin Writing /\ number' = number /\ file[w] \in File
    BY <1>1, <1>7 DEF Publish, Writing, TypeInv, TypeOK, HasFile, Publishing
  <2>2. Published' = Published \cup {file[w]} BY <1>1, <1>7, <2>1 DEF Publish, Published, TypeInv, TypeOK
  <2>3. \A g \in Published : number[g] < number[file[w]] /\ number[g] \in Nat
    BY <1>1, <2>1 DEF Numbered, TypeInv, TypeOK, Published
  <2>4. NumbersUnique' BY <2>1, <2>2, <2>3 DEF Numbered, NumbersUnique
  <2> QED BY <1>5, <2>1, <2>4 DEF Numbered
<1>8. CASE SyncTemporary(w) \/ Verify(w)
  <2>1. /\ UNCHANGED <<place, number, file>> /\ pc[w] \in Writing
    BY <1>8 DEF SyncTemporary, Verify, disk, Writing
  <2>2. Published' = Published BY <2>1 DEF Published
  <2> QED BY <1>5, <2>1, <2>2, FewerNumbered
<1>9. CASE AppendFails(w)
  <2>1. pc[w] \in Writing /\ pc'[w] \notin Writing BY <1>1, <1>9 DEF AppendFails, Raise, Writing, TypeInv, TypeOK
  <2>2. place[file[w]] = "tmp" BY <1>1, <2>1 DEF Memory, Writing
  <2>3. Published' \subseteq Published /\ \A f \in Published' : number'[f] = number[f]
    BY <1>9, <2>2 DEF AppendFails, DropTemporary, Published
  <2> QED BY <1>5, <2>1, <2>3, FewerNumbered
<1>10. CASE \/ \E b \in Batch : RefuseAppend(w, b)
            \/ SyncDirectory(w) \/ SyncDirectoryFails(w) \/ ListPart(w) \/ ListPartFails(w)
            \/ Return(w) \/ ReturnFails(w)
  <2>1. UNCHANGED <<place, number>>
    BY <1>10 DEF RefuseAppend, SyncDirectory, SyncDirectoryFails, ListPart, ListPartFails, Return, ReturnFails, disk
  <2>2. pc'[w] \notin Writing
    BY <1>1, <1>10 DEF RefuseAppend, SyncDirectory, SyncDirectoryFails, ListPart, ListPartFails, Return,
      ReturnFails, Raise, Writing, TypeInv, TypeOK
  <2>3. Published' = Published BY <2>1 DEF Published
  <2> QED BY <1>5, <2>1, <2>2, <2>3, FewerNumbered
<1> QED BY <1>6, <1>7, <1>8, <1>9, <1>10 DEF Append

LEMMA StepNumbered == ASSUME ~CallerRetries, SafeInv, Numbered, [Next]_vars PROVE Numbered'
<1>1. TypeInv BY DEF SafeInv
<1>2. ASSUME NEW w \in Writer, Open(w) PROVE Numbered' BY <1>2, OpenNumbered
<1>3. ASSUME NEW w \in Writer, Append(w) PROVE Numbered' BY <1>3, AppendNumbered
<1>4. ASSUME NEW w \in Writer, Close(w) PROVE Numbered'
  <2>1. UNCHANGED <<place, number>> BY <1>4 DEF Close, disk
  <2>2. Published' = Published BY <2>1 DEF Published
  <2>3. \A v \in Writer : pc'[v] \in Writing => pc[v] \in Writing /\ file'[v] = file[v]
    BY <1>1, <1>4 DEF Close, Leave, Writing, TypeInv, TypeOK
  <2> QED BY <2>1, <2>2, <2>3, FewerNumbered
<1>5. ASSUME NEW w \in Writer, Crash(w) PROVE Numbered'
  <2>1. \A f \in Temporary(w) : place[f] = "tmp" BY DEF Temporary
  <2>2. Published' \subseteq Published /\ \A f \in Published' : number'[f] = number[f]
    BY <1>5, <2>1 DEF Crash, DropTemporary, Published
  <2>3. pc[w] # "down" BY <1>5 DEF Crash
  <2>4. \A v \in Writer : pc'[v] \notin Writing
    BY <1>1, <1>5, <2>3, Alone DEF Crash, Leave, Writing, TypeInv, TypeOK, SafeInv
  <2> QED BY <2>2, <2>4, FewerNumbered
<1>6. CASE PowerLoss
  <2>1. PICK lost \in SUBSET (Published \ durable) :
          DropTemporary(lost \cup {f \in File : place[f] = "tmp"})
    BY <1>6 DEF PowerLoss
  <2>2. Published' \subseteq Published /\ \A f \in Published' : number'[f] = number[f]
    BY <2>1 DEF Published, DropTemporary
  <2>3. \A v \in Writer : pc'[v] \notin Writing BY <1>6 DEF PowerLoss, Writing
  <2> QED BY <2>2, <2>3, FewerNumbered
<1>7. CASE UNCHANGED vars BY <1>7 DEF vars, disk, memory, Numbered, NumbersUnique, Published
<1> QED BY <1>2, <1>3, <1>4, <1>5, <1>6, <1>7 DEF Next

\* Published parts have different numbers, whichever were quarantined, lost or
\* failed before: so the order in which an open reads them is determined
\* (storage.py:307, 365).
THEOREM PartNumbers == ASSUME ~CallerRetries PROVE Spec => []NumbersUnique
<1>1. Init => SafeInv /\ Numbered
  <2>1. Init => Numbered BY DEF Init, Numbered, NumbersUnique, Published, Writing
  <2> QED BY <2>1, SafeInit
<1>2. SafeInv /\ Numbered /\ [Next]_vars => SafeInv' /\ Numbered' BY SafeStep, StepNumbered
<1>3. Numbered => NumbersUnique BY DEF Numbered
<1> QED BY <1>1, <1>2, <1>3, PTL DEF Spec
===============================================================================
