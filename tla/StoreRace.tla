----------------------------- MODULE StoreRace ------------------------------
(***************************************************************************)
(* OpenDB.store run by several goroutines at once.  Each command holds    *)
(* only its own category's lock (hashIndex.mu, setIndex.mu, ...) while it *)
(* stores, and store picks the file family from e.Mark, so two commands  *)
(* of different categories whose entries carry the same Mark share one    *)
(* *DBFile with no lock in common.  Here each process is one such lock    *)
(* holder storing its entries one after another, and store is split into *)
(* the steps that read or write shared state:                              *)
(*   Begin        getActiveFile, the size check and, when it rotates,     *)
(*                archFiles[mark][id] = f and NewDBFile(id + 1)           *)
(*   WriteAt      File.WriteAt(enc, df.Offset)                            *)
(*   LoadOffset   df.Offset += size: the load ...                         *)
(*   StoreOffset  ... and the store                                       *)
(*   Publish      db.activeFile.Store(id, f); store returns nil           *)
(* The unsynchronised accesses to df.Offset are a data race; the split    *)
(* load and store give every outcome a word-sized racy access can have.  *)
(***************************************************************************)
EXTENDS DBFile

CONSTANTS
    Procs,      \* goroutines, each holding a different category lock
    Work        \* Work[p]: the entries p stores, in order

VARIABLES
    disk,       \* disk[t][id]: the extents written to file id of type t, or NoFile
    objs,       \* every *DBFile opened so far: objs[i] = [id, off]
    activeFile, \* activeFile[t]: index in objs of db.activeFile's value for t
    archFiles,  \* archFiles[t]: the ids in db.archFiles[t]
    pc,         \* pc[p]: the next step of p's current store, "idle" between stores
    next,       \* next[p]: index in Work[p] of the entry p stores now or next
    cur,        \* cur[p]: the *DBFile p's store writes to
    tmp,        \* tmp[p]: the Offset p loaded for Offset += size
    acked       \* acked[t]: entries of family t whose store returned nil

vars == <<disk, objs, activeFile, archFiles, pc, next, cur, tmp, acked>>

Entry(p) == Work[p][next[p]]

Init ==
    /\ disk = [t \in DataTypes |-> [id \in FileIds |-> IF id = 0 THEN <<>> ELSE NoFile]]
    /\ objs = [i \in 1..Cardinality(DataTypes) |-> [id |-> 0, off |-> 0]]
    /\ activeFile = [t \in DataTypes |-> t + 1]
    /\ archFiles = [t \in DataTypes |-> {}]
    /\ pc = [p \in Procs |-> "idle"]
    /\ next = [p \in Procs |-> 1]
    /\ cur = [p \in Procs |-> 0]
    /\ tmp = [p \in Procs |-> 0]
    /\ acked = [t \in DataTypes |-> <<>>]

(* getActiveFile(e.Mark); when the entry does not fit, archive the file   *)
(* and open id + 1 (created if absent, Offset at its size).               *)
Begin(p) ==
    /\ pc[p] = "idle"
    /\ next[p] <= Len(Work[p])
    /\ LET e  == Entry(p)
           t  == e.mark
           af == objs[activeFile[t]]
           nf == [id |-> af.id + 1,
                  off |-> IF disk[t][af.id + 1] = NoFile THEN 0
                          ELSE FileSize(disk[t][af.id + 1])]
       IN  IF af.off + GetSize(e) > DefaultBlockSize
           THEN /\ af.id < MaxFileId
                /\ archFiles' = [archFiles EXCEPT ![t] = @ \cup {af.id}]
                /\ objs' = Append(objs, nf)
                /\ disk' = [disk EXCEPT ![t][nf.id] = IF @ = NoFile THEN <<>> ELSE @]
                /\ cur' = [cur EXCEPT ![p] = Len(objs) + 1]
           ELSE /\ cur' = [cur EXCEPT ![p] = activeFile[t]]
                /\ UNCHANGED <<archFiles, objs, disk>>
    /\ pc' = [pc EXCEPT ![p] = "write"]
    /\ UNCHANGED <<activeFile, next, tmp, acked>>

\* DBFile.Write: WriteAt(enc, df.Offset)
WriteAt(p) ==
    /\ pc[p] = "write"
    /\ LET e == Entry(p)
           f == objs[cur[p]]
       IN  disk' = [disk EXCEPT ![e.mark][f.id] = Append(@, [off |-> f.off, rec |-> e, len |-> GetSize(e)])]
    /\ pc' = [pc EXCEPT ![p] = "load"]
    /\ UNCHANGED <<objs, activeFile, archFiles, next, cur, tmp, acked>>

LoadOffset(p) ==
    /\ pc[p] = "load"
    /\ tmp' = [tmp EXCEPT ![p] = objs[cur[p]].off]
    /\ pc' = [pc EXCEPT ![p] = "store"]
    /\ UNCHANGED <<disk, objs, activeFile, archFiles, next, cur, acked>>

StoreOffset(p) ==
    /\ pc[p] = "store"
    /\ objs' = [objs EXCEPT ![cur[p]].off = tmp[p] + GetSize(Entry(p))]
    /\ pc' = [pc EXCEPT ![p] = "publish"]
    /\ UNCHANGED <<disk, activeFile, archFiles, next, cur, tmp, acked>>

\* db.activeFile.Store(id, activeFile); store returns nil
Publish(p) ==
    /\ pc[p] = "publish"
    /\ activeFile' = [activeFile EXCEPT ![Entry(p).mark] = cur[p]]
    /\ acked' = [acked EXCEPT ![Entry(p).mark] = Append(@, Entry(p))]
    /\ next' = [next EXCEPT ![p] = @ + 1]
    /\ pc' = [pc EXCEPT ![p] = "idle"]
    /\ UNCHANGED <<disk, objs, archFiles, cur, tmp>>

\* every goroutine has returned from its last store
Finished ==
    /\ \A p \in Procs : pc[p] = "idle" /\ next[p] > Len(Work[p])
    /\ UNCHANGED vars

Next ==
    \/ \E p \in Procs :
          Begin(p) \/ WriteAt(p) \/ LoadOffset(p) \/ StoreOffset(p) \/ Publish(p)
    \/ Finished

Spec == Init /\ [][Next]_vars

(* spec.md 8, append-then-read: once store has returned nil for an entry, *)
(* a restart replays it.  Broken when two lock holders write one *DBFile *)
(* at the same Offset or lose one of two Offset += size updates.          *)
AckedStoresReplayed ==
    \A t \in DataTypes : Range(acked[t]) \subseteq Range(Recovered(disk, t))
=============================================================================
