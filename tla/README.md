# TLA+ models of opendb

This directory holds TLA+ models of the storage engine in `src/`: a log-structured key-value store. It has five data types (string, list, hash, set, sorted set). Each type has its own family of append-only data files, and an in-memory index is rebuilt from those files when the store is opened. The TLC model checker checks every model here. `PROJECT.json` lists the runs, the mutants and the map from each definition to the source lines it models.

## The system

| Part | Code | State | Operations |
|---|---|---|---|
| Record codec | `logfile/log_entry.go` | none | `NewEntry`, `NewEntryNoExtra`, `GetSize`, `Encode`, `Decode` |
| Data file | `logfile/log_file.go` | file bytes; `DBFile.Offset` | `newInternal`/`NewDBFile` (Offset := file size), `Read(off)`, `Write(e)` (`WriteAt(enc, Offset)` then `Offset += size`), `Build` (list the directory; the highest id per type becomes active) |
| Segment manager | `opendb.go` `store`, `getActiveFile` | `activeFile` (`sync.Map`: type → `*DBFile`), `archFiles` | `store(e)`: pick the family `e.Mark`; rotate to `id+1` when `Offset+size > DefaultBlockSize`; write |
| Recovery | `opendb.go` `Open`, `loadIdxFromFiles`; `index.go` | the indexes | per type, scan the files in ascending id from offset 0 until EOF or past `DefaultBlockSize`; set `e.Mark = type`; `buildIndex` |
| Hash commands + `ds/hash` | `hash.go`, `ds/hash/hash.go` | `hashIndex` (map of maps), `hashIndex.mu` | HSet, HMSet, HSetNx, HDel, HClear; reads HGet, HMGet, HGetAll, HExists, HLen, HKeys, HVals, HKeyExists |
| Set commands | `set.go` (`ds/set` is not in the repository) | `setIndex`, `setIndex.mu` | SAdd, SPop, SRem, SMove, SClear; reads SIsMember, SCard, SMembers, SUnion, SDiff, SKeyExists |
| Sorted-set commands | `zset.go` (`ds/zset` is not in the repository) | `zsetIndex`, `zsetIndex.mu` | ZAdd, ZIncrBy, ZRem, ZClear; reads ZScore, ZCard, ZKeyExists |
| Merge | `opendb.go` `Merge` | `db.dbFile`, `db.indexes` | meant to rewrite live entries, then remove the old file and rename the new one. `Open` never sets `db.dbFile`, so the first statement panics on nil. |
| Expiry | `checkExpired` | — | always returns false; the expire commands are commented out |
| List commands | `list.go` (package `rosedb`) | `listIndex.trees` (one tree per key: the meta `headSeq`/`tailSeq` and the values by seq), `listIndex.idxTree`, `listIndex.mu` | LPush, RPush, LPop, RPop, LLen |
| String commands | `strs.go` (package `rosedb`) | `strIndex.idxTree` (key → value, expiredAt), `strIndex.mu` | Set, Get, MGet, GetDel, Delete, SetEX, SetNX, MSet, MSetNX, Append, Incr, Decr, IncrBy, DecrBy, StrLen |

`list.go` and `strs.go` are files of another package (`rosedb`). The `opendb` package does not build them, and `Open` leaves `strIndex` nil. They call `writeLogEntry`, `updateIndexTree` and `getVal`, which are not in the repository. Their commands are still modelled, from their own code, as the project's list and string layer. Those three helpers are modelled by their effect on the command's index, and `getVal` also from spec.md 2–3.

How the parts interact:

- A command takes its category's lock (`hashIndex.mu` and so on). Under that lock it updates the index and calls `store`. Some commands store first and then update the index; others update the index first and then store.
- `store` has no lock of its own.
- `store` routes an entry by `e.Mark`. `NewEntry(key, value, extra, mark, Type)` puts the data type in `Mark`. `NewEntryNoExtra(key, value, mark, Type)` passes its last two arguments in swapped order (`log_entry.go:37`). So every entry built by `NewEntryNoExtra` carries the operation code as its `Mark`:
  - SAdd goes to the string family.
  - SRem, SPop and ZRem go to the list family.
  - HClear and ZClear go to the hash family.
  - SClear goes to the set family.
- `Open` runs `Build`, then `NewDBFile` for each type's active file, then `loadIdxFromFiles`. During replay each entry's `Mark` is set to the type of the file it came from. `buildIndex` dispatches on that `Mark`. Inside it, `buildHashIndex` and `buildSetIndex` dispatch on `Mark` again, while `buildZsetIndex` dispatches on `Type`.

Hard behaviours:

- Two commands under different locks can write one file family concurrently.
- A restart can happen between any two commands.
- Rotation can happen.
- The replay order matters.
- Failing writes leave holes.
- The index can be updated before a store that then fails.
- A crash can tear a write, and `Merge` kills the process.

## Modules

| Module | Models | State ↔ code |
|---|---|---|
| `LogEntry` | `log_entry.go`; the type and operation codes | An entry is a record `[key, value, extra, mark, type]`. A byte string is a model value: `Empty` stands for nil, and any other value for one byte. The 16-byte header is kept, so sizes and offsets use the code's byte scale. |
| `DBFile` | the file contents, `Read`, the scan of `loadIdxFromFiles`, the replay order | A file is the sequence of `WriteAt` extents `[off, rec, len]`: `len` of the entry's bytes reached the file (fewer than all when the write failed or was interrupted). Each byte belongs to the last extent that covers it. `Read` returns the entry whose intact header starts at `off` (a field whose bytes lie past what its write wrote reads as `Junk`), a zero entry for a hole, or EOF. `Recovered(d, t)` is what an `Open` of directory `d` would replay for type `t`. |
| `Segments` | `store` with rotation; the restart's `Build`/`NewDBFile` | `disk[t][id]`, `active[t] = [id, off]` (the `*DBFile` in `activeFile`), `archFiles[t]`, `up` (the process is running), and the history variables `hist[t]` (the entries whose `store` returned nil), `storeErr` (the last store returned an error), `firstFault[t]` and `faults`. Actions: `Store(e)` and `Reopen`. `Store` has one alternative per way `store` can end: success; `WriteAt` failing after `n` bytes (Offset still advances); `NewDBFile` failing after the old file was archived; the process dying after `n` bytes. The constant `Faults` chooses which failures a model allows. |
| `OpenDB` | the hash, set and sorted-set commands; `Open` with replay | Extends `Segments` with `hashIdx`, `setIdx` and `zsetIdx`. `Merge` is the process dying on the nil `db.dbFile`. HMSet is two actions: `HMSet` computes `insertVals` (HMGet before the lock), and `HMSetStore` is one turn of the loop that stores a pair and sets it, under the hash lock. Every other command is one action: its early return is the guard, and the index update and `Store` happen in the code's order. A command that stores first skips its index update when `store` fails (`AfterStore`); one that updates the index first keeps the update. `Open` is `Reopen` plus `LoadIdxFromFiles`, a fold of `BuildIndex` over the replayed entries. The read commands are operators over the indexes (`HGetAll`, `SMembers`, `ZCard`, ...), each with its `checkKeyValue`/`checkExpired` early returns; `Observed` collects what all of them return. |
| `Codec` | `Encode`, `Decode`, `DBFile.Read` and the scan loop, on bytes | Keys, values and extras are byte sequences, and a file is the concatenation of the encodings written to it. `PutUint`/`Uint` are `binary.BigEndian`. `Read` fails with EOF when the header or any field the header declares runs past the end. |
| `KeyedDeque` | what the list commands promise | `lists[k]` is a sequence of values. LPush puts its values at the head one after another, so the last ends up first. RPush appends at the tail. LPop and RPop remove one value and leave an empty list alone. LLen by reader `r` sets `replies[r]` to the key and its list's length. A failed push or pop changes nothing. `calls` and `failures` count push and pop calls, so a call that changes nothing is still a step. |
| `List` | `list.go` | `trees[k]` is `NoTree` or `[meta, items]`: `meta` is `Nil` (no meta saved yet; `listMeta` then returns `initialListSeq`, `initialListSeq + 1`) or `<<headSeq, tailSeq>>`, and `items[seq]` is the value stored under `encodeListKey(key, seq)`. Seqs are `uint32`, modelled as `SeqBits`-bit numbers (`U32`). `idxTree` is the key whose tree `listIndex.idxTree` points at. Each push or pop holds the write lock and is one action (`Push`, `Pop`); its outcomes (`PushOutcomes`, `PopOutcomes`) include every way a `writeLogEntry` inside it can fail, in the code's order. `LLen` holds the read lock and is two steps (`LLenBegin` sets `idxTree`; `LLenMeta` reads the meta through it). `ret[r]` is the key and the result of reader `r`'s last LLen. `View(k)` is the list between `headSeq` and `tailSeq`; the refinement maps `lists` to it and `replies` to `ret`. |
| `Strs` | `strs.go` | `idxTree[k]` is `Nil` or `[value, expiredAt]`; `now` is `time.Now().Unix()`; `call` records the command a step ran, its arguments and what it returned. Every command holds `strIndex.mu` throughout, so each is one action. A value is a sequence of one-character strings, so `strconv.ParseInt`, `strconv.FormatInt` and Append's concatenation are modelled by what they do. `int64` is an `IntBits`-bit two's-complement number (`Wrap`). `WriteAll` is writeLogEntry + updateIndexTree over a sequence of writes, returning at the first failure. `GetVal` treats a missing or expired key as not found. |
| `StoreRace` | `store` called concurrently by holders of different category locks | `objs` holds every `*DBFile` ever opened; `activeFile[t]` points into it. Each process goes through the steps `Begin` (getActiveFile plus rotation), `WriteAt`, `LoadOffset`/`StoreOffset` (the racy `Offset += size`) and `Publish` (`activeFile.Store`, return nil). |

The MC modules (`MC_Segments`, `MC_OpenDB`, `MC_StoreRace`, `MC_List`, `MC_Strs`) fix the constants for TLC. `MC_Segments` also instantiates `Codec` (as `Bytes`) and checks the byte-level scan beneath the extent model of `DBFile`.

## Runs

| Run | Expect | What it shows |
|---|---|---|
| `segments_replay` | pass | `ReplayIsHistory`: at every state, what `Open` would replay for each type equals the entries acknowledged for it, in order. Restarts and rotation happen in between. `ScanReadsWholeEntries`: beneath that, the byte-level scan of any file of up to two `Encode`d entries reads them back unchanged and in order, and the file cut at any byte (as a crash during the last write leaves it) reads back exactly the entries written whole. This is a constant formula, evaluated once. |
| `segments_faults` | pass | `AckedBeforeFaultReplayed`: with failing `WriteAt`, failing `NewDBFile` at rotation and crashes in the middle of a write, every entry acknowledged before a family's first write fault is replayed, in order, ahead of anything else. |
| `segments_write_fault_loses_later_entries` | violation | One write fault, then more stores. A `WriteAt` that fails still does `Offset += size`, so the next entry lands after a hole; or the process dies mid-write and on restart `newInternal` starts `Offset` at the file size, after the torn bytes. Either way the entry acknowledged after the fault is not replayed (spec.md 4.3, 7). |
| `opendb_zscores` | pass | `ZScoresSurviveOpen`: every sorted-set member present before a restart is present after it with the same score. All hash, set and sorted-set commands run, with restarts. |
| `indexes_lost_on_open` | violation | `IndexSurvivesOpen`: after `Open`, every hash, set and sorted-set read command must answer as it did before the stop (spec.md 8: "observably identical for all read operations"). The shortest trace is HMSet (its `HMSet` step, then one `HMSetStore`), then restart: HGet no longer returns the field, because replay dispatches on the overwritten `Mark`. SAdd's member (written to the string family) and ZClear's removal (written to the hash family) are lost the same way. |
| `opendb_failed_store_changes_index` | violation | `IndexUntouchedOnFailedStore`: a command whose store fails must leave the indexes as they were (spec.md 5). The shortest trace is HSetNx, which sets the field and then fails to store it. HMSet, whose pairs are stored one by one, keeps its earlier pairs when a later store fails. |
| `list_refines_deque` | pass | `RefinesKeyedDeque`: LPush, RPush, LPop and RPop implement a per-key deque, including when `headSeq` wraps below 0 or `tailSeq` past the top of its range, and across the meta reset of a pop on an empty list; and LLen returns the length of the list at the time of the call. One LLen caller. |
| `list_llen_race` | violation | Two LLen calls on different keys, both under the read lock. The second points `listIndex.idxTree` at its own key's tree before the first reads its meta, so the first returns 0 for a list holding a value. |
| `list_pop_fault_leaves_hole` | violation | RPush, then a pop whose value delete succeeds but whose `saveListMeta` fails: the list keeps a counted slot with no value. Every later pop from that end fails. |
| `strs_commands` | pass | `IncrDecrByExact`: Incr, Decr, IncrBy (by MinInt64 and MaxInt64) and DecrBy by MaxInt64 add exactly the amount asked for, or return ErrIntegerOverflow exactly when the sum is outside the int64 range; a non-number returns ErrWrongValueType. `MSetNXAllOrNothing`: an MSetNX that returns nil writes nothing when a key exists, and otherwise sets each key to the value of its first pair. Write failures and expiry are on. |
| `strs_decrby_min_int` | violation | `DecrBy(key, MinInt64)` on a missing key returns MinInt64 and stores it. DecrBy passes `-decr`, which wraps to MinInt64, so the overflow check sees a negative increment. Its comment promises ErrIntegerOverflow. |
| `store_race_shared_family` | violation | HSet (hash lock) and ZClear (zset lock) share the hash family. One overwrites the other's acknowledged entry. Entries of different Marks go to files no step of the other family touches, so the race needs a shared family. |

Each property of a passing run has a mutant in `PROJECT.json`: a plausible bug in a mapped definition that makes TLC report the property violated. The mutants:

- Build picks the lowest id as active.
- A reopened file starts at size − 1.
- ZIncrBy logs the increment instead of the new score.
- Rotation reopens the active file's own id instead of id + 1.
- Decode reads the value and extra sizes from each other's place.
- Seqs kept in a wider integer instead of uint32; a pop reads the free slot next to the values; LLen subtracts in signed arithmetic.
- SetEX keeps its deadline in milliseconds; the overflow check fires when a sum reaches MaxInt64; MSetNX writes a repeated key twice (no `addedKeys`).

## Bounds

`DefaultBlockSize = 36` and entry sizes are 16 + 1 per non-empty field (17–19 bytes). A file therefore holds two short entries, and a third entry rotates. Each bound is set so that the interesting case happens:

- `MaxFileId` (2–3) and `MaxAppends` (4–5) allow several rotations and restarts in one behaviour.
- `MC_OpenDB` uses two keys, so SMove has distinct source and destination, and a clear of one key sits next to another key.
- `MaxPairs = 1` in the passing runs; 2 in `opendb_failed_store_changes_index`, so an HMSet can fail at its second store after its first pair was set.
- It uses one field, one value, one member, and scores 1..2 with increment 1, so ZIncrBy changes an existing score.
- `MC_Segments_Faults` allows two failed stores, each writing 0, 8 or 16 bytes (nothing, a partial header, a header without its body). It uses `MaxFileId = 2` and `MaxAppends = 4`, which leaves room for a fault followed by acknowledged entries and a rotation. The violation runs allow one fault.
- The byte-level scan covers every file of up to two entries drawn from 48: keys of 0–2 bytes, values and extras of 0–1 bytes, and codes 0 and 4, cut at every byte.
- `MC_List`: two keys, two values, pushes of one or two values, `SeqBits = 2` (seqs 0..3) with `InitialListSeq = 1`, so an LPush from a new list wraps `headSeq` below 0 at once and `tailSeq` wraps after two RPushes. `MaxLen = 2` is what a 2-bit range can hold (2^SeqBits − 2, as 2^32 − 2 in the code); `MaxOps = 6` calls. One LLen reader in the passing run; two in `list_llen_race`, which is what the race needs. The fault run allows one failed write and pushes of one value.
- `MC_Strs`: two keys; values "1" and "x"; `IntBits = 3` (MinInt64 = −4, MaxInt64 = 3), so both ends of the range, a ParseInt range error ("11") and a non-number are a few calls away; IncrBy by −4 and 3; DecrBy by 3 (by −4 in the violation run); SetEX for 0 or 1 seconds with the clock at 1..2; up to two pairs per MSet/MSetNX, so a key can be given twice; values of at most 2 bytes; one failed write.
- `MC_StoreRace` gives each of two goroutines two entries. That reaches a same-offset write, a lost `Offset += size`, and rotation racing a write.

## Fairness

No run checks liveness. The engine is a library with no internal scheduler, background worker or wait: every step happens only because a caller invoked it, and every command holds its lock for a bounded number of steps. The code therefore guarantees no fairness that would make anything "eventually" happen; the one thing a caller waits for, a lock, is Go's `sync.RWMutex`, whose progress is the runtime's, not this code's. `StoreRace` has a terminal `Finished` step for when every goroutine has returned, so its runs check deadlock.

## Not modelled, and why

- **Merge after its first line:** `Open` never sets `db.dbFile`, so `Merge` dereferences nil at `opendb.go:340`. The model has that panic (`Merge`). The rewrite, remove and rename that follow cannot run.
- **SAdd with several members:** each call in the model carries one member. Its loop is the same shape as HMSet's, which is modelled.
- **Other categories during HMSet's loop:** HMSet holds only the hash lock, so a set or sorted-set command could run between its stores. The model runs none there, to keep the state space small. Restarts can still happen there.
- **Expiry in `opendb`:** disabled in the code. The read-time expiry of the string commands is modelled in `Strs`, from spec.md.
- **`writeLogEntry`, `updateIndexTree`, `getVal`:** not in the repository. They are modelled by their effect on the command's index. That `getVal` of a list looks through the shared `listIndex.idxTree` is inferred from its callers.
- **Empty string values:** whether `getVal` returns nil or an empty slice for an empty value decides SetNX, MSetNX, GetDel and Append on such a key, and that code is not in the repository; the sampled values are non-empty.
- **Sub-second SetEX durations:** `time.Now().Add(d).Unix()` truncates to seconds, so a short TTL may be cut by up to a second. Durations are whole seconds, and the clock is in seconds.
- **List index replay:** the `List*` constants are not defined in the repository.
- **mmap and options:** OS helpers and configuration.
- **HMSet against concurrent hash writers:** HMSet reads its fields with HMGet under the read lock and stores the changed ones later under the write lock. An HSet in between can leave HMSet's fields in a mix no order of the calls gives. Neither spec.md nor a comment says HMSet is atomic, so the model runs HMGet and the store loop with no hash command between them.
- **Sorted-set ranks and ranges** (ZRank, ZRevRank, ZRange..., ZScoreRange...): `ds/zset` is not in the repository, and how it orders members of equal score is not stated anywhere. The instances have one member, where every rank is 0.
- **SRandMember:** its answer is random by design.
- **Check-then-act in HSet/HClear/ZAdd/...:** the index is read under the read lock and acted on later under the write lock. The resulting state is that of some order of the whole commands; only the returned values can differ (two concurrent SClear calls on a key both return nil), which neither the spec nor a comment speaks to. So commands are atomic in `OpenDB`.
- **Liveness:** see Fairness.

## Further work

1. **MSetNX after a failed write:** MSetNX writes its pairs one at a time (`strs.go:213`). When a write fails after the first pair, that key is set; a retry of the same MSetNX then finds it and returns nil with the other pairs never written, although its comment says the method is atomic. `MSetNXAllOrNothing` is stated for calls that return nil; a run of the failing case is the next check to add.
2. **More of the races:** the list-family race (SRem vs ZRem in `StoreRace`), and the unsynchronised `archFiles` map writes of two rotations under different locks.
3. **Composition:** the string and list commands over `Segments`, so that their entries go through `store` and rotation rather than an abstract write that may fail.
4. **Larger instances:** three keys in `MC_Strs` and `MC_List`.
