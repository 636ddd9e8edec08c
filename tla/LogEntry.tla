------------------------------ MODULE LogEntry ------------------------------
(***************************************************************************)
(* The record written to a data file (logfile/log_entry.go) and the data  *)
(* type and operation codes the command layer stamps on it (opendb.go,    *)
(* hash.go, set.go, zset.go).                                              *)
(*                                                                         *)
(* Byte strings are abstracted to model values; Empty stands for a nil or *)
(* empty []byte, every other value for a one-byte string.  The on-disk    *)
(* size of an entry keeps the 16-byte header, so offsets and the rotation *)
(* threshold are compared on the byte scale the code uses.                *)
(***************************************************************************)
EXTENDS Naturals

CONSTANT Empty          \* nil / zero-length []byte

\* entryHeaderSize: 3 x uint32 sizes + 2 x uint16 (Mark, Type)
entryHeaderSize == 16

\* DataType (opendb.go): the data type is also the file family
String == 0
List   == 1
Hash   == 2
Set    == 3
ZSet   == 4
DataTypes == {String, List, Hash, Set, ZSet}

\* operation codes, scoped within a data type
HashHSet == 0
HashHDel == 1
HashHClear == 2
SetSAdd == 0
SetSRem == 1
SetSMove == 2
SetSClear == 3
ZSetZAdd == 0
ZSetZRem == 1
ZSetZClear == 2

\* len() of an abstract byte string
ByteLen(b) == IF b = Empty THEN 0 ELSE 1

\* NewEntry(key, value, Extra, mark, Type): KeySize etc. are derived
\* from the byte strings, so they are not stored separately here.
NewEntry(key, value, extra, mark, type) ==
    [key |-> key, value |-> value, extra |-> extra, mark |-> mark, type |-> type]

\* NewEntryNoExtra passes its last two arguments to NewEntry in the
\* opposite order: the operation code lands in Mark and the data type in
\* Type.
NewEntryNoExtra(key, value, mark, type) ==
    NewEntry(key, value, Empty, type, mark)

GetSize(e) ==
    entryHeaderSize + ByteLen(e.key) + ByteLen(e.value) + ByteLen(e.extra)

\* What Decode yields for 16 zero bytes (a hole in a file): every size is
\* zero, so the entry has an empty key and spans just its header.
ZeroEntry == NewEntry(Empty, Empty, Empty, 0, 0)
=============================================================================
