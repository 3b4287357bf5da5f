------------------------------- MODULE Tables -------------------------------
(***************************************************************************)
(* Tables of the storage engine: what a memtable, an SSTable or the whole  *)
(* store records for every key, be it a value, a deletion or nothing.      *)
(***************************************************************************)
EXTENDS Naturals, Sequences, FiniteSetsExt

CONSTANTS
  Key, Value,
  Absent,       \* no record of the key
  Tombstone     \* the record of a deletion

Empty == [k \in Key |-> Absent]

\* The table after the records of batch b are written, the last one winning.
Written(table, b) ==
  [k \in Key |->
     LET hits == SelectSeq(b, LAMBDA r : r.key = k)
     IN  IF hits = <<>> THEN table[k] ELSE hits[Len(hits)].value]

\* What a reader sees of a table: a deleted key is not there.
Visible(table) == [k \in Key |-> IF table[k] = Tombstone THEN Absent ELSE table[k]]

\* over wins where it has a record.
overlay(over, under) == [k \in Key |-> IF over[k] # Absent THEN over[k] ELSE under[k]]
=============================================================================
