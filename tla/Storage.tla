------------------------------ MODULE Storage ------------------------------
(***************************************************************************)
(* What a storage adapter of packages/protocol/src/storage.ts is: a folder *)
(* of paths with a canonical log, in which every write takes the next      *)
(* position.  The reference is the in-memory adapter.                      *)
(***************************************************************************)
EXTENDS Naturals

CONSTANTS
  Path,     \* paths of the folder
  Bytes,    \* what is written
  NoEntry   \* the entry of a path that was never written

VARIABLES
  entries,  \* the entry at each path
  counter   \* the last position that was given out

Empty == [p \in Path |-> NoEntry]

Init == entries = Empty /\ counter = 0

Put(es, p, b, n) == [es EXCEPT ![p] = [bytes |-> b, insertedAt |-> n]]

Write(p, b) ==
  /\ counter' = counter + 1
  /\ entries' = Put(entries, p, b, counter + 1)

Next == \E p \in Path, b \in Bytes : Write(p, b)

Spec == Init /\ [][Next]_<<entries, counter>>
=============================================================================
