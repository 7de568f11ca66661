------------------------------ MODULE Bitfield ------------------------------
(***************************************************************************)
(* The bitmap of completed chunks (transfer/bitfield.rs, struct Bitfield). *)
(* A bitmap of n chunks is kept in ByteLength(n) whole bytes, so it has    *)
(* room for more positions than chunks.  It is modelled by the set of      *)
(* positions whose bit is 1; positions n and above are the stray bits that *)
(* only a file written for another chunk count can bring in.               *)
(***************************************************************************)
EXTENDS Integers, FiniteSets

\* The number of bytes that hold n bits.
ByteLength(n) == (n + 7) \div 8

\* Every position of a bitmap of n chunks, the unused ones of the last byte
\* included.
Positions(n) == 0 .. 8 * ByteLength(n) - 1

\* The indices of the chunks of a file of n chunks.
Chunks(n) == 0 .. n - 1

NewBits == {}

\* What a .bf file holds: its length in bytes and its bits.  NoFile stands for
\* a file that does not exist.
NoFile == [bytes |-> -1, bits |-> {}]
StoredBits(bits, n) == [bytes |-> ByteLength(n), bits |-> bits]

\* A stored bitmap is taken as it is when its length fits, whoever wrote it.
LoadBits(stored, n) ==
    IF stored.bytes = ByteLength(n) THEN stored.bits ELSE NewBits

SetBit(bits, i, n) == IF i \in Chunks(n) THEN bits \cup {i} ELSE bits

GetBit(bits, i, n) == i \in Chunks(n) /\ i \in bits

\* completed() counts the ones of every byte, the stray bits included.
Completed(bits) == Cardinality(bits)

IsCompleteEarly(bits, n) == Completed(bits) + 1 >= n      \* mutant: off by one
IsComplete(bits, n) == Completed(bits) = n

Missing(bits, n) == {i \in Chunks(n) : ~GetBit(bits, i, n)}
=============================================================================
