----------------------------- MODULE MCBloomFilter -----------------------------
(* BloomFilter with three codes in two buckets. *)
EXTENDS BloomFilter, TLC

Codes == 1..3
OddAndEven == [c \in Codes |-> c % 2]
Symmetry == Permutations(Process)
=============================================================================
