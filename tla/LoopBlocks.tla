---------------------------- MODULE LoopBlocks ----------------------------
(***************************************************************************)
(* BS::blocks: how push_loop and parallelize_loop cut a range of indexes   *)
(* into blocks.  A loop is the record of its arguments: first_index,       *)
(* index_after_last and the number n > 0 of blocks that are wanted.        *)
(* Indexes and sizes are far from the ends of their types.                 *)
(***************************************************************************)
EXTENDS Integers

\* The constructor swaps the ends of a range that is given backwards.
First(l) == IF l.after < l.first THEN l.after ELSE l.first
After(l) == IF l.after < l.first THEN l.first ELSE l.after
Total(l) == After(l) - First(l)
Even(l)  == Total(l) \div l.n
BlockSize(l) == IF Even(l) = 0 THEN 1 ELSE Even(l)
NumBlocks(l) == IF Even(l) # 0 THEN l.n ELSE IF Total(l) > 1 THEN Total(l) ELSE 1

Start(l, i) == i * BlockSize(l) + First(l)
\* Mutant: the last block is as large as the others.
EvenEnd(l, i) == Start(l, i + 1)
End(l, i) == IF i = NumBlocks(l) - 1 THEN After(l) ELSE (i + 1) * BlockSize(l) + First(l)

\* The blocks a loop is cut into, none for an empty range.
BlocksOf(l) ==
  IF Total(l) = 0 THEN <<>>
  ELSE [i \in 1..NumBlocks(l) |-> [start |-> Start(l, i - 1), end |-> End(l, i - 1)]]

=============================================================================
