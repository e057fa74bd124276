---------------------------- MODULE MCNumericOps ----------------------------
(* A small instance of NumericOps for TLC. *)
EXTENDS NumericOps, TLC

\* A counter, and bytes that spell a number.
Items == {[num |-> TRUE, value |-> 0], [num |-> FALSE, value |-> 1]}

Symmetry == Permutations(Threads) \cup Permutations(Segments \ FreeSegments)

\* Cells no call and no relocation can reach any more are not told apart.
Reachable == {slot, ev.loc, ev.new} \cup
             UNION {{th[t].loc, th[t].hit, th[t].new} : t \in Threads}

View == <<slot, cells, [c \in Cells |-> IF c \in Reachable THEN <<seg[c], item[c]>> ELSE None],
          segst, th, ev, ledger>>
=============================================================================
