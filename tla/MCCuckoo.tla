------------------------------ MODULE MCCuckoo ------------------------------
(* Small instances of Cuckoo for TLC.                                      *)
EXTENDS Cuckoo, TLC

CONSTANTS k1, k2, k3, k4, k5, bytes, blank, long

\* The byte string long begins with bytes, which its length modulo 256 cuts it to.
TableLength == bytes :> 3 @@ blank :> 0 @@ long :> 259
TableCut == bytes :> bytes @@ blank :> blank @@ long :> bytes

\* Three slots: k3 has one candidate, held by k1 or k4, whose other candidate k2
\* or k1 may hold, so inserts displace over two levels and evict.
TablePositions ==
  k1 :> <<0, 1, 1, 0>> @@ k2 :> <<1, 2, 2, 1>> @@ k3 :> <<0, 0, 0, 0>> @@ k4 :> <<2, 0, 2, 0>>

TableInserted == [k \in Keys |-> IF k = k3 THEN {bytes, blank, long} ELSE {1}]

\* Five slots: k1 to k4 fill the first four, and k5 can only go where k1 is. The
\* displacement goes on to k2 and k3, whose other candidate is k1's slot again,
\* and from there to k4, which can move.
RingPositions ==
  k1 :> <<0, 1, 3, 3>> @@ k2 :> <<1, 2, 2, 2>> @@ k3 :> <<2, 0, 0, 0>>
    @@ k4 :> <<3, 4, 4, 4>> @@ k5 :> <<0, 0, 0, 0>>

RingInserted == [k \in Keys |-> {1}]
=============================================================================
