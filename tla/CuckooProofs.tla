---------------------------- MODULE CuckooProofs ----------------------------
(***************************************************************************)
(* The cuckoo table stays sound and never answers a stale value, for any   *)
(* keys, candidates, clock and policy, as long as displacement goes at     *)
(* most four levels deep.                                                  *)
(***************************************************************************)
EXTENDS Cuckoo, FiniteSetTheorems, TLAPS

\* The answers of displace_from with left levels to go, over those one level
\* deeper.
Level(d, left, deeper) ==
  [p \in Slots |-> IF Free(d, p) THEN Freed(clear_slot(d, p))
                   ELSE IF left = 0 THEN NoRoom
                   ELSE MoveOccupant(d, p, deeper)]

Level0(d) == Level(d, 0, <<>>)
Level1(d) == Level(d, 1, Level0(d))
Level2(d) == Level(d, 2, Level1(d))
Level3(d) == Level(d, 3, Level2(d))
Level4(d) == Level(d, 4, Level3(d))

\* f tabulates displace_from.
Tabulates(f, d) == f = [left \in 0..max_displace |-> Level(d, left, f[left - 1])]

LevelTable(d) ==
  [left \in 0..max_displace |->
     IF left = 0 THEN Level0(d) ELSE IF left = 1 THEN Level1(d) ELSE IF left = 2 THEN Level2(d)
     ELSE IF left = 3 THEN Level3(d) ELSE Level4(d)]

\* The last level has nothing deeper to ask, and the others are not the last.
LEMMA LevelBase ==
  ASSUME NEW d, NEW deeper
  PROVE  Level(d, 0, deeper) = Level0(d)
<1>1. Level(d, 0, deeper) = [p \in Slots |-> IF Free(d, p) THEN Freed(clear_slot(d, p)) ELSE NoRoom]
  BY Zenon DEF Level
<1>2. Level0(d) = [p \in Slots |-> IF Free(d, p) THEN Freed(clear_slot(d, p)) ELSE NoRoom]
  BY Zenon DEF Level, Level0
<1> QED BY <1>1, <1>2, Zenon

\* There is a table of the levels.
LEMMA LevelsTabulate ==
  ASSUME NEW d, max_displace <= 4
  PROVE  Tabulates(LevelTable(d), d)
<1> DEFINE f == LevelTable(d)
<1>1. max_displace \in Nat
  BY CuckooAssumption
<1>2. ASSUME NEW left \in 0..max_displace
      PROVE  f[left] = IF left = 0 THEN Level0(d) ELSE IF left = 1 THEN Level1(d)
                       ELSE IF left = 2 THEN Level2(d) ELSE IF left = 3 THEN Level3(d) ELSE Level4(d)
  BY Zenon DEF LevelTable
<1>3. f = [left \in 0..max_displace |-> f[left]]
  BY Zenon DEF LevelTable
<1> HIDE DEF f
<1>4. ASSUME NEW left \in 0..max_displace PROVE f[left] = Level(d, left, f[left - 1])
  <2>1. left \in {0, 1, 2, 3, 4} /\ (left > 0 => left - 1 \in 0..max_displace)
    BY <1>1
  <2>2. CASE left = 0
    BY <1>2, <2>2, LevelBase
  <2>3. CASE left = 1
    <3>1. f[left] = Level1(d) /\ f[left - 1] = Level0(d)
      BY <1>2, <2>1, <2>3
    <3> QED BY <2>3, <3>1 DEF Level1
  <2>4. CASE left = 2
    <3>1. f[left] = Level2(d) /\ f[left - 1] = Level1(d)
      BY <1>2, <2>1, <2>4
    <3> QED BY <2>4, <3>1 DEF Level2
  <2>5. CASE left = 3
    <3>1. f[left] = Level3(d) /\ f[left - 1] = Level2(d)
      BY <1>2, <2>1, <2>5
    <3> QED BY <2>5, <3>1 DEF Level3
  <2>6. CASE left = 4
    <3>1. f[left] = Level4(d) /\ f[left - 1] = Level3(d)
      BY <1>2, <2>1, <2>6
    <3> QED BY <2>6, <3>1 DEF Level4
  <2> QED BY <2>1, <2>2, <2>3, <2>4, <2>5, <2>6
<1>5. [left \in 0..max_displace |-> f[left]] = [left \in 0..max_displace |-> Level(d, left, f[left - 1])]
  BY <1>4
<1> QED BY <1>3, <1>5 DEF f, Tabulates

\* Every table of displace_from is that one, down to the levels it has.
LEMMA LevelsUnique ==
  ASSUME NEW d, NEW f, Tabulates(f, d), max_displace <= 4
  PROVE  /\ max_displace = 0 => f[max_displace] = Level0(d)
         /\ max_displace = 1 => f[max_displace] = Level1(d)
         /\ max_displace = 2 => f[max_displace] = Level2(d)
         /\ max_displace = 3 => f[max_displace] = Level3(d)
         /\ max_displace = 4 => f[max_displace] = Level4(d)
<1>1. max_displace \in Nat
  BY CuckooAssumption
<1>2. ASSUME NEW left \in 0..max_displace PROVE f[left] = Level(d, left, f[left - 1])
  BY Zenon DEF Tabulates
<1>3. f[0] = Level0(d)
  BY <1>1, <1>2, LevelBase
<1>4. max_displace >= 1 => f[1] = Level1(d)
  BY <1>1, <1>2, <1>3 DEF Level1
<1>5. max_displace >= 2 => f[2] = Level2(d)
  BY <1>1, <1>2, <1>4 DEF Level2
<1>6. max_displace >= 3 => f[3] = Level3(d)
  BY <1>1, <1>2, <1>5 DEF Level3
<1>7. max_displace >= 4 => f[4] = Level4(d)
  BY <1>1, <1>2, <1>6 DEF Level4
<1> QED BY <1>3, <1>4, <1>5, <1>6, <1>7

\* displace_from is a look-up in the level of its depth.
LEMMA DisplaceIs ==
  ASSUME NEW d, NEW pos \in Slots, max_displace <= 4
  PROVE  /\ max_displace = 0 => displace_from(d, pos, 0) = Level0(d)[pos]
         /\ max_displace = 1 => displace_from(d, pos, 0) = Level1(d)[pos]
         /\ max_displace = 2 => displace_from(d, pos, 0) = Level2(d)[pos]
         /\ max_displace = 3 => displace_from(d, pos, 0) = Level3(d)[pos]
         /\ max_displace = 4 => displace_from(d, pos, 0) = Level4(d)[pos]
<1>1. Tabulates(CHOOSE f : Tabulates(f, d), d)
  BY LevelsTabulate
<1>2. displace_from(d, pos, 0) = (CHOOSE f : Tabulates(f, d))[max_displace - 0][pos]
  BY DEF displace_from, Tabulates, Level
<1>3. max_displace - 0 = max_displace
  BY CuckooAssumption
<1>4. PICK f : Tabulates(f, d) /\ displace_from(d, pos, 0) = f[max_displace][pos]
  BY <1>1, <1>2, <1>3
<1> QED BY <1>4, LevelsUnique
-----------------------------------------------------------------------------
(* Tables. *)

\* What an insert for k may leave to be read.
Readings(k) == UNION {ReadBack(v) : v \in Inserted[k]}
Vals == Numbers \cup {None} \cup UNION {Readings(k) : k \in Keys}
Items == [key : Keys \cup {None}, value : Vals, expire : Nat]
Candidate(k, s) == \E i \in 1..D : Positions[k][i] = s

\* Every item is in one of its candidate slots, and live keys are distinct.
Good(d) ==
  /\ d \in [Slots -> Items]
  /\ \A s \in Slots : ~slot_is_empty(d, s) => d[s].key \in Keys /\ Candidate(d[s].key, s)
  /\ \A s, t \in Slots : Live(d, s) /\ Live(d, t) /\ d[s].key = d[t].key => s = t

\* The occupant of p has another candidate that is free.
Direct(d, p) == \E alt \in Slots \ {p} : Candidate(d[p].key, alt) /\ Free(d, alt)

\* e is d with p freed and the same live items.
Frees(d, p, e) == Good(e) /\ Contents(e) = Contents(d) /\ e[p] = EmptySlot

\* The items that cannot move directly have stayed, or given way to p's.
Kept(d, p, e) == \A q \in Slots : q # p /\ Live(d, q) /\ ~Direct(d, q) => e[q] = d[q]
KeptOrMoved(d, p, e) == \A q \in Slots : q # p /\ Live(d, q) /\ ~Direct(d, q) => e[q] \in {d[q], d[p]}

\* First is 0, or the first index of a slot of the set.
LEMMA FirstIs ==
  ASSUME NEW ps, NEW S
  PROVE  /\ First(ps, S) = 0 => \A i \in 1..D : ps[i] \notin S
         /\ First(ps, S) # 0 => /\ First(ps, S) \in 1..D /\ ps[First(ps, S)] \in S
                                /\ \A j \in 1..(First(ps, S) - 1) : ps[j] \notin S
<1>1. CASE \E i \in 1..D : ps[i] \in S
  <2>1. \E i \in 1..D : ps[i] \in S /\ \A j \in 1..(i - 1) : ps[j] \notin S
    <3>1. CASE ps[1] \in S
      <4>1. 1 \in 1..D /\ \A j \in 1..(1 - 1) : FALSE
        BY DEF D
      <4> QED BY <3>1, <4>1
    <3>2. CASE ps[1] \notin S /\ ps[2] \in S
      <4>1. 2 \in 1..D /\ \A j \in 1..(2 - 1) : j = 1
        BY DEF D
      <4> QED BY <3>2, <4>1
    <3>3. CASE ps[1] \notin S /\ ps[2] \notin S /\ ps[3] \in S
      <4>1. 3 \in 1..D /\ \A j \in 1..(3 - 1) : j = 1 \/ j = 2
        BY DEF D
      <4> QED BY <3>3, <4>1
    <3>4. CASE ps[1] \notin S /\ ps[2] \notin S /\ ps[3] \notin S /\ ps[4] \in S
      <4>1. 4 \in 1..D /\ \A j \in 1..(4 - 1) : j = 1 \/ j = 2 \/ j = 3
        BY DEF D
      <4> QED BY <3>4, <4>1
    <3>5. \A i \in 1..D : i = 1 \/ i = 2 \/ i = 3 \/ i = 4
      BY DEF D
    <3> QED BY <1>1, <3>1, <3>2, <3>3, <3>4, <3>5
  <2>2. First(ps, S) = CHOOSE i \in 1..D : ps[i] \in S /\ \A j \in 1..(i - 1) : ps[j] \notin S
    BY <1>1 DEF First
  <2>3. /\ First(ps, S) \in 1..D /\ ps[First(ps, S)] \in S
        /\ \A j \in 1..(First(ps, S) - 1) : ps[j] \notin S
    BY <2>1, <2>2, Zenon
  <2>4. First(ps, S) # 0
    BY <2>3 DEF D
  <2> QED BY <2>3, <2>4
<1>2. CASE ~\E i \in 1..D : ps[i] \in S
  <2>1. First(ps, S) = 0
    BY <1>2 DEF First
  <2> QED BY <1>2, <2>1
<1> QED BY <1>1, <1>2

\* The candidates of a key are slots.
LEMMA CandidateSlot ==
  ASSUME NEW k \in Keys, NEW i \in 1..D
  PROVE  Positions[k][i] \in Slots /\ Candidate(k, Positions[k][i])
  BY CuckooAssumption DEF Candidate

\* Whether a slot is free depends on its item alone.
LEMMA FreeItem ==
  ASSUME NEW d, NEW e, NEW s, NEW t, d[s] = e[t]
  PROVE  /\ Free(d, s) <=> Free(e, t)
         /\ slot_is_empty(d, s) <=> slot_is_empty(e, t)
         /\ slot_is_expired(d, s) <=> slot_is_expired(e, t)
  BY DEF Free, slot_is_empty, slot_is_expired

\* A cleared slot is free.
LEMMA EmptyIsFree ==
  ASSUME NEW d, NEW s, d[s] = EmptySlot
  PROVE  Free(d, s) /\ slot_is_empty(d, s) /\ EmptySlot \in Items
  BY DEF Free, slot_is_empty, EmptySlot, Items, Vals

\* Clearing a slot empties it and keeps the table good.
LEMMA ClearGood ==
  ASSUME NEW d, Good(d), NEW p \in Slots
  PROVE  /\ Good(clear_slot(d, p)) /\ clear_slot(d, p)[p] = EmptySlot
         /\ \A q \in Slots : q # p => clear_slot(d, p)[q] = d[q]
<1> DEFINE e == clear_slot(d, p)
<1>1. d \in [Slots -> Items]
  BY DEF Good
<1>2. e[p] = EmptySlot /\ \A q \in Slots : q # p => e[q] = d[q]
  BY <1>1 DEF clear_slot
<1>3. Free(e, p) /\ slot_is_empty(e, p) /\ EmptySlot \in Items
  BY <1>2, EmptyIsFree
<1>4. e \in [Slots -> Items]
  BY <1>1, <1>3 DEF clear_slot
<1>5. \A q \in Slots : q # p => (Free(e, q) <=> Free(d, q)) /\ (slot_is_empty(e, q) <=> slot_is_empty(d, q))
  BY <1>2, FreeItem
<1> HIDE DEF e
<1>6. \A s \in Slots : ~slot_is_empty(e, s) => e[s].key \in Keys /\ Candidate(e[s].key, s)
  BY <1>2, <1>3, <1>5 DEF Good
<1>7. \A s, t \in Slots : Live(e, s) /\ Live(e, t) /\ e[s].key = e[t].key => s = t
  BY <1>2, <1>3, <1>5 DEF Good, Live
<1>8. Good(e)
  BY <1>4, <1>6, <1>7 DEF Good
<1> QED BY <1>2, <1>8 DEF e

\* Clearing a free slot loses no live item.
LEMMA ClearKeeps ==
  ASSUME NEW d, Good(d), NEW p \in Slots, Free(d, p)
  PROVE  Contents(clear_slot(d, p)) = Contents(d)
<1> DEFINE e == clear_slot(d, p)
<1>1. e[p] = EmptySlot /\ \A q \in Slots : q # p => e[q] = d[q]
  BY ClearGood
<1>2. Free(e, p)
  BY <1>1, EmptyIsFree
<1>3. \A q \in Slots : q # p => (Free(e, q) <=> Free(d, q))
  BY <1>1, FreeItem
<1> HIDE DEF e
<1>4. \A q \in Slots : Live(e, q) <=> Live(d, q)
  BY <1>2, <1>3 DEF Live
<1>5. \A q \in Slots : Live(d, q) => e[q] = d[q]
  BY <1>1 DEF Live
<1>6. Contents(e) = Contents(d)
  BY <1>4, <1>5 DEF Contents
<1> QED BY <1>6 DEF e

\* Moving an item to a free candidate keeps the table good and loses none.
LEMMA MoveGood ==
  ASSUME NEW d, Good(d), NEW p \in Slots, NEW to \in Slots, p # to, Free(d, to),
         slot_is_empty(d, p) \/ Candidate(d[p].key, to)
  PROVE  /\ Frees(d, p, move_slot(d, p, to)) /\ move_slot(d, p, to)[to] = d[p]
         /\ \A q \in Slots \ {p, to} : move_slot(d, p, to)[q] = d[q]
<1> DEFINE e == move_slot(d, p, to)
<1>1. d \in [Slots -> Items]
  BY DEF Good
<1>2. e[p] = EmptySlot /\ e[to] = d[p] /\ \A q \in Slots \ {p, to} : e[q] = d[q]
  BY <1>1 DEF move_slot
<1>3. Free(e, p) /\ slot_is_empty(e, p) /\ EmptySlot \in Items
  BY <1>2, EmptyIsFree
<1>4. e \in [Slots -> Items]
  BY <1>1, <1>3 DEF move_slot
<1>5. (Free(e, to) <=> Free(d, p)) /\ (slot_is_empty(e, to) <=> slot_is_empty(d, p))
  BY <1>2, FreeItem
<1>6. \A q \in Slots \ {p, to} :
        (Free(e, q) <=> Free(d, q)) /\ (slot_is_empty(e, q) <=> slot_is_empty(d, q))
  BY <1>2, FreeItem
<1> HIDE DEF e
<1>7. ASSUME NEW s \in Slots, ~slot_is_empty(e, s) PROVE e[s].key \in Keys /\ Candidate(e[s].key, s)
  <2>1. CASE s = to
    BY <1>2, <1>5, <1>7, <2>1 DEF Good
  <2>2. CASE s # to
    BY <1>2, <1>3, <1>6, <1>7, <2>2 DEF Good
  <2> QED BY <2>1, <2>2
<1>8. ASSUME NEW s \in Slots, NEW t \in Slots, Live(e, s), Live(e, t), e[s].key = e[t].key PROVE s = t
  <2> DEFINE Was(q) == IF q = to THEN p ELSE q
  <2>1. ASSUME NEW q \in Slots, Live(e, q)
        PROVE  q # p /\ Was(q) \in Slots /\ Live(d, Was(q)) /\ d[Was(q)] = e[q]
    BY <1>2, <1>3, <1>5, <1>6, <2>1 DEF Live
  <2>2. Was(s) = Was(t) /\ s # p /\ t # p
    <3>1. /\ s # p /\ Was(s) \in Slots /\ Live(d, Was(s)) /\ d[Was(s)] = e[s]
          /\ t # p /\ Was(t) \in Slots /\ Live(d, Was(t)) /\ d[Was(t)] = e[t]
      BY <1>8, <2>1
    <3> HIDE DEF Was
    <3> QED BY <1>8, <3>1 DEF Good
  <2> QED BY <2>2
<1>9. Good(e)
  BY <1>4, <1>7, <1>8 DEF Good
<1>10. Contents(e) = Contents(d)
  <2>1. ASSUME NEW s \in Slots, Live(e, s) PROVE \E t \in Slots : Live(d, t) /\ d[t] = e[s]
    BY <1>2, <1>3, <1>5, <1>6, <2>1 DEF Live
  <2>2. ASSUME NEW s \in Slots, Live(d, s) PROVE \E t \in Slots : Live(e, t) /\ e[t] = d[s]
    BY <1>2, <1>3, <1>5, <1>6, <2>2 DEF Live
  <2> QED BY <2>1, <2>2 DEF Contents
<1> QED BY <1>2, <1>9, <1>10 DEF e, Frees

-----------------------------------------------------------------------------
(* Displacement. *)

\* What the two loops of displace_from may do to the occupant of p.
LEMMA MoveCases ==
  ASSUME NEW d, Good(d), NEW p \in Slots, Live(d, p), NEW deeper, MoveOccupant(d, p, deeper).freed
  PROVE  \/ \E alt \in Slots \ {p} :
              /\ Candidate(d[p].key, alt) /\ Free(d, alt)
              /\ MoveOccupant(d, p, deeper).data = move_slot(d, p, alt)
         \/ /\ ~Direct(d, p)
            /\ \E alt \in Slots \ {p} :
                 /\ Candidate(d[p].key, alt) /\ Live(d, alt) /\ deeper[alt].freed
                 /\ MoveOccupant(d, p, deeper).data = move_slot(deeper[alt].data, p, alt)
<1> DEFINE alts   == Positions[d[p].key]
           near   == {alt \in Slots \ {p} : Free(d, alt)}
           far    == {alt \in Slots \ {p} : deeper[alt].freed}
           direct == First(alts, near)
           deep   == First(alts, far)
<1>1. d[p].key \in Keys
  BY DEF Good, Live, Free
<1>2. \A i \in 1..D : alts[i] \in Slots /\ Candidate(d[p].key, alts[i])
  BY <1>1, CandidateSlot
<1>3. direct # 0 => direct \in 1..D /\ alts[direct] \in near
  BY FirstIs
<1>4. deep # 0 => deep \in 1..D /\ alts[deep] \in far
  BY FirstIs
<1>5. direct = 0 => ~Direct(d, p)
  BY FirstIs DEF Direct, Candidate
<1>6. MoveOccupant(d, p, deeper) =
        IF direct # 0 THEN Freed(move_slot(d, p, alts[direct]))
        ELSE IF deep # 0 THEN Freed(move_slot(deeper[alts[deep]].data, p, alts[deep]))
        ELSE NoRoom
  BY DEF MoveOccupant
<1>7. CASE direct # 0
  <2>1. MoveOccupant(d, p, deeper).data = move_slot(d, p, alts[direct])
    BY <1>6, <1>7 DEF Freed
  <2> QED BY <1>2, <1>3, <1>7, <2>1
<1>8. CASE direct = 0 /\ deep # 0
  <2>1. MoveOccupant(d, p, deeper).data = move_slot(deeper[alts[deep]].data, p, alts[deep])
    BY <1>6, <1>8 DEF Freed
  <2>2. alts[deep] \in Slots \ {p} /\ deeper[alts[deep]].freed /\ Candidate(d[p].key, alts[deep])
    BY <1>2, <1>4, <1>8
  <2>3. ~Direct(d, p)
    BY <1>5, <1>8
  <2>4. Live(d, alts[deep])
    BY <2>2, <2>3 DEF Direct, Live
  <2> QED BY <2>1, <2>2, <2>3, <2>4
<1>9. CASE direct = 0 /\ deep = 0
  <2>1. MoveOccupant(d, p, deeper) = NoRoom
    BY <1>6, <1>9
  <2>2. ~NoRoom.freed
    BY DEF NoRoom
  <2> QED BY <2>1, <2>2
<1> QED BY <1>7, <1>8, <1>9

\* Moving an item directly frees its slot and leaves the others alone.
LEMMA DirectMove ==
  ASSUME NEW d, Good(d), NEW p \in Slots, Live(d, p), NEW alt \in Slots \ {p},
         Candidate(d[p].key, alt), Free(d, alt)
  PROVE  Frees(d, p, move_slot(d, p, alt)) /\ Kept(d, p, move_slot(d, p, alt)) /\ Direct(d, p)
<1>1. Frees(d, p, move_slot(d, p, alt)) /\ \A q \in Slots \ {p, alt} : move_slot(d, p, alt)[q] = d[q]
  BY MoveGood
<1>2. Kept(d, p, move_slot(d, p, alt))
  BY <1>1 DEF Kept, Live
<1> QED BY <1>1, <1>2 DEF Direct

\* An item that had to wait for alt to be freed is still where it was, or
\* alt's old item is: either may go to alt.
LEMMA DeepMove ==
  ASSUME NEW d, Good(d), NEW p \in Slots, Live(d, p), ~Direct(d, p), NEW alt \in Slots \ {p},
         Candidate(d[p].key, alt), Live(d, alt), NEW e, Frees(d, alt, e), KeptOrMoved(d, alt, e)
  PROVE  /\ Frees(d, p, move_slot(e, p, alt)) /\ move_slot(e, p, alt)[alt] = e[p]
         /\ \A q \in Slots \ {p, alt} : move_slot(e, p, alt)[q] = e[q]
<1>1. Good(e) /\ Contents(e) = Contents(d) /\ e[alt] = EmptySlot
  BY DEF Frees
<1>2. Free(e, alt)
  BY <1>1, EmptyIsFree
<1>3. e[p] \in {d[p], d[alt]}
  BY DEF KeptOrMoved
<1>4. Candidate(d[alt].key, alt)
  BY DEF Good, Live, Free
<1>5. Candidate(e[p].key, alt)
  BY <1>3, <1>4
<1>6. /\ Frees(e, p, move_slot(e, p, alt)) /\ move_slot(e, p, alt)[alt] = e[p]
      /\ \A q \in Slots \ {p, alt} : move_slot(e, p, alt)[q] = e[q]
  BY <1>1, <1>2, <1>5, MoveGood
<1> QED BY <1>1, <1>6 DEF Frees

\* Items that stayed also count as stayed or moved.
LEMMA KeptWeaker ==
  ASSUME NEW d, NEW p, NEW e, Kept(d, p, e)
  PROVE  KeptOrMoved(d, p, e)
  BY DEF Kept, KeptOrMoved

\* The answer of one level for a live slot.
LEMMA LevelAnswer ==
  ASSUME NEW d, NEW p \in Slots, Live(d, p), NEW left, NEW deeper
  PROVE  Level(d, left, deeper)[p] = IF left = 0 THEN NoRoom ELSE MoveOccupant(d, p, deeper)
  BY DEF Level, Live

\* No level left: a live slot is not freed.
LEMMA Level0Sound ==
  ASSUME NEW d, NEW p \in Slots, Live(d, p)
  PROVE  ~Level0(d)[p].freed
  BY LevelAnswer DEF Level0, NoRoom

\* One level: the item moves directly.
LEMMA Level1Sound ==
  ASSUME NEW d, Good(d), NEW p \in Slots, Live(d, p), Level1(d)[p].freed
  PROVE  Frees(d, p, Level1(d)[p].data) /\ Kept(d, p, Level1(d)[p].data) /\ Direct(d, p)
<1>1. Level1(d)[p] = MoveOccupant(d, p, Level0(d))
  BY LevelAnswer DEF Level1
<1>2. PICK alt \in Slots \ {p} : /\ Candidate(d[p].key, alt) /\ Free(d, alt)
                                 /\ Level1(d)[p].data = move_slot(d, p, alt)
  BY <1>1, MoveCases, Level0Sound
<1> QED BY <1>2, DirectMove

\* Two levels: the item moves directly, or to a slot whose item does.
LEMMA Level2Sound ==
  ASSUME NEW d, Good(d), NEW p \in Slots, Live(d, p), Level2(d)[p].freed
  PROVE  Frees(d, p, Level2(d)[p].data) /\ Kept(d, p, Level2(d)[p].data)
<1>1. Level2(d)[p] = MoveOccupant(d, p, Level1(d))
  BY LevelAnswer DEF Level2
<1>2. ASSUME NEW alt \in Slots \ {p}, Candidate(d[p].key, alt), Free(d, alt),
             Level2(d)[p].data = move_slot(d, p, alt)
      PROVE  Frees(d, p, Level2(d)[p].data) /\ Kept(d, p, Level2(d)[p].data)
  BY <1>2, DirectMove
<1>3. ASSUME ~Direct(d, p), NEW alt \in Slots \ {p}, Candidate(d[p].key, alt), Live(d, alt),
             Level1(d)[alt].freed, Level2(d)[p].data = move_slot(Level1(d)[alt].data, p, alt)
      PROVE  Frees(d, p, Level2(d)[p].data) /\ Kept(d, p, Level2(d)[p].data)
  <2>1. PICK e : e = Level1(d)[alt].data
    OBVIOUS
  <2>2. Frees(d, alt, e) /\ Kept(d, alt, e) /\ Direct(d, alt)
    BY <1>3, <2>1, Level1Sound
  <2>3. Frees(d, p, move_slot(e, p, alt)) /\ \A q \in Slots \ {p, alt} : move_slot(e, p, alt)[q] = e[q]
    BY <1>3, <2>2, KeptWeaker, DeepMove
  <2>4. Kept(d, p, move_slot(e, p, alt))
    BY <2>2, <2>3 DEF Kept
  <2> QED BY <1>3, <2>1, <2>3, <2>4
<1> QED BY <1>1, <1>2, <1>3, MoveCases

\* Three levels: the slot that p's item goes to may have held an item that
\* could not move directly.
LEMMA Level3Sound ==
  ASSUME NEW d, Good(d), NEW p \in Slots, Live(d, p), Level3(d)[p].freed
  PROVE  Frees(d, p, Level3(d)[p].data) /\ KeptOrMoved(d, p, Level3(d)[p].data)
<1>1. Level3(d)[p] = MoveOccupant(d, p, Level2(d))
  BY LevelAnswer DEF Level3
<1>2. ASSUME NEW alt \in Slots \ {p}, Candidate(d[p].key, alt), Free(d, alt),
             Level3(d)[p].data = move_slot(d, p, alt)
      PROVE  Frees(d, p, Level3(d)[p].data) /\ KeptOrMoved(d, p, Level3(d)[p].data)
  BY <1>2, DirectMove, KeptWeaker
<1>3. ASSUME ~Direct(d, p), NEW alt \in Slots \ {p}, Candidate(d[p].key, alt), Live(d, alt),
             Level2(d)[alt].freed, Level3(d)[p].data = move_slot(Level2(d)[alt].data, p, alt)
      PROVE  Frees(d, p, Level3(d)[p].data) /\ KeptOrMoved(d, p, Level3(d)[p].data)
  <2>1. PICK e : e = Level2(d)[alt].data
    OBVIOUS
  <2>2. Frees(d, alt, e) /\ Kept(d, alt, e)
    BY <1>3, <2>1, Level2Sound
  <2>3. /\ Frees(d, p, move_slot(e, p, alt)) /\ move_slot(e, p, alt)[alt] = e[p]
        /\ \A q \in Slots \ {p, alt} : move_slot(e, p, alt)[q] = e[q]
    BY <1>3, <2>2, KeptWeaker, DeepMove
  <2>4. e[p] = d[p]
    BY <1>3, <2>2 DEF Kept
  <2>5. KeptOrMoved(d, p, move_slot(e, p, alt))
    BY <2>2, <2>3, <2>4 DEF Kept, KeptOrMoved
  <2> QED BY <1>3, <2>1, <2>3, <2>5
<1> QED BY <1>1, <1>2, <1>3, MoveCases

\* Four levels: the chain may have come back to p, but only with the item
\* of the slot that p's is to go to.
LEMMA Level4Sound ==
  ASSUME NEW d, Good(d), NEW p \in Slots, Live(d, p), Level4(d)[p].freed
  PROVE  Frees(d, p, Level4(d)[p].data)
<1>1. Level4(d)[p] = MoveOccupant(d, p, Level3(d))
  BY LevelAnswer DEF Level4
<1>2. ASSUME NEW alt \in Slots \ {p}, Candidate(d[p].key, alt), Free(d, alt),
             Level4(d)[p].data = move_slot(d, p, alt)
      PROVE  Frees(d, p, Level4(d)[p].data)
  BY <1>2, DirectMove
<1>3. ASSUME ~Direct(d, p), NEW alt \in Slots \ {p}, Candidate(d[p].key, alt), Live(d, alt),
             Level3(d)[alt].freed, Level4(d)[p].data = move_slot(Level3(d)[alt].data, p, alt)
      PROVE  Frees(d, p, Level4(d)[p].data)
  <2>1. PICK e : e = Level3(d)[alt].data
    OBVIOUS
  <2>2. Frees(d, alt, e) /\ KeptOrMoved(d, alt, e)
    BY <1>3, <2>1, Level3Sound
  <2>3. Frees(d, p, move_slot(e, p, alt))
    BY <1>3, <2>2, DeepMove
  <2> QED BY <1>3, <2>1, <2>3
<1> QED BY <1>1, <1>2, <1>3, MoveCases

\* What displace_from frees, it frees without losing or misplacing an item.
LEMMA DisplaceSound ==
  ASSUME max_displace <= 4, NEW d, Good(d), NEW p \in Slots, Live(d, p), displace_from(d, p, 0).freed
  PROVE  Frees(d, p, displace_from(d, p, 0).data)
<1>1. max_displace \in Nat
  BY CuckooAssumption
<1>2. CASE max_displace = 0
  BY <1>2, DisplaceIs, Level0Sound
<1>3. CASE max_displace = 1
  BY <1>3, DisplaceIs, Level1Sound
<1>4. CASE max_displace = 2
  BY <1>4, DisplaceIs, Level2Sound
<1>5. CASE max_displace = 3
  BY <1>5, DisplaceIs, Level3Sound
<1>6. CASE max_displace = 4
  BY <1>6, DisplaceIs, Level4Sound
<1> QED BY <1>1, <1>2, <1>3, <1>4, <1>5, <1>6

-----------------------------------------------------------------------------
(* The invariant. *)

TypeOK ==
  /\ now \in 0..MaxTime
  /\ policy \in Policies
  /\ truth \in [Keys -> Vals]

\* A live item has the value that was last written for its key.
Fresh(d) == \A s \in Slots : Live(d, s) => d[s].value = truth[d[s].key] /\ d[s].value # None

IInv == TypeOK /\ Good(data) /\ Fresh(data)

\* The live items of a table.
LEMMA InContents ==
  ASSUME NEW d, NEW r
  PROVE  r \in Contents(d) <=> \E s \in Slots : Live(d, s) /\ d[s] = r
  BY DEF Contents

\* A change of one slot loses at most its item.
LEMMA LostAt ==
  ASSUME NEW d, NEW e, NEW p \in Slots, \A q \in Slots \ {p} : e[q] = d[q]
  PROVE  /\ Contents(d) \ Contents(e) \subseteq {d[p]}
         /\ Free(d, p) \/ e[p] = d[p] => Contents(d) \subseteq Contents(e)
<1>1. \A q \in Slots \ {p} : Live(e, q) <=> Live(d, q)
  BY FreeItem DEF Live
<1>2. e[p] = d[p] => (Live(e, p) <=> Live(d, p))
  BY FreeItem DEF Live
<1>3. \A r \in Contents(d) : r = d[p] \/ r \in Contents(e)
  BY <1>1, InContents
<1>4. Free(d, p) \/ e[p] = d[p] => Contents(d) \subseteq Contents(e)
  BY <1>1, <1>2, InContents DEF Live
<1> QED BY <1>3, <1>4

\* Storing an item in a candidate slot of its key, no other slot having it
\* live, keeps the table good.
LEMMA PutGood ==
  ASSUME NEW e, Good(e), NEW p \in Slots, NEW item \in Items, item.key \in Keys, Candidate(item.key, p),
         \A q \in Slots \ {p} : Live(e, q) => e[q].key # item.key
  PROVE  /\ Good([e EXCEPT ![p] = item]) /\ [e EXCEPT ![p] = item][p] = item
         /\ \A q \in Slots \ {p} : [e EXCEPT ![p] = item][q] = e[q]
<1> DEFINE f == [e EXCEPT ![p] = item]
<1>1. e \in [Slots -> Items]
  BY DEF Good
<1>2. f[p] = item /\ f \in [Slots -> Items] /\ \A q \in Slots \ {p} : f[q] = e[q]
  BY <1>1
<1> HIDE DEF f
<1>3. \A q \in Slots \ {p} : (Free(f, q) <=> Free(e, q)) /\ (slot_is_empty(f, q) <=> slot_is_empty(e, q))
  BY <1>2, FreeItem
<1>4. \A s \in Slots : ~slot_is_empty(f, s) => f[s].key \in Keys /\ Candidate(f[s].key, s)
  BY <1>2, <1>3 DEF Good
<1>5. \A s, t \in Slots : Live(f, s) /\ Live(f, t) /\ f[s].key = f[t].key => s = t
  BY <1>2, <1>3 DEF Good, Live
<1>6. Good(f)
  BY <1>2, <1>4, <1>5 DEF Good
<1> QED BY <1>2, <1>6 DEF f

\* A step that leaves the clock alone.
LEMMA SameClock ==
  ASSUME now' = now, Good(data')
  PROVE  Good(data)'
  BY DEF Good, Live, Free, slot_is_empty, slot_is_expired

\* The expiry computed for an insert is a time.
LEMMA ExpireType ==
  ASSUME TypeOK, NEW ttl \in Ttls
  PROVE  compute_expire(ttl) \in Nat
<1>1. ttl \in Nat /\ max_ttl \in Nat /\ NoExpiry \in Nat /\ now \in Nat
  BY CuckooAssumption DEF TypeOK
<1>2. ttl \div 2 \in Nat
  BY <1>1
<1> QED BY <1>1, <1>2 DEF compute_expire

-----------------------------------------------------------------------------
(* insert. *)

\* Of four numbers one is least.
LEMMA LeastOfFour ==
  ASSUME NEW f \in [1..D -> Nat]
  PROVE  \E i \in 1..D : \A j \in 1..D : f[i] <= f[j]
<1>1. /\ 1 \in 1..D /\ 2 \in 1..D /\ 3 \in 1..D /\ 4 \in 1..D
      /\ \A j \in 1..D : j = 1 \/ j = 2 \/ j = 3 \/ j = 4
  BY DEF D
<1>2. f[1] \in Nat /\ f[2] \in Nat /\ f[3] \in Nat /\ f[4] \in Nat
  BY <1>1
<1>3. \/ f[1] <= f[2] /\ f[1] <= f[3] /\ f[1] <= f[4]
      \/ f[2] <= f[1] /\ f[2] <= f[3] /\ f[2] <= f[4]
      \/ f[3] <= f[1] /\ f[3] <= f[2] /\ f[3] <= f[4]
      \/ f[4] <= f[1] /\ f[4] <= f[2] /\ f[4] <= f[3]
  BY <1>2
<1>4. \A i \in 1..D : f[i] <= f[i]
  OBVIOUS
<1> QED BY <1>1, <1>3, <1>4

\* select_victim picks one of the candidates.
LEMMA VictimsType ==
  ASSUME Good(data), NEW k \in Keys
  PROVE  Victims(Positions[k]) \subseteq 1..D
<1> DEFINE ps == Positions[k]
           best == {p \in Slots : \A i \in 1..D : data[p].expire <= data[ps[i]].expire}
<1>1. \A i \in 1..D : ps[i] \in Slots /\ data[ps[i]].expire \in Nat
  BY CandidateSlot DEF Good, Items
<1>2. \E i \in 1..D : ps[i] \in best
  <2> DEFINE f == [i \in 1..D |-> data[ps[i]].expire]
  <2>1. f \in [1..D -> Nat]
    BY <1>1
  <2>2. PICK i \in 1..D : \A j \in 1..D : f[i] <= f[j]
    BY <2>1, LeastOfFour
  <2>3. \A j \in 1..D : data[ps[i]].expire <= data[ps[j]].expire
    BY <2>2
  <2> QED BY <1>1, <2>3
<1>3. First(ps, best) \in 1..D
  BY <1>2, FirstIs
<1>4. Victims(ps) \subseteq {First(ps, best)} \cup 1..D
  BY DEF Victims
<1> QED BY <1>3, <1>4

\* The passes of find_slot_for_insert end with a candidate slot that holds the
\* key's live item, or that is free in a table without one; the table has lost
\* at most the victim, and that only when every candidate was live.
LEMMA FindSlot ==
  ASSUME max_displace <= 4, Good(data), NEW k \in Keys, NEW found \in find_slot_for_insert(k)
  PROVE  /\ found.pos \in Slots /\ Candidate(k, found.pos) /\ Good(found.data)
         /\ \/ found.data = data /\ Live(data, found.pos) /\ data[found.pos].key = k
            \/ /\ Free(found.data, found.pos)
               /\ \A s \in Slots : Live(data, s) => data[s].key # k
               /\ \/ Contents(found.data) = Contents(data)
                  \/ /\ found.data = clear_slot(data, found.pos)
                     /\ \A c \in 1..D : Live(data, Positions[k][c])
<1> DEFINE ps        == Positions[k]
           Movable   == {s \in Slots : displace_from(data, s, 0).freed}
           existing  == First(ps, LiveWith(k))
           empty     == First(ps, Empty)
           expired   == First(ps, Expired)
           displaced == First(ps, Movable)
<1>1. \A i \in 1..D : ps[i] \in Slots /\ Candidate(k, ps[i])
  BY CandidateSlot
<1>2. /\ existing = 0 => \A i \in 1..D : ps[i] \notin LiveWith(k)
      /\ existing # 0 => existing \in 1..D /\ ps[existing] \in LiveWith(k)
  BY FirstIs
<1>3. /\ empty = 0 => \A i \in 1..D : ps[i] \notin Empty
      /\ empty # 0 => empty \in 1..D /\ ps[empty] \in Empty
  BY FirstIs
<1>4. /\ expired = 0 => \A i \in 1..D : ps[i] \notin Expired
      /\ expired # 0 => expired \in 1..D /\ ps[expired] \in Expired
  BY FirstIs
<1>5. displaced # 0 => displaced \in 1..D /\ ps[displaced] \in Movable
  BY FirstIs
<1>6. found \in IF existing # 0 THEN {[pos |-> ps[existing], data |-> data]}
                ELSE IF empty # 0 THEN {[pos |-> ps[empty], data |-> data]}
                ELSE IF expired # 0 THEN {[pos |-> ps[expired], data |-> clear_slot(data, ps[expired])]}
                ELSE IF displaced # 0
                THEN {[pos |-> ps[displaced], data |-> displace_from(data, ps[displaced], 0).data]}
                ELSE {[pos |-> ps[i], data |-> clear_slot(data, ps[i])] : i \in Victims(ps)}
  BY DEF find_slot_for_insert
<1> HIDE DEF existing, empty, expired, displaced, Movable
<1>7. existing = 0 => \A s \in Slots : Live(data, s) => data[s].key # k
  BY <1>2 DEF LiveWith, Good, Live, Free, Candidate
<1>8. empty = 0 /\ expired = 0 => \A c \in 1..D : Live(data, ps[c])
  BY <1>1, <1>3, <1>4 DEF Empty, Expired, Live, Free
<1>9. CASE existing # 0
  <2>1. found = [pos |-> ps[existing], data |-> data]
    BY <1>6, <1>9
  <2>2. found.pos = ps[existing] /\ found.data = data
    BY <2>1
  <2> QED BY <1>1, <1>2, <1>9, <2>2 DEF LiveWith, Live
<1>10. CASE existing = 0 /\ empty # 0
  <2>1. found = [pos |-> ps[empty], data |-> data]
    BY <1>6, <1>10
  <2>2. found.pos = ps[empty] /\ found.data = data
    BY <2>1
  <2> QED BY <1>1, <1>3, <1>7, <1>10, <2>2 DEF Empty, Free
<1>11. CASE existing = 0 /\ empty = 0 /\ expired # 0
  <2>1. found = [pos |-> ps[expired], data |-> clear_slot(data, ps[expired])]
    BY <1>6, <1>11
  <2>2. found.pos = ps[expired] /\ found.data = clear_slot(data, found.pos)
    BY <2>1
  <2>3. found.pos \in Slots /\ Candidate(k, found.pos) /\ Free(data, found.pos)
    BY <1>1, <1>4, <1>11, <2>2 DEF Expired, Free
  <2>4. Good(found.data) /\ found.data[found.pos] = EmptySlot /\ Contents(found.data) = Contents(data)
    BY <2>2, <2>3, ClearGood, ClearKeeps
  <2>5. Free(found.data, found.pos)
    BY <2>4, EmptyIsFree
  <2> QED BY <1>7, <1>11, <2>3, <2>4, <2>5
<1>12. CASE existing = 0 /\ empty = 0 /\ expired = 0 /\ displaced # 0
  <2>1. found = [pos |-> ps[displaced], data |-> displace_from(data, ps[displaced], 0).data]
    BY <1>6, <1>12
  <2>2. found.pos = ps[displaced] /\ found.data = displace_from(data, found.pos, 0).data
    BY <2>1
  <2>3. found.pos \in Slots /\ Candidate(k, found.pos) /\ Live(data, found.pos)
    BY <1>1, <1>5, <1>8, <1>12, <2>2
  <2>4. displace_from(data, found.pos, 0).freed
    BY <1>5, <1>12, <2>2 DEF Movable
  <2>5. Frees(data, found.pos, found.data)
    BY <2>2, <2>3, <2>4, DisplaceSound
  <2>6. Good(found.data) /\ Contents(found.data) = Contents(data) /\ found.data[found.pos] = EmptySlot
    BY <2>5 DEF Frees
  <2>7. Free(found.data, found.pos)
    BY <2>6, EmptyIsFree
  <2> QED BY <1>7, <1>12, <2>3, <2>6, <2>7
<1>13. CASE existing = 0 /\ empty = 0 /\ expired = 0 /\ displaced = 0
  <2>1. PICK i \in Victims(ps) : found = [pos |-> ps[i], data |-> clear_slot(data, ps[i])]
    BY <1>6, <1>13
  <2>2. found.pos = ps[i] /\ found.data = clear_slot(data, found.pos)
    BY <2>1
  <2>3. found.pos \in Slots /\ Candidate(k, found.pos)
    BY <1>1, <2>2, VictimsType
  <2>4. Good(found.data) /\ found.data[found.pos] = EmptySlot
    BY <2>2, <2>3, ClearGood
  <2>5. Free(found.data, found.pos)
    BY <2>4, EmptyIsFree
  <2> QED BY <1>7, <1>8, <1>13, <2>2, <2>3, <2>4, <2>5
<1> QED BY <1>9, <1>10, <1>11, <1>12, <1>13

\* The items of a table that has gained nothing are fresh, and none is of a
\* key that was not live.
LEMMA NothingGained ==
  ASSUME NEW d, NEW e, Contents(e) \subseteq Contents(d), NEW k, NEW s \in Slots, Live(e, s)
  PROVE  /\ Fresh(d) => e[s].value = truth[e[s].key] /\ e[s].value # None
         /\ (\A t \in Slots : Live(d, t) => d[t].key # k) => e[s].key # k
<1>1. PICK t \in Slots : Live(d, t) /\ d[t] = e[s]
  BY InContents
<1> QED BY <1>1 DEF Fresh

\* A reading is a value.
LEMMA ReadingsAre ==
  ASSUME NEW k \in Keys, NEW value \in Readings(k)
  PROVE  value # None /\ value \in Vals
<1>1. PICK v \in Inserted[k] : value \in ReadBack(v)
  BY DEF Readings
<1>2. None \notin Numbers /\ (v \notin Numbers => Cut[v] # None)
  BY CuckooAssumption
<1>3. value \in Numbers \/ (v \notin Numbers /\ value = Cut[v])
  BY <1>1, Zenon DEF ReadBack
<1>4. value # None
  BY <1>2, <1>3
<1> QED BY <1>4 DEF Vals

\* insert writes a reading of the value.
LEMMA InsertWrites ==
  ASSUME NEW k \in Keys, NEW ttl, NEW v \in Inserted[k], Insert(k, v, ttl)
  PROVE  \E value \in Readings(k) : Write(k, value, ttl)
  BY Zenon DEF Insert, Readings

\* What insert does to the table.
LEMMA InsertTable ==
  ASSUME max_displace <= 4, IInv, NEW k \in Keys, NEW ttl \in Ttls, NEW value \in Readings(k),
         Write(k, value, ttl)
  PROVE  \E pos \in Slots, e \in [Slots -> Items], item \in Items :
           /\ item.key = k /\ item.value = value /\ Candidate(k, pos)
           /\ Good(e) /\ data' = [e EXCEPT ![pos] = item]
           /\ \A q \in Slots \ {pos} : Live(e, q) => e[q].key # k
           /\ \/ e = data /\ Live(data, pos) /\ data[pos].key = k
              \/ /\ Free(e, pos) /\ \A s \in Slots : Live(data, s) => data[s].key # k
                 /\ \/ Contents(e) = Contents(data)
                    \/ e = clear_slot(data, pos) /\ \A c \in 1..D : Live(data, Positions[k][c])
<1> DEFINE item == [key |-> k, value |-> value, expire |-> compute_expire(ttl)]
<1>1. PICK found \in find_slot_for_insert(k) : data' = [found.data EXCEPT ![found.pos] = item]
  BY DEF Write
<1>2. Good(data) /\ TypeOK
  BY DEF IInv
<1>3. /\ found.pos \in Slots /\ Candidate(k, found.pos) /\ Good(found.data)
      /\ \/ found.data = data /\ Live(data, found.pos) /\ data[found.pos].key = k
         \/ /\ Free(found.data, found.pos)
            /\ \A s \in Slots : Live(data, s) => data[s].key # k
            /\ \/ Contents(found.data) = Contents(data)
               \/ /\ found.data = clear_slot(data, found.pos)
                  /\ \A c \in 1..D : Live(data, Positions[k][c])
  BY <1>2, FindSlot
<1>4. item \in Items /\ item.key = k /\ item.value = value
  BY <1>2, ExpireType, ReadingsAre DEF Items
<1>5. found.data \in [Slots -> Items]
  BY <1>3 DEF Good
<1>6. \A q \in Slots \ {found.pos} : Live(found.data, q) => found.data[q].key # k
  <2>1. CASE found.data = data /\ Live(data, found.pos) /\ data[found.pos].key = k
    BY <1>2, <1>3, <2>1 DEF Good
  <2>2. CASE /\ \A s \in Slots : Live(data, s) => data[s].key # k
             /\ Contents(found.data) = Contents(data)
    BY <2>2, NothingGained
  <2>3. CASE /\ \A s \in Slots : Live(data, s) => data[s].key # k
             /\ found.data = clear_slot(data, found.pos)
    <3>1. \A q \in Slots \ {found.pos} : found.data[q] = data[q]
      BY <1>2, <1>3, <2>3, ClearGood
    <3> QED BY <2>3, <3>1, FreeItem DEF Live
  <2> QED BY <1>3, <2>1, <2>2, <2>3
<1> HIDE DEF item
<1> QED BY <1>1, <1>3, <1>4, <1>5, <1>6

\* insert keeps the invariant.
LEMMA InsertStep ==
  ASSUME max_displace <= 4, IInv, NEW k \in Keys, NEW ttl \in Ttls, NEW value \in Readings(k),
         Write(k, value, ttl)
  PROVE  IInv'
<1>1. Good(data) /\ TypeOK /\ Fresh(data)
  BY DEF IInv
<1>2. PICK pos \in Slots, e \in [Slots -> Items], item \in Items :
           /\ item.key = k /\ item.value = value /\ Candidate(k, pos)
           /\ Good(e) /\ data' = [e EXCEPT ![pos] = item]
           /\ \A q \in Slots \ {pos} : Live(e, q) => e[q].key # k
           /\ \/ e = data /\ Live(data, pos) /\ data[pos].key = k
              \/ /\ Free(e, pos) /\ \A s \in Slots : Live(data, s) => data[s].key # k
                 /\ \/ Contents(e) = Contents(data)
                    \/ e = clear_slot(data, pos) /\ \A c \in 1..D : Live(data, Positions[k][c])
  BY InsertTable
<1>3. truth' = [truth EXCEPT ![k] = value] /\ now' = now /\ policy' = policy
  BY DEF Write
<1>4. value # None /\ value \in Vals
  BY ReadingsAre
<1>5. TypeOK'
  BY <1>1, <1>3, <1>4 DEF TypeOK
<1>6. Good(data') /\ data'[pos] = item /\ \A q \in Slots \ {pos} : data'[q] = e[q]
  BY <1>2, PutGood
<1>7. Good(data)'
  BY <1>3, <1>6, SameClock
<1>8. ASSUME NEW q \in Slots \ {pos}, Live(e, q)
      PROVE  e[q].value = truth[e[q].key] /\ e[q].value # None
  <2>1. CASE e = data
    BY <1>1, <1>8, <2>1 DEF Fresh
  <2>2. CASE Contents(e) = Contents(data)
    BY <1>1, <1>8, <2>2, NothingGained
  <2>3. CASE e = clear_slot(data, pos)
    <3>1. e[q] = data[q]
      BY <1>1, <1>8, <2>3, ClearGood
    <3>2. Live(data, q)
      BY <1>8, <3>1, FreeItem DEF Live
    <3> QED BY <1>1, <3>1, <3>2 DEF Fresh
  <2> QED BY <1>2, <2>1, <2>2, <2>3
<1>9. ASSUME NEW s \in Slots, Live(data', s)
      PROVE  data'[s].value = truth'[data'[s].key] /\ data'[s].value # None
  <2>1. CASE s = pos
    BY <1>1, <1>2, <1>3, <1>4, <1>6, <2>1 DEF TypeOK
  <2>2. CASE s # pos
    <3>1. data'[s] = e[s]
      BY <1>6, <2>2
    <3>2. Live(e, s)
      BY <1>9, <3>1, FreeItem DEF Live
    <3>3. e[s].key # k /\ e[s].key \in Keys /\ e[s].value = truth[e[s].key] /\ e[s].value # None
      BY <1>2, <1>8, <2>2, <3>2 DEF Good, Live, Free
    <3> QED BY <1>1, <1>3, <3>1, <3>3 DEF TypeOK
  <2> QED BY <2>1, <2>2
<1>10. Fresh(data)'
  BY <1>3, <1>9 DEF Fresh, Live, Free, slot_is_empty, slot_is_expired
<1> QED BY <1>5, <1>7, <1>10 DEF IInv

-----------------------------------------------------------------------------
(* The other calls. *)

\* The slot at which get and delete stop.
LEMMA HitIs ==
  ASSUME NEW k \in Keys, Hit(k) # 0
  PROVE  HitSlot(k) \in Slots /\ ~slot_is_empty(data, HitSlot(k)) /\ data[HitSlot(k)].key = k
  BY FirstIs DEF Hit, HitSlot, Empty

\* Clearing a slot keeps what is left fresh.
LEMMA ClearedStep ==
  ASSUME IInv, NEW p \in Slots, data' = clear_slot(data, p), now' = now, policy' = policy,
         truth' \in [Keys -> Vals],
         \A q \in Slots \ {p} : Live(data, q) => truth'[data[q].key] = truth[data[q].key]
  PROVE  IInv'
<1>1. Good(data) /\ TypeOK /\ Fresh(data)
  BY DEF IInv
<1>2. /\ Good(data') /\ data'[p] = EmptySlot
      /\ \A q \in Slots : q # p => data'[q] = data[q]
  BY <1>1, ClearGood
<1>3. Good(data)'
  BY <1>2, SameClock
<1>4. Free(data', p)
  BY <1>2, EmptyIsFree
<1>5. ASSUME NEW s \in Slots, Live(data', s)
      PROVE  data'[s].value = truth'[data'[s].key] /\ data'[s].value # None
  <2>1. s # p /\ data'[s] = data[s]
    BY <1>2, <1>4, <1>5 DEF Live
  <2>2. Live(data, s)
    BY <1>5, <2>1, FreeItem DEF Live
  <2> QED BY <1>1, <2>1, <2>2 DEF Fresh
<1>6. Fresh(data)'
  BY <1>5 DEF Fresh, Live, Free, slot_is_empty, slot_is_expired
<1>7. TypeOK'
  BY <1>1 DEF TypeOK
<1> QED BY <1>3, <1>6, <1>7 DEF IInv

\* get keeps the invariant.
LEMMA GetStep ==
  ASSUME IInv, NEW k \in Keys, Get(k)
  PROVE  IInv'
<1>1. HitSlot(k) \in Slots
  BY HitIs DEF Get
<1>2. /\ data' = clear_slot(data, HitSlot(k)) /\ now' = now /\ policy' = policy /\ truth' = truth
      /\ truth \in [Keys -> Vals]
  BY DEF Get, IInv, TypeOK
<1> QED BY <1>1, <1>2, ClearedStep

\* delete keeps the invariant.
LEMMA DeleteStep ==
  ASSUME IInv, NEW k \in Keys, Delete(k)
  PROVE  IInv'
<1>1. HitSlot(k) \in Slots /\ ~slot_is_empty(data, HitSlot(k)) /\ data[HitSlot(k)].key = k
  BY HitIs DEF Delete
<1>2. data' = clear_slot(data, HitSlot(k)) /\ now' = now /\ policy' = policy
  BY DEF Delete
<1>3. truth \in [Keys -> Vals] /\ Good(data)
  BY DEF IInv, TypeOK
<1>4. CASE slot_is_expired(data, HitSlot(k))
  BY <1>1, <1>2, <1>3, <1>4, ClearedStep DEF Delete
<1>5. CASE ~slot_is_expired(data, HitSlot(k))
  <2>1. truth' = [truth EXCEPT ![k] = None]
    BY <1>5 DEF Delete
  <2>2. Live(data, HitSlot(k))
    BY <1>1, <1>5 DEF Live, Free
  <2>3. \A q \in Slots \ {HitSlot(k)} : Live(data, q) => data[q].key \in Keys /\ data[q].key # k
    BY <1>1, <1>3, <2>2 DEF Good, Live, Free
  <2>4. truth' \in [Keys -> Vals]
    BY <1>3, <2>1 DEF Vals
  <2>5. \A q \in Slots \ {HitSlot(k)} : Live(data, q) => truth'[data[q].key] = truth[data[q].key]
    BY <1>3, <2>1, <2>3
  <2> QED BY <1>1, <1>2, <2>4, <2>5, ClearedStep
<1> QED BY <1>4, <1>5

\* clear keeps the invariant.
LEMMA ClearStep ==
  ASSUME IInv, Clear
  PROVE  IInv'
<1>1. /\ data' = [s \in Slots |-> EmptySlot] /\ truth' = [k \in Keys |-> None] /\ now' = now
      /\ policy' = policy
  BY DEF Clear
<1>2. TypeOK'
  BY <1>1 DEF IInv, TypeOK, Vals
<1>3. \A s \in Slots : data'[s] = EmptySlot /\ Free(data', s) /\ slot_is_empty(data', s)
  BY <1>1, EmptyIsFree
<1>4. EmptySlot \in Items
  BY DEF EmptySlot, Items, Vals
<1>5. Good(data')
  BY <1>1, <1>3, <1>4 DEF Good, Live
<1>6. Good(data)'
  BY <1>1, <1>5, SameClock
<1>7. Fresh(data)'
  BY <1>1, <1>3 DEF Fresh, Live, Free, slot_is_empty, slot_is_expired
<1> QED BY <1>2, <1>6, <1>7 DEF IInv

\* A tick of the clock keeps the invariant: items only expire.
LEMMA TickStep ==
  ASSUME IInv, Tick
  PROVE  IInv'
<1>1. /\ now \in 0..MaxTime /\ now < MaxTime /\ now' = now + 1 /\ MaxTime \in Nat
      /\ data' = data /\ policy' = policy /\ truth' = truth
  BY CuckooAssumption DEF Tick, IInv, TypeOK
<1>2. TypeOK'
  BY <1>1 DEF IInv, TypeOK
<1>3. \A s \in Slots : data[s].expire \in Nat
  BY DEF IInv, Good, Items
<1>4. \A s \in Slots : /\ slot_is_empty(data, s)' <=> slot_is_empty(data, s)
                       /\ Free(data, s) => Free(data, s)'
  BY <1>1, <1>3 DEF Free, slot_is_empty, slot_is_expired
<1>5. \A s \in Slots : Live(data, s)' => Live(data, s)
  BY <1>4 DEF Live
<1>6. Good(data)'
  BY <1>1, <1>4, <1>5 DEF IInv, Good
<1>7. Fresh(data)'
  BY <1>1, <1>5 DEF IInv, Fresh
<1> QED BY <1>2, <1>6, <1>7 DEF IInv

\* The slot that wrapping_add and saturating_sub change.
LEMMA NumericHitIs ==
  ASSUME NEW k \in Keys, NumericHit(k) # 0
  PROVE  /\ Positions[k][NumericHit(k)] \in Slots /\ Live(data, Positions[k][NumericHit(k)])
         /\ data[Positions[k][NumericHit(k)]].key = k
  BY FirstIs DEF NumericHit, LiveWith, Live

\* A new number for a live item keeps the invariant.
LEMMA Updated ==
  ASSUME IInv, NEW k \in Keys, NEW s \in Slots, Live(data, s), data[s].key = k, NEW v \in Numbers,
         data' = [data EXCEPT ![s].value = v], truth' = [truth EXCEPT ![k] = v],
         now' = now, policy' = policy
  PROVE  IInv'
<1>1. Good(data) /\ TypeOK /\ Fresh(data) /\ data \in [Slots -> Items] /\ data[s] \in Items
  BY DEF IInv, Good
<1> DEFINE item == [data[s] EXCEPT !.value = v]
<1>2. item \in Items /\ item.key = k /\ item.value = v
  BY <1>1 DEF Items, Vals
<1>3. data' = [data EXCEPT ![s] = item]
  BY <1>1
<1> HIDE DEF item
<1>4. Candidate(k, s)
  BY <1>1 DEF Good, Live, Free
<1>5. \A q \in Slots \ {s} : Live(data, q) => data[q].key # k /\ data[q].key \in Keys
  BY <1>1 DEF Good, Live, Free
<1>6. Good(data') /\ data'[s] = item /\ \A q \in Slots \ {s} : data'[q] = data[q]
  <2>1. PICK f : f = [data EXCEPT ![s] = item] /\ data' = f
    BY <1>3
  <2>2. \A q \in Slots \ {s} : Live(data, q) => data[q].key # item.key
    BY <1>2, <1>5
  <2>3. item.key \in Keys /\ Candidate(item.key, s)
    BY <1>2, <1>4
  <2>4. Good(f) /\ f[s] = item /\ \A q \in Slots \ {s} : f[q] = data[q]
    BY <1>1, <1>2, <2>1, <2>2, <2>3, PutGood
  <2> QED BY <2>1, <2>4
<1>7. Good(data)'
  BY <1>6, SameClock
<1>8. v # None /\ v \in Vals
  BY CuckooAssumption DEF Vals
<1>9. TypeOK'
  BY <1>1, <1>8 DEF TypeOK
<1>10. ASSUME NEW q \in Slots, Live(data', q)
      PROVE  data'[q].value = truth'[data'[q].key] /\ data'[q].value # None
  <2>1. CASE q = s
    BY <1>1, <1>2, <1>6, <1>8, <2>1 DEF TypeOK
  <2>2. CASE q # s
    <3>1. data'[q] = data[q]
      BY <1>6, <2>2
    <3>2. Live(data, q)
      BY <1>10, <3>1, FreeItem DEF Live
    <3> QED BY <1>1, <1>5, <2>2, <3>1, <3>2 DEF Fresh, TypeOK
  <2> QED BY <2>1, <2>2
<1>11. Fresh(data)'
  BY <1>10 DEF Fresh, Live, Free, slot_is_empty, slot_is_expired
<1> QED BY <1>7, <1>9, <1>11 DEF IInv

\* wrapping_add and saturating_sub give a live item another number.
LEMMA UpdateIs ==
  ASSUME NEW k \in Keys, NEW rhs \in Addends, WrappingAdd(k, rhs) \/ SaturatingSub(k, rhs)
  PROVE  /\ now' = now /\ policy' = policy
         /\ \E s \in Slots, v \in Numbers :
              /\ Live(data, s) /\ data[s].key = k
              /\ data' = [data EXCEPT ![s].value = v] /\ truth' = [truth EXCEPT ![k] = v]
<1>1. rhs \in Nat /\ 2^Width \in Nat \ {0} /\ Numbers = 0..(2^Width - 1) /\ rhs \in Numbers
  BY CuckooAssumption DEF Numbers
<1>2. \A w \in Numbers : (w + rhs) % 2^Width \in Numbers /\ (IF w >= rhs THEN w - rhs ELSE 0) \in Numbers
  BY <1>1
<1>3. CASE WrappingAdd(k, rhs)
  <2> DEFINE s == Positions[k][NumericHit(k)]
  <2>1. /\ NumericHit(k) # 0 /\ data[s].value \in Numbers /\ now' = now /\ policy' = policy
        /\ data' = [data EXCEPT ![s].value = (data[s].value + rhs) % 2^Width]
        /\ truth' = [truth EXCEPT ![k] = (data[s].value + rhs) % 2^Width]
    BY <1>3 DEF WrappingAdd, Update
  <2>2. s \in Slots /\ Live(data, s) /\ data[s].key = k
    BY <2>1, NumericHitIs
  <2> HIDE DEF s
  <2> QED BY <1>2, <2>1, <2>2
<1>4. CASE SaturatingSub(k, rhs)
  <2> DEFINE s == Positions[k][NumericHit(k)]
             v == IF data[s].value >= rhs THEN data[s].value - rhs ELSE 0
  <2>1. /\ NumericHit(k) # 0 /\ data[s].value \in Numbers /\ now' = now /\ policy' = policy
        /\ data' = [data EXCEPT ![s].value = v] /\ truth' = [truth EXCEPT ![k] = v]
    BY <1>4 DEF SaturatingSub, Update
  <2>2. s \in Slots /\ Live(data, s) /\ data[s].key = k
    BY <2>1, NumericHitIs
  <2>3. v \in Numbers
    BY <1>2, <2>1
  <2> HIDE DEF s, v
  <2> QED BY <2>1, <2>2, <2>3
<1> QED BY <1>3, <1>4

\* The numeric calls keep the invariant.
LEMMA UpdateStep ==
  ASSUME IInv, NEW k \in Keys, NEW rhs \in Addends, WrappingAdd(k, rhs) \/ SaturatingSub(k, rhs)
  PROVE  IInv'
  BY UpdateIs, Updated

-----------------------------------------------------------------------------
(* The theorems. *)

\* The invariant holds initially.
LEMMA InitHolds ==
  ASSUME Init
  PROVE  IInv
<1>1. /\ data = [s \in Slots |-> EmptySlot] /\ now = 0 /\ policy \in Policies
      /\ truth = [k \in Keys |-> None]
  BY DEF Init
<1>2. TypeOK
  BY <1>1, CuckooAssumption DEF TypeOK, Vals
<1>3. \A s \in Slots : data[s] = EmptySlot /\ Free(data, s) /\ slot_is_empty(data, s)
  BY <1>1, EmptyIsFree
<1>4. EmptySlot \in Items
  BY DEF EmptySlot, Items, Vals
<1>5. Good(data)
  BY <1>1, <1>3, <1>4 DEF Good, Live
<1>6. Fresh(data)
  BY <1>3 DEF Fresh, Live
<1> QED BY <1>2, <1>5, <1>6 DEF IInv

\* Every step keeps the invariant.
LEMMA NextStep ==
  ASSUME max_displace <= 4, IInv, [Next]_vars
  PROVE  IInv'
<1>1. ASSUME NEW k \in Keys, NEW ttl \in Ttls, NEW value \in Inserted[k], Insert(k, value, ttl)
      PROVE  IInv'
  BY <1>1, InsertWrites, InsertStep
<1>2. ASSUME NEW k \in Keys, Get(k) \/ Delete(k)
      PROVE  IInv'
  BY <1>2, GetStep, DeleteStep
<1>3. ASSUME NEW k \in Keys, NEW rhs \in Addends, WrappingAdd(k, rhs) \/ SaturatingSub(k, rhs)
      PROVE  IInv'
  BY <1>3, UpdateStep
<1>4. CASE Clear
  BY <1>4, ClearStep
<1>5. CASE Tick
  BY <1>5, TickStep
<1>6. CASE UNCHANGED vars
  <2>1. data' = data /\ now' = now /\ policy' = policy /\ truth' = truth
    BY <1>6 DEF vars
  <2>2. TypeOK'
    BY <2>1 DEF IInv, TypeOK
  <2>3. Good(data)'
    BY <2>1, SameClock DEF IInv
  <2>4. Fresh(data)'
    BY <2>1 DEF IInv, Fresh, Live, Free, slot_is_empty, slot_is_expired
  <2> QED BY <2>2, <2>3, <2>4 DEF IInv
<1> QED BY <1>1, <1>2, <1>3, <1>4, <1>5, <1>6 DEF Next

\* Items stay in candidate slots, live keys stay distinct and live items keep
\* the value last written, with at most four levels of displacement.
THEOREM Invariance == max_displace <= 4 => (Spec => []IInv)
<1> SUFFICES ASSUME max_displace <= 4 PROVE Spec => []IInv
  OBVIOUS
<1>1. Init => IInv
  BY InitHolds
<1>2. IInv /\ [Next]_vars => IInv'
  BY NextStep
<1> QED BY <1>1, <1>2, PTL DEF Spec

\* No chain of displacements, eviction or expired leftover misplaces or
\* duplicates an item (displace_from, find_slot_for_insert).
THEOREM TableIsSound == max_displace <= 4 => (Spec => []TableSound)
<1>1. IInv => TableSound
  BY DEF IInv, Good, TableSound, InCandidates, Candidate, Live
<1> QED BY <1>1, Invariance, PTL

\* get never answers a value that was replaced or deleted.
THEOREM AnswersAreFresh == max_displace <= 4 => (Spec => []NeverStale)
<1>1. ASSUME IInv PROVE NeverStale
  <2>1. SUFFICES ASSUME NEW k \in Keys PROVE Answer(k) \in {None, truth[k]}
    BY DEF NeverStale
  <2>2. CASE Hit(k) = 0 \/ slot_is_expired(data, HitSlot(k))
    BY <2>2 DEF Answer
  <2>3. CASE Hit(k) # 0 /\ ~slot_is_expired(data, HitSlot(k))
    <3>1. HitSlot(k) \in Slots /\ data[HitSlot(k)].key = k /\ Live(data, HitSlot(k))
      BY <2>3, HitIs DEF Live, Free
    <3>2. data[HitSlot(k)].value = truth[k]
      BY <1>1, <3>1 DEF IInv, Fresh
    <3> QED BY <2>3, <3>2 DEF Answer
  <2> QED BY <2>2, <2>3
<1> QED BY <1>1, Invariance, PTL

-----------------------------------------------------------------------------
(* What a call may lose. *)

\* The excuses of LosesAtMostTheVictim for a lost item.
Excused(i) ==
  \/ truth'[i.key] # truth[i.key]
  \/ \E s \in Slots : data'[s] # data[s] /\ data'[s].key = i.key
  \/ \E s \in Slots :
       /\ data[s] = i
       /\ data'[s] \notin Contents(data)
       /\ \A c \in 1..D : Live(data, Positions[data'[s].key][c])

Loses ==
  LET lost == Contents(data) \ Contents(data')
  IN  Cardinality(lost) <= 1 /\ \A i \in lost : Excused(i)

\* A call that loses no live item.
LEMMA LosesNone ==
  ASSUME Contents(data) \subseteq Contents(data')
  PROVE  Loses
<1>1. Contents(data) \ Contents(data') = {}
  OBVIOUS
<1>2. Cardinality({}) = 0
  BY FS_EmptySet
<1> QED BY <1>1, <1>2 DEF Loses

\* A call that loses one item at most, with an excuse.
LEMMA LosesOne ==
  ASSUME NEW r, Contents(data) \ Contents(data') \subseteq {r}, r \in Contents(data) => Excused(r)
  PROVE  Loses
<1> DEFINE lost == Contents(data) \ Contents(data')
<1>1. lost = {} \/ lost = {r}
  OBVIOUS
<1>2. Cardinality({}) = 0 /\ Cardinality({r}) = 1
  BY FS_EmptySet, FS_Singleton
<1>3. Cardinality(lost) <= 1
  BY <1>1, <1>2
<1>4. \A i \in lost : Excused(i)
  BY <1>1
<1> QED BY <1>3, <1>4 DEF Loses

\* insert loses the item it rewrites or the victim.
LEMMA InsertLoses ==
  ASSUME max_displace <= 4, IInv, NEW k \in Keys, NEW ttl \in Ttls, NEW value \in Readings(k),
         Write(k, value, ttl)
  PROVE  Loses
<1>1. Good(data)
  BY DEF IInv
<1>2. PICK pos \in Slots, e \in [Slots -> Items], item \in Items :
           /\ item.key = k /\ item.value = value /\ Candidate(k, pos)
           /\ Good(e) /\ data' = [e EXCEPT ![pos] = item]
           /\ \A q \in Slots \ {pos} : Live(e, q) => e[q].key # k
           /\ \/ e = data /\ Live(data, pos) /\ data[pos].key = k
              \/ /\ Free(e, pos) /\ \A s \in Slots : Live(data, s) => data[s].key # k
                 /\ \/ Contents(e) = Contents(data)
                    \/ e = clear_slot(data, pos) /\ \A c \in 1..D : Live(data, Positions[k][c])
  BY InsertTable
<1>3. data'[pos] = item /\ \A q \in Slots \ {pos} : data'[q] = e[q]
  BY <1>2
<1>4. CASE e = data /\ Live(data, pos) /\ data[pos].key = k
  <2>1. /\ Contents(data) \ Contents(data') \subseteq {data[pos]}
        /\ data'[pos] = data[pos] => Contents(data) \subseteq Contents(data')
    BY <1>3, <1>4, LostAt
  <2>2. CASE data'[pos] = data[pos]
    BY <2>1, <2>2, LosesNone
  <2>3. CASE data'[pos] # data[pos]
    <3>1. Excused(data[pos])
      BY <1>2, <1>3, <1>4, <2>3 DEF Excused
    <3> QED BY <2>1, <3>1, LosesOne
  <2> QED BY <2>2, <2>3
<1>5. CASE Free(e, pos) /\ Contents(e) = Contents(data)
  <2>1. Contents(e) \subseteq Contents(data')
    BY <1>3, <1>5, LostAt
  <2> QED BY <1>5, <2>1, LosesNone
<1>6. CASE /\ \A s \in Slots : Live(data, s) => data[s].key # k
           /\ e = clear_slot(data, pos) /\ \A c \in 1..D : Live(data, Positions[k][c])
  <2>1. \A q \in Slots \ {pos} : data'[q] = data[q]
    BY <1>1, <1>3, <1>6, ClearGood
  <2>2. Contents(data) \ Contents(data') \subseteq {data[pos]}
    BY <2>1, LostAt
  <2>3. data'[pos] \notin Contents(data)
    BY <1>2, <1>3, <1>6, InContents
  <2>4. Excused(data[pos])
    BY <1>2, <1>3, <1>6, <2>3 DEF Excused
  <2> QED BY <2>2, <2>4, LosesOne
<1> QED BY <1>2, <1>4, <1>5, <1>6

\* get loses nothing, and delete the item it deletes.
LEMMA ClearedLoses ==
  ASSUME IInv, NEW k \in Keys, Get(k) \/ Delete(k)
  PROVE  Loses
<1> DEFINE s == HitSlot(k)
<1>1. s \in Slots /\ ~slot_is_empty(data, s) /\ data[s].key = k /\ data' = clear_slot(data, s) /\ Good(data)
  BY HitIs DEF Get, Delete, IInv
<1>2. CASE slot_is_expired(data, s)
  <2>1. Contents(data') = Contents(data)
    BY <1>1, <1>2, ClearKeeps DEF Free
  <2> QED BY <2>1, LosesNone
<1>3. CASE ~slot_is_expired(data, s)
  <2>1. Delete(k) /\ truth' = [truth EXCEPT ![k] = None] /\ Live(data, s)
    BY <1>1, <1>3 DEF Get, Delete, Live, Free
  <2>2. truth[k] # None /\ truth \in [Keys -> Vals]
    BY <1>1, <2>1 DEF IInv, Fresh, TypeOK
  <2>3. Excused(data[s])
    BY <1>1, <2>1, <2>2 DEF Excused
  <2>4. \A q \in Slots \ {s} : data'[q] = data[q]
    BY <1>1, ClearGood
  <2>5. Contents(data) \ Contents(data') \subseteq {data[s]}
    BY <1>1, <2>4, LostAt
  <2> QED BY <2>3, <2>5, LosesOne
<1> QED BY <1>2, <1>3

\* The numeric calls lose the item they rewrite.
LEMMA UpdateLoses ==
  ASSUME IInv, NEW k \in Keys, NEW rhs \in Addends, WrappingAdd(k, rhs) \/ SaturatingSub(k, rhs)
  PROVE  Loses
<1>1. PICK s \in Slots, v \in Numbers : data[s].key = k /\ data' = [data EXCEPT ![s].value = v]
  BY UpdateIs
<1>2. data \in [Slots -> Items] /\ data[s] \in Items
  BY DEF IInv, Good
<1>3. data'[s].key = k /\ \A q \in Slots \ {s} : data'[q] = data[q]
  BY <1>1, <1>2 DEF Items
<1>4. /\ Contents(data) \ Contents(data') \subseteq {data[s]}
      /\ data'[s] = data[s] => Contents(data) \subseteq Contents(data')
  BY <1>3, LostAt
<1>5. CASE data'[s] = data[s]
  BY <1>4, <1>5, LosesNone
<1>6. CASE data'[s] # data[s]
  <2>1. Excused(data[s])
    BY <1>1, <1>3, <1>6 DEF Excused
  <2> QED BY <1>4, <2>1, LosesOne
<1> QED BY <1>5, <1>6

\* Moving occupants along a chain loses none of them: a call other than clear
\* takes at most one live item out, the one it rewrites or deletes or the
\* victim (displace_from, find_slot_for_insert, delete).
THEOREM OnlyTheVictimIsLost == max_displace <= 4 => (Spec => LosesAtMostTheVictim)
<1> SUFFICES ASSUME max_displace <= 4 PROVE Spec => LosesAtMostTheVictim
  OBVIOUS
<1>1. ASSUME IInv, Next, now' = now, \E s \in Slots : data'[s] # EmptySlot
      PROVE  Loses
  <2>1. ASSUME NEW k \in Keys, NEW ttl \in Ttls, NEW value \in Inserted[k], Insert(k, value, ttl)
        PROVE  Loses
    BY <1>1, <2>1, InsertWrites, InsertLoses
  <2>2. ASSUME NEW k \in Keys, Get(k) \/ Delete(k)
        PROVE  Loses
    BY <1>1, <2>2, ClearedLoses
  <2>3. ASSUME NEW k \in Keys, NEW rhs \in Addends, WrappingAdd(k, rhs) \/ SaturatingSub(k, rhs)
        PROVE  Loses
    BY <1>1, <2>3, UpdateLoses
  <2>4. CASE Clear
    BY <1>1, <2>4 DEF Clear
  <2>5. CASE Tick
    <3>1. now \in Nat /\ now' = now + 1
      BY <1>1, <2>5 DEF IInv, TypeOK, Tick
    <3> QED BY <1>1, <3>1
  <2> QED BY <1>1, <2>1, <2>2, <2>3, <2>4, <2>5 DEF Next
<1>2. IInv /\ [Next]_vars =>
        [now' = now /\ (\E s \in Slots : data'[s] # EmptySlot) =>
           LET lost == Contents(data) \ Contents(data')
           IN  /\ Cardinality(lost) <= 1
               /\ \A i \in lost :
                    \/ truth'[i.key] # truth[i.key]
                    \/ \E s \in Slots : data'[s] # data[s] /\ data'[s].key = i.key
                    \/ \E s \in Slots :
                         /\ data[s] = i
                         /\ data'[s] \notin Contents(data)
                         /\ \A c \in 1..D : Live(data, Positions[data'[s].key][c])]_vars
  BY <1>1 DEF Loses, Excused
<1>3. Spec => []IInv
  BY Invariance
<1> QED BY <1>2, <1>3, PTL DEF Spec, LosesAtMostTheVictim
=============================================================================
