--------------------------- MODULE DatapoolProofs ---------------------------
(***************************************************************************)
(* What open accepts is what a flush was asked to keep, and a flush that   *)
(* returned can be opened, for any number of pages and any interleaving of *)
(* write-back, errors and crashes; data sizes are whole pages.             *)
(***************************************************************************)
EXTENDS Datapool, SequenceTheorems, TLAPS

\* The data sizes the pools are meant for. A pool of another size hashes more,
\* or fewer, units in flush than in open.
WholePages == \A size \in Sizes : size % UnitsPerPage = 0

Words == Values \cup UserVersions
Header == [magic : BOOLEAN, user : UserVersions \cup {0}, sum : Seq(Words)]
Data(pages) == [1..Units(pages) -> Values]
File(pages) == [header : Header, data : Data(pages)]
Snaps == [user : UserVersions, content : Data(len)]

\* The checksum over a header and all of some data.
Hash(user, data) == <<user>> \o data

FlushPcs == {"hash", "write", "sync"}

\* The open pool is as long as the file.
PoolOK ==
  \/ pool = NoPool
  \/ /\ len > 0
     /\ pool \in [kind : Kinds, user : UserVersions, size : {Units(len)}, slice : {Units(len)},
                  pages : {len}]
     /\ pool.kind = "memory" => mem \in Data(len)

\* The steps of an open or a flush have the pool they are of.
PcOK ==
  /\ pc \in {"idle", "read"} \cup FlushPcs
  /\ page \in Nat /\ page <= len
  /\ pc = "idle" => page = 0
  /\ pc # "idle" => pool # NoPool
  /\ pc = "hash" => pool.kind = "mmap"
  /\ pc \in {"read", "write"} => pool.kind = "memory"

TypeOK ==
  /\ len \in Nat
  /\ cache \in File(len) /\ disk \in File(len)
  /\ opened \in BOOLEAN
  /\ recent \subseteq Snaps
  /\ PoolOK /\ PcOK

\* What the pool's user sees, whole pages.
Held == IF pool.kind = "mmap" THEN cache.data ELSE mem

\* What a flush is called on.
Kept == [user |-> pool.user, content |-> Held]

\* The file that a completed flush leaves.
FileOf(s) ==
  [header |-> [magic |-> TRUE, user |-> s.user, sum |-> Hash(s.user, s.content)], data |-> s.content]

\* open and flush have hashed the pages they have done.
HashedPages == pc \in {"read", "write"} => sum = Hash(pool.user, SubSeq(mem, 1, Units(page)))

\* The pages a flush has written are in the file.
WrittenPages == pc = "write" => \A u \in 1..Units(page) : cache.data[u] = mem[u]

\* A flush that runs is of what the pool still holds; once the header is
\* written the file is that of a completed flush.
FlushOK ==
  /\ pc \in FlushPcs => Kept \in recent
  /\ pc = "sync" => cache = FileOf(Kept)

\* Every checksum in the file is of a recent flush.
HeaderOK(file) == file.header.sum = <<>> \/ \E s \in recent : file.header.sum = Hash(s.user, s.content)

\* What open returned was flushed.
OpenedOK == opened => pc = "idle" /\ pool # NoPool /\ Kept \in recent

\* After a flush, and until the file is written again, the kernel has nothing
\* to write back.
FlushedOK ==
  flushed # NoFlush => /\ len > 0 /\ flushed \in [size : {Units(len)}, snap : Snaps]
                       /\ cache = FileOf(flushed.snap) /\ disk = cache

IInv ==
  /\ TypeOK
  /\ HashedPages /\ WrittenPages /\ FlushOK
  /\ HeaderOK(cache) /\ HeaderOK(disk)
  /\ OpenedOK /\ FlushedOK

-----------------------------------------------------------------------------
(* Pages and units. *)

\* A multiple of a number, and less than one more, is that multiple when divided by it.
LEMMA Divided ==
  ASSUME NEW b \in Nat \ {0}, NEW n \in Nat, NEW r \in 0..(b - 1)
  PROVE  (n * b + r) \div b = n
<1>1. ASSUME NEW a \in Nat
      PROVE  a \div b \in Int /\ a % b \in 0..(b - 1) /\ a = b * (a \div b) + (a % b)
  OBVIOUS
<1>2. n * b \in Nat /\ n * b = b * n
  OBVIOUS
<1>3. n * b + r \in Nat
  BY <1>2
<1>4. PICK q, m : /\ q = (n * b + r) \div b
                  /\ q \in Int /\ m \in 0..(b - 1) /\ n * b + r = b * q + m
  <2>1. PICK a \in Nat : a = n * b + r
    BY <1>3
  <2>2. a \div b \in Int /\ a % b \in 0..(b - 1) /\ a = b * (a \div b) + (a % b)
    BY <1>1
  <2> QED BY <2>1, <2>2, Zenon
<1>5. b * (n - q) = m - r
  BY <1>2, <1>4
<1>6. \A k \in Int : (k >= 1 => b * k >= b) /\ (k <= -1 => b * k <= -b)
  OBVIOUS
<1>7. n - q \in Int /\ m - r < b /\ m - r > -b
  BY <1>4
<1>8. n - q = 0
  BY <1>5, <1>6, <1>7
<1> QED BY <1>4, <1>8

\* Units of whole pages are natural numbers and grow with the pages.
LEMMA UnitsType ==
  /\ \A n \in Nat : Units(n) \in Nat
  /\ \A n \in Nat : Units(n + 1) = Units(n) + UnitsPerPage
  /\ \A m, n \in Nat : m <= n => Units(m) <= Units(n)
  /\ \A n \in Nat : n > 0 => Units(n) > 0
  /\ Units(0) = 0
<1> USE DatapoolAssumption DEF Units
<1>1. \A n \in Nat : Units(n) \in Nat
  OBVIOUS
<1>2. \A n \in Nat : Units(n + 1) = Units(n) + UnitsPerPage
  OBVIOUS
<1>3. \A m, n \in Nat : m <= n => Units(m) <= Units(n)
  <2>1. ASSUME NEW m \in Nat, NEW d \in Nat PROVE Units(m + d) = Units(m) + Units(d)
    OBVIOUS
  <2>2. SUFFICES ASSUME NEW m \in Nat, NEW n \in Nat, m <= n PROVE Units(m) <= Units(n)
    OBVIOUS
  <2>3. n - m \in Nat /\ n = m + (n - m)
    BY <2>2
  <2>4. Units(n) = Units(m) + Units(n - m)
    BY <2>1, <2>3
  <2>5. Units(n - m) \in Nat /\ Units(m) \in Nat /\ Units(n) \in Nat
    BY <1>1, <2>3
  <2> HIDE DEF Units
  <2> QED BY <2>4, <2>5
<1>4. \A n \in Nat : n > 0 => Units(n) > 0
  OBVIOUS
<1>5. Units(0) = 0
  OBVIOUS
<1> QED BY <1>1, <1>2, <1>3, <1>4, <1>5

\* The units before a page of the file, and before the next.
LEMMA UnitsBefore ==
  ASSUME NEW n \in Nat, NEW p \in Nat, p < n
  PROVE  /\ Units(p) \in Nat /\ Units(p + 1) \in Nat /\ Units(p) <= Units(p + 1)
         /\ Units(p + 1) <= Units(n) /\ Units(n) \in Nat
<1>1. p + 1 \in Nat /\ p <= p + 1 /\ p + 1 <= n
  OBVIOUS
<1>2. Units(p) \in Nat /\ Units(p + 1) \in Nat /\ Units(n) \in Nat
  BY <1>1, UnitsType
<1>3. Units(p) <= Units(p + 1) /\ Units(p + 1) <= Units(n)
  BY <1>1, UnitsType
<1> QED BY <1>2, <1>3

\* create's page count and open's, for a data size of n whole pages.
LEMMA PagesOfUnits ==
  ASSUME NEW n \in Nat
  PROVE  DataPages(Units(n)) = n /\ Units(n) \div UnitsPerPage = n
<1>1. UnitsPerPage \in Nat \ {0} /\ UnitsPerPage - 1 \in 0..(UnitsPerPage - 1) /\ 0 \in 0..(UnitsPerPage - 1)
  BY DatapoolAssumption
<1>2. (n * UnitsPerPage + (UnitsPerPage - 1)) \div UnitsPerPage = n
  BY <1>1, Divided
<1>3. (n * UnitsPerPage + 0) \div UnitsPerPage = n
  BY <1>1, Divided
<1>4. n * UnitsPerPage \in Nat
  BY <1>1
<1> QED BY <1>1, <1>2, <1>3, <1>4 DEF DataPages, Units

\* A size of whole pages is the units of the pages create allocates for it.
LEMMA WholeSize ==
  ASSUME WholePages, NEW size \in Sizes
  PROVE  /\ DataPages(size) \in Nat /\ DataPages(size) > 0
         /\ size = Units(DataPages(size))
         /\ size \div UnitsPerPage = DataPages(size)
<1>1. size \in Nat \ {0} /\ UnitsPerPage \in Nat \ {0} /\ size % UnitsPerPage = 0
  BY DatapoolAssumption DEF WholePages
<1>2. PICK n \in Int : size = UnitsPerPage * n
  BY <1>1
<1>3. \A k \in Int : k <= 0 => UnitsPerPage * k <= 0
  BY <1>1
<1>4. n \in Nat /\ n > 0
  BY <1>1, <1>2, <1>3
<1>5. size = Units(n)
  BY <1>1, <1>2, <1>4 DEF Units
<1> QED BY <1>4, <1>5, PagesOfUnits

-----------------------------------------------------------------------------
(* The checksum. *)

\* Data is a sequence of words, and its first part too.
LEMMA DataSeq ==
  ASSUME NEW n \in Nat, NEW s \in Data(n)
  PROVE  /\ s \in Seq(Words) /\ Len(s) = Units(n)
         /\ \A m \in 0..Units(n) : SubSeq(s, 1, m) \in Seq(Words) /\ Len(SubSeq(s, 1, m)) = m
<1>1. Units(n) \in Nat
  BY UnitsType
<1>2. s \in [1..Units(n) -> Words]
  BY DEF Data, Words
<1>3. s \in Seq(Words) /\ Len(s) = Units(n)
  BY <1>1, <1>2
<1>4. ASSUME NEW m \in 0..Units(n)
      PROVE  SubSeq(s, 1, m) \in Seq(Words) /\ Len(SubSeq(s, 1, m)) = m
  <2>1. m \in Int /\ \A i \in 1..m : s[i] \in Words
    BY <1>1, <1>2
  <2> QED BY <1>1, <2>1, SubSeqProperties
<1> QED BY <1>3, <1>4

\* A checksum is a sequence of words, and is never that of a fresh header.
LEMMA HashType ==
  ASSUME NEW u \in UserVersions, NEW s \in Seq(Words)
  PROVE  Hash(u, s) \in Seq(Words) /\ Hash(u, s) # <<>> /\ Len(Hash(u, s)) = Len(s) + 1
<1>1. <<u>> \in Seq(Words) /\ Len(<<u>>) = 1
  BY DEF Words
<1>2. Hash(u, s) \in Seq(Words) /\ Len(Hash(u, s)) = 1 + Len(s)
  BY <1>1, ConcatProperties DEF Hash
<1>3. Len(s) \in Nat
  BY LenProperties
<1> QED BY <1>2, <1>3

\* The checksum tells two contents, and two user versions, apart.
LEMMA HashInjective ==
  ASSUME NEW u \in UserVersions, NEW v \in UserVersions, NEW s \in Seq(Words), NEW t \in Seq(Words),
         Hash(u, s) = Hash(v, t)
  PROVE  u = v /\ s = t
<1>1. /\ <<u>> \in Seq(Words) /\ Len(<<u>>) = 1 /\ <<u>>[1] = u
      /\ <<v>> \in Seq(Words) /\ Len(<<v>>) = 1 /\ <<v>>[1] = v
  BY DEF Words
<1>2. Len(s) \in Nat /\ Len(t) \in Nat
  BY LenProperties
<1>3. /\ \A i \in 1..(1 + Len(s)) : Hash(u, s)[i] = IF i <= 1 THEN <<u>>[i] ELSE s[i - 1]
      /\ Len(Hash(u, s)) = 1 + Len(s)
  BY <1>1, ConcatProperties DEF Hash
<1>4. /\ \A i \in 1..(1 + Len(t)) : Hash(v, t)[i] = IF i <= 1 THEN <<v>>[i] ELSE t[i - 1]
      /\ Len(Hash(v, t)) = 1 + Len(t)
  BY <1>1, ConcatProperties DEF Hash
<1>5. Len(s) = Len(t)
  BY <1>2, <1>3, <1>4
<1>6. u = v
  <2>1. 1 \in 1..(1 + Len(s)) /\ 1 \in 1..(1 + Len(t))
    BY <1>2
  <2>2. Hash(u, s)[1] = <<u>>[1]
    BY <1>3, <2>1
  <2>3. Hash(v, t)[1] = <<v>>[1]
    BY <1>4, <2>1
  <2>4. <<u>>[1] = <<v>>[1]
    BY <2>2, <2>3
  <2> HIDE <1>3, <1>4
  <2> QED BY <1>1, <2>4
<1>7. ASSUME NEW i \in 1..Len(s) PROVE s[i] = t[i]
  <2>1. i + 1 \in 1..(1 + Len(s)) /\ ~(i + 1 <= 1) /\ (i + 1) - 1 = i
    BY <1>2
  <2>2. Hash(u, s)[i + 1] = s[i]
    BY <1>3, <2>1
  <2>3. Hash(v, t)[i + 1] = t[i]
    BY <1>4, <1>5, <2>1
  <2> QED BY <2>2, <2>3
<1>8. s = t
  BY <1>5, <1>7, SeqEqual
<1> QED BY <1>6, <1>8

\* Hashing nothing of the data, and all of it.
LEMMA HashPages ==
  ASSUME NEW n \in Nat, NEW s \in Data(n), NEW u \in UserVersions
  PROVE  /\ Hash(u, SubSeq(s, 1, Units(0))) = <<u>>
         /\ SubSeq(s, 1, Units(n)) = s
         /\ HashOf(u, s, Units(n)) = Hash(u, s)
<1>1. <<u>> \in Seq(Words)
  BY DEF Words
<1>2. s \in Seq(Words) /\ Len(s) = Units(n) /\ Units(n) \in Nat
  BY DataSeq, UnitsType
<1>3. Hash(u, SubSeq(s, 1, Units(0))) = <<u>>
  <2>1. SubSeq(s, 1, Units(0)) = <<>>
    BY UnitsType, SubSeqEmpty
  <2> QED BY <1>1, <2>1, ConcatEmptySeq DEF Hash
<1>4. SubSeq(s, 1, Units(n)) = s
  BY <1>2, SubSeqFull
<1>5. HashOf(u, s, Units(n)) = Hash(u, s)
  BY <1>4 DEF HashOf, Hash
<1> QED BY <1>3, <1>4, <1>5

\* Hashing one more page.
LEMMA HashNext ==
  ASSUME NEW n \in Nat, NEW s \in Data(n), NEW u \in UserVersions, NEW p \in Nat, p < n
  PROVE  Hash(u, SubSeq(s, 1, Units(p))) \o PageOf(s, p) = Hash(u, SubSeq(s, 1, Units(p + 1)))
<1>1. <<u>> \in Seq(Words)
  BY DEF Words
<1>2. s \in Seq(Words) /\ Len(s) = Units(n) /\ Units(n) \in Nat
  BY DataSeq, UnitsType
<1>3. /\ Units(p) \in Nat /\ Units(p + 1) \in Nat /\ Units(p) <= Units(p + 1)
      /\ Units(p + 1) <= Units(n)
  BY UnitsBefore
<1>4. SubSeq(s, 1, Units(p)) \o SubSeq(s, Units(p) + 1, Units(p + 1)) = SubSeq(s, 1, Units(p + 1))
  <2>1. 1 \in 1..(Len(s) + 1) /\ Units(p) \in (1 - 1)..Len(s) /\ Units(p + 1) \in Units(p)..Len(s)
    BY <1>2, <1>3
  <2> QED BY <1>2, <2>1, ConcatAdjacentSubSeq
<1>5. SubSeq(s, 1, Units(p)) \in Seq(Words)
  BY <1>2, <1>3, DataSeq
<1>6. SubSeq(s, Units(p) + 1, Units(p + 1)) \in Seq(Words)
  <2>1. \A i \in (Units(p) + 1)..Units(p + 1) : s[i] \in Words
    BY <1>2, <1>3, ElementOfSeq
  <2> QED BY <1>3, <2>1, SubSeqProperties
<1>7. PageOf(s, p) = SubSeq(s, Units(p) + 1, Units(p + 1))
  BY DEF PageOf, Units
<1>8. (<<u>> \o SubSeq(s, 1, Units(p))) \o SubSeq(s, Units(p) + 1, Units(p + 1))
        = <<u>> \o (SubSeq(s, 1, Units(p)) \o SubSeq(s, Units(p) + 1, Units(p + 1)))
  <2>1. \A a, b, c \in Seq(Words) : (a \o b) \o c = a \o (b \o c)
    BY ConcatAssociative
  <2> QED BY <1>1, <1>5, <1>6, <2>1, Zenon
<1> QED BY <1>4, <1>7, <1>8, Zenon DEF Hash

\* The first part of two sequences that agree on it.
LEMMA SameStart ==
  ASSUME NEW n \in Nat, NEW s \in Data(n), NEW t \in Data(n), NEW m \in 0..Units(n),
         \A i \in 1..m : s[i] = t[i]
  PROVE  SubSeq(s, 1, m) = SubSeq(t, 1, m)
<1>1. Units(n) \in Nat
  BY UnitsType
<1>2. /\ SubSeq(s, 1, m) \in Seq(Words) /\ Len(SubSeq(s, 1, m)) = m
      /\ SubSeq(t, 1, m) \in Seq(Words) /\ Len(SubSeq(t, 1, m)) = m
  BY DataSeq
<1>3. \A i \in 1..m : s[i] \in Words /\ t[i] \in Words
  BY <1>1 DEF Data, Words
<1>4. ASSUME NEW i \in 1..m PROVE SubSeq(s, 1, m)[i] = s[i] /\ SubSeq(t, 1, m)[i] = t[i]
  <2>1. m \in Int /\ i \in 1..(m - 1 + 1) /\ 1 + i - 1 = i /\ 1 <= m
    BY <1>1
  <2> QED BY <1>3, <2>1, SubSeqProperties
<1> QED BY <1>2, <1>4, SeqEqual

-----------------------------------------------------------------------------
(* What the type invariant says of a file and of the pool. *)

\* A file has a header and data, and stays a file when either is replaced.
LEMMA FileParts ==
  ASSUME NEW n \in Nat, NEW file \in File(n)
  PROVE  /\ file.header \in Header /\ file.data \in Data(n)
         /\ file = [header |-> file.header, data |-> file.data]
         /\ \A h \in Header : [file EXCEPT !.header = h] = [header |-> h, data |-> file.data]
         /\ \A d \in Data(n) : [file EXCEPT !.data = d] = [header |-> file.header, data |-> d]
  BY DEF File

\* A header and data make a file.
LEMMA FileMade ==
  ASSUME NEW n \in Nat, NEW h \in Header, NEW d \in Data(n)
  PROVE  [header |-> h, data |-> d] \in File(n)
  BY DEF File

\* A header has a checksum.
LEMMA HeaderMade ==
  ASSUME NEW u \in UserVersions \cup {0}, NEW s \in Seq(Words), NEW m \in BOOLEAN
  PROVE  [magic |-> m, user |-> u, sum |-> s] \in Header
  BY DEF Header

\* The fields of the open pool.
LEMMA PoolFields ==
  ASSUME TypeOK, pool # NoPool
  PROVE  /\ len \in Nat /\ len > 0
         /\ pool.kind \in Kinds /\ pool.user \in UserVersions
         /\ pool.size = Units(len) /\ pool.slice = Units(len) /\ pool.pages = len
         /\ Held \in Data(len)
         /\ pool.kind = "memory" => mem \in Data(len) /\ Held = mem
         /\ pool.kind = "mmap" => Held = cache.data
         /\ Kept \in Snaps /\ Snapshot = Kept
<1>1. len \in Nat /\ len > 0 /\ cache \in File(len)
  BY DEF TypeOK, PoolOK
<1>2. pool \in [kind : Kinds, user : UserVersions, size : {Units(len)}, slice : {Units(len)}, pages : {len}]
  BY DEF TypeOK, PoolOK
<1>3. /\ pool.kind \in Kinds /\ pool.user \in UserVersions
      /\ pool.size = Units(len) /\ pool.slice = Units(len) /\ pool.pages = len
  BY <1>2
<1>4. pool.kind = "memory" => mem \in Data(len) /\ Held = mem
  BY DEF TypeOK, PoolOK, Held
<1>5. pool.kind = "mmap" => Held = cache.data
  BY DEF Held
<1>6. pool.kind = "mmap" \/ pool.kind = "memory"
  BY <1>3 DEF Kinds
<1>7. cache.data \in Data(len)
  BY <1>1, FileParts
<1>8. Held \in Data(len)
  BY <1>4, <1>5, <1>6, <1>7
<1>9. Kept \in Snaps
  BY <1>3, <1>8 DEF Kept, Snaps
<1>10. SubSeq(Held, 1, Units(len)) = Held
  BY <1>1, <1>3, <1>8, HashPages
<1>11. Content = Held
  BY <1>3, <1>5, <1>4, <1>6, <1>10 DEF Content
<1>12. Snapshot = Kept
  BY <1>3, <1>10, <1>11 DEF Snapshot, Kept
<1> QED BY <1>1, <1>3, <1>4, <1>5, <1>8, <1>9, <1>12

\* A checksum that matches is that of a recent flush of the same content.
LEMMA Matches ==
  ASSUME TypeOK, HeaderOK(cache), NEW u \in UserVersions, NEW d \in Data(len),
         cache.header.sum = Hash(u, d)
  PROVE  [user |-> u, content |-> d] \in recent
<1>1. len \in Nat /\ recent \subseteq Snaps
  BY DEF TypeOK
<1>2. d \in Seq(Words)
  BY <1>1, DataSeq
<1>3. Hash(u, d) # <<>>
  BY <1>2, HashType
<1>4. PICK s \in recent : Hash(u, d) = Hash(s.user, s.content)
  BY <1>3 DEF HeaderOK
<1>5. s.user \in UserVersions /\ s.content \in Data(len) /\ s = [user |-> s.user, content |-> s.content]
  BY <1>1 DEF Snaps
<1>6. s.content \in Seq(Words)
  BY <1>1, <1>5, DataSeq
<1>7. u = s.user /\ d = s.content
  BY <1>2, <1>4, <1>5, <1>6, HashInjective
<1> QED BY <1>4, <1>5, <1>7

\* The file of a completed flush is a file.
LEMMA FileOfType ==
  ASSUME NEW n \in Nat, NEW u \in UserVersions, NEW d \in Data(n), NEW s,
         s = [user |-> u, content |-> d]
  PROVE  /\ FileOf(s) \in File(n)
         /\ FileOf(s) = [header |-> [magic |-> TRUE, user |-> u, sum |-> Hash(u, d)], data |-> d]
         /\ FileOf(s).header.sum = Hash(u, d) /\ FileOf(s).data = d
<1>1. s.user = u /\ s.content = d
  OBVIOUS
<1>2. d \in Seq(Words)
  BY DataSeq
<1>3. Hash(u, d) \in Seq(Words)
  BY <1>2, HashType
<1>4. [magic |-> TRUE, user |-> u, sum |-> Hash(u, d)] \in Header
  BY <1>3, HeaderMade
<1>5. FileOf(s) = [header |-> [magic |-> TRUE, user |-> u, sum |-> Hash(u, d)], data |-> d]
  BY <1>1 DEF FileOf
<1>6. FileOf(s) \in File(n)
  BY <1>4, <1>5, FileMade
<1> QED BY <1>5, <1>6
-----------------------------------------------------------------------------
(* create. *)

\* A fresh file is a file whose header has no checksum.
LEMMA ZeroFileType ==
  ASSUME NEW n \in Nat
  PROVE  ZeroFile(n) \in File(n) /\ ZeroFile(n).header.sum = <<>>
<1>1. ZeroHeader \in Header
  <2>1. <<>> \in Seq(Words)
    BY EmptySeq
  <2> QED BY <2>1 DEF ZeroHeader, Header
<1>2. [u \in 1..Units(n) |-> 0] \in Data(n)
  BY DatapoolAssumption DEF Data
<1> QED BY <1>1, <1>2, FileMade DEF ZeroFile, ZeroHeader

\* A fresh file, a pool between two calls and no flush yet keep the invariant.
LEMMA Fresh ==
  ASSUME len' \in Nat, cache' = ZeroFile(len'), disk' = ZeroFile(len'), recent' = {}, PoolOK',
         pc' = "idle", page' = 0, opened' = FALSE, flushed' = NoFlush
  PROVE  IInv'
<1>1. cache' \in File(len') /\ disk' \in File(len') /\ cache'.header.sum = <<>> /\ disk'.header.sum = <<>>
  BY ZeroFileType
<1>2. PcOK'
  BY DEF PcOK, FlushPcs
<1>3. TypeOK'
  BY <1>1, <1>2 DEF TypeOK
<1>4. HeaderOK(cache)' /\ HeaderOK(disk)'
  BY <1>1 DEF HeaderOK
<1>5. HashedPages' /\ WrittenPages' /\ FlushOK' /\ OpenedOK' /\ FlushedOK'
  BY DEF HashedPages, WrittenPages, FlushOK, OpenedOK, FlushedOK, FlushPcs
<1> QED BY <1>3, <1>4, <1>5 DEF IInv

\* create keeps the invariant.
LEMMA CreateStep ==
  ASSUME IInv, WholePages, NEW kind \in Kinds, NEW size \in Sizes, NEW user \in UserVersions,
         Create(kind, size, user)
  PROVE  IInv'
<1>1. pc = "idle" /\ page = 0
  BY DEF IInv, TypeOK, PcOK, Create, CreateFile
<1>2. DataPages(size) \in Nat /\ DataPages(size) > 0 /\ size = Units(DataPages(size))
  BY WholeSize
<1>3. len' = DataPages(size) /\ len' \in Nat /\ len' > 0 /\ size = Units(len')
  BY <1>2 DEF Create, CreateFile
<1>4. pool' = [kind |-> kind, user |-> user, size |-> Units(len'), slice |-> Units(len'), pages |-> len']
  BY <1>3 DEF Create
<1>5. pool'.kind = "memory" => mem' \in Data(len')
  <2>1. pool'.kind = kind
    BY <1>4
  <2>2. ASSUME kind = "memory" PROVE mem' \in Data(len')
    <3>1. mem' = [u \in 1..Units(len') |-> 0]
      BY <1>3, <2>2 DEF Create
    <3> QED BY <3>1, DatapoolAssumption DEF Data
  <2> QED BY <2>1, <2>2
<1>6. PoolOK'
  BY <1>3, <1>4, <1>5 DEF PoolOK
<1>7. pc' = "idle" /\ page' = 0
  BY <1>1 DEF Create, CreateFile
<1>8. /\ cache' = ZeroFile(len') /\ disk' = ZeroFile(len') /\ recent' = {} /\ flushed' = NoFlush
      /\ opened' = FALSE
  BY DEF Create, CreateFile
<1> QED BY <1>3, <1>6, <1>7, <1>8, Fresh

\* A create that fails after the file was made keeps the invariant.
LEMMA CreateFailsStep ==
  ASSUME IInv, WholePages, NEW kind \in Kinds, NEW size \in Sizes, NEW user \in UserVersions,
         CreateFails(kind, size, user)
  PROVE  IInv'
<1>1. pc = "idle" /\ page = 0
  BY DEF IInv, TypeOK, PcOK, CreateFails, CreateFile
<1>2. DataPages(size) \in Nat
  BY WholeSize
<1>3. PoolOK'
  BY DEF PoolOK, CreateFails, CreateFile
<1>4. pc' = "idle" /\ page' = 0
  BY <1>1 DEF CreateFails, CreateFile
<1>5. /\ len' = DataPages(size) /\ cache' = ZeroFile(len') /\ disk' = ZeroFile(len') /\ recent' = {}
      /\ flushed' = NoFlush /\ opened' = FALSE
  BY DEF CreateFails, CreateFile
<1> QED BY <1>2, <1>3, <1>4, <1>5, Fresh

\* Removing the file keeps the invariant.
LEMMA UnlinkStep ==
  ASSUME IInv, Unlink
  PROVE  IInv'
<1>1. pc = "idle" /\ page = 0
  BY DEF IInv, TypeOK, PcOK, Unlink
<1>2. PoolOK'
  BY DEF PoolOK, Unlink
<1> QED BY <1>1, <1>2, Fresh DEF Unlink, NoFile

-----------------------------------------------------------------------------
(* open. *)

\* What the header checks of open say of the file's length.
LEMMA CheckedSize ==
  ASSUME WholePages, len \in Nat, NEW size \in Sizes, NEW user, HeaderCheck(cache, len, size, user)
  PROVE  len > 0 /\ size = Units(len) /\ size \div UnitsPerPage = len
  BY WholeSize DEF HeaderCheck

\* A call that leaves the file and the record of flushes alone, and ends
\* between two calls, keeps the invariant if what it opened was flushed.
LEMMA Between ==
  ASSUME IInv, PoolOK', opened' \in BOOLEAN, OpenedOK', pc' = "idle", page' = 0,
         UNCHANGED <<len, cache, disk, flushed, recent>>
  PROVE  IInv'
<1>1. PcOK'
  BY DEF IInv, TypeOK, PcOK, FlushPcs
<1>2. TypeOK'
  BY <1>1 DEF IInv, TypeOK, Snaps
<1>3. HeaderOK(cache)' /\ HeaderOK(disk)'
  BY DEF IInv, HeaderOK
<1>4. HashedPages' /\ WrittenPages' /\ FlushOK'
  BY DEF HashedPages, WrittenPages, FlushOK, FlushPcs
<1>5. FlushedOK'
  BY DEF IInv, FlushedOK, Snaps
<1> QED BY <1>2, <1>3, <1>4, <1>5 DEF IInv

\* MmapFile::open keeps the invariant.
LEMMA OpenMmapStep ==
  ASSUME IInv, WholePages, NEW size \in Sizes, NEW user \in UserVersions, OpenMmap(size, user)
  PROVE  IInv'
<1>1. /\ TypeOK /\ HeaderOK(cache) /\ len \in Nat /\ cache \in File(len)
      /\ pc = "idle" /\ page = 0 /\ pool = NoPool
  BY DEF IInv, TypeOK, PcOK, OpenMmap
<1>2. pc' = "idle" /\ page' = 0 /\ UNCHANGED <<len, cache, disk, flushed, recent>>
  BY <1>1 DEF OpenMmap
<1>3. CASE HeaderCheck(cache, len, size, user) /\ cache.header.sum = HashOf(user, cache.data, size)
  <2>1. len > 0 /\ size = Units(len)
    BY <1>1, <1>3, CheckedSize
  <2>2. pool' = [kind |-> "mmap", user |-> user, size |-> Units(len), slice |-> Units(len), pages |-> len]
    BY <1>3, <2>1 DEF OpenMmap, Opened
  <2>3. PoolOK'
    BY <1>2, <2>1, <2>2 DEF PoolOK, Kinds
  <2>4. cache.data \in Data(len)
    BY <1>1, FileParts
  <2>5. cache.header.sum = Hash(user, cache.data)
    BY <1>1, <1>3, <2>1, <2>4, HashPages
  <2>6. [user |-> user, content |-> cache.data] \in recent
    BY <1>1, <2>4, <2>5, Matches
  <2>7. Kept' = [user |-> user, content |-> cache.data] /\ pool' # NoPool
    BY <1>2, <2>2 DEF Kept, Held, NoPool
  <2>8. OpenedOK'
    BY <1>2, <2>6, <2>7 DEF OpenedOK
  <2>9. opened' \in BOOLEAN
    BY <1>3 DEF OpenMmap
  <2> QED BY <1>2, <2>3, <2>8, <2>9, Between
<1>4. CASE ~(HeaderCheck(cache, len, size, user) /\ cache.header.sum = HashOf(user, cache.data, size))
  <2>1. opened' = FALSE /\ pool' = NoPool
    BY <1>1, <1>4 DEF OpenMmap
  <2>2. PoolOK' /\ OpenedOK'
    BY <2>1 DEF PoolOK, OpenedOK
  <2> QED BY <1>2, <2>1, <2>2, Between
<1> QED BY <1>3, <1>4

\* The header half of FileBackedMemory::open keeps the invariant.
LEMMA OpenMemoryStep ==
  ASSUME IInv, WholePages, NEW size \in Sizes, NEW user \in UserVersions, OpenMemory(size, user)
  PROVE  IInv'
<1>1. len \in Nat /\ pc = "idle" /\ page = 0 /\ pool = NoPool
  BY DEF IInv, TypeOK, PcOK, OpenMemory
<1>2. UNCHANGED <<len, cache, disk, flushed, recent>> /\ opened' = FALSE
  BY DEF OpenMemory
<1>3. CASE HeaderCheck(cache, len, size, user)
  <2>1. len > 0 /\ size = Units(len) /\ size \div UnitsPerPage = len
    BY <1>1, <1>3, CheckedSize
  <2>2. pool' = [kind |-> "memory", user |-> user, size |-> Units(len), slice |-> Units(len), pages |-> len]
    BY <1>3, <2>1 DEF OpenMemory, Opened
  <2>3. pc' = "read" /\ page' = 0 /\ sum' = <<user>> /\ mem' = [u \in 1..Units(len) |-> 0]
    BY <1>3, <2>1 DEF OpenMemory
  <2>4. mem' \in Data(len)
    BY <2>3, DatapoolAssumption DEF Data
  <2>5. PoolOK' /\ pool' # NoPool /\ pool'.kind = "memory" /\ pool'.user = user
    BY <1>2, <2>1, <2>2, <2>4 DEF PoolOK, Kinds, NoPool
  <2>6. PcOK'
    BY <1>1, <1>2, <2>3, <2>5 DEF PcOK, FlushPcs
  <2>7. TypeOK'
    BY <1>2, <2>5, <2>6 DEF IInv, TypeOK, Snaps
  <2>8. HashedPages'
    BY <1>1, <2>3, <2>4, <2>5, HashPages DEF HashedPages
  <2>9. HeaderOK(cache)' /\ HeaderOK(disk)'
    BY <1>2 DEF IInv, HeaderOK
  <2>10. WrittenPages' /\ FlushOK' /\ OpenedOK'
    BY <1>2, <2>3 DEF WrittenPages, FlushOK, OpenedOK, FlushPcs
  <2>11. FlushedOK'
    BY <1>2 DEF IInv, FlushedOK, Snaps
  <2> QED BY <2>7, <2>8, <2>9, <2>10, <2>11 DEF IInv
<1>4. CASE ~HeaderCheck(cache, len, size, user)
  <2>1. pool' = NoPool /\ pc' = "idle" /\ page' = 0
    BY <1>1, <1>4 DEF OpenMemory
  <2>2. PoolOK' /\ OpenedOK'
    BY <1>2, <2>1 DEF PoolOK, OpenedOK
  <2> QED BY <1>2, <2>1, <2>2, Between
<1> QED BY <1>3, <1>4

\* Reading a page, whole or short, keeps the invariant when what was read
\* before stays and sum is of the pages done.
LEMMA Reading ==
  ASSUME IInv, pc = "read", mem' \in Data(len), page' \in Nat, page' <= len, HashedPages',
         UNCHANGED <<len, cache, disk, pool, pc, opened, flushed, recent>>
  PROVE  IInv'
<1>1. pool # NoPool /\ pool.kind = "memory" /\ ~opened
  BY DEF IInv, TypeOK, PcOK, OpenedOK
<1>2. PoolOK'
  BY <1>1 DEF IInv, TypeOK, PoolOK
<1>3. PcOK'
  BY <1>1 DEF IInv, TypeOK, PcOK
<1>4. TypeOK'
  BY <1>2, <1>3 DEF IInv, TypeOK, Snaps
<1>5. HeaderOK(cache)' /\ HeaderOK(disk)'
  BY DEF IInv, HeaderOK
<1>6. WrittenPages' /\ FlushOK' /\ OpenedOK'
  BY <1>1 DEF WrittenPages, FlushOK, OpenedOK, FlushPcs
<1>7. FlushedOK'
  BY DEF IInv, FlushedOK, Snaps
<1> QED BY <1>4, <1>5, <1>6, <1>7 DEF IInv

\* One page is what lies between the units of its start and of the next one's.
LEMMA PageBounds ==
  ASSUME NEW p \in Nat
  PROVE  PageUnits(p) = (Units(p) + 1)..Units(p + 1)
  BY DEF PageUnits, Units

\* The pages done so far and the one being done.
LEMMA DonePages ==
  ASSUME NEW n \in Nat, NEW p \in Nat, p < n, NEW s \in Data(n)
  PROVE  /\ \A u \in 1..Units(p) : u \in DOMAIN s /\ u \notin PageUnits(p)
         /\ \A u \in 1..Units(p + 1) : u \in DOMAIN s /\ (u \in 1..Units(p) \/ u \in PageUnits(p))
<1>1. /\ Units(p) \in Nat /\ Units(p + 1) \in Nat /\ Units(p) <= Units(p + 1)
      /\ Units(p + 1) <= Units(n) /\ Units(n) \in Nat
  BY UnitsBefore
<1>2. DOMAIN s = 1..Units(n)
  BY DEF Data
<1>3. PageUnits(p) = (Units(p) + 1)..Units(p + 1)
  BY PageBounds
<1> QED BY <1>1, <1>2, <1>3

\* Reading a page keeps the invariant.
LEMMA ReadPageStep ==
  ASSUME IInv, ReadPage
  PROVE  IInv'
<1>1. pc = "read" /\ pool # NoPool /\ pool.kind = "memory" /\ TypeOK /\ len \in Nat /\ page \in Nat
  BY DEF IInv, TypeOK, PcOK, ReadPage
<1>2. /\ pool.pages = len /\ pool.user \in UserVersions /\ mem \in Data(len) /\ cache.data \in Data(len)
      /\ page < len
  BY <1>1, PoolFields, FileParts DEF TypeOK, ReadPage
<1>3. /\ Units(page) \in Nat /\ Units(page + 1) \in Nat /\ Units(page) <= Units(page + 1)
      /\ Units(page + 1) <= Units(len) /\ Units(len) \in Nat /\ page + 1 \in Nat
  BY <1>1, <1>2, UnitsBefore
<1>4. mem' = [u \in DOMAIN mem |-> IF u \in PageUnits(page) THEN cache.data[u] ELSE mem[u]]
  BY DEF ReadPage
<1>5. mem' \in Data(len)
  BY <1>2, <1>4 DEF Data
<1>6. \A u \in 1..Units(page) : mem'[u] = mem[u]
  <2>1. \A u \in 1..Units(page) : u \in DOMAIN mem /\ u \notin PageUnits(page)
    BY <1>1, <1>2, DonePages
  <2> QED BY <1>4, <2>1
<1>7. SubSeq(mem', 1, Units(page)) = SubSeq(mem, 1, Units(page))
  BY <1>1, <1>2, <1>3, <1>5, <1>6, SameStart
<1>8. Hash(pool.user, SubSeq(mem', 1, Units(page))) \o PageOf(mem', page)
        = Hash(pool.user, SubSeq(mem', 1, Units(page + 1)))
  BY <1>1, <1>2, <1>5, HashNext
<1>9. sum = Hash(pool.user, SubSeq(mem, 1, Units(page)))
  BY <1>1 DEF IInv, HashedPages
<1>10. HashedPages'
  BY <1>7, <1>8, <1>9 DEF HashedPages, ReadPage
<1> QED BY <1>1, <1>2, <1>3, <1>5, <1>10, Reading DEF ReadPage

\* A short read keeps the invariant.
LEMMA ShortReadStep ==
  ASSUME IInv, ShortRead
  PROVE  IInv'
<1>1. pc = "read" /\ pool # NoPool /\ pool.kind = "memory" /\ TypeOK /\ len \in Nat /\ page \in Nat
  BY DEF IInv, TypeOK, PcOK, ShortRead
<1>2. /\ pool.pages = len /\ pool.user \in UserVersions /\ mem \in Data(len) /\ cache.data \in Data(len)
      /\ page < len
  BY <1>1, PoolFields, FileParts DEF TypeOK, ShortRead
<1>3. /\ Units(page) \in Nat /\ Units(page + 1) \in Nat /\ Units(page) <= Units(page + 1)
      /\ Units(page + 1) <= Units(len) /\ Units(len) \in Nat
  BY <1>1, <1>2, UnitsBefore
<1>4. PICK n \in 1..(UnitsPerPage - 1) :
         mem' = [u \in DOMAIN mem |->
                   IF u \in PageUnits(page) /\ u <= page * UnitsPerPage + n
                   THEN cache.data[u] ELSE mem[u]]
  BY DEF ShortRead
<1>5. mem' \in Data(len)
  BY <1>2, <1>4 DEF Data
<1>6. \A u \in 1..Units(page) : mem'[u] = mem[u]
  <2>1. \A u \in 1..Units(page) : u \in DOMAIN mem /\ u \notin PageUnits(page)
    BY <1>1, <1>2, DonePages
  <2> QED BY <1>4, <2>1
<1>7. SubSeq(mem', 1, Units(page)) = SubSeq(mem, 1, Units(page))
  BY <1>1, <1>2, <1>3, <1>5, <1>6, SameStart
<1>8. HashedPages'
  BY <1>7 DEF IInv, HashedPages, ShortRead
<1> QED BY <1>1, <1>2, <1>5, <1>8, Reading DEF ShortRead

\* The checksum comparison at the end of FileBackedMemory::open keeps the
\* invariant.
LEMMA ReadDoneStep ==
  ASSUME IInv, ReadDone
  PROVE  IInv'
<1>1. pc = "read" /\ pool # NoPool /\ pool.kind = "memory" /\ TypeOK /\ len \in Nat /\ HeaderOK(cache)
  BY DEF IInv, TypeOK, PcOK, ReadDone
<1>2. pool.pages = len /\ pool.user \in UserVersions /\ mem \in Data(len) /\ page = len
  BY <1>1, PoolFields DEF ReadDone
<1>3. pc' = "idle" /\ page' = 0 /\ UNCHANGED <<len, cache, disk, flushed, recent>>
  BY DEF ReadDone
<1>4. CASE cache.header.sum = sum
  <2>1. opened' = TRUE /\ UNCHANGED <<pool, mem>>
    BY <1>4 DEF ReadDone
  <2>2. PoolOK'
    BY <1>1, <1>3, <2>1 DEF TypeOK, PoolOK
  <2>3. sum = Hash(pool.user, mem)
    BY <1>1, <1>2, HashPages DEF IInv, HashedPages
  <2>4. [user |-> pool.user, content |-> mem] \in recent
    BY <1>1, <1>2, <1>4, <2>3, Matches
  <2>5. Kept' = [user |-> pool.user, content |-> mem]
    BY <1>1, <1>3, <2>1 DEF Kept, Held
  <2>6. OpenedOK'
    BY <1>1, <1>3, <2>1, <2>4, <2>5 DEF OpenedOK
  <2> QED BY <1>3, <2>1, <2>2, <2>6, Between
<1>5. CASE cache.header.sum # sum
  <2>1. opened' = FALSE /\ pool' = NoPool
    BY <1>5 DEF ReadDone
  <2>2. PoolOK' /\ OpenedOK'
    BY <2>1 DEF PoolOK, OpenedOK
  <2> QED BY <1>3, <2>1, <2>2, Between
<1> QED BY <1>4, <1>5

-----------------------------------------------------------------------------
(* Stores through the slice. *)

\* A store keeps the invariant.
LEMMA WriteStep ==
  ASSUME IInv, NEW u \in 1..Units(len), NEW v \in Values, Write(u, v)
  PROVE  IInv'
<1>1. TypeOK /\ len \in Nat /\ cache \in File(len) /\ pool # NoPool /\ pc = "idle" /\ page = 0
  BY DEF IInv, TypeOK, PcOK, Write
<1>2. /\ pool \in [kind : Kinds, user : UserVersions, size : {Units(len)}, slice : {Units(len)},
                   pages : {len}]
      /\ len > 0 /\ pool.kind \in Kinds /\ (pool.kind = "memory" => mem \in Data(len))
  BY <1>1 DEF TypeOK, PoolOK
<1>3. opened' = FALSE /\ UNCHANGED <<len, disk, pool, pc, page, sum, recent>>
  BY DEF Write
<1>4. CASE pool.kind = "mmap"
  <2>1. cache' = [cache EXCEPT !.data = [cache.data EXCEPT ![u] = v]] /\ flushed' = NoFlush /\ mem' = mem
    BY <1>4 DEF Write
  <2>2. [cache.data EXCEPT ![u] = v] \in Data(len)
    BY <1>1, FileParts DEF Data
  <2>3. cache' = [header |-> cache.header, data |-> [cache.data EXCEPT ![u] = v]]
    BY <1>1, <2>1, <2>2, FileParts
  <2>4. cache' \in File(len)
    BY <1>1, <2>2, <2>3, FileParts, FileMade
  <2>5. PoolOK'
    BY <1>2, <1>3, <1>4 DEF PoolOK
  <2>6. PcOK'
    BY <1>1, <1>3 DEF IInv, TypeOK, PcOK, FlushPcs
  <2>7. TypeOK'
    BY <1>1, <1>3, <2>4, <2>5, <2>6 DEF TypeOK, Snaps
  <2>8. cache'.header.sum = cache.header.sum
    BY <2>3
  <2>9. HeaderOK(cache)' /\ HeaderOK(disk)'
    BY <1>3, <2>8 DEF IInv, HeaderOK
  <2>10. HashedPages' /\ WrittenPages' /\ FlushOK' /\ OpenedOK' /\ FlushedOK'
    BY <1>1, <1>3, <2>1 DEF HashedPages, WrittenPages, FlushOK, OpenedOK, FlushedOK, FlushPcs
  <2> QED BY <2>7, <2>9, <2>10 DEF IInv
<1>5. CASE pool.kind = "memory"
  <2>1. mem' = [mem EXCEPT ![u] = v] /\ UNCHANGED <<cache, flushed>>
    BY <1>5 DEF Write
  <2>2. mem' \in Data(len)
    BY <1>2, <1>5, <2>1 DEF Data
  <2>3. PoolOK'
    BY <1>2, <1>3, <2>2 DEF PoolOK
  <2>4. OpenedOK'
    BY <1>3 DEF OpenedOK
  <2> QED BY <1>1, <1>3, <2>1, <2>3, <2>4, Between
<1> QED BY <1>2, <1>4, <1>5 DEF Kinds

-----------------------------------------------------------------------------
(* flush. *)

\* A checksum of an earlier flush stays recent when another begins.
LEMMA MoreRecent ==
  ASSUME NEW file, HeaderOK(file), recent \subseteq recent', NEW new, new.header.sum = file.header.sum
  PROVE  new.header.sum = <<>> \/ \E s \in recent' : new.header.sum = Hash(s.user, s.content)
  BY DEF HeaderOK

\* The first sync of MmapFile::flush keeps the invariant.
LEMMA MmapFlushStep ==
  ASSUME IInv, MmapFlush
  PROVE  IInv'
<1>1. TypeOK /\ pool # NoPool /\ pc = "idle" /\ len \in Nat /\ page = 0 /\ pool.kind = "mmap"
  BY DEF IInv, TypeOK, PcOK, MmapFlush, FlushBegin
<1>2. Snapshot = Kept /\ Kept \in Snaps
  BY <1>1, PoolFields
<1>3. /\ recent' = recent \cup {Kept} /\ opened' = FALSE /\ page' = 0 /\ pc' = "hash" /\ disk' = cache
      /\ UNCHANGED <<len, cache, pool, mem, sum, flushed>>
  BY <1>2 DEF MmapFlush, FlushBegin
<1>4. Kept' = Kept
  BY <1>3 DEF Kept, Held
<1>5. PoolOK'
  BY <1>1, <1>3 DEF TypeOK, PoolOK
<1>6. PcOK'
  BY <1>1, <1>3 DEF PcOK, FlushPcs
<1>7. TypeOK'
  BY <1>1, <1>2, <1>3, <1>5, <1>6 DEF TypeOK, Snaps
<1>8. HeaderOK(cache)' /\ HeaderOK(disk)'
  BY <1>3, MoreRecent DEF IInv, HeaderOK
<1>9. HashedPages' /\ WrittenPages' /\ OpenedOK' /\ FlushOK'
  BY <1>3, <1>4 DEF HashedPages, WrittenPages, OpenedOK, FlushOK, FlushPcs
<1>10. FlushedOK'
  BY <1>3 DEF IInv, FlushedOK, Snaps
<1> QED BY <1>7, <1>8, <1>9, <1>10 DEF IInv

\* Copying the new header over the mapped one keeps the invariant: the
\* mapping is then the file of this flush.
LEMMA HeaderWritten ==
  ASSUME IInv, pc \in {"hash", "write"}, cache' = FileOf(Kept), Held' = Held, pc' = "sync",
         flushed' = NoFlush, UNCHANGED <<len, disk, pool, mem, page, opened, recent>>
  PROVE  IInv'
<1>1. TypeOK /\ pool # NoPool /\ len \in Nat /\ Kept \in recent
  BY DEF IInv, TypeOK, PcOK, FlushOK, FlushPcs
<1>2. Held \in Data(len) /\ pool.user \in UserVersions
  BY <1>1, PoolFields
<1>3. cache' \in File(len) /\ cache'.header.sum = Hash(pool.user, Held)
  BY <1>1, <1>2, FileOfType DEF Kept
<1>4. Kept' = Kept /\ Kept.user = pool.user /\ Kept.content = Held
  BY DEF Kept
<1>5. PoolOK'
  BY <1>1 DEF TypeOK, PoolOK
<1>6. PcOK'
  BY <1>1 DEF TypeOK, PcOK, FlushPcs
<1>7. TypeOK'
  BY <1>1, <1>3, <1>5, <1>6 DEF TypeOK, Snaps
<1>8. HeaderOK(cache)' /\ HeaderOK(disk)'
  BY <1>1, <1>3, <1>4 DEF IInv, HeaderOK
<1>9. opened' = FALSE
  BY <1>1 DEF IInv, OpenedOK, TypeOK
<1>10. FlushOK'
  BY <1>1, <1>4 DEF FlushOK, FlushPcs, FileOf
<1>11. HashedPages' /\ WrittenPages' /\ OpenedOK' /\ FlushedOK'
  BY <1>9 DEF HashedPages, WrittenPages, OpenedOK, FlushedOK
<1> QED BY <1>7, <1>8, <1>10, <1>11 DEF IInv

\* MmapFile::flush's header keeps the invariant.
LEMMA MmapHeaderStep ==
  ASSUME IInv, MmapHeader
  PROVE  IInv'
<1>1. TypeOK /\ pool # NoPool /\ pc = "hash" /\ len \in Nat /\ pool.kind = "mmap" /\ cache \in File(len)
  BY DEF IInv, TypeOK, PcOK, MmapHeader
<1>2. /\ pool.pages = len /\ pool.user \in UserVersions /\ cache.data \in Data(len) /\ Held = cache.data
  BY <1>1, PoolFields, FileParts
<1>3. HashOf(pool.user, cache.data, Units(pool.pages)) = Hash(pool.user, cache.data)
  BY <1>1, <1>2, HashPages
<1>4. [magic |-> TRUE, user |-> pool.user, sum |-> Hash(pool.user, cache.data)] \in Header
  <2>1. cache.data \in Seq(Words)
    BY <1>1, <1>2, DataSeq
  <2> QED BY <1>2, <2>1, HashType, HeaderMade
<1>5. cache' = [header |-> [magic |-> TRUE, user |-> pool.user, sum |-> Hash(pool.user, cache.data)],
                data |-> cache.data]
  BY <1>1, <1>3, <1>4, FileParts DEF MmapHeader
<1>6. cache' = FileOf(Kept)
  BY <1>2, <1>5 DEF FileOf, Kept
<1>7. Held' = Held
  BY <1>1, <1>2, <1>5 DEF Held, MmapHeader
<1> QED BY <1>1, <1>6, <1>7, HeaderWritten DEF MmapHeader

\* The trailing sync of flush keeps the invariant.
LEMMA SyncStep ==
  ASSUME IInv, Sync
  PROVE  IInv'
<1>1. TypeOK /\ pool # NoPool /\ pc = "sync" /\ len \in Nat
  BY DEF IInv, TypeOK, PcOK, Sync
<1>2. /\ Snapshot = Kept /\ Kept \in Snaps /\ pool.size = Units(len) /\ len > 0
      /\ pool.user \in UserVersions /\ Held \in Data(len)
  BY <1>1, PoolFields
<1>3. cache = FileOf(Kept)
  BY <1>1 DEF IInv, FlushOK
<1>4. /\ pc' = "idle" /\ page' = 0 /\ opened' = FALSE /\ flushed' = [size |-> Units(len), snap |-> Kept]
      /\ recent' = {Kept} /\ disk' = cache /\ UNCHANGED <<len, cache, pool, mem>>
  BY <1>2 DEF Sync, FlushDone
<1>5. PoolOK'
  BY <1>1, <1>4 DEF TypeOK, PoolOK
<1>6. PcOK'
  BY <1>1, <1>4 DEF TypeOK, PcOK, FlushPcs
<1>7. TypeOK'
  BY <1>1, <1>2, <1>4, <1>5, <1>6 DEF TypeOK, Snaps
<1>8. cache.header.sum = Hash(Kept.user, Kept.content)
  BY <1>3 DEF FileOf
<1>9. HeaderOK(cache)' /\ HeaderOK(disk)'
  BY <1>4, <1>8 DEF HeaderOK
<1>10. HashedPages' /\ WrittenPages' /\ OpenedOK' /\ FlushOK'
  BY <1>4 DEF HashedPages, WrittenPages, OpenedOK, FlushOK, FlushPcs
<1>11. FlushedOK'
  <2>1. flushed'.snap = Kept /\ flushed' \in [size : {Units(len)}, snap : Snaps]
    BY <1>2, <1>4
  <2>2. Snaps' = Snaps
    BY <1>4 DEF Snaps
  <2> QED BY <1>2, <1>3, <1>4, <2>1, <2>2 DEF FlushedOK, FileOf
<1> QED BY <1>7, <1>9, <1>10, <1>11 DEF IInv

\* The start of FileBackedMemory::flush keeps the invariant.
LEMMA MemoryFlushStep ==
  ASSUME IInv, MemoryFlush
  PROVE  IInv'
<1>1. TypeOK /\ pool # NoPool /\ pc = "idle" /\ len \in Nat /\ page = 0 /\ pool.kind = "memory"
  BY DEF IInv, TypeOK, PcOK, MemoryFlush, FlushBegin
<1>2. Snapshot = Kept /\ Kept \in Snaps /\ mem \in Data(len) /\ pool.user \in UserVersions
  BY <1>1, PoolFields
<1>3. /\ recent' = recent \cup {Kept} /\ opened' = FALSE /\ page' = 0 /\ pc' = "write"
      /\ sum' = <<pool.user>> /\ UNCHANGED <<len, cache, disk, pool, mem, flushed>>
  BY <1>2 DEF MemoryFlush, FlushBegin
<1>4. Kept' = Kept
  BY <1>3 DEF Kept, Held
<1>5. PoolOK'
  BY <1>1, <1>3 DEF TypeOK, PoolOK
<1>6. PcOK'
  BY <1>1, <1>3 DEF PcOK, FlushPcs
<1>7. TypeOK'
  BY <1>1, <1>2, <1>3, <1>5, <1>6 DEF TypeOK, Snaps
<1>8. HeaderOK(cache)' /\ HeaderOK(disk)'
  BY <1>3, MoreRecent DEF IInv, HeaderOK
<1>9. HashedPages'
  BY <1>1, <1>2, <1>3, HashPages DEF HashedPages
<1>10. WrittenPages'
  BY <1>3, UnitsType DEF WrittenPages
<1>11. OpenedOK' /\ FlushOK'
  BY <1>3, <1>4 DEF OpenedOK, FlushOK, FlushPcs
<1>12. FlushedOK'
  BY <1>3 DEF IInv, FlushedOK, Snaps
<1> QED BY <1>7, <1>8, <1>9, <1>10, <1>11, <1>12 DEF IInv

\* Writing a page of the data, whole or short, keeps the invariant.
LEMMA Writing ==
  ASSUME IInv, pc = "write", NEW d \in Data(len), cache' = [cache EXCEPT !.data = d],
         page' \in Nat, page' <= len, HashedPages', \A u \in 1..Units(page') : d[u] = mem[u],
         flushed' = NoFlush, UNCHANGED <<len, disk, pool, mem, pc, opened, recent>>
  PROVE  IInv'
<1>1. TypeOK /\ pool # NoPool /\ len \in Nat /\ cache \in File(len) /\ pool.kind = "memory" /\ Kept \in recent
  BY DEF IInv, TypeOK, PcOK, FlushOK, FlushPcs
<1>2. cache' = [header |-> cache.header, data |-> d]
  BY <1>1, FileParts
<1>3. cache' \in File(len) /\ cache'.header.sum = cache.header.sum /\ cache'.data = d
  BY <1>1, <1>2, FileParts, FileMade
<1>4. Kept' = Kept
  BY <1>1 DEF Kept, Held
<1>5. PoolOK'
  BY <1>1 DEF TypeOK, PoolOK
<1>6. PcOK'
  BY <1>1 DEF TypeOK, PcOK
<1>7. TypeOK'
  BY <1>1, <1>3, <1>5, <1>6 DEF TypeOK, Snaps
<1>8. HeaderOK(cache)' /\ HeaderOK(disk)'
  BY <1>3 DEF IInv, HeaderOK
<1>9. WrittenPages'
  BY <1>3 DEF WrittenPages
<1>10. FlushOK'
  BY <1>1, <1>4 DEF FlushOK, FlushPcs
<1>11. OpenedOK' /\ FlushedOK'
  BY DEF IInv, OpenedOK, FlushedOK
<1> QED BY <1>7, <1>8, <1>9, <1>10, <1>11 DEF IInv

\* Writing a page keeps the invariant.
LEMMA WritePageStep ==
  ASSUME IInv, WritePage
  PROVE  IInv'
<1>1. /\ pc = "write" /\ pool # NoPool /\ pool.kind = "memory" /\ TypeOK /\ len \in Nat /\ page \in Nat
      /\ cache \in File(len)
  BY DEF IInv, TypeOK, PcOK, WritePage
<1>2. /\ pool.pages = len /\ pool.user \in UserVersions /\ mem \in Data(len) /\ cache.data \in Data(len)
      /\ page < len
  BY <1>1, PoolFields, FileParts DEF WritePage
<1> DEFINE d == [u \in DOMAIN cache.data |-> IF u \in PageUnits(page) THEN mem[u] ELSE cache.data[u]]
<1>3. d \in Data(len)
  BY <1>2 DEF Data
<1>4. cache' = [cache EXCEPT !.data = d]
  BY DEF WritePage
<1>5. \A u \in 1..Units(page) : cache.data[u] = mem[u]
  BY <1>1 DEF IInv, WrittenPages
<1>6. \A u \in 1..Units(page + 1) : d[u] = mem[u]
  <2>1. \A u \in 1..Units(page + 1) : u \in DOMAIN cache.data /\ (u \in 1..Units(page) \/ u \in PageUnits(page))
    BY <1>1, <1>2, DonePages
  <2> QED BY <1>5, <2>1
<1>7. Hash(pool.user, SubSeq(mem, 1, Units(page))) \o PageOf(mem, page)
        = Hash(pool.user, SubSeq(mem, 1, Units(page + 1)))
  BY <1>1, <1>2, HashNext
<1>8. sum = Hash(pool.user, SubSeq(mem, 1, Units(page)))
  BY <1>1 DEF IInv, HashedPages
<1>9. HashedPages'
  BY <1>7, <1>8 DEF HashedPages, WritePage
<1>10. page' = page + 1 /\ page + 1 \in Nat /\ page + 1 <= len
  BY <1>1, <1>2 DEF WritePage
<1> HIDE DEF d
<1> QED BY <1>1, <1>3, <1>4, <1>6, <1>9, <1>10, Writing DEF WritePage

\* A short write keeps the invariant.
LEMMA ShortWriteStep ==
  ASSUME IInv, ShortWrite
  PROVE  IInv'
<1>1. /\ pc = "write" /\ pool # NoPool /\ pool.kind = "memory" /\ TypeOK /\ len \in Nat /\ page \in Nat
      /\ cache \in File(len) /\ page <= len
  BY DEF IInv, TypeOK, PcOK, ShortWrite
<1>2. mem \in Data(len) /\ cache.data \in Data(len)
  BY <1>1, PoolFields, FileParts
<1>3. PICK n \in 1..(UnitsPerPage - 1) :
        cache' = [cache EXCEPT !.data =
                    [u \in DOMAIN cache.data |->
                        IF u \in PageUnits(page) /\ u <= page * UnitsPerPage + n
                        THEN mem[u] ELSE cache.data[u]]]
  BY DEF ShortWrite
<1> DEFINE d == [u \in DOMAIN cache.data |->
                    IF u \in PageUnits(page) /\ u <= page * UnitsPerPage + n THEN mem[u] ELSE cache.data[u]]
<1>4. d \in Data(len)
  BY <1>2 DEF Data
<1>5. \A u \in 1..Units(page) : cache.data[u] = mem[u]
  BY <1>1 DEF IInv, WrittenPages
<1>6. Units(page) \in Nat /\ Units(len) \in Nat /\ Units(page) <= Units(len)
  BY <1>1, UnitsType
<1>7. \A u \in 1..Units(page) : u \in DOMAIN cache.data
  BY <1>2, <1>6 DEF Data
<1>8. \A u \in 1..Units(page) : d[u] = mem[u]
  BY <1>5, <1>7
<1>9. HashedPages'
  BY DEF IInv, HashedPages, ShortWrite
<1>10. page' = page
  BY DEF ShortWrite
<1> HIDE DEF d
<1> QED BY <1>1, <1>3, <1>4, <1>8, <1>9, <1>10, Writing DEF ShortWrite, d

\* Data that agrees everywhere is the same.
LEMMA SameData ==
  ASSUME NEW n \in Nat, NEW s \in Data(n), NEW t \in Data(n), \A u \in 1..Units(n) : s[u] = t[u]
  PROVE  s = t
<1>1. s \in Seq(Words) /\ t \in Seq(Words) /\ Len(s) = Units(n) /\ Len(t) = Units(n)
  BY DataSeq
<1> QED BY <1>1, SeqEqual

\* When every page is written, the file's data and sum are the memory's.
LEMMA AllWritten ==
  ASSUME IInv, pc = "write", page = pool.pages
  PROVE  /\ TypeOK /\ len \in Nat /\ cache \in File(len) /\ pool.kind = "memory"
         /\ pool.user \in UserVersions /\ mem \in Data(len) /\ Held = mem
         /\ cache.data = mem /\ sum = Hash(pool.user, mem) /\ sum \in Seq(Words)
<1>1. pool # NoPool /\ pool.kind = "memory" /\ TypeOK /\ len \in Nat /\ cache \in File(len)
  BY DEF IInv, TypeOK, PcOK
<1>2. /\ pool.pages = len /\ pool.user \in UserVersions /\ mem \in Data(len) /\ cache.data \in Data(len)
      /\ Held = mem
  BY <1>1, PoolFields, FileParts
<1>3. \A u \in 1..Units(len) : cache.data[u] = mem[u]
  BY <1>2 DEF IInv, WrittenPages
<1>4. cache.data = mem
  BY <1>1, <1>2, <1>3, SameData
<1>5. sum = Hash(pool.user, mem)
  BY <1>1, <1>2, HashPages DEF IInv, HashedPages
<1>6. sum \in Seq(Words)
  BY <1>1, <1>2, <1>5, DataSeq, HashType
<1> QED BY <1>1, <1>2, <1>4, <1>5, <1>6

\* FileBackedMemory::flush's header keeps the invariant.
LEMMA WriteHeaderStep ==
  ASSUME IInv, WriteHeader
  PROVE  IInv'
<1>1. pc = "write" /\ page = pool.pages
  BY DEF WriteHeader
<1>2. /\ len \in Nat /\ cache \in File(len) /\ pool.kind = "memory" /\ pool.user \in UserVersions
      /\ mem \in Data(len) /\ Held = mem
      /\ cache.data = mem /\ sum = Hash(pool.user, mem) /\ sum \in Seq(Words)
  BY <1>1, AllWritten
<1>3. [magic |-> TRUE, user |-> pool.user, sum |-> sum] \in Header
  BY <1>2, HeaderMade
<1>4. cache' = [header |-> [magic |-> TRUE, user |-> pool.user, sum |-> sum], data |-> cache.data]
  BY <1>2, <1>3, FileParts DEF WriteHeader
<1>5. cache' = FileOf(Kept)
  BY <1>2, <1>4 DEF FileOf, Kept
<1>6. Held' = Held
  BY <1>2 DEF Held, WriteHeader
<1> QED BY <1>1, <1>5, <1>6, HeaderWritten DEF WriteHeader

\* A header of which only the checksum got written keeps the invariant.
LEMMA ShortHeaderStep ==
  ASSUME IInv, ShortHeader
  PROVE  IInv'
<1>1. pc = "write" /\ page = pool.pages
  BY DEF ShortHeader
<1>2. /\ TypeOK /\ len \in Nat /\ cache \in File(len) /\ pool.kind = "memory" /\ mem \in Data(len)
      /\ Held = mem /\ sum = Hash(pool.user, mem) /\ sum \in Seq(Words) /\ cache.data = mem
  BY <1>1, AllWritten
<1>3. Kept \in recent /\ Kept.user = pool.user /\ Kept.content = mem
  BY <1>1, <1>2 DEF IInv, FlushOK, FlushPcs, Kept
<1>4. cache.header \in Header
  BY <1>2, FileParts
<1>5. [cache.header EXCEPT !.sum = sum] \in Header /\ [cache.header EXCEPT !.sum = sum].sum = sum
  BY <1>2, <1>4 DEF Header
<1>6. cache' = [header |-> [cache.header EXCEPT !.sum = sum], data |-> cache.data]
  BY <1>2, <1>5, FileParts DEF ShortHeader
<1>7. cache' \in File(len) /\ cache'.header.sum = Hash(Kept.user, Kept.content) /\ cache'.data = cache.data
  BY <1>2, <1>3, <1>5, <1>6, FileMade
<1>8. flushed' = NoFlush /\ UNCHANGED <<len, disk, pool, mem, pc, page, sum, opened, recent>>
  BY DEF ShortHeader
<1>9. Kept' = Kept
  BY <1>2, <1>8 DEF Kept, Held
<1>10. PoolOK' /\ PcOK'
  BY <1>2, <1>8 DEF TypeOK, PoolOK, PcOK
<1>11. TypeOK'
  BY <1>2, <1>7, <1>8, <1>10 DEF TypeOK, Snaps
<1>12. HeaderOK(cache)' /\ HeaderOK(disk)'
  BY <1>3, <1>7, <1>8 DEF IInv, HeaderOK
<1>13. HashedPages' /\ WrittenPages'
  BY <1>7, <1>8 DEF IInv, HashedPages, WrittenPages
<1>14. FlushOK' /\ OpenedOK' /\ FlushedOK'
  BY <1>1, <1>3, <1>8, <1>9 DEF IInv, FlushOK, OpenedOK, FlushedOK, FlushPcs
<1> QED BY <1>11, <1>12, <1>13, <1>14 DEF IInv

\* A flush that fails keeps the invariant.
LEMMA FlushFailsStep ==
  ASSUME IInv, FlushFails
  PROVE  IInv'
<1>1. PoolOK'
  BY DEF IInv, TypeOK, PoolOK, FlushFails
<1>2. OpenedOK'
  BY DEF OpenedOK, FlushFails
<1> QED BY <1>1, <1>2, Between DEF FlushFails

-----------------------------------------------------------------------------
(* The end of the process, the loss of power and the kernel's write-back. *)

\* A process that ends keeps the invariant.
LEMMA ProcessEndsStep ==
  ASSUME IInv, ProcessEnds
  PROVE  IInv'
<1>1. PoolOK' /\ OpenedOK'
  BY DEF PoolOK, OpenedOK, ProcessEnds, Gone
<1> QED BY <1>1, Between DEF ProcessEnds, Gone

\* A loss of power keeps the invariant.
LEMMA PowerLossStep ==
  ASSUME IInv, PowerLoss
  PROVE  IInv'
<1>1. /\ pool' = NoPool /\ pc' = "idle" /\ page' = 0 /\ opened' = FALSE /\ cache' = disk /\ disk' = disk
      /\ UNCHANGED <<len, flushed, recent>>
  BY DEF PowerLoss, Gone
<1>2. PoolOK'
  BY <1>1 DEF PoolOK
<1>3. PcOK'
  BY <1>1 DEF IInv, TypeOK, PcOK, FlushPcs
<1>4. TypeOK'
  BY <1>1, <1>2, <1>3 DEF IInv, TypeOK, Snaps
<1>5. HeaderOK(cache)' /\ HeaderOK(disk)'
  BY <1>1 DEF IInv, HeaderOK
<1>6. HashedPages' /\ WrittenPages' /\ FlushOK' /\ OpenedOK'
  BY <1>1 DEF HashedPages, WrittenPages, FlushOK, OpenedOK, FlushPcs
<1>7. FlushedOK'
  BY <1>1 DEF IInv, FlushedOK, Snaps
<1> QED BY <1>4, <1>5, <1>6, <1>7 DEF IInv

\* A page the kernel writes back keeps the invariant.
LEMMA WriteBackStep ==
  ASSUME IInv, WriteBack
  PROVE  IInv'
<1>1. /\ TypeOK /\ len \in Nat /\ cache \in File(len) /\ disk \in File(len) /\ cache # disk
      /\ UNCHANGED <<len, cache, pool, mem, pc, page, sum, opened, flushed, recent>>
  BY DEF IInv, TypeOK, WriteBack
<1>2. cache.header \in Header /\ disk.header \in Header /\ cache.data \in Data(len) /\ disk.data \in Data(len)
  BY <1>1, FileParts
<1>3. disk' \in File(len) /\ disk'.header.sum \in {cache.header.sum, disk.header.sum}
  <2>1. CASE disk' = [disk EXCEPT !.header = cache.header]
    <3>1. disk' = [header |-> cache.header, data |-> disk.data]
      BY <1>1, <1>2, <2>1, FileParts
    <3> QED BY <1>1, <1>2, <3>1, FileMade
  <2>2. ASSUME NEW p \in 0..(len - 1),
               disk' = [disk EXCEPT !.data =
                          [u \in DOMAIN disk.data |-> IF u \in PageUnits(p) THEN cache.data[u] ELSE disk.data[u]]]
        PROVE  disk' \in File(len) /\ disk'.header.sum = disk.header.sum
    <3> DEFINE d == [u \in DOMAIN disk.data |-> IF u \in PageUnits(p) THEN cache.data[u] ELSE disk.data[u]]
    <3>1. d \in Data(len)
      BY <1>2 DEF Data
    <3> HIDE DEF d
    <3>2. disk' = [header |-> disk.header, data |-> d]
      BY <1>1, <2>2, <3>1, FileParts DEF d
    <3> QED BY <1>1, <1>2, <3>1, <3>2, FileMade
  <2> QED BY <2>1, <2>2 DEF WriteBack
<1>4. PoolOK' /\ PcOK'
  BY <1>1 DEF TypeOK, PoolOK, PcOK
<1>5. TypeOK'
  BY <1>1, <1>3, <1>4 DEF TypeOK, Snaps
<1>6. HeaderOK(cache)' /\ HeaderOK(disk)'
  BY <1>1, <1>3 DEF IInv, HeaderOK
<1>7. HashedPages' /\ WrittenPages'
  BY <1>1 DEF IInv, HashedPages, WrittenPages
<1>8. Kept' = Kept
  BY <1>1 DEF Kept, Held
<1>9. FlushOK' /\ OpenedOK'
  BY <1>1, <1>8 DEF IInv, FlushOK, OpenedOK, FileOf
<1>10. flushed = NoFlush
  BY <1>1 DEF IInv, FlushedOK
<1>11. FlushedOK'
  BY <1>1, <1>10 DEF FlushedOK
<1> QED BY <1>5, <1>6, <1>7, <1>9, <1>11 DEF IInv

-----------------------------------------------------------------------------
(* The theorems. *)

\* The invariant holds initially.
LEMMA InitHolds ==
  ASSUME Init
  PROVE  IInv
<1>1. len = 0 /\ cache = ZeroFile(0) /\ disk = ZeroFile(0) /\ recent = {} /\ pool = NoPool /\ pc = "idle"
      /\ page = 0 /\ opened = FALSE /\ flushed = NoFlush
  BY DEF Init, NoFile
<1>2. cache \in File(len) /\ disk \in File(len) /\ cache.header.sum = <<>> /\ disk.header.sum = <<>>
  BY <1>1, ZeroFileType
<1>3. TypeOK
  <2>1. PcOK
    BY <1>1 DEF PcOK, FlushPcs
  <2>2. PoolOK
    BY <1>1 DEF PoolOK
  <2> QED BY <1>1, <1>2, <2>1, <2>2 DEF TypeOK
<1>4. HeaderOK(cache) /\ HeaderOK(disk)
  BY <1>2 DEF HeaderOK
<1>5. HashedPages /\ WrittenPages /\ FlushOK /\ OpenedOK /\ FlushedOK
  BY <1>1 DEF HashedPages, WrittenPages, FlushOK, OpenedOK, FlushedOK, FlushPcs
<1> QED BY <1>3, <1>4, <1>5 DEF IInv

\* A stuttering step keeps the invariant.
LEMMA StutterStep ==
  ASSUME IInv, UNCHANGED vars
  PROVE  IInv'
<1>1. UNCHANGED <<len, cache, disk, pool, mem, pc, page, sum, opened, flushed, recent>>
  BY DEF vars
<1>2. TypeOK'
  BY <1>1 DEF IInv, TypeOK, PoolOK, PcOK, Snaps
<1>3. HeaderOK(cache)' /\ HeaderOK(disk)'
  BY <1>1 DEF IInv, HeaderOK
<1>4. Kept' = Kept
  BY <1>1 DEF Kept, Held
<1>5. HashedPages' /\ WrittenPages' /\ FlushOK' /\ OpenedOK'
  BY <1>1, <1>4 DEF IInv, HashedPages, WrittenPages, FlushOK, OpenedOK, FileOf
<1>6. FlushedOK'
  BY <1>1 DEF IInv, FlushedOK, Snaps
<1> QED BY <1>2, <1>3, <1>5, <1>6 DEF IInv

\* Every step keeps the invariant.
LEMMA NextStep ==
  ASSUME WholePages, IInv, [Next]_vars
  PROVE  IInv'
<1>1. ASSUME NEW kind \in Kinds, NEW size \in Sizes, NEW user \in UserVersions,
             Create(kind, size, user) \/ CreateFails(kind, size, user)
      PROVE  IInv'
  BY <1>1, CreateStep, CreateFailsStep
<1>2. ASSUME NEW size \in Sizes, NEW user \in UserVersions, OpenMmap(size, user) \/ OpenMemory(size, user)
      PROVE  IInv'
  BY <1>2, OpenMmapStep, OpenMemoryStep
<1>3. ASSUME NEW u \in 1..Units(len), NEW v \in Values, Write(u, v)
      PROVE  IInv'
  BY <1>3, WriteStep
<1>4. CASE ReadPage \/ ShortRead \/ ReadDone
  BY <1>4, ReadPageStep, ShortReadStep, ReadDoneStep
<1>5. CASE MmapFlush \/ MmapHeader \/ Sync
  BY <1>5, MmapFlushStep, MmapHeaderStep, SyncStep
<1>6. CASE MemoryFlush \/ WritePage \/ ShortWrite \/ WriteHeader \/ ShortHeader \/ FlushFails
  BY <1>6, MemoryFlushStep, WritePageStep, ShortWriteStep, WriteHeaderStep, ShortHeaderStep, FlushFailsStep
<1>7. CASE ProcessEnds \/ PowerLoss \/ WriteBack \/ Unlink
  BY <1>7, ProcessEndsStep, PowerLossStep, WriteBackStep, UnlinkStep
<1>8. CASE UNCHANGED vars
  BY <1>8, StutterStep
<1> QED BY <1>1, <1>2, <1>3, <1>4, <1>5, <1>6, <1>7, <1>8 DEF Next

\* The invariant holds in every state, for data sizes of whole pages.
THEOREM Invariance == WholePages => (Spec => []IInv)
<1> SUFFICES ASSUME WholePages PROVE Spec => []IInv
  OBVIOUS
<1>1. Init => IInv
  BY InitHolds
<1>2. IInv /\ [Next]_vars => IInv'
  BY NextStep
<1> QED BY <1>1, <1>2, PTL DEF Spec

\* What either open accepts was flushed: the checksum comparison of
\* MmapFile::open and FileBackedMemory::open never lets a mixture of two
\* flushes, or an older one, through, whatever was lost.
THEOREM OpenedWasFlushed == WholePages => (Spec => []OpensAFlush)
<1>1. ASSUME IInv PROVE OpensAFlush
  <2>1. SUFFICES ASSUME opened PROVE Snapshot \in recent
    BY DEF OpensAFlush
  <2>2. TypeOK /\ pool # NoPool /\ Kept \in recent
    BY <1>1, <2>1 DEF IInv, OpenedOK
  <2> QED BY <2>2, PoolFields
<1> QED BY <1>1, Invariance, PTL

\* A flush that returned Ok can be opened again until the file is written,
\* after a loss of power too: the trailing sync of flush.
THEOREM FlushIsDurable == WholePages => (Spec => []FlushSurvives)
<1>1. ASSUME IInv PROVE FlushSurvives
  <2>1. SUFFICES ASSUME flushed # NoFlush, NEW file \in {cache, disk}
                 PROVE  /\ Accepts(file, flushed.size, flushed.snap.user)
                        /\ SubSeq(file.data, 1, flushed.size) = flushed.snap.content
    BY DEF FlushSurvives
  <2>2. /\ len \in Nat /\ len > 0 /\ flushed \in [size : {Units(len)}, snap : Snaps]
        /\ file = FileOf(flushed.snap)
    BY <1>1, <2>1 DEF IInv, TypeOK, FlushedOK
  <2>3. flushed.size = Units(len) /\ flushed.snap \in Snaps
    BY <2>2
  <2>4. flushed.snap.user \in UserVersions /\ flushed.snap.content \in Data(len)
    BY <2>3 DEF Snaps
  <2>5. /\ file.header.magic = TRUE /\ file.header.user = flushed.snap.user
        /\ file.header.sum = Hash(flushed.snap.user, flushed.snap.content)
        /\ file.data = flushed.snap.content
    BY <2>2 DEF FileOf
  <2>6. DataPages(flushed.size) = len
    BY <2>2, <2>3, PagesOfUnits
  <2>7. HeaderCheck(file, len, flushed.size, flushed.snap.user)
    BY <2>2, <2>5, <2>6 DEF HeaderCheck
  <2>8. /\ HashOf(flushed.snap.user, file.data, Units(len)) = Hash(flushed.snap.user, file.data)
        /\ SubSeq(file.data, 1, Units(len)) = file.data
    BY <2>2, <2>4, <2>5, HashPages
  <2> QED BY <2>3, <2>5, <2>7, <2>8 DEF Accepts
<1> QED BY <1>1, Invariance, PTL
=============================================================================
