------------------------------ MODULE Datapool ------------------------------
(***************************************************************************)
(* The file-backed datapools of crates/datatier: MmapFile ("mmap") and     *)
(* FileBackedMemory ("memory").  Both keep a header page and whole data     *)
(* pages in one file; the header carries a checksum over itself and the     *)
(* data.  Contents are counted in units, UnitsPerPage to a page, so that a  *)
(* data size need not be a whole number of pages.                           *)
(*                                                                         *)
(* cache is what the process sees of the file (the page cache, or the      *)
(* mapping), disk what survives a loss of power.  The kernel may write a    *)
(* page back at any time.  The hash is modelled as the sequence it hashes,  *)
(* which makes it injective; the header's clock readings only feed the      *)
(* hash and are left out.                                                   *)
(***************************************************************************)
EXTENDS Integers, Sequences, FiniteSets

CONSTANTS
    UnitsPerPage,   \* units in a page
    Sizes,          \* data sizes, in units, that create and open are called with
    Values,         \* what a unit may hold; 0 is among them
    UserVersions,   \* user versions that create and open are called with
    MaxWrites,      \* bound on the stores through as_mut_slice
    MaxFlushes,     \* bound on the calls of flush
    MaxErrors       \* bound on the I/O errors returned by create and flush

ASSUME DatapoolAssumption ==
    /\ UnitsPerPage \in Nat \ {0}
    /\ Sizes \subseteq Nat \ {0}
    /\ IsFiniteSet(Sizes)
    /\ 0 \in Values
    /\ MaxWrites \in Nat
    /\ MaxFlushes \in Nat
    /\ MaxErrors \in Nat

VARIABLES
    len,        \* data pages of the file, 0 when there is no file
    cache,      \* the file as the process sees it
    disk,       \* the file as it survives a loss of power
    pool,       \* the open datapool, or NoPool
    mem,        \* FileBackedMemory's memory
    pc,         \* where the running open or flush is
    page,       \* data pages the running open or flush has done
    sum,        \* what the running open or flush has hashed
    opened,     \* the last call was an open that returned a datapool
    flushed,    \* the last flush, while the file is as it left it, or NoFlush
    recent,     \* contents of the last completed flush and of those begun since
    writes,     \* stores so far
    flushes,    \* calls of flush so far
    errors      \* I/O errors so far

vars == <<len, cache, disk, pool, mem, pc, page, sum, opened, flushed, recent, writes, flushes, errors>>

NoPool == [kind |-> "none"]
NoFlush == [size |-> 0]
Kinds == {"mmap", "memory"}

\* pages = ceil((HEADER_SIZE + data_size) / PAGE_SIZE), less the header's one.
DataPages(size) == (size + UnitsPerPage - 1) \div UnitsPerPage
Units(pages) == pages * UnitsPerPage

\* A fresh file: no magic, all bytes zero.
ZeroHeader == [magic |-> FALSE, user |-> 0, sum |-> <<>>]
ZeroFile(pages) == [header |-> ZeroHeader, data |-> [u \in 1..Units(pages) |-> 0]]
NoFile == ZeroFile(0)

PageUnits(p) == (p * UnitsPerPage + 1)..((p + 1) * UnitsPerPage)
PageOf(data, p) == SubSeq(data, p * UnitsPerPage + 1, (p + 1) * UnitsPerPage)

Init ==
    /\ len = 0 /\ cache = NoFile /\ disk = NoFile
    /\ pool = NoPool /\ mem = <<>>
    /\ pc = "idle" /\ page = 0 /\ sum = <<>> /\ opened = FALSE
    /\ flushed = NoFlush /\ recent = {} /\ writes = 0 /\ flushes = 0 /\ errors = 0

-----------------------------------------------------------------------------
\* create: create_new refuses a file that is there; the length is set, the
\* zero fill changes nothing of a fresh file, and the pages are synced. Taken as
\* one step, after which the empty file and its name are durable, also when the sync
\* failed. (The code syncs no directory entry; open refuses an empty file and a
\* missing one alike, and a flush that returned is taken to have kept the name.)
CreateFile(kind, size, user) ==
    /\ pool = NoPool /\ pc = "idle" /\ len = 0
    /\ len' = DataPages(size)
    /\ cache' = ZeroFile(DataPages(size))
    /\ disk' = ZeroFile(DataPages(size))
    /\ recent' = {}
    /\ flushed' = NoFlush
    /\ UNCHANGED <<pc, page, sum, writes, flushes>>

Create(kind, size, user) ==
    /\ CreateFile(kind, size, user)
    /\ pool' = [kind |-> kind, user |-> user, size |-> size,
                \* MmapFile's slice runs to the end of the file, Memory is data_size long
                slice |-> IF kind = "mmap" THEN Units(DataPages(size)) ELSE size,
                \* the pages flush hashes: mmap.len(), or the rounded file_data
                pages |-> DataPages(size)]
    /\ mem' = IF kind = "mmap" THEN <<>> ELSE [u \in 1..size |-> 0]
    /\ opened' = FALSE
    /\ UNCHANGED errors

\* The sync at the end of create fails: no datapool, but the file stays.
CreateFails(kind, size, user) ==
    /\ errors < MaxErrors
    /\ CreateFile(kind, size, user)
    /\ opened' = FALSE
    /\ errors' = errors + 1
    /\ UNCHANGED <<pool, mem>>

-----------------------------------------------------------------------------
\* The checks open makes on the file before it looks at the data.
HeaderCheck(file, pages, size, user) ==
    /\ pages > 0                    \* the file is there
    /\ pages = DataPages(size)      \* else "filesize mismatch"
    /\ file.header.magic            \* else "header is not recognized"
    /\ file.header.user = user      \* else "user version mismatch"

\* The hash of the header with a zeroed checksum, and of n units of data.
HashOf(user, data, n) == <<user>> \o SubSeq(data, 1, n)

Opened(kind, size, user) ==
    [kind |-> kind, user |-> user, size |-> size, slice |-> size,
     pages |-> IF kind = "mmap" THEN len ELSE size \div UnitsPerPage]

\* Slip: the checksum is not compared.
OpenMmapNoChecksum(size, user) ==
    /\ pool = NoPool /\ pc = "idle"
    /\ IF HeaderCheck(cache, len, size, user)
       THEN pool' = Opened("mmap", size, user) /\ opened' = TRUE
       ELSE opened' = FALSE /\ UNCHANGED pool
    /\ UNCHANGED <<len, cache, disk, mem, pc, page, sum, flushed, recent, writes, flushes, errors>>

\* MmapFile::open works on the mapping and hashes data_size bytes of it.
OpenMmap(size, user) ==
    /\ pool = NoPool /\ pc = "idle"
    /\ IF /\ HeaderCheck(cache, len, size, user)
          /\ cache.header.sum = HashOf(user, cache.data, size)
       THEN /\ pool' = Opened("mmap", size, user)
            /\ opened' = TRUE
       ELSE /\ opened' = FALSE
            /\ UNCHANGED pool
    /\ UNCHANGED <<len, cache, disk, mem, pc, page, sum, flushed, recent, writes, flushes, errors>>

\* FileBackedMemory::open reads and checks the header, then reads the whole
\* pages of data_size into memory, hashing each as it goes.
OpenMemory(size, user) ==
    /\ pool = NoPool /\ pc = "idle"
    /\ IF HeaderCheck(cache, len, size, user)
       THEN /\ pc' = "read"
            /\ pool' = Opened("memory", size, user)
            /\ mem' = [u \in 1..size |-> 0]
            /\ page' = 0
            /\ sum' = <<user>>
            /\ opened' = FALSE
       ELSE /\ opened' = FALSE
            /\ UNCHANGED <<pc, pool, mem, page, sum>>
    /\ UNCHANGED <<len, cache, disk, flushed, recent, writes, flushes, errors>>

ReadPage ==
    /\ pc = "read" /\ page < pool.pages
    /\ mem' = [u \in DOMAIN mem |-> IF u \in PageUnits(page) THEN cache.data[u] ELSE mem[u]]
    /\ sum' = sum \o PageOf(mem', page)
    /\ page' = page + 1
    /\ UNCHANGED <<len, cache, disk, pool, pc, opened, flushed, recent, writes, flushes, errors>>

\* A short read leaves a prefix in memory; the code seeks back and reads again.
ShortRead ==
    /\ pc = "read" /\ page < pool.pages
    /\ \E n \in 1..(UnitsPerPage - 1) :
        mem' = [u \in DOMAIN mem |->
                   IF u \in PageUnits(page) /\ u <= page * UnitsPerPage + n
                   THEN cache.data[u] ELSE mem[u]]
    /\ UNCHANGED <<len, cache, disk, pool, pc, page, sum, opened, flushed, recent, writes, flushes, errors>>

ReadDone ==
    /\ pc = "read" /\ page = pool.pages
    /\ pc' = "idle"
    /\ IF cache.header.sum = sum
       THEN /\ opened' = TRUE
            /\ UNCHANGED <<pool, mem>>
       ELSE /\ opened' = FALSE
            /\ pool' = NoPool /\ mem' = <<>>
    /\ page' = 0 /\ sum' = <<>>
    /\ UNCHANGED <<len, cache, disk, flushed, recent, writes, flushes, errors>>

-----------------------------------------------------------------------------
\* The user of the pool stores through as_mut_slice.
Write(u, v) ==
    /\ pool # NoPool /\ pc = "idle" /\ u <= pool.slice /\ writes < MaxWrites
    /\ writes' = writes + 1
    /\ opened' = FALSE
    /\ IF pool.kind = "mmap"
       THEN /\ v # cache.data[u]
            /\ cache' = [cache EXCEPT !.data[u] = v]
            /\ flushed' = NoFlush
            /\ UNCHANGED mem
       ELSE /\ v # mem[u]
            /\ mem' = [mem EXCEPT ![u] = v]
            /\ UNCHANGED <<cache, flushed>>
    /\ UNCHANGED <<len, disk, pool, pc, page, sum, recent, flushes, errors>>

\* What the pool's user sees, and what a flush of it is asked to keep.
Content == IF pool.kind = "mmap" THEN SubSeq(cache.data, 1, pool.slice) ELSE mem
Snapshot == [user |-> pool.user, content |-> SubSeq(Content, 1, pool.size)]

FlushBegin ==
    /\ pool # NoPool /\ pc = "idle" /\ flushes < MaxFlushes
    /\ flushes' = flushes + 1
    /\ recent' = recent \cup {Snapshot}
    /\ opened' = FALSE
    /\ page' = 0

FlushDone ==
    /\ pc' = "idle"
    /\ page' = 0 /\ sum' = <<>>
    /\ opened' = FALSE
    /\ flushed' = [size |-> pool.size, snap |-> Snapshot]
    /\ recent' = {Snapshot}

\* MmapFile::flush syncs the data, then hashes it into a header it copies
\* over the mapped one, then syncs again.
MmapFlush ==
    /\ FlushBegin
    /\ pool.kind = "mmap"
    /\ disk' = cache
    /\ pc' = "hash"
    /\ UNCHANGED <<len, cache, pool, mem, sum, flushed, writes, errors>>

MmapHeader ==
    /\ pc = "hash"
    /\ LET hash == HashOf(pool.user, cache.data, Units(pool.pages))
       IN  cache' = [cache EXCEPT !.header = [magic |-> TRUE, user |-> pool.user, sum |-> hash]]
    /\ pc' = "sync"
    /\ flushed' = NoFlush
    /\ UNCHANGED <<len, disk, pool, mem, page, sum, opened, recent, writes, flushes, errors>>

\* Slip: flush returns without the trailing sync.
SyncForgotten ==
    /\ pc = "sync"
    /\ FlushDone
    /\ UNCHANGED <<len, cache, disk, pool, mem, writes, flushes, errors>>

\* mmap.flush(), or sync_all() of a FileBackedMemory's file.
Sync ==
    /\ pc = "sync"
    /\ disk' = cache
    /\ FlushDone
    /\ UNCHANGED <<len, cache, pool, mem, writes, flushes, errors>>

-----------------------------------------------------------------------------
\* FileBackedMemory::flush writes page after page over the file, hashing as
\* it goes, then the header, then syncs.
MemoryFlush ==
    /\ FlushBegin
    /\ pool.kind = "memory"
    /\ pc' = "write"
    /\ sum' = <<pool.user>>
    /\ UNCHANGED <<len, cache, disk, pool, mem, flushed, writes, errors>>

\* The slice of a page that runs past the memory panics.
InMemory(p) == Units(p + 1) <= Len(mem)

WritePage ==
    /\ pc = "write" /\ page < pool.pages /\ InMemory(page)
    /\ cache' = [cache EXCEPT !.data =
                    [u \in DOMAIN @ |-> IF u \in PageUnits(page) THEN mem[u] ELSE @[u]]]
    /\ sum' = sum \o PageOf(mem, page)
    /\ page' = page + 1
    /\ flushed' = NoFlush
    /\ UNCHANGED <<len, disk, pool, mem, pc, opened, recent, writes, flushes, errors>>

\* A short write leaves a prefix in the file; the code seeks back and writes
\* the page again.
ShortWrite ==
    /\ pc = "write" /\ page < pool.pages /\ InMemory(page)
    /\ \E n \in 1..(UnitsPerPage - 1) :
        cache' = [cache EXCEPT !.data =
                     [u \in DOMAIN @ |-> IF u \in PageUnits(page) /\ u <= page * UnitsPerPage + n
                                         THEN mem[u] ELSE @[u]]]
    /\ flushed' = NoFlush
    /\ UNCHANGED <<len, disk, pool, mem, pc, page, sum, opened, recent, writes, flushes, errors>>

WriteHeader ==
    /\ pc = "write" /\ page = pool.pages
    /\ cache' = [cache EXCEPT !.header = [magic |-> TRUE, user |-> pool.user, sum |-> sum]]
    /\ pc' = "sync"
    /\ flushed' = NoFlush
    /\ UNCHANGED <<len, disk, pool, mem, page, sum, opened, recent, writes, flushes, errors>>

\* The header's first field is the checksum: a short write may store it alone.
ShortHeader ==
    /\ pc = "write" /\ page = pool.pages
    /\ cache' = [cache EXCEPT !.header.sum = sum]
    /\ flushed' = NoFlush
    /\ UNCHANGED <<len, disk, pool, mem, pc, page, sum, opened, recent, writes, flushes, errors>>

\* Any sync, write or seek of a flush may fail; `?` returns at once and the
\* pool stays usable.
FlushFails ==
    /\ pc \in {"hash", "write", "sync"} /\ errors < MaxErrors
    /\ pc' = "idle" /\ page' = 0 /\ sum' = <<>>
    /\ opened' = FALSE
    /\ errors' = errors + 1
    /\ UNCHANGED <<len, cache, disk, pool, mem, flushed, recent, writes, flushes>>

-----------------------------------------------------------------------------
\* The datapool is dropped between two calls, or its process dies during one:
\* the page cache keeps what was written.
Gone ==
    /\ pool # NoPool
    /\ pool' = NoPool /\ mem' = <<>> /\ pc' = "idle" /\ page' = 0 /\ sum' = <<>>
    /\ opened' = FALSE
    /\ UNCHANGED <<len, flushed, recent, writes, flushes, errors>>

ProcessEnds == Gone /\ UNCHANGED <<cache, disk>>
PowerLoss == Gone /\ cache' = disk /\ UNCHANGED disk

\* The kernel writes one dirty page back on its own.
WriteBack ==
    /\ cache # disk
    /\ \/ disk' = [disk EXCEPT !.header = cache.header]
       \/ \E p \in 0..(len - 1) :
            disk' = [disk EXCEPT !.data =
                        [u \in DOMAIN @ |-> IF u \in PageUnits(p) THEN cache.data[u] ELSE @[u]]]
    /\ disk' # disk
    /\ UNCHANGED <<len, cache, pool, mem, pc, page, sum, opened, flushed, recent, writes, flushes, errors>>

\* The operator removes the file.
Unlink ==
    /\ pool = NoPool /\ pc = "idle" /\ len > 0
    /\ len' = 0 /\ cache' = NoFile /\ disk' = NoFile
    /\ flushed' = NoFlush /\ recent' = {} /\ opened' = FALSE
    /\ UNCHANGED <<pool, mem, pc, page, sum, writes, flushes, errors>>

Next ==
    \/ \E kind \in Kinds, size \in Sizes, user \in UserVersions :
          Create(kind, size, user) \/ CreateFails(kind, size, user)
    \/ \E size \in Sizes, user \in UserVersions : OpenMmap(size, user) \/ OpenMemory(size, user)
    \/ ReadPage \/ ShortRead \/ ReadDone
    \/ \E u \in 1..Units(len), v \in Values : Write(u, v)
    \/ MmapFlush \/ MmapHeader \/ Sync
    \/ MemoryFlush \/ WritePage \/ ShortWrite \/ WriteHeader \/ ShortHeader
    \/ FlushFails
    \/ ProcessEnds \/ PowerLoss \/ WriteBack \/ Unlink

Spec == Init /\ [][Next]_vars

-----------------------------------------------------------------------------
\* A datapool that open returns holds, whole and unmixed, what the last
\* completed flush was called on or what a flush begun since was called on:
\* never pages of two flushes, never an older flush, whatever the order in
\* which the kernel wrote pages back before the power went (MmapFile::open
\* and FileBackedMemory::open, the checksum comparison).
OpensAFlush == opened => Snapshot \in recent

\* A flush that returned Ok survives: until the file is written again, both
\* the running kernel's view of it and the one left by a loss of power are
\* accepted by either open with the same arguments, and hold the flushed
\* content (the trailing mmap.flush() and sync_all() of flush).
Accepts(file, size, user) ==
    /\ HeaderCheck(file, len, size, user)
    /\ file.header.sum = HashOf(user, file.data, size)

FlushSurvives ==
    flushed # NoFlush =>
        \A file \in {cache, disk} :
            /\ Accepts(file, flushed.size, flushed.snap.user)
            /\ SubSeq(file.data, 1, flushed.size) = flushed.snap.content
=============================================================================
