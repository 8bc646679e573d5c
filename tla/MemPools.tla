------------------------------ MODULE MemPools ------------------------------
(***************************************************************************)
(* The memory pools of job_io over one JobMmap: a JobPagePool with a       *)
(* JobSizePool drawing its spans from it, a JobRangePool, or a             *)
(* JobArenaPool (job_page_pool.cpp, job_size_pool.cpp, job_range_pool.cpp, *)
(* job_arena_pool.cpp, job_mem_extent.h).  Page and range pools keep the   *)
(* same two structures, a first-fit list of free runs and a map of the     *)
(* allocations, counted in pages or in granules (Unit).  Each pool locks   *)
(* its own mutex for a whole call, so a call is one step; a size pool that *)
(* is inside its page pool takes several.  The mapping stays open to its   *)
(* owner: it may be unmapped, grown, closed and reopened under the pools.  *)
(***************************************************************************)
EXTENDS Mmap, FiniteSetsExt

CONSTANTS
    Configs,        \* [kind, len, ext]: the pool ("size": a size pool in a page pool), the
                    \* mapping's length, the pool's extent
    Requests,       \* sizes asked for, in granules
    Alignments,
    SpanPages, ObjectSize   \* JobMemSize::pagesPerSpan(), objectSize()

ASSUME PoolAssumption ==
    /\ \A c \in Configs :
          /\ c.kind \in {"page", "size", "range", "arena"} /\ c.len \in 1..MaxLength
          /\ c.ext \in Nat \X Nat /\ c.ext[1] < c.ext[2] /\ c.ext[2] <= c.len
          /\ c.kind \in {"page", "size"} => c.ext[1] % PageSize = 0 /\ c.ext[2] % PageSize = 0
          /\ c.kind = "range" => c.ext = <<0, c.len>>
    /\ Requests \subseteq Nat \ {0} /\ Alignments \subseteq Nat \ {0} /\ SpanPages \in Nat \ {0}
    /\ \A a \in Alignments : a % PageSize = 0 \/ PageSize % a = 0     \* both are powers of two
    /\ ObjectSize \in 1..(SpanPages * PageSize)

VARIABLES
    kind, ext,
    m_freeSpans,    \* sequence of runs of free units
    m_allocations,  \* first unit -> number of units; in an arena, what it handed out since clear()
    m_allocated,    \* m_allocatedPages, m_allocatedBytes
    total,          \* units the free list was last built over
    m_offset, m_paddingBytes, m_highWatermark,      \* JobArenaPool
    sp,             \* JobSizePool
    spanUnits,      \* the allocations of the page pool the size pool made
    pulled          \* has the size pool lost the memory under its spans?

poolVars  == <<m_freeSpans, m_allocations, m_allocated, total>>
arenaVars == <<m_offset, m_paddingBytes, m_highWatermark>>
vars == <<mmapVars, kind, ext, poolVars, arenaVars, sp, spanUnits, pulled>>

EmptySizePool ==
    [pc |-> "idle", addr |-> 0, todo |-> {}, m_pageAllocations |-> {}, m_freeObjects |-> {},
     m_allocations |-> {}, m_objectCapacity |-> 0, m_allocatedObjects |-> 0]

Unit == IF kind \in {"page", "size"} THEN PageSize ELSE 1
Base == m_addr + ext[1]
ExtentMapped == m_addr # 0 /\ MappedRange(ext)
(* Mutant: an extent counts as mapped while its mapping has an address. *)
Ready_Addr == m_addr # 0
Ready == IF kind = "range" THEN IsValid ELSE ExtentMapped
Addr(u) == Base + u * Unit

Init ==
    /\ \E c \in Configs : kind = c.kind /\ ext = c.ext /\ MapInit(c.len)
    /\ total = (ext[2] - ext[1]) \div Unit
    /\ m_freeSpans = IF kind = "arena" THEN << >> ELSE << <<0, total>> >>
    /\ m_allocations = << >> /\ m_allocated = 0
    /\ m_offset = 0 /\ m_paddingBytes = 0 /\ m_highWatermark = 0
    /\ sp = EmptySizePool /\ spanUnits = {} /\ pulled = FALSE

-----------------------------------------------------------------------------
(* The free list of JobPagePool and JobRangePool. *)
(* Mutant: alignment is taken of the offset, not of the address. *)
Candidate_Offset(r, a) == AlignUp(r[1] * Unit, a)
Candidate(r, a) == AlignUp(Addr(r[1]), a) - Base      \* in granules
Fits(r, n, a) ==
    LET c == Candidate(r, a) IN
    /\ c % Unit = 0
    /\ c \div Unit < r[2] /\ n <= r[2] - c \div Unit

FindFreeSpan(n, a) == SelectInSeq(m_freeSpans, LAMBDA r : Fits(r, n, a))

(* Mutant: the part before an aligned allocation is lost. *)
SplitSpan_NoPrefix(i, f, n) ==
    SubSeq(m_freeSpans, 1, i - 1) \o NonEmpty(<<f + n, m_freeSpans[i][2]>>)
        \o SubSeq(m_freeSpans, i + 1, Len(m_freeSpans))
SplitSpan(i, f, n) ==
    SubSeq(m_freeSpans, 1, i - 1)
        \o NonEmpty(<<m_freeSpans[i][1], f>>) \o NonEmpty(<<f + n, m_freeSpans[i][2]>>)
        \o SubSeq(m_freeSpans, i + 1, Len(m_freeSpans))

InsertFreeSpan(r) == NormalizeRanges(Append(m_freeSpans, r))

PagesForSize(n) == AlignUp(n, Unit) \div Unit

Take(n, a) ==
    LET i == FindFreeSpan(n, a)
        f == Candidate(m_freeSpans[i], a) \div Unit
    IN  /\ Ready /\ i # 0 /\ f \notin DOMAIN m_allocations
        /\ m_allocations' = [u \in DOMAIN m_allocations \cup {f} |->
                                 IF u = f THEN n ELSE m_allocations[u]]
        /\ m_freeSpans' = SplitSpan(i, f, n)
        /\ m_allocated' = m_allocated + n
        /\ UNCHANGED total

(* Does free() accept the address?  A range pool asks whether that byte is still mapped. *)
Owned(p) ==
    /\ Ready /\ p >= Base /\ (kind # "range" => p < Base + (ext[2] - ext[1]))
    /\ kind = "range" => MappedRange(<<p - m_addr, p - m_addr + 1>>)

GiveBack(p) ==
    LET u == (p - Base) \div Unit IN
    /\ m_freeSpans' = InsertFreeSpan(<<u, u + m_allocations[u]>>)
    /\ m_allocations' = [v \in DOMAIN m_allocations \ {u} |-> m_allocations[v]]
    /\ m_allocated' = m_allocated - m_allocations[u]
    /\ UNCHANGED total

Freeable(p) ==
    /\ Owned(p) /\ (p - Base) % Unit = 0
    /\ (p - Base) \div Unit \in DOMAIN m_allocations

Alloc(n, a) ==
    /\ kind # "arena" /\ Take(PagesForSize(n), a)
    /\ UNCHANGED <<arenaVars, sp>>

(* A caller frees what it allocated itself, never the span of a size pool. *)
Free(u) ==
    /\ kind # "arena" /\ u \in DOMAIN m_allocations
    /\ u \notin spanUnits
    /\ Freeable(Addr(u)) /\ GiveBack(Addr(u))
    /\ UNCHANGED <<arenaVars, sp>>

HasSpans == sp.m_pageAllocations # {} \/ sp.pc = "grow"

(* clear(): everything is free again, if the backing is still whole.  It is  *)
(* not called under a size pool that holds spans: nothing would tell it.     *)
Clear ==
    /\ kind # "arena" /\ ~HasSpans
    /\ m_allocations' = << >> /\ m_allocated' = 0
    /\ LET whole == IF kind = "range" THEN IsValid /\ Complete ELSE ExtentMapped
           size  == IF kind = "range" THEN m_mapLength ELSE (ext[2] - ext[1]) \div PageSize
       IN  /\ m_freeSpans' = IF whole THEN << <<0, size>> >> ELSE << >>
           /\ total' = IF whole THEN size ELSE 0
    /\ UNCHANGED <<arenaVars, sp>>

-----------------------------------------------------------------------------
(* JobArenaPool *)
ArenaAlloc(n, a) ==
    /\ kind = "arena" /\ ExtentMapped
    /\ LET padding == AlignUp(Base + m_offset, a) - (Base + m_offset) IN
        /\ padding + n <= ext[2] - ext[1] - m_offset
        /\ m_offset' = m_offset + padding + n /\ m_paddingBytes' = m_paddingBytes + padding
        /\ m_highWatermark' = Max({m_highWatermark, m_offset'})
        /\ m_allocations' = [u \in DOMAIN m_allocations \cup {m_offset + padding} |->
                                 IF u = m_offset + padding THEN n ELSE m_allocations[u]]
    /\ UNCHANGED <<m_freeSpans, m_allocated, total, sp>>

ArenaClear ==
    /\ kind = "arena"
    /\ m_offset' = 0 /\ m_paddingBytes' = 0 /\ m_allocations' = << >>
    /\ UNCHANGED <<m_highWatermark, m_freeSpans, m_allocated, total, sp>>

-----------------------------------------------------------------------------
(* JobSizePool over the page pool.  Which free object is taken is left open. *)
ObjectsPerSpan == (SpanPages * PageSize) \div ObjectSize
Objects(a) == {a + i * ObjectSize : i \in 0..(ObjectsPerSpan - 1)}

SizeAlloc(o) ==
    /\ kind = "size" /\ sp.pc = "idle" /\ o \in sp.m_freeObjects
    /\ sp' = [sp EXCEPT !.m_freeObjects = @ \ {o}, !.m_allocations = @ \cup {o},
                        !.m_allocatedObjects = @ + 1]
    /\ UNCHANGED <<poolVars, arenaVars>>

(* grow(): allocPages() of the page pool, under the size pool's mutex. *)
SizeGrow ==
    /\ kind = "size" /\ sp.pc = "idle" /\ sp.m_freeObjects = {}
    /\ Take(SpanPages, PageSize)
    /\ sp' = [sp EXCEPT !.pc = "grow",
                        !.addr = Addr(CHOOSE u \in DOMAIN m_allocations' : u \notin DOMAIN m_allocations)]
    /\ UNCHANGED arenaVars

(* the span is recorded and cut up, and alloc() takes the object at the back *)
SizeGrown(o) ==
    /\ sp.pc = "grow" /\ o = Max(Objects(sp.addr))
    /\ sp' = [sp EXCEPT !.pc = "idle", !.addr = 0,
                        !.m_pageAllocations = @ \cup {sp.addr},
                        !.m_freeObjects = Objects(sp.addr) \ {o},
                        !.m_objectCapacity = @ + ObjectsPerSpan,
                        !.m_allocations = @ \cup {o}, !.m_allocatedObjects = @ + 1]
    /\ UNCHANGED <<poolVars, arenaVars>>

(* buildFreeList() ran out of memory: the span goes back to the page pool *)
SizeGrowThrows ==
    /\ sp.pc = "grow"
    /\ IF Freeable(sp.addr) THEN GiveBack(sp.addr) ELSE UNCHANGED poolVars
    /\ sp' = [sp EXCEPT !.pc = "idle", !.addr = 0]
    /\ UNCHANGED arenaVars

SizeFree(o) ==
    /\ kind = "size" /\ sp.pc = "idle"
    /\ \E a \in sp.m_pageAllocations : o \in Objects(a)
    /\ o \in sp.m_allocations
    /\ sp' = [sp EXCEPT !.m_freeObjects = @ \cup {o}, !.m_allocations = @ \ {o},
                        !.m_allocatedObjects = @ - 1]
    /\ UNCHANGED <<poolVars, arenaVars>>

SizeClear ==
    /\ kind = "size" /\ sp.pc = "idle" /\ sp.m_pageAllocations # {}
    /\ sp' = [sp EXCEPT !.pc = "clear", !.todo = sp.m_pageAllocations]
    /\ UNCHANGED <<poolVars, arenaVars>>

SizeClearSpan(a) ==
    /\ sp.pc = "clear" /\ a \in sp.todo
    /\ IF Freeable(a) THEN GiveBack(a) ELSE UNCHANGED poolVars
    /\ sp' = [sp EXCEPT !.todo = @ \ {a}]
    /\ UNCHANGED arenaVars

(* Mutant: the objects of the spans just given back stay on the free list. *)
SizeCleared_KeepObjects ==
    /\ sp.pc = "clear" /\ sp.todo = {}
    /\ sp' = [EmptySizePool EXCEPT !.m_freeObjects = sp.m_freeObjects]
    /\ UNCHANGED <<poolVars, arenaVars>>

SizeCleared ==
    /\ sp.pc = "clear" /\ sp.todo = {}
    /\ sp' = EmptySizePool
    /\ UNCHANGED <<poolVars, arenaVars>>

-----------------------------------------------------------------------------
PoolNext ==
    \/ \E n \in Requests, a \in Alignments : Alloc(n, a) \/ ArenaAlloc(n, a)
    \/ \E u \in DOMAIN m_allocations : Free(u)
    \/ Clear \/ ArenaClear
    \/ \E o \in sp.m_freeObjects : SizeAlloc(o)
    \/ \E o \in Objects(sp.addr) : SizeGrown(o)
    \/ \E o \in sp.m_allocations : SizeFree(o)
    \/ SizeGrow \/ SizeGrowThrows \/ SizeClear \/ SizeCleared
    \/ \E a \in sp.todo : SizeClearSpan(a)

Next ==
    /\ \/ PoolNext /\ UNCHANGED mmapVars
       \/ MmapNext /\ UNCHANGED <<poolVars, arenaVars, sp>>
    /\ UNCHANGED <<kind, ext>>
    /\ spanUnits' = DOMAIN m_allocations' \cap
                        (IF sp.pc = "idle" /\ sp'.pc = "grow"
                         THEN spanUnits \cup (DOMAIN m_allocations' \ DOMAIN m_allocations) ELSE spanUnits)
    /\ pulled' = (HasSpans' /\ (pulled \/ ~ExtentMapped' \/ m_addr' # m_addr))

Spec == Init /\ [][Next]_vars

-----------------------------------------------------------------------------
Run(f) == f..(f + m_allocations[f] - 1)
FreeUnits == UNION {m_freeSpans[i][1]..(m_freeSpans[i][2] - 1) : i \in DOMAIN m_freeSpans}
UsedUnits == UNION {Run(f) : f \in DOMAIN m_allocations}

TypeOK ==
    /\ m_addr \in Bases \cup {0} /\ m_mapLength \in 1..MaxLength
    /\ \A s \in {m_mappedRanges, m_lockedRanges} :
          \A i \in DOMAIN s : 0 <= s[i][1] /\ s[i][1] < s[i][2] /\ s[i][2] <= m_mapLength
    /\ m_allocated \in Nat /\ m_offset \in Nat /\ pulled \in BOOLEAN
    /\ sp.pc \in {"idle", "grow", "clear"} /\ sp.todo \subseteq sp.m_pageAllocations

(* Every unit of a page or range pool is free or in exactly one allocation,  *)
(* the free runs are sorted and coalesced, and the counter agrees, whatever  *)
(* is done to the mapping underneath; what an arena handed out is disjoint   *)
(* and below its offset.                                                     *)
Partition ==
    /\ \A f, g \in DOMAIN m_allocations : f # g => Run(f) \cap Run(g) = {}
    /\ kind # "arena" =>
          /\ FreeUnits \cap UsedUnits = {} /\ FreeUnits \cup UsedUnits = 0..(total - 1)
          /\ \A i \in 1..(Len(m_freeSpans) - 1) : m_freeSpans[i][2] < m_freeSpans[i + 1][1]
          /\ m_allocated = Cardinality(UsedUnits)
    /\ kind = "arena" =>
          /\ UsedUnits \subseteq 0..(m_offset - 1) /\ m_offset <= ext[2] - ext[1]
          /\ m_offset = Cardinality(UsedUnits) + m_paddingBytes

(* alloc() fails only when no run of free memory holds an aligned block of  *)
(* that size; an aligned block means an aligned address.                     *)
FindsIfFits ==
    kind # "arena" /\ Ready =>
        \A n \in {PagesForSize(q) : q \in Requests}, a \in Alignments :
            LET i == FindFreeSpan(n, a)
                found == {u \in 0..(total - 1) : Addr(u) % a = 0 /\ u..(u + n - 1) \subseteq FreeUnits}
            IN  IF i = 0 THEN found = {}
                ELSE Candidate(m_freeSpans[i], a) \div Unit = Min(found)

(* While its memory is left alone, a size pool owns its spans in the page    *)
(* pool, and each object of a span is either free or handed out, once.       *)
SizePoolSound ==
    ~pulled /\ sp.pc # "clear" =>
        /\ \A a \in (sp.m_pageAllocations \cup {sp.addr}) \ {0} :
              \E u \in DOMAIN m_allocations : Addr(u) = a /\ m_allocations[u] = SpanPages
        /\ sp.m_freeObjects \cap sp.m_allocations = {}
        /\ sp.m_freeObjects \cup sp.m_allocations = UNION {Objects(a) : a \in sp.m_pageAllocations}
        /\ sp.m_objectCapacity = Cardinality(sp.m_freeObjects) + sp.m_allocatedObjects
        /\ sp.m_allocatedObjects = Cardinality(sp.m_allocations)

(* mappedRanges() is what the kernel has mapped, and lockedRanges() what it   *)
(* has pinned: nothing stays pinned that the record has forgotten, and no     *)
(* unmapped page counts as locked.                                            *)
RecordsMatchKernel ==
    m_addr # 0 =>
        /\ PagesOf(m_mappedRanges) = osMapped
        /\ PagesOf(m_lockedRanges) = osLocked /\ osLocked \subseteq osMapped

(* What the next alloc() of a page pool hands out is mapped: a partial        *)
(* unmap() or a close leaves the pool with an extent it refuses to use.       *)
TargetMapped ==
    \A n \in {PagesForSize(q) : q \in Requests}, a \in Alignments :
        LET i == FindFreeSpan(n, a)
            o == ext[1] + Candidate(m_freeSpans[i], a)
        IN  Ready /\ i # 0 => Pages(<<o, o + n * Unit>>) \subseteq osMapped
HandsOutMapped == kind \in {"page", "size"} => TargetMapped

(* The same of a range pool, after the test "JobRangePool allocations expose  *)
(* writable mapped memory": findFreeRange() never looks at mappedRanges().    *)
RangeHandsOutMapped == kind = "range" => TargetMapped
=============================================================================
