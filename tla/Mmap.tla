-------------------------------- MODULE Mmap --------------------------------
(***************************************************************************)
(* JobMmap, the mapping every memory pool of job_io lives in, with the     *)
(* JobMemLock it keeps (job_mmap.cpp, job_mem_lock.cpp, job_mem_range.h).  *)
(* Memory is counted in granules, PageSize of them to a native page.  A    *)
(* range is <<first, last>>, last excluded, relative to the start of the   *)
(* mapping.  osMapped and osLocked are what the kernel holds, in native    *)
(* pages: munmap(), mlock(), munlock() may fail, and then change nothing.  *)
(***************************************************************************)
EXTENDS Integers, Sequences, FiniteSets, SequencesExt

CONSTANTS
    PageSize,       \* granules per native page
    Bases,          \* the addresses mmap() and mremap() may return, in granules
    MaxLength,      \* no mapping grows past this
    Growths,        \* the lengths the owner grows it to
    ClientRanges,   \* the ranges the owner unmaps, locks and unlocks
    OsFails         \* may munmap(), mlock() and munlock() fail?

ASSUME MmapAssumption ==
    /\ PageSize \in Nat \ {0} /\ MaxLength \in Nat \ {0} /\ OsFails \in BOOLEAN
    /\ Bases \subseteq Nat /\ Growths \subseteq Nat
    /\ \A r \in ClientRanges : r[1] \in Nat /\ r[2] \in Nat /\ r[1] < r[2]
    /\ \A b \in Bases : b > 0 /\ b % PageSize = 0
    /\ \A b, c \in Bases : b < c => b + MaxLength <= c

VARIABLES
    m_addr,                 \* 0: not mapped
    m_mapLength,
    m_mappedRanges,         \* sequences of ranges, ascending
    m_lockedRanges, lockAddr, lockSize,     \* JobMemLock
    osMapped, osLocked

mapVars  == <<m_addr, m_mapLength, m_mappedRanges>>
lockVars == <<m_lockedRanges, lockAddr, lockSize>>
osVars   == <<osMapped, osLocked>>
mmapVars == <<mapVars, lockVars, osVars>>

-----------------------------------------------------------------------------
(* JobMemRange. *)
AlignDown(x, a) == (x \div a) * a
AlignUp(x, a)   == AlignDown(x + a - 1, a)
RangeContains(r, q) == q[1] >= r[1] /\ q[2] <= r[2]
Overlaps(r, q)  == r[1] < q[2] /\ q[1] < r[2]
Mergeable(r, q) == Overlaps(r, q) \/ r[2] = q[1] \/ q[2] = r[1]
Merged(r, q) ==
    <<IF r[1] < q[1] THEN r[1] ELSE q[1], IF r[2] > q[2] THEN r[2] ELSE q[2]>>
AlignedInward(r) ==
    LET f == AlignUp(r[1], PageSize)
        l == AlignDown(r[2], PageSize)
    IN  IF f >= l THEN <<l, l>> ELSE <<f, l>>
IsEmpty(r) == r[1] = r[2]
NonEmpty(r) == IF r[1] < r[2] THEN <<r>> ELSE << >>
Pages(r) == IF IsEmpty(r) THEN {} ELSE (r[1] \div PageSize)..((r[2] - 1) \div PageSize)
PagesOf(s) == UNION {Pages(s[i]) : i \in DOMAIN s}

(* normalizeRanges(): sort by the first granule, then merge neighbours.  Ranges that start  *)
(* at the same granule merge, so their order among themselves does not matter.             *)
SortRanges(s) ==
    LET Before(i) == {j \in DOMAIN s : s[j][1] < s[i][1] \/ (s[j][1] = s[i][1] /\ j < i)}
    IN  [k \in DOMAIN s |-> s[CHOOSE i \in DOMAIN s : Cardinality(Before(i)) = k - 1]]
MergeInto(acc, r) ==
    IF acc # << >> /\ Mergeable(acc[Len(acc)], r)
    THEN ReplaceAt(acc, Len(acc), Merged(acc[Len(acc)], r))
    ELSE Append(acc, r)
MergeSorted(t) ==
    LET done[k \in 0..Len(t)] == IF k = 0 THEN << >> ELSE MergeInto(done[k - 1], t[k])
    IN  done[Len(t)]
NormalizeRanges(s) == MergeSorted(SortRanges(s))

(* subtractRange() and removeLockedRange(): what is left of each range, on both sides. *)
LeftOf(r, q) ==
    IF Overlaps(r, q) THEN NonEmpty(<<r[1], q[1]>>) \o NonEmpty(<<q[2], r[2]>>) ELSE <<r>>
Remainder(s, q) == FlattenSeq([i \in DOMAIN s |-> LeftOf(s[i], q)])
SubtractRange(s, q) == NormalizeRanges(Remainder(s, q))

(* addLockedRange(): the ranges that touch the new one are merged into it.   *)
(* The list is sorted and has gaps, so these are the ones between the last   *)
(* that ends before it and the first that starts behind it.                  *)
AddLockedRange(s, q) ==
    LET lo  == Max({0} \cup {i \in DOMAIN s : s[i][2] < q[1]})
        hi  == Min({Len(s) + 1} \cup {i \in DOMAIN s : q[2] < s[i][1]})
        new == IF lo + 1 < hi THEN Merged(q, Merged(s[lo + 1], s[hi - 1])) ELSE q
    IN  SubSeq(s, 1, lo) \o <<new>> \o SubSeq(s, hi, Len(s))

-----------------------------------------------------------------------------
IsValid == m_addr # 0 /\ m_mappedRanges # << >>
MappedRange(r) == r[2] <= m_mapLength /\ \E i \in DOMAIN m_mappedRanges : RangeContains(m_mappedRanges[i], r)
Complete == m_mappedRanges = << <<0, m_mapLength>> >>
LockRangeOf(r) ==     \* JobMemLock::alignedRange()
    LET l == AlignUp(r[2], PageSize)
    IN  <<AlignDown(r[1], PageSize), IF l < lockSize THEN l ELSE lockSize>>
LockValid == lockAddr # 0 /\ lockSize > 0

MapInit(len) ==
    /\ m_addr \in Bases /\ m_mapLength = len /\ m_mappedRanges = << <<0, len>> >>
    /\ m_lockedRanges = << >> /\ lockAddr = m_addr /\ lockSize = len
    /\ osMapped = Pages(<<0, len>>) /\ osLocked = {}

(* JobMemLock::lock(range); mlock() of a range with a hole fails. *)
MemLock(r) ==
    LET q == LockRangeOf(r) IN
    /\ LockValid /\ r[2] <= lockSize
    /\ \A i \in DOMAIN m_lockedRanges : ~RangeContains(m_lockedRanges[i], q)
    /\ Pages(q) \subseteq osMapped
    /\ m_lockedRanges' = AddLockedRange(m_lockedRanges, q)
    /\ osLocked' = osLocked \cup Pages(q)

Lock(r) ==
    /\ IsValid /\ MappedRange(r) /\ MemLock(r)
    /\ UNCHANGED <<mapVars, lockAddr, lockSize, osMapped>>

LockAll ==
    /\ IsValid /\ Complete /\ MemLock(<<0, lockSize>>)
    /\ UNCHANGED <<mapVars, lockAddr, lockSize, osMapped>>

(* JobMemLock::unlock(range): what the record and the kernel hold afterwards. *)
LocksWithout(q) == Remainder(m_lockedRanges, q)
Unlocked(r) ==
    LET q == LockRangeOf(r) IN
    /\ LockValid /\ r[2] <= lockSize
    /\ IF \E i \in DOMAIN m_lockedRanges : Overlaps(m_lockedRanges[i], q)
       THEN /\ Pages(q) \subseteq osMapped
            /\ m_lockedRanges' = LocksWithout(q)
            /\ osLocked' = osLocked \ Pages(q)
       ELSE UNCHANGED <<m_lockedRanges, osLocked>>

Unlock(r) == Unlocked(r) /\ UNCHANGED <<mapVars, lockAddr, lockSize, osMapped>>

(* release(): every range by itself; the ranges munlock() refuses stay recorded. *)
Released(refused) ==
    /\ refused \subseteq ToSet(m_lockedRanges)
    /\ refused # {} => OsFails
    /\ m_lockedRanges' = FlattenSeq([i \in DOMAIN m_lockedRanges |->
                             IF m_lockedRanges[i] \in refused THEN <<m_lockedRanges[i]>> ELSE << >>])

UnlockAll == \E refused \in SUBSET ToSet(m_lockedRanges) :
    /\ LockValid /\ lockAddr = m_addr /\ Released(refused)
    /\ osLocked' = osLocked \cap UNION {Pages(r) : r \in refused}
    /\ UNCHANGED <<mapVars, lockAddr, lockSize, osMapped>>

(* Mutant: the pages are unmapped without being unlocked first. *)
UnmapRange_StillLocked(r) ==
    LET q == AlignedInward(r) IN
    /\ IsValid /\ MappedRange(r) /\ ~IsEmpty(q)
    /\ osMapped' = osMapped \ Pages(q) /\ osLocked' = osLocked \ Pages(q)
    /\ m_mappedRanges' = SubtractRange(m_mappedRanges, q)
    /\ UNCHANGED <<m_addr, m_mapLength, lockVars>>

(* unmap(range): inward to whole pages, unlocked first; munmap() may still fail. *)
UnmapRange(r) ==
    LET q == AlignedInward(r) IN
    /\ IsValid /\ MappedRange(r) /\ ~IsEmpty(q) /\ Unlocked(q)
    /\ \/ /\ osMapped' = osMapped \ Pages(q)
          /\ m_mappedRanges' = SubtractRange(m_mappedRanges, q)
       \/ OsFails /\ UNCHANGED <<osMapped, m_mappedRanges>>
    /\ UNCHANGED <<m_addr, m_mapLength, lockAddr, lockSize>>

(* closeDevice(): unmap() with the locks released if they can be.  A lock    *)
(* munlock() refused is still refused by clear(), after the munmap().        *)
CloseDevice ==
    /\ m_addr # 0
    /\ \E refused \in SUBSET ToSet(m_lockedRanges) :
          /\ Released(refused)
          /\ IF refused = {} THEN lockAddr' = 0 /\ lockSize' = 0
                             ELSE UNCHANGED <<lockAddr, lockSize>>
    /\ m_addr' = 0 /\ m_mappedRanges' = << >>
    /\ osMapped' = {} /\ osLocked' = {}
    /\ UNCHANGED m_mapLength

(* openDevice(): a fresh mapping of the remembered length.  reset() first    *)
(* releases what JobMemLock still records, which fails at any other address. *)
OpenDevice(b) ==
    /\ ~IsValid
    /\ m_lockedRanges = << >> \/ b = lockAddr
    /\ m_addr' = b /\ m_mappedRanges' = << <<0, m_mapLength>> >>
    /\ m_lockedRanges' = << >> /\ lockAddr' = b /\ lockSize' = m_mapLength
    /\ osMapped' = Pages(<<0, m_mapLength>>) /\ osLocked' = {}
    /\ UNCHANGED m_mapLength

(* grow(): only a complete and unlocked mapping; mremap() may move it. *)
Grow(n, b) ==
    /\ IsValid /\ n > m_mapLength /\ n <= MaxLength
    /\ Complete /\ m_lockedRanges = << >>
    /\ m_addr' = b /\ m_mapLength' = n /\ m_mappedRanges' = << <<0, n>> >>
    /\ lockAddr' = b /\ lockSize' = n
    /\ osMapped' = Pages(<<0, n>>)
    /\ UNCHANGED <<m_lockedRanges, osLocked>>

MmapNext ==
    \/ \E r \in ClientRanges : UnmapRange(r) \/ Lock(r) \/ Unlock(r)
    \/ LockAll \/ UnlockAll \/ CloseDevice
    \/ \E b \in Bases : OpenDevice(b) \/ \E n \in Growths : Grow(n, b)
=============================================================================
