---------------------------- MODULE SharedMemory ----------------------------
(***************************************************************************)
(* JobSharedMemory (job_shared_memory.cpp, job_shared_memory_header.h): a  *)
(* byte ring in a named POSIX shared memory object that a writer process   *)
(* fills and a reader process empties, with a named semaphore (JobSem,     *)
(* job_semaphore.cpp) on which an empty-handed reader sleeps.  Either      *)
(* process may detach or die and come back; the object and the semaphore   *)
(* outlive both (nothing unlinks them: close() clears m_autoUnlink).  A    *)
(* copy moves one byte per step.  The byte at stream position p is p.      *)
(***************************************************************************)
EXTENDS Integers, Sequences

CONSTANTS
    Sizes,          \* the sizes a writer may ask for, setSize()
    Lengths,        \* the lengths that write() and read() are called with
    MaxBytes,       \* bound: bytes ever written
    SemMax,         \* SEM_VALUE_MAX
    Deadly,         \* the program points at which the writer may die
    MaxRestarts     \* bound: deaths and detaches

ASSUME ShmAssumption ==
    /\ Sizes \subseteq Nat \ {0} /\ Sizes # {} /\ Lengths \subseteq Nat
    /\ MaxBytes \in Nat /\ SemMax \in Nat \ {0} /\ MaxRestarts \in Nat

VARIABLES
    fileSize,                               \* -1: no such object; else bytes after the header
    magic, totalSize, writePos, readPos,    \* JobSharedMemoryHeader
    ring,                                   \* the bytes after it
    sem,                                    \* -1: no such semaphore
    wpc, m_requested_size, wlen, wdone,     \* the writer: len, bytes copied
    rpc, rlen, got,                         \* the reader: toRead, bytes copied
    restarts, unposted                      \* ghost: a writer died between its store and its post

header == <<magic, totalSize, writePos, readPos>>
writer == <<wpc, m_requested_size, wlen, wdone>>
reader == <<rpc, rlen, got>>
shmVars == <<fileSize, header, ring, sem, writer, reader, restarts, unposted>>

Max(s) == CHOOSE x \in s : \A y \in s : y <= x
NoByte == -1

ShmInit ==
    /\ fileSize = -1 /\ sem = -1 /\ restarts = 0 /\ unposted = FALSE
    /\ magic = FALSE /\ totalSize = 0 /\ writePos = 0 /\ readPos = 0
    /\ ring = [i \in 0..(Max(Sizes) - 1) |-> NoByte]
    /\ wpc = "off" /\ m_requested_size \in Sizes /\ wlen = 0 /\ wdone = 0
    /\ rpc = "off" /\ rlen = 0 /\ got = <<>>

-----------------------------------------------------------------------------
(* attach() by the writer *)
WStep(from, to) == wpc = from /\ wpc' = to /\ UNCHANGED <<m_requested_size, wlen, wdone>>

(* shm_open() with O_CREAT *)
WriterOpen ==
    /\ WStep("off", "truncate")
    /\ fileSize' = IF fileSize = -1 THEN 0 ELSE fileSize
    /\ UNCHANGED <<header, ring, sem, reader, restarts, unposted>>

(* Mutant: the length leaves out a byte of the header *)
WriterTruncate_Short ==
    /\ WStep("truncate", "magic") /\ fileSize' = m_requested_size - 1 /\ UNCHANGED ring
    /\ UNCHANGED <<header, sem, reader, restarts, unposted>>

(* ftruncate(): what it cuts off is gone, what it adds is zero *)
WriterTruncate ==
    /\ WStep("truncate", "magic") /\ fileSize' = m_requested_size
    /\ ring' = [i \in DOMAIN ring |-> IF i < m_requested_size THEN ring[i] ELSE NoByte]
    /\ UNCHANGED <<header, sem, reader, restarts, unposted>>

(* mmap(); a header without the magic number is constructed in place, with   *)
(* the magic number and no size yet                                          *)
WriterMagic ==
    /\ \/ magic /\ WStep("magic", "sem") /\ UNCHANGED header
       \/ /\ ~magic /\ WStep("magic", "create")
          /\ magic' = TRUE /\ totalSize' = 0 /\ writePos' = 0 /\ readPos' = 0
    /\ UNCHANGED <<fileSize, ring, sem, reader, restarts, unposted>>

(* JobSharedMemoryHeader::create() *)
WriterCreate ==
    /\ WStep("create", "sem")
    /\ totalSize' = m_requested_size /\ writePos' = 0 /\ readPos' = 0
    /\ UNCHANGED <<fileSize, magic, ring, sem, reader, restarts, unposted>>

(* Mutant: the semaphore is made anew *)
WriterSem_Reset ==
    /\ WStep("sem", "idle") /\ sem' = 0
    /\ UNCHANGED <<fileSize, header, ring, reader, restarts, unposted>>

(* JobSem::open() with Create: an existing semaphore keeps its value *)
WriterSem ==
    /\ WStep("sem", "idle") /\ sem' = IF sem = -1 THEN 0 ELSE sem
    /\ UNCHANGED <<fileSize, header, ring, reader, restarts, unposted>>

-----------------------------------------------------------------------------
(* write(): all or nothing *)
AvailableToWrite == totalSize - (writePos - readPos)
AvailableToRead == writePos - readPos
Slot(pos) == pos % totalSize

(* Mutant: one byte more than is free *)
WriteBegin_Full(n) ==
    /\ wpc = "idle" /\ writePos + n <= MaxBytes /\ totalSize > 0
    /\ n <= AvailableToWrite + 1
    /\ wpc' = "copy" /\ wlen' = n /\ wdone' = 0 /\ UNCHANGED m_requested_size
    /\ UNCHANGED <<fileSize, header, ring, sem, reader, restarts, unposted>>

(* ENOSPC returns without a step; an empty write of an empty ring divides by zero *)
WriteBegin(n) ==
    /\ wpc = "idle" /\ writePos + n <= MaxBytes /\ totalSize > 0
    /\ n <= AvailableToWrite
    /\ wpc' = "copy" /\ wlen' = n /\ wdone' = 0 /\ UNCHANGED m_requested_size
    /\ UNCHANGED <<fileSize, header, ring, sem, reader, restarts, unposted>>

WriteByte ==
    /\ wpc = "copy" /\ wdone < wlen
    /\ ring' = [ring EXCEPT ![Slot(writePos + wdone)] = writePos + wdone]
    /\ wdone' = wdone + 1
    /\ UNCHANGED <<fileSize, header, sem, wpc, m_requested_size, wlen, reader, restarts, unposted>>

(* Mutant: the position is stored before the last byte is copied *)
WritePublish_Early ==
    /\ wpc = "copy" /\ wdone >= wlen - 1
    /\ wpc' = "post" /\ writePos' = writePos + wlen /\ wlen' = 0 /\ wdone' = 0
    /\ UNCHANGED <<fileSize, magic, totalSize, readPos, ring, sem, m_requested_size, reader, restarts, unposted>>

(* writePos.store(release) *)
WritePublish ==
    /\ wpc = "copy" /\ wdone = wlen
    /\ wpc' = "post" /\ writePos' = writePos + wlen /\ wlen' = 0 /\ wdone' = 0
    /\ UNCHANGED <<fileSize, magic, totalSize, readPos, ring, sem, m_requested_size, reader, restarts, unposted>>

(* Mutant: a writer that made the ring full says nothing *)
WritePost_NotFull ==
    /\ WStep("post", "idle") /\ unposted' = FALSE
    /\ sem' = IF sem < SemMax /\ AvailableToWrite > 0 THEN sem + 1 ELSE sem
    /\ UNCHANGED <<fileSize, header, ring, reader, restarts>>

(* JobSem::post(); a semaphore at its maximum only gets a warning *)
WritePost ==
    /\ WStep("post", "idle") /\ unposted' = FALSE
    /\ sem' = IF sem < SemMax THEN sem + 1 ELSE sem
    /\ UNCHANGED <<fileSize, header, ring, reader, restarts>>

-----------------------------------------------------------------------------
(* attach() by the reader.  Every failure cleans up and returns false; the   *)
(* reader tries again.                                                       *)
RStep(from, to) == rpc = from /\ rpc' = to /\ UNCHANGED <<rlen, got>>
ReaderFails(from) == RStep(from, "off") /\ UNCHANGED <<fileSize, header, ring, sem, writer, restarts, unposted>>

(* shm_open() without O_CREAT, fstat(), and mmap() of more than nothing *)
ReaderOpen ==
    /\ fileSize > 0 /\ RStep("off", "header")
    /\ UNCHANGED <<fileSize, header, ring, sem, writer, restarts, unposted>>

ValidHeader == magic /\ totalSize > 0
ReaderHeader ==
    \/ ~ValidHeader /\ ReaderFails("header")
    \/ /\ ValidHeader /\ RStep("header", "sem")
       /\ UNCHANGED <<fileSize, header, ring, sem, writer, restarts, unposted>>

ReaderSem ==
    \/ sem = -1 /\ ReaderFails("sem")
    \/ /\ sem # -1 /\ RStep("sem", "idle")
       /\ UNCHANGED <<fileSize, header, ring, sem, writer, restarts, unposted>>

(* read(): a look at the ring, and a semaphore to wait on while it is empty; *)
(* a non-blocking read returns EAGAIN instead, which changes nothing         *)
ReadBegin(n) ==
    /\ rpc = "idle"
    /\ rpc' = IF AvailableToRead = 0 THEN "wait" ELSE "copy"
    /\ rlen' = IF AvailableToRead < n THEN AvailableToRead ELSE n
    /\ got' = <<>>
    /\ UNCHANGED <<fileSize, header, ring, sem, writer, restarts, unposted>>

ReadWait(n) ==
    /\ rpc = "wait" /\ sem > 0 /\ sem' = sem - 1
    /\ rpc' = IF AvailableToRead = 0 THEN "wait" ELSE "copy"
    /\ rlen' = IF AvailableToRead < n THEN AvailableToRead ELSE n
    /\ got' = <<>>
    /\ UNCHANGED <<fileSize, header, ring, writer, restarts, unposted>>

ReadByte ==
    /\ rpc = "copy" /\ Len(got) < rlen
    /\ got' = Append(got, ring[Slot(readPos + Len(got))])
    /\ UNCHANGED <<fileSize, header, ring, sem, writer, rpc, rlen, restarts, unposted>>

(* readPos.store(release) *)
ReadStore ==
    /\ rpc = "copy" /\ Len(got) = rlen
    /\ rpc' = "idle" /\ readPos' = readPos + rlen /\ rlen' = 0 /\ got' = <<>>
    /\ UNCHANGED <<fileSize, magic, totalSize, writePos, ring, sem, writer, restarts, unposted>>

-----------------------------------------------------------------------------
(* detach() between two calls, or a death anywhere.  A new writer process    *)
(* is a new object and may ask for another size.                             *)
WriterDetach ==
    /\ restarts < MaxRestarts /\ restarts' = restarts + 1 /\ WStep("idle", "off")
    /\ UNCHANGED <<fileSize, header, ring, sem, reader, unposted>>
WriterDies ==
    /\ restarts < MaxRestarts /\ restarts' = restarts + 1
    /\ wpc \in Deadly /\ wpc' = "off" /\ wlen' = 0 /\ wdone' = 0 /\ m_requested_size' \in Sizes
    /\ unposted' = (unposted \/ wpc = "post")
    /\ UNCHANGED <<fileSize, header, ring, sem, reader>>
ReaderLeaves ==
    /\ restarts < MaxRestarts /\ restarts' = restarts + 1
    /\ rpc # "off" /\ rpc' = "off" /\ rlen' = 0 /\ got' = <<>>
    /\ UNCHANGED <<fileSize, header, ring, sem, writer, unposted>>

Attaching == WriterOpen \/ WriterTruncate \/ WriterMagic \/ WriterCreate \/ WriterSem
Writing == WriteByte \/ WritePublish \/ WritePost
Reading ==
    \/ ReaderOpen \/ ReaderHeader \/ ReaderSem \/ ReadByte \/ ReadStore
    \/ \E n \in Lengths \ {0} : ReadBegin(n) \/ ReadWait(n)
ShmNext ==
    \/ Attaching \/ Writing \/ Reading \/ \E n \in Lengths : WriteBegin(n)
    \/ WriterDetach \/ WriterDies \/ ReaderLeaves

(* Processes are scheduled; a reader keeps attaching and reading; no one     *)
(* promises to write.                                                        *)
ShmSpec == ShmInit /\ [][ShmNext]_shmVars /\ WF_shmVars(Attaching) /\ WF_shmVars(Writing) /\ WF_shmVars(Reading)

-----------------------------------------------------------------------------
ShmTypeOK ==
    /\ fileSize \in Sizes \cup {-1, 0} /\ totalSize \in Sizes \cup {0} /\ magic \in BOOLEAN
    /\ {writePos, readPos} \subseteq 0..MaxBytes /\ sem \in -1..SemMax
    /\ ring \in [0..(Max(Sizes) - 1) -> 0..MaxBytes \cup {NoByte}]
    /\ wpc \in {"off", "truncate", "magic", "create", "sem", "idle", "copy", "post"}
    /\ rpc \in {"off", "header", "sem", "idle", "wait", "copy"}
    /\ wlen \in Lengths \cup {0} /\ wdone \in 0..wlen /\ Len(got) <= rlen

(* What a reader has copied out is the stream from readPos on, whatever the  *)
(* writer does meanwhile and whichever process died before.                  *)
ReadsStream == \A i \in 1..Len(got) : got[i] = readPos + i - 1

(* Unread bytes are in the ring, and never more of them than it holds.       *)
UnreadKept ==
    /\ AvailableToRead \in 0..totalSize
    /\ \A p \in readPos..(writePos - 1) : ring[Slot(p)] = p

(* A reader asleep over unread bytes has a post to wake it, or one to come;  *)
(* only a writer's death between the two stores takes it away.               *)
NoLostPost ==
    rpc = "wait" /\ AvailableToRead > 0 => sem > 0 \/ wpc = "post" \/ unposted

(* A reader attaches only to a finished header, and the ring it describes is *)
(* within the object.                                                        *)
AttachedSound == rpc \in {"idle", "wait", "copy"} => ValidHeader /\ totalSize <= fileSize

(* Everything written is read, unless a writer died between its two stores.  *)
WrittenIsRead == \A n \in 1..MaxBytes : (writePos >= n) ~> (readPos >= n \/ unposted)

(* "actual shared memory size should be: sizeof(JobSharedMemoryHeader) +     *)
(* totalSize" (job_shared_memory_header.h).                                  *)
SizeMatches == ValidHeader /\ wpc = "idle" => fileSize = totalSize
=============================================================================
