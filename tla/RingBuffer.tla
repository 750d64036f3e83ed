----------------------------- MODULE RingBuffer -----------------------------
(***************************************************************************)
(* RingBuffer of v1/relay/buffer.go (v2 and v3 keep copies of it) over the *)
(* block pool of v1/common/memory.go.  Its mutex is held through a whole   *)
(* Read, and through a Write except while that waits on the condition      *)
(* variable: `holder` is the Write between two turns of its loop.  Blocks  *)
(* come from a pool and go back to it with their old contents.             *)
(***************************************************************************)
EXTENDS Integers, Sequences, FiniteSets

CONSTANTS
    Writers, Readers,   \* goroutines that call Write, Read
    Blocks,             \* the blocks the pool can hand out
    Cap,                \* BufferSize, the capacity of a block
    MaxSize,            \* maxSize
    Bytes,              \* the values of a byte
    Payloads,           \* what a Write may be given
    ReadLens,           \* len(p) of a Read
    NoOne, Junk         \* no holder of the mutex; what a new block contains

ASSUME BufferAssumption ==
    /\ Cap \in Nat \ {0} /\ MaxSize \in Nat \ {0}
    /\ ReadLens \subseteq Nat \ {0}
    /\ Payloads \subseteq Seq(Bytes) /\ \A p \in Payloads : Len(p) > 0
    /\ NoOne \notin Writers
    /\ Cap * Cardinality(Blocks) >= MaxSize + 2 * Cap - 2

VARIABLES
    buffers,        \* sequence of the blocks in use
    mem,            \* block -> its bytes
    pool,           \* block -> how often it is in the pool
    writeOff, readOff, currentSize,
    closed, writeClosed,
    holder,         \* the Write that holds the mutex between two turns
    wr,             \* writer -> "idle", "run" or "wait", "woken" at cond
    rest,           \* writer -> remaining
    rd,             \* reader -> [st, len]: the same, and len(p)
    got             \* reader -> what its last Read returned

vars == <<buffers, mem, pool, writeOff, readOff, currentSize, closed,
          writeClosed, holder, wr, rest, rd, got>>

data == <<buffers, mem, pool, writeOff, readOff, currentSize>>

Init ==
    /\ buffers = <<>>
    /\ mem = [b \in Blocks |-> [i \in 1 .. Cap |-> Junk]]
    /\ pool = [b \in Blocks |-> 1]
    /\ writeOff = 0 /\ readOff = 0 /\ currentSize = 0
    /\ closed = FALSE /\ writeClosed = FALSE
    /\ holder = NoOne
    /\ wr = [w \in Writers |-> "idle"]
    /\ rest = [w \in Writers |-> <<>>]
    /\ rd = [r \in Readers |-> [st |-> "idle", len |-> 0]]
    /\ got = [r \in Readers |-> <<>>]

\* Faulty variant: Broadcast forgets the readers.
ReadersAsleep == rd

\* cond.Broadcast: whoever waits contends for the mutex again.
Woken(f) == [x \in DOMAIN f |-> IF f[x] = "wait" THEN "woken" ELSE f[x]]
WokenReaders == [r \in Readers |-> [rd[r] EXCEPT !.st = IF @ = "wait" THEN "woken" ELSE @]]

\* Faulty variants: only the first block goes back; a block goes back twice.
PutFirst(bs) == [b \in Blocks |-> IF Len(bs) > 0 /\ b = bs[1] THEN pool[b] + 1 ELSE pool[b]]
PutTwice(bs) == [b \in Blocks |-> IF \E i \in DOMAIN bs : bs[i] = b THEN pool[b] + 2 ELSE pool[b]]

\* PutBuffer for each of the blocks of a sequence.
PutBuffers(bs) ==
    [b \in Blocks |-> pool[b] + Cardinality({i \in DOMAIN bs : bs[i] = b})]

-----------------------------------------------------------------------------
(* Write.                                                                   *)
CallWrite(w, p) ==
    /\ wr[w] = "idle"
    /\ wr' = [wr EXCEPT ![w] = "woken"]
    /\ rest' = [rest EXCEPT ![w] = p]
    /\ UNCHANGED <<data, closed, writeClosed, holder, rd, got>>

\* The mutex is taken, at first or on return from cond.Wait.
LockWrite(w) ==
    /\ holder = NoOne /\ wr[w] = "woken"
    /\ holder' = w
    /\ wr' = [wr EXCEPT ![w] = "run"]
    /\ UNCHANGED <<data, closed, writeClosed, rest, rd, got>>

\* ErrBufferClosed: the rest of the bytes is not written.
WriteFails(w) ==
    /\ holder = w
    /\ closed \/ writeClosed
    /\ holder' = NoOne
    /\ wr' = [wr EXCEPT ![w] = "idle"]
    /\ rest' = [rest EXCEPT ![w] = <<>>]
    /\ UNCHANGED <<data, closed, writeClosed, rd, got>>

Full == currentSize >= MaxSize

WriteWaits(w) ==
    /\ holder = w
    /\ ~closed /\ ~writeClosed /\ Full
    /\ holder' = NoOne
    /\ wr' = [wr EXCEPT ![w] = "wait"]
    /\ UNCHANGED <<data, closed, writeClosed, rest, rd, got>>

\* Faulty variant: a block counts as full one byte too early.
NeedsBlockEarly == buffers = <<>> \/ writeOff >= Cap - 1

\* The current block is missing or full.
NeedsBlock == buffers = <<>> \/ writeOff = Cap

\* One turn of the loop: as much as fits into the current block.
WriteBlock(w) ==
    /\ holder = w
    /\ ~closed /\ ~writeClosed /\ ~Full
    /\ \E b \in Blocks :
           /\ IF NeedsBlock THEN pool[b] > 0 ELSE b = buffers[Len(buffers)]
           /\ LET off == IF NeedsBlock THEN 0 ELSE writeOff
                  n == IF Len(rest[w]) > Cap - off THEN Cap - off ELSE Len(rest[w])
                  left == SubSeq(rest[w], n + 1, Len(rest[w]))
              IN  /\ buffers' = IF NeedsBlock THEN Append(buffers, b) ELSE buffers
                  /\ pool' = IF NeedsBlock THEN [pool EXCEPT ![b] = @ - 1] ELSE pool
                  /\ mem' = [mem EXCEPT ![b] = [i \in 1 .. Cap |->
                                 IF i \in off + 1 .. off + n THEN rest[w][i - off] ELSE @[i]]]
                  /\ writeOff' = off + n
                  /\ currentSize' = currentSize + n
                  /\ rest' = [rest EXCEPT ![w] = left]
                  /\ wr' = Woken([wr EXCEPT ![w] = IF left = <<>> THEN "idle" ELSE @])
                  /\ holder' = IF left = <<>> THEN NoOne ELSE w
    /\ rd' = WokenReaders
    /\ UNCHANGED <<readOff, closed, writeClosed, got>>

-----------------------------------------------------------------------------
(* Read.                                                                    *)
CallRead(r, n) ==
    /\ rd[r].st = "idle"
    /\ rd' = [rd EXCEPT ![r] = [st |-> "woken", len |-> n]]
    /\ UNCHANGED <<data, closed, writeClosed, holder, wr, rest, got>>

ReadWaits(r) ==
    /\ holder = NoOne /\ rd[r].st = "woken"
    /\ currentSize = 0 /\ ~closed /\ ~writeClosed
    /\ rd' = [rd EXCEPT ![r].st = "wait"]
    /\ UNCHANGED <<data, closed, writeClosed, holder, wr, rest, got>>

\* ErrBufferClosed or io.EOF.
ReadFails(r) ==
    /\ holder = NoOne /\ rd[r].st = "woken"
    /\ currentSize = 0 /\ (closed \/ writeClosed)
    /\ rd' = [rd EXCEPT ![r] = [st |-> "idle", len |-> 0]]
    /\ got' = [got EXCEPT ![r] = <<>>]
    /\ UNCHANGED <<data, closed, writeClosed, holder, wr, rest>>

\* The bytes left to read in the first block.
Avail == IF Len(buffers) = 1 THEN writeOff - readOff ELSE Cap - readOff

\* The first block is returned once it is read to its end.
ReadBlock(r) ==
    LET n == IF rd[r].len > Avail THEN Avail ELSE rd[r].len
        done == n = Avail
    IN  /\ holder = NoOne /\ rd[r].st = "woken"
        /\ currentSize > 0
        /\ got' = [got EXCEPT ![r] = [i \in 1 .. n |-> mem[buffers[1]][readOff + i]]]
        /\ currentSize' = currentSize - n
        /\ buffers' = IF done THEN Tail(buffers) ELSE buffers
        /\ pool' = IF done THEN PutBuffers(<<buffers[1]>>) ELSE pool
        /\ readOff' = IF done THEN 0 ELSE readOff + n
        /\ writeOff' = IF done /\ Len(buffers) = 1 THEN 0 ELSE writeOff
        /\ rd' = [WokenReaders EXCEPT ![r] = [st |-> "idle", len |-> 0]]
        /\ wr' = Woken(wr)
        /\ UNCHANGED <<mem, closed, writeClosed, holder, rest>>

-----------------------------------------------------------------------------
(* Close, CloseWrite and Flush, called by PipeSession.Stop and by the       *)
(* goroutines of copyLoop as they leave.                                    *)
cleanup ==
    /\ pool' = PutBuffers(buffers)
    /\ buffers' = <<>>
    /\ currentSize' = 0 /\ readOff' = 0 /\ writeOff' = 0
    /\ UNCHANGED mem

Broadcast == wr' = Woken(wr) /\ rd' = WokenReaders

\* Faulty variant: waiting goroutines are not woken.
CloseSilently ==
    /\ holder = NoOne /\ ~closed
    /\ closed' = TRUE
    /\ cleanup
    /\ UNCHANGED <<writeClosed, holder, wr, rd, rest, got>>

Close ==
    /\ holder = NoOne /\ ~closed
    /\ closed' = TRUE
    /\ Broadcast /\ cleanup
    /\ UNCHANGED <<writeClosed, holder, rest, got>>

CloseWrite ==
    /\ holder = NoOne /\ ~writeClosed
    /\ writeClosed' = TRUE
    /\ Broadcast
    /\ UNCHANGED <<data, closed, holder, rest, got>>

Flush ==
    /\ holder = NoOne
    /\ cleanup /\ Broadcast
    /\ UNCHANGED <<closed, writeClosed, holder, rest, got>>

-----------------------------------------------------------------------------
Next ==
    \/ \E w \in Writers : \/ \E p \in Payloads : CallWrite(w, p)
                          \/ LockWrite(w) \/ WriteFails(w) \/ WriteWaits(w) \/ WriteBlock(w)
    \/ \E r \in Readers : \/ \E n \in ReadLens : CallRead(r, n)
                          \/ ReadWaits(r) \/ ReadFails(r) \/ ReadBlock(r)
    \/ Close \/ CloseWrite \/ Flush

Spec == Init /\ [][Next]_vars

\* sync.Mutex hands the lock over after at most 1 ms of waiting (its starvation
\* mode), so a goroutine that contends for it gets it: strong fairness.
Fairness ==
    /\ \A w \in Writers : /\ SF_vars(LockWrite(w))
                          /\ WF_vars(WriteFails(w) \/ WriteWaits(w) \/ WriteBlock(w))
    /\ \A r \in Readers : SF_vars(ReadWaits(r) \/ ReadFails(r) \/ ReadBlock(r))

FairSpec == Spec /\ Fairness

-----------------------------------------------------------------------------
\* Type invariant of a buffer.
TypeOK ==
    /\ buffers \in Seq(Blocks)
    /\ DOMAIN mem = Blocks
    /\ pool \in [Blocks -> Nat]
    /\ writeOff \in 0 .. Cap /\ readOff \in 0 .. Cap
    /\ currentSize \in Nat
    /\ closed \in BOOLEAN /\ writeClosed \in BOOLEAN
    /\ holder \in Writers \cup {NoOne}
    /\ wr \in [Writers -> {"idle", "run", "wait", "woken"}]
    /\ rd \in [Readers -> [st : {"idle", "wait", "woken"}, len : ReadLens \cup {0}]]

\* The byte counter agrees with the two offsets and the number of blocks after
\* any mix of partial writes, partial reads, flushes and closes: else Read
\* would index past the data, or a Write would wait with the buffer empty.  And
\* it stays bounded: the limit is compared before a block is written, so it is
\* exceeded, but by less than one block.
SizeAgrees ==
    /\ TypeOK
    /\ currentSize = IF buffers = <<>> THEN 0
                     ELSE Cap * (Len(buffers) - 1) + writeOff - readOff
    /\ buffers # <<>> => currentSize > 0 /\ readOff < Cap
    /\ buffers = <<>> => writeOff = 0 /\ readOff = 0
    /\ currentSize < MaxSize + Cap

\* Every block is either in the pool or in the buffer, once: Read, Close and
\* Flush never return a block twice and never lose one.  A block that was in
\* the pool twice would be shared by two sessions.
BlocksOwnedOnce ==
    \A b \in Blocks : pool[b] + Cardinality({i \in DOMAIN buffers : buffers[i] = b}) = 1

\* No lost wake-up: who waits at the condition variable has a reason to, so
\* the buffer never holds a writer and a reader waiting for each other.
WaitersHaveReason ==
    /\ \A w \in Writers : wr[w] = "wait" => Full /\ ~closed /\ ~writeClosed
    /\ \A r \in Readers : rd[r].st = "wait" => currentSize = 0 /\ ~closed /\ ~writeClosed

\* The bytes in the buffer, in order.
Content ==
    [k \in 1 .. currentSize |->
        mem[buffers[(readOff + k - 1) \div Cap + 1]][((readOff + k - 1) % Cap) + 1]]

Stream == INSTANCE ByteStream WITH
    stream <- Content,
    status <- IF closed THEN "closed" ELSE IF writeClosed THEN "writeClosed" ELSE "open"

\* The buffer is a stream of bytes: whatever blocks it is cut into, a Read
\* returns the oldest bytes that were written, once and in order, and never
\* what an earlier owner of a block left in it.
ImplementsStream == Stream!Spec

\* Close ends every Write and Read: none stays in cond.Wait.
CloseReleasesAll ==
    /\ \A w \in Writers : (closed /\ wr[w] # "idle") ~> wr[w] = "idle"
    /\ \A r \in Readers : (closed /\ rd[r].st # "idle") ~> rd[r].st = "idle"
=============================================================================
