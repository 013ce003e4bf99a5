-------------------------------- MODULE Raid ---------------------------------
(***************************************************************************)
(* raid.py: where the blocks of an array of disks and their parity are,    *)
(* and which blocks a request reads and writes.  A write to RAID-4 or 5    *)
(* goes stripe by stripe; every other request is one step.  The time the   *)
(* disks take is left out.                                                 *)
(***************************************************************************)
EXTENDS Integers, FiniteSets

CONSTANTS MaxDisks, MaxChunk, MaxBlock, MaxRequest

ASSUME RaidAssumption == {MaxDisks, MaxChunk, MaxBlock, MaxRequest} \subseteq Nat

VARIABLES
    raid,      \* -L, -D, -C and -5
    request,   \* [addr, size] of the write being served
    stripe, begin, left,
    reads, writes    \* places <<disk, offset>> the last step read and wrote

raidVars == <<raid, request, stripe, begin, left, reads, writes>>

\* Mirrors come in pairs, and parity needs a disk beside those of the data.
Raids == {r \in [level : {0, 1, 4, 5}, numDisks : 1 .. MaxDisks, chunkSize : 1 .. MaxChunk,
                 raid5type : {"LS", "LA"}] :
            /\ r.level # 0 => r.numDisks > 1
            /\ r.level = 1 => r.numDisks % 2 = 0
            /\ r.level # 5 => r.raid5type = "LS"}

NoRequest == [addr |-> 0, size |-> 0]

RaidInit ==
    /\ raid \in Raids
    /\ request = NoRequest
    /\ stripe = 0 /\ begin = 0 /\ left = 0
    /\ reads = {} /\ writes = {}

-----------------------------------------------------------------------------
(* The mappings of a block to its disk and offset.                         *)

cnum(b) == b \div raid.chunkSize
coff(b) == b % raid.chunkSize

bmap0(b) == <<cnum(b) % raid.numDisks, (cnum(b) \div raid.numDisks) * raid.chunkSize + coff(b)>>

pairs == raid.numDisks \div 2

bmap1(b, copy) == <<2 * (cnum(b) % pairs) + copy, (cnum(b) \div pairs) * raid.chunkSize + coff(b)>>

dataDisks == raid.numDisks - 1

row(b) == cnum(b) \div dataDisks
column(b) == cnum(b) % dataDisks

pdisk5(b) == (raid.numDisks - 1) - (row(b) % raid.numDisks)

disk5(b) ==
    IF raid.raid5type = "LA" THEN column(b) + (IF column(b) >= pdisk5(b) THEN 1 ELSE 0)
    ELSE (column(b) - (row(b) % raid.numDisks)) % raid.numDisks

\* bmap4 and bmap5.
bmap(b) == <<IF raid.level = 5 THEN disk5(b) ELSE column(b), row(b) * raid.chunkSize + coff(b)>>

blocksInStripe == dataDisks * raid.chunkSize

\* pmap4 and pmap5.
pmap(s) == IF raid.level = 5 THEN pdisk5(s * blocksInStripe) ELSE raid.numDisks - 1

Stripe(s) == s * blocksInStripe .. (s + 1) * blocksInStripe - 1

-----------------------------------------------------------------------------
(* The requests.                                                           *)

Writing    == request # NoRequest
Unoccupied == ~Writing /\ reads = {} /\ writes = {}

LastStripe == (request.addr + request.size - 1) \div blocksInStripe

Blocks(addr, size) == addr .. addr + size - 1

Serves(addr, size) ==
    /\ Unoccupied
    /\ UNCHANGED <<raid, request, stripe, begin, left>>

\* Levels 0 and 1.
enqueue0(addr, size, isWrite) ==
    /\ Serves(addr, size)
    /\ raid.level = 0
    /\ LET places == {bmap0(b) : b \in Blocks(addr, size)}
       IN  /\ reads' = IF isWrite THEN {} ELSE places
           /\ writes' = IF isWrite THEN places ELSE {}

enqueue1(addr, size, isWrite) ==
    /\ Serves(addr, size)
    /\ raid.level = 1
    /\ LET balanced(b) == bmap1(b, bmap1(b, 0)[2] % 2)
       IN  /\ reads' = IF isWrite THEN {} ELSE {balanced(b) : b \in Blocks(addr, size)}
           /\ writes' = IF isWrite THEN {bmap1(b, copy) : b \in Blocks(addr, size), copy \in {0, 1}}
                        ELSE {}

\* Levels 4 and 5.
enqueue45_read(addr, size) ==
    /\ Serves(addr, size)
    /\ raid.level \in {4, 5}
    /\ reads' = {bmap(b) : b \in Blocks(addr, size)}
    /\ writes' = {}

enqueue45_write(addr, size) ==
    /\ Unoccupied
    /\ raid.level \in {4, 5}
    /\ request' = [addr |-> addr, size |-> size]
    /\ stripe' = addr \div blocksInStripe
    /\ begin' = addr
    /\ left' = size
    /\ reads' = {} /\ writes' = {}
    /\ UNCHANGED raid

Lesser(a, b) == IF a < b THEN a ELSE b

PartEnd == Lesser(begin + Lesser(left, blocksInStripe), (stripe + 1) * blocksInStripe)

\* Mutant: of the blocks that stay, only those behind the part are read.
PartReads_behind(end) ==
    LET part   == begin .. end - 1
        parity == {<<pmap(stripe), bmap(b)[2]>> : b \in part}
        subtractive == Cardinality(part) + 1 <= blocksInStripe - Cardinality(part)
    IN  IF subtractive THEN {bmap(b) : b \in part} \cup parity
        ELSE {bmap(b) : b \in {c \in Stripe(stripe) : c >= end}}

\* Subtractive parity reads what is overwritten and the old parity, additive
\* parity the rest of the stripe.
PartReads(end) ==
    LET part   == begin .. end - 1
        parity == {<<pmap(stripe), bmap(b)[2]>> : b \in part}
        subtractive == Cardinality(part) + 1 <= blocksInStripe - Cardinality(part)
    IN  IF subtractive THEN {bmap(b) : b \in part} \cup parity
        ELSE {bmap(b) : b \in Stripe(stripe) \ part}

\* One turn of the loop over the stripes of a write.
doPartialWrite ==
    /\ Writing
    /\ stripe <= LastStripe
    /\ reads' = PartReads(PartEnd)
    /\ writes' = UNION {{bmap(b), <<pmap(stripe), bmap(b)[2]>>} : b \in begin .. PartEnd - 1}
    /\ left' = left - (PartEnd - begin)
    /\ begin' = PartEnd
    /\ stripe' = stripe + 1
    /\ UNCHANGED <<raid, request>>

\* Between requests the mappings keep no state.
Return ==
    /\ IF Writing THEN stripe > LastStripe ELSE reads \cup writes # {}
    /\ request' = NoRequest
    /\ stripe' = 0 /\ begin' = 0 /\ left' = 0
    /\ reads' = {} /\ writes' = {}
    /\ UNCHANGED raid

RaidStep ==
    \/ \E addr \in 0 .. MaxBlock, size \in 1 .. MaxRequest :
         \/ \E isWrite \in BOOLEAN : enqueue0(addr, size, isWrite) \/ enqueue1(addr, size, isWrite)
         \/ enqueue45_read(addr, size)
         \/ enqueue45_write(addr, size)
    \/ doPartialWrite
    \/ Return

-----------------------------------------------------------------------------
\* No place holds two blocks, or a block and the parity of its row, and no
\* column of a row has its parity on the disk of its data.
Placement ==
    LET all    == 0 .. MaxBlock + MaxRequest
        copies == [b \in all |-> CASE raid.level = 0 -> {bmap0(b)}
                                   [] raid.level = 1 -> {bmap1(b, 0), bmap1(b, 1)}
                                   [] OTHER -> {bmap(b)}]
        parity == [b \in all |-> IF raid.level \notin {4, 5} THEN {}
                                 ELSE {<<pmap(b \div blocksInStripe), bmap(b)[2]>>}]
        disks(b) == {p[1] : p \in copies[b] \cup parity[b]}
    IN  \A b \in all :
            /\ disks(b) \subseteq 0 .. raid.numDisks - 1
            /\ Cardinality(disks(b)) = IF raid.level = 0 THEN 1 ELSE 2
            /\ \A c \in all \ {b} : copies[b] \cap (copies[c] \cup parity[c]) = {}

\* A part of a write stays in its stripe, the parts together are the request,
\* and each new parity can be computed from what was read and written: from the
\* old parity and the old value of each block written, or from all blocks.
ParityComputable ==
    /\ Writing /\ stripe > LastStripe =>
         left = 0 /\ begin = request.addr + request.size
    /\ Writing /\ writes # {} =>
         LET here(o)    == {b \in Stripe(stripe - 1) : bmap(b)[2] = o}
             changed(o) == {b \in here(o) : bmap(b) \in writes}
             parity(o)  == <<pmap(stripe - 1), o>>
         IN  /\ \A w \in writes : \E b \in Stripe(stripe - 1) : w \in {bmap(b), parity(bmap(b)[2])}
             /\ \A o \in {w[2] : w \in writes} :
                  /\ parity(o) \in writes
                  /\ IF parity(o) \in reads THEN \A b \in changed(o) : bmap(b) \in reads
                     ELSE \A b \in here(o) : bmap(b) \in reads \cup writes

=============================================================================
