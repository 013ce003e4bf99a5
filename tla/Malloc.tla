------------------------------- MODULE Malloc --------------------------------
(***************************************************************************)
(* malloc.py: a heap with a free list, for every policy and list order.    *)
(***************************************************************************)
EXTENDS Integers, Sequences, SequencesExt, FiniteSets

CONSTANTS HeapSize, Start, MaxSize

ASSUME HeapAssumption == HeapSize \in Nat \ {0} /\ Start \in Int /\ MaxSize \in Nat

VARIABLES
    flags,       \* -p, -l, -C, -a and -H
    freelist,    \* sequence of free blocks
    sizemap      \* size of the block allocated at an address

heapVars == <<flags, freelist, sizemap>>

Flags == [policy : {"BEST", "WORST", "FIRST"},
          order : {"ADDRSORT", "SIZESORT+", "SIZESORT-", "INSERT-FRONT", "INSERT-BACK"},
          coalesce : BOOLEAN, align : {-1, 2}, headerSize : {0, 1}]

HeapInit ==
    /\ flags \in Flags
    /\ freelist = <<[addr |-> Start, size |-> HeapSize]>>
    /\ sizemap = <<>>

-----------------------------------------------------------------------------
\* What a request of the given size takes from the heap.
Taken(size) ==
    (IF flags.align = -1 THEN size
     ELSE ((size + flags.align - 1) \div flags.align) * flags.align) + flags.headerSize

\* The search goes through the list in order and keeps the first of the best.
Rank(i) == CASE flags.policy = "BEST"  -> freelist[i].size
             [] flags.policy = "WORST" -> -freelist[i].size
             [] flags.policy = "FIRST" -> 0

Fits(size) == {i \in DOMAIN freelist : freelist[i].size >= size}

IsFound(i, size) ==
    /\ i \in Fits(size)
    /\ \A j \in Fits(size) : Rank(i) < Rank(j) \/ (Rank(i) = Rank(j) /\ i <= j)

addToMap(addr, size) ==
    sizemap' = [a \in DOMAIN sizemap \cup {addr} |-> IF a = addr THEN size ELSE sizemap[a]]

Split(i, size) ==
    freelist' = [freelist EXCEPT ![i] = [addr |-> @.addr + size, size |-> @.size - size]]

\* A request that finds no block returns -1 and changes nothing.
malloc(n) ==
    \E i \in DOMAIN freelist :
        LET size == Taken(n)
        IN  /\ IsFound(i, size)
            /\ IF freelist[i].size > size THEN Split(i, size) ELSE freelist' = RemoveAt(freelist, i)
            /\ addToMap(freelist[i].addr, size)
            /\ UNCHANGED flags

-----------------------------------------------------------------------------
Key(e) == CASE flags.order = "ADDRSORT"  -> e.addr
            [] flags.order = "SIZESORT+" -> e.size
            [] flags.order = "SIZESORT-" -> -e.size

\* sorted(), which is stable.
Sorted(list) ==
    LET before(i) == {j \in DOMAIN list : Key(list[j]) < Key(list[i])
                                          \/ (Key(list[j]) = Key(list[i]) /\ j < i)}
        place(n)  == CHOOSE i \in DOMAIN list : Cardinality(before(i)) = n - 1
    IN  [n \in DOMAIN list |-> list[place(n)]]

Insert(e) ==
    CASE flags.order = "INSERT-BACK"  -> Append(freelist, e)
      [] flags.order = "INSERT-FRONT" -> <<e>> \o freelist
      [] OTHER -> Sorted(Append(freelist, e))

\* Mutant: only one block is merged with the one before it.
Coalesced_once(list) ==
    LET follows(i) == list[i].addr + list[i].size = list[i + 1].addr
        merges     == {i \in 1 .. Len(list) - 1 : follows(i)}
    IN  IF merges = {} THEN list
        ELSE LET i == CHOOSE j \in merges : \A k \in merges : j <= k
             IN  RemoveAt([list EXCEPT ![i].size = @ + list[i + 1].size], i + 1)

\* A block that follows its neighbour on the list in memory too becomes part
\* of it.
Coalesced(list) ==
    LET joined(m, e) == IF m # <<>> /\ Last(m).addr + Last(m).size = e.addr
                        THEN [m EXCEPT ![Len(m)].size = @ + e.size]
                        ELSE Append(m, e)
        newlist[n \in 0 .. Len(list)] == IF n = 0 THEN <<>> ELSE joined(newlist[n - 1], list[n])
    IN  newlist[Len(list)]

\* The address of a block that is not allocated is refused.
free(addr) ==
    /\ addr \in DOMAIN sizemap
    /\ LET list == Insert([addr |-> addr, size |-> sizemap[addr]])
       IN  freelist' = IF flags.coalesce THEN Coalesced(list) ELSE list
    /\ sizemap' = [a \in DOMAIN sizemap \ {addr} |-> sizemap[a]]
    /\ UNCHANGED flags

HeapStep ==
    \/ \E n \in 1 .. MaxSize : malloc(n)
    \/ \E addr \in DOMAIN sizemap : free(addr)

-----------------------------------------------------------------------------
\* Every address of the heap belongs to exactly one block, free or allocated, so
\* no memory is lost or given out twice and the assertion of addToMap holds.
Tiling ==
    LET in(x, addr, size) == x \in addr .. addr + size - 1
        free_at(x)  == {i \in DOMAIN freelist : in(x, freelist[i].addr, freelist[i].size)}
        taken_at(x) == {a \in DOMAIN sizemap : in(x, a, sizemap[a])}
    IN  \A x \in Start - 1 .. Start + HeapSize :
            Cardinality(free_at(x)) + Cardinality(taken_at(x))
                = IF in(x, Start, HeapSize) THEN 1 ELSE 0

\* A list sorted by address stays sorted, and with coalescing no two neighbours
\* in memory are both free: what is free can be allocated in one piece.
AddressOrder ==
    flags.order = "ADDRSORT" =>
        \A i \in 1 .. Len(freelist) - 1 :
            LET end == freelist[i].addr + freelist[i].size
            IN  /\ end <= freelist[i + 1].addr
                /\ flags.coalesce => end # freelist[i + 1].addr

=============================================================================
