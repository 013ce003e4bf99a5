----------------------------- MODULE PagePolicy ------------------------------
(***************************************************************************)
(* paging-policy.py: the policies that choose the page to replace.  Two    *)
(* caches, as of two runs of the script, follow the same references, so    *)
(* that their misses and contents can be compared.                         *)
(***************************************************************************)
EXTENDS Integers, Sequences, SequencesExt, FiniteSets

CONSTANTS
    NumPages,     \* bound: pages referenced
    MaxTrace,     \* bound: references
    CacheSizes,   \* -C
    ClockBits     \* -b

ASSUME PageAssumption == NumPages \in Nat /\ CacheSizes \subseteq Nat \ {0} /\ ClockBits \in Nat

VARIABLES
    addrList,
    addrIndex,    \* references made
    caches        \* policy, cachesize, memory, ref, hits and miss of each

pageVars == <<addrList, addrIndex, caches>>

PagePolicies == {"FIFO", "LRU", "MRU", "OPT", "UNOPT", "RAND", "CLOCK"}

\* Pages are numbered in the order of their first use; no policy looks at their
\* numbers.
Traces ==
    {t \in UNION {[1 .. n -> 1 .. NumPages] : n \in 1 .. MaxTrace} :
        \A i \in DOMAIN t : \A p \in 1 .. t[i] - 1 : \E j \in 1 .. i - 1 : t[j] = p}

Empty(policy, cachesize) ==
    [policy |-> policy, cachesize |-> cachesize, memory |-> <<>>, ref |-> <<>>, hits |-> 0, miss |-> 0]

\* OPT beside each of the others, and LRU beside LRU with one more page.
PageInit ==
    /\ addrList \in Traces
    /\ addrIndex = 0
    /\ \E size \in CacheSizes :
         \/ \E policy \in PagePolicies : caches = <<Empty("OPT", size), Empty(policy, size)>>
         \/ caches = <<Empty("LRU", size + 1), Empty("LRU", size)>>

-----------------------------------------------------------------------------
Position(c, p) == CHOOSE i \in DOMAIN c.memory : c.memory[i] = p

\* Mutant: the search for the next use starts one too late.
whenReferenced_late(p) ==
    LET future == {i \in addrIndex + 3 .. Len(addrList) : addrList[i] = p}
    IN  IF future = {} THEN Len(addrList) + 1 ELSE CHOOSE i \in future : \A j \in future : i <= j

whenReferenced(p) ==
    LET future == {i \in addrIndex + 2 .. Len(addrList) : addrList[i] = p}
    IN  IF future = {} THEN Len(addrList) + 1 ELSE CHOOSE i \in future : \A j \in future : i <= j

\* Of the pages that are never used again OPT takes the last and UNOPT, when
\* there are no others, the first.
Later(c, p, q) ==
    \/ whenReferenced(p) > whenReferenced(q)
    \/ whenReferenced(p) = whenReferenced(q) /\ Position(c, p) >= Position(c, q)

Sooner(c, p, q) ==
    \/ whenReferenced(p) < whenReferenced(q)
    \/ whenReferenced(p) = whenReferenced(q) /\ Position(c, p) <= Position(c, q)

Victims(c) ==
    LET pages == ToSet(c.memory)
    IN  CASE c.policy \in {"FIFO", "LRU"}   -> {Head(c.memory)}
          [] c.policy = "MRU"               -> {Last(c.memory)}
          [] c.policy \in {"RAND", "CLOCK"} -> pages
          [] c.policy = "OPT"   -> {p \in pages : \A q \in pages : Later(c, p, q)}
          [] c.policy = "UNOPT" -> {p \in pages : \A q \in pages : Sooner(c, p, q)}

\* Mutant: the bit of the victim stays.
Scanned_keeps(c, victim) ==
    IF c.policy # "CLOCK" THEN {c.ref}
    ELSE {r \in [DOMAIN c.ref -> 0 .. ClockBits + 1] : \A p \in DOMAIN r : r[p] <= c.ref[p]}

\* The use bits when the scan of CLOCK, which looks at pages at random and takes
\* from their bits, has found its victim.  The other policies do not read them.
Scanned(c, victim) ==
    IF c.policy # "CLOCK" THEN {c.ref}
    ELSE {r \in [DOMAIN c.ref \ {victim} -> 0 .. ClockBits + 1] : \A p \in DOMAIN r : r[p] <= c.ref[p]}

Used(c, n) ==
    IF c.policy # "CLOCK" THEN c
    ELSE [c EXCEPT !.ref = [p \in DOMAIN c.ref \cup {n} |->
             IF p # n THEN c.ref[p]
             ELSE IF n \notin DOMAIN c.ref THEN 1
             ELSE IF c.ref[n] + 1 > ClockBits THEN ClockBits ELSE c.ref[n] + 1]]

Hit(c, n) ==
    [c EXCEPT !.hits = @ + 1,
              !.memory = IF c.policy \in {"LRU", "MRU"} THEN Append(RemoveAt(@, Position(c, n)), n) ELSE @]

Miss(c, n) ==
    IF Len(c.memory) < c.cachesize
    THEN {[c EXCEPT !.miss = @ + 1, !.memory = Append(@, n)]}
    ELSE UNION {{[c EXCEPT !.miss = @ + 1, !.memory = Append(RemoveAt(@, Position(c, victim)), n), !.ref = r] :
                    r \in Scanned(c, victim)} : victim \in Victims(c)}

Access(c, n) ==
    {Used(d, n) : d \in IF n \in ToSet(c.memory) THEN {Hit(c, n)} ELSE Miss(c, n)}

\* One reference, in both runs.
Reference ==
    /\ addrIndex < Len(addrList)
    /\ addrIndex' = addrIndex + 1
    /\ \E c \in Access(caches[1], addrList[addrIndex + 1]),
          d \in Access(caches[2], addrList[addrIndex + 1]) : caches' = <<c, d>>
    /\ UNCHANGED addrList

PageFinished == addrIndex = Len(addrList) /\ UNCHANGED pageVars

-----------------------------------------------------------------------------
\* No policy has fewer misses than OPT, whatever it throws out, and what is in a
\* cache with LRU is in a larger one too.
OptimalAndInclusive ==
    /\ caches[1].policy = "OPT" => caches[1].miss <= caches[2].miss
    /\ caches[1].policy = "LRU" => ToSet(caches[2].memory) \subseteq ToSet(caches[1].memory)

\* A cache holds a page once, and the use bits of CLOCK are those of the pages in
\* memory: the scan finds a bit for each, and a page that comes back starts anew.
UseBitsFollowMemory ==
    \A i \in DOMAIN caches :
        LET c == caches[i]
        IN  /\ IsInjective(c.memory) /\ Len(c.memory) <= c.cachesize
            /\ c.policy = "CLOCK" => DOMAIN c.ref = ToSet(c.memory)
=============================================================================
