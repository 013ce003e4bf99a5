------------------------------ MODULE Translate ------------------------------
(***************************************************************************)
(* The four scripts that translate addresses: base and bounds              *)
(* (relocation.py), two segments (segmentation.py), a page table           *)
(* (paging-linear-translate.py) and a page directory with page tables that *)
(* lie in the memory they describe (paging-multilevel-translate.py).  Each *)
(* sets up an address space and then translates: an action is a turn of a  *)
(* loop of the setup, and every address can be translated in every state.  *)
(***************************************************************************)
EXTENDS Integers, Sequences, SequencesExt, FiniteSets

CONSTANTS
    AddressSizes, MemorySizes,   \* -a, -p of the scripts with registers
    MaxRegister,   \* bound: the value of a register that is given
    physPages,     \* frames
    pageSize,      \* bytes of a page, and entries of a table
    linearPages,   \* pages of the address space of the linear page table
    MaxPages       \* bound: -a, pages that are allocated

ASSUME SpaceAssumption ==
    /\ AddressSizes \subseteq Nat \ {0} /\ MemorySizes \subseteq Nat \ {0}
    /\ physPages \in Nat \ {0} /\ pageSize \in Nat \ {0}
    /\ linearPages \in Nat \ {0} /\ linearPages < physPages
    /\ MaxPages \in Nat /\ MaxRegister \in Nat

VARIABLES
    space,       \* scheme, sizes, registers that are given, and how far the setup is
    regs,        \* base and limit of each segment
    pt,          \* the linear page table
    usedPages,   \* frames in use
    memory,      \* what each byte of a frame holds, read as an entry
    pdbr,        \* the frame of the page directory
    allocatedVPs

spaceVars == <<space, regs, pt, usedPages, memory, pdbr, allocatedVPs>>

Frames  == 0 .. physPages - 1
Entries == 0 .. pageSize - 1
vaPages == pageSize * pageSize
Invalid == -1

asize == space.asize
psize == space.psize

Reads(scheme, state) == space.scheme = scheme /\ space.state = state
Becomes(state)       == space' = [space EXCEPT !.state = state]

AddressSpace(scheme, a, p) ==
    [scheme |-> scheme, asize |-> a, psize |-> p, given |-> {}, state |-> "setup"]

NoRegs == [base0 |-> 0, len0 |-> 0, base1 |-> 0, len1 |-> 0]

SpaceInit ==
    /\ \/ \E scheme \in {"relocation", "segmentation"}, a \in AddressSizes, p \in MemorySizes :
            a < p /\ space = AddressSpace(scheme, a, p)
       \/ space = AddressSpace("linear", pageSize * linearPages, pageSize * physPages)
       \/ space = AddressSpace("multilevel", pageSize * vaPages, pageSize * physPages)
    /\ regs = NoRegs
    /\ pt = <<>>
    /\ usedPages = {}
    /\ memory = [f \in Frames |-> [e \in Entries |-> [valid |-> 0, pfn |-> 0]]]
    /\ pdbr = Invalid
    /\ allocatedVPs = {}

-----------------------------------------------------------------------------
(* relocation.py and segmentation.py: each register has the value that is  *)
(* given, or a random one; a random base is drawn until there is room.     *)

RandomLengths == asize \div 4 .. (asize - 1) \div 2
RandomBases   == 0 .. psize - 1

Register(isGiven, random) == IF isGiven THEN 0 .. MaxRegister ELSE random

\* The end of the setup, with the registers r.
SetUp(given, r, fails) ==
    /\ regs' = r
    /\ space' = [space EXCEPT !.given = given, !.state = IF fails THEN "error" ELSE "done"]
    /\ UNCHANGED <<pt, usedPages, memory, pdbr, allocatedVPs>>

relocate ==
    /\ Reads("relocation", "setup")
    /\ \E given \in SUBSET {"base0", "len0"} :
       \E base \in Register("base0" \in given, RandomBases),
          limit \in Register("len0" \in given, RandomLengths) :
         /\ "base0" \notin given => base + limit < psize
         /\ SetUp(given, [NoRegs EXCEPT !.base0 = base, !.len0 = limit], base + limit > psize)

findRoom(r) ==
    r.base1 + r.len1 < psize /\ (r.base1 > r.base0 + r.len0 \/ r.base1 + r.len1 < r.base0)

TooLong(r) == 2 * r.len0 > asize \/ 2 * r.len1 > asize
Overlap(r) == r.len0 + r.base0 > r.base1 /\ r.base1 > r.base0

\* base1 is the low end of segment 1; -B gives the high end.
segment ==
    /\ Reads("segmentation", "setup")
    /\ \E given \in SUBSET {"base0", "len0", "base1", "len1"} :
       \E base0 \in Register("base0" \in given, RandomBases),
          len0  \in Register("len0" \in given, RandomLengths),
          end1  \in Register("base1" \in given, RandomBases),
          len1  \in Register("len1" \in given, RandomLengths) :
         LET r == [base0 |-> base0, len0 |-> len0, len1 |-> len1,
                   base1 |-> IF "base1" \in given THEN end1 - len1 ELSE end1]
         IN  /\ "base0" \notin given => base0 + len0 < psize
             /\ "base1" \notin given => findRoom(r)
             /\ SetUp(given, r, TooLong(r) \/ Overlap(r))

-----------------------------------------------------------------------------
(* paging-linear-translate.py: each page of the address space is invalid   *)
(* or gets a frame that is not in use.                                     *)

linearPage ==
    /\ Reads("linear", "setup")
    /\ \E u \in (Frames \ usedPages) \cup {Invalid} :
         /\ pt' = Append(pt, u)
         /\ usedPages' = IF u = Invalid THEN usedPages ELSE usedPages \cup {u}
    /\ Becomes(IF Len(pt') = linearPages THEN "done" ELSE "setup")
    /\ UNCHANGED <<regs, memory, pdbr, allocatedVPs>>

-----------------------------------------------------------------------------
(* paging-multilevel-translate.py.                                         *)

\* Mutant: frames in use are handed out again.
findFree_any(used) == Frames

\* A frame for findFree, or the end of the script: its assert fails when the
\* count of frames in use, which is that of usedPages, has reached physPages.
findFree(used) == Frames \ used

Table(entry) == [e \in Entries |-> entry]

\* 0x7f, the number of the last frame.
initPageDir == Table([valid |-> 0, pfn |-> physPages - 1])

initPageTablePage(m, f) == [m EXCEPT ![f] = initPageDir]

getPageDirEntry(vp)        == memory[pdbr][vp \div pageSize]
getPageTableEntry(vp, pte) == memory[pte][vp % pageSize]

\* The bytes of a filled page are below 31, so that none has the valid bit.
fillPage(m, pp) == [m EXCEPT ![pp] = Table([valid |-> 0, pfn |-> 0])]

procAlloc ==
    /\ Reads("multilevel", "setup")
    /\ pdbr = Invalid
    /\ pdbr' \in findFree(usedPages)
    /\ usedPages' = {pdbr'}
    /\ memory' = initPageTablePage(memory, pdbr')
    /\ UNCHANGED <<space, regs, pt, allocatedVPs>>

\* setPageTableEntry, after the asserts that the entry is not valid.
setEntry(m, pte, vp, pp) ==
    IF m[pte][vp % pageSize] # initPageDir[0] THEN Becomes("assert failed") /\ memory' = m
    ELSE /\ memory' = fillPage([m EXCEPT ![pte][vp % pageSize] = [valid |-> 1, pfn |-> pp]], pp)
         /\ Becomes("setup")

\* Frame pp for virtual page vp, and one for a page of the page table if its
\* directory entry is not valid.
allocVirtualPage(vp, pp) ==
    LET pde  == getPageDirEntry(vp)
        used == usedPages \cup {pp}
    IN  IF pde.valid = 1
        THEN usedPages' = used /\ setEntry(memory, pde.pfn, vp, pp)
        ELSE IF findFree(used) = {} \/ pde # initPageDir[0]
        THEN usedPages' = used /\ Becomes("assert failed") /\ memory' = memory
        ELSE \E pte \in findFree(used) :
               /\ usedPages' = used \cup {pte}
               /\ setEntry(initPageTablePage([memory EXCEPT ![pdbr][vp \div pageSize] =
                                                   [valid |-> 1, pfn |-> pte]], pte), pte, vp, pp)

\* A turn of the loop of procAlloc.
allocPage ==
    /\ Reads("multilevel", "setup")
    /\ pdbr # Invalid /\ Cardinality(allocatedVPs) < MaxPages
    /\ \E vp \in (0 .. vaPages - 1) \ allocatedVPs :
         /\ allocatedVPs' = allocatedVPs \cup {vp}
         /\ IF findFree(usedPages) = {}
            THEN Becomes("assert failed") /\ UNCHANGED <<usedPages, memory>>
            ELSE \E pp \in findFree(usedPages) : allocVirtualPage(vp, pp)
    /\ UNCHANGED <<regs, pt, pdbr>>

SpaceStep == relocate \/ segment \/ linearPage \/ procAlloc \/ allocPage

SpaceFinished ==
    /\ space.state # "setup" \/ Cardinality(allocatedVPs) = MaxPages
    /\ UNCHANGED spaceVars

-----------------------------------------------------------------------------
(* Translation: which addresses are valid, and where they are.             *)

translatePage(vp) ==
    IF space.scheme = "linear" THEN IF vp < Len(pt) THEN pt[vp + 1] ELSE Invalid
    ELSE IF pdbr = Invalid \/ getPageDirEntry(vp).valid = 0 THEN Invalid
    ELSE LET pte == getPageTableEntry(vp, getPageDirEntry(vp).pfn)
         IN  IF pte.valid = 0 THEN Invalid ELSE pte.pfn

HasRegs     == space.scheme \in {"relocation", "segmentation"}
InFirst(va) == space.scheme = "relocation" \/ 2 * va < asize

isValid(va) ==
    IF ~HasRegs THEN translatePage(va \div pageSize) # Invalid
    ELSE IF InFirst(va) THEN va < regs.len0
    ELSE va + regs.len1 >= asize

translate(va) ==
    IF ~HasRegs THEN translatePage(va \div pageSize) * pageSize + (va % pageSize)
    ELSE IF InFirst(va) THEN va + regs.base0
    ELSE va + regs.base1 + regs.len1 - asize

-----------------------------------------------------------------------------
Valid == {va \in 0 .. asize - 1 : isValid(va)}

TableFrames ==
    IF pdbr = Invalid THEN {}
    ELSE {pdbr} \cup {memory[pdbr][e].pfn : e \in {d \in Entries : memory[pdbr][d].valid = 1}}

\* The check of a base given by hand looks only at a segment 1 above segment 0.
Checked ==
    /\ space.state # "error"
    /\ space.scheme = "segmentation" /\ "base1" \in space.given => regs.base1 > regs.base0

\* Addresses of a segment whose base is given with -b or -B may be outside memory.
PlacedByScript(va) ==
    space.scheme = "segmentation" => (IF InFirst(va) THEN "base0" ELSE "base1") \notin space.given

\* Two addresses of a process are never the same byte of memory, none is in its page
\* tables, and where the script chose or checked the place it is in memory; and with
\* page tables the valid pages are those allocated.
NoAliases ==
    /\ Checked => Cardinality({translate(va) : va \in Valid}) = Cardinality(Valid)
    /\ space.state # "error" =>
         \A va \in Valid : PlacedByScript(va) =>
            /\ translate(va) \in 0 .. psize - 1
            /\ translate(va) \div pageSize \notin TableFrames
    /\ Reads("multilevel", "setup") => {va \div pageSize : va \in Valid} = allocatedVPs

\* The asserts fail only when memory is full; the last frame, whose number marks
\* an empty entry, is like any other.
FailsOnlyWhenFull == space.state = "assert failed" => usedPages = Frames
=============================================================================
