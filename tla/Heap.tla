------------------------------- MODULE Heap -------------------------------
(***************************************************************************)
(* OSHeapManager, the allocator of the interpreter.  Requests below        *)
(* MAX_SMALL_SIZE are carved from small pages and kept, once freed, in one *)
(* list per size.  Requests below half a page are carved from pages that   *)
(* are split into blocks: every block hangs in the list of all blocks, the *)
(* free ones also in a list sorted by size, and a freed block merges with  *)
(* its free neighbours of the same page.  The rest comes from the system.  *)
(*                                                                         *)
(* The release layout: no debug marks, FIND_BEST_FREE_BLOCK and            *)
(* FREE_FREEPAGES on, OS_USE_HEAP_SAVING_MODE off.  An address is a pair   *)
(* <<b, o>>, o bytes into the piece b of memory the system gave.           *)
(***************************************************************************)
EXTENDS Integers, Sequences, FiniteSets, SequencesExt, Functions

CONSTANTS
    Align, SmallHeader, PageHeader, BlockHeader, FreeHeader, \* sizeof the structs
    MaxSmall,       \* MAX_SMALL_SIZE, 256
    PageSize,       \* 65536
    PageIdMod,      \* 2^16, the range of Block::page and next_page
    KeptPages,      \* free pages kept for later, 4
    Sizes,          \* the sizes the program asks for
    MallocFails,    \* whether the system may refuse memory
    MaxPages,       \* bound: pages the system can give at a time
    MaxLarge,       \* bound: large blocks at a time
    MaxHeld,        \* bound: blocks the program holds
    MaxNextPage     \* bound: the page numbers given out

HeapAssumption ==
    /\ Align \in Nat \ {0}
    /\ \A n \in {SmallHeader, PageHeader, BlockHeader, FreeHeader, MaxSmall, PageSize} :
          n \in Nat \ {0} /\ n % Align = 0
    /\ BlockHeader <= FreeHeader
    /\ FreeHeader <= MaxSmall \div 2
    /\ PageHeader + SmallHeader <= MaxSmall
    /\ 2 * MaxSmall <= PageSize
    /\ Sizes \subseteq Nat \ {0}
    /\ MallocFails \in BOOLEAN
    /\ KeptPages \in Nat \ {0} /\ MaxPages \in Nat /\ MaxLarge \in Nat
    /\ PageIdMod \in Nat \ {0, 1} /\ MaxNextPage \in 1 .. PageIdMod

VARIABLES
    blocks,      \* dummy_block's list: [at, page, size, is_free]
    free_list,   \* dummy_free's list: addresses, the largest block first
    next_page,
    small_pages, \* the small pages, the current one first
    small_page_offs,
    free_small,  \* free_small_blocks: a stack of addresses per slot
    small,       \* size_slot of each small block in use
    large,       \* size of each large block
    stats,       \* per type, alloc_size, used_size and data_size
    pages,       \* pages taken from the system and not given back
    held,        \* the pointers the program has: [type, at, size]
    destroyed

vars == <<blocks, free_list, next_page, small_pages, small_page_offs, free_small,
          small, large, stats, pages, held, destroyed>>

Slots == 0 .. (MaxSmall + SmallHeader) \div Align

Types == {"small", "medium", "large"}

Init ==
    /\ blocks = << >> /\ free_list = << >> /\ next_page = 1
    /\ small_pages = << >> /\ small_page_offs = 0
    /\ free_small = [i \in Slots |-> << >>]
    /\ small = << >> /\ large = << >>
    /\ stats = [t \in Types |-> [alloc |-> 0, used |-> 0, data |-> 0]]
    /\ pages = {} /\ held = {} /\ destroyed = FALSE

rounded(n) == ((n + Align - 1) \div Align) * Align

\* alloc_size
allocated(s, n) == [alloc |-> s.alloc + n, used |-> s.used, data |-> s.data]

released(s, n) == [alloc |-> s.alloc - n, used |-> s.used, data |-> s.data]

registerAlloc(s, used, data) ==
    [alloc |-> s.alloc, used |-> s.used + used, data |-> s.data + data]

registerFree(s, used, data) ==
    [alloc |-> s.alloc, used |-> s.used - used, data |-> s.data - data]

\* The header of the block at a says v
put(f, a, v) == [x \in DOMAIN f \cup {a} |-> IF x = a THEN v ELSE f[x]]

\* STD_MALLOC of a page: any one that is not in use
NewPage == Min((1 .. MaxPages) \ pages)

CanTakePage == Cardinality(pages) < MaxPages

\* The program has one more pointer
returned(t, a, n) ==
    /\ Cardinality(held) < MaxHeld
    /\ held' = held \cup {[type |-> t, at |-> a, size |-> n]}

-----------------------------------------------------------------------------
(* Small blocks.                                                           *)

\* Mutant: rounding down
badSmallSize(n) == ((n + SmallHeader) \div Align) * Align

smallSize(n) == rounded(n + SmallHeader)

slotOf(size) == size \div Align - 1

getSize(slot) == slot * Align + Align

free_page_size == (IF small_pages = << >> THEN 0 ELSE PageSize) - small_page_offs

pushSmall(slot, a) == [free_small EXCEPT ![slot] = <<a>> \o @]

\* The block at a of the given size is handed out
takeSmall(a, slot, n, alloc) ==
    /\ small' = put(small, a, slot)
    /\ stats' = [stats EXCEPT !["small"] =
                    registerAlloc(allocated(@, alloc), getSize(slot), getSize(slot) - SmallHeader)]
    /\ returned("small", a, n)

reuseSmall(n) ==
    LET i == slotOf(smallSize(n)) IN
    /\ free_small[i] # << >>
    /\ free_small' = [free_small EXCEPT ![i] = Tail(@)]
    /\ takeSmall(Head(free_small[i]), i, n, 0)
    /\ UNCHANGED <<small_pages, small_page_offs, pages>>

carveSmall(n) ==
    LET size == smallSize(n) IN
    /\ free_small[slotOf(size)] = << >>
    /\ free_page_size >= size
    /\ small_page_offs' = small_page_offs + size
    /\ takeSmall(<<Head(small_pages), small_page_offs>>, slotOf(size), n, 0)
    /\ UNCHANGED <<small_pages, free_small, pages>>

\* The rest of the current page, unless it is too small, becomes a free block
restOfPage ==
    IF free_page_size > rounded(Align + SmallHeader)
    THEN pushSmall(slotOf(free_page_size), <<Head(small_pages), small_page_offs>>)
    ELSE free_small

newSmallPage(n) ==
    LET size == smallSize(n) IN
    /\ free_small[slotOf(size)] = << >>
    /\ free_page_size < size
    /\ free_small' = restOfPage
    /\ \/ /\ CanTakePage
          /\ pages' = pages \cup {NewPage}
          /\ small_pages' = <<NewPage>> \o small_pages
          /\ small_page_offs' = PageHeader + size
          /\ takeSmall(<<NewPage, PageHeader>>, slotOf(size), n, PageSize)
       \/ /\ MallocFails
          /\ UNCHANGED <<pages, small_pages, small_page_offs, small, stats, held>>

allocSmall(n) ==
    /\ reuseSmall(n) \/ carveSmall(n) \/ newSmallPage(n)
    /\ UNCHANGED <<blocks, free_list, next_page, large, destroyed>>

freeSmall(p) ==
    LET i == small[p.at] IN
    /\ small' = Restrict(small, DOMAIN small \ {p.at})
    /\ free_small' = pushSmall(i, p.at)
    /\ stats' = [stats EXCEPT !["small"] = registerFree(@, getSize(i), getSize(i) - SmallHeader)]
    /\ held' = held \ {p}
    /\ UNCHANGED <<blocks, free_list, next_page, small_pages, small_page_offs, large, pages, destroyed>>

-----------------------------------------------------------------------------
(* Large blocks, each one memory of its own.                               *)

blockSize(n) == rounded(n + BlockHeader)

allocLarge(n) ==
    LET size == blockSize(n)
        b == Min((MaxPages + 1 .. MaxPages + MaxLarge) \ {a[1] : a \in DOMAIN large}) IN
    /\ Cardinality(DOMAIN large) < MaxLarge
    /\ large' = put(large, <<b, 0>>, size)
    /\ stats' = [stats EXCEPT !["large"] =
                    registerAlloc(allocated(@, size), size, size - BlockHeader)]
    /\ returned("large", <<b, 0>>, n)
    /\ UNCHANGED <<blocks, free_list, next_page, small_pages, small_page_offs, free_small,
                   small, pages, destroyed>>

freeLarge(p) ==
    LET size == large[p.at] IN
    /\ large' = Restrict(large, DOMAIN large \ {p.at})
    /\ stats' = [stats EXCEPT !["large"] =
                    registerFree(released(@, size), size, size - BlockHeader)]
    /\ held' = held \ {p}
    /\ UNCHANGED <<blocks, free_list, next_page, small_pages, small_page_offs, free_small,
                   small, pages, destroyed>>

-----------------------------------------------------------------------------
(* Medium blocks: bs is a list of blocks, fl a list of free ones.          *)

Dummy == [at |-> <<0, 0>>, page |-> PageIdMod - 1, size |-> 0, is_free |-> TRUE]

Block(bs, i) == IF i \in DOMAIN bs THEN bs[i] ELSE Dummy

Index(bs, a) == CHOOSE i \in DOMAIN bs : bs[i].at = a

Size(bs, a) == bs[Index(bs, a)].size

\* Before the first block that is not larger
placeOf(bs, fl, size) ==
    Min({i \in DOMAIN fl : Size(bs, fl[i]) <= size} \cup {Len(fl) + 1})

inserted(bs, fl, a) == InsertAt(fl, placeOf(bs, fl, Size(bs, a)), a)

\* Whether a free page at a is one too many: KeptPages others are behind it, the next of
\* which shares its page with no neighbour
surplus(bs, fl, a) ==
    LET i == placeOf(bs, fl, Size(bs, a))
        k == Index(bs, fl[i]) IN
    /\ Size(bs, a) = PageSize
    /\ Len(fl) >= i + KeptPages - 1
    /\ \A j \in i .. i + KeptPages - 1 : Size(bs, fl[j]) = PageSize
    /\ bs[k].page # Block(bs, k - 1).page /\ bs[k].page # Block(bs, k + 1).page

\* insertFreeBlock of the block at a, which is free in bs: the lists and the page given
\* back to the system, the one behind the new one
insertFreeBlock(bs, fl, a) ==
    LET i == placeOf(bs, fl, Size(bs, a)) IN
    IF surplus(bs, fl, a)
    THEN [blocks |-> RemoveAt(bs, Index(bs, fl[i])),
          free_list |-> RemoveAt(inserted(bs, fl, a), i + 1), pages |-> {fl[i][1]}]
    ELSE [blocks |-> bs, free_list |-> inserted(bs, fl, a), pages |-> {}]

\* The block before the first one that is too small: 0 when the head of the list is
bestFit(size) ==
    Min({i \in DOMAIN free_list : Size(blocks, free_list[i]) < size} \cup {Len(free_list) + 1}) - 1

takesAll(bs, i, rest) ==
    rest < MaxSmall /\ (rest < MaxSmall \div 2 \/ Block(bs, i + 1).page # bs[i].page)

takenMedium(a, size, n, alloc) ==
    /\ stats' = [stats EXCEPT !["medium"] =
                    registerAlloc(allocated(@, alloc), size, size - BlockHeader)]
    /\ returned("medium", a, n)

takeWhole(bs, fl, i, n, alloc) ==
    /\ blocks' = [bs EXCEPT ![i].is_free = FALSE]
    /\ free_list' = RemoveFirst(fl, bs[i].at)
    /\ takenMedium(bs[i].at, bs[i].size, n, alloc)

positionOf(fl, a) == SelectInSeq(fl, LAMBDA f : f = a)

\* The block moves in the free list when it is smaller than its successor now
takeTail(bs, fl, i, rest, size, n, alloc) ==
    LET a == bs[i].at
        b == <<a[1], a[2] + rest>>
        cut == [bs EXCEPT ![i].size = rest]
        j == positionOf(fl, a) IN
    /\ blocks' = InsertAt(cut, i + 1, [at |-> b, page |-> bs[i].page, size |-> size, is_free |-> FALSE])
    /\ free_list' = IF j < Len(fl) /\ rest < Size(bs, fl[j + 1])
                    THEN inserted(cut, RemoveFirst(fl, a), a) ELSE fl
    /\ takenMedium(b, size, n, alloc)

\* The free block at a gives up its tail, or all of itself
carve(bs, fl, a, size, n, alloc) ==
    LET i == Index(bs, a)
        rest == bs[i].size - size IN
    \/ takesAll(bs, i, rest) /\ takeWhole(bs, fl, i, n, alloc)
    \/ ~takesAll(bs, i, rest) /\ takeTail(bs, fl, i, rest, size, n, alloc)

newMediumPage(size, n) ==
    LET a == <<NewPage, 0>>
        b == [at |-> a, page |-> next_page, size |-> PageSize, is_free |-> TRUE] IN
    /\ CanTakePage /\ next_page < MaxNextPage
    /\ next_page' = (next_page + 1) % PageIdMod
    /\ pages' = pages \cup {NewPage}
    /\ carve(<<b>> \o blocks, <<a>> \o free_list, a, size, n, PageSize)
    /\ UNCHANGED <<small_pages, small_page_offs, free_small, small, large, destroyed>>

allocMedium(n) ==
    LET size == blockSize(n) IN
    \/ /\ bestFit(size) # 0
       /\ carve(blocks, free_list, free_list[bestFit(size)], size, n, 0)
       /\ UNCHANGED <<next_page, small_pages, small_page_offs, free_small, small, large,
                      pages, destroyed>>
    \/ bestFit(size) = 0 /\ size > PageSize \div 2 /\ allocLarge(n)
    \/ bestFit(size) = 0 /\ size <= PageSize \div 2 /\ newMediumPage(size, n)

merges(bs, i, j) == Block(bs, j).is_free /\ Block(bs, j).page = bs[i].page

\* Mutant: the size of the neighbour is forgotten
badJoined(bs, i, j) ==
    LET lo == Min({i, j})
    IN  RemoveAt([bs EXCEPT ![lo].size = bs[i].size], lo + 1)

\* The block at index i joined with its free neighbour j of the same page, which comes
\* right before or after it; what the code does next to dummy_block is not modelled:
\* MergeAssertion says that it never merges with it
joined(bs, i, j) ==
    LET lo == Min({i, j})
    IN  RemoveAt([bs EXCEPT ![lo].size = bs[i].size + bs[j].size], lo + 1)

\* The lists after the block at index i was joined with the one before it, if that is
\* possible, and where the block is then
joinedBack(bs, fl, i) ==
    IF i > 1 /\ merges(bs, i, i - 1)
    THEN [blocks |-> joined(bs, i, i - 1), free_list |-> RemoveFirst(fl, bs[i - 1].at), at |-> i - 1]
    ELSE [blocks |-> bs, free_list |-> fl, at |-> i]

\* And with the one behind it
joinedOn(bs, fl, k) ==
    IF k < Len(bs) /\ merges(bs, k, k + 1)
    THEN [blocks |-> joined(bs, k, k + 1), free_list |-> RemoveFirst(fl, bs[k + 1].at)]
    ELSE [blocks |-> bs, free_list |-> fl]

freeMedium(p) ==
    LET i == Index(blocks, p.at)
        back == joinedBack(blocks, free_list, i)
        both == joinedOn(back.blocks, back.free_list, back.at)
        bs == [both.blocks EXCEPT ![back.at].is_free = TRUE]
        size == blocks[i].size IN
    /\ \E after \in {insertFreeBlock(bs, both.free_list, bs[back.at].at)} :
       /\ blocks' = after.blocks
       /\ free_list' = after.free_list
       /\ pages' = pages \ after.pages
       /\ stats' = [stats EXCEPT !["medium"] =
              registerFree(released(@, PageSize * Cardinality(after.pages)), size, size - BlockHeader)]
    /\ held' = held \ {p}
    /\ UNCHANGED <<next_page, small_pages, small_page_offs, free_small, small, large, destroyed>>

-----------------------------------------------------------------------------
(* The interface.  A refusal of the system that leaves the state alone is  *)
(* no step, and neither is a request of zero bytes.                        *)

malloc(n) ==
    /\ ~destroyed
    /\ \/ n < MaxSmall /\ allocSmall(n)
       \/ n >= MaxSmall /\ n < PageSize \div 2 /\ allocMedium(n)
       \/ n >= PageSize \div 2 /\ allocLarge(n)

\* The type is the byte before the block
free(p) ==
    \/ p.type = "small" /\ freeSmall(p)
    \/ p.type = "medium" /\ freeMedium(p)
    \/ p.type = "large" /\ freeLarge(p)

\* ~OSHeapManager after everything was freed: the small pages, then every listed block
\* as if it were the start of its page
destroy ==
    /\ ~destroyed /\ held = {}
    /\ destroyed' = TRUE
    /\ pages' = (pages \ ToSet(small_pages)) \ {b.at[1] : b \in {c \in ToSet(blocks) : c.at[2] = 0}}
    /\ small_pages' = << >> /\ blocks' = << >>
    /\ UNCHANGED <<free_list, next_page, small_page_offs, free_small, small, large, stats, held>>

Next ==
    \/ \E n \in Sizes : malloc(n)
    \/ \E p \in held : free(p)
    \/ destroy

Spec == Init /\ [][Next]_vars

-----------------------------------------------------------------------------
(* Properties.                                                             *)

\* Addresses are aligned and inside the pages, every small block in use has a slot that
\* exists, every block of the list can hold the links of a free block
TypeOK ==
    /\ next_page \in 0 .. PageIdMod - 1
    /\ small_page_offs \in 0 .. PageSize /\ small_page_offs % Align = 0
    /\ DOMAIN free_small = Slots
    /\ \A a \in DOMAIN small : small[a] \in Slots
    /\ \A i \in DOMAIN blocks :
          /\ blocks[i].size \in FreeHeader .. PageSize
          /\ blocks[i].size % Align = 0 /\ blocks[i].at[2] % Align = 0
    /\ pages \subseteq 1 .. MaxPages

\* The blocks of a page are consecutive in the list, adjoin each other and fill the page;
\* merging in freeMedium and the choice of the whole block in allocMedium look at the
\* neighbours in the list only
BlocksTile ==
    \A i \in DOMAIN blocks :
        LET b == blocks[i] IN
        /\ b.at[2] # 0 =>
             /\ i > 1 /\ blocks[i - 1].page = b.page
             /\ blocks[i - 1].at = <<b.at[1], b.at[2] - blocks[i - 1].size>>
        /\ b.at[2] + b.size # PageSize =>
             /\ i < Len(blocks) /\ blocks[i + 1].page = b.page
             /\ blocks[i + 1].at = <<b.at[1], b.at[2] + b.size>>

\* No two free blocks adjoin in one page: freeMedium merges on both sides, and allocMedium
\* takes the tail of a free block, so that memory does not fall to pieces
Coalesced ==
    \A i \in 1 .. Len(blocks) - 1 :
        blocks[i].at[1] = blocks[i + 1].at[1] => ~(blocks[i].is_free /\ blocks[i + 1].is_free)

\* The free list has the free blocks, each once, the largest first: allocMedium looks at
\* its head to decide that no block is large enough and stops at the first small one
FreeListExact ==
    ~destroyed =>
    /\ \A i \in 1 .. Len(free_list) - 1 :
          Size(blocks, free_list[i]) >= Size(blocks, free_list[i + 1])
    /\ IsInjective(free_list)
    /\ ToSet(free_list) = {b.at : b \in {c \in ToSet(blocks) : c.is_free}}

\* An extent is an address and a number of bytes
Overlap(e, f) ==
    /\ e[1][1] = f[1][1]
    /\ e[1][2] < f[1][2] + f[2] /\ f[1][2] < e[1][2] + e[2]

\* What the block of a pointer covers, its header included
ExtentOf(p) ==
    CASE p.type = "small"  -> <<p.at, getSize(small[p.at])>>
      [] p.type = "medium" -> <<p.at, Size(blocks, p.at)>>
      [] p.type = "large"  -> <<p.at, large[p.at]>>

HeaderOf(p) == IF p.type = "small" THEN SmallHeader ELSE BlockHeader

\* Two blocks in use never share a byte, lie in memory the heap owns, and are large enough
\* for what was asked, across splitting, merging, reuse and pages given back
LiveDisjoint ==
    /\ \A p, q \in held : p # q => ~Overlap(ExtentOf(p), ExtentOf(q))
    /\ \A p \in held :
          /\ ExtentOf(p)[2] >= p.size + HeaderOf(p)
          /\ p.type # "large" => p.at[1] \in pages /\ p.at[2] + ExtentOf(p)[2] <= PageSize

\* A small block that waits in a list overlaps no block in use: checkMemory asserts that
\* every block of the lists still carries the mark of a free block
FreeSmallUnused ==
    \A i \in Slots : \A j \in DOMAIN free_small[i] : \A p \in held :
        ~Overlap(<<free_small[i][j], getSize(i)>>, ExtentOf(p))

\* The sum of a function's values, numbers of bytes: the number of these bytes
Total(f) == Cardinality(UNION {{x} \X (1 .. f[x]) : x \in DOMAIN f})

\* The blocks of a list, or those in use, as a function from addresses to sizes
SizesOf(bs) == [a \in {b.at : b \in ToSet(bs)} |-> Size(bs, a)]

UsedSizes(bs) == [a \in {b.at : b \in {c \in ToSet(bs) : ~c.is_free}} |-> Size(bs, a)]

\* Without the headers
Less(f, header) == [a \in DOMAIN f |-> f[a] - header]

\* The statistics are what a walk over all blocks adds up to: checkMemory asserts it, and
\* getUsedBytes decides when the collector runs
StatsExact ==
    ~destroyed =>
    LET sizes == [a \in DOMAIN small |-> getSize(small[a])] IN
    /\ stats["small"] = [alloc |-> PageSize * Len(small_pages),
                         used |-> Total(sizes), data |-> Total(Less(sizes, SmallHeader))]
    /\ stats["medium"] = [alloc |-> Total(SizesOf(blocks)), used |-> Total(UsedSizes(blocks)),
                          data |-> Total(Less(UsedSizes(blocks), BlockHeader))]
    /\ stats["large"] = [alloc |-> Total(large), used |-> Total(large),
                         data |-> Total(Less(large, BlockHeader))]

\* insertFreeBlock keeps KeptPages whole free pages and gives the next one back
FreePagesBounded ==
    Cardinality({b \in ToSet(blocks) : b.is_free /\ b.size = PageSize}) <= KeptPages

\* When all is freed the destructor gives every page back: each block it takes for the
\* start of a page is one
DestroyReturnsAll == destroyed => pages = {}

\* freeMedium asserts that a free neighbour with the same page number adjoins the block
MergeAssertion ==
    \A i \in DOMAIN blocks : ~blocks[i].is_free =>
        /\ merges(blocks, i, i - 1) =>
              /\ i > 1
              /\ blocks[i].at = <<blocks[i - 1].at[1], blocks[i - 1].at[2] + blocks[i - 1].size>>
        /\ merges(blocks, i, i + 1) =>
              /\ i < Len(blocks)
              /\ blocks[i + 1].at = <<blocks[i].at[1], blocks[i].at[2] + blocks[i].size>>

\* The list of blocks, the free list and the statistics agree after whatever was
\* allocated, split, merged and given back.
BlocksExact ==
    TypeOK /\ BlocksTile /\ Coalesced /\ FreeListExact /\ StatsExact /\ FreePagesBounded

\* Nobody else has the memory that a program has, and in the end the system has it back.
MemoryApart == LiveDisjoint /\ FreeSmallUnused /\ DestroyReturnsAll
=============================================================================
