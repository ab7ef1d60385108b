# liba3 in TLA+

liba3 is a C/C++ library of data structures: a lock-free queue, a hash table, a
cache, a buffer, intrusive lists, a pool, reference counts, a vector, strings,
a log. This directory holds TLA+ models of its components, the configurations
TLC checks them with, and proofs checked by TLAPS. Paths below are relative to
the root of the repository; headers are in `src/include/a3/`.

## 1. Inventory

| Component | Source | State | Operations | Status |
|---|---|---|---|---|
| SPMC queue | `src/spmc.c`, `spmc.h` | ring `data`, atomic counters `head`, `end` | `try_enqueue`, `enqueue` (one producer), `try_dequeue`, `dequeue` (many consumers), `destroy` | modelled, proved |
| Hash table | `ht.h` | `entries`, `cap`, `size`, `can_grow`, `duplicate_cb` | INSERT (INSERT_AT, GROW, RESIZE), FIND, DELETE, SET_DUPLICATE_CB, FOR_EACH, DESTROY | modelled, proved |
| Cache | `cache.h` | a hash table, `accessed` bits, `eviction_index` | FIND, INSERT, EVICT, CLEAR, DESTROY | modelled, proved |
| Buffer | `src/buffer.c`, `buffer.h` | `data`, `head`, `tail`, `max_cap` | writes, formatted writes, reads, tokens, `ensure_cap`, `compact`, `reset`, `destroy` | modelled, proved |
| Singly-linked list | `sll.h` | `head`, `end`, links | PUSH, POP, ENQUEUE (FIXUP), INSERT_AFTER, REMOVE, FOR_EACH | modelled, proved |
| Doubly-linked list | `ll.h` | `head`, end node, links both ways | PUSH, POP, ENQUEUE, INSERT_BEFORE/AFTER, REMOVE, FOR_EACH(_REV) | modelled, proved |
| Pool | `src/pool.c`, `pool.h` | slots, free list | `alloc_block`, `free_block`, `free`, callbacks | modelled, proved |
| Reference counts | `rc.h`, `rc.hh` | a count per object, pointers | REF, UNREF, `Rc` copy, move, assignment, `adopt` | modelled, proved |
| Vector | `src/vec.c`, `vec.h` | `cap`, `len`, `buf` | `reserve`, push, pop, `destroy` (CLEAR), FOR_EACH | modelled, proved |
| Strings | `src/str.c`, `str.h`, `src/shim/memmem/` | a pointer and a length | `alloc`, `realloc`, `clone`, `copy`, `concat`, `itoa_into`, `cmp`, `rchr`, `memmem`, ... | modelled, proved |
| Log | `src/log.c`, `log.h` | output stream, level | `init`, `log` | not modelled, see 7 |
| Priority queue | `pq.h` | a heap | | not modelled, see 7 |
| Options, errors, shims, macros | `option.hh`, `error.hh`, `util.*`, `src/shim/` | none | | not modelled, see 7 |

**Interactions.** The cache is a hash table of fixed size plus marks: it calls
INSERT, FIND_INDEX and DELETE_INDEX and reads the table's slots. Buffers and
hash-table keys are strings. The pool can be the allocator of reference-counted
classes. The SPMC queue is the only component meant for several threads; every
other structure has one owner at a time, and its callbacks (duplicate,
eviction, pool init and free) run inside the call; a
callback that calls the structure again is not modelled.

**What is hard.** In the queue, the interleaving of atomic operations with old
values of the counters, blocking on both sides, and tickets taken before they
are published. In the hash table, long sequences of calls: displacement on
insertion, back-shift on deletion, growth, searches that stop early because
they rely on the order the others keep. In the cache, marks that belong to
slots while entries move. In the buffer, two indices that reads, tokens,
compaction and growth move in turn. In the vector and the strings, a buffer that
moves and lengths that are off by one. In loops, a body that changes what the
loop runs over. In reference counts, destructors inside an assignment.
`PROJECT.json` lists the hazards with their
lines.

**What makes each correct.** The queue: it is a bounded FIFO. The hash table: it
is a map, and refuses an insertion only when it has to. The cache: it holds at most its capacity, never evicts what was used
last, gives its callback exactly what leaves, never panics. The buffer: it is a
byte stream of bounded length. The lists: they are sequences. The pool: each
block has one owner. Reference counts: the count is the number of pointers. The
vector: it is a sequence, and reserved room stays. Strings: what is written stays
in the string, a NUL follows it, searches and comparisons agree with each other.
Loops: what stays gets its turn.

## 2. The modules

| Module | What it is |
|---|---|
| `FifoQueue` | abstract: a bounded FIFO with blocking and failing operations |
| `Spmc` | the queue, one action per atomic operation |
| `SpmcProofs` | the proofs about `Spmc`, and that it implements `FifoQueue` |
| `Dictionary` | abstract: a partial map whose insertion is a call and a return |
| `HashTable` | the hash table, one action per iteration of INSERT_AT |
| `HashTableProofs` | the proofs about `HashTable` and its loops, and that it implements `Dictionary` |
| `HashTableEach` | FOR_EACH over a table that its body changes; extends `HashTable` |
| `BoundedMap` | abstract: a map of bounded size that gives up a key only to make room |
| `Cache` | the cache; extends `HashTable` and uses its actions |
| `CacheProofs` | the proofs about `Cache`, over those about `HashTable`, and that it implements `BoundedMap` |
| `ByteStream` | abstract: a bounded stream of bytes |
| `Buffer` | the buffer |
| `BufferProofs` | the proofs about `Buffer`, and that it implements `ByteStream` |
| `Lists` | what the lists and the pool share: following links, loops |
| `ListProofs` | lemmas about what links spell |
| `SinglyLinked`, `DoublyLinked` | the lists |
| `Vec` | the vector |
| `Containers` | both lists and the vector side by side, one of which a behaviour uses |
| `SequenceProofs` | the proofs about both lists and the vector, and about `Containers` |
| `Strings` | the strings |
| `StringProofs` | the proofs about `Strings` |
| `Pool` | the pool and its free list; extends `Lists`, whose nodes are its blocks |
| `RefCount` | reference-counted objects from a pool; extends `Pool` and uses its actions |
| `RefCountProofs` | the proofs about `RefCount` and its pool |
| `MCSpmc`, `MCHashTable`, `MCCache`, `MCRefCount` | instances for TLC |
| `MCBytes` | an instance of the buffer, after which the client may go on with one of the strings |
| `MCCollections` | an instance of `Containers` and of `HashTableEach`, one of which a behaviour uses |

Definitions named `X_Something` with the comment "Mutant" are `X` with a
plausible bug. No specification uses them; putting one in the place of `X` must
make TLC report the property it is listed with in `PROJECT.json`, which shows
that the property can fail.

### Spmc

`head`, `end` and `data` are the queue's fields. `ppc`, `elem` are the producer's
place and argument, `cpc`, `ticket`, `seen`, `tries` a consumer's place and
locals. Each atomic operation is an action; a spin is an action that is enabled
when its condition lets it leave the loop. `sent` is history: the elements
stored so far, by ticket.

*Memory order.* The code loads `head` and `end` with relaxed or acquire order. A
plain load by another thread returns any value the counter has had
(`HasRoom`, `MayLookFull`, `TryDequeue`, `LoadHead`, `SpinEnds`);
read-modify-write operations read the newest. This allows more than the memory
model does (two loads by one thread may go back in time), so what is shown holds
for the code. A load of a slot by the producer may return the element the
producer itself stored there before, which makes `TrySlot` fail spuriously.
Left out: the wrap of the counters, and NULL as an element (NULL marks an empty
slot). Between `ppc = "store"` and `"publish"` the slot is written and `end`
not, as in the code.

*Refinement.* `FifoQueue`'s buffer is the slots from `head` to `end`; its waiting
consumers are those with tickets from `end` on, in the order of their tickets;
what it has assigned to a consumer is in the slot of that consumer's ticket.

### HashTable

An entry is a key and a value. The hash is the function `raw`, chosen in `Init`
(so all collisions are tried) and fixed; a raw hash of 0 becomes 1 as in
A3_HT_HASH; 0 marks an empty slot, here `Vacant`. `Insert` does what
A3_HT_INSERT does up to the call of INSERT_AT, `Place`, `Duplicate`, `Displace`
and `PassOver` are the four outcomes of an iteration. A resize reinserts the
entries one by one: they wait in `todo`. Searches and the back-shift are
operators that say where their loops stop. `MaxCap` keeps a table from growing
without end: an insertion that would grow it beyond is not made.

`RobinHood` is the order displacement keeps; `StoredIsFound` is what the early
exit of the search needs of it. `LoopsEnd` and `SizeCovers` together are
why INSERT_AT ends (it always meets an empty slot or its key) and why
DELETE_INDEX does.

*Refinement.* `ImplementsDictionary` maps the table, with the entry in hand and those to
come, to a map; a step inside an insertion is a stutter, and `Destroy` empties the map. A
table that was destroyed may be made again (`New`). `Dictionary` has a step for each
outcome of a call and no other. The insertion of a key that is present changes nothing
when no callback is set: that is what the code does and `test/ht.cc:136` expects, and the run
`ht_duplicate` shows that `ht.h:141` says something else. A refusal needs a table that may not grow
(`fixed`) and whose places are used up by the insertions let in, less the deletions that
found their key (`spent`). The code counts duplicates as well, so this
is not the number of keys (see "Also seen"), but no other refusal is a step of `Dictionary`.

### HashTableEach

FOR_EACH keeps the index of its entry and nothing else. `each` is the index, and as
history the entries that were there when the loop began and have had (`had`) or
have not had (`due`) their turn. Its body calls INSERT and DELETE, whose
displacements and back-shifts move entries past the index. `EachMissesOnePerChange`
says how bad it gets: with no change, every entry once; with each change at most one
more is missed and one more met again. Growth inside a loop is left out: it frees
the entries the loop points to.

### Cache

`InitCap` is the cache's capacity, a multiple of `Block` (64 in the code).
`cpc` is where the call is: `first` and `second` are the two insertions, during
which the table's own actions run. `accessed` holds the marks, `hand` is
`eviction_index`. EVICT is one step: the search for a victim touches nothing but
the hand. CLEAR is one step per slot. DESTROY drops the entries without calling
the callback, as the code does. `owed` and `latest` are history.
`Reinserts` says whether callers insert keys that are present.

*Refinement.* `BoundedMap` is what a caller sees: `CacheMap` is the table's map without the
key that is being inserted, which is in it when INSERT returns; `CacheCall` joins `first`
and `evict` (nothing has been given up yet) and `again` and `second`. FIND answers from that
map, an INSERT gives up at most one key, only when the map holds `InitCap` of them and never the
one found or inserted last, and `owed` shows that the callback is given exactly what leaves. The
steps of INSERT_AT are stutters. CLEAR may keep keys, as the code's does.

### Buffer

`buf` is `data`, `head` and `tail`; the inline helpers of `buffer.h` are functions
from buffer to buffer and a call composes them as the code does. Only formatted
output takes several steps: each round of its loop, with what the truncated
`vsnprintf` leaves behind, is `FormatRound`. An assertion that fails sets `life`
to `"aborted"` and everything stops. Bytes are two values, one of which is both
the delimiter and the newline; memory a reallocation adds is `Junk`. `token` is
history: a token that was returned, dropped at the next write. Callers read no
more than there is. `realloc` and `calloc` succeed. `Destroy` zeroes the buffer and
`New` starts again; a buffer overlaid on memory of the caller is left out.

### SinglyLinked and DoublyLinked

A link is a place that holds a pointer; a pointer to a link, such as `end` of
`sll.h` or `prev` of `ll.h`, is the place it points at. `HeadField` is the place of
the list's own head. In `ll.h` the head and `dummy_` are laid out like the link of a
node (A3LLErasedLink_), so `HeadField` has a next and a prev as nodes have. One
action is one macro. `sitems` and `litems` are history: the sequence the calls
promise, computed from the calls alone; `SllIsSequence` and `LlIsSequence` say that
the links are that sequence. `sloop` and `lloop` are a FOR_EACH in progress, with
the element it has read ahead; between its steps the body makes any calls but the
removal of that element. `Chain` cuts a walk after as many nodes as there are, so
that a circle shows as a last link that is not NULL. `SllIsSequence` also says that
FIXUP leads from `end` to the last link, however far `end` has stayed behind.

A node outside the list is its owner's: `SllReuse` and `LlReuse` overwrite its links at
any time, as a new use or a deallocation would. In `sll.h` the node may be one that `end` still
leads through, which nothing there forbids. `astray` remembers that this has happened since `end` was
last set to a place in the list. FIXUP then follows links that belong to somebody else: ENQUEUE may link its
element elsewhere, in which case it is not in the list and not in `sitems` either, or never
return, which is not a step (`FixupStops`). What links do as they should whatever the owners do, the
first two conjuncts of `SllIsSequence`, holds nevertheless; what is said of `end` holds
while it is not astray; and that ENQUEUE appends (`EnqueueAppends`) fails in the run `sll_reuse`.

### Vec

`vec.block` tells one buffer from the next, `freed` says that destroy has freed it and
left the pointer. A fresh buffer holds `Junk`. The doubling loop of `reserve` is a
function of the capacity it has come to; `VecSpin` is the call that never returns,
because 0 is doubled. `vitems` and `vroom` are history: the elements, and the pushes for
which room was reserved. `VecTroubleOnlyAfterClear` says that the endless loop and
the second free come only after destroy, which A3_VEC_CLEAR is another name of.

### Strings

`mem` is one block as `a3_string_alloc` makes it, with the NUL after the string, and one
byte more that is somebody else's; `str` is the client's view of it. Bytes are
numbers. What a call writes is a function of the memory, the view and the arguments, so
that properties can ask of every state what the call would do. `cut` remembers
that `itoa_into` was given a string too short by one, which overwrites the NUL. `Rests` is
what its loop has left of the number after each round; `ItoaReadsBack` reads the digits as
a person would (`Reading`) and compares. `NumDigits` is the number of rounds of that
loop when there is room for every digit. `a3_string_itoa` takes a logarithm instead, of a
double: just below a large power of ten (`Rounded`) it is one more (`Log10Digits`), and the block a
byte longer than the digits. `Rchr` and `FirstPlace` say where the loops of `rchr` and of the two
`memmem` stop, not how they go there.

`AnswersAgree` is about the searches of a platform that has `memmem`, and about `rchr` of strings that are not
empty: each finds what it promises, and for a single byte they find it both or neither. It is also about
`cmp`, `cmpi`, `operator==` and the bytes that are hashed, with NUL bytes inside the strings: a
comparison ends at the first of them. `MemmemFinds` is about the `memmem` for other platforms and fails.

### Pool and RefCount

`plink` is the free list, by block. The blocks are the nodes of a list, and the link of
`FreeHead` is the pool's field `free`. The callbacks are in the model by what they do to a block: that of
`new` initialises every block but the last, that of `free` gets every block of the free list (`"given up"`),
and `GivenUpTogether` says that these are all blocks and that the pool is gone then. A pointer (`Rc`) is a local variable or the member of an object, and is
named by the object then. `todo` is the stack of destructors and the assignment
that are in progress: `DoUnref` and `DoDelete` are A3_UNREF_D, `~Rc` of the member and
`operator delete`. The source of an assignment is any pointer the client can get at
(`Reachable`), also one that belongs to the object the assignment drops; the
code reads it after that (`rc.hh:91`), which sets `life` to `"freed read"`. `Held` says
which sources are kept from elsewhere than the pointer that is assigned to (`Kept`): the client's own
pointers, and members of objects in a set each of which a pointer of the client or of the set
points at. `RcSafeWhenHeld` says that for those it
never happens. The move assignment has no return statement (`rc.hh:105`):
the program goes on or is `"undefined"`, and then stops.

## 3. The runs

| Run | What it shows | Bounds |
|---|---|---|
| `spmc` | every interleaving keeps the type invariant, one holder per ticket, the right element at the exchange, no overwriting, no wait without a partner, the inductive invariant, and implements `FifoQueue`; a published ticket is served, and an enqueue that saw room completes | 2 consumers, 2 elements, 2 slots, 2 tries, 3 elements sent |
| `ht` | probe order, early exit, the ends of the loops, `size` never too small, and `ImplementsDictionary` | 4 slots that grow to 8 or are fixed, load factor 70, 4 keys, 2 values, hashes 0, 3, 7 |
| `ht_duplicate` | **fails**: a duplicate is not replaced | as `ht` |
| `cache` | no panic, marks leave a choice, the callback gets what leaves, and `BoundedMap` is implemented: only a full cache gives up a key, one for each that comes, and not the one used last | 4 slots in 2 blocks, 5 keys |
| `cache_liveness` | every call returns or panics | 2 slots, 3 keys, keys inserted again |
| `cache_reinsert` | **fails**: inserting a present key can panic | as `cache`, keys inserted again |
| `collections` | lists and vector are sequences, FIXUP finds the last link unless `end` is astray, loops miss nothing, reserved room stays; a change in a loop over a table costs at most one entry its turn | 4 nodes; 5 elements (`MaxLen`), capacities 0 and 2, room for 0, 1 and 3; 4 slots, 4 keys, 3 changes in a loop, runs round the end |
| `sll_reuse` | **fails**: ENQUEUE does not append once a node under `end` was reused | as `collections` |
| `bytes` | each call of the buffer is that of `ByteStream`, tokens stay intact, formatted output ends; views of strings end in the block with a NUL, writes stay in the view, `concat`, numbers, searches and comparisons come out right | 3 bytes growing to 5, strings of 1 to 3 bytes; blocks of 3 bytes (`MaxSize`), texts of 0 and 2 bytes, one with a NUL inside, numbers 0, 10 (which stands for those rounded up) and 100 |
| `buffer_ensure_cap` | **fails**: true without the room asked for | as `bytes` |
| `strings_memmem` | **fails**: a needle at the end is not found | as `bytes` |
| `refcount` | counts are the numbers of pointers, no assertion fails, sources kept from elsewhere are never read freed, the pool loses and doubles no block and gives its callback all or none | 3 blocks, 3 local and 3 member pointers |

*Why these bounds are enough.* Three elements on two slots make the ring wrap, fill
and run empty; two consumers race for one ticket, and can hold tickets of different
rounds of one slot while the producer waits for it; the loop of `try_dequeue`
gives up at 2 tries as it does at 5. The theorems hold for every number of consumers. With 4 slots and hashes
3 and 7 every insertion after the first collides and wraps round the end, with 8 slots 7 still
wraps; four keys force a resize and, with the duplicates that count, a fixed table to its refusal. Two blocks let
one fill while the other does not, five keys exceed the capacity by one. Three
bytes growing to five give growth, compaction and refusal a case each with data
in front of `head`. Four nodes give a list a first, a
last and an inner element and one node outside, and let `end` lag two elements
behind. Five elements take a vector of capacity 2 through two doublings, and one of
capacity 0 through its first allocation. Numbers of one to three digits are shorter,
as long as, and longer by one and by more than strings of 0 to 3 bytes. Four slots
with homes 0, 2 and 3 hold runs that go round the end of a table being looped
over. Three objects make a chain, a circle and an exhausted pool.

In `bytes` and `collections` several components share a run. A behaviour of `collections`
chooses one in its first state. One of `bytes` begins with the buffer and may go on with strings when that is
destroyed. No component sees the variables of another.

*Symmetry* is used in runs without liveness, over values no definition
distinguishes.

*Fairness.* Of the queue: weak fairness of every step of a call in progress and
none of making calls. Threads the scheduler runs take their next instruction,
and a load that is repeated for ever sees the latest value in the end. That a
blocking enqueue sees *room* is not claimed: consumers may never come. Of the
cache and the buffer: weak fairness of the steps inside a call, since one
running thread executes it.

*Deadlock* is checked in every run but these: `spmc` (the producer stops
after `MaxSent` elements and consumers may block for ever), `cache_liveness`, those of
`MCBytes` and `refcount` (a panic, an assertion, undefined behaviour or the return of
the pool ends the program). A vector call that never returns is a step that
repeats.

## 4. What the failing runs say

* `cache_reinsert`. A3_CACHE_INSERT takes "present" for "full" (`cache.h:166`) and
  reaches the panic of `cache.h:151` ("This shouldn't be possible.").
* `buffer_ensure_cap`. Growing keeps the gap before `head` (`buffer.h:174`) and then
  returns true with too little room, against `buffer.h:158`. The next step of
  `write_str` fails the assertion of `wrote`.
* `ht_duplicate`. An insertion of a present key without a callback keeps the old value
  (`ht.h:242`), as the test `duplicate_reject` expects (`test/ht.cc:136`), while `ht.h:141` says that
  duplicates are replaced.
* `sll_reuse`. INSERT_AFTER the last element leaves `end` at its link, and
  POP and REMOVE can then take that element out without moving `end` (`sll.h:81`, `sll.h:102`). When its owner
  reuses or frees it, as `test/sll.cc` does with what it removed, the next ENQUEUE follows
  `end` into it and the new element is not in the list, against `sll.h:127`. No test of the repository makes
  that sequence of calls.
* `strings_memmem`. The `memmem` for platforms without one never compares the last place
  (`src/shim/memmem/missing.c:22`), against `str.h:268`.

Also seen while modelling; the models contain each of these, and the properties
say what still holds.

* *Hash table.* A3_HT_INSERT counts before it knows whether the key is present
  (`ht.h:365`), so the size drifts up with every duplicate, against `ht.h:173`;
  `SizeCovers` shows the error is on the safe side: the table grows or refuses early,
  and never fills up unnoticed.
* *Cache.* CLEAR skips the entry each deletion shifts into the slot it has just
  emptied, so a cleared cache may still hold entries. DESTROY never calls the
  callback.
* *Vector.* After A3_VEC_CLEAR a push doubles 0 for ever (`vec.c:72`) and a second
  destroy frees twice. `a3_vec_first` returns the buffer of an empty vector,
  against `vec.h:50`. A3_VEC_INIT_WITH_CAPACITY ignores its capacity (`vec.h:65`). A push
  beyond the reserved room in the body of FOR_EACH leaves the loop in freed memory
  (`vec.h:95`).
* *Strings.* `itoa_into` may take one byte more than the string has (`str.c:100`). `cmp` of
  strings of different lengths is -1 both ways, against `str.h:249`. `rchr` of an empty
  string searches the memory before it (`str.c:138`). Strings that
  `operator==` calls equal may hash differently if there is a NUL in them
  (`str.h:275`, `str.h:286`).
* *Pool.* The init callback does not see the last block (`pool.c:57`), which the free callback
  gets all the same (`pool.c:94`).
* *Reference counts.* `n->next = n->next->next` may free its source before it reads it
  (`rc.hh:91`, `rc.hh:102`). The move assignment returns nothing (`rc.hh:105`).
* *Queue.* `destroy` of a queue that holds elements, or whose consumers took tickets in
  vain, fails its assertion (`spmc.c:41`); `Destroy` has both outcomes, and no document
  promises either.
* *Log* (not modelled). The test for a log that was never initialised looks at the
  level of the message, not at that of the log (`log_internal.h:42`), so the first message
  before `a3_log_init` is printed to a null stream.

## 5. What is proved

Every theorem is of the specification that TLC runs, for all values of the constants
that satisfy the ASSUMEs of the modules: any number of consumers, slots, keys,
nodes, blocks and elements, any hash function, any load factor, any capacity.
The assumptions say that capacities are positive where the code divides by them and that
the values standing for NULL or for nothing are different from the others. Each invariant
below was first checked by TLC on the instance of the component's run.

| Module | Theorem | Statement |
|---|---|---|
| `SpmcProofs` | `TypeCorrect` | `Spec => []TypeOK` |
| | `Invariance` | `Spec => []IInv` |
| | `TicketsCorrect` | `Spec => []TicketsHeldOnce` |
| | `StoreIsSafe` | `Spec => []NoOverwrite` |
| | `ExchangeIsRight` | `Spec => []HolderFindsItsElement` |
| | `WaitsAreMet` | `Spec => []WaitIsForSomeone` |
| | `Refinement` | `Spec => ImplementsFifo` |
| `HashTableProofs` | `TableInvariant` | `Spec => []HInv` |
| | `TableTypes` | `Spec => []TypeOK` |
| | `TableIsRobinHood` | `Spec => []RobinHood` |
| | `TableFinds` | `Spec => []StoredIsFound` |
| | `TableLoopsEnd` | `Spec => []LoopsEnd` |
| | `TableSizeCovers` | `Spec => []SizeCovers` |
| | `TableIsADictionary` | `Spec => ImplementsDictionary` |
| | `TableInsertionsShorten` | `Spec => [][InsertStep => ... RoundsLeft' < RoundsLeft]_vars` |
| | `TableInsertionsBounded` | `Spec => [](RoundsLeft <= (Len(todo) + 1) * cap)` |
| | `EachMissesFew` | `EachSpec => []EachMissesOnePerChange` (**) |
| `CacheProofs` | `CacheHasAChoice` | `CacheSpec => []MarksLeaveAChoice` |
| | `CacheInvariant` | `CacheSpec => []CInv` (*) |
| | `CacheNeverPanics` | `CacheSpec => []NeverPanics` (*) |
| | `CacheSparesLatest` | `CacheSpec => [][Evict => entries[Victim].key # latest]_cvars` (*) |
| | `CacheCallbackGetsWhatLeaves` | `CacheSpec => []CallbackGetsWhatLeaves` (*) |
| | `CacheIsABoundedMap` | `CacheSpec => ImplementsBoundedMap` (*) |
| | `CacheCallsShorten` | `CacheSpec => [][CallStep => ... StepsLeft' < StepsLeft]_cvars` |
| `BufferProofs` | `BufferInvariant` | `Spec => []BInv` |
| | `BufferStaysInBounds` | `Spec => []TypeOK` |
| | `BufferKeepsTokens` | `Spec => []TokenIntact` |
| | `BufferIsAByteStream` | `Spec => ImplementsByteStream` |
| | `BufferFormatShortens` | `Spec => [][FormatRound => ... FormatRoundsLeft' < FormatRoundsLeft]_vars` |
| `SequenceProofs` | `DoublyLinkedInvariant` | `LlSpec => []LlInv` |
| | `DoublyLinkedTypes` | `LlSpec => []LlTypeOK` |
| | `DoublyLinkedIsSequence` | `LlSpec => []LlIsSequence` |
| | `DoublyLinkedLoops` | `LlSpec => []LlLoopMissesNothing` |
| | `SinglyLinkedInvariant` | `SllSpec => []SllInv` |
| | `SinglyLinkedTypes` | `SllSpec => []SllTypeOK` |
| | `SinglyLinkedIsSequence` | `SllSpec => []SllIsSequence` |
| | `SinglyLinkedLoops` | `SllSpec => []SllLoopMissesNothing` |
| | `VecInvariant` | `VecSpec => []VecInv` |
| | `VectorIsSequence` | `VecSpec => []VecIsSequence` |
| | `ReservedRoomHolds` | `VecSpec => VecRoomHolds` |
| | `TroubleOnlyAfterClear` | `VecSpec => []VecTroubleOnlyAfterClear` |
| | `SequencesInvariant` | `SeqSpec => []AllInv` |
| | `SequencesTypes` | `SeqSpec => []TypesOK` |
| | `NoLoopMisses` | `SeqSpec => []LoopsMissNothing` |
| `StringProofs` | `StringInvariant` | `StrSpec => []StrInv` |
| | `StringsInTheirBlock` | `StrSpec => []StrInBlock` |
| | `WritesKeepToTheView` | `StrSpec => WritesStayInView` |
| | `ConcatFits` | `StrSpec => []ConcatTakesWhatFits` |
| | `AnswersAlwaysAgree` | `StrSpec => []AnswersAgree` |
| | `NumbersReadBack` | `StrSpec => []ItoaReadsBack` |
| `RefCountProofs` | `RcInvariant` | `Spec => []RcInv` |
| | `PoolLosesNothing` | `Spec => []FreeListIsSound` |
| | `CountsArePointers` | `Spec => []CountIsPointers` |
| | `HeldIsSafe` | `Spec => []RcSafeWhenHeld` |

(*) for callers that insert absent keys only (`~Reinserts`). The assumption is not a
weakness of the proof: the run `cache_reinsert` shows that without it the cache panics.

(**) for a table that does not grow (`MaxCap < 2 * InitCap`): growth under a loop frees the
entries it points to, which the model leaves out.

### The arguments

*Queue.* None of the four properties is inductive: whether the producer may
store depends on which consumers still hold tickets of the previous round. Call a
ticket unconsumed if nobody has taken it or its holder has not emptied its slot.
`IInv` says that the unconsumed tickets below `Len(sent)` lie in a window of `Cap`
(`RingHoldsUnconsumed`), so that no two of them share a slot, and that each has its
element in its slot; and that a slot that is not empty belongs to one of them
(`FilledIsUnconsumed`). With the order of the counters (`Counters`) this is
inductive. The arithmetic of the ring, that tickets less than `Cap` apart have
different slots, is a lemma stated once. Steps that leave the ring alone share two
frame lemmas, for the producer and for the consumers; the three steps that
matter, taking a ticket, storing, and the exchange, have lemmas of their own. For the
refinement every step of a thread is shown to be a step of `FifoQueue` or to leave it as
it is, under `IInv`: publishing adds an element, or gives it to the consumer
that has waited longest; taking a ticket takes one, or begins a wait.

*Hash table.* `RobinHood` and `StoredIsFound` speak of tables at rest; between two
iterations of INSERT_AT an entry is in hand. `HInv` has these parts: on the
way back from an entry to its home every slot is taken, by an entry at least as far from
its own home as what is left of the way (`Ordered`); a key is stored once (`KeysOnce`); some entry
is at its home or some slot is vacant (`SomeHome`), which is what stops the back-shift; the
entry in hand has passed only entries that order allows it to pass (`CarryOrdered`);
there is room for what is in hand (`Room`), and `size` counts at least what is stored and in
hand. Distances modulo the capacity have a group of lemmas, insertion of one
entry another, and the back-shift a third, which shows that shifting the run after the
deleted entry keeps the order, because the run ends before an entry at its home. All of
these are about any table, so they serve the state before and after a step.
`TableFinds` follows from the order alone, `TableLoopsEnd` from `SomeHome` and `Room`. That
the table is a map needs in addition (`RInv`) that no key is in hand and stored
at once, but for the one INSERT was called with. The set of entries in the table and in
hand is then a map, an iteration of INSERT_AT and a resize leave that map alone, and the other
steps do to it what `Dictionary` does.

*Loops over the table.* At rest the property says all there is to say; during an insertion
`EachInv` counts the entry in hand as being at the slot INSERT_AT has come to. An iteration
then moves one entry by one slot (`MovesOn`), which takes it past the loop's place or over the end
of the table at most once in an insertion: to come there again INSERT_AT would have to go all
the way round over taken slots, and `Room` leaves one free. So as long as the slots
from the one in hand to that place are all taken (`GoesPast`, `GoesRound`), the insertion has
not used up what its change allows (`Allowed`). A back-shift brings one entry back past the loop and one
over the end (`ShiftCounts`), and the loop's own advance passes no entry (`AtCounts`).

*Cache.* `MInv`, which needs no assumption, is the table's `HInv`, where a call may be and
what its insertion has in hand, and that marks are on stored entries with no block wholly
marked: marking clears the block first when it would be full. `CInv` adds that the key in
hand is new, that `size` is exact (a duplicate makes it drift, but callers insert absent keys),
that the entry used last is marked, and what the callback is still owed. Which keys an
insertion in progress will have put in comes from the table's refinement lemmas. A full cache then has an
unmarked entry, the eviction finds one, and the second insertion cannot be refused.

The refinement needs one thing more (`ShownInv`): an insertion that has succeeded has put in the
value it was given. The steps are then taken one by one under `ShownInv`. Those of INSERT_AT change
nothing a caller sees, because what they move is the entry that is hidden or entries that stay; the
return of INSERT shows it. That an INSERT refused without room is one of a full map comes from
`size` being exact, and the victim is not the last one used because that is marked.

*Buffer.* `BInv` is `TypeOK`, that `head <= tail` lie in the block, and that the token
returned last is as it was, in the part of the block that has been read (`TokenIsRead`), which
no read and no later token touches. Growth, compaction and reset are lemmas: they keep the
contents, and growth is refused only for want of `max_cap`. The refinement maps the buffer to
its contents; the formatting loop is a stutter until the text fits. `CallsAsPromised` is proved call by
call: each is the step of `ByteStream` of its name, with its answer, so that a write is refused when
its bytes do not fit under `max_cap` and at no other time. Strings and bytes are
arbitrary, except for the delimiter and the newline.

*Loops that have no bound of their own.* Three loops of the code run until something happens.
For each a number is given that every step lowers, so that none can go on for ever. INSERT_AT
runs until it meets a vacant slot or its key: `RoundsLeft` is the distance from the slot it has
come to to the nearest vacant one (`Nearest`), which a displacement does not fill, and a round of the table
for every entry a resize has still to insert. A call of the cache is two insertions with an eviction
between them, or a round of the slots: `StepsLeft` adds that up, and since it needs `MInv` alone it
holds for callers that insert present keys too. `write_vfmt` repeats until its output fits or
`ensure_cap` refuses: `FormatRoundsLeft` is three at most, because the room
`ensure_cap` reports may be in two pieces once, after growth, and is in one piece after compaction.

*Lists.* `ListProofs` shows what `Chain` computes. Its value is fixed by the links
alone (`Spells`), and existence of the function that walks a chain is by a
least-number argument on the length. A list in `LlInv` has
links forth and back that agree at every place from the head to the end node; the loop's
read-ahead element is in the list and nothing that is due is behind it. Each of the five
insertions and the removal is one lemma about a sequence with an element put in or left
out. `SllInv` has the links forth only, and about `end`: nodes that have left can
be ranked so that following links from `end` goes down through them into the list
(`Leads`), unless `end` is `astray`. A removal gives the node that leaves the next rank. The reuse of a
node that `end` does not lead through leaves the ranks alone; that of one it leads through
sets `astray`. A call that sets `end` to a node of the list starts the ranks afresh, and there `astray` may end.

`Containers` puts the two lists and the vector side by side; its client uses one of them. `AllInv`
is the three invariants together, and a step of one leaves the others alone.

*Vector.* `VecInv`: the first `len` slots are the elements, the promised room is left, and a
buffer has no slots only when there is none or when it was freed. That the doubling
loop ends and gives enough (`LoopEnds`, `LoopIsEnough`) is shown by the least capacity for
which it would not. A loop that does not end then needs a freed buffer.

*Strings.* `StrInBlock` alone does not carry over a call: `StrInv` adds that every byte but the
last is a byte, and that a view may cover the last place only when that has become a byte
too. Each call is shown to write bytes, and only where it may (`Writes`). For the answers, one
lemma says what decides a comparison: the first place at which the strings
differ, if no NUL comes before it (`Decides`). It is the same place whichever string comes
first, and the same for lowered strings. For the digits, `k` of them and what is left after
the other rounds make what was left before (`DigitsMakeNumber`); a tenth of the number bounds how
many there are (`DigitsEnd`).

*Pool and reference counts.* During a call the counts are not the numbers of pointers:
a reference dropped is in no pointer and not yet uncounted, an object that is being
destroyed is out of the pool with a count of 0. `RcInv` describes the stack `todo`:
at most one dropped reference, on top; below it destructors of distinct objects; at the bottom the assignment.
Each count is the number of pointers, plus one for the dropped reference, the pointer that
an assignment is about to overwrite (`Stale`) left out; every object that is out has a
reference or waits on the stack. Cardinalities change by one pointer at a time. The pool's part
(`PoolInv`) uses `ListProofs`: the free list spells exactly the blocks that are not out.

### Model-checked only

* Liveness: `DequeueServed`, `EnqueueCompletes`, `CallsReturn`, `FormatEnds`. Weak fairness is
  about ENABLED, which the prover does not support. Of `CallsReturn` and `FormatEnds` one half is
  proved: the steps of a call lower a natural number, so there are finitely many of them. That there
  always is a next one while the call is in progress, and that fairness makes it happen, is
  left to TLC.

No module declares a recursive operator, so that each can be proved about. Where a recursive
function has to be shown to exist and to be right (`Chain`, `Doubled`, `Rests`), the
least-number principle takes the place of induction (`UpTo`, `Recursion` in `StringProofs`).

## 6. Plan

1. Done: `Spmc` with `FifoQueue`; `HashTable` with `Dictionary`, `HashTableEach`; `Cache`
   over `HashTable`; `Buffer` with `ByteStream`; `SinglyLinked`, `DoublyLinked`, `Vec`;
   `Strings`; `Pool` and `RefCount`; the proofs listed above.
2. Every safety property that a run checks is now a theorem. Left: that the calls of
   the queue, the cache and the buffer end, which needs a prover that supports ENABLED.

## 7. Not modelled

* *Log*: two globals, each written by one function, and formatted output. No sequence of
  calls does anything that a single call does not.
* *Priority queue*: `pq.h` is a sketch that no test uses and that does not compile as it
  stands, so there is no behaviour to be faithful to.
* *Options and errors*: `option.hh` adds stateless functions to `std::optional`; `error.hh`
  includes a header that is not in the repository and cannot be compiled.
* *Utilities and shims*: macros and platform wrappers without state. The atomic operations
  are modelled where `spmc.c` uses them, the `memmem` of the shim in `Strings`.
* *Failing allocations*: `malloc`, `calloc` and `realloc` succeed in every model; only the
  pool runs out of blocks.
* *Widths*: the queue's counters and the table's size do not wrap; the reference count is
  taken modulo `Width`, which is larger than the number of pointers.
