# A TLA+ model of VeriFS2 (RefFS)

VeriFS2 is an in-memory file system that runs as a FUSE daemon and offers, next
to the usual operations, ioctls that save and bring back its whole state. The
modules here model the daemon, its command line and its client tools from the
source under `src/src/`, check them with TLC, and prove the most important of
their properties with TLAPS.

Source positions below are relative to `src/src/`.

## The system

| Part | Source | Module |
|---|---|---|
| Inode table: `Inodes`, `DeletedInodes`, `m_stbuf`, `m_nlookup` | `fuse_cpp_ramfs.hpp`, `inode.hpp`, `inode.cpp` | `FuseRamFs` |
| Namespace handlers: lookup, forget, mknod, mkdir, create, symlink, link, unlink, rmdir, rename | `fuse_cpp_ramfs.cpp` | `FuseRamFs`, against `NamespaceSpec` |
| Directories: entries, sizes, blocks | `directory.cpp` | `FuseRamFs` |
| Readdir: contexts, cookies, replies | `directory.cpp`, `fuse_cpp_ramfs.cpp` | `Readdir` |
| File contents: write, truncate, read, copies | `file.cpp`, `file.hpp` | `File`, against `FileSpec` |
| Attributes, times, access; open, release, flush, fsync | `inode.cpp`, `fuse_cpp_ramfs.cpp` | `Attributes` |
| Extended attributes | `inode.cpp` | `Xattr` |
| Checkpoint, restore, state pool | `fuse_cpp_ramfs.cpp`, `cr_util.cpp` | `Checkpoint` (extends `FuseRamFs`) |
| The session loop, kernel notifications | `main.cpp`, `fuse_cpp_ramfs.cpp` | `SessionLoop` |
| Pickle, load, state file; `pkl`, `load` | `pickle.cpp`, `pkl.cpp`, `load.cpp` | `Pickle` |
| The image of an inode in a state file | `pickle.cpp`, `Pickle` and `Load` of the inode classes | `InodeImage` |
| Command line | `util.cpp`, `main.cpp` | `Cmdline` |
| Linux VFS and FUSE module, `getdents`, `getopt` | external | in the module that needs them |

`NamespaceSpec` and `FileSpec` are abstract: they say what clients are promised
and translate no code. `MC...` modules give constants their values. Proofs are
in `FuseRamFsFacts`, `FuseRamFsTable` and `FuseRamFsProofs`, and in `FileProofs`,
`AttributesProofs`, `XattrProofs`, `SessionLoopProofs` and `PickleProofs`.

`main` runs `fuse_session_loop` (`main.cpp:85`), the loop with one thread. A
handler therefore runs to its end before the next request is read, the mutexes
in the code never make anyone wait, and one handler is one action. The
concurrency that remains is between the daemon and the kernel: a FORGET may
arrive long after the kernel decided to send it, and any request may come in
between.

## FuseRamFs

State:

| Variable | Code |
|---|---|
| `Inodes` | the table. Slot 0, a placeholder that `FuseInit` makes and that never has links, is left out; a `nullptr` slot is `NullInode` |
| `DeletedInodes` | the queue of slots for reuse |
| `f_bfree`, `f_ffree` | the free counts of `m_stbuf`; `f_bavail` and `f_favail` always change with them |
| `kref` | for each inode number, the lookups the kernel has been given and has not yet returned in a FORGET that was handled |
| `kdead` | the directories whose removal the kernel has seen |
| `reply` | the replies to the last request, oldest first |

An inode is a record of kind, link count, lookup count, size, blocks, entries
and `..`. Entries are a function from names to inode numbers: no operation
modelled here depends on the order of `m_children`. Unsigned counters wrap at
`Modulus` (2^64 in the program) through `Word`; `NumLinks` reads a wrapped count
as negative, as the `int` it returns does. Directory sizes use the sizes of the
C++ types of the usual 64-bit build: 24 bytes for the vector, 72 and the name
for an entry.

Each action is one handler. The operators `...Errno` are a handler's checks in
the order of the code. Allocation may fail wherever the code handles it: `new`
in `do_create_node`, `realloc` in write and truncate. Some details that are easy
to read past:

* A new directory is charged twice: `Directory::Initialize` goes through
  `UpdateSize`, and `RegisterInode` charges `UsedBlocks()` (`RegisterCharge`).
* The free blocks that `AddChild` sees in `do_create_node` are what is left
  after the new node was charged.
* `FileTruncate` returns `-ENOSPC`, which the handler passes on as it is;
  libfuse replaces a negative error value by `ERANGE`.
* `FuseSymlink` replies `ENOSPC` and goes on. libfuse frees a request with its
  reply, so what a second reply does is undefined: the model continues, and a
  daemon that dies there reaches no further state.

### What the kernel sends

The daemon relies on what the VFS checks before it sends a request, and so does
the model. These are the assumptions, all in the `Kernel*` predicates:

* a request names an inode number the kernel holds a lookup of, or the root;
* names are looked up, made and removed only in directories the kernel has not
  seen removed;
* the kernel holds a lookup of the inode whose entry it removes or replaces;
* unlink and link are not sent for directories;
* rename is not sent when both names are the same inode, nor to move a directory
  into itself or below itself. The second is judged on the daemon's tree.
  Where rename has lost an entry the kernel's own tree is larger, and it
  refuses more than the model does.

The kernel never forgets the root, and a FORGET returns at most the lookups
that were given.

### Bounds

`Name`, `Files` and `Blocks` are parameters of the system; `MknodKind`,
`LinkLen` and `FileLen` are the inputs that are tried. Three bounds keep the
state finite and stand in guards: `MaxLookup` (lookups of one inode held at
once), `MaxLinks` (links that `link` makes to one inode) and `MaxLeak` (blocks
missing from `f_bfree` that no inode has: every mkdir loses one, so without a
bound `f_bfree` counts down for ever). They restrict only what is explored: the
theorems hold for every value.

### NamespaceSpec

Objects with a kind, and entries that name them. A request makes, links, removes
or renames exactly the entry it is about, removes or replaces a directory only
when it is empty, or changes nothing; an object may vanish once it has no name.
`HandlersKeepPromise` maps each inode in the table to an object and each entry
but `.` and `..` to an entry. It is checked where no entry is lost: under
scarcity rename breaks it (`MCFuseRamFs_moved`).

## Readdir

`readdirStates` maps keys to contexts. A context has a copy of the children, an
iterator and the cookie of the entry sent last. A step of `FuseReadDir` is a whole
request: the context is found or made under any free key, entries are added
until 384 bytes (`kReadDirBufSize`) or 255 entries are reached, the iterator
steps back when one did not fit, `RecycleStates` frees all contexts that stand at
their end. `fuse_add_direntry` is modelled by the size it returns: 24 bytes and
the name, rounded up to 8.

`listing` is what clients did and got: with `WholeReplies` a client takes every
entry of a reply, otherwise `getdents` may take only the first few and asks again
at their offset. `own` says that a listing has had its context to itself so far:
its client took whole replies, their cookies stayed below the next key, and no
other client was answered from the context. A listing may be given up.
`AddChild`, `UpdateChild`, `RemoveChild` and `FuseRmdir` are what the other
handlers do to the children.

`Keys` and `Span` stand for 65536 keys of 65536 cookies; `MaxChanges`,
`MaxListings` and `MaxAbandoned` bound the changes and the listings that are begun
and given up. Fairness, in
`FairSpec`: a client that lists asks again until it gets an empty reply, which is
how `readdir` of the C library is used, and the session loop answers.

## File

One file: `m_buf`, `st_size` and `st_blocks`, with `f_bfree`, one checkpoint and
one state file. A buffer is a sequence of bytes with the length it was allocated
with. Bytes that `realloc` adds are arbitrary; the copy constructor allocates
`st_blocks` blocks and copies them; `Pickle` writes `st_size` bytes and `Load`
reads them into a zeroed buffer. Allocation may fail where the code handles it.

`FileSpec` is a file as a sequence of bytes: a write may leave a gap, which is
zero, a truncation cuts or pads with zeros, a request is refused without a
change, and copies are kept and brought back whole. `FileImplementsSpec` says that
the first `st_size` bytes of the buffer are such a file.

## Attributes

The attributes of one inode of each kind, with a clock that goes forward or
stands still between requests. `Incoming` is the request the kernel sends with its
mask `to_set`; `FuseSetAttr` applies it as the code does. What writes,
truncations, links and entries do is reduced to size, link count and times.
The contents are in `File`. `FuseAccess` is an action; no property is stated of its
reply, since what it should be the code itself leaves open (`inode.cpp:261`: "What
about other groups the user is in?").

## Xattr

`m_xattr` maps names to a pointer and a length; the heap maps addresses to
buffers. `SetXAttrAndReply` reallocates, possibly in place, possibly not, or fails
and leaves the empty attribute that `m_xattr[name]` has made by then. `checkpoint`
and `restore` copy pointers. A freed pointer may come to point to another buffer;
reallocating one ends the daemon. `expect` is the history the properties compare
with: for each name the value set last and the longest one, what each name of
the checkpoint read as when it was made, the names set since, and whether no
restore has come after such a set (`known`).

## Checkpoint

All actions of `FuseRamFs`, with the state pool (`insert_state`, `find_state`,
`remove_state`), `checkpoint` and `restore`. The pool holds copies of the table,
the queue and the free counts. After a restore the kernel still holds the
lookups it had (`kref`), while `m_nlookup` is that of the checkpoint: requests
may come for numbers that the restored table does not have.

## SessionLoop

Processes make calls; the kernel holds the lock of the directory during a call on
one of its entries, asks the daemon only when its dentry cache has no answer, and
enters the reply in the cache. The daemon takes one request after the other.
`restore` first notifies the kernel of each entry of the present tree, one step
each, and the kernel takes the lock of the directory to drop it; then the stored
state is put in place and the reply is sent.

Fairness, in `FairSpec`: the daemon goes on while it can (it has one thread and
nothing else to do), and a process that got its reply is scheduled. Nothing makes
a process ask.

## Pickle and InodeImage

`Pickle` has the daemon's state as tables, queue, counts and pool, the state
files, `/tmp/pickle.cfg` and processes that run `pkl` and `load` step by step. A
pickle is written chunk by chunk, the header last. Each write may be whole, short
or fail; memory may run out; the daemon may stop between any two steps and be
started again with a fresh file system. The SHA-256 hash is taken to be
injective. The branch for OpenSSL before version 3 is modelled: with a later one
`ctx` is used before it is set (`pickle.cpp:261`, `pickle.cpp:316`), and `pkl.cpp:31`
says that such systems are not supported.

`InodeImage` is about the layout: `Pickle`, `GetPickledSize` and `Load` of the
five classes write and read a stream of units, a field of fixed size or a byte
each. `load_file_system` reads inode after inode; it has no other way to know
where the next one begins than what each `Load` returns.

## Cmdline

`argv` is a sequence of arguments, `getopt` the state that the GNU function keeps:
it moves options before other arguments while `ramfs_parse_cmdline` erases
arguments and notes indices of its own. An action is one call of `getopt` with the
case that handles its result; `Scan` is what the call looks at. Options are
records of key and value. Sizes are digits and units; with `UnitBits` 1 instead of
10 the units are small and a word wraps at sixteen of the largest one, as in the
program.

Three things in this code are undefined or do not end, and are so in the model:

* `erase_arg` frees the "-b" that `nextchar` of `getopt` still points into
  (`util.cpp:209`). The next call reads whatever is there: any member of `Junk`,
  of which the empty one is the NUL that was there before. From then on `strayed`
  says whether anything else was read. A call behind the end of `argv`, or a search
  for the "o" of an argument without one (`util.cpp:114`), is the phase
  "undefined".
* The bytes after the copied options are not ended with a NUL; `CleanHeap` leaves
  them out.
* A token such as "=" has no key, and the loop goes on with the same token
  (`util.cpp:142`): the phase "hung".

`subtype` points into a buffer that is deleted (`util.cpp:237`). The model has it as
"freed": the code only compares it with null and prints it.

Fairness, in `FairSpec`: the program goes on as long as it can.

## Runs

| Run | Instance | Shows |
|---|---|---|
| `tree` | three inodes below the root, ample blocks, no writes, one lookup held of each inode and so no hard links | link counts are exact (`LinksAreExact`), every directory has one name and hangs off the root (`NamespaceIsTree`), the handlers do to the names what `NamespaceSpec` says (`HandlersKeepPromise`) |
| `table` | two inodes below the root, all kinds, hard links, writes and truncates across a block | the accounting of slots, free inodes, lookups, links and sizes, `HandlersKeepPromise` with hard links; a number the kernel holds keeps its inode (`NumberKeepsInode`) |
| `scarce` | two inodes below the root, four blocks | the same when space runs out: creations are undone, rename loses entries, `f_bfree` wraps. The inductive invariant of the proofs holds (`TableInv`), entries name live inodes (`EntriesNameLinkedInodes`), links still cover the entries (`LinksCoverEntries`), a request answered with one error has left entries, links and free inodes as they were, though not `f_bfree` (`ErrorLeavesNoTrace`), modulo its width `f_bfree` changes with the blocks of the inodes but in two kinds of step (`BlocksConserved`) |
| `checkpoint` | two inodes below the root, one key, two restores | the table and its counts agree, and entries name live inodes, with lookup counts from before a restore |
| `file` | blocks of two bytes, two of them, writes at and beyond every boundary | a file is a sequence of bytes (`FileImplementsSpec`, `ReadsAgree`); no buffer is shorter than what is copied from it (`BuffersAreBlocks`); `BlocksAccounted` |
| `readdir` | two clients that may take parts of replies, two directories, three names one of which fills most of a reply, three keys, two listings, one change, one listing given up | contexts are freed and stay in range (`ContextsInRange`), only a listing that is given up leaves one behind (`OnlyGivenUpIsLeft`), every listing ends (`ListingEnds`); a listing that had its context to itself has every name that stayed (`ListingIsComplete`) and goes back by one entry at most (`OnlyLastIsResent`) |
| `session` | two processes, two directories, one name, one key | cached entries are in the directory (`CachedEntriesAgree`); every call returns, or a restore waits for the lock of a directory (`CallsReturnOrRestoreWaits`) |
| `xattr` | two names, two buffers, values of one and two bytes, one restore | what is read has the size of the longest value set and begins with the last one (`ValuesAreThoseSet`); a checkpoint keeps the values that are not set again (`UnsetValuesAreKept`) |
| `pickle` | one client of each tool, one path, two states, failing writes and memory, one stop of the daemon | what is loaded was saved whole (`LoadedWasSaved`), what verifies is whole (`VerifiedIsWhole`) |
| `image` | tables of two slots with every class of inode | sizes, writers and readers of the five classes agree (`PickledFits`, `LoadedAsPickled`) |
| `attributes` | every kind, two modes, two ids, sizes 0 to 2, a clock to 2 | a change of mode, owner, modification time or file size sets ctime to the clock, and nothing else sets it (`ChangesAreStamped`) |
| `cmdline` | up to four arguments in every order, two of the largest sizes, one of which wraps, tokens without a key, up to two characters read in a freed argument | parsing ends if every token has a key (`ParsingEnds`); as long as a freed argument still reads as its end, the mount point is found and only a wrong number of them is refused (`MountpointIsFound`), and the capacity is the size given if that fits a `size_t` (`CapacityIsAsGiven`) |

`MCFuseRamFs` has two names: `"a"` of one byte, and `"z"` of 255, with which a
directory needs a second block as soon as it has both entries. `Modulus` is 4096:
no counter comes near it from below, so a value near it is one that wrapped. The
runs use the view `StateView`, which leaves out `reply`: no action reads it, and
TLC evaluates action properties on every step, also on those that lead to a
state it has seen.

Three inodes below the root are enough for a directory inside a directory with
a third to replace or to move; two are enough for reuse of a slot while another
is in use and for a full table. In `table` and `scarce` `MaxLookup` is 2 so that
an inode can be linked, which gives the kernel a second lookup, and so that a
FORGET can return one or both. `LinksAreExact`, `NamespaceIsTree` and
`HandlersKeepPromise` hold only where no entry is lost, which is why they are not
in `scarce`; `LinksCoverEntries` is what is left of them.

In `file` two blocks of two bytes have every case of a write: inside the buffer,
from the last byte into a new block, with a gap inside a block and over one, and
with no block left. In `readdir` one change while a listing goes on removes, adds
or replaces an entry, and three keys are enough for two listings beside the context of one that was given up, which nothing frees.
Two clients can come to share a context (see `MCReaddir_shared` below). Such a
listing ends too, but need not be complete, and neither need one whose client
took part of a reply: this is why two properties speak only of listings with
`own`. In `xattr` two buffers let a value move and another take the
place it left.

Deadlock is checked except where the system may stop: a command line is parsed
and an image read once (`cmdline`, `image`), processes need not make calls
(`session`, `readdir`), and an invalid `realloc` ends the daemon (`xattr`).

### Liveness

`ListingEnds` holds under weak fairness of each client's `FuseReadDir`: a client
that lists asks until the reply is empty, and the loop answers. That the
iterator steps back one entry too far does not keep a listing from advancing as
long as any two neighbouring entries fit into one reply, which the names of this
run do; `MCReaddir_longnames` has two that do not. It also needs
`MaxAbandoned < Keys`: contexts of abandoned listings are never freed, and when
they have taken all the keys the search for a free one (`directory.cpp:206`) does
not end: with `MaxAbandoned` 3, `MaxListings` 4 and no changes TLC shows a listing
that waits for ever. `OnlyGivenUpIsLeft` is the other half: no other listing takes
a key with it.

`ParsingEnds` holds under weak fairness of `Next`: parsing is one thread that waits
for nothing. `optind` is moved back with every "-b", so that it ends is a matter of
the erased argument being gone.

`CallsReturnOrRestoreWaits` holds under weak fairness of the daemon's steps and
of the return of a call that was answered. It leaves out one thing, that a
`restore` waits for a lock; `MCSessionLoop_blocked` shows that this happens.
Whether the kernel ever forgets an inode is its own choice, so no liveness is
claimed of the inode table.

### Faults

The definitions marked *Fault* are wrong versions of the definition that follows
them. Put in its place, each makes TLC report the property that is meant to catch
it.

## Deviations

Where the code does not do what a comment or document of it says, a property
states the comment, and a configuration that is not among the runs has TLC show a
trace in which it fails. Run `tlc -config <configuration> <module>`, where the
module is the part of the name before the underscore. Where a run is named
instead, put the property in the place of those in the configuration of the run,
and leave out its view.

| Configuration | Property | The text | What happens |
|---|---|---|---|
| `MCFuseRamFs_dirblocks.cfg` | `FreeBlocksAreFree` | "Free blocks", `fuse_cpp_ramfs.cpp:112` | `RegisterInode` (line 1523) charges a directory that `Directory::Initialize` has charged: each mkdir takes one block too many from `f_bfree` |
| the run `scarce` | `UndoneCreationRefunds` | "Free blocks", `fuse_cpp_ramfs.cpp:400` | an undone creation charges its blocks again (line 899) where the line above refunds the inode |
| `MCFuseRamFs_capacity.cfg` | `CapacityRespected` | "Check if the file system can handle the increased size", `fuse_cpp_ramfs.hpp:171` | the blocks of a new directory or symbolic link are charged without that check; `f_bfree` wraps and every later check succeeds |
| the run `tree` | `RemovedDirHasNoLinks` | "An empty dir has two hard links so we need to decrement one more time", `fuse_cpp_ramfs.cpp:1251` | with line 1237 it is decremented three times; the count wraps and the inode is never freed |
| `MCFuseRamFs_dotdot.cfg` | `DotDotIsParent` | "Make a directory /foo and /foo/.. will have the same inode number as /", `inode.cpp:295` | rename to another directory leaves `..` as it was |
| the run `scarce` | `SymlinkChecksSpace` | "Check free space and free inodes", `fuse_cpp_ramfs.cpp:1337` | `FuseSymlink` replies `ENOSPC`, makes the link and replies again |
| `MCFuseRamFs_moved.cfg` | `MovedHasEntry` | "@return 0 if successful, or errno if error occurred", `directory.cpp:103` | rename ignores the result of `_AddChild` and removes the old entry: the inode has no name, the reply is success |
| `MCCheckpoint_forgets.cfg` | `RemovedIsCleanedUp` | "Remove the hard links to this dir so it can be cleaned up later", `fuse_cpp_ramfs.cpp:1055` | after a restore the FORGETs of the kernel do not take the restored `m_nlookup` to zero, and the inode stays |
| `MCReaddir_offset.cfg` | `GoesOnAtOffset` | "@param off The offset into the list of children.", `fuse_cpp_ramfs.cpp:610` | only the key in the offset is used: a client that took part of a reply does not get the rest of it |
| `MCReaddir_longnames.cfg` | `EndIsReached` | "come to the end of the directory listing", `fuse_cpp_ramfs.cpp:642` | of two names that do not fit into one reply the first is sent over and over, until the cookie has counted into the key of no context; the listing ends without the second |
| `MCReaddir_shared.cfg` | `CookieHasKeyToContext` | "the higher 16 bit the key to the readdir context", `directory.cpp:186` | a context is freed with its last entries, while its client still holds a cookie with its key; another listing may draw the same key, and the first client goes on in it |
| `MCXattr_shared.cfg` | `CheckpointKeepsValues` | "checkpoint/restore", `README.md:11` of the repository | the copy constructor (`inode.hpp:60`) copies pointers: a setxattr after the checkpoint changes or frees the value in it |
| the run `xattr` | `LastSetIsRead` | "If they want to make the whole thing shorter, then what?", `inode.cpp:159` | the length stays: a shorter value is read with the end of the longer one before it |
| the run `xattr` | `FailedSetLeavesNoName` | a setxattr answered with `E2BIG`, `inode.cpp:153` | `m_xattr[name]` (line 150) has made the name, which is listed with an empty value |
| `MCPickle_slots.cfg` | `LoadGivesBackTable` | "Load the file system from pickled data", `pickle.cpp:381` | load skips empty slots (line 409): later inodes have other numbers than the entries name |
| `MCPickle_success.cfg` | `SuccessIsSaved` | "if pickling fails, move the cursor here", `pickle.cpp:120` | a failed write is not noticed, since -1 is held in a `size_t` (line 99); a short one is reported with errno 0 |
| `MCPickle_paths.cfg` | `OwnPathIsWritten` | "the PICKLE and LOAD should receive a parameter [...] which contains the path", `cr.h:41` | paths go through `/tmp/pickle.cfg`, which another client may write in between |
| the run `image` | `CountsBytesUsed` | "@return: bytes used", `pickle.cpp:391` | a derived `Load` (`file.cpp:180`) adds its part to the 0 of a failed base `Load`; the rest is read from a wrong place |
| `MCSessionLoop_blocked.cfg` | `CallsReturn` | "Invalidate potential d-cache", `fuse_cpp_ramfs.cpp:224` | restore notifies the kernel from the only thread, the kernel waits for the lock of a directory, its holder waits for the daemon |
| the run `attributes` | `AllRequestedApplied` | "A mask of all incoming attributes that should be applied to the inode.", `fuse_cpp_ramfs.cpp:508` | with a size in the mask only the size is set |
| `MCCmdline_stale.cfg` | `OptionsFollowO` | "remove parsed arguments from args except '-o [options]'", `util.cpp:217` | the indices are stale when they are used (line 285); other arguments are erased |
| the run `cmdline` | `ExitsAreRight` | "Missing mountpoint.", `util.cpp:265` | `getopt` goes on in the freed "-b" (line 256); if that does not read as its end, `optind` passes the mount point |
| the run `cmdline` | `EverySizeIsHeeded` | "Supports unit suffix including k,m,g,t,p,e.", `util.cpp:99` | sixteen exbibytes wrap to 0 (line 88), which stands for the default |

`BlocksConserved` leaves out the two kinds of step of `FreeBlocksAreFree` and
`UndoneCreationRefunds`, and
`LoadedWasSaved` the empty slots of `MCPickle_slots`.

Four more follow from reading the modelled code, without a configuration: a load
that runs out of memory half way replies success (`pickle.cpp:578`); a token without
a key is never passed (`util.cpp:142`); the last option loses a final "o"
(`util.cpp:174`); a subtype given with `-o` is not passed on (`util.cpp:274`).

## Proofs

### The inode table

`FuseRamFsProofs` proves, for every value of the constants that satisfies
`NameAssumption`, `CapacityAssumption` and `BoundAssumption`:

| Theorem | Statement |
|---|---|
| `TableInvariant` | `Spec => []TableInv` |
| `TypeCorrect` | `Spec => []TypeOK` |
| `QueueCorrect` | `Spec => []QueueHoldsEmptySlots` |
| `FreeInodesCorrect` | `Spec => []FreeInodesAccounted` |
| `LookupsCorrect` | `Spec => []LookupsAgree` |
| `UnlinkedStaysHeld` | `Spec => []UnlinkedIsHeld` |
| `NumbersAreStable` | `Spec => NumberKeepsInode` |
| `SizesCorrect` | `Spec => []SizesAccounted` |
| `BlocksAreConserved` | `Spec => BlocksConserved` |
| `ErrorsLeaveNoTrace` | `Spec => ErrorLeavesNoTrace` |

The assumptions say that there is room for the placeholder and the root, that
there are finitely many names, none of them empty, and that the counters are
wide enough for the capacity.

`TableInv` is the inductive invariant. The properties do not stand alone: that
a slot taken from the queue is empty needs `QueueHoldsEmptySlots`; that the
table does not outgrow `f_files` needs `FreeInodesAccounted`, because
`RegisterInode` appends only when the queue is empty, so that all slots are in
use; that a reused number starts with no lookups needs `LookupsAgree`; and that
an empty slot is never reached through an entry needs `TableShape`: an empty
slot is blank, entries point into the table, none to the root. `UnlinkedIsHeld`
then says that an inode that has lost its links waits for a FORGET.

The proof separates steps by what they do to slots. Most handlers fill and
empty none: for these `Fits(T)` says that a table T may follow the present one,
a lemma for each elementary change (`FitsAddLinks`, `FitsAddChild`,
`FitsRemoveChild`, `FitsUpdateChild`) says that it keeps a table fit, and a
handler's lemma chains them. FORGET may empty a slot (`EmptySlotInv`), a
creation fills one (`FillSlotInv`), and an undone creation does both
(`UndoneInv`). `NextInv` puts the handlers together.

tlapm reads `@` in `[f EXCEPT ![a] = ..., ![b] = ...@...]` as the value in `f`
also for the second update, where TLA+ means the value after the first. The two
differ when a = b. The model changes one slot at a time (`RemoveEntry`,
`AddLinks`), so the difference never arises.

For sizes and blocks the invariant is `TableInv` with `Booked(Inodes, UsedBlocks)`:
every slot, empty ones included, has the size and the blocks that
`SizesAccounted` asks for. Blocks could not be followed without it, since
`BlocksReturned` takes the blocks of a directory from before and after
`RemoveChild` and is what the table loses only if both are its rounded size.
Sums are what makes this more than bookkeeping: `UsedBlocks` adds the blocks of
all slots, `EntriesSize` the sizes of all entries, and a handler changes one term
or two. `SumAdd`, `SumRemove` and `SumChange` say what that does to a sum; they
rest on the sum of the library being independent of the order it picks elements
in (`TablesAgree`), which is an induction over the size of the set. Then each
elementary change of the table gets a lemma (`BookedAddChild`,
`BookedRemoveEntry`, `BookedUpdateChild`, `BookedLinks`, `BookedAppend`), each
handler chains those it makes, and `WordAdd` and `WordCharges` say that charges
may wrap one by one or together. That an error leaves no trace needs of the
invariant only that a slot taken for a new inode was empty: undoing the creation
then leaves the inodes in use as they were (`UndoneKeeps`).

`FuseRamFsFacts` has what the proofs share (sums, sequences, operators, what a
handler knows once its checks have passed, booked tables), `FuseRamFsTable` that
the handlers keep `TableInv`, `FuseRamFsProofs` the blocks, the errors and the
theorems.

### File contents

`FileProofs` proves, for every block size, capacity, set of bytes and set of
inputs that satisfy `BlockAssumption`, `ByteAssumption`, `InputAssumption` (writes
are not empty: the kernel sends none that are) and `NoCopyAssumption`:

| Theorem | Statement |
|---|---|
| `FileInvariant` | `Spec => []IInv` |
| `BuffersTheorem` | `Spec => []BuffersAreBlocks` |
| `BlocksTheorem` | `Spec => []BlocksAccounted` |
| `ReadsTheorem` | `Spec => []ReadsAgree` |
| `FileRefinement` | `Spec => FileImplementsSpec` |

`IInv` is the two properties for the live file and the checkpoint (`Sound`), and
for what is in a state file (`SoundPickled`): a load makes the file from there, so
the properties are not inductive without it. There the buffer has `st_size` bytes
and not whole blocks. The proof goes bottom up: `get_nblocks` rounds up
(`RoundsUp`, `RoundsUpLeast`, `RoundsUpMonotone`); what `realloc`, `memset` and
`memmove` do to a buffer byte by byte (`ReallocKeeps`, `ZeroedBytes`,
`MovedBytes`); what a write and a truncation make of the contents
(`WriteOverlays`, `TruncatedBytes`); that copies are sound (`CopySound`,
`PickleSound`, `LoadSound`). Each action then maps to a step of `FileSpec` or to one
that changes nothing (`WriteStep` to `LoadStep`), and `StepSound` puts them
together. The bytes that `realloc` adds are any bytes, so the theorem says that
none of them is ever read.

### Attributes

`AttributesProofs` proves `Spec => ChangesAreStamped` (`StampsCorrect`) for all modes,
ids, sizes and times (`AttributesAssumption`). The invariant `AttrInv` adds that the
change time is never ahead of the clock: without it a stamp could turn it back.
That the clock itself does not go back is an assumption of the model. `Effect` says
what a request may do to the attributes, one lemma for each request shows it, and
the property follows.

### Extended attributes

`XattrProofs` proves `Spec => []ValuesAreThoseSet` (`ValuesCorrect`) and
`Spec => []UnsetValuesAreKept` (`UnsetValuesCorrect`) for any names, values and
memory (`XattrAssumption`: a null pointer is no address, and `NoCopy` is no map).
`ValuesInv` is needed because the heap is shared. Until a restore that comes after a
setxattr (`expect.known`) every slot holds the value expected of it, no two
attributes share a buffer, and a slot of the checkpoint that was not set since
shares its buffer with no attribute but its own (`HeapInv`); and at all times the
sizes recorded are those of the longest values (`SizesInv`), which is what is left
after such a restore. `ReallocatedKeeps` is the case in which `realloc` moves a
buffer, and the checkpoint keeps a pointer to freed memory.

### The session loop

`SessionLoopProofs` proves `Spec => []CachedEntriesAgree` (`CacheAgrees`) for any
processes, inodes, directories, names and keys, under `NoneIsNoInode`. The
property says nothing of a directory in which a call is under way, so it is not
inductive. `CacheAgreement` adds what such a call leaves on its way: only lookups
share the lock of a directory (`LockInv`), an answer that is not yet in the cache
is what the directory has (`ReplyInv`), a cached entry is there or its unlink is
about to be entered (`UnlinkInv`, `CacheInv`), and during a restore each entry of the
present tree is either still to be invalidated or not cached, with no answer on
its way that would bring it back (`RestoreInv`).

### State files

`PickleProofs` proves `Spec => []VerifiedIsWhole` (`VerifiedFilesAreWhole`) and
`Spec => []LoadedWasSaved` (`LoadGivesBackTheSaved`) for any clients, paths and
states (`PickleAssumption`), with writes that fail or come out short and a daemon
that stops anywhere. `SavedInv` says of a daemon that pickles that the hash it
carries is that of the pieces written so far (`DaemonInv`), and of a file with a
header that the header is that of the saved state (`HeaderInv`). What is loaded
rests on `LoadReadsWhatPickleWrites`: `load_file_system` of what
`pickle_file_system` writes is the state without its empty slots, for every state.
The loop over the table is a recursive function; what it computes is proved by
induction over the number of slots.

Induction over the naturals is available although the library's theorem for it
is not: `NatSetInduction` states it for a set instead of a predicate, and follows
from the well-foundedness of the order (`WFMin`).

### Only model-checked

* `LinksAreExact`, `LinksCoverEntries`, `EntriesNameLinkedInodes`, `NamespaceIsTree`
  and the refinement `HandlersKeepPromise`. They do not hold for every value of
  the constants. When space is short, rename loses entries whose links stay, a
  directory that is replaced loses three links of two, and with `MaxLinks` at the
  width of the counter the link count of a file wraps. The runs show that they
  hold where these do not reach them.
* `Checkpoint`: its invariants of the table rest on the link counts, since after
  a restore a lookup of the kernel no longer implies a slot in use.
* Liveness: `ListingEnds`, `ParsingEnds`, `CallsReturnOrRestoreWaits`. The prover handles neither
  fairness nor `ENABLED`.
* `Readdir`, whose replies and listings are filtered and merged sequences that
  the provers cannot look into; `InodeImage` and `Cmdline`, whose readers and
  parsers are recursive functions over sequences of any length.

## Not modelled

* `FuseStatfs` replies with `m_stbuf`, whose counts are modelled; `FuseDestroy`
  deletes the inodes when the daemon ends; `FuseGetLock` is empty and the kernel does not send the request.
* The functions of `cr_util.cpp` under `DUMP_TESTING`, `testops` and the test
  programs: they print or drive the system.
* The macOS branches, and the branch for OpenSSL 3 (see above).
* The kernel's page cache and attribute cache. `load` does not notify the kernel
  at all, so what a client sees of a mount in use while it is loaded depends on
  these caches alone.
* A failed `malloc` in `FuseReadDir` (`fuse_cpp_ramfs.cpp:660`), after which the
  handler replies an error and goes on with a null buffer.
* The bytes of names: they matter only through their length.
