# bxroot in TLA+

bxroot runs an unmodified Ubuntu userland inside an Android application: a
library preloaded into every guest process rewrites paths, imitates root and
replaces kernel facilities that the application sandbox forbids. The models are
of what it keeps and shares between threads, processes, program images and
restarts, and of the rewriting itself where one call's answer becomes the next
call's argument.

    PathWalk     a tree of names and how a kernel walks it
    PathMap      guest paths to host paths and back: binds, rootfs, links, /proc
    RawPaths     the same in syscall() and in the svc of static images
    PathHooks    the libc calls that take a path, and what they change
    GuestNames     what the guest means by a path; PathHooks is compared with it
    L2s          link(2), unlink(2), rename(2) imitated with symbolic links
    HardLinks      what POSIX promises about names and contents; L2s implements it
    SysVShm      System V shared memory imitated with a directory of files
    ShmRegistry    what shmget(2) and IPC_RMID promise; SysVShm implements it
    ShmGate      the gate in front of the shared memory calls and fork of a process
    ShmAttach    shmat and shmdt behind that gate; it implements ShmGate
    PidLedger    the table of a process' children: fork, wait, kill, exit
    Fakeroot     the ledger of imitated ownerships: chown, stat, eviction, fork
    OwnerCache     what that ledger promises, a cache; Fakeroot implements it
    FakeIds      the identity that fakeroot shows, and its setters and getters
    SvcTraps     what becomes of a system call that no libc hook sees
    Sigsys       SIGSYS and the identity of one process, from image to image
    IdBaseline     the identity calls as documented; every route is compared with it
    ExecEnv      the environment that carries the runtime from image to image
    ExecPlan     what exec and spawn make of the name they are given
    ExecChain    a line of program images, each started by the one before

Each of the larger ones has an `MC...` module with the instances for TLC, and
`...Proofs` holds theorems. A run checks a few named invariants, each a conjunction of
parts: the parts carry the comments, a theorem is about the whole or a part. Paths
below are relative to the root of the repository.

## Inventory

| component | state it keeps | operations | talks to | hard because |
|---|---|---|---|---|
| link2symlink (`src/l2s`, hooks in `src/runtime/preload.c`) | files of a directory: names, intermediate links, data files, `.cnt`; a switch per process | link, unlink, rename, renameat2, lazy enabling | all processes of the container through the file system | several system calls per operation, no common lock, refusals and kills in between |
| SysV SHM tables (`src/runtime/sysvshm.c`) | `seg-`, `key-`, `.id-` files, an OFD lock | shmget, shmctl | all processes and the official runtime | creation, lookup and removal race; ids may come back; locks of dead processes |
| SysV SHM gate (same file, `fork` in `src/proc/proc.c`, atfork handlers in `preload.c`) | one word per process | every call, fork | proc.c, preload.c | children inherit memory but not threads |
| SysV SHM attach table (same file) | 1024 slots beside the mappings | shmat, shmdt, fork, exec of a static image | kernel mappings | addresses are reused; fork copies what is half done |
| SysV SHM anchor (same file) | a directory descriptor | rebuilding | the file system | descriptors are reused |
| pid ledger (`src/proc/proc.c`, wait hooks in `preload.c`) | an open hash table under a mutex | fork, spawn, system, popen, wait, kill, kill-on-exit | kernel pids, other threads | pids are reused, waits race with registration |
| fakeroot ledger (`src/runtime/fakeroot.c`) | two bounded maps with LRU, a spin lock each | chown, chmod, mknod, stat | fork | eviction, stale keys, locks across fork |
| fakeroot identities (same file, `syscall_guard.c`, `sigsys.c`) | ids of a process | set*id, get*id, setgroups | exec, traps | four routes to one state |
| path translation (`preload.c`, `termux_compat.h`) | binds, rootfs, the guest's name of the working directory | every path call | all of the above | symbolic links, read-only binds, `..`, reverse mapping |
| hooks of path calls (`preload.c`) | none of their own | open, stat, rename, mkdir, ... | translation, l2s, fakeroot | each family resolves links differently |
| raw calls (`syscall_guard.c`, `static_exec.c`) | a pool of buffers | syscall(), svc of static images | the same | no hook sees them |
| exec planning (`proc.c`), launcher | the saved environment | exec, spawn, fexecve, system | trampoline, stub loader | interpreters, scrubbed environments, names handed down |
| SIGSYS (`sigsys.c`, `early_sigsys.h`), seccomp fallback | who holds SIGSYS, the guest's own handler, filters | sigaction, sigprocmask, traps | guest signal handlers, exec | asynchronous entry; filters and masks survive exec |
| static images (`static_exec.c`) | ranges of loaded images | exec in place | all state of the process stays | the old program's state under the new one |
| live patch, crash reporter, clone3 guard | patched sites | start of a process, faults | libc | machine instructions |
| host sessions (`src/host`), loader, linker and bridge stubs | descriptors, child processes | start and end of a session | guest and host worlds | who closes and who waits |

What makes each correct, and at which line it can go wrong, is the list of
hazards in PROJECT.json; what follows is how the modelled ones are covered.

## Paths: PathWalk, PathMap, RawPaths, PathHooks, GuestNames

A path is a sequence of names, a tree a function from paths to what is there. `Walk`
is a kernel's walk; PathMap has translate_path (`Host`), its reverse (`GuestName`),
the four link resolvers of preload.c and the imitated links of /proc; PathHooks has
one operator per family of hooks, which says what the hook hands to the kernel and
what that leads to, and one action per kind of change (`Edit`, `MakeDir`, `MakeLink`,
`MakeFile`, `Unname`, `UnnameDir`, `Rename`, `ChangeDir`, `OpenDir`, ...). `Arg` and
`RawArg` hold what the resolvers make of one argument of a call, and each hook is an
operator that picks among its parts. `fs` is the host's tree, `cwd` and `fd` are host
directories. RawPaths has the guard of syscall() and the dispatcher of static images.

GuestNames states what the guest means: `GuestTree` is the rootfs with the binds
mounted on it, walked by the same `Walk` with links read as guest paths. The
properties try every hook with every argument in every state that is reached.

| run | asks | instance |
|---|---|---|
| PathHooks | looks, opens and raw calls reach what the guest means (CallsReachTheMeant), changes too (ChangesHitTheMeant), and they stay inside; read-only binds by name; names survive translation twice, and back (NamesHold) | 2 binds, one of them read-only below the other, absolute links to a directory, a bind, a link and a file, relative ones to a file and upwards, host directories of the same names, 2 changes |

Two changes give a link to a link, a link that replaces a directory, and a file
renamed beside one; chdir and opendir are not counted. The host has `/a/f` of
its own, so a path or link taken for a host path leads to a wrong object.

The hooks differ in what they leave to the kernel, and the kernel reads an
absolute link from the host's root. Each property therefore says where it holds:

* `AtHome`: the working directory and the descriptor have a guest name, and the
  directories bound still exist (otherwise getcwd has no name to give); and every
  relative link means on the host what the guest means by it (`Portable`). The
  resolvers join its text to the host's directory (preload.c:3588, 3826), so one that
  climbs past the rootfs, out of a bind or down through one is read differently,
  although 1236 says that the guest's root clamps `..`. `LinksStayInside` states that
  and fails if PathHooks checks it: a link `../a` in the rootfs leads out of it.
* `Clear`: no `..` in the argument, and it is not spelled like the host path of
  a bind. A `..` is resolved as text before links are (preload.c:1264), so
  `link/..` is not the parent of what the link leads to, against POSIX.
  ChangesStayInside is about arguments with `..`: as long as the links are relative
  and Portable no change lands outside, however the argument climbs.
* `Straight`: no link before the last name. open and access resolve links in the
  middle or the one at the end, never both (4274), although the comment at
  4259-4268 says that the deepest existing part decides; lstat and the calls that
  make or remove names leave the middle to the kernel.
* Loops: translate_follow returns -1 with ELOOP (4014, 4054-4059), and most callers
  (chmod at 8216) use its result only if it is above 0. So the guest's own name goes
  to the kernel, and an absolute one is read from the host's root: a link that names
  itself gives access to the host's file of that name. `LoopsStayInside` states that
  it does not, and fails; ChangesStayInside is about arguments that are no loops.
* mkfifoat, mknodat and every svc of a static image pass a relative path on as
  it is, also one that climbs out of the rootfs by `..`.
* A read-only bind is guarded by the name of the argument (1875, 1920), absolute or
  relative to the working directory. A name relative to a descriptor is compared as a
  host path (1964, 4574-4601) and never refused, against 1939-1948:
  `ReadOnlyByDescriptor` states that it is, and fails once opendir may open the bind's
  directory (`Mounted` for `Used` in the instance). Nor is it guarded through a
  link, through `..`, by syscall(), by svc and by mkstemp.

Left out: link() and names of link2symlink (in L2s), owners (in Fakeroot), sem_open,
chroot, renaming of directories, /proc of other processes, lengths and
buffers. Two hazards of that rest are listed: the slots of translated paths of
syscall() are shared after 64 threads (syscall_guard.c:1220-1341), and sem_open
makes, sizes and initialises its file in separate calls (preload.c:8021).

## The link2symlink layer: L2s

`dir`, `mid`, `fin` and `cnt` are the directory entries of the guest names, of
the intermediate links, of the data files and the numbers in the `.cnt` files;
`loc[p]` is the call process `p` is in, with its C locals. **One action is one
system call that changes something**, together with the reads before it, named
after the code: `PickGeneration`, `RenameToFinal`, `SymlinkMid`, `SymlinkOld`,
`WriteCount`, `SymlinkNew` are l2s_rt_link in order, `Rollback...` its error
paths, `DropLink`, `Reclaim...`, `RemoveName` are l2s_rt_unlink, `Rename...` the
rename hooks. The update of `.cnt` (update_small) runs under an OFD lock, so no other
process reads it half done, and is one step where it succeeds or is refused before
the file is truncated. `CutUpdate` is the rest: it truncates, and the write is
refused or the process killed (preload.c:2690-2707), which leaves a count of 0; the
instance says at which updates (`TornAt`), and the ghost `torn` collects the chains.
`Fails` refuses a call, at the points and as often as the instance says;
`Crash` kills a process between two calls.

`HardLinks` is the promise: names bound to contents. `View` maps the directory
onto it: a name whose file has been moved away and not yet linked still stands
for its content, a name counted down is gone. `Refinement` says that each call is
one step of a POSIX directory, or none if it fails.

| run | asks | instance |
|---|---|---|
| L2sSeq | every operation, link() refused at any two of its calls: `Consistent` (types, counts, no dangling name, no leftover), nothing overwritten, refinement | 3 names, 2 contents, 2 generations, 1 process |
| L2sConc | the same, and one reclaimer, of three processes that interleave at every call | 3 names, 1 generation, every count up to 4 |
| L2sCrash | `CrashSafe`: processes killed and a call refused in link, unlink and rename, layers off at the start, any update of a count cut: the count still covers the names and no name leads nowhere, on every chain that has no such cut | 2 processes, 2 kills, 1 refusal |
| L2sReuse | **violated** NewChainSafe | 2 processes, 2 generations |

Three names are enough for a chain with a name to spare while two others are
added, dropped or replaced; two contents for one to overwrite the other; two
generations for a choice, one for the exhaustion of them. The largest count is
as small as 3 so that EMLINK is met.

An update that is cut loses files: link() of a third name has the write of its count
refused, after the truncation (preload.c:2690). The caller has its error; the file
says 0, the next link() makes it 1 and the unlink() of any name reclaims mid and final
while others lead there. That is what the comment at l2s-runtime.c:1004-1015 says a
refused link() must not bring about; let L2sCrash check NoDangling to see it. L2sSeq,
L2sConc and L2sReuse have `TornAt` empty: what they show is for updates that are
either made or refused before the truncation.

*L2sReuse*: unlink() of the last name has deleted mid and not yet final; link() of
another file with that basename finds the generation free, moves its file to final,
and the reclaim deletes it: a file is lost. Consistent is checked with refusals in
link() only: unlink() lowers the count and reclaims the chain before it unlinks the
guest's own name (l2s-runtime.c:1118), and if that is refused the name stays and leads
nowhere, although the comments at l2s-runtime.c:1001-1023 and preload.c:6345 say that
nothing is lost. To see it, add "u_name" to `LinkSteps` of MCL2s and let L2sSeq check
NoDangling. L2sCrash refuses the system calls of unlink() and rename() up to the
countdown (`CallSteps`).

Bounds on behaviour. In L2sSeq, L2sConc and L2sCrash no two guests work on one name at
the same time (`Exclusive`). Without that a second link() of a file still being moved
loses content (the code takes no lock around its six calls), which is the same defect
as L2sReuse in another place. The system calls of the rollbacks and of the reclaim
inside rename() are taken as never refused: their results are ignored by the code, so
a refusal there leaves what it was to remove. NoLeak excuses a `.cnt` that a refused
write has created, which the rollback of l2s-runtime.c:920-926 does not delete. A kill
before the first count is written leaves a chain without one; the next link() then
starts from 0, against the comment at l2s-runtime.c:916-917, as after an update cut;
and a kill once unlink() has lowered the count leaves a name it does not count.
L2sCrash kills everywhere else (`CrashSteps`). It checks that names are safe, not that
nothing is left behind: a kill between the rename to final and the symlink leaves a
content with no name, and the next first link() of that basename, which looks only for
a mid, replaces it (NothingOverwritten fails). A process whose layer is off unlinks
without counting down (preload.c:6357): with it the count may stay too high, which
CountCovers allows and Accounting does not.

## System V shared memory: SysVShm, ShmRegistry

`token`, `seg`, `key` are the `.id-`, `seg-`, `key-` files, `claim` the holder of
the lock on `.claim-lock`. shmget is Claim, ReadKey, OpenKeyed, DropStaleKey, ReserveId,
MakeSegment, SizeSegment, PublishKey (or DropSegment, UndoSegment, ReadWinner,
OpenWinner), Release; IPC_RMID is Claim, RemoveSegment, RemoveKeys, Release. Any call may be
refused, a process killed anywhere, and OfficialGet and OfficialRmid are the
official runtime, which shares the directory and knows no claim. The model is of
the build that creates segments (BXROOT_SHM_CLAIM_VERIFIED); the other one answers
ENOSYS. `Refinement` maps keys that lead nowhere and segments not yet answered
with to nothing.

| run | asks | instance |
|---|---|---|
| ShmKeys | one call at the keys and one key per id (IdsSound), no orphan, ids used once (NeverReborn), refinement, every call returns | 2 processes, 2 keys, 3 ids, 1 refusal, 1 kill |
| ShmOfficial | refinement beside the official runtime, which may remove a segment and its key, or publish one, between any two calls, private segments included | 2 processes, 1 key, 3 ids, 2 refusals |

Three ids give two processes one each and one that has been used up. `OneReturns`
assumes fairness of one process only (`OneRuns` in MCSysVShm): the others may stop
for ever with the claim in hand, since shm_claim_key gives up after a hundred
tries.

The claim keeps other bxroot processes away, not the official runtime. A
call reads the key (sysvshm.c:1003); the official runtime removes that segment, the
call finds it absent (1009), the official runtime makes the key anew, and the call
unlinks it by name as stale (1024), although 1022 says that only an absent segment
permits it: a live segment has lost its key. ShmOfficial leaves that out
(`KeySpared`), and that a private shmget, which takes no claim, draws by chance the
id a call has read in a key and not yet opened (`IdSpared`); with "reuse" among its
`Ops` it has both and fails.

Beside the official runtime there is no IPC_RMID in the instance: if bxroot
removes a segment of the official runtime while a creation has drawn the same id,
the new segment can come between the removal of the segment and of its key, and the
key then leads to a segment nobody published. Left out: a guest that deletes the
files itself (sysvshm.c:76-95 gives the reasons), an official id equal to one that a
call is working on at that moment, and IPC_RMID by the official runtime of a segment
that a call of bxroot is making or removing (one that it has only read the key of is
in), for which `test/shm/README-id-aba.md` makes no promise.

## The gate and the attachments: ShmGate, ShmAttach

`gate[q]` is g_shm_transition of process `q`, `home` the process of a thread. A
process is born by the fork wrapper, by a fork inside libc (whose atfork handlers
run) or by clone(2) as such, and starts with its parent's gate.

ShmAttach puts shmat and shmdt into ShmGate's place for a call. `slots[q]` is g_att,
`space[q]` what is really mapped page by page; `loc[t]` the call. shmat is Enter,
MapSegment, Record, Leave; shmdt is Enter, Take, Check (is the segment still there),
Unmap, Leave; GuestUnmap and GuestMap are a program that acts by itself, StaticExec
the reset for a static image. `spoilt` is a ghost: a process that was born in the
middle of a call of another thread ("torn"), or whose program unmapped a segment
without shmdt ("bypass").

| run | asks | instance |
|---|---|---|
| ShmAttach | `GateSound`: one inside at a time, no closed gate without its closer. `TableTrue`: when nobody is inside, table and memory agree. shmdt detaches. `UnmapsOwn`: what shmdt, a shmat without room and exec unmap is an attachment that the table or the call has; exec leaves nothing attached unless munmap refuses. `GateKept`: the calls are those of ShmGate, and the gate opens | 2 processes, 3 threads, segments of 1 and 2 pages, 2 slots, 3 calls and 1 act of the first process |

Two pages and segments of one and two give an attachment that covers where another
was; two slots a table that is full. Two threads in the first process race, and a
child inherits from either. What a program does by itself is an act, and so is an
munmap that exec_reset is refused, which leaves that entry and its pages. One act and
three calls put a mapping or an unmapping of one thread between any two steps of the
other's shmat and shmdt, with a second attachment beside it, before or after a fork.
Pages are numbers, since a segment is a run of them. ShmAttach implements ShmGate, in
the safety part by proof, so the theorems about ShmGate hold of it. Fairness is that
of a thread inside a call, which waits for nobody.

The child of clone(2) as such, or of _Fork(), is excepted (`born`): no handler runs
there and it does keep a closed gate, although the comment at sysvshm.c:1212-1235
counts it among those cured. Of a torn child nothing is promised about the table.
Where the program meddles there is a window between the test whether the segment is
still mapped (sysvshm.c:1127) and munmap (1139). The gate keeps calls of shared memory
apart, not the program's own mmap: a thread that unmaps the segment and maps a file
there in between loses that file's mapping, which 1128-1131 says must never happen.
`SpareFiles`, the promise of that comment, fails (with two acts), and no run asserts
it. UnmapsOwn is what is: programs may map and unmap beside every step, and as long as
they have unmapped no segment themselves, nothing of theirs is taken. Besides, the
test whether a mapping is still the segment (sysvshm.c:895-930) reads
/proc/self/map_files, which knows no anonymous memory, and takes other bounds for an
absence, so such a mapping is unmapped by shmdt; a stale entry makes one shmdt at its
address fail or take the wrong length (853); exec unmaps what the table says without
looking (1191). shm_nattch counts this process only. Left out: a length that overflows
(1092), which returns without closing its descriptor, creating a thread, and a call
from a signal handler that interrupts one (it gets EAGAIN like any other thread).

The anchor, the descriptor of the directory, is not modelled: shm_mkdir heals a lost
directory (401, comment 376-400, `test/probe_shm_dir_heal.c`), but the emulation
answers ENOSYS at 1284 before a call can come that far. Its probe asks whether
the path exists, not whether it is the same directory (290).

## The pid ledger: PidLedger

`proc[p]` is what the kernel has at pid `p`: nothing, a running child, a zombie
child, somebody else. `life[p]` is the entry (none, LIVE, REAPED), `rest` counts
the entries of pids outside the instance, `tombs` and `cap` complete the hash
table. `lock` is g_ledger_mutex where it is kept between two steps; all other
critical sections are one action. `stale` and `lost` are ghosts: pids whose
process ended unseen while the entry was LIVE, and children that could not be
registered; the properties name them as their only exceptions.

| run | asks | instance |
|---|---|---|
| Ledger | `LedgerSound`: types, an empty slot, LIVE means a child; no signal to a stranger, own children killable, calls return | 2 threads with all calls, 2 pids, 4 slots growing to 8, refused allocations |

Two pids and strangers that take them are enough for a pid to be ours, freed and
somebody else's while both threads are inside calls. Four slots are at 75 % with
three used, so growth, compaction and the limit are all met. Fairness: a thread in
a call goes on, except where it waits for a child. A pid about which a call is
under way is not handed out again: the kernel goes through all pids first. The
handlers that signal a group are taken as `TERM` (the table is not marked).

If another thread's wait collects a child before fork() has registered it, the
entry is LIVE for a pid nobody has; this window is one of the ways into `stale`,
although preload.c:2126-2129 says that marking closes it. system() takes a failed wait for a
missing shell and runs the command again outside (proc.c:7886, against
7976-7979); `SystemOnce` states the promise and fails when Ledger.cfg checks it.
CallsReturn excuses one place: px_ledger_put, unable to grow, calls
px_ledger_evict, which locks the mutex that px_ledger_add holds, and never returns
(proc.c:613; the comment at 602 expects eviction to help). After fork the code
drops the SELF entry only; entries of siblings stay LIVE in the child and are in
`stale` from the start. A popen over its limit of open streams returns EMFILE,
where the comment at proc.c:8027-8029 says it falls back.

## The fakeroot ledger: Fakeroot, OwnerCache

`slot`, `count`, `tombs` are the hash table by inode with its two counters, `rec`
the record of a live entry, `age` its keys in the order of last_used, `old` what a
compaction has still to move; `lock` and `depth` are the spin locks and the
re-entrance counter of a thread. `loc[t]` is where thread `t` is in a call. chown is
Chown, Lock, Unlock (the table by path, which is written and never read), then
Lock, Update and, for a new entry, Put, Compact, Load, EvictLru, Evicted, Insert,
Unlock on the table by inode; stat is Stat, Lock, Get, Unlock. After Fork the model
follows the child: the memory as it was, one thread.

`OwnerCache` remembers the last ownership given to a file, field by field, and
forgets the least recently used files. Under `Refinement` an entry is known when a
search would find it, so an entry hidden by a tombstone or lost in a compaction
would be a step the cache does not allow.

| run | asks | instance |
|---|---|---|
| Fakeroot | one thread inside (OneInside); `TableSound`: every entry found and once, counters, room for every new entry; refinement; locks are left | 2 threads, 5 files that collide, 4 slots, a batch of 2, 1 refused allocation |

The code's 75 % and a quarter of tombstones meet in a table of four slots as in
one of 16384: three entries are the load at which a batch goes, two tombstones
start a compaction. Four homes for five files make searches overlap and wrap. The
record's clock is only compared, so an order stands for it. Fairness is that of a
thread between taking and releasing a lock, which waits for nobody; a spinning
thread is promised nothing.

No run asserts `NoneOrphaned`, which fails: the handler that is to reset the locks in
a child looks for `g_fakeroot`, a weak symbol that the runtime (built with
FAKEROOT_PURE_LOGIC) does not define; preload.c's tables are `g_fakeroot_state`, and
stay locked (fakeroot.c:349, against preload.c:97-117). Left out: the modes and
devices of a record, calls that forget or clear, which no hook makes, a guest that is
not root, and the deletion of files. On the last: fakeroot.h:404 says that entries are
forgotten when a file is unlinked; nothing does it, so a new file with a reused inode
shows the old owner.

## Starting programs: ExecEnv, ExecPlan, ExecChain

Everything an image of the runtime knows it reads out of its environment at the
start, and everything it hands on it writes there. ExecEnv has the environment: the
hooks of setenv and its relatives, what px_build_env of proc.c adds, forces and
drops, and what the launcher and a new image write and read. ExecPlan has the plan of a
call: links followed, interpreters added, the names the new image is told. ExecChain
is a line of images: `Exec`, `Spawn`, `System` and `ExecUnnamed` start the next one,
`Setenv` and its relatives are the program's. `img` is the image with the
configuration of its runtime, `env` the runtime's environment and `own` the
program's, which differ in a static image (it is loaded into the process of the one
before); `lapses` collects what excuses a property.

| run | asks | instance |
|---|---|---|
| ExecChain | no line of calls leads out of the container; rootfs, binds, kill-on-exit, libraries reach every image (EnvironmentKept); the right program (RightProgram), under the right names (NamesKept); exec of /proc/self/exe starts what runs | 10 files, programs, a static one, links and scripts, one link with the name of a program of the host; the first a script by way of a link; 2 starts after it, 1 environment changed, replaced or refused |

Two starts make what the second image passes on depend on the first and the launcher;
one edit at a time keeps the cause of a wrong environment apparent. Scripts are
one and two interpreters deep, one names itself (ELOOP; the limit is 4 where
the kernel's is 5), two an absolute link: one to a program that the host has under
that name (`HostFiles`), one to a program it has not. `Called` is a bound: what calls
name directly; the files left out are met as interpreters and as targets of links.

The interpreter of a script is translated (proc.c:5861) and, if it is a link with an
absolute target, not followed in the container as the program itself is. newfstatat
(6699) and execve (6771) leave it to the kernel, which goes by the host's root
(`Astray`): where the host has a program of that name, as Android has /system/bin/sh,
it starts outside, where 5895-5912 expects ENOENT. A ninth link does the same.
`NeverAstray`, the promise of that comment, fails if ExecChain checks it; Contained
excepts those files and no others (`OutOfReach`).

The exceptions are the code's. `fault`: where an allocation is refused (proc.c:3801,
4011, 7986) the new image gets the plain environment, and system() uses the host's
shell. `blind`: with BXROOT_NO_AUTORUN set by the program the next runtime stays half
initialised (preload.c:14580). `envp`: names besides those the code forces are lost
when the program passes an environment without them (preload.c:11874, 11914). `named`:
the program assigned BXROOT_GUEST_EXE. What programs assign (`Given`) excludes the
trampoline's two names, which no hook defends, and BXROOT_KILL_ON_EXIT, which setenv
defends only where the launcher set it; an absolute value of BXROOT_GUEST_EXE names a
file. A static program of a process with several threads is not started in place
(static_exec.c:1469) and goes by the trampoline to be "lost": nothing of the runtime
is in it. RightProgram excuses a refusal (`OutOfReach`) where an interpreter is itself
an absolute link, where there are more than four interpreters or more than eight
links; that the host's program may start instead of the refusal is Contained's
exception. The name of the running program is not passed on by a relative exec,
posix_spawnp, system and an unnamed fexecve (proc.c:3615, against 3597-3613),
posix_spawnp gives a script its bare name (7313), and a static image's exec and
readlink of /proc/self/exe disagree (6014 against 5988: `SameAnswer` states it and
fails). Left out: sizes and numbers of arguments, the budget that the passes over the
environment share and the half of it kept for the program (1136-1177), the stub
loader, the PROROOT_ names, /proc/<other pid>/exe, which exec takes for its own
(6004).

## SIGSYS and identities: FakeIds, SvcTraps, Sigsys, IdBaseline

The host's seccomp filter traps calls; so does a filter of the fallback for static
images. SvcTraps says of each kind of call from which address of which image in which
state of SIGSYS what comes of it: emulated, translated, refused, the kernel's,
the guest's handler or death. Sigsys is one process from image to image: `disp` what
SIGSYS leads to, `blocked`, the filters, which the kernel never takes off, the
guest's own handler as the layer (`own`) and the fallback (`shadow`) keep it,
`asked` what the guest last asked for, `frames` its handlers inside one another,
`ids` the identity of FakeIds. IdBaseline states the identity calls once; each route,
libc hook, syscall(), trapped svc, has its own code.

| run | asks | instance |
|---|---|---|
| Sigsys | a trapped call never kills the process or ends in its own handler, images do not overlap (TrapsSound); the guest sees its own handler; under the fallback no call slips by; every route to the identity sets and shows the same (OneIdentity) | 3 address ranges, two of them overlapping and across a word's border, 2 images or identities, 2 handlers deep, fakeroot on and off |

Addresses are compared as two words of 4, so that ranges cross the border of the high
word, as the 64-bit comparison of the filter does. Two changes are an image after
an image, or an identity after or before one.

Excepted by name: rt_sigaction by syscall() or svc, which passes the runtime by
(`raw`); a handler whose sa_mask has SIGSYS (`masks`: sigsys.c:813 does not look,
seccomp_fallback.c:190 does), and the image started from such a handler until it
installs its own. setfsuid by syscall() on a host that traps it is carried out twice
and answers with the new id (syscall_guard.c:2956). What the runs cannot call wrong
but a reader should know: the identity is lost at exec; svc of a static image never
sees it; setuid(-1) is stored; getresuid without any pointer succeeds by libc only
(2563); a SIGSYS that a process sends itself is swallowed (proc.c:8373-8385); only the last
static image is cleared away, so one in the place of an older one is refused
(static_exec.c:1491). Left out: threads, with masks and half-written
identities of their own, fork, ignored SIGSYS in the instance, registers.

## What is proved

For all values of the constants that satisfy the named assumptions:

* `L2sProofs`: TypeOK, with `Operands` (a call that goes on about a chain has one, and
  has a name) as the strengthening. Consistent, NothingOverwritten and NewChainSafe
  for any number of processes, names and refusals of link(), from `CInv`: what a call
  knows of its names and its chain at each of its points (`Place`), that a builder is
  alone on its chain and a reclaimer has only calls beside it that have been counted
  down (`Solo`), that a chain somebody relies on is there (`Members`), and of each
  chain that its files belong together (`Files`), that its names lead to it or are
  leaving (`Led`) and that the count is right (`Balance`). The step that needs it all
  is the countdown that reads 0: `LastOne` derives from the arithmetic of Balance that
  every other name has an unlink() past the count, because those calls have a name
  each (`Droppers`). Hypotheses: `Expected` (the guests keep to names of their own,
  the layer is on, nobody is killed, only link() is refused, and no update of a count
  is cut, for which it is lost), and `FreshPick`, that no generation is taken while
  another call is still on its chain. The code does not see to that when a basename is
  used again: L2sReuse is the run in which it happens. So, where Expected holds, that
  is the only way left to lose consistency; for one process FreshPick holds by itself
  (`L2sAlone`). Refinement, under the same hypotheses and on a tree that starts with
  one name for each file (`Distinct`; the file system refuses hard links), from CInv
  and `OnePlace`, that a content is the entry of one name or of one final. `Holds`
  says without a choice what View chooses: which entry or final a name stands for.
  Then each step leaves it to every name (`SameView`), or is HL's Link at the last
  symlink, Unlink at the count, Rename at the system call; OnePlace is what keeps a
  rename() from meeting two names of one content. `L2sRefinementAlone` is this for one
  process without FreshPick. CrashSafe under kills, refusals and with the layer off,
  up to the first update of a count that is cut (`torn = {}`, for any TornAt), from
  `KInv`, which is CInv with an inequality for the balance (`Covers`) and without what
  a killed call does not clear away: a final or a `.cnt` without a mid may stay
  (`KFiles`), and the call that takes that generation next may find one. A call that
  dies lowers what is owed to the count and never the count, so a count that reads 0
  still has nobody but calls past it: `NobodyElse` is the same arithmetic for both
  invariants, and most lemmas about one call hold under either. KInv was checked with
  TLC on three instances first (one of them L2sCrash; one with a shared basename and
  two generations). Hypotheses: FreshPick, and `Survivable`: names of their own, kills
  at `KillPoints`, refusals at `RefusePoints`. Outside them are the points where the
  count of a name is not written yet (wr_cnt, and rb_old after it) or is down already
  (u_mid, u_fin, u_cnt, u_name); there a kill or a refusal does break it (above). For
  processes one after another FreshPick holds by itself (`L2sCrashSafeAlone`).
  `L2sKilledContent` adds, where no update is cut, that what the names of a chain lead
  to stays the same file.
* `SysVShmProofs`: ClaimExclusive, from the invariant that whoever is between taking
  and releasing is the holder; IdsSound (with TypeOK and OneKeyPerId) and NeverReborn
  where the official runtime is absent. These need an invariant that relates the four
  parts of a creation: every segment and every key has its token, the id a call
  works on is reserved and neither published nor worked on by another call.
  Publication then cannot repeat an id, and the reservation, which nothing
  removes, keeps a dead id dead. Refinement, on top of that: `Places` says what a
  call knows at each of its points (the key of a call that makes a segment is free
  and stays so, the segment is there until it is published, a stale key or the keys
  of a removed segment lead nowhere), from which each step is one of ShmRegistry or
  a stutter; a refused unlink and a kill let go of a segment, and that is where a
  private one appears. UndoSegment, ReadWinner and OpenWinner are then dead code, for they need
  another publisher. NoOrphan, from `LInv`: every segment has a key or a call that
  is at work on it (Led), and a call that gives one up has had its refusal (Keyed);
  for one refusal in all and no IPC_PRIVATE, until a process is killed.
* `ShmGateProofs`: GateSound (TypeOK, OneInside, GateOwned). The invariant says what
  the gate is for each place of a thread, and that a newborn's gate is only read
  before its handler has reset it.
* `ShmAttachProofs`: every step of ShmAttach is a step of ShmGate or a stutter
  (AttachImplementsGate, the safety part of GateKept), so the gate's invariant holds
  here and says that a process has one call at a time (`OneCalls`). On top of it
  `AInv` has, for each process, what a call in the middle has mapped or taken out
  (CallsAre), that an entry half way out has the call that takes it (Taking), that
  what is attached has an entry or a call about to make it (Covered), and that in a
  process nothing has spoilt entries and whole segments are the same, one to one
  (Exact; it holds beside any program that unmaps no segment itself, which is what
  makes the address that shmdt has tested its own still when it unmaps: `CallTakesOwn`).
  From it TableTrue, DetachRight, UnmapsOwn and ExecDetaches; the last two are about
  a step, and each kind of step is shown to be theirs or to change nothing.
* `PidLedgerProofs`: LedgerSound (TypeOK, EmptySlot, LiveIsOurs), NoStranger,
  OwnKillable, from one invariant that adds three facts: a call about a pid has one
  (Shape), a pid whose end is being noted is not running (Ended), and the table has
  at least four slots (Slots). EmptySlot rests on `PutSlots`: adding an entry is
  arithmetic on the load before it, for any table size. Each action has its lemma.
* `FakerootProofs`: OneInside. Re-entrance is by a counter of the thread, not of the
  table, so the invariant has to say what the counter is at every place (Depths)
  before it can say that the lock of a table with a thread inside is taken (Taken)
  and that no second one is there (Apart). TableSound, from `TInv`: each entry lies
  on the way of its own search with no empty slot before it (Searches), the counters
  are cardinalities (Counters), the order of use lists exactly the entries in the
  table or in a compaction's hands (Ages, Compaction), and a thread that adds an
  entry has found none and has room (Absent, Room). The lemmas on searches say that
  a search visits every slot once, where it ends, and that a tombstone or an entry
  in a free place leaves the other searches alone. Refinement: with TInv an entry is
  known exactly if it is in `age`, and each step is OwnerCache's or a stutter.
* `SigsysProofs`: TrapsSound, OwnHandler, NothingSlipsBy, OneIdentity. That the filter
  compares words as addresses compare (`Words`, `FilterExact`) is arithmetic, for any
  width of a word. The invariant says that every mask or handler in other hands has an
  excuse at its own depth of nested handlers (Excuses), that an image under its filter
  has none (Sealed), what a new image begins with (Begun), that ranges of images do
  not overlap (Apart), and that under fakeroot no right is ever lost (Rooted), without
  which two routes could differ in a refusal. OneIdentity then compares each setter
  with what IdBaseline means by it, case by case.
* `ExecChainProofs`: Contained, with its exception for links that nobody follows, and
  EnvironmentKept from `EnvInv`, RightProgram, NamesKept and ReexecSame from
  `NameInv`. Every step is first brought to one of four shapes (`NextIs`): an edit, a
  call that starts nothing, an image started in the container, one that leaves it.
  EnvInv says of every image what its configuration, its saved names and both
  environments hold (Images, Settings, PassedOn); it has to follow a library through
  the lists the program has put together, hence the lemmas on Without (`WithoutKeeps`)
  and Merged. NameInv adds what an image was told (Told). Plans are followed through
  any chain of links and interpreters: `RealIs` says when the code and the kernel's
  rule arrive at one file.

Assumptions on the constants are named where they are declared; those that carry
weight: the host's filter does not trap the calls that take a path (TrapAssumption),
ranges of images are not empty (SigsysAssumption), segments have a page, a shell
exists and is a dynamic program (PlanAssumption), and what programs assign
(ChainAssumption, above). The recursive function Without and the first slots of searches
are reasoned about by the least natural number with a property (`LeastNatural`).

With TLC alone: all of the paths (PathWalk is a RECURSIVE operator); Refinement of
SysVShm beside the official runtime; and liveness (GateOpens, CriticalEnds,
CallsReturn, OneReturns), which TLAPS does not reach.

## Plan

The order was: names of files and shared memory, gate, children, ownerships; then
paths, starting programs, attachments, SIGSYS and identities. What is left:

1. `NamedSem`: sem_open as a protocol of four calls between processes
   (preload.c:8021); the slots of translated paths in syscall_guard.c.
2. `Session` (guest to host to guest), should its code take over what it leaves to
   the kernel now.

Not planned, and why, is said with each component in PROJECT.json: code whose
subject is machine instructions, ELF layout or the wording of strings.
